----------------------------- MODULE MCBilling -----------------------------
(* Small instances of Billing for TLC.                                     *)
EXTENDS Billing, TLC

(***************************************************************************)
(* Billing under fairness                                                  *)
(***************************************************************************)

(* The event loop runs a started request or delivery on; a user of the     *)
(* product calls get_me with every request, and it is not every time that  *)
(* listing the payments, or storing what they show, raises.                *)
FairSpec ==
    /\ Spec
    /\ \A r \in Requests : WF_vars(Continue(r))
    /\ \A h \in Handlers : WF_vars(\E e \in Events : \/ Find(h, e) \/ Apply(h, e)
                                                      \/ Answer(h, e))
    /\ SF_vars(\E r \in Requests : GetMe(r))
    /\ \A s \in Subscribers : /\ SF_vars(\E r \in Requests : List(r, s))
                              /\ SF_vars(\E r \in Requests : Mark(r, s))

(* A payment whose webhook was lost, or came before the subscription's id  *)
(* was stored, is found by get_me: the subscription does not stay pending. *)
PaidIsNoticed ==
    \A s \in Subscribers :
        (subs[s].status = "pending" /\ subs[s].known /\ HasPaid(s))
            ~> subs[s].status # "pending"

=============================================================================
