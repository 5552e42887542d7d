---------------------------- MODULE MCCampaigns ----------------------------
(* Small instances of Campaigns for TLC.                                   *)
EXTENDS Campaigns, TLC

ProcSymmetry == Permutations(Workers) \cup Permutations(Requests)

BothChannels == {{"in_app", "email"}}
OneChannel   == {{"email"}}

(***************************************************************************)
(* The worker under fairness                                               *)
(***************************************************************************)

(* The event loop runs a started handler on, a worker that dies is started *)
(* again by its container, and time passes.  Reading or claiming the same  *)
(* campaign scan after scan does not raise every time.                     *)
FairSpec ==
    /\ Spec
    /\ WF_vars(Tick)
    /\ \A w \in Workers :
         /\ WF_vars(WorkerStep(w) \/ Raise(w))
         /\ \A c \in Campaigns : /\ SF_vars(Check(w, c))
                                /\ SF_vars(Claim(w, c) \/ LoseClaim(w, c))
    /\ \A r \in Requests : WF_vars(DeliverStep(r) \/ Raise(r))

(* A scheduled campaign whose time has come does not stay scheduled: some  *)
(* worker takes it, or an administrator decides otherwise, even if         *)
(* deliveries of other campaigns raise and workers die.                    *)
DueIsTaken ==
    \A c \in Campaigns : Due(c) ~> camp[c].status # "scheduled"

(* While nobody dies and FAILED can be stored, a campaign does not stay in *)
(* processing: deliver stores an outcome, or FAILED when it raises.        *)
ClaimSettles ==
    \A c \in Campaigns :
        camp[c].status = "processing"
            ~> (camp[c].status # "processing" \/ crashes > 0)

=============================================================================
