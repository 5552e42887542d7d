----------------------------- MODULE Campaigns -----------------------------
(***************************************************************************)
(* Notification campaigns (src/modules/notifications/service.py) and the   *)
(* worker that sends the scheduled ones                                    *)
(* (src/workers/notifications/runner.py).                                  *)
(*                                                                         *)
(* Worker processes and administrators' requests work on the same stored   *)
(* campaigns.  Only claim_for_processing tests and changes the status in   *)
(* one step; create, cancel, send_now and the end of a delivery write it   *)
(* whatever it has become since they read it.  Every await is a step: a    *)
(* call may raise there, and a process may die there.                      *)
(***************************************************************************)
EXTENDS Naturals, FiniteSets

CONSTANTS
    Campaigns,    \* the campaigns administrators may create
    Users,        \* the people they may address
    Mailed,       \* those of them who have an e-mail address
    ChannelSets,  \* the sets of channels they may choose
    Workers,      \* worker processes
    Requests,     \* administrators' requests: each is made once
    Ops,          \* what they ask for
    SendTimes,    \* send_at they may choose; 0 is "now"
    Horizon,      \* bound on the clock
    MaxCrashes    \* bound on the deaths and on the failures never stored

Channels == {"in_app", "email"}
AllOps   == {"create", "cancel", "send_now"}

ASSUME ChannelsAssumption == \A s \in ChannelSets : s \subseteq Channels /\ s # {}
ASSUME UsersAssumption    == IsFiniteSet(Users)
ASSUME ProcsAssumption    == /\ IsFiniteSet(Workers) /\ IsFiniteSet(Requests)
                             /\ Workers \cap Requests = {}
                             /\ Ops \subseteq AllOps
ASSUME BoundsAssumption   == SendTimes \subseteq Nat /\ Horizon \in Nat
                             /\ MaxCrashes \in Nat

Procs == Workers \cup Requests

VARIABLES
    camp,     \* the notification_campaigns collection
    got,      \* got[c][u, ch]: copies of c that u received over channel ch
    proc,     \* where each process is
    now,      \* the clock
    crashes,  \* deaths, and failures that could not be stored
    grants,   \* history: decisions to send each campaign (create, send_now)
    takes     \* history: successful claims of each campaign

vars == <<camp, got, proc, now, crashes, grants, takes>>

(* NotificationCampaignStatus, and "absent" before the campaign exists.    *)
Statuses == {"absent", "draft", "scheduled", "processing", "sent", "failed",
             "cancelled"}

(* What claim_for_processing accepts.                                      *)
Claimable == {"scheduled", "draft"}

Absent == [status |-> "absent", at |-> 0, channels |-> {}, delivered |-> 0]

(* Where a process is: between two scans ("idle"), about to take the next  *)
(* campaign of its scan ("next"), about to cancel, reset, check, claim,    *)
(* resolve the recipients, send, store the outcome ("settle" once nobody   *)
(* is left), or store a failure ("giveup"); a request starts "new" and     *)
(* ends "done".                                                            *)
Phases == {"idle", "next", "new", "cancel", "reset", "check", "claim",
           "resolve", "send", "giveup", "done"}

(* on: the campaign at hand; batch: those of the scan still to take; todo: *)
(* users still to serve; ok, total: users served and users addressed.      *)
At(pc, batch) ==
    [pc |-> pc, on |-> {}, batch |-> batch, todo |-> {}, ok |-> 0, total |-> 0]

Working == {"resolve", "send", "giveup"}

Holds(p, c) == proc[p].pc \in Working /\ proc[p].on = {c}

(***************************************************************************)
(* Steps of a process                                                      *)
(***************************************************************************)

Become(p, q) == proc' = [proc EXCEPT ![p] = q]

SetStatus(c, s) == camp' = [camp EXCEPT ![c].status = s]

(* deliver is over, by a return or by an exception: a request is answered, *)
(* and the worker, which catches the exception, goes on with its scan.     *)
Return(p) ==
    Become(p, IF p \in Workers THEN At("next", proc[p].batch) ELSE At("done", {}))

(* list_due_scheduled.                                                     *)
Due(c) == camp[c].status = "scheduled" /\ camp[c].at <= now

Scan(w) ==
    /\ proc[w].pc = "idle"
    /\ Become(w, At("next", {c \in Campaigns : Due(c)}))
    /\ UNCHANGED <<camp, got, now, crashes, grants, takes>>

(* The next campaign of the scan, however old the scan is; or sleep.       *)
Take(w) ==
    /\ proc[w].pc = "next"
    /\ \/ \E c \in proc[w].batch :
            Become(w, [At("check", proc[w].batch \ {c}) EXCEPT !.on = {c}])
       \/ proc[w].batch = {} /\ Become(w, At("idle", {}))
    /\ UNCHANGED <<camp, got, now, crashes, grants, takes>>

(* create: a campaign whose time has come is a draft, delivered at once.   *)
Create(r, c, at, chs) ==
    /\ proc[r].pc = "new"
    /\ camp[c].status = "absent"
    /\ camp' = [camp EXCEPT ![c] =
                  [status |-> IF at <= now THEN "draft" ELSE "scheduled",
                   at |-> at, channels |-> chs, delivered |-> 0]]
    /\ grants' = [grants EXCEPT ![c] = @ + 1]
    /\ Become(r, IF at <= now THEN [At("check", {}) EXCEPT !.on = {c}]
                              ELSE At("done", {}))
    /\ UNCHANGED <<got, now, crashes, takes>>

(* cancel and send_now read the status, and refuse ...                     *)
Cancellable == {"scheduled"}
Sendable    == {"draft", "scheduled", "failed"}

Ask(r, c, accepted, pc) ==
    /\ proc[r].pc = "new"
    /\ camp[c].status # "absent"
    /\ Become(r, IF camp[c].status \in accepted
                 THEN [At(pc, {}) EXCEPT !.on = {c}] ELSE At("done", {}))
    /\ UNCHANGED <<camp, got, now, crashes, grants, takes>>

AskCancel(r, c)  == Ask(r, c, Cancellable, "cancel")
AskSendNow(r, c) == Ask(r, c, Sendable, "reset")

(* ... and write what they decided, whatever the status is by then.        *)
Cancel(r, c) ==
    /\ proc[r].pc = "cancel" /\ proc[r].on = {c}
    /\ SetStatus(c, "cancelled")
    /\ Become(r, At("done", {}))
    /\ UNCHANGED <<got, now, crashes, grants, takes>>

Reset(r, c) ==
    /\ proc[r].pc = "reset" /\ proc[r].on = {c}
    /\ camp' = [camp EXCEPT ![c].status = "draft", ![c].at = 0]
    /\ grants' = [grants EXCEPT ![c] = @ + 1]
    /\ Become(r, [proc[r] EXCEPT !.pc = "check"])
    /\ UNCHANGED <<got, now, crashes, takes>>

(* deliver reads the status, then claims.                                  *)
Check(p, c) ==
    /\ proc[p].pc = "check" /\ proc[p].on = {c}
    /\ IF camp[c].status \in {"sent", "cancelled"}
       THEN Return(p)
       ELSE Become(p, [proc[p] EXCEPT !.pc = "claim"])
    /\ UNCHANGED <<camp, got, now, crashes, grants, takes>>

(* claim_for_processing: one find_one_and_update.                          *)
CanClaim_Any(c) == camp[c].status \in Claimable \cup {"processing"}
CanClaim_Drafts(c) == camp[c].status = "draft"
CanClaim(c) == camp[c].status \in Claimable

Claim(p, c) ==
    /\ proc[p].pc = "claim" /\ proc[p].on = {c}
    /\ CanClaim(c)
    /\ SetStatus(c, "processing")
    /\ takes' = [takes EXCEPT ![c] = @ + 1]
    /\ Become(p, [proc[p] EXCEPT !.pc = "resolve"])
    /\ UNCHANGED <<got, now, crashes, grants>>

LoseClaim(p, c) ==
    /\ proc[p].pc = "claim" /\ proc[p].on = {c}
    /\ ~CanClaim(c)
    /\ Return(p)
    /\ UNCHANGED <<camp, got, now, crashes, grants, takes>>

(* resolve_recipient_ids: whoever is active now among those addressed.     *)
Resolve(p) ==
    /\ proc[p].pc = "resolve"
    /\ \E us \in SUBSET Users :
         Become(p, [proc[p] EXCEPT !.pc = "send", !.todo = us,
                                   !.total = Cardinality(us)])
    /\ UNCHANGED <<camp, got, now, crashes, grants, takes>>

(* The channels on which u can be served: no address, no e-mail.           *)
Wanted(c, u) == {ch \in camp[c].channels : ch = "email" => u \in Mailed}

(* One user: the in-app row, its publication, then the e-mail.  Without an *)
(* exception every channel is served; an exception leaves what was already *)
(* done, and the e-mail only follows the row.                              *)
Reached(chs, served) ==
    IF served THEN {chs}
    ELSE {s \in SUBSET chs : "email" \in s /\ "in_app" \in chs => "in_app" \in s}

Served_Attempted(q, served) == q.ok + 1
Served(q, served) == IF served THEN q.ok + 1 ELSE q.ok

Deliver(p, c, u) ==
    /\ proc[p].pc = "send" /\ proc[p].on = {c}
    /\ u \in proc[p].todo
    /\ \E served \in BOOLEAN : \E chs \in Reached(Wanted(c, u), served) :
         /\ Wanted(c, u) = {} => served
         /\ got' = [got EXCEPT ![c] = [k \in Users \X Channels |->
                      IF k[1] = u /\ k[2] \in chs THEN @[k] + 1 ELSE @[k]]]
         /\ Become(p, [proc[p] EXCEPT !.todo = @ \ {u},
                                      !.ok = Served(proc[p], served)])
    /\ UNCHANGED <<camp, now, crashes, grants, takes>>

(* The outcome is stored whatever the status has become.                   *)
Outcome_Partial(q) == IF q.ok < q.total THEN "partial" ELSE "sent"
Outcome(q) == IF q.ok = 0 /\ q.total > 0 THEN "failed" ELSE "sent"

Settle(p, c) ==
    /\ proc[p].pc = "send" /\ proc[p].on = {c}
    /\ proc[p].todo = {}
    /\ camp' = [camp EXCEPT ![c].status = Outcome(proc[p]),
                            ![c].delivered = proc[p].ok]
    /\ Return(p)
    /\ UNCHANGED <<got, now, crashes, grants, takes>>

(* Resolving the recipients, or storing the outcome, raises: deliver       *)
(* stores FAILED and lets the exception go on.                             *)
Raise(p) ==
    /\ \/ proc[p].pc = "resolve"
       \/ proc[p].pc = "send" /\ proc[p].todo = {}
    /\ Become(p, [proc[p] EXCEPT !.pc = "giveup", !.ok = 0, !.total = 0])
    /\ UNCHANGED <<camp, got, now, crashes, grants, takes>>

AfterRaise_Kept(c) == camp[c].status
AfterRaise(c) == "failed"

GiveUp(p, c) ==
    /\ proc[p].pc = "giveup" /\ proc[p].on = {c}
    /\ SetStatus(c, AfterRaise(c))
    /\ Return(p)
    /\ UNCHANGED <<got, now, crashes, grants, takes>>

(* Reading the status, or claiming, raises before anything is claimed.     *)
Abort(p) ==
    /\ proc[p].pc \in {"cancel", "reset", "check", "claim"}
    /\ Return(p)
    /\ UNCHANGED <<camp, got, now, crashes, grants, takes>>

(* A process dies: the container restarts a worker, a request is lost.  Or *)
(* storing FAILED raises too, and the campaign is left as by a death.      *)
Crash(p) ==
    /\ crashes < MaxCrashes
    /\ proc[p].pc \notin {"idle", "new", "done"}
    /\ crashes' = crashes + 1
    /\ \/ Become(p, IF p \in Workers THEN At("idle", {}) ELSE At("done", {}))
       \/ proc[p].pc = "giveup" /\ Return(p)
    /\ UNCHANGED <<camp, got, now, grants, takes>>

Tick ==
    /\ now < Horizon
    /\ now' = now + 1
    /\ UNCHANGED <<camp, got, proc, crashes, grants, takes>>

DeliverStep(p) ==
    \/ \E c \in Campaigns :
         \/ Check(p, c) \/ Claim(p, c) \/ LoseClaim(p, c)
         \/ Settle(p, c) \/ GiveUp(p, c)
         \/ \E u \in Users : Deliver(p, c, u)
    \/ Resolve(p)

WorkerStep(w) == Scan(w) \/ Take(w) \/ DeliverStep(w)

RequestStep(r) ==
    \/ \E c \in Campaigns :
         \/ /\ "create" \in Ops
            /\ \E at \in SendTimes, chs \in ChannelSets : Create(r, c, at, chs)
         \/ "cancel" \in Ops /\ AskCancel(r, c)
         \/ "send_now" \in Ops /\ AskSendNow(r, c)
         \/ Cancel(r, c)
         \/ Reset(r, c)
    \/ DeliverStep(r)

Init ==
    /\ camp = [c \in Campaigns |-> Absent]
    /\ got = [c \in Campaigns |-> [k \in Users \X Channels |-> 0]]
    /\ proc = [p \in Procs |-> At(IF p \in Workers THEN "idle" ELSE "new", {})]
    /\ now = 0
    /\ crashes = 0
    /\ grants = [c \in Campaigns |-> 0]
    /\ takes = [c \in Campaigns |-> 0]

Next ==
    \/ Tick
    \/ \E w \in Workers : WorkerStep(w)
    \/ \E r \in Requests : RequestStep(r)
    \/ \E p \in Procs : Raise(p) \/ Abort(p) \/ Crash(p)

Spec == Init /\ [][Next]_vars

(***************************************************************************)
(* Properties                                                              *)
(***************************************************************************)

(* Every variable keeps its type.                                          *)
TypeOK ==
    /\ camp \in [Campaigns -> [status: Statuses, at: Nat,
                               channels: SUBSET Channels, delivered: Nat]]
    /\ got \in [Campaigns -> [Users \X Channels -> Nat]]
    /\ proc \in [Procs -> [pc: Phases, on: SUBSET Campaigns,
                           batch: SUBSET Campaigns, todo: SUBSET Users,
                           ok: Nat, total: Nat]]
    /\ now \in Nat
    /\ crashes \in Nat
    /\ grants \in [Campaigns -> Nat]
    /\ takes \in [Campaigns -> Nat]

(* The claims are a ledger: a campaign is open while its status is one     *)
(* that claim_for_processing accepts.                                      *)
Ledger == INSTANCE ClaimLedger
            WITH open <- {c \in Campaigns : camp[c].status \in Claimable}

(* Each decision to send is used by at most one delivery run, with any     *)
(* number of workers, racing requests, stale reads and crashes.            *)
ClaimsKeepLedger == Ledger!LedgerSpec

(* Nobody receives a campaign more often, over one channel, than           *)
(* administrators decided to send it: workers, retries and restarts add no *)
(* copy of their own (claim_for_processing and the loop in deliver).       *)
CopiesGranted ==
    \A c \in Campaigns, u \in Users, ch \in Channels :
        got[c][<<u, ch>>] <= grants[c]

(* The number of delivered users that an administrator sees is never more  *)
(* than the users who hold the campaign on every channel of theirs.        *)
StatsHonest ==
    \A c \in Campaigns :
        camp[c].delivered <=
            Cardinality({u \in Users : \A ch \in Wanted(c, u) :
                                           got[c][<<u, ch>>] > 0})

(* "Only scheduled campaigns can be cancelled": a cancelled campaign is    *)
(* not being delivered (cancel's guard and its refusal).                   *)
CancelledIsQuiet ==
    \A c \in Campaigns, p \in Procs :
        camp[c].status = "cancelled" => ~Holds(p, c)

=============================================================================
