------------------------------ MODULE Billing ------------------------------
(***************************************************************************)
(* Subscriptions of one company (src/modules/billing/service.py): what its *)
(* users ask for (subscribe, cancel_subscription, get_me), what the        *)
(* payment provider reports through its webhook, and the provider itself   *)
(* as far as the code relies on it.                                        *)
(*                                                                         *)
(* Every await is a step.  Requests and webhook deliveries act on copies   *)
(* of a subscription and write single fields back without a test; only     *)
(* try_record tests and writes at once, through a unique index.            *)
(*                                                                         *)
(* Left out, as data no property reads: prices, fines, customers, the      *)
(* mirror of the invoices (its upsert is a place to fail, no more) and     *)
(* the length of trials and periods: trial_ends_at may pass at any time.   *)
(* No code creates a checkout, so no checkout event finds a subscription.  *)
(***************************************************************************)
EXTENDS Naturals, FiniteSets

CONSTANTS
    Requests,    \* users' requests; a subscription is known by the one that
                 \* created it
    Subscribers, \* the requests that may subscribe; the others cancel or look
    Handlers,    \* webhook deliveries in progress
    Payments,    \* the payments of a subscription, one per period
    MaxUses,     \* max_uses of the coupon
    MaxCrashes,  \* bound on deliveries that die
    Kinds,       \* the kinds of events the webhook is set up to report
    Overlap,     \* do requests and deliveries overlap?
    Faults       \* may an await raise?

ASSUME RequestAssumption == IsFiniteSet(Requests) /\ Subscribers \subseteq Requests
ASSUME CouponAssumption == MaxUses \in Nat
ASSUME CrashAssumption  == MaxCrashes \in Nat
ASSUME ModeAssumption   == Overlap \in BOOLEAN /\ Faults \in BOOLEAN

VARIABLES
    subs,     \* the billing_subscriptions collection
    used,     \* used_count of the coupon
    req,      \* where each request is
    hook,     \* where each delivery is
    seen,     \* the billing_webhook_events collection
    sent,     \* what happened at the provider, and so is reported
    acked,    \* the events answered with 200
    crashes,  \* deliveries that died
    applied,  \* history: how often each event was carried through
    dropped,  \* history: the events whose delivery died
    missed    \* history: the events no subscription was found for

local  == <<subs, used>>
remote == <<sent, acked>>
inbox  == <<seen, applied, dropped, missed>>
vars   == <<local, req, hook, remote, inbox, crashes>>

(***************************************************************************)
(* Data                                                                    *)
(***************************************************************************)

(* SubscriptionStatus, and "absent" before the document exists; no code    *)
(* writes EXPIRED.                                                         *)
AccessStatuses == {"trialing", "active", "past_due"}
OpenStatuses   == {"pending"} \cup AccessStatuses
Statuses       == {"absent", "cancelled"} \cup OpenStatuses

(* at orders created_at; trial: trial_ends_at is set; known:               *)
(* asaas_subscription_id is set; late: past_due_since is set.              *)
Cancelled_Expired == "expired"
Cancelled == "cancelled"

NoSub == [status |-> "absent", at |-> 0, trial |-> FALSE, known |-> FALSE,
          late |-> FALSE]

SubType == [status: Statuses, at: Nat, trial: BOOLEAN, known: BOOLEAN,
            late: BOOLEAN]

(* The webhook's events.                                                   *)
PaymentKinds      == {"CONFIRMED", "OVERDUE"}
SubscriptionKinds == {"CREATED", "DELETED"}

Paid(s, p)    == [kind |-> "CONFIRMED", sub |-> s, pay |-> p]
Overdue(s, p) == [kind |-> "OVERDUE", sub |-> s, pay |-> p]
Created(s)    == [kind |-> "CREATED", sub |-> s]
Deleted(s)    == [kind |-> "DELETED", sub |-> s]

Events == [kind: PaymentKinds, sub: Subscribers, pay: Payments]
            \cup [kind: SubscriptionKinds, sub: Subscribers]

(* The subscription is charged at the provider.                            *)
Live(s) == Created(s) \in sent /\ Deleted(s) \notin sent

(* Where a request is: about to list the payments of a pending             *)
(* subscription ("list") and to store what it saw ("mark"); to delete one  *)
(* at the provider and cancel it, on the way to another ("drop",           *)
(* "retire") or for good ("unbill", "close"); to load the coupon, insert   *)
(* the subscription, create it at the provider, store its id and count the *)
(* coupon.  on: the subscription at hand.                                  *)
Phases == {"idle", "list", "mark", "drop", "retire", "coupon", "store",
           "provision", "finish", "count", "unbill", "close"}

Idle == [pc |-> "idle", on |-> {}, coupon |-> FALSE]

(* A delivery holds its event, and then the copy of the subscription.      *)
HookPhases == {"idle", "find", "apply", "end"}
NoHook == [pc |-> "idle", on |-> {}, copy |-> NoSub]

Holds(h, e) == hook[h].pc # "idle" /\ hook[h].on = {e}

(* Without overlap, a request or a delivery starts when no other runs.     *)
Alone == \A r \in Requests : req[r].pc = "idle"
MayStart == Overlap \/ (Alone /\ \A h \in Handlers : hook[h].pc = "idle")

(***************************************************************************)
(* Steps of a request                                                      *)
(***************************************************************************)

Go(r, pc, on) == req' = [req EXCEPT ![r].pc = pc, ![r].on = on]
Return(r)     == req' = [req EXCEPT ![r] = Idle]

At(r, pc, s) == req[r].pc = pc /\ req[r].on = {s}

SetStatus(s, st) == subs' = [subs EXCEPT ![s].status = st]

(* get_open_for_company: the open subscription created last.               *)
OpenSubs   == {s \in Subscribers : subs[s].status \in OpenStatuses}
GetOpen(s) == s \in OpenSubs /\ \A t \in OpenSubs : subs[t].at <= subs[s].at

(* subscribe is refused while the company has access.  A pending           *)
(* subscription is handed back, after a refresh, when it is for the same   *)
(* plan and has an URL to pay at (the provider's id comes no later than    *)
(* the URL), and replaced otherwise.                                       *)
Refused_ButOverdue(s) == subs[s].status \in AccessStatuses \ {"past_due"}
Refused(s) == subs[s].status \in AccessStatuses

Replace_KeepsBilling(s) == "retire"
Replace(s) == IF subs[s].known THEN "drop" ELSE "retire"

Subscribe(r) ==
    /\ req[r].pc = "idle" /\ MayStart
    /\ r \in Subscribers /\ subs[r].status = "absent"
    /\ \/ OpenSubs = {} /\ Go(r, "coupon", {})
       \/ \E s \in OpenSubs :
            /\ GetOpen(s) /\ ~Refused(s)
            /\ IF subs[s].status # "pending"
               THEN Go(r, "coupon", {})
               ELSE \/ subs[s].known /\ Go(r, "list", {s})
                    \/ Go(r, Replace(s), {s})
    /\ UNCHANGED <<local, hook, remote, inbox, crashes>>

(* The old one is deleted at the provider: a failure is only logged.       *)
Drop(r, s) ==
    /\ At(r, "drop", s)
    /\ \/ sent' = sent \cup {Deleted(s)}
       \/ Faults /\ UNCHANGED sent
    /\ Go(r, "retire", {s})
    /\ UNCHANGED <<local, hook, acked, inbox, crashes>>

(* ... and cancelled, whatever it has become meanwhile.                    *)
Retire(r, s) ==
    /\ At(r, "retire", s)
    /\ SetStatus(s, Cancelled)
    /\ Go(r, "coupon", {})
    /\ UNCHANGED <<used, hook, remote, inbox, crashes>>

(* _load_valid_coupon, when a code was given: an exhausted one is refused, *)
(* though the old subscription is already gone.                            *)
Redeemable_OneMore == used <= MaxUses
Redeemable == used < MaxUses

LoadCoupon(r) ==
    /\ req[r].pc = "coupon"
    /\ \/ Go(r, "store", {})
       \/ /\ Redeemable
          /\ req' = [req EXCEPT ![r].pc = "store", ![r].coupon = TRUE]
       \/ ~Redeemable /\ Return(r)
    /\ UNCHANGED <<local, hook, remote, inbox, crashes>>

(* The document is inserted before the provider hears of it.               *)
Store(r) ==
    /\ req[r].pc = "store"
    /\ \E trial \in BOOLEAN :
         subs' = [subs EXCEPT ![r] =
                    [NoSub EXCEPT !.status = "pending", !.trial = trial,
                       !.at = Cardinality({s \in Subscribers :
                                              subs[s].status # "absent"}) + 1]]
    /\ Go(r, "provision", {r})
    /\ UNCHANGED <<used, hook, remote, inbox, crashes>>

(* create_subscription; its answer may be lost.                            *)
Provision(r) ==
    /\ At(r, "provision", r)
    /\ sent' = sent \cup {Created(r)}
    /\ Go(r, "finish", {r}) \/ (Faults /\ Return(r))
    /\ UNCHANGED <<local, hook, acked, inbox, crashes>>

(* The id and the status are stored, over whatever a webhook has stored    *)
(* meanwhile.                                                              *)
Finish(r) ==
    /\ At(r, "finish", r)
    /\ subs' = [subs EXCEPT
                  ![r].status = IF subs[r].trial THEN "trialing" ELSE "pending",
                  ![r].known = TRUE]
    /\ IF req[r].coupon THEN Go(r, "count", {r}) ELSE Return(r)
    /\ UNCHANGED <<used, hook, remote, inbox, crashes>>

CountCoupon(r) ==
    /\ req[r].pc = "count"
    /\ used' = used + 1
    /\ Return(r)
    /\ UNCHANGED <<subs, hook, remote, inbox, crashes>>

(* cancel_subscription: here a failure of the provider is raised.          *)
AskCancel(r) ==
    /\ req[r].pc = "idle" /\ MayStart
    /\ \E s \in OpenSubs :
         /\ GetOpen(s)
         /\ Go(r, IF subs[s].known THEN "unbill" ELSE "close", {s})
    /\ UNCHANGED <<local, hook, remote, inbox, crashes>>

Unbill(r, s) ==
    /\ At(r, "unbill", s)
    /\ sent' = sent \cup {Deleted(s)}
    /\ \/ Go(r, "close", {s})
       \/ (Faults \/ ~Live(s)) /\ Return(r)
    /\ UNCHANGED <<local, hook, acked, inbox, crashes>>

Close(r, s) ==
    /\ At(r, "close", s)
    /\ SetStatus(s, Cancelled)
    /\ Return(r)
    /\ UNCHANGED <<used, hook, remote, inbox, crashes>>

(* get_me, on the billing page and before every product route: a pending   *)
(* subscription is refreshed from the provider's list of payments.         *)
Refreshable_New(s) == subs[s].status = "pending" /\ ~subs[s].known
Refreshable(s) == subs[s].status = "pending" /\ subs[s].known

GetMe(r) ==
    /\ req[r].pc = "idle" /\ MayStart
    /\ \E s \in OpenSubs :
         /\ GetOpen(s) /\ Refreshable(s)
         /\ Go(r, "list", {s})
    /\ UNCHANGED <<local, hook, remote, inbox, crashes>>

ShowsPaid_Any(s) == \E p \in Payments : {Paid(s, p), Overdue(s, p)} \cap sent # {}
ShowsPaid(s) == \E p \in Payments : Paid(s, p) \in sent

List(r, s) ==
    /\ At(r, "list", s)
    /\ IF ShowsPaid(s) THEN Go(r, "mark", {s}) ELSE Return(r)
    /\ UNCHANGED <<local, hook, remote, inbox, crashes>>

(* What it saw is stored without another look at the status.               *)
Mark(r, s) ==
    /\ At(r, "mark", s)
    /\ subs' = [subs EXCEPT ![s].status = "active", ![s].late = FALSE]
    /\ Return(r)
    /\ UNCHANGED <<used, hook, remote, inbox, crashes>>

(* An await raises, or the process dies: the request ends there.           *)
Fail(r) ==
    /\ Faults
    /\ req[r].pc # "idle"
    /\ Return(r)
    /\ UNCHANGED <<local, hook, remote, inbox, crashes>>

(***************************************************************************)
(* The payment provider                                                    *)
(***************************************************************************)

(* A payment is confirmed, perhaps late, or runs overdue; the subscription *)
(* is deleted in the provider's own pages.                                 *)
Provider(e) ==
    /\ e \notin sent
    /\ Live(e.sub)
    /\ e.kind = "OVERDUE" => Paid(e.sub, e.pay) \notin sent
    /\ sent' = sent \cup {e}
    /\ UNCHANGED <<local, req, hook, acked, inbox, crashes>>

(***************************************************************************)
(* Steps of a webhook delivery                                             *)
(***************************************************************************)

(* An event is delivered until it is answered with 200, in any order, and  *)
(* again while an earlier delivery of it is still at work.  try_record     *)
(* inserts it, or answers that it was already processed.                   *)
Fresh_Unless(e) == applied[e] = 0
Fresh(e) == e \notin seen

Deliver(h, e) ==
    /\ hook[h].pc = "idle" /\ MayStart
    /\ e \in sent \ acked /\ e.kind \in Kinds
    /\ IF Fresh(e)
       THEN /\ seen' = seen \cup {e}
            /\ hook' = [hook EXCEPT ![h].pc = "find", ![h].on = {e}]
            /\ UNCHANGED acked
       ELSE acked' = acked \cup {e} /\ UNCHANGED <<seen, hook>>
    /\ UNCHANGED <<local, req, sent, applied, dropped, missed, crashes>>

(* The subscription is found by the provider's id, or else by the external *)
(* reference, which is its own id; no match is no error.                   *)
Found_ById(s) == subs[s].known
Found(s) == subs[s].known \/ subs[s].status # "absent"

Find(h, e) ==
    /\ Holds(h, e) /\ hook[h].pc = "find"
    /\ IF Found(e.sub)
       THEN /\ hook' = [hook EXCEPT ![h].pc = "apply", ![h].copy = subs[e.sub]]
            /\ UNCHANGED missed
       ELSE /\ hook' = [hook EXCEPT ![h].pc = "end"]
            /\ missed' = missed \cup {e}
    /\ UNCHANGED <<local, req, remote, seen, applied, dropped, crashes>>

(* What each event does to the stored subscription now, given the copy.    *)
PaidPatch_Always(copy, now) == [now EXCEPT !.status = "active", !.late = FALSE]
PaidPatch(copy, now) ==
    IF copy.status = "cancelled" THEN now
    ELSE [now EXCEPT !.status = "active", !.late = FALSE]

OverduePatch_Active(copy, now) ==
    IF copy.status = "cancelled" THEN now
    ELSE [now EXCEPT !.status = "past_due",
                     !.late = @ \/ (copy.status = "active" /\ ~copy.late)]
OverduePatch(copy, now) ==
    IF copy.status = "cancelled" THEN now
    ELSE [now EXCEPT !.status = "past_due", !.late = @ \/ ~copy.late]

(* lapsed: trial_ends_at is past.                                          *)
CreatedPatch(copy, now, lapsed) ==
    [now EXCEPT !.known = TRUE,
                !.status = IF copy.status # "pending" THEN @
                           ELSE IF copy.trial /\ ~lapsed THEN "trialing"
                           ELSE "pending"]

DeletedPatch(now) == [now EXCEPT !.known = TRUE, !.status = Cancelled]

Patches(e, copy, now) ==
    CASE e.kind = "CONFIRMED" -> {PaidPatch(copy, now)}
      [] e.kind = "OVERDUE"   -> {OverduePatch(copy, now)}
      [] e.kind = "CREATED"   -> {CreatedPatch(copy, now, b) : b \in BOOLEAN}
      [] e.kind = "DELETED"   -> {DeletedPatch(now)}

Apply(h, e) ==
    /\ Holds(h, e) /\ hook[h].pc = "apply"
    /\ \E sub \in Patches(e, hook[h].copy, subs[e.sub]) :
         subs' = [subs EXCEPT ![e.sub] = sub]
    /\ hook' = [hook EXCEPT ![h].pc = "end", ![h].copy = NoSub]
    /\ UNCHANGED <<used, req, remote, inbox, crashes>>

(* The answer is 200.                                                      *)
Answer(h, e) ==
    /\ Holds(h, e) /\ hook[h].pc = "end"
    /\ acked' = acked \cup {e}
    /\ applied' = [applied EXCEPT ![e] = @ + 1]
    /\ hook' = [hook EXCEPT ![h] = NoHook]
    /\ UNCHANGED <<local, req, sent, seen, dropped, missed, crashes>>

(* The delivery raises: its record is deleted, and the answer is an error. *)
AfterRaise_Kept(e) == seen
AfterRaise(e) == seen \ {e}

Raise(h, e) ==
    /\ Faults
    /\ Holds(h, e)
    /\ seen' = AfterRaise(e)
    /\ hook' = [hook EXCEPT ![h] = NoHook]
    /\ UNCHANGED <<local, req, remote, applied, dropped, missed, crashes>>

(* The process dies, or deleting the record raises too, or the answer is   *)
(* lost: the event stays recorded, and is delivered again.                 *)
Die(h, e) ==
    /\ crashes < MaxCrashes
    /\ Holds(h, e)
    /\ crashes' = crashes + 1
    /\ dropped' = dropped \cup {e}
    /\ hook' = [hook EXCEPT ![h] = NoHook]
    /\ UNCHANGED <<local, req, remote, seen, applied, missed>>

Init ==
    /\ subs = [s \in Subscribers |-> NoSub]
    /\ used = 0
    /\ req = [r \in Requests |-> Idle]
    /\ hook = [h \in Handlers |-> NoHook]
    /\ seen = {} /\ sent = {} /\ acked = {}
    /\ crashes = 0
    /\ applied = [e \in Events |-> 0]
    /\ dropped = {} /\ missed = {}

Continue(r) ==
    \/ LoadCoupon(r) \/ Store(r) \/ Provision(r) \/ Finish(r) \/ CountCoupon(r)
    \/ \E s \in Subscribers : \/ Drop(r, s) \/ Retire(r, s) \/ Unbill(r, s)
                           \/ Close(r, s) \/ List(r, s) \/ Mark(r, s)

Next ==
    \/ \E r \in Requests : \/ Subscribe(r) \/ AskCancel(r) \/ GetMe(r)
                           \/ Continue(r) \/ Fail(r)
    \/ \E e \in Events : \/ Provider(e)
                         \/ \E h \in Handlers :
                              \/ Deliver(h, e) \/ Find(h, e) \/ Apply(h, e)
                              \/ Answer(h, e) \/ Raise(h, e) \/ Die(h, e)

Spec == Init /\ [][Next]_vars

(***************************************************************************)
(* Properties                                                              *)
(***************************************************************************)

(* Every variable keeps its type.                                          *)
TypeOK ==
    /\ subs \in [Subscribers -> SubType]
    /\ used \in Nat
    /\ req \in [Requests -> [pc: Phases, on: SUBSET Subscribers, coupon: BOOLEAN]]
    /\ hook \in [Handlers -> [pc: HookPhases, on: SUBSET Events, copy: SubType]]
    /\ seen \subseteq Events /\ sent \subseteq Events /\ acked \subseteq Events
    /\ crashes \in Nat
    /\ applied \in [Events -> Nat]
    /\ dropped \subseteq Events /\ missed \subseteq Events

HasPaid(s) == \E p \in Payments : Paid(s, p) \in sent

(* A standing that gives access has its cause at the provider, whatever    *)
(* order webhooks, refreshes and requests write in: a trial was created    *)
(* there, an active subscription had a payment confirmed, and one past due *)
(* had a payment overdue (subscribe, _handle_payment_event,                *)
(* _refresh_pending_from_asaas).                                           *)
StandingHasCause ==
    \A s \in Subscribers :
        /\ subs[s].status = "trialing" => Created(s) \in sent
        /\ subs[s].status = "active" => HasPaid(s)
        /\ subs[s].status = "past_due" =>
              \E p \in Payments : Overdue(s, p) \in sent

(* No event of a subscription is let go as unmatched: the document is      *)
(* stored before the provider is asked, and the external reference finds   *)
(* it before the provider's id is stored.                                  *)
EventsMatched == missed = {}

(* An event that stays recorded has been carried through, or is being, or  *)
(* its delivery died: no exception loses an event (handle_webhook).        *)
RecordedIsDone ==
    \A e \in seen : \/ applied[e] > 0
                    \/ e \in dropped
                    \/ \E h \in Handlers : Holds(h, e)

(* However often an event is delivered, one delivery at a time holds it    *)
(* and it is carried through at most once (try_record's unique index).     *)
Inbox == INSTANCE EventInbox
           WITH recorded <- seen, done <- applied,
                held <- {e \in Events : \E h \in Handlers : Holds(h, e)}

EventsOnce == Inbox!InboxSpec

(* The provider delivers an event until it is answered with 200: such an   *)
(* answer, "already processed" among them, is only given for an event that *)
(* has been carried through or is being (handle_webhook).                  *)
AlreadyProcessed ==
    \A e \in acked : applied[e] > 0 \/ \E h \in Handlers : Holds(h, e)

(* What follows is checked with nothing that overlaps and no call that     *)
(* fails; webhooks still come late, in any order, or never.                *)

(* A cancelled subscription stays cancelled (the tests in                  *)
(* _handle_payment_event and _handle_subscription_event).                  *)
CancelledStays ==
    [][\A s \in Subscribers : subs[s].status = "cancelled"
                              => subs'[s].status = "cancelled"]_vars

(* What the company does not see as open is not charged at the provider    *)
(* (subscribe replaces, and cancel_subscription cancels, there first).     *)
ChargedIsOpen ==
    \A s \in Subscribers : Live(s) => s \in OpenSubs

(* A company is charged for one subscription at most: subscribe refuses,   *)
(* hands back or replaces the one it has.                                  *)
ChargedOnce ==
    \A s, t \in Subscribers : Live(s) /\ Live(t) => s = t

(* The coupon is not used more often than its limit allows                 *)
(* (_load_valid_coupon and increment_used).                                *)
CouponLimit == used <= MaxUses

(* The days of grace run for every subscription past due (_has_access      *)
(* grants access for ever when past_due_since is not set).                 *)
GraceEnds ==
    \A s \in Subscribers : subs[s].status = "past_due" => subs[s].late

=============================================================================
