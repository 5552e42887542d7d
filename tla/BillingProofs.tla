--------------------------- MODULE BillingProofs ---------------------------
(***************************************************************************)
(* Theorems about Billing, for any number of requests, deliveries and      *)
(* payments, with and without overlap and failures.                        *)
(*                                                                         *)
(* The argument: what happens at the provider only grows, so whatever a    *)
(* request or a delivery has seen there is still true when it writes       *)
(* (Request, Hook); a subscription is stored before the provider hears of  *)
(* it and never deleted, so every event has its document (Reported); and   *)
(* the unique index admits one delivery per recorded event (Hook,          *)
(* Exclusive).  Without overlap, whoever is at work finds what it read as  *)
(* it was (SInv), and without failures it leaves nothing charged that is   *)
(* not open (CInv).                                                        *)
(***************************************************************************)
EXTENDS Billing, FiniteSetTheorems, TLAPS

Places == [pc: Phases, on: SUBSET Subscribers, coupon: BOOLEAN]
Hooks  == [pc: HookPhases, on: SUBSET Events, copy: SubType]

Stored(s) == subs[s].status # "absent"

(* On its way to a new subscription.                                       *)
Subscribing == {"drop", "retire", "coupon", "store", "provision", "finish", "count"}

Request(r) ==
    /\ req[r].pc \in Subscribing => r \in Subscribers
    /\ \A s \in req[r].on : Stored(s)
    /\ req[r].pc = "finish" => Created(r) \in sent
    /\ req[r].pc = "mark" => \A s \in req[r].on : HasPaid(s)

Reported == \A e \in sent : Stored(e.sub)

Hook(h) ==
    /\ hook[h].pc # "idle" => \E e \in seen : hook[h].on = {e}
    /\ hook[h].pc = "idle" => hook[h].on = {}

Exclusive == \A h, k \in Handlers, e \in Events : Holds(h, e) /\ Holds(k, e) => h = k

BInv ==
    /\ TypeOK
    /\ StandingHasCause
    /\ EventsMatched
    /\ RecordedIsDone
    /\ \A r \in Requests : Request(r)
    /\ Reported
    /\ seen \subseteq sent
    /\ \A h \in Handlers : Hook(h)
    /\ Exclusive

-----------------------------------------------------------------------------
(* Lemmas                                                                  *)

(* An event is one of the four, of a subscription.                         *)
LEMMA EventShape ==
    ASSUME NEW e \in Events
    PROVE  /\ e.sub \in Subscribers
           /\ e.kind \in {"CONFIRMED", "OVERDUE", "CREATED", "DELETED"}
           /\ e.kind = "CONFIRMED" => e.pay \in Payments /\ e = Paid(e.sub, e.pay)
           /\ e.kind = "OVERDUE" => e.pay \in Payments /\ e = Overdue(e.sub, e.pay)
           /\ e.kind = "CREATED" => e = Created(e.sub)
           /\ e.kind = "DELETED" => e = Deleted(e.sub)
BY DEF Events, PaymentKinds, SubscriptionKinds, Paid, Overdue, Created, Deleted

(* The provider's reports of a subscription are events.                    *)
LEMMA ReportShape ==
    ASSUME NEW s \in Subscribers
    PROVE  /\ Created(s) \in Events /\ Created(s).sub = s
           /\ Deleted(s) \in Events /\ Deleted(s).sub = s
BY DEF Events, SubscriptionKinds, Created, Deleted

(* The number of stored subscriptions is a number.                         *)
LEMMA StoredCount ==
    Cardinality({s \in Subscribers : Stored(s)}) \in Nat
BY RequestAssumption, FS_Subset, FS_CardinalityType

(* What is known of the provider stays known.                              *)
LEMMA CauseStays ==
    ASSUME StandingHasCause, UNCHANGED subs, sent \subseteq sent'
    PROVE  StandingHasCause'
BY DEF StandingHasCause, HasPaid

(* Storing one subscription with a cause for its standing.                 *)
LEMMA CauseOfOne ==
    ASSUME StandingHasCause, TypeOK, NEW s \in Subscribers, NEW d \in SubType,
           subs' = [subs EXCEPT ![s] = d], UNCHANGED sent,
           d.status = "trialing" => Created(s) \in sent,
           d.status = "active" => HasPaid(s),
           d.status = "past_due" => \E p \in Payments : Overdue(s, p) \in sent
    PROVE  StandingHasCause'
<1> SUFFICES ASSUME NEW t \in Subscribers
             PROVE  /\ subs'[t].status = "trialing" => Created(t) \in sent
                    /\ subs'[t].status = "active" => HasPaid(t)
                    /\ subs'[t].status = "past_due" =>
                         \E p \in Payments : Overdue(t, p) \in sent
  BY DEF StandingHasCause, HasPaid
<1>1. CASE t = s
  BY <1>1 DEF TypeOK
<1>2. CASE t # s
  <2>1. subs'[t] = subs[t]
    BY <1>2 DEF TypeOK
  <2>. QED  BY <2>1 DEF StandingHasCause
<1>. QED  BY <1>1, <1>2

(* A step that leaves the deliveries alone.                                *)
LEMMA DeliveriesKept ==
    ASSUME BInv, UNCHANGED <<hook, inbox>>, sent \subseteq sent'
    PROVE  /\ EventsMatched' /\ RecordedIsDone' /\ (seen \subseteq sent)'
           /\ \A h \in Handlers : Hook(h)'
           /\ Exclusive'
<1>1. hook' = hook /\ seen' = seen /\ applied' = applied /\ dropped' = dropped
      /\ missed' = missed
  BY DEF inbox
<1>2. EventsMatched' /\ (seen \subseteq sent)'
  BY <1>1 DEF BInv, EventsMatched
<1>3. RecordedIsDone'
  BY <1>1 DEF BInv, RecordedIsDone, Holds
<1>4. \A h \in Handlers : Hook(h)'
  BY <1>1 DEF BInv, Hook
<1>5. Exclusive'
  BY <1>1 DEF BInv, Exclusive, Holds
<1>. QED  BY <1>2, <1>3, <1>4, <1>5

(* A step that leaves the requests alone and forgets no subscription.      *)
LEMMA RequestsKept ==
    ASSUME BInv, UNCHANGED req, sent \subseteq sent',
           \A s \in Subscribers : Stored(s) => Stored(s)'
    PROVE  \A r \in Requests : Request(r)'
<1> SUFFICES ASSUME NEW r \in Requests
             PROVE  Request(r)'
  OBVIOUS
<1>1. Request(r) /\ req[r].on \subseteq Subscribers
  BY DEF BInv, TypeOK
<1>2. \A s : HasPaid(s) => HasPaid(s)'
  BY DEF HasPaid
<1>. QED  BY <1>1, <1>2 DEF Request

(* A step of a request: it moves to q, what it holds is stored, and the    *)
(* invariant's other parts are kept.                                       *)
LEMMA RequestStep ==
    ASSUME BInv, NEW r \in Requests, NEW q \in Places,
           req' = [req EXCEPT ![r] = q],
           UNCHANGED <<hook, inbox, acked, crashes>>,
           subs' \in [Subscribers -> SubType], used' \in Nat,
           sent \subseteq sent', sent' \subseteq Events,
           StandingHasCause', Reported',
           \A s \in Subscribers : Stored(s) => Stored(s)',
           q.pc \in Subscribing => r \in Subscribers,
           \A s \in q.on : Stored(s)',
           q.pc = "finish" => Created(r) \in sent',
           q.pc = "mark" => \A s \in q.on : HasPaid(s)'
    PROVE  BInv'
<1>1. TypeOK'
  BY DEF BInv, TypeOK, Places, inbox
<1>2. /\ EventsMatched' /\ RecordedIsDone' /\ (seen \subseteq sent)'
      /\ \A h \in Handlers : Hook(h)'
      /\ Exclusive'
  BY DeliveriesKept
<1>3. ASSUME NEW k \in Requests
      PROVE  Request(k)'
  <2>1. CASE k = r
    <3>1. req'[r] = q
      BY DEF BInv, TypeOK
    <3>. QED  BY <2>1, <3>1 DEF Request
  <2>2. CASE k # r
    <3>1. req'[k] = req[k]
      BY <2>2 DEF BInv, TypeOK
    <3>2. Request(k) /\ req[k].on \subseteq Subscribers
      BY DEF BInv, TypeOK
    <3>3. \A s : HasPaid(s) => HasPaid(s)'
      BY DEF HasPaid
    <3>. QED  BY <3>1, <3>2, <3>3 DEF Request
  <2>. QED  BY <2>1, <2>2
<1>. QED  BY <1>1, <1>2, <1>3 DEF BInv

(* Where a request goes, and where it ends.                                *)
LEMMA Goes ==
    ASSUME TypeOK, NEW r \in Requests, NEW pc \in Phases,
           NEW on \in SUBSET Subscribers, Go(r, pc, on)
    PROVE  \E q \in Places : /\ req' = [req EXCEPT ![r] = q]
                             /\ q.pc = pc /\ q.on = on
<1> DEFINE q == [req[r] EXCEPT !.pc = pc, !.on = on]
<1>1. q \in Places /\ q.pc = pc /\ q.on = on
  BY DEF TypeOK, Places
<1>2. req' = [req EXCEPT ![r] = q]
  BY DEF Go, TypeOK
<1>. QED  BY <1>1, <1>2

LEMMA Returns ==
    ASSUME NEW r \in Requests, Return(r)
    PROVE  \E q \in Places : /\ req' = [req EXCEPT ![r] = q]
                             /\ q.pc = "idle" /\ q.on = {}
<1>1. Idle \in Places /\ Idle.pc = "idle" /\ Idle.on = {}
  BY DEF Idle, Places, Phases
<1>. QED  BY <1>1 DEF Return

(* A step of a request that changes nothing but its place, and perhaps     *)
(* counts a coupon.                                                        *)
LEMMA Moves ==
    ASSUME BInv, NEW r \in Requests, NEW q \in Places,
           req' = [req EXCEPT ![r] = q],
           UNCHANGED <<subs, hook, remote, inbox, crashes>>, used' \in Nat,
           q.pc \in Subscribing => r \in Subscribers,
           \A s \in q.on : Stored(s),
           q.pc \notin {"finish", "mark"}
    PROVE  BInv'
<1>1. subs' = subs /\ sent' = sent /\ acked' = acked
  BY DEF remote
<1>2. /\ subs' \in [Subscribers -> SubType]
      /\ sent \subseteq sent' /\ sent' \subseteq Events
      /\ \A s \in Subscribers : Stored(s) => Stored(s)'
      /\ \A s \in q.on : Stored(s)'
  BY <1>1 DEF BInv, TypeOK, Stored
<1>3. StandingHasCause'
  BY <1>1, CauseStays DEF BInv
<1>4. Reported'
  BY <1>1 DEF BInv, Reported, Stored
<1>. QED  BY <1>1, <1>2, <1>3, <1>4, RequestStep

(* An open subscription is stored.                                         *)
LEMMA OpenStored ==
    ASSUME NEW s \in OpenSubs
    PROVE  s \in Subscribers /\ Stored(s)
BY DEF OpenSubs, OpenStatuses, AccessStatuses, Stored

-----------------------------------------------------------------------------
(* The steps of a request                                                  *)

LEMMA BSubscribe ==
    ASSUME BInv, NEW r \in Requests, Subscribe(r)
    PROVE  BInv'
<1>1. /\ r \in Subscribers /\ TypeOK
      /\ UNCHANGED <<subs, hook, remote, inbox, crashes>> /\ used' \in Nat
  BY DEF Subscribe, local, BInv, TypeOK
<1>2. PICK pc \in {"coupon", "list", "drop", "retire"}, on \in SUBSET OpenSubs : Go(r, pc, on)
  <2>1. CASE OpenSubs = {} /\ Go(r, "coupon", {})
    BY <2>1
  <2>2. ASSUME NEW s \in OpenSubs,
               IF subs[s].status # "pending"
               THEN Go(r, "coupon", {})
               ELSE \/ subs[s].known /\ Go(r, "list", {s})
                    \/ Go(r, Replace(s), {s})
        PROVE  \E pc \in {"coupon", "list", "drop", "retire"}, on \in SUBSET OpenSubs :
                 Go(r, pc, on)
    BY <2>2 DEF Replace
  <2>. QED  BY <2>1, <2>2 DEF Subscribe
<1>3. pc \in Phases /\ on \in SUBSET Subscribers /\ \A s \in on : Stored(s)
  BY OpenStored DEF Phases
<1>4. PICK q \in Places : req' = [req EXCEPT ![r] = q] /\ q.pc = pc /\ q.on = on
  BY <1>1, <1>2, <1>3, Goes
<1>. QED  BY <1>1, <1>3, <1>4, Moves

LEMMA BLoadCoupon ==
    ASSUME BInv, NEW r \in Requests, LoadCoupon(r)
    PROVE  BInv'
<1>1. /\ TypeOK /\ r \in Subscribers
      /\ UNCHANGED <<subs, hook, remote, inbox, crashes>> /\ used' \in Nat
  BY DEF LoadCoupon, local, BInv, TypeOK, Request, Subscribing
<1>2. PICK q \in Places : /\ req' = [req EXCEPT ![r] = q]
                          /\ q.pc \in {"store", "idle"}
                          /\ \A s \in q.on : Stored(s)
  <2>1. CASE Go(r, "store", {})
    BY <1>1, <2>1, Goes DEF Phases
  <2>2. CASE Return(r)
    BY <2>2, Returns
  <2>3. CASE req' = [req EXCEPT ![r].pc = "store", ![r].coupon = TRUE]
    <3> DEFINE q == [req[r] EXCEPT !.pc = "store", !.coupon = TRUE]
    <3>1. req[r] \in Places /\ \A s \in req[r].on : Stored(s)
      BY <1>1 DEF TypeOK, Places, BInv, Request
    <3>2. q \in Places /\ q.pc = "store" /\ q.on = req[r].on
      BY <3>1 DEF Places, Phases
    <3>3. req' = [req EXCEPT ![r] = q]
      BY <2>3, <1>1 DEF TypeOK
    <3>. QED  BY <3>1, <3>2, <3>3
  <2>. QED  BY <2>1, <2>2, <2>3 DEF LoadCoupon
<1>. QED  BY <1>1, <1>2, Moves

LEMMA BMoves ==
    ASSUME BInv, NEW r \in Requests,
           CountCoupon(r) \/ AskCancel(r) \/ GetMe(r) \/ Fail(r)
    PROVE  BInv'
<1>1. TypeOK /\ UNCHANGED <<subs, hook, remote, inbox, crashes>> /\ used' \in Nat
  BY DEF CountCoupon, AskCancel, GetMe, Fail, local, BInv, TypeOK
<1>2. PICK q \in Places : /\ req' = [req EXCEPT ![r] = q]
                          /\ q.pc \in {"idle", "unbill", "close", "list"}
                          /\ \A s \in q.on : Stored(s)
  <2>1. CASE Return(r)
    BY <2>1, Returns
  <2>2. ASSUME NEW s \in OpenSubs, NEW pc \in {"unbill", "close", "list"}, Go(r, pc, {s})
        PROVE  \E q \in Places : /\ req' = [req EXCEPT ![r] = q]
                                 /\ q.pc \in {"idle", "unbill", "close", "list"}
                                 /\ \A t \in q.on : Stored(t)
    <3>1. s \in Subscribers /\ Stored(s) /\ pc \in Phases
      BY OpenStored DEF Phases
    <3>2. \E q \in Places : req' = [req EXCEPT ![r] = q] /\ q.pc = pc /\ q.on = {s}
      BY <1>1, <2>2, <3>1, Goes
    <3>. QED  BY <3>1, <3>2
  <2>. QED  BY <2>1, <2>2 DEF CountCoupon, AskCancel, GetMe, Fail
<1>. QED  BY <1>1, <1>2, Moves DEF Subscribing

LEMMA BList ==
    ASSUME BInv, NEW r \in Requests, NEW s \in Subscribers, List(r, s)
    PROVE  BInv'
<1>1. /\ TypeOK /\ UNCHANGED <<subs, used, hook, remote, inbox, crashes>>
      /\ Stored(s) /\ used' \in Nat
  BY DEF List, local, BInv, TypeOK, Request, At
<1>2. CASE Return(r)
  <2>1. PICK q \in Places : req' = [req EXCEPT ![r] = q] /\ q.pc = "idle" /\ q.on = {}
    BY <1>2, Returns
  <2>. QED  BY <1>1, <2>1, Moves DEF Subscribing
<1>3. CASE ShowsPaid(s) /\ Go(r, "mark", {s})
  <2>1. PICK q \in Places : req' = [req EXCEPT ![r] = q] /\ q.pc = "mark" /\ q.on = {s}
    BY <1>1, <1>3, Goes DEF Phases
  <2>2. subs' = subs /\ sent' = sent /\ acked' = acked
    BY <1>1 DEF remote
  <2>3. /\ subs' \in [Subscribers -> SubType]
        /\ sent \subseteq sent' /\ sent' \subseteq Events
        /\ \A t \in Subscribers : Stored(t) => Stored(t)'
        /\ \A t \in q.on : Stored(t)'
        /\ \A t \in q.on : HasPaid(t)'
    BY <1>1, <1>3, <2>1, <2>2 DEF TypeOK, Stored, ShowsPaid, HasPaid
  <2>4. StandingHasCause' /\ Reported'
    BY <2>2, CauseStays DEF BInv, Reported, Stored
  <2>5. q.pc \notin Subscribing \cup {"finish"}
    BY <2>1 DEF Subscribing
  <2>. QED  BY <1>1, <2>1, <2>2, <2>3, <2>4, <2>5, RequestStep
<1>. QED  BY <1>2, <1>3 DEF List

(* A request that stores d over a subscription, with a cause for its       *)
(* standing.                                                               *)
LEMMA Writes ==
    ASSUME BInv, NEW r \in Requests, NEW q \in Places, NEW s \in Subscribers,
           NEW d \in SubType,
           req' = [req EXCEPT ![r] = q],
           subs' = [subs EXCEPT ![s] = d],
           UNCHANGED <<used, hook, remote, inbox, crashes>>,
           d.status # "absent",
           d.status = "trialing" => Created(s) \in sent,
           d.status = "active" => HasPaid(s),
           d.status = "past_due" => \E p \in Payments : Overdue(s, p) \in sent,
           q.pc \in Subscribing => r \in Subscribers,
           q.on \subseteq {s},
           q.pc \notin {"finish", "mark"}
    PROVE  BInv'
<1>1. /\ TypeOK /\ sent' = sent /\ acked' = acked
      /\ subs' \in [Subscribers -> SubType] /\ subs'[s] = d
      /\ \A t \in Subscribers \ {s} : subs'[t] = subs[t]
      /\ used' \in Nat /\ sent \subseteq sent' /\ sent' \subseteq Events
  BY DEF BInv, TypeOK, remote
<1>2. \A t \in Subscribers : Stored(t) => Stored(t)'
  BY <1>1 DEF Stored
<1>3. \A t \in q.on : Stored(t)'
  BY <1>1 DEF Stored
<1>4. StandingHasCause'
  BY <1>1, CauseOfOne DEF BInv
<1>5. Reported'
  <2> SUFFICES ASSUME NEW e \in sent
               PROVE  Stored(e.sub)'
    BY <1>1 DEF Reported
  <2>. QED  BY <1>1, <1>2, EventShape DEF BInv, Reported
<1>. QED  BY <1>1, <1>2, <1>3, <1>4, <1>5, RequestStep

(* A request that makes the provider do something.                         *)
LEMMA Calls ==
    ASSUME BInv, NEW r \in Requests, NEW q \in Places, NEW s \in Subscribers,
           NEW e \in Events, e.sub = s, Stored(s),
           req' = [req EXCEPT ![r] = q],
           sent' \in {sent, sent \cup {e}},
           UNCHANGED <<subs, used, hook, acked, inbox, crashes>>,
           q.pc \in Subscribing => r \in Subscribers,
           q.on \subseteq {s},
           q.pc = "finish" => Created(r) \in sent',
           q.pc # "mark"
    PROVE  BInv'
<1>1. /\ TypeOK /\ subs' \in [Subscribers -> SubType]
      /\ used' \in Nat /\ sent \subseteq sent' /\ sent' \subseteq Events
  BY DEF BInv, TypeOK
<1>2. \A t \in Subscribers : Stored(t) => Stored(t)'
  BY DEF Stored
<1>3. \A t \in q.on : Stored(t)'
  BY DEF Stored
<1>4. StandingHasCause'
  BY <1>1, CauseStays DEF BInv
<1>5. Reported'
  <2> SUFFICES ASSUME NEW f \in sent'
               PROVE  Stored(f.sub)'
    BY DEF Reported
  <2>. QED  BY <1>1, <1>2, EventShape DEF BInv, Reported
<1>. QED  BY <1>1, <1>2, <1>3, <1>4, <1>5, RequestStep

LEMMA BDrop ==
    ASSUME BInv, NEW r \in Requests, NEW s \in Subscribers, Drop(r, s)
    PROVE  BInv'
<1>1. /\ TypeOK /\ Stored(s) /\ r \in Subscribers
      /\ UNCHANGED <<subs, used, hook, acked, inbox, crashes>>
      /\ sent' \in {sent, sent \cup {Deleted(s)}}
  BY DEF Drop, local, BInv, Request, Subscribing, At
<1>2. PICK q \in Places : req' = [req EXCEPT ![r] = q] /\ q.pc = "retire" /\ q.on = {s}
  BY <1>1, Goes DEF Drop, Phases
<1>3. Deleted(s) \in Events /\ Deleted(s).sub = s
  BY ReportShape
<1>. QED  BY <1>1, <1>2, <1>3, Calls

LEMMA BUnbill ==
    ASSUME BInv, NEW r \in Requests, NEW s \in Subscribers, Unbill(r, s)
    PROVE  BInv'
<1>1. /\ TypeOK /\ Stored(s)
      /\ UNCHANGED <<subs, used, hook, acked, inbox, crashes>>
      /\ sent' \in {sent, sent \cup {Deleted(s)}}
  BY DEF Unbill, local, BInv, Request, At
<1>2. PICK q \in Places : /\ req' = [req EXCEPT ![r] = q]
                          /\ q.pc \in {"close", "idle"} /\ q.on \subseteq {s}
  <2>1. CASE Go(r, "close", {s})
    BY <1>1, <2>1, Goes DEF Phases
  <2>2. CASE Return(r)
    BY <2>2, Returns
  <2>. QED  BY <2>1, <2>2 DEF Unbill
<1>3. Deleted(s) \in Events /\ Deleted(s).sub = s
  BY ReportShape
<1>4. q.pc \notin Subscribing \cup {"finish", "mark"}
  BY <1>2 DEF Subscribing
<1>. QED  BY <1>1, <1>2, <1>3, <1>4, Calls

LEMMA BProvision ==
    ASSUME BInv, NEW r \in Requests, Provision(r)
    PROVE  BInv'
<1>1. /\ TypeOK /\ Stored(r) /\ r \in Subscribers
      /\ UNCHANGED <<subs, used, hook, acked, inbox, crashes>>
      /\ sent' = sent \cup {Created(r)}
  BY DEF Provision, local, BInv, Request, Subscribing, At
<1>2. PICK q \in Places : /\ req' = [req EXCEPT ![r] = q]
                          /\ q.pc \in {"finish", "idle"} /\ q.on \subseteq {r}
  <2>1. CASE Go(r, "finish", {r})
    BY <1>1, <2>1, Goes DEF Phases
  <2>2. CASE Return(r)
    BY <2>2, Returns
  <2>. QED  BY <2>1, <2>2 DEF Provision
<1>3. Created(r) \in Events /\ Created(r).sub = r
  BY <1>1, ReportShape
<1>. QED  BY <1>1, <1>2, <1>3, Calls

LEMMA BRetire ==
    ASSUME BInv, NEW r \in Requests, NEW s \in Subscribers, Retire(r, s)
    PROVE  BInv'
<1> DEFINE d == [subs[s] EXCEPT !.status = Cancelled]
<1>1. /\ TypeOK /\ r \in Subscribers
      /\ UNCHANGED <<used, hook, remote, inbox, crashes>>
  BY DEF Retire, BInv, Request, Subscribing, At
<1>2. d \in SubType /\ d.status = "cancelled" /\ subs' = [subs EXCEPT ![s] = d]
  BY <1>1 DEF Retire, SetStatus, TypeOK, SubType, Statuses, Cancelled
<1>3. PICK q \in Places : req' = [req EXCEPT ![r] = q] /\ q.pc = "coupon" /\ q.on = {}
  BY <1>1, Goes DEF Retire, Phases
<1> HIDE DEF d
<1>. QED  BY <1>1, <1>2, <1>3, Writes

LEMMA BClose ==
    ASSUME BInv, NEW r \in Requests, NEW s \in Subscribers, Close(r, s)
    PROVE  BInv'
<1> DEFINE d == [subs[s] EXCEPT !.status = Cancelled]
<1>1. TypeOK /\ UNCHANGED <<used, hook, remote, inbox, crashes>>
  BY DEF Close, BInv
<1>2. d \in SubType /\ d.status = "cancelled" /\ subs' = [subs EXCEPT ![s] = d]
  BY <1>1 DEF Close, SetStatus, TypeOK, SubType, Statuses, Cancelled
<1>3. PICK q \in Places : req' = [req EXCEPT ![r] = q] /\ q.pc = "idle" /\ q.on = {}
  BY Returns DEF Close
<1>4. q.pc \notin Subscribing
  BY <1>3 DEF Subscribing
<1> HIDE DEF d
<1>. QED  BY <1>1, <1>2, <1>3, <1>4, Writes

(* The document an approved payment leaves, and the one Finish writes.     *)
LEMMA Activated ==
    ASSUME NEW e \in SubType
    PROVE  /\ [e EXCEPT !.status = "active", !.late = FALSE] \in SubType
           /\ [e EXCEPT !.status = "active", !.late = FALSE].status = "active"
           /\ [e EXCEPT !.status = "active", !.late = FALSE].known = e.known
<1>1. "active" \in Statuses
  BY DEF Statuses, OpenStatuses, AccessStatuses
<1>. QED  BY <1>1 DEF SubType

LEMMA Finished ==
    ASSUME NEW e \in SubType, NEW st \in {"trialing", "pending"}
    PROVE  /\ [e EXCEPT !.status = st, !.known = TRUE] \in SubType
           /\ [e EXCEPT !.status = st, !.known = TRUE].status = st
           /\ [e EXCEPT !.status = st, !.known = TRUE].known
<1>1. st \in Statuses
  BY DEF Statuses, OpenStatuses, AccessStatuses
<1>. QED  BY <1>1 DEF SubType

LEMMA BMark ==
    ASSUME BInv, NEW r \in Requests, NEW s \in Subscribers, Mark(r, s)
    PROVE  BInv'
<1> DEFINE d == [subs[s] EXCEPT !.status = "active", !.late = FALSE]
<1>1. /\ TypeOK /\ HasPaid(s)
      /\ UNCHANGED <<used, hook, remote, inbox, crashes>>
  BY DEF Mark, BInv, Request, At
<1>2. d \in SubType /\ d.status = "active" /\ subs' = [subs EXCEPT ![s] = d]
  <2>1. subs[s] \in SubType
    BY <1>1 DEF TypeOK
  <2>2. subs' = [subs EXCEPT ![s] = d]
    BY <1>1 DEF Mark
  <2>. QED  BY <2>1, <2>2, Activated
<1>3. PICK q \in Places : req' = [req EXCEPT ![r] = q] /\ q.pc = "idle" /\ q.on = {}
  BY Returns DEF Mark
<1>4. q.pc \notin Subscribing
  BY <1>3 DEF Subscribing
<1> HIDE DEF d
<1>. QED  BY <1>1, <1>2, <1>3, <1>4, Writes

(* The document Finish and Store write.                                    *)
LEMMA Finishes ==
    ASSUME BInv, NEW r \in Subscribers, Finish(r)
    PROVE  \E d \in SubType : /\ d.status \in {"trialing", "pending"} /\ d.known
                              /\ subs' = [subs EXCEPT ![r] = d]
<1> DEFINE d == [subs[r] EXCEPT
                   !.status = IF subs[r].trial THEN "trialing" ELSE "pending",
                   !.known = TRUE]
<1>1. TypeOK
  BY DEF BInv
<1>2. /\ d \in SubType /\ d.status \in {"trialing", "pending"} /\ d.known
      /\ subs' = [subs EXCEPT ![r] = d]
  <2>1. subs[r] \in SubType
    BY <1>1 DEF TypeOK
  <2>2. subs' = [subs EXCEPT ![r] = d]
    BY DEF Finish
  <2>. QED  BY <2>1, <2>2, Finished
<1>. QED  BY <1>2

LEMMA Stores ==
    ASSUME NEW r \in Requests, Store(r)
    PROVE  \E d \in SubType : /\ d.status = "pending" /\ ~d.known
                              /\ subs' = [subs EXCEPT ![r] = d]
<1> DEFINE n == Cardinality({s \in Subscribers : subs[s].status # "absent"})
<1>1. n + 1 \in Nat
  BY StoredCount DEF Stored
<1>2. PICK trial \in BOOLEAN :
        subs' = [subs EXCEPT ![r] = [NoSub EXCEPT !.status = "pending",
                                        !.trial = trial, !.at = n + 1]]
  BY DEF Store
<1> HIDE DEF n
<1> DEFINE d == [NoSub EXCEPT !.status = "pending", !.trial = trial, !.at = n + 1]
<1>3. d \in SubType /\ d.status = "pending" /\ ~d.known /\ subs' = [subs EXCEPT ![r] = d]
  BY <1>1, <1>2 DEF NoSub, SubType, Statuses, OpenStatuses
<1>. QED  BY <1>3

LEMMA BFinish ==
    ASSUME BInv, NEW r \in Requests, Finish(r)
    PROVE  BInv'
<1>1. /\ TypeOK /\ r \in Subscribers /\ Created(r) \in sent
      /\ UNCHANGED <<used, hook, remote, inbox, crashes>>
  BY DEF Finish, BInv, Request, Subscribing, At
<1>2. PICK d \in SubType : /\ d.status \in {"trialing", "pending"}
                           /\ subs' = [subs EXCEPT ![r] = d]
  BY <1>1, Finishes
<1>3. PICK q \in Places : /\ req' = [req EXCEPT ![r] = q]
                          /\ q.pc \in {"count", "idle"} /\ q.on \subseteq {r}
  <2>1. CASE Go(r, "count", {r})
    BY <1>1, <2>1, Goes DEF Phases
  <2>2. CASE Return(r)
    BY <2>2, Returns
  <2>. QED  BY <2>1, <2>2 DEF Finish
<1>. QED  BY <1>1, <1>2, <1>3, Writes

LEMMA BStore ==
    ASSUME BInv, NEW r \in Requests, Store(r)
    PROVE  BInv'
<1>1. /\ TypeOK /\ r \in Subscribers
      /\ UNCHANGED <<used, hook, remote, inbox, crashes>>
  BY DEF Store, BInv, Request, Subscribing
<1>2. PICK d \in SubType : d.status = "pending" /\ subs' = [subs EXCEPT ![r] = d]
  BY Stores
<1>3. PICK q \in Places : /\ req' = [req EXCEPT ![r] = q]
                          /\ q.pc = "provision" /\ q.on = {r}
  BY <1>1, Goes DEF Store, Phases
<1>. QED  BY <1>1, <1>2, <1>3, Writes

-----------------------------------------------------------------------------
(* The provider, and the steps of a delivery                               *)

LEMMA BProvider ==
    ASSUME BInv, NEW e \in Events, Provider(e)
    PROVE  BInv'
<1>1. /\ TypeOK /\ e.sub \in Subscribers /\ sent' = sent \cup {e}
      /\ UNCHANGED <<subs, used, req, hook, acked, inbox, crashes>>
  BY EventShape DEF BInv, Provider, local
<1>2. Created(e.sub) \in sent /\ Stored(e.sub)
  BY <1>1, ReportShape DEF Provider, Live, BInv, Reported
<1>3. TypeOK'
  BY <1>1 DEF TypeOK, inbox
<1>4. /\ EventsMatched' /\ RecordedIsDone' /\ (seen \subseteq sent)'
      /\ \A h \in Handlers : Hook(h)'
      /\ Exclusive'
  BY <1>1, DeliveriesKept
<1>5. \A r \in Requests : Request(r)'
  BY <1>1, RequestsKept DEF Stored
<1>6. StandingHasCause'
  BY <1>1, CauseStays DEF BInv
<1>7. Reported'
  BY <1>1, <1>2 DEF BInv, Reported, Stored
<1>. QED  BY <1>3, <1>4, <1>5, <1>6, <1>7 DEF BInv

(* What a delivery does to the rest: nothing is forgotten.                 *)
Around ==
    /\ UNCHANGED <<used, req, sent, missed>>
    /\ subs' \in [Subscribers -> SubType] /\ StandingHasCause'
    /\ \A s \in Subscribers : Stored(s) => Stored(s)'
    /\ acked' \subseteq Events /\ crashes' \in Nat

LEMMA AroundKept ==
    ASSUME BInv, Around
    PROVE  /\ (\A r \in Requests : Request(r)') /\ Reported'
           /\ EventsMatched' /\ StandingHasCause'
<1>1. \A r \in Requests : Request(r)'
  BY RequestsKept DEF Around
<1>2. Reported'
  <2> SUFFICES ASSUME NEW e \in sent
               PROVE  Stored(e.sub)'
    BY DEF Around, Reported
  <2>. QED  BY EventShape DEF BInv, TypeOK, Around, Reported
<1>. QED  BY <1>1, <1>2 DEF BInv, Around, EventsMatched

(* A delivery takes an event, or goes on with the one it holds.            *)
LEMMA Takes ==
    ASSUME BInv, NEW h \in Handlers, NEW e \in sent, NEW c \in Hooks, Around,
           hook' = [hook EXCEPT ![h] = c],
           c.pc # "idle", c.on = {e},
           seen' = seen \cup {e},
           \/ Holds(h, e)
           \/ hook[h].pc = "idle" /\ e \notin seen,
           UNCHANGED <<applied, dropped>>
    PROVE  BInv'
<1>1. /\ TypeOK /\ hook'[h] = c /\ \A k \in Handlers \ {h} : hook'[k] = hook[k]
      /\ e \in Events /\ sent' = sent
  BY DEF BInv, TypeOK, Around
<1>2. TypeOK'
  BY <1>1 DEF TypeOK, Around, Hooks
<1>3. \A k \in Handlers : Hook(k)'
  BY <1>1 DEF BInv, Hook
<1>4. Exclusive'
  <2>1. ASSUME NEW k \in Handlers, k # h, Holds(k, e)
        PROVE  FALSE
    BY <2>1, <1>1 DEF BInv, Exclusive, Holds, Hook
  <2>. QED  BY <1>1, <2>1 DEF BInv, Exclusive, Holds
<1>5. RecordedIsDone'
  <2> SUFFICES ASSUME NEW f \in seen'
               PROVE  \/ applied'[f] > 0 \/ f \in dropped'
                      \/ \E k \in Handlers : Holds(k, f)'
    BY DEF RecordedIsDone
  <2>1. CASE f = e
    BY <2>1, <1>1 DEF Holds
  <2>2. CASE f # e
    BY <2>2, <1>1 DEF BInv, RecordedIsDone, Holds
  <2>. QED  BY <2>1, <2>2
<1>6. (seen \subseteq sent)'
  BY <1>1 DEF BInv
<1>. QED  BY <1>2, <1>3, <1>4, <1>5, <1>6, AroundKept DEF BInv

(* A delivery lets go of the event it holds: it was carried through, or    *)
(* given back, or the delivery died.                                       *)
LEMMA Frees ==
    ASSUME BInv, NEW h \in Handlers, NEW e \in Events, Around,
           Holds(h, e),
           hook' = [hook EXCEPT ![h] = NoHook],
           applied' \in [Events -> Nat],
           \A f \in Events : applied'[f] >= applied[f],
           dropped \subseteq dropped', dropped' \subseteq Events,
           \/ seen' = seen \ {e}
           \/ seen' = seen /\ (applied'[e] > 0 \/ e \in dropped')
    PROVE  BInv'
<1>1. /\ TypeOK /\ hook'[h] = NoHook
      /\ \A k \in Handlers \ {h} : hook'[k] = hook[k]
      /\ sent' = sent /\ seen' \subseteq seen
  BY DEF BInv, TypeOK, Around
<1>2. NoHook \in Hooks /\ NoHook.pc = "idle" /\ NoHook.on = {}
  BY DEF NoHook, Hooks, HookPhases, NoSub, SubType, Statuses
<1>3. TypeOK'
  BY <1>1, <1>2 DEF TypeOK, Around, Hooks
<1>4. ASSUME NEW k \in Handlers, k # h, Holds(k, e)
      PROVE  FALSE
  BY <1>4 DEF BInv, Exclusive
<1>5. ASSUME NEW k \in Handlers
      PROVE  Hook(k)'
  <2>1. CASE k = h
    BY <2>1, <1>1, <1>2 DEF Hook
  <2>2. CASE k # h
    <3>1. hook'[k] = hook[k] /\ Hook(k)
      BY <2>2, <1>1 DEF BInv
    <3>2. ASSUME NEW f \in seen, hook[k].on = {f}, hook[k].pc # "idle"
          PROVE  f \in seen'
      BY <3>2, <2>2, <1>4 DEF Holds
    <3>. QED  BY <3>1, <3>2 DEF Hook
  <2>. QED  BY <2>1, <2>2
<1>6. Exclusive'
  BY <1>1, <1>2 DEF BInv, Exclusive, Holds
<1>7. RecordedIsDone'
  <2> SUFFICES ASSUME NEW f \in seen'
               PROVE  \/ applied'[f] > 0 \/ f \in dropped'
                      \/ \E k \in Handlers : Holds(k, f)'
    BY DEF RecordedIsDone
  <2>1. CASE f = e
    BY <2>1
  <2>2. CASE f # e
    <3>1. f \in Events /\ applied[f] \in Nat /\ applied'[f] \in Nat
      BY <1>1, <1>3 DEF TypeOK
    <3>2. ~Holds(h, f)
      BY <2>2 DEF Holds
    <3>3. applied[f] > 0 \/ f \in dropped \/ \E k \in Handlers : Holds(k, f)
      BY <1>1 DEF BInv, RecordedIsDone
    <3>4. ASSUME NEW k \in Handlers, Holds(k, f)
          PROVE  Holds(k, f)'
      BY <3>2, <3>4, <1>1 DEF Holds
    <3>5. applied'[f] >= applied[f]
      BY <3>1
    <3>. QED  BY <3>1, <3>3, <3>4, <3>5
  <2>. QED  BY <2>1, <2>2
<1>8. (seen \subseteq sent)'
  BY <1>1 DEF BInv
<1>. QED  BY <1>3, <1>5, <1>6, <1>7, <1>8, AroundKept DEF BInv

(* A delivery that leaves the subscriptions alone.                         *)
LEMMA Bystander ==
    ASSUME BInv, UNCHANGED <<local, req, sent, missed>>,
           acked' \subseteq Events, crashes' \in Nat
    PROVE  Around
<1>1. subs' = subs /\ used' = used
  BY DEF local
<1>2. StandingHasCause'
  BY <1>1, CauseStays DEF BInv
<1>3. subs' \in [Subscribers -> SubType] /\ \A s \in Subscribers : Stored(s) => Stored(s)'
  BY <1>1 DEF BInv, TypeOK, Stored
<1>. QED  BY <1>1, <1>2, <1>3 DEF Around

(* An event has one shape of patch for its kind; a subscription keeps the  *)
(* type of its document, is not forgotten, and stands for a cause.         *)
LEMMA Patched ==
    ASSUME BInv, NEW e \in sent, NEW copy \in SubType,
           NEW d \in Patches(e, copy, subs[e.sub])
    PROVE  /\ d \in SubType /\ d.status # "absent"
           /\ d.status = "trialing" => Created(e.sub) \in sent
           /\ d.status = "active" => HasPaid(e.sub)
           /\ d.status = "past_due" => \E p \in Payments : Overdue(e.sub, p) \in sent
<1> DEFINE s == e.sub
           now == subs[e.sub]
<1>1. /\ e \in Events /\ s \in Subscribers /\ now \in SubType
      /\ now.status # "absent"
  BY EventShape DEF BInv, TypeOK, Reported, Stored
<1>2. /\ now.status = "trialing" => Created(s) \in sent
      /\ now.status = "active" => HasPaid(s)
      /\ now.status = "past_due" => \E p \in Payments : Overdue(s, p) \in sent
  BY <1>1 DEF BInv, StandingHasCause
<1>3. CASE e.kind = "CONFIRMED"
  <2>1. d = PaidPatch(copy, now)
    BY <1>3 DEF Patches
  <2>2. HasPaid(s)
    BY <1>1, <1>3, EventShape DEF HasPaid
  <2>. QED  BY <1>1, <1>2, <2>1, <2>2
            DEF PaidPatch, SubType, Statuses, OpenStatuses, AccessStatuses
<1>4. CASE e.kind = "OVERDUE"
  <2>1. d = OverduePatch(copy, now)
    BY <1>4 DEF Patches
  <2>2. \E p \in Payments : Overdue(s, p) \in sent
    BY <1>1, <1>4, EventShape
  <2>. QED  BY <1>1, <1>2, <2>1, <2>2
            DEF OverduePatch, SubType, Statuses, OpenStatuses, AccessStatuses
<1>5. CASE e.kind = "CREATED"
  <2>1. PICK lapsed \in BOOLEAN : d = CreatedPatch(copy, now, lapsed)
    BY <1>5 DEF Patches
  <2>2. Created(s) \in sent
    BY <1>1, <1>5, EventShape
  <2>. QED  BY <1>1, <1>2, <2>1, <2>2
            DEF CreatedPatch, SubType, Statuses, OpenStatuses, AccessStatuses
<1>6. CASE e.kind = "DELETED"
  <2>1. d = DeletedPatch(now)
    BY <1>6 DEF Patches
  <2>. QED  BY <1>1, <2>1 DEF DeletedPatch, Cancelled, SubType, Statuses
<1>. QED  BY <1>1, <1>3, <1>4, <1>5, <1>6, EventShape

LEMMA BDeliver ==
    ASSUME BInv, NEW h \in Handlers, NEW e \in Events, Deliver(h, e)
    PROVE  BInv'
<1>1. /\ TypeOK /\ e \in sent /\ hook[h].pc = "idle"
      /\ UNCHANGED <<local, req, sent, applied, dropped, missed, crashes>>
  BY DEF Deliver, BInv
<1>2. acked' \subseteq Events /\ crashes' \in Nat
  BY <1>1 DEF Deliver, TypeOK
<1>3. Around
  BY <1>1, <1>2, Bystander
<1>4. CASE Fresh(e)
  <2> DEFINE c == [hook[h] EXCEPT !.pc = "find", !.on = {e}]
  <2>1. c \in Hooks /\ c.pc # "idle" /\ c.on = {e} /\ hook' = [hook EXCEPT ![h] = c]
    BY <1>1, <1>4 DEF Deliver, TypeOK, Hooks, HookPhases
  <2>2. seen' = seen \cup {e} /\ e \notin seen
    BY <1>4 DEF Deliver, Fresh
  <2> HIDE DEF c
  <2>. QED  BY <1>1, <1>3, <2>1, <2>2, Takes
<1>5. CASE ~Fresh(e)
  <2>1. UNCHANGED <<hook, seen>>
    BY <1>5 DEF Deliver
  <2>2. UNCHANGED <<hook, inbox>> /\ sent \subseteq sent'
    BY <1>1, <2>1 DEF inbox
  <2>3. TypeOK'
    BY <1>1, <1>2, <2>1, <1>3 DEF TypeOK, Around
  <2>. QED  BY <2>2, <2>3, DeliveriesKept, <1>3, AroundKept DEF BInv
<1>. QED  BY <1>4, <1>5

LEMMA BFind ==
    ASSUME BInv, NEW h \in Handlers, NEW e \in Events, Find(h, e)
    PROVE  BInv'
<1>1. /\ TypeOK /\ Holds(h, e) /\ e \in seen /\ e \in sent /\ e.sub \in Subscribers
      /\ UNCHANGED <<local, req, remote, seen, applied, dropped, crashes>>
  BY EventShape DEF Find, BInv, Hook, Holds
<1>2. Found(e.sub)
  BY <1>1 DEF BInv, Reported, Stored, Found
<1> DEFINE c == [hook[h] EXCEPT !.pc = "apply", !.copy = subs[e.sub]]
<1>3. hook' = [hook EXCEPT ![h] = c] /\ missed' = missed
  BY <1>1, <1>2 DEF Find, TypeOK, Hooks
<1>4. c \in Hooks /\ c.pc # "idle" /\ c.on = {e}
  BY <1>1 DEF TypeOK, Hooks, HookPhases, Holds
<1>5. Around /\ seen' = seen \cup {e}
  BY <1>1, <1>3, Bystander DEF remote, TypeOK
<1> HIDE DEF c
<1>. QED  BY <1>1, <1>3, <1>4, <1>5, Takes

LEMMA BApply ==
    ASSUME BInv, NEW h \in Handlers, NEW e \in Events, Apply(h, e)
    PROVE  BInv'
<1>1. /\ TypeOK /\ Holds(h, e) /\ e \in seen /\ e \in sent /\ e.sub \in Subscribers
      /\ UNCHANGED <<used, req, sent, acked, seen, applied, dropped, missed, crashes>>
  BY EventShape DEF Apply, BInv, Hook, Holds, remote, inbox
<1>2. PICK d \in Patches(e, hook[h].copy, subs[e.sub]) : subs' = [subs EXCEPT ![e.sub] = d]
  BY DEF Apply
<1>3. hook[h].copy \in SubType
  BY <1>1 DEF TypeOK
<1>4. /\ d \in SubType /\ d.status # "absent"
      /\ d.status = "trialing" => Created(e.sub) \in sent
      /\ d.status = "active" => HasPaid(e.sub)
      /\ d.status = "past_due" => \E p \in Payments : Overdue(e.sub, p) \in sent
  BY <1>1, <1>3, Patched
<1>5. StandingHasCause'
  BY <1>1, <1>2, <1>4, CauseOfOne DEF BInv
<1>6. Around
  BY <1>1, <1>2, <1>4, <1>5 DEF Around, TypeOK, Stored
<1> DEFINE c == [hook[h] EXCEPT !.pc = "end", !.copy = NoSub]
<1>7. hook' = [hook EXCEPT ![h] = c]
  BY <1>1 DEF Apply, TypeOK, Hooks
<1>8. c \in Hooks /\ c.pc # "idle" /\ c.on = {e} /\ seen' = seen \cup {e}
  BY <1>1 DEF TypeOK, Hooks, HookPhases, Holds, NoSub, SubType, Statuses
<1> HIDE DEF c
<1>. QED  BY <1>1, <1>6, <1>7, <1>8, Takes

LEMMA BEnds ==
    ASSUME BInv, NEW h \in Handlers, NEW e \in Events,
           Answer(h, e) \/ Raise(h, e) \/ Die(h, e)
    PROVE  BInv'
<1>1. /\ TypeOK /\ Holds(h, e) /\ applied \in [Events -> Nat]
      /\ UNCHANGED <<local, req, sent, missed>>
      /\ hook' = [hook EXCEPT ![h] = NoHook]
  BY DEF Answer, Raise, Die, BInv, TypeOK, remote
<1>2. acked' \subseteq Events /\ crashes' \in Nat
  BY <1>1 DEF Answer, Raise, Die, TypeOK, remote
<1>3. Around
  BY <1>1, <1>2, Bystander
<1>4. CASE Answer(h, e)
  <2>1. /\ seen' = seen /\ dropped' = dropped
        /\ applied' = [applied EXCEPT ![e] = @ + 1]
    BY <1>4 DEF Answer
  <2>2. /\ applied' \in [Events -> Nat] /\ applied'[e] > 0
        /\ \A f \in Events : applied'[f] >= applied[f]
    BY <1>1, <2>1
  <2>. QED  BY <1>1, <1>3, <2>1, <2>2, Frees DEF TypeOK
<1>5. CASE Raise(h, e)
  <2>1. seen' = seen \ {e} /\ dropped' = dropped /\ applied' = applied
    BY <1>5 DEF Raise, AfterRaise
  <2>2. \A f \in Events : applied'[f] >= applied[f]
    BY <1>1, <2>1
  <2>. QED  BY <1>1, <1>3, <2>1, <2>2, Frees DEF TypeOK
<1>6. CASE Die(h, e)
  <2>1. seen' = seen /\ dropped' = dropped \cup {e} /\ applied' = applied
    BY <1>6 DEF Die
  <2>2. \A f \in Events : applied'[f] >= applied[f]
    BY <1>1, <2>1
  <2>. QED  BY <1>1, <1>3, <2>1, <2>2, Frees DEF TypeOK
<1>. QED  BY <1>4, <1>5, <1>6

-----------------------------------------------------------------------------
(* The invariant                                                           *)

LEMMA BInit == Init => BInv
<1> SUFFICES ASSUME Init
             PROVE  BInv
  OBVIOUS
<1>1. TypeOK
  BY DEF Init, TypeOK, NoSub, SubType, Statuses, Idle, Phases, NoHook, HookPhases
<1>2. StandingHasCause
  BY DEF Init, StandingHasCause, NoSub
<1>3. EventsMatched /\ RecordedIsDone /\ Reported /\ seen \subseteq sent
  BY DEF Init, EventsMatched, RecordedIsDone, Reported
<1>4. \A r \in Requests : Request(r)
  BY DEF Init, Request, Idle, Subscribing
<1>5. (\A h \in Handlers : Hook(h)) /\ Exclusive
  BY DEF Init, Hook, Exclusive, NoHook, Holds
<1>. QED  BY <1>1, <1>2, <1>3, <1>4, <1>5 DEF BInv

LEMMA BStutter ==
    ASSUME BInv, UNCHANGED vars
    PROVE  BInv'
<1>1. /\ TypeOK /\ subs' = subs /\ used' = used /\ req' = req /\ acked' = acked
      /\ sent' = sent /\ crashes' = crashes /\ UNCHANGED <<hook, inbox>>
  BY DEF vars, local, remote, BInv
<1>2. TypeOK'
  BY <1>1 DEF TypeOK, inbox
<1>3. StandingHasCause' /\ Reported'
  BY <1>1, CauseStays DEF BInv, Reported, Stored
<1>4. \A r \in Requests : Request(r)'
  BY <1>1, RequestsKept DEF Stored
<1>. QED  BY <1>1, <1>2, <1>3, <1>4, DeliveriesKept DEF BInv

LEMMA BContinue ==
    ASSUME BInv, NEW r \in Requests, Continue(r)
    PROVE  BInv'
BY BLoadCoupon, BStore, BProvision, BFinish, BMoves, BDrop, BRetire, BUnbill,
   BClose, BList, BMark DEF Continue

LEMMA BStep == BInv /\ [Next]_vars => BInv'
<1> SUFFICES ASSUME BInv, [Next]_vars
             PROVE  BInv'
  OBVIOUS
<1>1. ASSUME NEW r \in Requests,
             Subscribe(r) \/ AskCancel(r) \/ GetMe(r) \/ Continue(r) \/ Fail(r)
      PROVE  BInv'
  BY <1>1, BSubscribe, BMoves, BContinue
<1>2. ASSUME NEW e \in Events, Provider(e)
      PROVE  BInv'
  BY <1>2, BProvider
<1>3. ASSUME NEW e \in Events, NEW h \in Handlers,
             \/ Deliver(h, e) \/ Find(h, e) \/ Apply(h, e)
             \/ Answer(h, e) \/ Raise(h, e) \/ Die(h, e)
      PROVE  BInv'
  BY <1>3, BDeliver, BFind, BApply, BEnds
<1>. QED  BY <1>1, <1>2, <1>3, BStutter DEF Next

(* The inductive invariant: everything read of the provider is still true  *)
(* when it is written, and each recorded event has at most one delivery.   *)
THEOREM BillingInvariance == Spec => []BInv
BY BInit, BStep, PTL DEF Spec

(* Every variable keeps its type, whatever overlaps or fails.              *)
THEOREM BillingTyped == Spec => []TypeOK
<1>1. BInv => TypeOK
  BY DEF BInv
<1>. QED  BY <1>1, BillingInvariance, PTL

(* A standing that gives access has its cause at the provider, whatever    *)
(* order webhooks, refreshes and requests write in (subscribe,             *)
(* _handle_payment_event, _refresh_pending_from_asaas).                    *)
THEOREM StandingsHaveCause == Spec => []StandingHasCause
<1>1. BInv => StandingHasCause
  BY DEF BInv
<1>. QED  BY <1>1, BillingInvariance, PTL

(* Every event of the provider finds its subscription, for the document is *)
(* inserted before create_subscription is called.                          *)
THEOREM EventsAllMatched == Spec => []EventsMatched
<1>1. BInv => EventsMatched
  BY DEF BInv
<1>. QED  BY <1>1, BillingInvariance, PTL

(* No exception loses an event: one that stays recorded has been carried   *)
(* through, or is being, or its delivery died (handle_webhook).            *)
THEOREM RecordedAreDone == Spec => []RecordedIsDone
<1>1. BInv => RecordedIsDone
  BY DEF BInv
<1>. QED  BY <1>1, BillingInvariance, PTL

-----------------------------------------------------------------------------
(* Billing implements the inbox                                            *)

Held == {e \in Events : \E h \in Handlers : Holds(h, e)}

InboxMoves == [Inbox!InboxNext]_<<seen, Held, applied>>

LEMMA Quiet ==
    ASSUME hook' = hook, UNCHANGED <<seen, applied>>
    PROVE  InboxMoves
<1>1. Held' = Held
  BY DEF Held, Holds
<1>. QED  BY <1>1 DEF InboxMoves

LEMMA Accepts ==
    ASSUME BInv, NEW h \in Handlers, NEW e \in Events,
           Deliver(h, e) \/ Find(h, e) \/ Apply(h, e)
    PROVE  InboxMoves
<1>1. TypeOK /\ applied' = applied
  BY DEF BInv, Deliver, Find, Apply, inbox
<1>2. CASE Deliver(h, e) /\ ~Fresh(e)
  BY <1>2, Quiet DEF Deliver
<1>3. CASE Deliver(h, e) /\ Fresh(e)
  <2>1. /\ e \notin seen /\ seen' = seen \cup {e} /\ hook[h].pc = "idle"
        /\ hook'[h].pc = "find" /\ hook'[h].on = {e}
        /\ \A k \in Handlers \ {h} : hook'[k] = hook[k]
    BY <1>1, <1>3 DEF Deliver, Fresh, TypeOK
  <2>2. Held' = Held \cup {e}
    BY <2>1 DEF Held, Holds
  <2>3. Inbox!Accept(e)
    BY <1>1, <2>1, <2>2 DEF Inbox!Accept, Held
  <2>. QED  BY <2>3 DEF InboxMoves, Inbox!InboxNext
<1>4. CASE Find(h, e) \/ Apply(h, e)
  <2>1. /\ seen' = seen /\ Holds(h, e)
        /\ hook'[h].pc # "idle" /\ hook'[h].on = {e}
        /\ \A k \in Handlers \ {h} : hook'[k] = hook[k]
    BY <1>1, <1>4 DEF Find, Apply, inbox, TypeOK, Holds
  <2>2. Held' = Held
    BY <2>1 DEF Held, Holds
  <2>. QED  BY <1>1, <2>1, <2>2 DEF InboxMoves
<1>. QED  BY <1>2, <1>3, <1>4

LEMMA LetsGo ==
    ASSUME BInv, NEW h \in Handlers, NEW e \in Events,
           Answer(h, e) \/ Raise(h, e) \/ Die(h, e)
    PROVE  InboxMoves
<1>1. /\ TypeOK /\ Exclusive /\ Holds(h, e)
      /\ hook' = [hook EXCEPT ![h] = NoHook]
  BY DEF BInv, Answer, Raise, Die
<1>2. hook'[h].pc = "idle" /\ \A k \in Handlers \ {h} : hook'[k] = hook[k]
  BY <1>1 DEF TypeOK, NoHook
<1>3. e \in Held /\ Held' = Held \ {e}
  BY <1>1, <1>2 DEF Held, Holds, Exclusive
<1>4. CASE Answer(h, e)
  <2>1. Inbox!Complete(e)
    BY <1>3, <1>4 DEF Answer, Inbox!Complete, Held
  <2>. QED  BY <2>1 DEF InboxMoves, Inbox!InboxNext
<1>5. CASE Raise(h, e)
  <2>1. Inbox!Release(e)
    BY <1>3, <1>5 DEF Raise, AfterRaise, Inbox!Release, Held
  <2>. QED  BY <2>1 DEF InboxMoves, Inbox!InboxNext
<1>6. CASE Die(h, e)
  <2>1. Inbox!Abandon(e)
    BY <1>3, <1>6 DEF Die, Inbox!Abandon, Held
  <2>. QED  BY <2>1 DEF InboxMoves, Inbox!InboxNext
<1>. QED  BY <1>1, <1>4, <1>5, <1>6

LEMMA InboxSimulates == BInv /\ [Next]_vars => InboxMoves
<1> SUFFICES ASSUME BInv, [Next]_vars
             PROVE  InboxMoves
  OBVIOUS
<1>1. ASSUME NEW r \in Requests,
             Subscribe(r) \/ AskCancel(r) \/ GetMe(r) \/ Continue(r) \/ Fail(r)
      PROVE  hook' = hook /\ UNCHANGED <<seen, applied>>
  BY <1>1 DEF Subscribe, AskCancel, GetMe, Continue, Fail, LoadCoupon, Store,
              Provision, Finish, CountCoupon, Drop, Retire, Unbill, Close, List,
              Mark, inbox
<1>2. ASSUME NEW e \in Events, Provider(e)
      PROVE  hook' = hook /\ UNCHANGED <<seen, applied>>
  BY <1>2 DEF Provider, inbox
<1>3. CASE UNCHANGED vars
  BY <1>3, Quiet DEF vars, inbox
<1>4. ASSUME NEW e \in Events, NEW h \in Handlers,
             \/ Deliver(h, e) \/ Find(h, e) \/ Apply(h, e)
             \/ Answer(h, e) \/ Raise(h, e) \/ Die(h, e)
      PROVE  InboxMoves
  BY <1>4, Accepts, LetsGo
<1>. QED  BY <1>1, <1>2, <1>3, <1>4, Quiet DEF Next

(* However often and however concurrently an event is delivered, one       *)
(* delivery at a time holds it, and it stays recorded once it was carried  *)
(* through: the webhook handler implements the inbox.                      *)
THEOREM InboxImplemented == Spec => EventsOnce
<1>1. Init => Inbox!InboxInit
  BY DEF Init, Inbox!InboxInit, Holds, NoHook
<1>2. InboxMoves => [Inbox!InboxNext]_(Inbox!inboxVars)
  BY DEF InboxMoves, Inbox!inboxVars, Held
<1>. QED  BY <1>1, <1>2, BillingInvariance, InboxSimulates, PTL
          DEF Spec, EventsOnce, Inbox!InboxSpec

(* An event carried through is recorded, and no delivery holds it.         *)
Once ==
    /\ applied \in [Events -> Nat]
    /\ Held \subseteq seen
    /\ \A e \in Events : \/ applied[e] = 0
                         \/ applied[e] = 1 /\ e \in seen /\ e \notin Held

LEMMA OnceStep == Once /\ InboxMoves => Once'
<1> SUFFICES ASSUME Once, InboxMoves
             PROVE  Once'
  OBVIOUS
<1>1. CASE UNCHANGED <<seen, Held, applied>>
  BY <1>1 DEF Once
<1>2. ASSUME NEW e \in Events, Inbox!Accept(e)
      PROVE  Once'
  BY <1>2 DEF Once, Inbox!Accept, Held
<1>3. ASSUME NEW e \in Events, Inbox!Complete(e)
      PROVE  Once'
  <2>1. /\ e \in Held /\ Held' = Held \ {e} /\ seen' = seen
        /\ applied' = [applied EXCEPT ![e] = @ + 1]
    BY <1>3 DEF Inbox!Complete, Held
  <2>2. applied[e] = 0 /\ e \in seen
    BY <2>1 DEF Once
  <2>. QED  BY <2>1, <2>2 DEF Once
<1>4. ASSUME NEW e \in Events, Inbox!Release(e)
      PROVE  Once'
  BY <1>4 DEF Once, Inbox!Release, Held
<1>5. ASSUME NEW e \in Events, Inbox!Abandon(e)
      PROVE  Once'
  BY <1>5 DEF Once, Inbox!Abandon, Held
<1>. QED  BY <1>1, <1>2, <1>3, <1>4, <1>5 DEF InboxMoves, Inbox!InboxNext

(* No event is carried through twice.                                      *)
THEOREM CarriedOnce == Spec => []Inbox!AtMostOnce
<1>1. Init => Once
  BY DEF Init, Once, Held, Holds, NoHook
<1>2. Once => Inbox!AtMostOnce
  BY DEF Once, Inbox!AtMostOnce
<1>3. BInv /\ Once /\ [Next]_vars => Once'
  BY InboxSimulates, OnceStep
<1>. QED  BY <1>1, <1>2, <1>3, BillingInvariance, PTL DEF Spec

-----------------------------------------------------------------------------
(* One at a time                                                           *)

(* What holds while requests and deliveries do not overlap.  The one at    *)
(* work finds what it read as it left it: a delivery's copy is the stored  *)
(* subscription, the coupon can still be redeemed, the company has no      *)
(* other open subscription.                                                *)
Working(r)    == req[r].pc # "idle"
Delivering(h) == hook[h].pc # "idle"

OneAtATime ==
    /\ \A q, r \in Requests : Working(q) /\ Working(r) => q = r
    /\ \A h, k \in Handlers : Delivering(h) /\ Delivering(k) => h = k
    /\ \A r \in Requests, h \in Handlers : ~(Working(r) /\ Delivering(h))

OneOpen == \A s, t \in OpenSubs : s = t

Knows(r) ==
    /\ ~Working(r) => req[r] = Idle
    /\ req[r].coupon \/ req[r].pc = "count" => used < MaxUses
    /\ req[r].pc \in {"drop", "retire", "coupon", "store"} => subs[r].status = "absent"
    /\ req[r].pc \in {"coupon", "store"} => OpenSubs = {}
    /\ req[r].pc \in {"provision", "finish"} => subs[r].status = "pending"
    /\ req[r].pc \in {"drop", "retire", "list", "mark"} =>
          \A s \in req[r].on : subs[s].status = "pending"

CopyFresh(h) ==
    hook[h].pc = "apply" => \A e \in hook[h].on : hook[h].copy = subs[e.sub]

SInv ==
    /\ OneAtATime
    /\ OneOpen
    /\ \A r \in Requests : Knows(r)
    /\ \A h \in Handlers : CopyFresh(h)
    /\ CouponLimit
    /\ GraceEnds

CancelKept ==
    \A s \in Subscribers : subs[s].status = "cancelled" => subs'[s].status = "cancelled"

(* All others rest while r, or h, is at work.                              *)
RestFor(r) ==
    /\ \A k \in Requests \ {r} : ~Working(k)
    /\ \A h \in Handlers : ~Delivering(h)

RestForHook(h) ==
    /\ \A r \in Requests : ~Working(r)
    /\ \A k \in Handlers \ {h} : ~Delivering(k)

LEMMA Rests ==
    ASSUME ~Overlap, SInv, NEW r \in Requests, Working(r) \/ MayStart
    PROVE  RestFor(r)
BY DEF SInv, OneAtATime, RestFor, MayStart, Alone, Working, Delivering

LEMMA HookRests ==
    ASSUME ~Overlap, SInv, NEW h \in Handlers, Delivering(h) \/ MayStart
    PROVE  RestForHook(h)
BY DEF SInv, OneAtATime, RestForHook, MayStart, Alone, Working, Delivering

(* A step of the request at work.                                          *)
LEMMA SoleRequest ==
    ASSUME SInv, NEW r \in Requests, RestFor(r), UNCHANGED hook,
           \A k \in Requests \ {r} : req'[k] = req[k],
           Knows(r)', OneOpen', CouponLimit', GraceEnds'
    PROVE  SInv'
<1>1. ASSUME NEW k \in Requests \ {r}
      PROVE  ~Working(k)' /\ Knows(k)'
  <2>1. req'[k] = Idle
    BY DEF RestFor, SInv, Knows
  <2>. QED  BY <2>1 DEF Knows, Working, Idle
<1>2. ASSUME NEW h \in Handlers
      PROVE  ~Delivering(h)' /\ CopyFresh(h)'
  BY DEF RestFor, Delivering, CopyFresh
<1>3. OneAtATime'
  BY <1>1, <1>2 DEF OneAtATime
<1>. QED  BY <1>1, <1>2, <1>3 DEF SInv

(* A step of the delivery at work.                                         *)
LEMMA SoleHook ==
    ASSUME SInv, NEW h \in Handlers, RestForHook(h), UNCHANGED req,
           \A k \in Handlers \ {h} : hook'[k] = hook[k],
           CopyFresh(h)', OneOpen', CouponLimit', GraceEnds'
    PROVE  SInv'
<1>1. ASSUME NEW r \in Requests
      PROVE  ~Working(r)' /\ Knows(r)'
  <2>1. req'[r] = Idle
    BY DEF RestForHook, SInv, Knows
  <2>. QED  BY <2>1 DEF Knows, Working, Idle
<1>2. ASSUME NEW k \in Handlers \ {h}
      PROVE  ~Delivering(k)' /\ CopyFresh(k)'
  BY DEF RestForHook, Delivering, CopyFresh
<1>3. OneAtATime'
  BY <1>1, <1>2 DEF OneAtATime
<1>. QED  BY <1>1, <1>2, <1>3 DEF SInv

(* The subscriptions are left alone.                                       *)
LEMMA SubsKept ==
    ASSUME SInv, UNCHANGED subs
    PROVE  OneOpen' /\ GraceEnds' /\ CancelKept
BY DEF SInv, OneOpen, OpenSubs, GraceEnds, CancelKept

(* One subscription is written.                                            *)
LEMMA OneWritten ==
    ASSUME BInv, SInv, NEW s \in Subscribers, NEW d \in SubType,
           subs' = [subs EXCEPT ![s] = d],
           d.status \in OpenStatuses => s \in OpenSubs \/ OpenSubs = {},
           d.status = "past_due" => d.late,
           subs[s].status = "cancelled" => d.status = "cancelled"
    PROVE  OneOpen' /\ GraceEnds' /\ CancelKept
<1>1. subs'[s] = d /\ \A t \in Subscribers \ {s} : subs'[t] = subs[t]
  BY DEF BInv, TypeOK
<1>2. OneOpen'
  BY <1>1 DEF SInv, OneOpen, OpenSubs
<1>3. GraceEnds'
  BY <1>1 DEF SInv, GraceEnds
<1>4. CancelKept
  BY <1>1 DEF CancelKept
<1>. QED  BY <1>2, <1>3, <1>4

(* Where the request at work goes; the others stay.                        *)
LEMMA GoesTo ==
    ASSUME TypeOK, NEW r \in Requests, NEW pc, NEW on, Go(r, pc, on)
    PROVE  /\ req'[r] = [pc |-> pc, on |-> on, coupon |-> req[r].coupon]
           /\ req'[r].pc = pc /\ req'[r].on = on
           /\ \A k \in Requests \ {r} : req'[k] = req[k]
<1>1. /\ req'[r] = [pc |-> pc, on |-> on, coupon |-> req[r].coupon]
      /\ \A k \in Requests \ {r} : req'[k] = req[k]
  BY DEF Go, TypeOK
<1>2. req'[r].pc = pc /\ req'[r].on = on
  BY <1>1
<1>. QED  BY <1>1, <1>2

LEMMA ReturnsTo ==
    ASSUME TypeOK, NEW r \in Requests, Return(r)
    PROVE  /\ req'[r] = Idle
           /\ \A k \in Requests \ {r} : req'[k] = req[k]
BY DEF Return, TypeOK

(* The request at work returns, and leaves the subscriptions alone.        *)
LEMMA SReturn ==
    ASSUME ~Overlap, BInv, SInv, NEW r \in Requests, Working(r), Return(r),
           UNCHANGED <<subs, hook>>, CouponLimit'
    PROVE  SInv' /\ CancelKept
<1>1. /\ req'[r] = Idle /\ RestFor(r)
      /\ \A k \in Requests \ {r} : req'[k] = req[k]
  BY ReturnsTo, Rests DEF BInv
<1>2. Knows(r)'
  BY <1>1 DEF Knows, Working, Idle
<1>3. OneOpen' /\ GraceEnds' /\ CancelKept
  BY SubsKept
<1>. QED  BY <1>1, <1>2, <1>3, SoleRequest

(* The request at work goes on, and leaves the subscriptions and the       *)
(* coupon alone.                                                           *)
LEMMA SGo ==
    ASSUME ~Overlap, BInv, SInv, NEW r \in Requests, Working(r) \/ MayStart,
           NEW pc, NEW on, Go(r, pc, on), UNCHANGED <<subs, used, hook>>,
           pc \notin {"idle", "count"},
           pc \in {"drop", "retire", "coupon", "store"} => subs[r].status = "absent",
           pc \in {"coupon", "store"} => OpenSubs = {},
           pc \in {"provision", "finish"} => subs[r].status = "pending",
           pc \in {"drop", "retire", "list", "mark"} =>
             \A s \in on : subs[s].status = "pending"
    PROVE  SInv' /\ CancelKept
<1>1. /\ req'[r] = [pc |-> pc, on |-> on, coupon |-> req[r].coupon] /\ RestFor(r)
      /\ \A k \in Requests \ {r} : req'[k] = req[k]
  BY GoesTo, Rests DEF BInv
<1>2. Knows(r)'
  <2>1. req'[r].coupon => used' < MaxUses
    BY <1>1 DEF SInv, Knows
  <2>2. OpenSubs' = OpenSubs
    BY DEF OpenSubs
  <2>. QED  BY <1>1, <2>1, <2>2 DEF Knows, Working
<1>3. OneOpen' /\ GraceEnds' /\ CancelKept /\ CouponLimit'
  BY SubsKept DEF CouponLimit, SInv
<1>. QED  BY <1>1, <1>2, <1>3, SoleRequest

LEMMA SSubscribe ==
    ASSUME ~Overlap, BInv, SInv, NEW r \in Requests, Subscribe(r)
    PROVE  SInv' /\ CancelKept
<1>1. /\ MayStart /\ subs[r].status = "absent" /\ UNCHANGED <<subs, used, hook>>
  BY DEF Subscribe, local
<1>2. CASE OpenSubs = {} /\ Go(r, "coupon", {})
  BY <1>1, <1>2, SGo
<1>3. ASSUME NEW s \in OpenSubs, ~Refused(s),
             IF subs[s].status # "pending"
             THEN Go(r, "coupon", {})
             ELSE \/ subs[s].known /\ Go(r, "list", {s})
                  \/ Go(r, Replace(s), {s})
      PROVE  SInv' /\ CancelKept
  <2>1. subs[s].status = "pending"
    BY <1>3 DEF OpenSubs, OpenStatuses, Refused
  <2>2. PICK pc \in {"list", "drop", "retire"} : Go(r, pc, {s})
    BY <1>3, <2>1 DEF Replace
  <2>. QED  BY <1>1, <2>1, <2>2, SGo
<1>. QED  BY <1>2, <1>3 DEF Subscribe

LEMMA SLoadCoupon ==
    ASSUME ~Overlap, BInv, SInv, NEW r \in Requests, LoadCoupon(r)
    PROVE  SInv' /\ CancelKept
<1>1. /\ Working(r) /\ RestFor(r) /\ TypeOK /\ UNCHANGED <<subs, used, hook>>
      /\ subs[r].status = "absent" /\ OpenSubs = {} /\ CouponLimit'
  BY Rests DEF LoadCoupon, local, Working, SInv, Knows, CouponLimit, BInv
<1>2. CASE Go(r, "store", {})
  BY <1>1, <1>2, SGo
<1>3. CASE Return(r)
  BY <1>1, <1>3, SReturn
<1>4. CASE Redeemable /\ req' = [req EXCEPT ![r].pc = "store", ![r].coupon = TRUE]
  <2>1. /\ req'[r] = [req[r] EXCEPT !.pc = "store", !.coupon = TRUE]
        /\ \A k \in Requests \ {r} : req'[k] = req[k]
        /\ req[r] \in Places
    BY <1>1, <1>4 DEF TypeOK, Places
  <2>2. req'[r].pc = "store"
    BY <2>1 DEF Places
  <2>3. used' < MaxUses /\ subs'[r].status = "absent" /\ OpenSubs' = {}
    BY <1>1, <1>4 DEF Redeemable, OpenSubs
  <2>4. Knows(r)'
    BY <2>2, <2>3 DEF Knows, Working
  <2>. QED  BY <1>1, <2>1, <2>4, SubsKept, SoleRequest
<1>. QED  BY <1>2, <1>3, <1>4 DEF LoadCoupon

LEMMA SCountCoupon ==
    ASSUME ~Overlap, BInv, SInv, NEW r \in Requests, CountCoupon(r)
    PROVE  SInv' /\ CancelKept
<1>1. /\ Working(r) /\ UNCHANGED <<subs, hook>> /\ Return(r)
      /\ used < MaxUses /\ used \in Nat /\ used' = used + 1
  BY DEF CountCoupon, Working, SInv, Knows, BInv, TypeOK
<1>2. CouponLimit'
  BY <1>1, CouponAssumption DEF CouponLimit
<1>. QED  BY <1>1, <1>2, SReturn

LEMMA SMoves ==
    ASSUME ~Overlap, BInv, SInv, NEW r \in Requests,
           AskCancel(r) \/ GetMe(r) \/ Fail(r)
    PROVE  SInv' /\ CancelKept
<1>1. UNCHANGED <<subs, used, hook>> /\ CouponLimit'
  BY DEF AskCancel, GetMe, Fail, local, SInv, CouponLimit
<1>2. CASE AskCancel(r)
  <2>1. PICK s \in OpenSubs, pc \in {"unbill", "close"} : Go(r, pc, {s}) /\ MayStart
    BY <1>2 DEF AskCancel
  <2>. QED  BY <1>1, <2>1, SGo
<1>3. CASE GetMe(r)
  <2>1. PICK s \in OpenSubs :
            /\ Go(r, "list", {s}) /\ MayStart /\ subs[s].status = "pending"
    BY <1>3 DEF GetMe, Refreshable
  <2>. QED  BY <1>1, <2>1, SGo
<1>4. CASE Fail(r)
  BY <1>1, <1>4, SReturn DEF Fail, Working
<1>. QED  BY <1>2, <1>3, <1>4

LEMMA SProviderCalls ==
    ASSUME ~Overlap, BInv, SInv, NEW r \in Requests, NEW s \in Subscribers,
           Drop(r, s) \/ Unbill(r, s) \/ List(r, s) \/ (r = s /\ Provision(r))
    PROVE  SInv' /\ CancelKept
<1>1. /\ UNCHANGED <<subs, used, hook>> /\ CouponLimit' /\ Working(r)
      /\ Knows(r) /\ req[r].on = {s}
  BY DEF Drop, Unbill, List, Provision, At, local, Working, SInv, CouponLimit
<1>2. CASE Return(r)
  BY <1>1, <1>2, SReturn
<1>3. CASE Drop(r, s)
  BY <1>1, <1>3, SGo DEF Drop, At, Knows
<1>4. CASE Unbill(r, s) /\ Go(r, "close", {s})
  BY <1>1, <1>4, SGo
<1>5. CASE List(r, s) /\ Go(r, "mark", {s})
  BY <1>1, <1>5, SGo DEF List, At, Knows
<1>6. CASE r = s /\ Provision(r) /\ Go(r, "finish", {r})
  BY <1>1, <1>6, SGo DEF Provision, At, Knows
<1>. QED  BY <1>2, <1>3, <1>4, <1>5, <1>6 DEF Unbill, List, Provision

(* The request at work stores a subscription, and returns or goes on.      *)
LEMMA SWrites ==
    ASSUME ~Overlap, BInv, SInv, NEW r \in Requests, Working(r),
           NEW s \in Subscribers, NEW d \in SubType,
           subs' = [subs EXCEPT ![s] = d], UNCHANGED <<used, hook>>,
           d.status \in OpenStatuses => s \in OpenSubs \/ OpenSubs = {},
           d.status # "past_due",
           subs[s].status # "cancelled" \/ d.status = "cancelled",
           \/ Return(r)
           \/ Go(r, "coupon", {}) /\ subs'[r].status = "absent" /\ OpenSubs' = {}
           \/ Go(r, "provision", {r}) /\ subs'[r].status = "pending"
           \/ req[r].coupon /\ Go(r, "count", {r})
    PROVE  SInv' /\ CancelKept
<1>1. OneOpen' /\ GraceEnds' /\ CancelKept
  BY OneWritten
<1>2. CouponLimit' /\ RestFor(r) /\ (req[r].coupon => used' < MaxUses)
  BY Rests DEF SInv, CouponLimit, Knows
<1>3. CASE Return(r)
  <2>1. req'[r] = Idle /\ \A k \in Requests \ {r} : req'[k] = req[k]
    BY <1>3, ReturnsTo DEF BInv
  <2>2. Knows(r)'
    BY <2>1 DEF Knows, Working, Idle
  <2>. QED  BY <1>1, <1>2, <2>1, <2>2, SoleRequest
<1>4. ASSUME NEW pc, NEW on, Go(r, pc, on),
             \/ pc = "coupon" /\ subs'[r].status = "absent" /\ OpenSubs' = {}
             \/ pc = "provision" /\ subs'[r].status = "pending"
             \/ pc = "count" /\ req[r].coupon
      PROVE  SInv'
  <2>1. /\ req'[r] = [pc |-> pc, on |-> on, coupon |-> req[r].coupon]
        /\ \A k \in Requests \ {r} : req'[k] = req[k]
    BY <1>4, GoesTo DEF BInv
  <2>2. Knows(r)'
    BY <1>2, <1>4, <2>1 DEF Knows, Working
  <2>. QED  BY <1>1, <1>2, <2>1, <2>2, SoleRequest
<1>. QED  BY <1>1, <1>3, <1>4

LEMMA SRetire ==
    ASSUME ~Overlap, BInv, SInv, NEW r \in Requests, NEW s \in Subscribers, Retire(r, s)
    PROVE  SInv' /\ CancelKept
<1> DEFINE d == [subs[s] EXCEPT !.status = Cancelled]
<1>1. /\ Working(r) /\ UNCHANGED <<used, hook>> /\ Go(r, "coupon", {})
      /\ r \in Subscribers /\ TypeOK
  BY DEF Retire, Working, At, BInv, Request, Subscribing
<1>2. subs[s].status = "pending" /\ subs[r].status = "absent"
  BY DEF Retire, At, SInv, Knows
<1>3. /\ d \in SubType /\ d.status = "cancelled" /\ subs' = [subs EXCEPT ![s] = d]
  BY <1>1 DEF Retire, SetStatus, TypeOK, SubType, Statuses, Cancelled
<1> HIDE DEF d
<1>4. subs'[r].status = "absent"
  BY <1>1, <1>2, <1>3 DEF TypeOK
<1>5. OpenSubs' = {}
  <2>1. s \in OpenSubs
    BY <1>2 DEF OpenSubs, OpenStatuses
  <2>2. \A t \in OpenSubs : t = s
    BY <2>1 DEF SInv, OneOpen
  <2>3. subs'[s] = d /\ \A t \in Subscribers \ {s} : subs'[t] = subs[t]
    BY <1>1, <1>3 DEF TypeOK
  <2>. QED  BY <1>3, <2>2, <2>3 DEF OpenSubs, OpenStatuses, AccessStatuses
<1>. QED  BY <1>1, <1>3, <1>4, <1>5, SWrites DEF OpenStatuses, AccessStatuses

LEMMA SClose ==
    ASSUME ~Overlap, BInv, SInv, NEW r \in Requests, NEW s \in Subscribers, Close(r, s)
    PROVE  SInv' /\ CancelKept
<1> DEFINE d == [subs[s] EXCEPT !.status = Cancelled]
<1>1. Working(r) /\ UNCHANGED <<used, hook>> /\ Return(r) /\ TypeOK
  BY DEF Close, Working, At, BInv
<1>2. /\ d \in SubType /\ d.status = "cancelled" /\ subs' = [subs EXCEPT ![s] = d]
  BY <1>1 DEF Close, SetStatus, TypeOK, SubType, Statuses, Cancelled
<1> HIDE DEF d
<1>. QED  BY <1>1, <1>2, SWrites DEF OpenStatuses, AccessStatuses

LEMMA SMark ==
    ASSUME ~Overlap, BInv, SInv, NEW r \in Requests, NEW s \in Subscribers, Mark(r, s)
    PROVE  SInv' /\ CancelKept
<1> DEFINE d == [subs[s] EXCEPT !.status = "active", !.late = FALSE]
<1>1. Working(r) /\ UNCHANGED <<used, hook>> /\ Return(r) /\ TypeOK
  BY DEF Mark, Working, At, BInv
<1>2. d \in SubType /\ d.status = "active" /\ subs' = [subs EXCEPT ![s] = d]
  <2>1. subs[s] \in SubType
    BY <1>1 DEF TypeOK
  <2>2. subs' = [subs EXCEPT ![s] = d]
    BY DEF Mark
  <2>. QED  BY <2>1, <2>2, Activated
<1>3. subs[s].status = "pending" /\ s \in OpenSubs
  BY DEF Mark, At, SInv, Knows, OpenSubs, OpenStatuses
<1> HIDE DEF d
<1>. QED  BY <1>1, <1>2, <1>3, SWrites

LEMMA SFinish ==
    ASSUME ~Overlap, BInv, SInv, NEW r \in Requests, Finish(r)
    PROVE  SInv' /\ CancelKept
<1>1. /\ Working(r) /\ UNCHANGED <<used, hook>> /\ r \in Subscribers
      /\ Return(r) \/ (req[r].coupon /\ Go(r, "count", {r}))
  BY DEF Finish, Working, At, BInv, Request, Subscribing
<1>2. PICK d \in SubType : /\ d.status \in {"trialing", "pending"}
                           /\ subs' = [subs EXCEPT ![r] = d]
  BY <1>1, Finishes
<1>3. subs[r].status = "pending" /\ r \in OpenSubs
  BY <1>1 DEF Finish, At, SInv, Knows, OpenSubs, OpenStatuses
<1>. QED  BY <1>1, <1>2, <1>3, SWrites

LEMMA SStore ==
    ASSUME ~Overlap, BInv, SInv, NEW r \in Requests, Store(r)
    PROVE  SInv' /\ CancelKept
<1>1. /\ Working(r) /\ UNCHANGED <<used, hook>> /\ TypeOK /\ r \in Subscribers
      /\ Go(r, "provision", {r})
  BY DEF Store, Working, BInv, Request, Subscribing
<1>2. subs[r].status = "absent" /\ OpenSubs = {}
  BY DEF Store, SInv, Knows
<1>3. PICK d \in SubType : d.status = "pending" /\ subs' = [subs EXCEPT ![r] = d]
  BY Stores
<1>4. subs'[r].status = "pending"
  BY <1>1, <1>3 DEF TypeOK
<1>. QED  BY <1>1, <1>2, <1>3, <1>4, SWrites

(* A patch worked out from the stored subscription itself.                 *)
LEMMA FreshPatch ==
    ASSUME BInv, NEW e \in sent, NEW d \in Patches(e, subs[e.sub], subs[e.sub])
    PROVE  /\ d.status \in OpenStatuses => subs[e.sub].status \in OpenStatuses
           /\ subs[e.sub].status = "cancelled" => d.status = "cancelled"
           /\ subs[e.sub].status \in OpenStatuses =>
                e.kind = "DELETED" \/ d.status \in OpenStatuses
           /\ d.status = "past_due" =>
                d.late \/ (subs[e.sub].status = "past_due" /\ ~subs[e.sub].late)
           /\ subs[e.sub].known => d.known
<1> DEFINE now == subs[e.sub]
<1>1. /\ e \in Events /\ now \in SubType /\ now.status # "absent"
  BY EventShape DEF BInv, TypeOK, Reported, Stored
<1>2. CASE e.kind = "CONFIRMED"
  <2>1. d = PaidPatch(now, now)
    BY <1>2 DEF Patches
  <2>. QED  BY <1>1, <2>1
            DEF PaidPatch, SubType, Statuses, OpenStatuses, AccessStatuses
<1>3. CASE e.kind = "OVERDUE"
  <2>1. d = OverduePatch(now, now)
    BY <1>3 DEF Patches
  <2>. QED  BY <1>1, <2>1
            DEF OverduePatch, SubType, Statuses, OpenStatuses, AccessStatuses
<1>4. CASE e.kind = "CREATED"
  <2>1. PICK lapsed \in BOOLEAN : d = CreatedPatch(now, now, lapsed)
    BY <1>4 DEF Patches
  <2>. QED  BY <1>1, <2>1
            DEF CreatedPatch, SubType, Statuses, OpenStatuses, AccessStatuses
<1>5. CASE e.kind = "DELETED"
  <2>1. d = DeletedPatch(now)
    BY <1>5 DEF Patches
  <2>. QED  BY <1>1, <1>5, <2>1
            DEF DeletedPatch, Cancelled, SubType, OpenStatuses, AccessStatuses
<1>. QED  BY <1>1, <1>2, <1>3, <1>4, <1>5, EventShape

LEMMA SApply ==
    ASSUME ~Overlap, BInv, SInv, NEW h \in Handlers, NEW e \in Events, Apply(h, e)
    PROVE  SInv' /\ CancelKept
<1>1. /\ TypeOK /\ Holds(h, e) /\ e \in sent /\ e.sub \in Subscribers
      /\ UNCHANGED <<used, req>> /\ hook[h].pc = "apply" /\ Delivering(h)
  BY EventShape DEF Apply, BInv, Hook, Holds, Delivering
<1>2. hook[h].copy = subs[e.sub]
  BY <1>1 DEF SInv, CopyFresh, Holds
<1>3. PICK d \in Patches(e, subs[e.sub], subs[e.sub]) : subs' = [subs EXCEPT ![e.sub] = d]
  BY <1>2 DEF Apply
<1>4. d \in SubType
  BY <1>1, <1>3, Patched DEF TypeOK
<1>5. OneOpen' /\ GraceEnds' /\ CancelKept
  <2>1. d.status \in OpenStatuses => e.sub \in OpenSubs
    BY <1>1, <1>3, FreshPatch DEF OpenSubs
  <2>2. d.status = "past_due" => d.late
    BY <1>1, <1>3, FreshPatch DEF SInv, GraceEnds
  <2>3. subs[e.sub].status = "cancelled" => d.status = "cancelled"
    BY <1>1, <1>3, FreshPatch
  <2>. QED  BY <1>1, <1>3, <1>4, <2>1, <2>2, <2>3, OneWritten
<1>6. /\ RestForHook(h) /\ CouponLimit' /\ hook'[h].pc = "end"
      /\ \A k \in Handlers \ {h} : hook'[k] = hook[k]
  BY <1>1, HookRests DEF Apply, TypeOK, SInv, CouponLimit
<1>7. CopyFresh(h)'
  BY <1>6 DEF CopyFresh
<1>. QED  BY <1>1, <1>5, <1>6, <1>7, SoleHook

LEMMA SDelivers ==
    ASSUME ~Overlap, BInv, SInv, NEW h \in Handlers, NEW e \in Events,
           \/ Deliver(h, e) \/ Find(h, e) \/ Answer(h, e) \/ Raise(h, e) \/ Die(h, e)
    PROVE  SInv' /\ CancelKept
<1>1. /\ TypeOK /\ UNCHANGED <<subs, used, req>>
      /\ \A k \in Handlers \ {h} : hook'[k] = hook[k]
  BY DEF Deliver, Find, Answer, Raise, Die, local, BInv, TypeOK
<1>2. Delivering(h) \/ MayStart
  BY DEF Deliver, Find, Answer, Raise, Die, Holds, Delivering
<1>3. CopyFresh(h)'
  <2>1. CASE Deliver(h, e) /\ Fresh(e)
    BY <1>1, <2>1 DEF Deliver, TypeOK, CopyFresh
  <2>2. CASE Deliver(h, e) /\ ~Fresh(e)
    BY <1>1, <2>2 DEF Deliver, CopyFresh, SInv
  <2>3. CASE Find(h, e) /\ Found(e.sub)
    <3>1. hook'[h] = [hook[h] EXCEPT !.pc = "apply", !.copy = subs[e.sub]]
      BY <1>1, <2>3 DEF Find, TypeOK
    <3>2. hook'[h].on = {e} /\ hook'[h].copy = subs[e.sub]
      BY <1>1, <2>3, <3>1 DEF Find, Holds, TypeOK
    <3>. QED  BY <1>1, <3>2 DEF CopyFresh
  <2>4. CASE Find(h, e) /\ ~Found(e.sub)
    BY <1>1, <2>4 DEF Find, TypeOK, CopyFresh
  <2>5. CASE Answer(h, e) \/ Raise(h, e) \/ Die(h, e)
    BY <1>1, <2>5 DEF Answer, Raise, Die, TypeOK, NoHook, CopyFresh
  <2>. QED  BY <2>1, <2>2, <2>3, <2>4, <2>5
<1>4. OneOpen' /\ GraceEnds' /\ CancelKept /\ CouponLimit'
  BY <1>1, SubsKept DEF SInv, CouponLimit
<1>5. RestForHook(h)
  BY <1>2, HookRests
<1>. QED  BY <1>1, <1>3, <1>4, <1>5, SoleHook

(* Nobody but the provider moves, or nothing at all.                       *)
LEMMA SQuiet ==
    ASSUME SInv, UNCHANGED <<subs, used, req, hook>>
    PROVE  SInv' /\ CancelKept
<1>1. OneOpen' /\ GraceEnds' /\ CancelKept
  BY SubsKept
<1>2. OneAtATime' /\ CouponLimit'
  BY DEF SInv, OneAtATime, CouponLimit, Working, Delivering
<1>3. (\A r \in Requests : Knows(r)') /\ (\A h \in Handlers : CopyFresh(h)')
  BY DEF SInv, Knows, CopyFresh, Working, OpenSubs
<1>. QED  BY <1>1, <1>2, <1>3 DEF SInv

LEMMA SInit == Init => SInv
<1> SUFFICES ASSUME Init
             PROVE  SInv
  OBVIOUS
<1>1. OneAtATime /\ OneOpen /\ GraceEnds
  BY DEF Init, OneAtATime, OneOpen, GraceEnds, Working, Delivering, Idle, NoHook,
         OpenSubs, OpenStatuses, AccessStatuses, NoSub
<1>2. CouponLimit
  BY CouponAssumption DEF Init, CouponLimit
<1>3. (\A r \in Requests : Knows(r)) /\ (\A h \in Handlers : CopyFresh(h))
  BY DEF Init, Knows, CopyFresh, Working, Idle, NoHook
<1>. QED  BY <1>1, <1>2, <1>3 DEF SInv

LEMMA SStep ==
    ASSUME ~Overlap
    PROVE  BInv /\ SInv /\ [Next]_vars => SInv' /\ CancelKept
<1> SUFFICES ASSUME BInv, SInv, [Next]_vars
             PROVE  SInv' /\ CancelKept
  OBVIOUS
<1>1. ASSUME NEW r \in Requests,
             Subscribe(r) \/ AskCancel(r) \/ GetMe(r) \/ Fail(r)
      PROVE  SInv' /\ CancelKept
  BY <1>1, SSubscribe, SMoves
<1>2. ASSUME NEW r \in Requests,
             LoadCoupon(r) \/ Store(r) \/ Finish(r) \/ CountCoupon(r)
      PROVE  SInv' /\ CancelKept
  BY <1>2, SLoadCoupon, SStore, SFinish, SCountCoupon
<1>3. ASSUME NEW r \in Requests, Provision(r)
      PROVE  SInv' /\ CancelKept
  BY <1>3, SProviderCalls DEF Provision, At, BInv, Request, Subscribing
<1>4. ASSUME NEW r \in Requests, NEW s \in Subscribers,
             \/ Drop(r, s) \/ Retire(r, s) \/ Unbill(r, s)
             \/ Close(r, s) \/ List(r, s) \/ Mark(r, s)
      PROVE  SInv' /\ CancelKept
  BY <1>4, SProviderCalls, SRetire, SClose, SMark
<1>5. CASE (\E e \in Events : Provider(e)) \/ UNCHANGED vars
  BY <1>5, SQuiet DEF Provider, vars, local
<1>6. ASSUME NEW e \in Events, NEW h \in Handlers,
             \/ Deliver(h, e) \/ Find(h, e) \/ Apply(h, e)
             \/ Answer(h, e) \/ Raise(h, e) \/ Die(h, e)
      PROVE  SInv' /\ CancelKept
  BY <1>6, SDelivers, SApply
<1>. QED  BY <1>1, <1>2, <1>3, <1>4, <1>5, <1>6 DEF Next, Continue

(* While requests and deliveries do not overlap, the coupon is not used    *)
(* more often than its limit allows, though awaits raise and deliveries    *)
(* die (_load_valid_coupon, increment_used).                               *)
THEOREM CouponLimited ==
    ASSUME ~Overlap
    PROVE  Spec => []CouponLimit
<1>1. SInv => CouponLimit
  BY DEF SInv
<1>. QED  BY <1>1, SInit, SStep, BillingInvariance, PTL DEF Spec

(* While nothing overlaps, a subscription past due knows since when, so    *)
(* its days of grace end (_handle_payment_event, _has_access).             *)
THEOREM GraceWillEnd ==
    ASSUME ~Overlap
    PROVE  Spec => []GraceEnds
<1>1. SInv => GraceEnds
  BY DEF SInv
<1>. QED  BY <1>1, SInit, SStep, BillingInvariance, PTL DEF Spec

(* While nothing overlaps, a cancelled subscription stays cancelled,       *)
(* whatever event comes late (_handle_payment_event,                       *)
(* _handle_subscription_event).                                            *)
THEOREM CancelledForGood ==
    ASSUME ~Overlap
    PROVE  Spec => CancelledStays
<1>1. BInv /\ SInv /\ [Next]_vars
        => [\A s \in Subscribers : subs[s].status = "cancelled"
                                   => subs'[s].status = "cancelled"]_vars
  BY SStep DEF CancelKept
<1>. QED  BY <1>1, SInit, SStep, BillingInvariance, PTL DEF Spec, CancelledStays

-----------------------------------------------------------------------------
(* One at a time, and no call fails                                        *)

(* What the provider charges is open, for the request at work stores its   *)
(* id before it returns, and cancels only what the provider has deleted or *)
(* never heard of.                                                         *)
Known ==
    \A s \in Subscribers :
        Created(s) \in sent => subs[s].known \/ req[s].pc = "finish"

Uncharged(r) ==
    req[r].pc \in {"retire", "close"} => \A s \in req[r].on : ~Live(s)

CInv ==
    /\ ChargedIsOpen
    /\ Known
    /\ \A r \in Requests : Uncharged(r)

Together == BInv /\ SInv /\ CInv

(* The reports of the provider are told apart.                             *)
LEMMA Reports ==
    \A s, t : /\ Created(s) # Deleted(t)
              /\ Created(s) = Created(t) => s = t
              /\ Deleted(s) = Deleted(t) => s = t
<1> SUFFICES ASSUME NEW s, NEW t
             PROVE  /\ Created(s) # Deleted(t)
                    /\ Created(s) = Created(t) => s = t
                    /\ Deleted(s) = Deleted(t) => s = t
  OBVIOUS
<1>1. /\ Created(s).kind = "CREATED" /\ Created(s).sub = s /\ Created(t).sub = t
      /\ Deleted(t).kind = "DELETED" /\ Deleted(s).sub = s /\ Deleted(t).sub = t
  BY DEF Created, Deleted
<1>. QED  BY <1>1

(* While nobody subscribes, what the provider never reported by its id it  *)
(* does not charge.                                                        *)
LEMMA UnknownUncharged ==
    ASSUME Together, NEW s \in Subscribers, req[s].pc # "finish", ~subs[s].known
    PROVE  ~Live(s)
BY DEF Together, CInv, Known, Live

(* The others at rest are at no subscription.                              *)
LEMMA OthersUncharged ==
    ASSUME Together, NEW r \in Requests, RestFor(r), NEW k \in Requests \ {r},
           req'[k] = req[k]
    PROVE  Uncharged(k)' /\ req[k].pc = "idle" /\ req'[k].pc = "idle"
BY DEF RestFor, Working, Uncharged

(* A request moves and leaves the subscriptions and the provider alone.    *)
LEMMA CMoves ==
    ASSUME ~Overlap, Together, NEW r \in Requests, Working(r) \/ MayStart,
           UNCHANGED <<subs, sent>>, req[r].pc # "finish",
           \/ Return(r)
           \/ \E pc, on : Go(r, pc, on) /\ (pc \in {"retire", "close"}
                                              => \A s \in on : ~Live(s))
    PROVE  CInv'
<1>1. TypeOK /\ RestFor(r)
  BY Rests DEF Together, BInv
<1>2. /\ req'[r].pc \in {"retire", "close"} => \A s \in req'[r].on : ~Live(s)
      /\ \A k \in Requests \ {r} : req'[k] = req[k]
  <2>1. CASE Return(r)
    BY <2>1, <1>1, ReturnsTo DEF Idle
  <2>2. ASSUME NEW pc, NEW on, Go(r, pc, on),
               pc \in {"retire", "close"} => \A s \in on : ~Live(s)
        PROVE  /\ req'[r].pc \in {"retire", "close"} => \A s \in req'[r].on : ~Live(s)
               /\ \A k \in Requests \ {r} : req'[k] = req[k]
    <3>1. /\ req'[r] = [pc |-> pc, on |-> on, coupon |-> req[r].coupon]
          /\ \A k \in Requests \ {r} : req'[k] = req[k]
      BY <2>2, <1>1, GoesTo
    <3>2. req'[r].pc = pc /\ req'[r].on = on
      BY <3>1
    <3>. QED  BY <2>2, <3>1, <3>2
  <2>. QED  BY <2>1, <2>2
<1>3. ChargedIsOpen'
  BY DEF Together, CInv, ChargedIsOpen, Live, OpenSubs
<1>4. Known'
  <2>1. \A s \in Subscribers : req[s].pc # "finish"
    BY <1>1, RequestAssumption DEF RestFor, Working
  <2>. QED  BY <2>1 DEF Together, CInv, Known
<1>5. Uncharged(r)'
  BY <1>2 DEF Uncharged, Live
<1>. QED  BY <1>1, <1>2, <1>3, <1>4, <1>5, OthersUncharged DEF CInv

LEMMA CSubscribe ==
    ASSUME ~Overlap, Together, NEW r \in Requests, Subscribe(r)
    PROVE  CInv'
<1>1. /\ MayStart /\ UNCHANGED <<subs, sent>> /\ req[r].pc = "idle" /\ RestFor(r)
  BY Rests DEF Subscribe, local, remote, Together
<1>2. CASE OpenSubs = {} /\ Go(r, "coupon", {})
  BY <1>1, <1>2, CMoves
<1>3. ASSUME NEW s \in OpenSubs, ~Refused(s),
             IF subs[s].status # "pending"
             THEN Go(r, "coupon", {})
             ELSE \/ subs[s].known /\ Go(r, "list", {s})
                  \/ Go(r, Replace(s), {s})
      PROVE  CInv'
  <2>1. subs[s].status = "pending" /\ s \in Subscribers /\ req[s].pc # "finish"
    BY <1>1, <1>3, RequestAssumption
    DEF OpenSubs, OpenStatuses, Refused, RestFor, Working
  <2>2. CASE Go(r, "list", {s})
    BY <1>1, <2>2, CMoves
  <2>3. CASE subs[s].known /\ Go(r, "drop", {s})
    BY <1>1, <2>3, CMoves
  <2>4. CASE ~subs[s].known /\ Go(r, "retire", {s})
    <3>1. \A t \in {s} : ~Live(t)
      BY <2>1, <2>4, UnknownUncharged
    <3>. QED  BY <1>1, <2>4, <3>1, CMoves
  <2>. QED  BY <1>3, <2>1, <2>2, <2>3, <2>4 DEF Replace
<1>. QED  BY <1>2, <1>3 DEF Subscribe

LEMMA CAskCancel ==
    ASSUME ~Overlap, Together, NEW r \in Requests, AskCancel(r)
    PROVE  CInv'
<1>1. /\ MayStart /\ UNCHANGED <<subs, sent>> /\ req[r].pc = "idle" /\ RestFor(r)
  BY Rests DEF AskCancel, local, remote, Together
<1>2. PICK s \in OpenSubs : Go(r, IF subs[s].known THEN "unbill" ELSE "close", {s})
  BY DEF AskCancel
<1>3. CASE subs[s].known
  <2>1. Go(r, "unbill", {s})
    BY <1>2, <1>3
  <2>. QED  BY <1>1, <2>1, CMoves
<1>4. CASE ~subs[s].known
  <2>1. Go(r, "close", {s})
    BY <1>2, <1>4
  <2>2. req[s].pc # "finish" /\ s \in Subscribers
    BY <1>1, RequestAssumption DEF RestFor, Working, OpenSubs
  <2>3. \A t \in {s} : ~Live(t)
    BY <1>4, <2>2, UnknownUncharged
  <2>. QED  BY <1>1, <2>1, <2>3, CMoves
<1>. QED  BY <1>3, <1>4

LEMMA COthers ==
    ASSUME ~Overlap, Together, NEW r \in Requests,
           \/ GetMe(r) \/ LoadCoupon(r) \/ CountCoupon(r)
           \/ \E s \in Subscribers : List(r, s)
    PROVE  CInv'
<1>1. UNCHANGED <<subs, sent>> /\ req[r].pc # "finish" /\ (Working(r) \/ MayStart)
  BY DEF GetMe, LoadCoupon, CountCoupon, List, At, local, remote, Working
<1>2. CASE Return(r)
  BY <1>1, <1>2, CMoves
<1>3. CASE \E s : Go(r, "list", {s}) \/ Go(r, "mark", {s})
  BY <1>1, <1>3, CMoves
<1>4. CASE Go(r, "store", {})
  BY <1>1, <1>4, CMoves
<1>5. CASE LoadCoupon(r) /\ req' = [req EXCEPT ![r].pc = "store", ![r].coupon = TRUE]
  <2>1. /\ req'[r] = [req[r] EXCEPT !.pc = "store", !.coupon = TRUE]
        /\ \A k \in Requests \ {r} : req'[k] = req[k]
        /\ req[r] \in Places /\ RestFor(r)
    BY <1>1, <1>5, Rests DEF TypeOK, Places, Together, BInv
  <2>2. req'[r].pc = "store"
    BY <2>1 DEF Places
  <2>3. ChargedIsOpen'
    BY <1>1 DEF Together, CInv, ChargedIsOpen, Live, OpenSubs
  <2>4. Known'
    <3>1. \A s \in Subscribers : req[s].pc # "finish"
      BY <1>1, <2>1, RequestAssumption DEF RestFor, Working
    <3>. QED  BY <1>1, <3>1 DEF Together, CInv, Known
  <2>5. Uncharged(r)'
    BY <2>2 DEF Uncharged
  <2>. QED  BY <2>1, <2>3, <2>4, <2>5, OthersUncharged DEF CInv
<1>. QED  BY <1>2, <1>3, <1>4, <1>5 DEF GetMe, LoadCoupon, CountCoupon, List

(* A request deletes a subscription at the provider.                       *)
LEMMA CDeletes ==
    ASSUME ~Overlap, ~Faults, Together, NEW r \in Requests, NEW s \in Subscribers,
           Drop(r, s) \/ Unbill(r, s)
    PROVE  CInv'
<1>1. /\ TypeOK /\ RestFor(r) /\ subs' = subs /\ sent' = sent \cup {Deleted(s)}
      /\ req[r].pc # "finish"
  BY Rests DEF Drop, Unbill, At, local, Together, BInv, Working
<1>2. ~Live(s)' /\ \A t \in Subscribers : Live(t)' => Live(t)
  BY <1>1, Reports DEF Live
<1>3. /\ req'[r].pc \in {"retire", "close", "idle"}
      /\ req'[r].pc # "idle" => req'[r].on = {s}
      /\ \A k \in Requests \ {r} : req'[k] = req[k]
  <2>1. CASE Return(r)
    BY <1>1, <2>1, ReturnsTo DEF Idle
  <2>2. PICK on : on = {s}
    OBVIOUS
  <2>3. ASSUME NEW pc, Go(r, pc, on)
        PROVE  /\ req'[r].pc = pc /\ req'[r].on = on
               /\ \A k \in Requests \ {r} : req'[k] = req[k]
    <3>1. TypeOK
      BY <1>1
    <3>2. /\ req'[r] = [pc |-> pc, on |-> on, coupon |-> req[r].coupon]
          /\ \A k \in Requests \ {r} : req'[k] = req[k]
      BY <3>1, <2>3, GoesTo
    <3>. QED  BY <3>2
  <2>4. Return(r) \/ Go(r, "retire", on) \/ Go(r, "close", on)
    BY <2>2 DEF Drop, Unbill
  <2>. QED  BY <2>1, <2>2, <2>3, <2>4
<1>4. ChargedIsOpen'
  BY <1>1, <1>2 DEF Together, CInv, ChargedIsOpen, OpenSubs
<1>5. Known'
  <2>1. \A t \in Subscribers : req[t].pc # "finish"
    BY <1>1, RequestAssumption DEF RestFor, Working
  <2>. QED  BY <1>1, <2>1, Reports DEF Together, CInv, Known
<1>6. Uncharged(r)'
  BY <1>2, <1>3 DEF Uncharged
<1>7. ASSUME NEW k \in Requests \ {r}
      PROVE  Uncharged(k)'
  BY <1>1, <1>3 DEF RestFor, Working, Uncharged
<1>. QED  BY <1>4, <1>5, <1>6, <1>7 DEF CInv

(* A request stores a subscription that is open, or not charged.           *)
LEMMA CWrites ==
    ASSUME ~Overlap, Together, NEW r \in Requests, Working(r),
           NEW s \in Subscribers, NEW d \in SubType,
           subs' = [subs EXCEPT ![s] = d], UNCHANGED sent,
           d.status \in OpenStatuses \/ ~Live(s),
           d.known \/ Created(s) \notin sent,
           \A t \in Subscribers : req[t].pc = "finish" => t = s,
           req'[r].pc \notin {"retire", "close"},
           \A k \in Requests \ {r} : req'[k] = req[k]
    PROVE  CInv'
<1>1. /\ RestFor(r) /\ subs'[s] = d
      /\ \A t \in Subscribers \ {s} : subs'[t] = subs[t]
  BY Rests DEF Together, BInv, TypeOK
<1>2. ChargedIsOpen'
  BY <1>1 DEF Together, CInv, ChargedIsOpen, OpenSubs, Live
<1>3. Known'
  BY <1>1 DEF Together, CInv, Known
<1>4. Uncharged(r)'
  BY DEF Uncharged
<1>. QED  BY <1>1, <1>2, <1>3, <1>4, OthersUncharged DEF CInv

LEMMA CStores ==
    ASSUME ~Overlap, ~Faults, Together, NEW r \in Requests, NEW s \in Subscribers,
           \/ Retire(r, s) \/ Close(r, s) \/ Mark(r, s)
           \/ r = s /\ (Store(r) \/ Finish(r))
    PROVE  CInv'
<1>1. TypeOK /\ Working(r) /\ sent' = sent /\ RestFor(r)
  BY Rests DEF Retire, Close, Mark, Store, Finish, At, remote, Together, BInv, Working
<1>2. /\ req'[r].pc \notin {"retire", "close"}
      /\ \A k \in Requests \ {r} : req'[k] = req[k]
  <2>1. CASE Return(r)
    BY <1>1, <2>1, ReturnsTo DEF Idle
  <2>2. ASSUME NEW pc \in {"coupon", "provision", "count"}, NEW on, Go(r, pc, on)
        PROVE  /\ req'[r].pc \notin {"retire", "close"}
               /\ \A k \in Requests \ {r} : req'[k] = req[k]
    BY <1>1, <2>2, GoesTo
  <2>. QED  BY <2>1, <2>2 DEF Retire, Close, Mark, Store, Finish
<1>3. \A t \in Subscribers : req[t].pc = "finish" => t = r
  BY <1>1, RequestAssumption DEF RestFor, Working
<1>4. CASE Retire(r, s) \/ Close(r, s) \/ Mark(r, s)
  <2>1. /\ req[r].on = {s} /\ req[r].pc # "finish"
        /\ Retire(r, s) \/ Close(r, s) => ~Live(s)
    BY <1>4 DEF Retire, Close, Mark, At, Together, CInv, Uncharged
  <2>2. PICK d \in SubType : /\ subs' = [subs EXCEPT ![s] = d]
                             /\ d.status = "active" \/ ~Live(s)
                             /\ d.known = subs[s].known
    <3>1. CASE Mark(r, s)
      <4> DEFINE d == [subs[s] EXCEPT !.status = "active", !.late = FALSE]
      <4>1. d \in SubType /\ d.status = "active" /\ d.known = subs[s].known
            /\ subs' = [subs EXCEPT ![s] = d]
        <5>1. subs[s] \in SubType
          BY <1>1 DEF TypeOK
        <5>2. subs' = [subs EXCEPT ![s] = d]
          BY <3>1 DEF Mark
        <5>. QED  BY <5>1, <5>2, Activated
      <4>. QED  BY <4>1
    <3>2. CASE Retire(r, s) \/ Close(r, s)
      <4> DEFINE d == [subs[s] EXCEPT !.status = Cancelled]
      <4>1. d \in SubType /\ d.known = subs[s].known /\ subs' = [subs EXCEPT ![s] = d]
        BY <1>1, <3>2 DEF Retire, Close, SetStatus, TypeOK, SubType, Statuses, Cancelled
      <4>. QED  BY <4>1, <2>1, <3>2
    <3>. QED  BY <1>4, <3>1, <3>2
  <2>3. d.known \/ Created(s) \notin sent
    <3>1. req[s].pc # "finish"
      BY <1>3, <2>1
    <3>. QED  BY <2>2, <3>1 DEF Together, CInv, Known
  <2>4. \A t \in Subscribers : req[t].pc = "finish" => t = s
    BY <1>3, <2>1
  <2>. QED  BY <1>1, <1>2, <2>2, <2>3, <2>4, CWrites DEF OpenStatuses, AccessStatuses
<1>5. CASE r = s /\ Finish(r)
  <2>1. PICK d \in SubType : /\ d.status \in {"trialing", "pending"} /\ d.known
                             /\ subs' = [subs EXCEPT ![s] = d]
    BY <1>5, Finishes DEF Together
  <2>. QED  BY <1>1, <1>2, <1>3, <1>5, <2>1, CWrites DEF OpenStatuses, AccessStatuses
<1>6. CASE r = s /\ Store(r)
  <2>1. PICK d \in SubType : d.status = "pending" /\ subs' = [subs EXCEPT ![s] = d]
    BY <1>6, Stores
  <2>2. subs[r].status = "absent"
    BY <1>6 DEF Store, Together, SInv, Knows
  <2>3. Created(s) \notin sent
    BY <1>6, <2>2, ReportShape DEF Together, BInv, Reported, Stored
  <2>. QED  BY <1>1, <1>2, <1>3, <1>6, <2>1, <2>3, CWrites DEF OpenStatuses
<1>. QED  BY <1>4, <1>5, <1>6

LEMMA CProvision ==
    ASSUME ~Overlap, ~Faults, Together, NEW r \in Requests, Provision(r)
    PROVE  CInv'
<1>1. /\ TypeOK /\ RestFor(r) /\ subs' = subs /\ sent' = sent \cup {Created(r)}
      /\ Go(r, "finish", {r}) /\ r \in Subscribers /\ req[r].pc # "finish"
  BY Rests DEF Provision, At, local, Together, BInv, Working, Request, Subscribing
<1>2. /\ req'[r].pc = "finish"
      /\ \A k \in Requests \ {r} : req'[k] = req[k]
  <2>1. PICK pc \in {"finish"}, on \in {{r}} : Go(r, pc, on)
    BY <1>1
  <2>. QED  BY <1>1, <2>1, GoesTo
<1>3. r \in OpenSubs
  BY <1>1 DEF Provision, At, Together, SInv, Knows, OpenSubs, OpenStatuses
<1>4. \A t \in Subscribers \ {r} : Live(t)' => Live(t)
  BY <1>1, Reports DEF Live
<1>5. ChargedIsOpen'
  BY <1>1, <1>3, <1>4 DEF Together, CInv, ChargedIsOpen, OpenSubs
<1>6. Known'
  BY <1>1, <1>2, Reports, RequestAssumption DEF Together, CInv, Known
<1>7. Uncharged(r)'
  BY <1>2 DEF Uncharged
<1>8. ASSUME NEW k \in Requests \ {r}
      PROVE  Uncharged(k)'
  BY <1>1, <1>2 DEF RestFor, Working, Uncharged
<1>. QED  BY <1>5, <1>6, <1>7, <1>8 DEF CInv

LEMMA CProvider ==
    ASSUME Together, NEW e \in Events, Provider(e)
    PROVE  CInv'
<1>1. subs' = subs /\ req' = req /\ sent' = sent \cup {e} /\ Live(e.sub)
  BY DEF Provider, local
<1>2. \A t \in Subscribers : Created(t) \in sent' => Created(t) \in sent
  BY <1>1, ReportShape DEF Live
<1>3. \A t \in Subscribers : Live(t)' => Live(t)
  BY <1>1, <1>2 DEF Live
<1>4. ChargedIsOpen'
  BY <1>1, <1>3 DEF Together, CInv, ChargedIsOpen, OpenSubs
<1>5. Known'
  BY <1>1, <1>2 DEF Together, CInv, Known
<1>6. ASSUME NEW r \in Requests
      PROVE  Uncharged(r)'
  BY <1>1, <1>3 DEF Together, BInv, TypeOK, CInv, Uncharged
<1>. QED  BY <1>4, <1>5, <1>6 DEF CInv

LEMMA CQuiet ==
    ASSUME Together, UNCHANGED <<subs, req, sent>>
    PROVE  CInv'
BY DEF Together, CInv, ChargedIsOpen, Known, Uncharged, Live, OpenSubs

LEMMA CApply ==
    ASSUME ~Overlap, Together, NEW h \in Handlers, NEW e \in Events, Apply(h, e)
    PROVE  CInv'
<1>1. /\ TypeOK /\ Holds(h, e) /\ e \in sent /\ e.sub \in Subscribers
      /\ UNCHANGED <<sent, req>> /\ hook[h].pc = "apply"
  BY EventShape DEF Apply, Together, BInv, Hook, Holds, remote
<1>2. hook[h].copy = subs[e.sub]
  BY <1>1 DEF Together, SInv, CopyFresh, Holds
<1>3. PICK d \in Patches(e, subs[e.sub], subs[e.sub]) : subs' = [subs EXCEPT ![e.sub] = d]
  BY <1>2 DEF Apply
<1>4. subs'[e.sub] = d /\ \A t \in Subscribers \ {e.sub} : subs'[t] = subs[t]
  BY <1>1, <1>3 DEF TypeOK
<1>5. /\ subs[e.sub].status \in OpenStatuses =>
           e.kind = "DELETED" \/ d.status \in OpenStatuses
      /\ subs[e.sub].known => d.known
  BY <1>1, <1>3, FreshPatch DEF Together
<1>6. e.kind = "DELETED" => ~Live(e.sub)
  BY <1>1, EventShape DEF Live
<1>7. ChargedIsOpen'
  BY <1>1, <1>4, <1>5, <1>6 DEF Together, CInv, ChargedIsOpen, OpenSubs, Live
<1>8. Known'
  BY <1>1, <1>4, <1>5 DEF Together, CInv, Known
<1>9. \A r \in Requests : Uncharged(r)'
  BY <1>1 DEF Together, CInv, Uncharged, Live
<1>. QED  BY <1>7, <1>8, <1>9 DEF CInv

LEMMA CInit == Init => CInv
BY DEF Init, CInv, ChargedIsOpen, Known, Uncharged, Live, Idle

LEMMA CStep ==
    ASSUME ~Overlap, ~Faults
    PROVE  Together /\ [Next]_vars => CInv'
<1> SUFFICES ASSUME Together, [Next]_vars
             PROVE  CInv'
  OBVIOUS
<1>1. ASSUME NEW r \in Requests, Subscribe(r) \/ AskCancel(r) \/ GetMe(r) \/ Fail(r)
      PROVE  CInv'
  BY <1>1, CSubscribe, CAskCancel, COthers DEF Fail
<1>2. ASSUME NEW r \in Requests, LoadCoupon(r) \/ CountCoupon(r) \/ Provision(r)
      PROVE  CInv'
  BY <1>2, COthers, CProvision
<1>3. ASSUME NEW r \in Requests, Store(r) \/ Finish(r)
      PROVE  CInv'
  <2>1. r \in Subscribers
    BY <1>3 DEF Store, Finish, At, Together, BInv, Request, Subscribing
  <2>. QED  BY <1>3, <2>1, CStores
<1>4. ASSUME NEW r \in Requests, NEW s \in Subscribers,
             \/ Drop(r, s) \/ Retire(r, s) \/ Unbill(r, s)
             \/ Close(r, s) \/ List(r, s) \/ Mark(r, s)
      PROVE  CInv'
  BY <1>4, CDeletes, CStores, COthers
<1>5. CASE UNCHANGED vars
  BY <1>5, CQuiet DEF vars, local, remote
<1>6. ASSUME NEW e \in Events, NEW h \in Handlers,
             \/ Deliver(h, e) \/ Find(h, e) \/ Answer(h, e) \/ Raise(h, e) \/ Die(h, e)
      PROVE  CInv'
  BY <1>6, CQuiet DEF Deliver, Find, Answer, Raise, Die, local, remote
<1>7. ASSUME NEW e \in Events, NEW h \in Handlers, Provider(e) \/ Apply(h, e)
      PROVE  CInv'
  BY <1>7, CProvider, CApply
<1>8. ASSUME NEW e \in Events, Provider(e)
      PROVE  CInv'
  BY <1>8, CProvider
<1>. QED  BY <1>1, <1>2, <1>3, <1>4, <1>5, <1>6, <1>7, <1>8 DEF Next, Continue

(* While nothing overlaps and no await raises, what the provider charges   *)
(* the company sees as open: subscribe replaces, and cancel_subscription   *)
(* cancels, there first.                                                   *)
THEOREM OnlyOpenCharged ==
    ASSUME ~Overlap, ~Faults
    PROVE  Spec => []ChargedIsOpen
<1>1. CInv => ChargedIsOpen
  BY DEF CInv
<1>2. BInv /\ SInv /\ CInv /\ [Next]_vars => CInv'
  BY CStep DEF Together
<1>. QED  BY <1>1, <1>2, CInit, SInit, SStep, BillingInvariance, PTL DEF Spec

(* While nothing overlaps and no await raises, a company is charged for    *)
(* one subscription at most.                                               *)
THEOREM OneCharged ==
    ASSUME ~Overlap, ~Faults
    PROVE  Spec => []ChargedOnce
<1>1. SInv /\ CInv => ChargedOnce
  BY DEF SInv, OneOpen, CInv, ChargedIsOpen, ChargedOnce
<1>2. BInv /\ SInv /\ CInv /\ [Next]_vars => CInv'
  BY CStep DEF Together
<1>. QED  BY <1>1, <1>2, CInit, SInit, SStep, BillingInvariance, PTL DEF Spec

=============================================================================
