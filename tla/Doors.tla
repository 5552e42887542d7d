-------------------------------- MODULE Doors ---------------------------------
(***************************************************************************)
(* The doors of the API: the routes that src/main.py mounts, in the order  *)
(* in which they are tried, with what each of them asks of a caller before *)
(* its handler runs.  A call goes to the first door that its method and    *)
(* path fit, whatever a later one would ask.                               *)
(*                                                                         *)
(* A gate is the strongest of the dependencies of the router and of the    *)
(* route: get_current_user (token), require_role(Role.ADMIN) (admin),      *)
(* require_active_subscription (paid); open has none of them.  The prefix  *)
(* /api/v1 that all share is left out, "*" is a parameter of a path.       *)
(***************************************************************************)
EXTENDS Naturals, SequencesExt

Door(method, path, gate) == [method |-> method, path |-> path, gate |-> gate]

(* What a router adds to its routes.  A gate of a route's own stays.       *)
Router(prefix, gate, doors) ==
    [i \in DOMAIN doors |->
       [doors[i] EXCEPT !.path = prefix \o @,
                        !.gate = IF @ = "router" THEN gate ELSE @]]

Get(path)    == Door("GET", path, "router")
Post(path)   == Door("POST", path, "router")
Put(path)    == Door("PUT", path, "router")
Patch(path)  == Door("PATCH", path, "router")
Delete(path) == Door("DELETE", path, "router")

(* A door whose answer is a stream of events, which goes on until the      *)
(* caller leaves.                                                          *)
Stream(path) == Door("STREAM", path, "router")

WithGate(gate, door) == [door EXCEPT !.gate = gate]

(***************************************************************************)
(* The routers                                                             *)
(***************************************************************************)

AuthDoors == Router(<<"auth">>, "open",
    << Post(<<"register">>),
       WithGate("admin", Post(<<"admin", "users">>)),
       Post(<<"verify">>), Post(<<"resend-verification">>),
       Post(<<"forgot-password">>), Post(<<"verify-password-reset">>),
       Post(<<"confirm-password-reset">>),
       Post(<<"login">>), Post(<<"admin", "login">>),
       WithGate("token", Get(<<"me">>)),
       WithGate("token", Post(<<"logout">>)),
       WithGate("token", Post(<<"revoke-all">>)) >>)

AdminUserDoors ==
    << Get(<<"users">>), Get(<<"users", "*">>), Get(<<"users", "*", "profile">>),
       Post(<<"users">>), Patch(<<"users", "*">>), Delete(<<"users", "*">>) >>

AdminCompanyDoors ==
    << Get(<<"companies">>), Get(<<"companies", "*">>), Post(<<"companies">>),
       Patch(<<"companies", "*">>), Delete(<<"companies", "*">>),
       Post(<<"companies", "*", "documents", "*", "upload">>),
       Post(<<"companies", "*", "documents", "*", "approve">>),
       Post(<<"companies", "*", "documents", "*", "reject">>) >>

AdminOpportunityDoors ==
    << Get(<<"opportunities">>), Get(<<"opportunities", "*">>),
       Patch(<<"opportunities", "*">>), Delete(<<"opportunities", "*">>) >>

AdminAgreementDoors ==
    << Get(<<"agreements">>), Get(<<"agreements", "*">>),
       Get(<<"agreements", "*", "timeline">>),
       Get(<<"agreements", "*", "progress">>),
       Get(<<"agreements", "*", "download", "*">>) >>

AdminGroupDoors ==
    << Get(<<"notification-groups">>), Post(<<"notification-groups">>),
       Get(<<"notification-groups", "*">>), Patch(<<"notification-groups", "*">>),
       Delete(<<"notification-groups", "*">>) >>

AdminSectionDoors ==
    << Get(<<"contract-sections">>), Get(<<"contract-sections", "structure">>),
       Get(<<"contract-sections", "preview">>),
       Put(<<"contract-sections", "reorder">>), Post(<<"contract-sections">>),
       Get(<<"contract-sections", "*">>), Patch(<<"contract-sections", "*">>),
       Delete(<<"contract-sections", "*">>) >>

AdminProposalDoors ==
    << Get(<<"contract-proposals">>), Get(<<"contract-proposals", "*">>) >>

AdminCampaignDoors ==
    << Get(<<"notifications">>), Post(<<"notifications">>),
       Get(<<"notifications", "*">>), Post(<<"notifications", "*", "cancel">>),
       Post(<<"notifications", "*", "send-now">>) >>

AdminBlogDoors ==
    << Get(<<"blog", "posts">>), Post(<<"blog", "posts", "images", "upload">>),
       Get(<<"blog", "posts", "*">>), Post(<<"blog", "posts">>),
       Patch(<<"blog", "posts", "*">>), Delete(<<"blog", "posts", "*">>),
       Post(<<"blog", "posts", "*", "publish">>),
       Post(<<"blog", "posts", "*", "disable">>) >>

AdminTicketDoors ==
    << Get(<<"support", "tickets">>), Get(<<"support", "tickets", "*">>),
       Get(<<"support", "tickets", "*", "messages">>),
       Post(<<"support", "tickets", "*", "messages">>),
       Post(<<"support", "tickets", "*", "notes">>),
       Patch(<<"support", "tickets", "*", "assign">>),
       Patch(<<"support", "tickets", "*", "close">>),
       Patch(<<"support", "tickets", "*", "reopen">>),
       Post(<<"support", "tickets", "*", "messages", "read">>) >>

AdminTicketStreams ==
    << Stream(<<"support", "tickets", "*", "stream">>),
       Stream(<<"support", "stream">>) >>

AdminConversationDoors ==
    << Get(<<"conversations">>), Stream(<<"conversations", "stream">>),
       Get(<<"conversations", "*">>), Get(<<"conversations", "*", "messages">>),
       Post(<<"conversations", "*", "notes">>),
       Stream(<<"conversations", "*", "stream">>) >>

AdminDoors ==
    Router(<<"admin">>, "admin",
           AdminUserDoors \o AdminCompanyDoors \o AdminOpportunityDoors
           \o AdminAgreementDoors \o AdminGroupDoors \o AdminSectionDoors
           \o AdminProposalDoors \o AdminCampaignDoors \o AdminBlogDoors
           \o AdminTicketDoors \o AdminTicketStreams \o AdminConversationDoors)

DashboardDoors == Router(<<>>, "token",
    << WithGate("admin", Get(<<"admin", "dashboard">>)), Get(<<"dashboard">>) >>)

BlogDoors == Router(<<"blog">>, "open",
    << Get(<<"posts", "exists">>), Get(<<"posts">>), Get(<<"posts", "*">>) >>)

ComingSoonDoors == Router(<<"coming-soon">>, "open", << Post(<<"subscribe">>) >>)

UserDoors == Router(<<"users">>, "token",
    << Get(<<"me", "profile">>), Patch(<<"me", "profile">>),
       Post(<<"avatar", "presign">>), Post(<<"avatar", "upload">>) >>)

SignatureDoors == Router(<<"users", "me", "visual-signatures">>, "token",
    << Get(<<>>), Get(<<"fonts">>), Get(<<"initials-options">>),
       Post(<<"preview">>), Post(<<"automatic">>), Post(<<"manual">>),
       Get(<<"*", "image">>) >>)

AdminSignatureDoors == Router(<<"admin", "users">>, "admin",
    << Get(<<"*", "visual-signatures">>),
       Get(<<"*", "visual-signatures", "*", "image">>) >>)

CompanyDoors == Router(<<"companies">>, "token",
    << Get(<<>>), Post(<<>>), Post(<<"logo", "presign">>),
       Post(<<"logo", "upload">>), Post(<<"*", "documents", "*", "upload">>),
       Get(<<"*">>), Patch(<<"*">>), Delete(<<"*">>) >>)

OpportunityDoors == Router(<<"opportunities">>, "paid",
    << WithGate("token", Get(<<>>)), Post(<<>>), Post(<<"images", "presign">>),
       Post(<<"images", "upload">>), Get(<<"*">>), Patch(<<"*">>),
       Delete(<<"*">>) >>)

AgreementDraftDoors ==
    << Get(<<>>), Post(<<>>), Get(<<"companies", "search">>),
       Get(<<"eligibility">>), Get(<<"*">>), Patch(<<"*">>), Delete(<<"*">>),
       Post(<<"*", "upload">>), Put(<<"*", "participants">>) >>

AgreementSigningDoors ==
    << Put(<<"*", "fields">>), Post(<<"*", "send">>), Post(<<"*", "view">>),
       Post(<<"*", "sign">>), Post(<<"*", "reject">>), Get(<<"*", "timeline">>),
       Get(<<"*", "progress">>), Get(<<"*", "download", "*">>),
       Get(<<"*", "file", "*">>) >>

AgreementDoors ==
    Router(<<"agreements">>, "paid", AgreementDraftDoors \o AgreementSigningDoors)

NotificationDoors == Router(<<"notifications">>, "token",
    << Get(<<>>), Get(<<"unread-count">>), Patch(<<"read-all">>),
       Stream(<<"stream">>), Patch(<<"*", "read">>) >>)

ThreadDoors ==
    << Post(<<>>), Get(<<>>), Stream(<<"stream">>), Get(<<"*">>),
       Get(<<"*", "messages">>), Post(<<"*", "messages">>),
       Post(<<"*", "messages", "read">>) >>

ThreadMoveDoors ==
    << Post(<<"*", "close">>), Post(<<"*", "reopen">>),
       Post(<<"*", "request-reopen">>), Post(<<"*", "respond-reopen">>),
       Post(<<"*", "request-new-contact">>), Post(<<"*", "respond-new-contact">>) >>

ConversationDoors ==
    Router(<<"conversations">>, "paid",
           ThreadDoors \o ThreadMoveDoors \o << Stream(<<"*", "stream">>) >>)

SectionDoors == Router(<<"contract-section-templates">>, "token", << Get(<<>>) >>)

ProposalDoors == Router(<<"contract-proposals">>, "paid",
    << Post(<<>>), Get(<<>>), Get(<<"*">>), Patch(<<"*">>),
       Post(<<"*", "generate-pdf">>), Post(<<"*", "approve">>),
       Post(<<"*", "request-changes">>), Post(<<"*", "reject">>) >>)

MemberTicketDoors ==
    << Post(<<"tickets">>), Get(<<"tickets">>), Get(<<"tickets", "*">>),
       Get(<<"tickets", "*", "messages">>), Post(<<"tickets", "*", "messages">>) >>

PresenceDoors ==
    << Post(<<"presence", "heartbeat">>), Post(<<"presence", "offline">>) >>

TicketDoors ==
    Router(<<"support">>, "token",
           MemberTicketDoors \o PresenceDoors
           \o << Post(<<"tickets", "*", "messages", "read">>), Stream(<<"stream">>),
                 Stream(<<"tickets", "*", "stream">>) >>)

VisitorDoors == Router(<<"public", "support">>, "open",
    << Post(<<"contact">>), Post(<<"contact-request">>) >>)

BillingDoors == Router(<<"billing">>, "token",
    << Get(<<"me">>), Get(<<"plans">>), Post(<<"coupons", "validate">>),
       Post(<<"subscribe">>), Get(<<"subscription">>),
       Post(<<"subscription", "cancel">>), Get(<<"invoices">>) >>)

AdminBillingDoors == Router(<<"admin", "billing">>, "admin",
    << Get(<<"plans">>), Post(<<"plans">>), Get(<<"plans", "*">>),
       Patch(<<"plans", "*">>), Get(<<"settings">>), Patch(<<"settings">>),
       Get(<<"coupons">>), Post(<<"coupons">>), Get(<<"coupons", "*">>),
       Patch(<<"coupons", "*">>), Get(<<"subscriptions">>),
       Get(<<"subscriptions", "pending-users">>), Get(<<"subscriptions", "*">>),
       Get(<<"subscriptions", "*", "invoices">>), Get(<<"access-grant-targets">>),
       Get(<<"access-grants">>), Post(<<"access-grants">>),
       Post(<<"access-grants", "*", "revoke">>) >>)

(* What Asaas calls: its own token is tested by the handler (Billing).     *)
WebhookDoors == Router(<<"billing", "webhooks">>, "open", << Post(<<"asaas">>) >>)

SettingsDoors == Router(<<"platform">>, "token", << Get(<<"settings">>) >>)

AdminSettingsDoors == Router(<<"admin", "platform">>, "admin",
    << Get(<<"settings">>), Patch(<<"settings">>) >>)

FlowDoors   == Router(<<"circularity">>, "token", << Get(<<"companies", "*", "flows">>) >>)
FileDoors   == Router(<<"files">>, "token", << Get(<<>>) >>)
AnchorDoors == Router(<<"blockchain">>, "token", << Get(<<"anchors">>) >>)

(* _register_routers.                                                      *)
Doors ==
    AuthDoors \o AdminDoors \o DashboardDoors \o BlogDoors \o ComingSoonDoors
    \o UserDoors \o SignatureDoors \o AdminSignatureDoors \o CompanyDoors
    \o OpportunityDoors \o AgreementDoors \o NotificationDoors
    \o ConversationDoors \o SectionDoors \o ProposalDoors \o TicketDoors
    \o VisitorDoors \o BillingDoors \o AdminBillingDoors \o WebhookDoors
    \o SettingsDoors \o AdminSettingsDoors \o FlowDoors \o FileDoors \o AnchorDoors

(***************************************************************************)
(* Calls                                                                   *)
(***************************************************************************)

Verb(method) == IF method = "STREAM" THEN "GET" ELSE method

Fits(door, method, path) ==
    /\ Verb(door.method) = method
    /\ Len(door.path) = Len(path)
    /\ \A i \in DOMAIN path : door.path[i] \in {"*", path[i]}

Reached_Last(method, path) ==
    SelectLastInSeq(Doors, LAMBDA d : Fits(d, method, path))

(* Where a call arrives: 0 is no door at all.                              *)
Reached(method, path) == SelectInSeq(Doors, LAMBDA d : Fits(d, method, path))

GateOf(method, path) ==
    LET i == Reached(method, path) IN IF i = 0 THEN "none" ELSE Doors[i].gate

(* A caller with a good token or without, by whose claims it administers,  *)
(* and whose company has access.                                           *)
LetIn(gate, token, administers, access) ==
    \/ gate = "open"
    \/ token /\ gate = "token"
    \/ token /\ gate = "admin" /\ administers
    \/ token /\ gate = "paid" /\ (administers \/ access)

(* TimeoutMiddleware does not cut short what it takes for a stream.        *)
Untimed(path) ==
    \/ Last(path) = "stream"
    \/ "stream" \in ToSet(path) /\ "support" \in ToSet(path)

(* A path that a caller of the door uses: a parameter of its own.          *)
PathTo(door) == [i \in DOMAIN door.path |->
                   IF door.path[i] = "*" THEN "an id" ELSE door.path[i]]

=============================================================================
