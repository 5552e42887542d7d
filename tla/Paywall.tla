------------------------------- MODULE Paywall --------------------------------
(***************************************************************************)
(* What the doors of the product ask: require_active_subscription          *)
(* (src/modules/billing/deps.py), which lets a company in that has a       *)
(* subscription in good standing or an exceptional grant                   *)
(* (src/modules/billing/service.py), with the grants and the settings that *)
(* administrators change.                                                  *)
(*                                                                         *)
(* What becomes of a subscription is modelled in Billing; here it is one   *)
(* of the statuses a company's open subscription can have, and moves.      *)
(* Days stand for the instants at which something expires.                 *)
(***************************************************************************)
EXTENDS Handlers, Doors

CONSTANTS
    Firms,         \* companies, each with its members
    GraceDays,     \* grace periods an administrator may set
    DefaultGrace,  \* what a new settings document has
    LastDay,       \* bound on the clock
    PaywallMoves   \* bound on the requests made

ASSUME PaywallAssumption ==
    /\ LastDay \in Nat /\ PaywallMoves \in Nat
    /\ GraceDays \subseteq Nat /\ DefaultGrace \in Nat

VARIABLES
    day,
    standing,  \* the open subscription of a company
    grants,    \* the access grants, in the order of their creation
    terms,     \* the billing settings, once there are any
    granted,   \* history: the grant that was answered last, of each company
    ended,     \* history: grants whose revocation was answered
    chosen,      \* history: what an administrator last set in the settings
    steady,    \* history: what has given a caller access since it came
    ever,      \* history: whether a caller had access since it came
    wreq,      \* where each request is
    wmoves     \* requests made so far

wvars == <<overlap, faults, day, standing, grants, terms, granted, ended, chosen,
           steady, ever, wreq, wmoves>>

Days     == 0 .. LastDay
NoTerms  == [made |-> FALSE]
Trials   == {"trial", "no trial"}
Settings == [made : {TRUE}, grace : GraceDays \cup {DefaultGrace}, trial : Trials]

DefaultTerms == [made |-> TRUE, grace |-> DefaultGrace, trial |-> "trial"]

Standings == [status : {"none", "pending", "trialing", "active"}]
             \cup [status : {"past_due"}, since : Days]

GrantDocs == [firm : Firms, until : 1 .. LastDay + 1, revoked : BOOLEAN]

(* What OpenSettings is asked for: the settings of a check, or of an       *)
(* update.                                                                 *)
SettingsPatches == [grace : GraceDays] \cup [trial : Trials]

PaywallRequests ==
    {Idle}
    \cup [at : {"find settings", "make settings"}, firm : Firms]
    \cup [at : {"find settings", "make settings", "patch settings"}, patch : SettingsPatches]
    \cup [at : {"read subscription"}, firm : Firms, seen : Settings]
    \cup [at : {"read grant"}, firm : Firms, good : BOOLEAN]
    \cup [at : {"let in", "refused"}, firm : Firms]
    \cup [at : {"revoke others", "insert grant"}, firm : Firms, until : 1 .. LastDay + 1]
    \cup [at : {"revoke"}, grant : 1 .. PaywallMoves]

TypeOKPaywall ==
    /\ day \in Days
    /\ standing \in [Firms -> Standings]
    /\ grants \in Seq(GrantDocs) /\ Len(grants) <= PaywallMoves
    /\ terms \in Settings \cup {NoTerms}
    /\ granted \in [Firms -> 0 .. PaywallMoves]
    /\ ended \subseteq 1 .. PaywallMoves
    /\ chosen \in {<<>>} \cup SettingsPatches \cup [grace : GraceDays, trial : Trials]
    /\ steady \in [Requests -> SUBSET (({"subscription"} \X Nat) \cup ({"grant"} \X Nat))]
    /\ ever \in [Requests -> BOOLEAN]
    /\ wreq \in [Requests -> PaywallRequests]
    /\ wmoves \in 0 .. PaywallMoves

PaywallInit ==
    /\ HandlersInit
    /\ day = 0
    /\ standing = [c \in Firms |-> [status |-> "none"]]
    /\ grants = <<>>
    /\ terms = NoTerms
    /\ granted = [c \in Firms |-> 0]
    /\ ended = {}
    /\ chosen = <<>>
    /\ steady = [r \in Requests |-> {}]
    /\ ever = [r \in Requests |-> FALSE]
    /\ wreq = [r \in Requests |-> Idle]
    /\ wmoves = 0

(***************************************************************************)
(* What gives access                                                       *)
(***************************************************************************)

(* _has_access, by the settings that were read.                            *)
InGoodStanding(s, seen, today) ==
    \/ s.status \in {"trialing", "active"}
    \/ s.status = "past_due" /\ today <= s.since + seen.grace

(* get_active_for_company.                                                 *)
OpenGrants(c) ==
    {i \in DOMAIN grants : /\ grants[i].firm = c
                           /\ ~grants[i].revoked /\ grants[i].until > day}

InForce == IF terms.made THEN terms ELSE DefaultTerms

Causes(c) ==
    {<<"grant", i>> : i \in OpenGrants(c)}
    \cup {x \in {<<"subscription", InForce.grace>>} :
            InGoodStanding(standing[c], InForce, day)}

AllCauses == [c \in Firms |-> Causes(c)]

(* The companies that the administrators' list of pending users leaves out *)
(* (company_ids_with_access, company_ids_with_active_grant).               *)
Subscribed == {c \in Firms : standing[c].status \in {"trialing", "active", "past_due"}}
Pending    == {c \in Firms : c \notin Subscribed /\ OpenGrants(c) = {}}


(***************************************************************************)
(* Requests                                                                *)
(***************************************************************************)

StartPaywall(r) ==
    /\ MayStart(wreq, r)
    /\ wmoves < PaywallMoves
    /\ wmoves' = wmoves + 1

wkept   == <<overlap, faults, wmoves, day, standing>>
records == <<granted, ended, chosen>>

(* assert_access for a member of a company who is no administrator.        *)
Enter(r, c) ==
    /\ StartPaywall(r)
    /\ Goes(wreq, r, [at |-> "find settings", firm |-> c])
    /\ UNCHANGED <<overlap, faults, day, standing, grants, terms, records>>

UpdateSettings(r) ==
    /\ StartPaywall(r)
    /\ \E p \in SettingsPatches : Goes(wreq, r, [at |-> "find settings", patch |-> p])
    /\ UNCHANGED <<overlap, faults, day, standing, grants, terms, records>>

(* Where a request goes with the settings it has got.                      *)
WithSettings(r, q, got) ==
    IF "firm" \in DOMAIN q
      THEN Goes(wreq, r, [at |-> "read subscription", firm |-> q.firm, seen |-> got])
      ELSE Goes(wreq, r, [q EXCEPT !.at = "patch settings"])

(* get_or_create.                                                          *)
FindSettings(r) ==
    LET q == wreq[r] IN
    /\ q.at = "find settings"
    /\ IF terms.made THEN WithSettings(r, q, terms)
                     ELSE Goes(wreq, r, [q EXCEPT !.at = "make settings"])
    /\ UNCHANGED <<wkept, grants, terms, records>>

MakeSettings_Replaces(r) ==
    LET q == wreq[r] IN
    /\ q.at = "make settings"
    /\ terms' = DefaultTerms
    /\ WithSettings(r, q, DefaultTerms)
    /\ UNCHANGED <<wkept, grants, records>>

(* The insertion is refused to all but one, who reads what is there.       *)
MakeSettings(r) ==
    LET q == wreq[r]
        got == IF terms.made THEN terms ELSE DefaultTerms IN
    /\ q.at = "make settings"
    /\ terms' = got
    /\ WithSettings(r, q, got)
    /\ UNCHANGED <<wkept, grants, records>>

(* A $set of the fields of f in g.                                         *)
SetIn(f, g) ==
    [field \in DOMAIN f \cup DOMAIN g |-> IF field \in DOMAIN f THEN f[field] ELSE g[field]]

PatchSettings(r) ==
    LET q == wreq[r] IN
    /\ q.at = "patch settings"
    /\ terms' = SetIn(q.patch, terms)
    /\ chosen' = SetIn(q.patch, chosen)
    /\ Ends(wreq, r)
    /\ UNCHANGED <<wkept, grants, granted, ended>>

(* get_me: whether the subscription is enough, and then whether there is a *)
(* grant.                                                                  *)
ReadSubscription(r) ==
    LET q == wreq[r] IN
    /\ q.at = "read subscription"
    /\ Goes(wreq, r, [at |-> "read grant", firm |-> q.firm,
                      good |-> InGoodStanding(standing[q.firm], q.seen, day)])
    /\ UNCHANGED <<wkept, grants, terms, records>>

ReadGrant(r) ==
    LET q == wreq[r] IN
    /\ q.at = "read grant"
    /\ Goes(wreq, r, [firm |-> q.firm,
                      at |-> IF q.good \/ OpenGrants(q.firm) # {}
                               THEN "let in" ELSE "refused"])
    /\ UNCHANGED <<wkept, grants, terms, records>>

(* The handler behind the door runs, or its caller is told to subscribe.     *)
Leave(r) ==
    /\ wreq[r].at \in {"let in", "refused"}
    /\ Ends(wreq, r)
    /\ UNCHANGED <<wkept, grants, terms, records>>

(* admin_create_access_grant: a date to come, and the other grants of the  *)
(* company are revoked before the new one is there.                        *)
CreateGrant(r, c) ==
    /\ StartPaywall(r)
    /\ \E until \in day + 1 .. LastDay + 1 :
         Goes(wreq, r, [at |-> "revoke others", firm |-> c, until |-> until])
    /\ UNCHANGED <<overlap, faults, day, standing, grants, terms, records>>

RevokeOthers(r) ==
    LET q == wreq[r] IN
    /\ q.at = "revoke others"
    /\ grants' = [i \in DOMAIN grants |->
                    IF i \in OpenGrants(q.firm) THEN [grants[i] EXCEPT !.revoked = TRUE]
                                                ELSE grants[i]]
    /\ Goes(wreq, r, [q EXCEPT !.at = "insert grant"])
    /\ UNCHANGED <<wkept, terms, records>>

InsertGrant(r) ==
    LET q == wreq[r] IN
    /\ q.at = "insert grant"
    /\ grants' = Append(grants, [firm |-> q.firm, until |-> q.until, revoked |-> FALSE])
    /\ granted' = [granted EXCEPT ![q.firm] = Len(grants) + 1]
    /\ Ends(wreq, r)
    /\ UNCHANGED <<wkept, terms, ended, chosen>>

(* admin_revoke_access_grant of one that the list shows; a grant that is   *)
(* revoked already is answered as such.                                    *)
AskRevocation(r, i) ==
    /\ StartPaywall(r)
    /\ IF grants[i].revoked
         THEN Ends(wreq, r) /\ ended' = ended \cup {i}
         ELSE Goes(wreq, r, [at |-> "revoke", grant |-> i]) /\ UNCHANGED ended
    /\ UNCHANGED <<overlap, faults, day, standing, grants, terms, granted, chosen>>

RevokeGrant(r) ==
    LET i == wreq[r].grant IN
    /\ wreq[r].at = "revoke"
    /\ grants' = [grants EXCEPT ![i].revoked = TRUE]
    /\ ended' = IF grants[i].revoked THEN ended ELSE ended \cup {i}
    /\ Ends(wreq, r)
    /\ UNCHANGED <<wkept, terms, granted, chosen>>

PaywallRaises(r) ==
    /\ Raises(wreq, r)
    /\ UNCHANGED <<wkept, grants, terms, records>>

(* What Billing does to the open subscription of a company.                *)
Move(c) ==
    /\ \E s \in Standings :
         /\ s # standing[c] /\ (s.status = "past_due" => s.since = day)
         /\ standing' = [standing EXCEPT ![c] = s]
    /\ UNCHANGED <<overlap, faults, wmoves, day, grants, terms, records, wreq>>

NextDay ==
    /\ day < LastDay
    /\ day' = day + 1
    /\ UNCHANGED <<overlap, faults, wmoves, standing, grants, terms, records, wreq>>

PaywallStep(r) ==
    \/ \E c \in Firms : Enter(r, c) \/ CreateGrant(r, c)
    \/ UpdateSettings(r)
    \/ \E i \in DOMAIN grants : AskRevocation(r, i)
    \/ FindSettings(r) \/ MakeSettings(r) \/ PatchSettings(r)
    \/ ReadSubscription(r) \/ ReadGrant(r) \/ Leave(r)
    \/ RevokeOthers(r) \/ InsertGrant(r) \/ RevokeGrant(r)
    \/ PaywallRaises(r)

(* The histories of callers: what gave access at every moment, and whether *)
(* anything did, or the terms changed, at some moment.                     *)
Checks(q) == "firm" \in DOMAIN q /\ "until" \notin DOMAIN q

Watch ==
    /\ steady' = [r \in Requests |->
                    IF ~Checks(wreq'[r]) THEN {}
                    ELSE IF wreq[r] = Idle THEN AllCauses'[wreq'[r].firm]
                    ELSE steady[r] \cap AllCauses'[wreq'[r].firm]]
    /\ ever' = [r \in Requests |->
                  /\ Checks(wreq'[r])
                  /\ \/ AllCauses'[wreq'[r].firm] # {}
                     \/ wreq[r] # Idle /\ (ever[r] \/ InForce' # InForce)]

PaywallNext ==
    /\ \/ \E r \in Requests : PaywallStep(r)
       \/ \E c \in Firms : Move(c)
       \/ NextDay
    /\ Watch

PaywallSpec == PaywallInit /\ [][PaywallNext]_wvars

(***************************************************************************)
(* Properties                                                              *)
(***************************************************************************)

(* The check reads the settings, the subscription and the grants one after *)
(* the other.  Still nobody is refused who had access by the same grant,   *)
(* or by a subscription on the same terms, all the while, and nobody is    *)
(* let in who had none at any moment, unless the terms changed meanwhile.  *)
CheckedFairly ==
    \A r \in Requests : /\ wreq[r].at = "refused" => steady[r] = {}
                        /\ wreq[r].at = "let in" => ever[r]

(* A revocation that was answered is final.  One request at a time, a      *)
(* company never has two grants in force, and if none raises, the last     *)
(* that was answered is in force until it expires or is revoked.           *)
GrantsInForce ==
    /\ \A i \in ended : grants[i].revoked
    /\ ~overlap => \A c \in Firms : \A i, j \in OpenGrants(c) : i = j
    /\ ~overlap /\ ~faults /\ AllIdle(wreq) =>
         \A c \in Firms :
            LET i == granted[c] IN
            i # 0 /\ i \notin ended /\ grants[i].until > day => i \in OpenGrants(c)

(* What an administrator set stays set: two first readers that find no     *)
(* settings do not write the defaults over them.                           *)
SettingsKept ==
    \A field \in DOMAIN chosen : terms.made /\ terms[field] = chosen[field]

(* Nobody is listed as pending who has access.                             *)
PendingHaveNone == \A c \in Pending : Causes(c) = {}

GatesTo(doors) == {GateOf(Verb(d.method), PathTo(d)) : d \in ToSet(doors)}

ToPay      == GatesTo(BillingDoors \o TicketDoors \o CompanyDoors)
ToContract == GatesTo(AgreementDoors \o ProposalDoors \o ConversationDoors)

(* Who has lost access, and is no administrator, still gets through every  *)
(* door behind which it is bought, and through none of the contracts.      *)
LockedOutCanPay ==
    \A c \in Firms :
        LET In(gate) == LetIn(gate, TRUE, FALSE, Causes(c) # {}) IN
        /\ \A gate \in ToPay : In(gate)
        /\ \A gate \in ToContract : In(gate) <=> Causes(c) # {}

(* Who had access is let in and who had not is not, though what gives it   *)
(* changes while it is checked, and who had not can still buy it.          *)
PaywallFair ==
    /\ CheckedFairly /\ GrantsInForce /\ SettingsKept
    /\ PendingHaveNone /\ LockedOutCanPay

=============================================================================
