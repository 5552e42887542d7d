------------------------------ MODULE Accounts ------------------------------
(***************************************************************************)
(* Accounts: their registration and confirmation (src/modules/auth/        *)
(* service.py), the companies their owners add or give up (src/modules/    *)
(* companies/service.py), and what administrators do to both               *)
(* (src/modules/admin/service.py).                                         *)
(*                                                                         *)
(* Registering creates an identity at Firebase, then a user, a company and *)
(* the profile that links them, and takes them back in reverse order when  *)
(* a step raises.  Cancelling the request (src/shared/middleware/timeout.py*)
(* does, after a while) or killing the process takes nothing back, since   *)
(* "except Exception" sees neither.  A login may meet a registration half- *)
(* way and stores a user of its own.  Deleting a company only clears       *)
(* is_active.  Firebase is modelled by the calls made to it.               *)
(***************************************************************************)
EXTENDS Handlers, Naturals

CONSTANTS
    Uids,          \* the ids Firebase may give
    Emails,        \* the addresses people register with
    AccountMoves   \* bound on the requests made

ASSUME AccountMovesAssumption == AccountMoves \in Nat

VARIABLES
    identity,  \* Firebase's users
    user,      \* the users collection
    company,   \* the companies collection, by owner, for one tax id
    linked,    \* user profiles whose company_id is set
    token,     \* what confirmation tokens a user has
    done,      \* history: registrations answered with success
    early,     \* history: users that a login inserted
    areq,      \* where each request is
    amoves     \* requests made so far

avars == <<overlap, faults, identity, user, company, linked, token, done, early,
           areq, amoves>>

stores == <<identity, user, company, linked, token>>
kept   == <<overlap, faults, done, early, amoves>>

NoEntry == [there |-> FALSE]
Entries  == {NoEntry} \cup [there : {TRUE}, email : Emails, verified : BOOLEAN]

RegisterSteps == {"check tax", "identity", "user", "company", "link", "token",
                  "undo company", "undo user", "undo identity"}

(* How an active company was made.                                         *)
Origins == {"registered", "founded"}
Companies == Origins \cup {"none", "deleted"}

RegisterWork == [at : RegisterSteps, email : Emails, firm : BOOLEAN,
                 confirmed : BOOLEAN, uid : Uids \cup {"none yet"}]
UserWork     == [at : {"consume", "verify", "tell Firebase", "drop tokens",
                       "send token", "found", "delete profile", "delete tokens",
                       "delete user"}, uid : Uids]
LoginWork    == [at : {"upsert"}, uid : Uids, claims : Entries]
CompanyWork  == [at : {"deactivate"}, uid : Uids, made : Origins]

AccountRequests ==
    {Idle} \cup RegisterWork \cup UserWork \cup LoginWork \cup CompanyWork

TypeOKAccounts ==
    /\ identity \in [Uids -> Entries]
    /\ user \in [Uids -> Entries]
    /\ company \in [Uids -> Companies]
    /\ linked \subseteq Uids
    /\ token \in [Uids -> SUBSET {"sent", "consumed"}]
    /\ done \in [Uids -> {"no", "bare", "firm", "deleted"}]
    /\ early \subseteq Uids
    /\ areq \in [Requests -> AccountRequests]
    /\ amoves \in 0 .. AccountMoves

AccountsInit ==
    /\ HandlersInit
    /\ identity = [u \in Uids |-> NoEntry]
    /\ user = [u \in Uids |-> NoEntry]
    /\ company = [u \in Uids |-> "none"]
    /\ linked = {}
    /\ token = [u \in Uids |-> {}]
    /\ done = [u \in Uids |-> "no"]
    /\ early = {}
    /\ areq = [r \in Requests |-> Idle]
    /\ amoves = 0

StartAccount(r) ==
    /\ MayStart(areq, r)
    /\ amoves < AccountMoves
    /\ amoves' = amoves + 1

(* Who has the address, at Firebase or among the users: unique in both.    *)
Holders(entries, e) == {u \in Uids : entries[u].there /\ entries[u].email = e}

Entry(q) == [there |-> TRUE, email |-> q.email, verified |-> q.confirmed]

(* get_by_tax_id finds no active company, and the unique index none at all.*)
TaxFree == \A u \in Uids : company[u] \notin Origins
TaxNew  == \A u \in Uids : company[u] = "none"

AccountGoes(r, q, at) == Goes(areq, r, [q EXCEPT !.at = at])

(***************************************************************************)
(* _create_account                                                         *)
(***************************************************************************)

CheckEmail(r, e, firm, confirmed) ==
    /\ StartAccount(r)
    /\ Holders(user, e) = {}
    /\ Goes(areq, r, [at |-> IF firm THEN "check tax" ELSE "identity",
                      email |-> e, firm |-> firm, confirmed |-> confirmed,
                      uid |-> "none yet"])
    /\ UNCHANGED <<overlap, faults, stores, done, early>>

(* Users register with their company.                                      *)
Register(r, e) == CheckEmail(r, e, TRUE, FALSE)

(* Administrators may leave it out, and may confirm the account at once.   *)
RegisterByAdmin(r, e) ==
    \E firm, confirmed \in BOOLEAN : CheckEmail(r, e, firm, confirmed)

CheckTax(r) ==
    LET q == areq[r] IN
    /\ q.at = "check tax"
    /\ IF TaxFree THEN AccountGoes(r, q, "identity") ELSE Ends(areq, r)
    /\ UNCHANGED <<kept, stores>>

(* An id that Firebase may give: it has left no trace anywhere.            *)
NewUid(u) ==
    /\ ~identity[u].there /\ ~user[u].there /\ done[u] = "no" /\ u \notin early
    /\ company[u] = "none" /\ u \notin linked /\ token[u] = {}
    /\ \A s \in Requests : areq[s] # Idle => areq[s].uid # u

(* Firebase refuses an address it knows; nothing is to be undone then.     *)
CreateIdentity(r) ==
    LET q == areq[r] IN
    /\ q.at = "identity"
    /\ \/ /\ Holders(identity, q.email) # {}
          /\ Ends(areq, r)
          /\ UNCHANGED identity
       \/ \E u \in Uids :
            /\ Holders(identity, q.email) = {} /\ NewUid(u)
            /\ identity' = [identity EXCEPT ![u] = Entry(q)]
            /\ Goes(areq, r, [q EXCEPT !.at = "user", !.uid = u])
    /\ UNCHANGED <<kept, user, company, linked, token>>

InsertUser_NoRollback(r) ==
    LET q == areq[r] IN
    /\ q.at = "user"
    /\ IF user[q.uid].there \/ Holders(user, q.email) # {}
         THEN Ends(areq, r) /\ UNCHANGED user
         ELSE /\ user' = [user EXCEPT ![q.uid] = Entry(q)]
              /\ AccountGoes(r, q, IF q.firm THEN "company" ELSE "token")
    /\ UNCHANGED <<kept, identity, company, linked, token>>

(* create_user, with the unique indexes on firebase_uid and email.         *)
InsertUser(r) ==
    LET q == areq[r] IN
    /\ q.at = "user"
    /\ IF user[q.uid].there \/ Holders(user, q.email) # {}
         THEN AccountGoes(r, q, "undo identity") /\ UNCHANGED user
         ELSE /\ user' = [user EXCEPT ![q.uid] = Entry(q)]
              /\ AccountGoes(r, q, IF q.firm THEN "company" ELSE "token")
    /\ UNCHANGED <<kept, identity, company, linked, token>>

(* _attach_company: the company, under the unique tax id, and the link.    *)
InsertCompany(r) ==
    LET q == areq[r] IN
    /\ q.at = "company"
    /\ IF TaxNew
         THEN /\ company' = [company EXCEPT ![q.uid] = "registered"]
              /\ AccountGoes(r, q, "link")
         ELSE AccountGoes(r, q, "undo user") /\ UNCHANGED company
    /\ UNCHANGED <<kept, identity, user, linked, token>>

LinkCompany(r) ==
    LET q == areq[r] IN
    /\ q.at = "link"
    /\ linked' = linked \cup {q.uid}
    /\ AccountGoes(r, q, "token")
    /\ UNCHANGED <<kept, identity, user, company, token>>

(* _issue_verification_token, unless confirmed; the e-mail may fail.       *)
IssueToken(r) ==
    LET q == areq[r] IN
    /\ q.at = "token"
    /\ token' = IF q.confirmed THEN token
                ELSE [token EXCEPT ![q.uid] = @ \cup {"sent"}]
    /\ done' = [done EXCEPT ![q.uid] = IF @ = "deleted" THEN @
                                       ELSE IF q.firm THEN "firm" ELSE "bare"]
    /\ Ends(areq, r)
    /\ UNCHANGED <<overlap, faults, identity, user, company, linked, early, amoves>>

UndoCompany(r) ==
    LET q == areq[r] IN
    /\ q.at = "undo company"
    /\ company' = [company EXCEPT ![q.uid] = "none"]
    /\ AccountGoes(r, q, "undo user")
    /\ UNCHANGED <<kept, identity, user, linked, token>>

UndoUser(r) ==
    LET q == areq[r] IN
    /\ q.at = "undo user"
    /\ user' = [user EXCEPT ![q.uid] = NoEntry]
    /\ AccountGoes(r, q, "undo identity")
    /\ UNCHANGED <<kept, identity, company, linked, token>>

UndoIdentity(r) ==
    LET q == areq[r] IN
    /\ q.at = "undo identity"
    /\ identity' = [identity EXCEPT ![q.uid] = NoEntry]
    /\ Ends(areq, r)
    /\ UNCHANGED <<kept, user, company, linked, token>>

(* An await raises an exception that the handlers catch: from "user" on    *)
(* the rollback starts, and one that raises in the rollback ends it        *)
(* (except after hard_delete, where _create_account's own goes on).        *)
Recovery == [user |-> "undo identity", company |-> "undo user",
             link |-> "undo company"]

Fails(r) ==
    LET q == areq[r] IN
    /\ faults
    /\ \/ q.at \in DOMAIN Recovery /\ AccountGoes(r, q, Recovery[q.at])
       \/ q.at = "undo company" /\ AccountGoes(r, q, "undo user")
    /\ UNCHANGED <<kept, stores>>

(* It ends the request: no handler is left, or it is cancelled or killed.  *)
Dies(r) == Raises(areq, r) /\ UNCHANGED <<kept, stores>>

(***************************************************************************)
(* Login and confirmation                                                  *)
(***************************************************************************)

(* login_with_id_token: Firebase vouches for the token, and then           *)
(* upsert_from_firebase inserts a user that is not there, and leaves one   *)
(* that is; another user's address makes it raise.                         *)
Login(r, u) ==
    /\ StartAccount(r)
    /\ identity[u].there
    /\ Goes(areq, r, [at |-> "upsert", uid |-> u, claims |-> identity[u]])
    /\ UNCHANGED <<overlap, faults, stores, done, early>>

UpsertUser(r) ==
    LET q == areq[r] IN
    /\ q.at = "upsert"
    /\ IF user[q.uid].there \/ Holders(user, q.claims.email) # {}
         THEN UNCHANGED <<user, early>>
         ELSE /\ user' = [user EXCEPT ![q.uid] = q.claims]
              /\ early' = early \cup {q.uid}
    /\ Ends(areq, r)
    /\ UNCHANGED <<overlap, faults, identity, company, linked, token, done, amoves>>

(* verify_account, for a token that is there and not consumed.             *)
FindToken(r, u) ==
    /\ StartAccount(r)
    /\ "sent" \in token[u]
    /\ Goes(areq, r, [at |-> "consume", uid |-> u])
    /\ UNCHANGED <<overlap, faults, stores, done, early>>

(* consume is atomic: the token may be gone or consumed by now.  Another   *)
(* token may have been sent meanwhile, and stays.                          *)
Consume(r) ==
    LET q == areq[r] IN
    /\ q.at = "consume"
    /\ \/ Ends(areq, r) /\ UNCHANGED token
       \/ /\ "sent" \in token[q.uid]
          /\ \E rest \in {{}, {"sent"}} :
               token' = [token EXCEPT ![q.uid] = rest \cup {"consumed"}]
          /\ AccountGoes(r, q, "verify")
    /\ UNCHANGED <<kept, identity, user, company, linked>>

MarkVerified(r) ==
    LET q == areq[r] IN
    /\ q.at = "verify"
    /\ user' = IF user[q.uid].there
                 THEN [user EXCEPT ![q.uid].verified = TRUE] ELSE user
    /\ AccountGoes(r, q, "tell Firebase")
    /\ UNCHANGED <<kept, identity, company, linked, token>>

TellFirebase(r) ==
    LET q == areq[r] IN
    /\ q.at = "tell Firebase"
    /\ identity' = IF identity[q.uid].there
                     THEN [identity EXCEPT ![q.uid].verified = TRUE]
                     ELSE identity
    /\ Ends(areq, r)
    /\ UNCHANGED <<kept, user, company, linked, token>>

(* resend_verification, when the cooldown lets it through.                 *)
Resend(r, u) ==
    /\ StartAccount(r)
    /\ user[u].there /\ ~user[u].verified
    /\ Goes(areq, r, [at |-> "drop tokens", uid |-> u])
    /\ UNCHANGED <<overlap, faults, stores, done, early>>

DropTokens(r) ==
    LET q == areq[r] IN
    /\ q.at = "drop tokens"
    /\ token' = [token EXCEPT ![q.uid] = {}]
    /\ AccountGoes(r, q, "send token")
    /\ UNCHANGED <<kept, identity, user, company, linked>>

SendToken(r) ==
    LET q == areq[r] IN
    /\ q.at = "send token"
    /\ token' = [token EXCEPT ![q.uid] = @ \cup {"sent"}]
    /\ Ends(areq, r)
    /\ UNCHANGED <<kept, identity, user, company, linked>>

(***************************************************************************)
(* Companies and users afterwards                                          *)
(***************************************************************************)

(* create and create_company: the tests for one company per owner and per  *)
(* tax id, which the unique indexes make again.                            *)
AskCompany(r, u) ==
    /\ StartAccount(r)
    /\ user[u].there
    /\ TaxFree
    /\ Goes(areq, r, [at |-> "found", uid |-> u])
    /\ UNCHANGED <<overlap, faults, stores, done, early>>

FoundCompany(r) ==
    LET q == areq[r] IN
    /\ q.at = "found"
    /\ company' = IF TaxNew THEN [company EXCEPT ![q.uid] = "founded"] ELSE company
    /\ Ends(areq, r)
    /\ UNCHANGED <<kept, identity, user, linked, token>>

(* delete and delete_company: by the id of a company found active.         *)
DropCompany(r, u) ==
    /\ StartAccount(r)
    /\ company[u] \in Origins
    /\ Goes(areq, r, [at |-> "deactivate", uid |-> u, made |-> company[u]])
    /\ UNCHANGED <<overlap, faults, stores, done, early>>

Deactivate(r) ==
    LET q == areq[r] IN
    /\ q.at = "deactivate"
    /\ company' = IF company[q.uid] = q.made
                    THEN [company EXCEPT ![q.uid] = "deleted"] ELSE company
    /\ Ends(areq, r)
    /\ UNCHANGED <<kept, identity, user, linked, token>>

(* delete_user: the identity first (one that is gone is no error), then    *)
(* the profile, the tokens and the user; a company stays.  Whose account   *)
(* it is, and how many administrators are left, is not told apart here.    *)
DeleteUser(r, u) ==
    /\ StartAccount(r)
    /\ user[u].there
    /\ identity' = [identity EXCEPT ![u] = NoEntry]
    /\ done' = [done EXCEPT ![u] = "deleted"]
    /\ Goes(areq, r, [at |-> "delete profile", uid |-> u])
    /\ UNCHANGED <<overlap, faults, user, company, linked, token, early>>

DeleteProfile(r) ==
    LET q == areq[r] IN
    /\ q.at = "delete profile"
    /\ linked' = linked \ {q.uid}
    /\ AccountGoes(r, q, "delete tokens")
    /\ UNCHANGED <<kept, identity, user, company, token>>

DeleteTokens(r) ==
    LET q == areq[r] IN
    /\ q.at = "delete tokens"
    /\ token' = [token EXCEPT ![q.uid] = {}]
    /\ AccountGoes(r, q, "delete user")
    /\ UNCHANGED <<kept, identity, user, company, linked>>

RemoveUser(r) ==
    LET q == areq[r] IN
    /\ q.at = "delete user"
    /\ user' = [user EXCEPT ![q.uid] = NoEntry]
    /\ Ends(areq, r)
    /\ UNCHANGED <<kept, identity, company, linked, token>>

AccountStep(r) ==
    \/ \E e \in Emails : Register(r, e) \/ RegisterByAdmin(r, e)
    \/ CheckTax(r) \/ CreateIdentity(r) \/ InsertUser(r)
    \/ InsertCompany(r) \/ LinkCompany(r) \/ IssueToken(r)
    \/ UndoCompany(r) \/ UndoUser(r) \/ UndoIdentity(r)
    \/ \E u \in Uids : \/ Login(r, u) \/ FindToken(r, u) \/ Resend(r, u)
                       \/ AskCompany(r, u) \/ DropCompany(r, u)
                       \/ DeleteUser(r, u)
    \/ UpsertUser(r) \/ FoundCompany(r) \/ Deactivate(r)
    \/ DeleteProfile(r) \/ DeleteTokens(r) \/ RemoveUser(r)
    \/ Consume(r) \/ MarkVerified(r) \/ TellFirebase(r)
    \/ DropTokens(r) \/ SendToken(r)
    \/ Fails(r) \/ Dies(r)

AccountsNext == \E r \in Requests : AccountStep(r)

AccountsSpec == AccountsInit /\ [][AccountsNext]_avars

(***************************************************************************)
(* Properties                                                              *)
(***************************************************************************)

(* A registration that was answered with success has its identity, its     *)
(* user, and the company it brought with the link to it, until an          *)
(* administrator deletes the user, whatever other registrations roll back  *)
(* and whatever logins store.  If nothing raises, a consumed token means a *)
(* confirmed account on both sides.                                        *)
DoneIsWhole ==
    \A u \in Uids :
        done[u] \in {"bare", "firm"} =>
            /\ identity[u].there /\ user[u].there
            /\ identity[u].email = user[u].email
            /\ done[u] = "firm" => u \in linked
                                   /\ company[u] \in {"registered", "deleted"}
            /\ ~faults /\ AllIdle(areq) /\ "consumed" \in token[u] =>
                 user[u].verified /\ identity[u].verified

(* If no await raises or is cancelled, a registration that is refused half-*)
(* way leaves neither identity nor company behind, so that the address and *)
(* the tax id can be used again; and it leaves no user either, but for one *)
(* that a login inserted meanwhile.                                        *)
RollbackClean ==
    ~faults /\ AllIdle(areq) =>
        \A u \in Uids : done[u] = "no" =>
            /\ ~identity[u].there
            /\ company[u] # "registered"
            /\ user[u].there => u \in early

(* A deleted user's identity is gone, and if no request overlaps and none  *)
(* raises so is all that delete_user deletes.                              *)
DeletedIsGone ==
    \A u \in Uids : done[u] = "deleted" =>
        /\ ~identity[u].there
        /\ ~overlap /\ ~faults /\ AllIdle(areq) =>
             ~user[u].there /\ u \notin linked /\ token[u] = {}

(* Registering and deleting are all or nothing, although each writes to    *)
(* two systems and several collections, and other requests see every state *)
(* between.                                                                *)
AllOrNothing == DoneIsWhole /\ RollbackClean /\ DeletedIsGone

=============================================================================
