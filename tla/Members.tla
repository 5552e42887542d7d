------------------------------ MODULE Members -------------------------------
(***************************************************************************)
(* The members of the platform: Firebase's record of a user, the users     *)
(* collection and the profile, which src/modules/users/service.py,         *)
(* src/modules/admin/service.py and src/modules/auth/service.py write one  *)
(* after the other.                                                        *)
(*                                                                         *)
(* Firebase mints ID tokens with the claims a user has at that moment, and *)
(* a token stays good until it is revoked, its user disabled or deleted:   *)
(* what a request may do is what its token claims (src/shared/dependencies *)
(* /auth.py), and a login stores these claims in the users collection.     *)
(* Expiry of tokens is left out, it only takes some away.  Firebase is     *)
(* modelled by the calls made to it; e-mail addresses and confirmation are *)
(* in Accounts.                                                            *)
(***************************************************************************)
EXTENDS Handlers, Doors

CONSTANTS
    Persons,         \* the members, registered with both stores
    MemberMoves   \* bound on the requests made

ASSUME MemberMovesAssumption == MemberMoves \in Nat

VARIABLES
    atFire,   \* Firebase's record of a user
    inUsers,  \* the document of the users collection
    face,     \* the picture in the profile
    tokens,   \* the claims of the tokens a user holds
    behind,   \* history: whose document last took claims or a name that
              \*   Firebase has not
    lowered,  \* history: an administrator was demoted or disabled
    appointed, \* history: who was an administrator from the start, or was
              \*   made one by an administrator
    breq,     \* where each request is
    bmoves    \* requests made so far

bvars == <<overlap, faults, atFire, inUsers, face, tokens, behind, lowered,
           appointed, breq, bmoves>>

bkept == <<overlap, faults, tokens, lowered, appointed, bmoves>>

Roles  == {"admin", "viewer"}
Labels == {"first", "second"}     \* names, and pictures
Modes  == {"active", "disabled"}
Kept   == "kept"                  \* what a payload leaves out

Gone    == [there |-> FALSE]
Records == {Gone} \cup [there : {TRUE}, mode : Modes, role : Roles,
                        name : Labels, picture : Labels]
Claims  == [role : Roles, name : Labels, picture : Labels]

ClaimsOf(rec) == [role |-> rec.role, name |-> rec.name, picture |-> rec.picture]

Patches == [name : Labels \cup {Kept}, role : Roles \cup {Kept},
            mode : Modes \cup {Kept}]
Faces   == [name : Labels \cup {Kept}, picture : Labels \cup {Kept},
            upload : BOOLEAN]

MemberRequests ==
    {Idle}
    \cup [at : {"upsert"}, uid : Persons, claims : Claims]
    \cup [at : {"rename", "set role", "set claims", "reread", "set active",
                "set disabled"}, uid : Persons, patch : Patches]
    \cup [at : {"tell Firebase", "store user", "store profile"},
          uid : Persons, new : Faces]
    \cup [at : {"drop identity", "drop profile", "drop user"}, uid : Persons]

TypeOKMembers ==
    /\ atFire \in [Persons -> Records]
    /\ inUsers \in [Persons -> Records]
    /\ face \in [Persons -> Labels \cup {"none"}]
    /\ tokens \in [Persons -> SUBSET Claims]
    /\ behind \subseteq Persons
    /\ lowered \in BOOLEAN
    /\ appointed \subseteq Persons
    /\ breq \in [Requests -> MemberRequests]
    /\ bmoves \in 0 .. MemberMoves

MembersInit ==
    /\ HandlersInit
    /\ \E admins \in (SUBSET Persons) \ {{}} :
         atFire = [u \in Persons |->
                     [there |-> TRUE, mode |-> "active", name |-> "first", picture |-> "first",
                      role |-> IF u \in admins THEN "admin" ELSE "viewer"]]
    /\ appointed = {u \in Persons : atFire[u].role = "admin"}
    /\ inUsers = atFire
    /\ face = [u \in Persons |-> "none"]
    /\ tokens = [u \in Persons |-> {ClaimsOf(atFire[u])}]
    /\ behind = {}
    /\ lowered = FALSE
    /\ breq = [r \in Requests |-> Idle]
    /\ bmoves = 0

EnabledAt(u) == atFire[u].there /\ atFire[u].mode = "active"

(* verify_id_token, which asks Firebase whether the token still is good.   *)
Shows(u, t) == t \in tokens[u] /\ EnabledAt(u)

(* The doors that open for a member with the tokens it has: all but those  *)
(* of the product are indifferent to its company's access.                 *)
Opens(u, gate) ==
    \E t \in tokens[u] : LetIn(gate, Shows(u, t), t.role = "admin", TRUE)

UpdateUserGate == GateOf("PATCH", <<"admin", "users", "an id">>)
DeleteUserGate == GateOf("DELETE", <<"admin", "users", "an id">>)
ProfileGate    == GateOf("PATCH", <<"users", "me", "profile">>)
AvatarGate     == GateOf("POST", <<"users", "avatar", "upload">>)
RevokeAllGate  == GateOf("POST", <<"auth", "revoke-all">>)

StartMember(r) ==
    /\ MayStart(breq, r)
    /\ bmoves < MemberMoves
    /\ bmoves' = bmoves + 1

MemberGoes(r, q, at) == Goes(breq, r, [q EXCEPT !.at = at])

(* The member gets a token at Firebase.                                    *)
SignIn(u) ==
    /\ EnabledAt(u)
    /\ tokens' = [tokens EXCEPT ![u] = @ \cup {ClaimsOf(atFire[u])}]
    /\ UNCHANGED <<overlap, faults, atFire, inUsers, face, behind, lowered,
                   appointed, breq, bmoves>>

(* revoke_all_sessions; what it writes to Redis is read nowhere.           *)
RevokeAll(r, u) ==
    /\ StartMember(r)
    /\ Opens(u, RevokeAllGate)
    /\ tokens' = [tokens EXCEPT ![u] = {}]
    /\ UNCHANGED <<overlap, faults, atFire, inUsers, face, behind, lowered,
                   appointed, breq>>

(***************************************************************************)
(* Login                                                                   *)
(***************************************************************************)

LoginWithToken(r, u, t) ==
    /\ StartMember(r)
    /\ Shows(u, t)
    /\ Goes(breq, r, [at |-> "upsert", uid |-> u, claims |-> t])
    /\ UNCHANGED <<overlap, faults, atFire, inUsers, face, tokens, behind, lowered,
                   appointed>>

(* upsert_from_firebase stores what the token claims.  Whether the user is *)
(* active and confirmed is tested afterwards, and changes only the answer. *)
StoreClaims(r) ==
    LET q == breq[r]
        old == inUsers[q.uid]
        new == [there |-> TRUE, mode |-> IF old.there THEN old.mode ELSE "active",
                role |-> q.claims.role, name |-> q.claims.name, picture |-> q.claims.picture] IN
    /\ q.at = "upsert"
    /\ inUsers' = [inUsers EXCEPT ![q.uid] = new]
    /\ behind' = IF atFire[q.uid].there /\ q.claims = ClaimsOf(atFire[q.uid])
                   THEN behind \ {q.uid} ELSE behind \cup {q.uid}
    /\ Ends(breq, r)
    /\ UNCHANGED <<bkept, atFire, face>>

(***************************************************************************)
(* What administrators change: AdminService.update_user                    *)
(***************************************************************************)

(* A payload with a new name has nothing else here.                        *)
UpdateUser(r, u) ==
    /\ StartMember(r)
    /\ \E a \in Persons : Opens(a, UpdateUserGate)
    /\ inUsers[u].there
    /\ \E p \in Patches :
         /\ p.name # "first"
         /\ p.name # Kept <=> p.role = Kept /\ p.mode = Kept
         /\ Goes(breq, r, [at |-> "rename", uid |-> u, patch |-> p])
         /\ appointed' = IF p.role = "admin" THEN appointed \cup {u} ELSE appointed
    /\ UNCHANGED <<overlap, faults, atFire, inUsers, face, tokens, behind, lowered>>

(* update_profile, of the document alone.                                  *)
Rename(r) ==
    LET q == breq[r] IN
    /\ q.at = "rename"
    /\ IF q.patch.name = Kept
         THEN /\ MemberGoes(r, q, "set role")
              /\ UNCHANGED <<inUsers, behind>>
         ELSE IF inUsers[q.uid].there
         THEN /\ inUsers' = [inUsers EXCEPT ![q.uid].name = q.patch.name]
              /\ behind' = behind \cup {q.uid}
              /\ MemberGoes(r, q, "set role")
         ELSE Ends(breq, r) /\ UNCHANGED <<inUsers, behind>>
    /\ UNCHANGED <<bkept, atFire, face>>

(* set_role, if the payload has one.                                       *)
SetRole(r) ==
    LET q == breq[r] IN
    /\ q.at = "set role"
    /\ IF q.patch.role = Kept
         THEN MemberGoes(r, q, "set active") /\ UNCHANGED <<inUsers, lowered>>
         ELSE /\ inUsers' = IF inUsers[q.uid].there
                              THEN [inUsers EXCEPT ![q.uid].role = q.patch.role]
                              ELSE inUsers
              /\ lowered' = (lowered \/ q.patch.role # "admin")
              /\ MemberGoes(r, q, "set claims")
    /\ UNCHANGED <<overlap, faults, atFire, face, tokens, behind, appointed, bmoves>>

SetClaims_Forgotten(r) ==
    LET q == breq[r] IN
    /\ q.at = "set claims"
    /\ MemberGoes(r, q, "reread")
    /\ UNCHANGED <<bkept, inUsers, face, behind, atFire>>

(* set_custom_user_claims raises for a user Firebase does not have.        *)
SetClaims(r) ==
    LET q == breq[r] IN
    /\ q.at = "set claims"
    /\ IF atFire[q.uid].there
         THEN /\ atFire' = [atFire EXCEPT ![q.uid].role = q.patch.role]
              /\ MemberGoes(r, q, "reread")
         ELSE Ends(breq, r) /\ UNCHANGED atFire
    /\ UNCHANGED <<bkept, inUsers, face, behind>>

Reread(r) ==
    LET q == breq[r] IN
    /\ q.at = "reread"
    /\ IF inUsers[q.uid].there THEN MemberGoes(r, q, "set active") ELSE Ends(breq, r)
    /\ UNCHANGED <<bkept, atFire, inUsers, face, behind>>

SetActive(r) ==
    LET q == breq[r] IN
    /\ q.at = "set active"
    /\ IF q.patch.mode = Kept
         THEN Ends(breq, r) /\ UNCHANGED <<inUsers, lowered>>
         ELSE /\ inUsers' = IF inUsers[q.uid].there
                              THEN [inUsers EXCEPT ![q.uid].mode = q.patch.mode]
                              ELSE inUsers
              /\ lowered' = (lowered \/ q.patch.mode = "disabled")
              /\ MemberGoes(r, q, "set disabled")
    /\ UNCHANGED <<overlap, faults, atFire, face, tokens, behind, appointed, bmoves>>

SetDisabled(r) ==
    LET q == breq[r] IN
    /\ q.at = "set disabled"
    /\ atFire' = IF atFire[q.uid].there
                   THEN [atFire EXCEPT ![q.uid].mode = q.patch.mode] ELSE atFire
    /\ Ends(breq, r)
    /\ UNCHANGED <<bkept, inUsers, face, behind>>

(***************************************************************************)
(* What members change: update_my_profile and upload_avatar                *)
(***************************************************************************)

OpenProfile(r, u, new) ==
    /\ StartMember(r)
    /\ Opens(u, IF new.upload THEN AvatarGate ELSE ProfileGate)
    /\ inUsers[u].there
    /\ Goes(breq, r, [at |-> "tell Firebase", uid |-> u, new |-> new])
    /\ UNCHANGED <<overlap, faults, atFire, inUsers, face, tokens, behind, lowered,
                   appointed>>

UpdateMyProfile(r, u) ==
    \E n, p \in {"second", Kept} :
        OpenProfile(r, u, [name |-> n, picture |-> p, upload |-> FALSE])

UploadAvatar(r, u) ==
    OpenProfile(r, u, [name |-> Kept, picture |-> "second", upload |-> TRUE])

(* A record with the name and the picture of a payload that has them.      *)
With(rec, new) ==
    [rec EXCEPT !.name = IF new.name = Kept THEN @ ELSE new.name,
                !.picture = IF new.picture = Kept THEN @ ELSE new.picture]

(* Firebase first: it raises for a user it does not have.                  *)
TellFirebaseFace(r) ==
    LET q == breq[r] IN
    /\ q.at = "tell Firebase"
    /\ IF q.new.name = Kept /\ q.new.picture = Kept
         THEN MemberGoes(r, q, "store profile") /\ UNCHANGED atFire
         ELSE IF atFire[q.uid].there
         THEN /\ atFire' = [atFire EXCEPT ![q.uid] = With(@, q.new)]
              /\ MemberGoes(r, q, "store user")
         ELSE Ends(breq, r) /\ UNCHANGED atFire
    /\ UNCHANGED <<bkept, inUsers, face, behind>>

(* A document that is gone makes update_my_profile raise, and not the      *)
(* upload.                                                                 *)
StoreUser(r) ==
    LET q == breq[r] IN
    /\ q.at = "store user"
    /\ IF inUsers[q.uid].there
         THEN /\ inUsers' = [inUsers EXCEPT ![q.uid] = With(@, q.new)]
              /\ MemberGoes(r, q, "store profile")
         ELSE /\ IF q.new.upload THEN MemberGoes(r, q, "store profile")
                                 ELSE Ends(breq, r)
              /\ UNCHANGED inUsers
    /\ UNCHANGED <<bkept, atFire, face, behind>>

(* upsert_for_user, which makes a profile if there is none.                *)
StoreProfile(r) ==
    LET q == breq[r] IN
    /\ q.at = "store profile"
    /\ face' = IF q.new.picture = Kept THEN face
               ELSE [face EXCEPT ![q.uid] = q.new.picture]
    /\ Ends(breq, r)
    /\ UNCHANGED <<bkept, atFire, inUsers, behind>>

(***************************************************************************)
(* AdminService.delete_user                                                *)
(***************************************************************************)

Manned(docs) == {u \in Persons : docs[u].there /\ docs[u].mode = "active" /\ docs[u].role = "admin"}

(* Not one's own account, and not that of the last administrator: by       *)
(* list_admins, which counts the active ones.                              *)
AskDeletion(r, u) ==
    /\ StartMember(r)
    /\ \E a \in Persons \ {u} : Opens(a, DeleteUserGate)
    /\ inUsers[u].there
    /\ inUsers[u].role = "admin" => \E a, b \in Manned(inUsers) : a # b
    /\ Goes(breq, r, [at |-> "drop identity", uid |-> u])
    /\ UNCHANGED <<overlap, faults, atFire, inUsers, face, tokens, behind, lowered,
                   appointed>>

DropIdentity(r) ==
    LET q == breq[r] IN
    /\ q.at = "drop identity"
    /\ atFire' = [atFire EXCEPT ![q.uid] = Gone]
    /\ MemberGoes(r, q, "drop profile")
    /\ UNCHANGED <<bkept, inUsers, face, behind>>

DropProfile(r) ==
    LET q == breq[r] IN
    /\ q.at = "drop profile"
    /\ face' = [face EXCEPT ![q.uid] = "none"]
    /\ MemberGoes(r, q, "drop user")
    /\ UNCHANGED <<bkept, atFire, inUsers, behind>>

DropUser(r) ==
    LET q == breq[r] IN
    /\ q.at = "drop user"
    /\ inUsers' = [inUsers EXCEPT ![q.uid] = Gone]
    /\ Ends(breq, r)
    /\ UNCHANGED <<bkept, atFire, face, behind>>

MemberRaises(r) ==
    /\ Raises(breq, r)
    /\ UNCHANGED <<bkept, atFire, inUsers, face, behind>>

MemberStep(r) ==
    \/ \E u \in Persons : \/ RevokeAll(r, u)
                       \/ \E t \in tokens[u] : LoginWithToken(r, u, t)
                       \/ UpdateUser(r, u) \/ AskDeletion(r, u)
                       \/ UpdateMyProfile(r, u) \/ UploadAvatar(r, u)
    \/ StoreClaims(r)
    \/ Rename(r) \/ SetRole(r) \/ SetClaims(r) \/ Reread(r)
    \/ SetActive(r) \/ SetDisabled(r)
    \/ TellFirebaseFace(r) \/ StoreUser(r) \/ StoreProfile(r)
    \/ DropIdentity(r) \/ DropProfile(r) \/ DropUser(r)
    \/ MemberRaises(r)

MembersNext == \/ \E u \in Persons : SignIn(u)
               \/ \E r \in Requests : MemberStep(r)

MembersSpec == MembersInit /\ [][MembersNext]_bvars

(***************************************************************************)
(* Properties                                                              *)
(***************************************************************************)

(* Every identity has its user, whatever overlaps and raises: deletion     *)
(* takes the identity first.                                               *)
NoIdentityAlone == \A u \in Persons : atFire[u].there => inUsers[u].there

(* One request at a time, and none that raises: when it is done, Firebase  *)
(* and the users collection know the same members, disabled in both or in  *)
(* neither; and their role, name and picture are the same, as is the       *)
(* profile's picture once there is one, unless the document took an older  *)
(* token's claims or a name that Firebase was not told.                    *)
StoresAgree ==
    ~overlap /\ ~faults /\ AllIdle(breq) =>
        \A u \in Persons :
            /\ inUsers[u].there => atFire[u].there /\ inUsers[u].mode = atFire[u].mode
            /\ inUsers[u].there /\ u \notin behind =>
                 /\ ClaimsOf(inUsers[u]) = ClaimsOf(atFire[u])
                 /\ face[u] \in {"none", inUsers[u].picture}

(* One request at a time, deletions leave an active administrator, unless  *)
(* one was demoted or disabled or an old token's login took the role away. *)
StillManned ==
    ~overlap /\ ~lowered /\ behind = {} => Manned(inUsers) # {}

(* Every call gets to the door it was meant for, and the doors that stream *)
(* are those that the timeout leaves alone.                                *)
EveryDoorReached ==
    \A i \in DOMAIN Doors :
        /\ Reached(Verb(Doors[i].method), PathTo(Doors[i])) = i
        /\ Doors[i].method = "STREAM" <=> Untimed(PathTo(Doors[i]))

(* What asks at each path that is meant for administrators: those under    *)
(* admin, and any other that has it in its name, but for the login.        *)
AdminGates ==
    {GateOf(Verb(d.method), PathTo(d)) :
       d \in {e \in ToSet(Doors) : "admin" \in ToSet(e.path) /\ Last(e.path) # "login"}}

(* The doors for administrators ask for one, and so does that of the       *)
(* deletion of users, by which StillManned stands.                         *)
AdminsOnly == AdminGates \cup {DeleteUserGate} = {"admin"}

(* Nobody is let in at a door for administrators but who was one from the  *)
(* start or whom an administrator made one: neither a profile, a login nor *)
(* an old token makes anyone an administrator.                             *)
OnlyAppointed ==
    \A u \in Persons : (\E g \in AdminGates : Opens(u, g)) => u \in appointed

(* No call is taken by another door on its way, and so those that are for  *)
(* administrators keep out whoever was not made one.                       *)
DoorsHold == EveryDoorReached /\ OnlyAppointed

(* What is known of a member in three places, written one after the other, *)
(* is the same in all of them, and who administers was made to, since the  *)
(* doors for administrators ask for one.                                   *)
MembersAgree ==
    /\ NoIdentityAlone /\ StoresAgree
    /\ AdminsOnly /\ StillManned /\ OnlyAppointed

=============================================================================
