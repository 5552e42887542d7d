----------------------------- MODULE UserProofs -----------------------------
(***************************************************************************)
(* Theorems about what belongs to a user: the account (Accounts), the      *)
(* visual signatures (Stamps) and the notifications (News), for any number *)
(* of each and of requests.                                                *)
(*                                                                         *)
(* Accounts.  A registration knows what it has stored so far, since nobody *)
(* else has its id, unless the user is deleted meanwhile (AccountFits); an *)
(* account that was answered with success stays whole (Whole).  If nothing *)
(* raises, each part of an account that is half made is a request's, which *)
(* goes on or takes it back (Owned), a consumed token is confirmed or about*)
(* to be (Confirmed), and a deletion gets further one store at a time      *)
(* (Erased).  Every step is about one user and leaves what is known of the *)
(* others (Local).                                                         *)
(*                                                                         *)
(* Visual signatures.  Whoever is about to store one holds a key that no   *)
(* stored one and no other request has (Fits, Apart), so the two indexes   *)
(* are all that its insertion depends on; what a stored one owes to the    *)
(* trail is there or on its way (Owed); a failure in the trail is of an    *)
(* image that is altered for good (Damage), so that a use which read it    *)
(* intact, with no other request in flight, comes before (Alone).          *)
(*                                                                         *)
(* Notifications.  An event is told by one request (OneTeller), which goes *)
(* down its list: whom it has not come to has had nothing, whom it is at   *)
(* has had what it has done so far, and all others what is theirs (SoFar,  *)
(* Informed).                                                              *)
(***************************************************************************)
EXTENDS Accounts, Stamps, News, FiniteSetTheorems, SequenceTheorems, TLAPS

-----------------------------------------------------------------------------
(* Accounts                                                                *)

Registering == {"user", "company", "link", "token",
                "undo company", "undo user", "undo identity"}
Deleting    == {"delete profile", "delete tokens", "delete user"}
Confirming  == {"consume", "verify", "tell Firebase", "drop tokens", "send token"}
Touching    == {"upsert", "consume", "verify", "drop tokens", "send token"}

(* The steps of requests that are about no user yet.                       *)
Unbound == {"idle", "check tax", "identity"}

On(u, steps) == \E r \in Requests : areq[r].at \in steps /\ areq[r].uid = u

(* What a registration knows of the user it makes, unless somebody deletes *)
(* that user meanwhile.                                                    *)
Knows(q) ==
    /\ identity[q.uid].there /\ identity[q.uid].email = q.email
    /\ q.at \in {"company", "link", "token"} =>
         user[q.uid].there /\ user[q.uid].email = q.email
    /\ q.at \in {"company", "link"} => q.firm
    /\ q.at \in {"link", "token"} /\ q.firm =>
         company[q.uid] \in {"registered", "deleted"}
    /\ q.at = "token" /\ q.firm => q.uid \in linked
    /\ q.at = "user" /\ ~user[q.uid].there =>
         token[q.uid] = {} /\ ~On(q.uid, Confirming)

AccountFits(r) ==
    LET q == areq[r] IN
    /\ q.at \in Deleting => done[q.uid] = "deleted"
    /\ q.at \in Registering =>
         /\ q.uid \in Uids /\ done[q.uid] \in {"no", "deleted"}
         /\ \A s \in Requests :
              areq[s].at \in Registering /\ areq[s].uid = q.uid => s = r
         /\ done[q.uid] = "no" => Knows(q)

Whole(u) ==
    done[u] \in {"bare", "firm"} =>
        /\ identity[u].there /\ user[u].there
        /\ identity[u].email = user[u].email
        /\ done[u] = "firm" => u \in linked /\ company[u] \in {"registered", "deleted"}

(* If nothing raises, a user half made is somebody's, who goes on or takes *)
(* it back.                                                                *)
Owned(u) ==
    done[u] = "no" =>
        /\ identity[u].there => On(u, Registering)
        /\ company[u] = "registered" => On(u, {"link", "token", "undo company"})
        /\ user[u].there =>
             \/ u \in early
             \/ On(u, {"company", "link", "token", "undo company", "undo user"})

Confirmed(u) ==
    /\ "consumed" \in token[u]
    /\ \/ done[u] \in {"bare", "firm"}
       \/ done[u] = "no" /\ On(u, {"company", "link", "token"})
    => \/ On(u, {"verify"})
       \/ user[u].verified /\ (identity[u].verified \/ On(u, {"tell Firebase"}))

(* How far the deletion of a user has come, one request at a time.         *)
Erased(u) ==
    done[u] = "deleted" =>
        \/ On(u, {"delete profile"})
        \/ /\ u \notin linked
           /\ \/ On(u, {"delete tokens"})
              \/ token[u] = {} /\ (On(u, {"delete user"}) \/ ~user[u].there)

UserFits(u) ==
    /\ Whole(u)
    /\ done[u] = "deleted" => ~identity[u].there
    /\ ~faults => Owned(u) /\ Confirmed(u)
    /\ ~faults /\ ~overlap => Erased(u)

AccountAlone ==
    /\ ~overlap =>
         \A r, s \in Requests : areq[r].at # "idle" /\ areq[s].at # "idle" => r = s
    /\ ~overlap /\ ~faults =>
         \A r \in Requests :
            areq[r].at \in Registering \cup Touching => done[areq[r].uid] # "deleted"

StoresTyped ==
    /\ identity \in [Uids -> Entries]
    /\ user \in [Uids -> Entries]
    /\ company \in [Uids -> Companies]
    /\ linked \subseteq Uids
    /\ token \in [Uids -> SUBSET {"sent", "consumed"}]
    /\ done \in [Uids -> {"no", "bare", "firm", "deleted"}]
    /\ early \subseteq Uids
    /\ amoves \in 0 .. AccountMoves

AInv ==
    /\ StoresTyped /\ areq \in [Requests -> AccountRequests]
    /\ \A r \in Requests : AccountFits(r)
    /\ \A u \in Uids : UserFits(u)
    /\ AccountAlone

(* Only the request in slot r goes on, it is about u if about anybody, and *)
(* what is stored of the others stays.                                     *)
Slots(r) ==
    /\ areq' \in [Requests -> AccountRequests]
    /\ \A s \in Requests \ {r} : areq'[s] = areq[s]

About(r, u) ==
    /\ areq[r].at \notin Unbound => areq[r].uid = u
    /\ areq'[r].at \notin Unbound => areq'[r].uid = u

Elsewhere(u) ==
    \A v \in Uids \ {u} :
        /\ identity'[v] = identity[v] /\ user'[v] = user[v]
        /\ company'[v] = company[v] /\ (v \in linked' <=> v \in linked)
        /\ token'[v] = token[v] /\ done'[v] = done[v]
        /\ (v \in early' <=> v \in early)

-----------------------------------------------------------------------------
(* Lemmas                                                                  *)

LEMMA AccountShapes ==
    \A q \in AccountRequests :
        /\ q.at \in RegisterSteps => q \in RegisterWork
        /\ q.at \in Confirming \cup Deleting \cup {"found"} => q \in UserWork
        /\ q.at = "upsert" => q \in LoginWork
        /\ q.at = "deactivate" => q \in CompanyWork
        /\ q # Idle => q.at # "idle"
<1>1. Idle.at = "idle"
  BY DEF Idle
<1>2. \A q \in RegisterWork : q.at \in RegisterSteps
  BY DEF RegisterWork
<1>3. \A q \in UserWork : q.at \in Confirming \cup Deleting \cup {"found"}
  BY DEF UserWork, Confirming, Deleting
<1>4. \A q \in LoginWork : q.at = "upsert"
  BY DEF LoginWork
<1>5. \A q \in CompanyWork : q.at = "deactivate"
  BY DEF CompanyWork
<1>6. "idle" \notin RegisterSteps
  BY DEF RegisterSteps
<1>. QED  BY <1>1, <1>2, <1>3, <1>4, <1>5, <1>6
          DEF AccountRequests, Confirming, Deleting, RegisterSteps

LEMMA IdleAccount == Idle \in AccountRequests /\ Idle.at = "idle"
BY DEF Idle, AccountRequests

(* A request that is about a user is about one of them.                    *)
LEMMA BoundTo ==
    ASSUME AInv, NEW r \in Requests, areq[r].at \notin Unbound
    PROVE  areq[r].uid \in Uids
<1>1. areq[r] \in AccountRequests
  BY DEF AInv
<1>2. CASE areq[r] \in RegisterWork
  <2>1. areq[r].at \in Registering
    BY <1>2 DEF RegisterWork, RegisterSteps, Registering, Unbound
  <2>. QED  BY <2>1 DEF AInv, AccountFits
<1>3. CASE areq[r] \in UserWork \cup LoginWork \cup CompanyWork
  BY <1>3 DEF UserWork, LoginWork, CompanyWork
<1>4. CASE areq[r] = Idle
  BY <1>4, IdleAccount DEF Unbound
<1>. QED  BY <1>1, <1>2, <1>3, <1>4 DEF AccountRequests

LEMMA AccountMoved ==
    ASSUME AInv, NEW r \in Requests, NEW q \in AccountRequests, Goes(areq, r, q)
    PROVE  areq'[r] = q /\ Slots(r)
BY DEF AInv, Goes, Slots

LEMMA OnlyAccount ==
    ASSUME AInv, NEW r \in Requests, MayStart(areq, r) \/ areq[r].at # "idle",
           ~overlap
    PROVE  \A s \in Requests \ {r} : areq[s].at = "idle"
BY IdleAccount DEF AInv, AccountAlone, MayStart, AllIdle

(* A step that is about user u alone leaves what is known of the others.   *)
LEMMA Local ==
    ASSUME AInv, NEW r \in Requests, NEW u, Slots(r), About(r, u), Elsewhere(u),
           UNCHANGED <<overlap, faults>>, StoresTyped',
           MayStart(areq, r) \/ areq[r].at # "idle",
           u \in Uids => UserFits(u)',
           done[u] = "deleted" => done'[u] = "deleted",
           areq'[r].at \in Deleting => done'[u] = "deleted",
           areq'[r].at \in Registering =>
              /\ done'[u] \in {"no", "deleted"}
              /\ done'[u] = "no" => Knows(areq[r])'
              /\ u \in Uids
              /\ ~overlap /\ ~faults => done'[u] # "deleted",
           ~overlap /\ ~faults /\ areq'[r].at \in Touching => done'[u] # "deleted",
           \A s \in Requests \ {r} :
              areq[s].at \in Registering /\ areq[s].uid = u =>
                 /\ areq'[r].at \notin Registering
                 /\ done'[u] \in {"no", "deleted"}
                 /\ done'[u] = "no" => Knows(areq[s])'
    PROVE  AInv'
<1>1. /\ areq' \in [Requests -> AccountRequests]
      /\ \A s \in Requests \ {r} : areq'[s] = areq[s]
  BY DEF Slots
<1>2. ASSUME NEW v \in Uids \ {u}, NEW steps, steps \cap Unbound = {}
      PROVE  On(v, steps)' <=> On(v, steps)
  BY <1>1, <1>2 DEF On, About
<1>3. /\ Registering \cap Unbound = {} /\ Confirming \cap Unbound = {}
      /\ Deleting \cap Unbound = {} /\ Touching \cap Unbound = {}
      /\ Registering \cap Deleting = {}
  BY DEF Registering, Confirming, Deleting, Touching, Unbound
<1>4. ASSUME NEW s \in Requests PROVE AccountFits(s)'
  <2>1. CASE areq'[s].at \in Unbound
    BY <1>3, <2>1 DEF AccountFits
  <2>2. CASE areq'[s].at \notin Unbound /\ areq'[s].uid # u
    <3>1. s # r /\ areq'[s] = areq[s] /\ areq[s].uid \in Uids \ {u}
      BY <1>1, <2>2, BoundTo DEF About
    <3>2. AccountFits(s)
      BY DEF AInv
    <3>3. On(areq[s].uid, Confirming)' <=> On(areq[s].uid, Confirming)
      <4> DEFINE v == areq[s].uid
      <4> HIDE DEF v
      <4>1. v \in Uids \ {u}
        BY <3>1 DEF v
      <4>2. \A w : w = v => (On(w, Confirming)' <=> On(w, Confirming))
        BY <1>2, <1>3, <4>1
      <4>. QED  BY <3>1, <4>2 DEF v
    <3>4. areq[s].at \in Registering => /\ Knows(areq[s]) => Knows(areq[s])'
      BY <3>1, <3>3 DEF Knows, Elsewhere
    <3>5. \A t \in Requests :
            areq'[t].at \in Registering /\ areq'[t].uid = areq[s].uid =>
               areq[t].at \in Registering /\ areq[t].uid = areq[s].uid
      BY <1>1, <1>3, <3>1 DEF About
    <3>. QED  BY <3>1, <3>2, <3>4, <3>5 DEF AccountFits, Elsewhere
  <2>3. CASE areq'[s].at \notin Unbound /\ areq'[s].uid = u
    <3>1. CASE s = r
      <4>1. areq'[r].at \in Registering =>
              \A t \in Requests :
                areq'[t].at \in Registering /\ areq'[t].uid = u => t = r
        BY <1>1
      <4>. QED  BY <2>3, <3>1, <4>1 DEF AccountFits
    <3>2. CASE s # r
      <4>1. areq'[s] = areq[s] /\ AccountFits(s)
        BY <1>1, <3>2 DEF AInv
      <4>2. areq[s].at \in Registering =>
              \A t \in Requests :
                areq'[t].at \in Registering /\ areq'[t].uid = u => t = s
        BY <1>1, <2>3, <3>2, <4>1 DEF AccountFits
      <4>. QED  BY <2>3, <3>2, <4>1, <4>2 DEF AccountFits
    <3>. QED  BY <3>1, <3>2
  <2>. QED  BY <2>1, <2>2, <2>3
<1>5. ASSUME NEW v \in Uids PROVE UserFits(v)'
  <2>1. CASE v = u
    BY <2>1
  <2>2. CASE v # u
    <3>1. \A steps : steps \cap Unbound = {} => (On(v, steps)' <=> On(v, steps))
      BY <1>2, <2>2
    <3>2. UserFits(v)
      BY DEF AInv
    <3>3. /\ {"link", "token", "undo company"} \cap Unbound = {}
          /\ {"company", "link", "token", "undo company", "undo user"} \cap Unbound = {}
          /\ {"company", "link", "token"} \cap Unbound = {}
          /\ {"verify"} \cap Unbound = {} /\ {"tell Firebase"} \cap Unbound = {}
          /\ {"delete profile"} \cap Unbound = {}
          /\ {"delete tokens"} \cap Unbound = {} /\ {"delete user"} \cap Unbound = {}
      BY DEF Unbound
    <3>4. Whole(v)' /\ (done'[v] = "deleted" => ~identity'[v].there)
      BY <2>2, <3>2 DEF UserFits, Whole, Elsewhere
    <3>5. ~faults => Owned(v)'
      BY <1>3, <2>2, <3>1, <3>2, <3>3 DEF UserFits, Owned, Elsewhere
    <3>6. ~faults => Confirmed(v)'
      BY <2>2, <3>1, <3>2, <3>3 DEF UserFits, Confirmed, Elsewhere
    <3>7. ~faults /\ ~overlap => Erased(v)'
      BY <2>2, <3>1, <3>2, <3>3 DEF UserFits, Erased, Elsewhere
    <3>. QED  BY <3>4, <3>5, <3>6, <3>7 DEF UserFits
  <2>. QED  BY <2>1, <2>2
<1>6. AccountAlone'
  <2>1. ASSUME ~overlap
        PROVE  \A s \in Requests \ {r} : areq'[s].at = "idle"
    BY <1>1, <2>1, OnlyAccount
  <2>2. "idle" \notin Registering \cup Touching
    BY DEF Registering, Touching
  <2>3. areq'[r].at \in Registering \cup Touching => areq'[r].uid = u
    BY <1>3 DEF About
  <2>. QED  BY <1>1, <2>1, <2>2, <2>3 DEF AccountAlone
<1>. QED  BY <1>1, <1>4, <1>5, <1>6 DEF AInv

(* A request goes on, or ends, and stores nothing: when nothing raises, it *)
(* leaves no step that the invariant counts on.                            *)
LEMMA Quiet ==
    ASSUME AInv, NEW r \in Requests, NEW u, Slots(r), About(r, u),
           UNCHANGED <<overlap, faults, stores, done, early>>,
           amoves' \in 0 .. AccountMoves,
           MayStart(areq, r) \/ areq[r].at # "idle",
           areq'[r].at \notin Unbound => u \in Uids,
           ~faults => \/ areq[r].at \in Unbound
                                  \cup {"upsert", "consume", "found", "deactivate"}
                      \/ areq[r].at = "user" /\ areq'[r].at = "undo identity"
                      \/ areq[r].at = "company" /\ areq'[r].at = "undo user",
           areq'[r].at \notin Deleting,
           areq'[r].at \in Registering =>
              /\ areq[r].at \in Registering /\ areq'[r].email = areq[r].email
              /\ areq'[r].at \in {"undo company", "undo user", "undo identity"},
           areq'[r].at \in Confirming => token[u] # {} \/ user[u].there,
           ~overlap /\ ~faults /\ areq'[r].at \in Touching => done[u] # "deleted"
    PROVE  AInv'
<1>1. /\ areq' \in [Requests -> AccountRequests]
      /\ \A s \in Requests \ {r} : areq'[s] = areq[s]
  BY DEF Slots
<1>2. StoresTyped' /\ Elsewhere(u)
  BY DEF AInv, StoresTyped, stores, Elsewhere
<1>3. areq'[r].at \in Registering =>
        /\ done'[u] \in {"no", "deleted"}
        /\ done'[u] = "no" => Knows(areq[r])'
        /\ ~overlap /\ ~faults => done'[u] # "deleted"
        /\ \A s \in Requests \ {r} : ~(areq[s].at \in Registering /\ areq[s].uid = u)
  <2> SUFFICES ASSUME areq'[r].at \in Registering
               PROVE  /\ done'[u] \in {"no", "deleted"}
                      /\ done'[u] = "no" => Knows(areq[r])'
                      /\ ~overlap /\ ~faults => done'[u] # "deleted"
                      /\ \A s \in Requests \ {r} :
                            ~(areq[s].at \in Registering /\ areq[s].uid = u)
    OBVIOUS
  <2>1. areq[r].uid = u /\ areq'[r].uid = u /\ AccountFits(r)
    BY DEF About, Registering, Unbound, AInv
  <2>2. done[u] = "no" => Knows(areq[r])'
    BY <2>1 DEF AccountFits, Knows, stores
  <2>. QED  BY <2>1, <2>2 DEF AccountFits, AInv, AccountAlone
<1>4. ASSUME NEW s \in Requests \ {r}, areq[s].at \in Registering, areq[s].uid = u,
             done[u] = "no"
      PROVE  Knows(areq[s])'
  <2>1. AccountFits(s) /\ areq'[s] = areq[s]
    BY <1>1 DEF AInv
  <2>2. On(u, Confirming)' =>
          On(u, Confirming) \/ token[u] # {} \/ user[u].there
    BY <1>1 DEF On
  <2>. QED  BY <1>4, <2>1, <2>2 DEF AccountFits, Knows, stores
<1>5. ASSUME u \in Uids PROVE UserFits(u)'
  <2>1. UserFits(u)
    BY <1>5 DEF AInv
  <2>2. Whole(u)' /\ (done'[u] = "deleted" => ~identity'[u].there)
    BY <2>1 DEF UserFits, Whole, stores
  <2>3. ASSUME NEW steps, steps \cap Unbound = {},
               areq[r].at \notin steps \/ areq'[r].at \in steps
        PROVE  On(u, steps) => On(u, steps)'
    BY <1>1, <2>3 DEF On, About
  <2>4. ASSUME ~faults
        PROVE  /\ On(u, Registering) => On(u, Registering)'
               /\ On(u, {"link", "token", "undo company"})
                    => On(u, {"link", "token", "undo company"})'
               /\ On(u, {"company", "link", "token", "undo company", "undo user"})
                    => On(u, {"company", "link", "token", "undo company", "undo user"})'
               /\ On(u, {"verify"}) => On(u, {"verify"})'
               /\ On(u, {"tell Firebase"}) => On(u, {"tell Firebase"})'
               /\ On(u, {"delete profile"}) => On(u, {"delete profile"})'
               /\ On(u, {"delete tokens"}) => On(u, {"delete tokens"})'
               /\ On(u, {"delete user"}) => On(u, {"delete user"})'
    <3>1. /\ Registering \cap Unbound = {}
          /\ areq[r].at \notin Registering \/ areq'[r].at \in Registering
      BY <2>4 DEF Registering, Unbound
    <3>2. /\ {"link", "token", "undo company"} \cap Unbound = {}
          /\ areq[r].at \notin {"link", "token", "undo company"}
      BY <2>4 DEF Unbound
    <3>3. /\ {"company", "link", "token", "undo company", "undo user"} \cap Unbound = {}
          /\ \/ areq[r].at \notin {"company", "link", "token", "undo company", "undo user"}
             \/ areq'[r].at \in {"company", "link", "token", "undo company", "undo user"}
      BY <2>4 DEF Unbound
    <3>4. /\ {"verify"} \cap Unbound = {} /\ areq[r].at \notin {"verify"}
          /\ {"tell Firebase"} \cap Unbound = {} /\ areq[r].at \notin {"tell Firebase"}
          /\ {"delete profile"} \cap Unbound = {} /\ areq[r].at \notin {"delete profile"}
          /\ {"delete tokens"} \cap Unbound = {} /\ areq[r].at \notin {"delete tokens"}
          /\ {"delete user"} \cap Unbound = {} /\ areq[r].at \notin {"delete user"}
      BY <2>4 DEF Unbound
    <3>. QED  BY <2>3, <3>1, <3>2, <3>3, <3>4
  <2>5. On(u, {"company", "link", "token"})' => On(u, {"company", "link", "token"})
    <3>1. areq'[r].at \notin {"company", "link", "token"}
      BY DEF Registering
    <3>. QED  BY <1>1, <3>1 DEF On
  <2>6. ~faults => Owned(u)'
    BY <2>1, <2>4 DEF UserFits, Owned, stores
  <2>7. ~faults => Confirmed(u)'
    BY <2>1, <2>4, <2>5 DEF UserFits, Confirmed, stores
  <2>8. ~faults /\ ~overlap => Erased(u)'
    BY <2>1, <2>4 DEF UserFits, Erased, stores
  <2>. QED  BY <2>2, <2>6, <2>7, <2>8 DEF UserFits
<1>6. \A s \in Requests \ {r} :
         areq[s].at \in Registering /\ areq[s].uid = u =>
            /\ areq'[r].at \notin Registering
            /\ done'[u] \in {"no", "deleted"}
            /\ done'[u] = "no" => Knows(areq[s])'
  BY <1>3, <1>4 DEF AInv, AccountFits
<1>7. areq'[r].at \in Registering => u \in Uids
  BY DEF Registering, Unbound
<1>. QED  BY <1>2, <1>3, <1>5, <1>6, <1>7, Local

(* A step of the request that registers u.                                 *)
LEMMA Registers ==
    ASSUME AInv, NEW r \in Requests, NEW u, areq[r].at \in Registering,
           areq[r].uid = u, Slots(r), About(r, u), Elsewhere(u),
           UNCHANGED <<overlap, faults, done>>, StoresTyped',
           areq'[r].at \in Registering \cup {"idle"},
           done[u] = "deleted" => ~identity'[u].there,
           areq'[r].at \in Registering /\ done[u] = "no" => Knows(areq[r])',
           ~faults /\ done[u] = "no" => Owned(u)' /\ Confirmed(u)'
    PROVE  AInv'
<1>1. /\ AccountFits(r) /\ u \in Uids /\ done[u] \in {"no", "deleted"}
      /\ \A s \in Requests \ {r} : ~(areq[s].at \in Registering /\ areq[s].uid = u)
  BY DEF AInv, AccountFits
<1>2. ~overlap /\ ~faults => done[u] # "deleted"
  BY DEF AInv, AccountAlone
<1>3. UserFits(u)'
  BY <1>1, <1>2 DEF UserFits, Whole, Owned, Confirmed, Erased
<1>4. /\ areq[r].at # "idle"
      /\ areq'[r].at \notin Deleting \cup Touching
  BY DEF Registering, Deleting, Touching
<1>. QED  BY <1>1, <1>2, <1>3, <1>4, Local

(* A step of a request that deletes u.                                     *)
LEMMA Deletes ==
    ASSUME AInv, NEW r \in Requests, NEW u, areq[r].at \in Deleting,
           areq[r].uid = u, u \in Uids, Slots(r), About(r, u), Elsewhere(u),
           UNCHANGED <<overlap, faults, done, identity>>, StoresTyped',
           areq'[r].at \in Deleting \cup {"idle"},
           ~faults /\ ~overlap => Erased(u)'
    PROVE  AInv'
<1>1. AccountFits(r) /\ done[u] = "deleted" /\ UserFits(u)
  BY DEF AInv, AccountFits
<1>2. UserFits(u)'
  BY <1>1 DEF UserFits, Whole, Owned, Confirmed
<1>3. /\ areq[r].at # "idle"
      /\ areq'[r].at \notin Registering \cup Touching
  BY DEF Registering, Deleting, Touching
<1>. QED  BY <1>1, <1>2, <1>3, Local

(* A step of a request that neither makes u nor deletes it.                *)
LEMMA AltersUser ==
    ASSUME AInv, NEW r \in Requests, NEW u, u \in Uids,
           areq[r].at \in Touching \cup {"tell Firebase", "found", "deactivate"},
           areq[r].uid = u, Slots(r), About(r, u), Elsewhere(u),
           UNCHANGED <<overlap, faults, done>>, StoresTyped',
           areq'[r].at \in Touching \cup {"tell Firebase", "idle"},
           identity'[u].there = identity[u].there,
           Whole(u)', ~faults => Owned(u)' /\ Confirmed(u)',
           areq[r].at \notin Touching =>
              user'[u].there = user[u].there /\ linked' = linked /\ token' = token,
           areq'[r].at \in Touching => areq[r].at \in Touching,
           \A s \in Requests \ {r} :
              areq[s].at \in Registering /\ areq[s].uid = u /\ done[u] = "no"
                 /\ Knows(areq[s]) => Knows(areq[s])'
    PROVE  AInv'
<1>1. UserFits(u) /\ \A s \in Requests : AccountFits(s)
  BY DEF AInv
<1>2. ~overlap /\ ~faults /\ areq[r].at \in Touching => done[u] # "deleted"
  BY DEF AInv, AccountAlone
<1>3. ASSUME NEW steps, areq[r].at \notin steps PROVE On(u, steps) => On(u, steps)'
  BY <1>3 DEF On, Slots
<1>4. /\ areq[r].at \notin {"delete profile"} /\ areq[r].at \notin {"delete tokens"}
      /\ areq[r].at \notin {"delete user"} /\ areq[r].at # "idle"
      /\ areq'[r].at \notin Registering \cup Deleting
  BY DEF Touching, Registering, Deleting
<1>5. /\ On(u, {"delete profile"}) => On(u, {"delete profile"})'
      /\ On(u, {"delete tokens"}) => On(u, {"delete tokens"})'
      /\ On(u, {"delete user"}) => On(u, {"delete user"})'
  BY <1>3, <1>4
<1>6. ~overlap /\ ~faults => Erased(u)'
  BY <1>1, <1>2, <1>5 DEF UserFits, Erased
<1>7. UserFits(u)'
  BY <1>1, <1>6 DEF UserFits
<1>8. \A s \in Requests \ {r} :
         areq[s].at \in Registering /\ areq[s].uid = u =>
            /\ done[u] \in {"no", "deleted"}
            /\ done[u] = "no" => Knows(areq[s])'
  BY <1>1 DEF AccountFits
<1>. QED  BY <1>2, <1>4, <1>7, <1>8, Local

LEMMA GoesOn ==
    ASSUME AInv, NEW r \in Requests, NEW at, AccountGoes(r, areq[r], at),
           \/ areq[r].at \in RegisterSteps /\ at \in RegisterSteps
           \/ areq[r].at \in Confirming \cup Deleting
                /\ at \in Confirming \cup Deleting
    PROVE  /\ Slots(r)
           /\ areq'[r].at = at /\ areq'[r].uid = areq[r].uid
           /\ areq[r].at \in RegisterSteps =>
                /\ areq'[r].email = areq[r].email /\ areq'[r].firm = areq[r].firm
<1>1. areq \in [Requests -> AccountRequests]
  BY DEF AInv
<1>2. CASE areq[r].at \in RegisterSteps /\ at \in RegisterSteps
  <2>1. areq[r] \in RegisterWork
    BY <1>1, <1>2, AccountShapes
  <2>2. [areq[r] EXCEPT !.at = at] \in RegisterWork
    BY <1>2, <2>1 DEF RegisterWork
  <2>3. areq'[r] = [areq[r] EXCEPT !.at = at]
    BY <1>1 DEF AccountGoes, Goes
  <2>4. Slots(r)
    BY <1>1, <2>2 DEF AccountGoes, Goes, Slots, AccountRequests
  <2>. QED  BY <2>1, <2>3, <2>4 DEF RegisterWork
<1>3. CASE areq[r].at \in Confirming \cup Deleting /\ at \in Confirming \cup Deleting
  <2>1. areq[r] \in UserWork /\ areq[r].at \notin RegisterSteps
    BY <1>1, <1>3, AccountShapes DEF Confirming, Deleting, RegisterSteps
  <2>2. [areq[r] EXCEPT !.at = at] \in UserWork
    BY <1>3, <2>1 DEF UserWork, Confirming, Deleting
  <2>3. areq'[r] = [areq[r] EXCEPT !.at = at]
    BY <1>1 DEF AccountGoes, Goes
  <2>4. Slots(r)
    BY <1>1, <2>2 DEF AccountGoes, Goes, Slots, AccountRequests
  <2>. QED  BY <2>1, <2>3, <2>4 DEF UserWork
<1>. QED  BY <1>2, <1>3

LEMMA Ended ==
    ASSUME AInv, NEW r \in Requests, Ends(areq, r)
    PROVE  Slots(r) /\ areq'[r].at = "idle"
BY AccountMoved, IdleAccount DEF Ends

LEMMA RegisterStepsAre ==
    /\ Registering \subseteq RegisterSteps /\ Registering \cap Unbound = {}
    /\ (Confirming \cup Deleting) \cap Unbound = {}
BY DEF Registering, RegisterSteps, Unbound, Confirming, Deleting

(* What goes on while a registration is in its steps.                      *)
LEMMA RegistrationFits ==
    ASSUME AInv, NEW r \in Requests, areq[r].at \in Registering
    PROVE  /\ areq[r] \in RegisterWork /\ areq[r].uid \in Uids
           /\ AccountFits(r) /\ UserFits(areq[r].uid)
           /\ \A s \in Requests \ {r} :
                ~(areq[s].at \in Registering /\ areq[s].uid = areq[r].uid)
BY RegisterStepsAre, AccountShapes DEF AInv, AccountFits

LEMMA Registration ==
    ASSUME AInv, NEW r \in Requests, NEW at \in Registering,
           areq[r].at \in Registering, AccountGoes(r, areq[r], at)
    PROVE  /\ Slots(r) /\ About(r, areq[r].uid) /\ areq'[r].at = at
           /\ areq'[r].uid = areq[r].uid
           /\ areq'[r].email = areq[r].email /\ areq'[r].firm = areq[r].firm
BY GoesOn, RegisterStepsAre DEF About

(* What Owned and Confirmed ask of the user that a request registers.      *)
LEMMA OwnedBy ==
    ASSUME AInv, NEW r \in Requests, NEW u, areq[r].at \in Registering,
           areq[r].uid = u, Slots(r),
           areq'[r].at \in Registering => areq'[r].uid = u,
           areq'[r].at \in Registering \cup {"idle"},
           identity'[u].there => areq'[r].at \in Registering,
           company'[u] = "registered" =>
              areq'[r].at \in {"link", "token", "undo company"},
           user'[u].there =>
              \/ u \in early'
              \/ areq'[r].at \in
                    {"company", "link", "token", "undo company", "undo user"}
    PROVE  Owned(u)'
<1>1. \A steps : steps \subseteq Registering /\ areq'[r].at \in steps => On(u, steps)'
  BY DEF On, Slots
<1>2. /\ {"link", "token", "undo company"} \subseteq Registering
      /\ {"company", "link", "token", "undo company", "undo user"} \subseteq Registering
  BY DEF Registering
<1>. QED  BY <1>1, <1>2 DEF Owned

LEMMA ConfirmedBy ==
    ASSUME AInv, NEW r \in Requests, NEW u, areq[r].at \in Registering,
           areq[r].uid = u, Slots(r), u \in Uids, ~faults,
           areq'[r].at \in Registering => areq'[r].uid = u,
           areq'[r].at \in Registering \cup {"idle"}, done'[u] = done[u],
           areq'[r].at \in {"company", "link", "token"} =>
              \/ "consumed" \notin token'[u]
              \/ /\ areq[r].at \in {"company", "link", "token"}
                 /\ UNCHANGED <<user, identity, token>>
    PROVE  Confirmed(u)'
<1>1. \A s \in Requests \ {r} : ~(areq[s].at \in Registering /\ areq[s].uid = u)
  BY DEF AInv, AccountFits
<1>2. On(u, {"company", "link", "token"})' => areq'[r].at \in {"company", "link", "token"}
  <2> SUFFICES ASSUME NEW s \in Requests, areq'[s].uid = u,
                      areq'[s].at \in {"company", "link", "token"}
               PROVE  s = r
    BY DEF On
  <2>1. areq'[s].at \in Registering
    BY DEF Registering
  <2>2. s # r => areq'[s] = areq[s]
    BY DEF Slots
  <2>. QED  BY <1>1, <2>1, <2>2
<1>3. areq[r].at \in {"company", "link", "token"} => On(u, {"company", "link", "token"})
  BY DEF On
<1>4. /\ On(u, {"verify"}) => On(u, {"verify"})'
      /\ On(u, {"tell Firebase"}) => On(u, {"tell Firebase"})'
  BY DEF On, Slots, Registering
<1>5. done[u] \in {"no", "deleted"} /\ Confirmed(u)
  BY DEF AInv, AccountFits, UserFits
<1>. QED  BY <1>1, <1>2, <1>3, <1>4, <1>5 DEF Confirmed

LEMMA EntryTyped ==
    ASSUME NEW q \in RegisterWork
    PROVE  /\ Entry(q) \in Entries /\ Entry(q).there /\ Entry(q).email = q.email
           /\ NoEntry \in Entries /\ ~NoEntry.there
BY DEF Entry, Entries, NoEntry, RegisterWork

LEMMA InsertsUser ==
    ASSUME AInv, NEW r \in Requests, InsertUser(r)
    PROVE  AInv'
<1> DEFINE u == areq[r].uid
<1>1. areq[r].at = "user" /\ areq[r].at \in Registering
  BY DEF InsertUser, Registering
<1>2. CASE user[u].there \/ Holders(user, areq[r].email) # {}
  <2>1. /\ AccountGoes(r, areq[r], "undo identity") /\ UNCHANGED stores
        /\ UNCHANGED <<overlap, faults, done, early, amoves>>
    BY <1>2 DEF InsertUser, kept, stores
  <2>2. "undo identity" \in Registering
    BY DEF Registering
  <2>3. /\ u \in Uids /\ Slots(r) /\ About(r, u) /\ areq'[r].at = "undo identity"
        /\ areq'[r].email = areq[r].email
    BY <1>1, <2>1, <2>2, Registration, RegistrationFits
  <2>4. areq'[r].at \notin Deleting \cup Confirming \cup Touching
    BY <2>3 DEF Deleting, Confirming, Touching
  <2>5. amoves' \in 0 .. AccountMoves /\ UNCHANGED <<overlap, faults, stores, done, early>>
    BY <2>1 DEF AInv, StoresTyped
  <2> HIDE DEF u
  <2>. QED  BY <1>1, <2>2, <2>3, <2>4, <2>5, Quiet
<1>3. CASE ~(user[u].there \/ Holders(user, areq[r].email) # {})
  <2>1. /\ user' = [user EXCEPT ![u] = Entry(areq[r])]
        /\ UNCHANGED <<overlap, faults, done, early, amoves>>
        /\ UNCHANGED <<identity, company, linked, token>>
    BY <1>3 DEF InsertUser, kept
  <2>2. PICK at \in {"company", "token"} :
            /\ AccountGoes(r, areq[r], at)
            /\ at = "company" <=> areq[r].firm
    BY <1>3 DEF InsertUser, AccountGoes
  <2>10. at \in Registering
    BY DEF Registering
  <2>3. /\ areq[r] \in RegisterWork /\ u \in Uids /\ AccountFits(r) /\ UserFits(u)
        /\ Slots(r) /\ About(r, u) /\ areq'[r].at = at /\ areq'[r].uid = u
        /\ areq'[r].email = areq[r].email /\ areq'[r].firm = areq[r].firm
    <3>1. areq[r] \in RegisterWork /\ u \in Uids /\ AccountFits(r) /\ UserFits(u)
      BY <1>1, RegistrationFits
    <3>3. /\ Slots(r) /\ About(r, u) /\ areq'[r].at = at /\ areq'[r].uid = u
          /\ areq'[r].email = areq[r].email /\ areq'[r].firm = areq[r].firm
      BY <1>1, <2>2, <2>10, Registration
    <3>. QED  BY <3>1, <3>3
  <2>4. StoresTyped' /\ Elsewhere(u)
    BY <2>1, <2>3, EntryTyped DEF AInv, StoresTyped, Elsewhere
  <2>5. user'[u].there /\ user'[u].email = areq[r].email
    BY <2>1, <2>3, EntryTyped DEF AInv, StoresTyped
  <2>6. ASSUME done[u] = "no"
        PROVE  Knows(areq[r])' /\ token[u] = {}
    <3>1. Knows(areq[r])
      BY <1>1, <2>3, <2>6 DEF AccountFits
    <3>2. areq'[r].at = "token" => ~areq[r].firm
      BY <2>2, <2>3
    <3>. QED  BY <1>1, <1>3, <2>1, <2>2, <2>3, <2>5, <3>1, <3>2 DEF Knows
  <2>7. ~faults /\ done[u] = "no" => Owned(u)'
    <3>1. ASSUME ~faults, done[u] = "no" PROVE company[u] # "registered"
      <4>1. ~On(u, {"link", "token", "undo company"})
        BY <1>1, <2>3 DEF On, AccountFits, Registering
      <4>. QED  BY <2>3, <3>1, <4>1 DEF UserFits, Owned
    <3> HIDE DEF u
    <3>. QED  BY <1>1, <2>1, <2>2, <2>3, <2>10, <3>1, OwnedBy DEF u
  <2>8. ~faults /\ done[u] = "no" => Confirmed(u)'
    <3> HIDE DEF u
    <3>. QED  BY <1>1, <2>1, <2>2, <2>3, <2>6, <2>10, ConfirmedBy DEF u
  <2>9. done[u] = "deleted" => ~identity'[u].there
    BY <2>1, <2>3 DEF UserFits
  <2> HIDE DEF u
  <2>. QED  BY <1>1, <2>1, <2>2, <2>3, <2>4, <2>6, <2>7, <2>8, <2>9, <2>10, Registers DEF u
<1>. QED  BY <1>2, <1>3

(* A company of this user's is the registration's own.                     *)
LEMMA NotYetOwned ==
    ASSUME AInv, NEW r \in Requests, areq[r].at \in Registering, ~faults,
           done[areq[r].uid] = "no",
           areq[r].at \notin {"link", "token", "undo company"}
    PROVE  company[areq[r].uid] # "registered"
<1>1. AccountFits(r) /\ UserFits(areq[r].uid)
  BY RegistrationFits
<1>2. ~On(areq[r].uid, {"link", "token", "undo company"})
  BY <1>1 DEF On, AccountFits, Registering
<1>. QED  BY <1>1, <1>2 DEF UserFits, Owned

LEMMA Incorporates ==
    ASSUME AInv, NEW r \in Requests, InsertCompany(r)
    PROVE  AInv'
<1>1. areq[r].at = "company" /\ areq[r].at \in Registering
  BY DEF InsertCompany, Registering
<1>2. PICK u \in Uids : u = areq[r].uid
  BY <1>1, RegistrationFits
<1>3. areq[r] \in RegisterWork /\ AccountFits(r) /\ UserFits(u)
  BY <1>1, <1>2, RegistrationFits
<1>4. CASE ~TaxNew
  <2>1. /\ AccountGoes(r, areq[r], "undo user") /\ UNCHANGED stores
        /\ UNCHANGED <<overlap, faults, done, early, amoves>>
    BY <1>4 DEF InsertCompany, kept, stores
  <2>2. "undo user" \in Registering
    BY DEF Registering
  <2>3. /\ Slots(r) /\ About(r, u) /\ areq'[r].at = "undo user"
        /\ areq'[r].email = areq[r].email
    BY <1>1, <1>2, <2>1, <2>2, Registration
  <2>4. areq'[r].at \notin Deleting \cup Confirming \cup Touching
    BY <2>3 DEF Deleting, Confirming, Touching
  <2>5. amoves' \in 0 .. AccountMoves /\ UNCHANGED <<overlap, faults, stores, done, early>>
    BY <2>1 DEF AInv, StoresTyped
  <2>. QED  BY <1>1, <2>2, <2>3, <2>4, <2>5, Quiet
<1>5. CASE TaxNew
  <2>1. /\ company' = [company EXCEPT ![u] = "registered"]
        /\ AccountGoes(r, areq[r], "link")
        /\ UNCHANGED <<overlap, faults, done, early, amoves>>
        /\ UNCHANGED <<identity, user, linked, token>>
    BY <1>2, <1>5 DEF InsertCompany, kept
  <2>2. "link" \in Registering
    BY DEF Registering
  <2>3. /\ Slots(r) /\ About(r, u) /\ areq'[r].at = "link" /\ areq'[r].uid = u
        /\ areq'[r].email = areq[r].email /\ areq'[r].firm = areq[r].firm
    BY <1>1, <1>2, <2>1, <2>2, Registration
  <2>4. StoresTyped' /\ Elsewhere(u) /\ company'[u] = "registered"
    BY <2>1 DEF AInv, StoresTyped, Elsewhere, Companies, Origins
  <2>5. done[u] = "no" => Knows(areq[r])'
    BY <1>1, <1>2, <1>3, <2>1, <2>3, <2>4 DEF AccountFits, Knows
  <2>6. Owned(u)'
    BY <1>1, <1>2, <2>2, <2>3, OwnedBy
  <2>7. ~faults => Confirmed(u)'
    BY <1>1, <1>2, <2>1, <2>2, <2>3, ConfirmedBy
  <2>8. done[u] = "deleted" => ~identity'[u].there
    BY <1>3, <2>1 DEF UserFits
  <2>. QED  BY <1>1, <1>2, <2>1, <2>2, <2>3, <2>4, <2>5, <2>6, <2>7, <2>8, Registers
<1>. QED  BY <1>4, <1>5

LEMMA Links ==
    ASSUME AInv, NEW r \in Requests, LinkCompany(r)
    PROVE  AInv'
<1>1. areq[r].at = "link" /\ areq[r].at \in Registering
  BY DEF LinkCompany, Registering
<1>2. PICK u \in Uids : u = areq[r].uid
  BY <1>1, RegistrationFits
<1>3. areq[r] \in RegisterWork /\ AccountFits(r) /\ UserFits(u)
  BY <1>1, <1>2, RegistrationFits
<1>4. /\ linked' = linked \cup {u} /\ AccountGoes(r, areq[r], "token")
      /\ UNCHANGED <<overlap, faults, done, early, amoves>>
      /\ UNCHANGED <<identity, user, company, token>>
  BY <1>2 DEF LinkCompany, kept
<1>5. "token" \in Registering
  BY DEF Registering
<1>6. /\ Slots(r) /\ About(r, u) /\ areq'[r].at = "token" /\ areq'[r].uid = u
      /\ areq'[r].email = areq[r].email /\ areq'[r].firm = areq[r].firm
  BY <1>1, <1>2, <1>4, <1>5, Registration
<1>7. StoresTyped' /\ Elsewhere(u)
  BY <1>4 DEF AInv, StoresTyped, Elsewhere
<1>8. done[u] = "no" => Knows(areq[r])'
  BY <1>1, <1>2, <1>3, <1>4, <1>6 DEF AccountFits, Knows
<1>9. Owned(u)'
  BY <1>1, <1>2, <1>5, <1>6, OwnedBy
<1>10. ~faults => Confirmed(u)'
  BY <1>1, <1>2, <1>4, <1>5, <1>6, ConfirmedBy
<1>11. done[u] = "deleted" => ~identity'[u].there
  BY <1>3, <1>4 DEF UserFits
<1>. QED  BY <1>1, <1>2, <1>4, <1>5, <1>6, <1>7, <1>8, <1>9, <1>10, <1>11, Registers

LEMMA Dissolves ==
    ASSUME AInv, NEW r \in Requests, UndoCompany(r)
    PROVE  AInv'
<1>1. areq[r].at = "undo company" /\ areq[r].at \in Registering
  BY DEF UndoCompany, Registering
<1>2. PICK u \in Uids : u = areq[r].uid
  BY <1>1, RegistrationFits
<1>3. areq[r] \in RegisterWork /\ AccountFits(r) /\ UserFits(u)
  BY <1>1, <1>2, RegistrationFits
<1>4. /\ company' = [company EXCEPT ![u] = "none"]
      /\ AccountGoes(r, areq[r], "undo user")
      /\ UNCHANGED <<overlap, faults, done, early, amoves>>
      /\ UNCHANGED <<identity, user, linked, token>>
  BY <1>2 DEF UndoCompany, kept
<1>5. "undo user" \in Registering
  BY DEF Registering
<1>6. /\ Slots(r) /\ About(r, u) /\ areq'[r].at = "undo user" /\ areq'[r].uid = u
      /\ areq'[r].email = areq[r].email /\ areq'[r].firm = areq[r].firm
  BY <1>1, <1>2, <1>4, <1>5, Registration
<1>7. StoresTyped' /\ Elsewhere(u) /\ company'[u] = "none"
  BY <1>4 DEF AInv, StoresTyped, Elsewhere, Companies, Origins
<1>8. done[u] = "no" => Knows(areq[r])'
  BY <1>1, <1>2, <1>3, <1>4, <1>6 DEF AccountFits, Knows
<1>9. Owned(u)'
  BY <1>1, <1>2, <1>5, <1>6, <1>7, OwnedBy
<1>10. ~faults => Confirmed(u)'
  BY <1>1, <1>2, <1>4, <1>5, <1>6, ConfirmedBy
<1>11. done[u] = "deleted" => ~identity'[u].there
  BY <1>3, <1>4 DEF UserFits
<1>. QED  BY <1>1, <1>2, <1>4, <1>5, <1>6, <1>7, <1>8, <1>9, <1>10, <1>11, Registers

LEMMA TakesBack ==
    ASSUME AInv, NEW r \in Requests, UndoUser(r)
    PROVE  AInv'
<1>1. areq[r].at = "undo user" /\ areq[r].at \in Registering
  BY DEF UndoUser, Registering
<1>2. PICK u \in Uids : u = areq[r].uid
  BY <1>1, RegistrationFits
<1>3. areq[r] \in RegisterWork /\ AccountFits(r) /\ UserFits(u)
  BY <1>1, <1>2, RegistrationFits
<1>4. /\ user' = [user EXCEPT ![u] = NoEntry]
      /\ AccountGoes(r, areq[r], "undo identity")
      /\ UNCHANGED <<overlap, faults, done, early, amoves>>
      /\ UNCHANGED <<identity, company, linked, token>>
  BY <1>2 DEF UndoUser, kept
<1>5. "undo identity" \in Registering
  BY DEF Registering
<1>6. /\ Slots(r) /\ About(r, u) /\ areq'[r].at = "undo identity" /\ areq'[r].uid = u
      /\ areq'[r].email = areq[r].email /\ areq'[r].firm = areq[r].firm
  BY <1>1, <1>2, <1>4, <1>5, Registration
<1>7. StoresTyped' /\ Elsewhere(u) /\ ~user'[u].there
  BY <1>3, <1>4, EntryTyped DEF AInv, StoresTyped, Elsewhere
<1>8. done[u] = "no" => Knows(areq[r])'
  BY <1>1, <1>2, <1>3, <1>4, <1>6 DEF AccountFits, Knows
<1>9. ~faults /\ done[u] = "no" => Owned(u)'
  BY <1>1, <1>2, <1>4, <1>5, <1>6, <1>7, NotYetOwned, OwnedBy
<1>10. ~faults => Confirmed(u)'
  BY <1>1, <1>2, <1>4, <1>5, <1>6, ConfirmedBy
<1>11. done[u] = "deleted" => ~identity'[u].there
  BY <1>3, <1>4 DEF UserFits
<1>. QED  BY <1>1, <1>2, <1>4, <1>5, <1>6, <1>7, <1>8, <1>9, <1>10, <1>11, Registers

LEMMA Withdraws ==
    ASSUME AInv, NEW r \in Requests, UndoIdentity(r)
    PROVE  AInv'
<1>1. areq[r].at = "undo identity" /\ areq[r].at \in Registering
  BY DEF UndoIdentity, Registering
<1>2. PICK u \in Uids : u = areq[r].uid
  BY <1>1, RegistrationFits
<1>3. areq[r] \in RegisterWork /\ AccountFits(r) /\ UserFits(u)
  BY <1>1, <1>2, RegistrationFits
<1>4. /\ identity' = [identity EXCEPT ![u] = NoEntry]
      /\ UNCHANGED <<overlap, faults, done, early, amoves>>
      /\ UNCHANGED <<user, company, linked, token>>
  BY <1>2 DEF UndoIdentity, kept
<1>5. Slots(r) /\ areq'[r].at = "idle"
  BY Ended DEF UndoIdentity
<1>6. About(r, u) /\ "idle" \notin Registering
  BY <1>2, <1>5 DEF About, Unbound, Registering
<1>7. StoresTyped' /\ Elsewhere(u) /\ ~identity'[u].there
  BY <1>3, <1>4, EntryTyped DEF AInv, StoresTyped, Elsewhere
<1>8. ~faults /\ done[u] = "no" /\ user[u].there => u \in early
  <2>1. ~On(u, {"company", "link", "token", "undo company", "undo user"})
    BY <1>1, <1>2, <1>3 DEF On, AccountFits, Registering
  <2>. QED  BY <1>3, <2>1 DEF UserFits, Owned
<1>9. ~faults /\ done[u] = "no" => Owned(u)'
  BY <1>1, <1>2, <1>4, <1>5, <1>6, <1>7, <1>8, NotYetOwned, OwnedBy
<1>10. ~faults => Confirmed(u)'
  BY <1>1, <1>2, <1>4, <1>5, <1>6, ConfirmedBy
<1>. QED  BY <1>1, <1>2, <1>4, <1>5, <1>6, <1>7, <1>9, <1>10, Registers

LEMMA Issues ==
    ASSUME AInv, NEW r \in Requests, IssueToken(r)
    PROVE  AInv'
<1>1. areq[r].at = "token" /\ areq[r].at \in Registering
  BY DEF IssueToken, Registering
<1>2. PICK u \in Uids : u = areq[r].uid
  BY <1>1, RegistrationFits
<1>3. /\ areq[r] \in RegisterWork /\ AccountFits(r) /\ UserFits(u)
      /\ done[u] \in {"no", "deleted"}
      /\ \A s \in Requests \ {r} : ~(areq[s].at \in Registering /\ areq[s].uid = u)
  BY <1>1, <1>2, RegistrationFits DEF AccountFits
<1>4. /\ token' = IF areq[r].confirmed THEN token
                  ELSE [token EXCEPT ![u] = @ \cup {"sent"}]
      /\ done' = [done EXCEPT ![u] = IF @ = "deleted" THEN @
                                     ELSE IF areq[r].firm THEN "firm" ELSE "bare"]
      /\ UNCHANGED <<overlap, faults, identity, user, company, linked, early, amoves>>
  BY <1>2 DEF IssueToken
<1>5. Slots(r) /\ areq'[r].at = "idle"
  BY Ended DEF IssueToken
<1>6. About(r, u) /\ "idle" \notin Registering \cup Deleting \cup Touching
  BY <1>2, <1>5 DEF About, Unbound, Registering, Deleting, Touching
<1>7. StoresTyped' /\ Elsewhere(u)
  BY <1>4 DEF AInv, StoresTyped, Elsewhere
<1>8. /\ done[u] = "deleted" => done'[u] = "deleted"
      /\ done[u] = "no" => done'[u] = IF areq[r].firm THEN "firm" ELSE "bare"
      /\ "consumed" \in token'[u] => "consumed" \in token[u]
  BY <1>4 DEF AInv, StoresTyped
<1>9. Whole(u)'
  BY <1>1, <1>2, <1>3, <1>4, <1>8 DEF AccountFits, Knows, Whole
<1>10. done'[u] = "deleted" => ~identity'[u].there
  BY <1>3, <1>4, <1>8 DEF UserFits
<1>11. ~faults => Owned(u)'
  BY <1>3, <1>8 DEF Owned
<1>12. ~faults => Confirmed(u)'
  <2>1. On(u, {"company", "link", "token"})
    BY <1>1, <1>2 DEF On
  <2>2. /\ On(u, {"verify"}) => On(u, {"verify"})'
        /\ On(u, {"tell Firebase"}) => On(u, {"tell Firebase"})'
    BY <1>1, <1>5 DEF On, Slots
  <2>. QED  BY <1>3, <1>4, <1>8, <2>1, <2>2 DEF UserFits, Confirmed
<1>13. ~faults /\ ~overlap => done'[u] # "deleted"
  BY <1>1, <1>2, <1>3, <1>8 DEF AInv, AccountAlone
<1>14. UserFits(u)'
  BY <1>4, <1>9, <1>10, <1>11, <1>12, <1>13 DEF UserFits, Erased
<1>. QED  BY <1>1, <1>3, <1>4, <1>5, <1>6, <1>7, <1>8, <1>14, Local

LEMMA Creates ==
    ASSUME AInv, NEW r \in Requests, CreateIdentity(r)
    PROVE  AInv'
<1>1. /\ areq[r].at = "identity" /\ areq[r] \in RegisterWork
      /\ areq[r].at \notin Registering /\ areq[r].at \in Unbound
      /\ areq[r].at # "idle" /\ areq[r] # Idle
      /\ UNCHANGED <<overlap, faults, done, early, amoves>>
      /\ UNCHANGED <<user, company, linked, token>>
  BY AccountShapes, IdleAccount
     DEF CreateIdentity, AInv, RegisterSteps, kept, Registering, Unbound
<1>2. CASE Ends(areq, r) /\ UNCHANGED identity
  <2>1. Slots(r) /\ areq'[r].at = "idle"
    BY <1>2, Ended
  <2>2. /\ About(r, 0)
        /\ "idle" \in Unbound
        /\ "idle" \notin Deleting \cup Touching \cup Registering \cup Confirming
    BY <1>1, <2>1 DEF About, Unbound, Deleting, Touching, Registering, Confirming
  <2>3. UNCHANGED <<overlap, faults, stores, done, early>> /\ amoves' \in 0 .. AccountMoves
    BY <1>1, <1>2 DEF stores, AInv, StoresTyped
  <2>. QED  BY <1>1, <2>1, <2>2, <2>3, Quiet
<1>3. ASSUME NEW u \in Uids, NewUid(u),
             identity' = [identity EXCEPT ![u] = Entry(areq[r])],
             Goes(areq, r, [areq[r] EXCEPT !.at = "user", !.uid = u])
      PROVE  AInv'
  <2>1. [areq[r] EXCEPT !.at = "user", !.uid = u] \in AccountRequests
    BY <1>1 DEF RegisterWork, RegisterSteps, AccountRequests
  <2>2. /\ Slots(r) /\ areq'[r].at = "user" /\ areq'[r].uid = u
        /\ areq'[r].email = areq[r].email
    <3>1. areq'[r] = [areq[r] EXCEPT !.at = "user", !.uid = u]
      BY <1>3 DEF AInv, Goes
    <3>2. Slots(r)
      BY <1>3, <2>1 DEF AInv, Goes, Slots
    <3>. QED  BY <1>1, <3>1, <3>2 DEF RegisterWork
  <2>3. About(r, u) /\ "user" \in Registering /\ "user" \notin Deleting \cup Touching
    BY <1>1, <2>2 DEF About, Registering, Deleting, Touching
  <2>4. StoresTyped' /\ Elsewhere(u) /\ identity'[u].there
        /\ identity'[u].email = areq[r].email
    BY <1>1, <1>3, EntryTyped DEF AInv, StoresTyped, Elsewhere
  <2>5. /\ \A s \in Requests \ {r} : areq[s].at # "idle" => areq[s].uid # u
        /\ ~user[u].there /\ done[u] = "no" /\ company[u] = "none" /\ token[u] = {}
    BY <1>3, IdleAccount DEF NewUid
  <2>6. ~On(u, Confirming)'
    BY <2>2, <2>3, <2>5 DEF On, Slots, Confirming
  <2>7. Knows(areq[r])'
    BY <1>1, <2>2, <2>4, <2>5, <2>6 DEF Knows
  <2>8. On(u, Registering)'
    BY <2>2, <2>3 DEF On, Slots
  <2>9. UserFits(u)'
    BY <1>1, <2>5, <2>8 DEF UserFits, Whole, Owned, Confirmed, Erased
  <2>10. \A s \in Requests \ {r} : ~(areq[s].at \in Registering /\ areq[s].uid = u)
    BY <2>5 DEF Registering
  <2>. QED  BY <1>1, <2>2, <2>3, <2>4, <2>5, <2>7, <2>9, <2>10, Local
<1>. QED  BY <1>2, <1>3 DEF CreateIdentity

LEMMA InitAInv == AccountsInit => AInv
<1> SUFFICES ASSUME AccountsInit PROVE AInv
  OBVIOUS
<1>1. StoresTyped /\ areq \in [Requests -> AccountRequests]
  BY AccountMovesAssumption, IdleAccount
     DEF AccountsInit, StoresTyped, Entries, Companies
<1>2. \A r \in Requests : areq[r].at = "idle"
  BY IdleAccount DEF AccountsInit
<1>3. \A r \in Requests : AccountFits(r)
  BY <1>2 DEF AccountFits, Deleting, Registering
<1>4. \A u \in Uids : /\ done[u] = "no" /\ ~identity[u].there /\ ~user[u].there
                      /\ company[u] = "none" /\ token[u] = {}
  BY DEF AccountsInit, NoEntry
<1>5. \A u \in Uids : UserFits(u)
  BY <1>4 DEF UserFits, Whole, Owned, Confirmed, Erased
<1>6. AccountAlone
  BY <1>2 DEF AccountAlone, Registering, Touching
<1>. QED  BY <1>1, <1>3, <1>5, <1>6 DEF AInv

(* What a registration knows survives a step of another request: tokens    *)
(* matter to it only while the user is neither there nor being confirmed.  *)
LEMMA StillKnows ==
    ASSUME AInv, NEW r \in Requests, NEW s \in Requests \ {r}, Slots(r),
           NEW u, areq[s].uid = u, areq[s].at \in Registering,
           areq'[r].at \notin Confirming \/ On(u, Confirming),
           Knows(areq[s]),
           identity'[u].there = identity[u].there,
           identity'[u].email = identity[u].email,
           user[u].there => user'[u].there /\ user'[u].email = user[u].email,
           company'[u] = company[u] \/ company'[u] = "deleted"
              \/ company[u] = "none",
           u \in linked => u \in linked',
           token'[u] = token[u] \/ On(u, Confirming) \/ user[u].there
    PROVE  Knows(areq[s])'
<1>1. areq'[s] = areq[s]
  BY DEF Slots
<1>2. On(u, Confirming)' => On(u, Confirming)
  BY DEF On, Slots
<1>. QED  BY <1>1, <1>2 DEF Knows

(* What becomes of Owned and Confirmed when a request that does not make   *)
(* the user alters it.                                                     *)
LEMMA StillOwned ==
    ASSUME AInv, NEW r \in Requests, Slots(r), NEW u \in Uids, ~faults,
           areq[r].at \notin Registering, done'[u] = done[u],
           identity'[u].there = identity[u].there,
           company'[u] = "registered" => company[u] = "registered",
           user'[u].there => user[u].there \/ u \in early',
           u \in early => u \in early'
    PROVE  Owned(u)'
<1>1. ASSUME NEW steps, steps \subseteq Registering
      PROVE  On(u, steps) => On(u, steps)'
  BY <1>1 DEF On, Slots
<1>2. /\ Registering \subseteq Registering
      /\ {"link", "token", "undo company"} \subseteq Registering
      /\ {"company", "link", "token", "undo company", "undo user"} \subseteq Registering
  BY DEF Registering
<1>3. Owned(u)
  BY DEF AInv, UserFits
<1>. QED  BY <1>1, <1>2, <1>3 DEF Owned

LEMMA StillConfirmed ==
    ASSUME AInv, NEW r \in Requests, Slots(r), NEW u \in Uids, ~faults,
           done'[u] = done[u],
           areq'[r].at \notin {"company", "link", "token"},
           areq[r].at \notin {"verify", "tell Firebase"},
           "consumed" \in token'[u] => "consumed" \in token[u],
           user[u].there => user'[u].verified = user[u].verified,
           identity'[u].verified = identity[u].verified
    PROVE  Confirmed(u)'
<1>1. On(u, {"company", "link", "token"})' => On(u, {"company", "link", "token"})
  BY DEF On, Slots
<1>2. /\ On(u, {"verify"}) => On(u, {"verify"})'
      /\ On(u, {"tell Firebase"}) => On(u, {"tell Firebase"})'
  BY DEF On, Slots
<1>3. Confirmed(u)
  BY DEF AInv, UserFits
<1>4. /\ done[u] \in {"bare", "firm"} => user[u].there
      /\ done[u] = "no" /\ On(u, {"company", "link", "token"}) => user[u].there
  <2>1. {"company", "link", "token"} \subseteq Registering
    BY DEF Registering
  <2>. QED  BY <2>1 DEF AInv, UserFits, Whole, On, AccountFits, Knows
<1>. QED  BY <1>1, <1>2, <1>3, <1>4 DEF Confirmed

(* A user that is whole, or about to be, is there on both sides.           *)
LEMMA There ==
    ASSUME AInv, NEW u \in Uids,
           \/ done[u] \in {"bare", "firm"}
           \/ done[u] = "no" /\ On(u, {"company", "link", "token"})
    PROVE  user[u].there /\ identity[u].there
<1>1. {"company", "link", "token"} \subseteq Registering
  BY DEF Registering
<1>. QED  BY <1>1 DEF AInv, UserFits, Whole, On, AccountFits, Knows

LEMMA WholeStill ==
    ASSUME AInv, NEW u \in Uids, done'[u] = done[u],
           identity'[u].there = identity[u].there,
           identity'[u].email = identity[u].email,
           user[u].there => user'[u].there /\ user'[u].email = user[u].email,
           company'[u] = company[u] \/ company'[u] = "deleted"
              \/ company[u] = "none",
           u \in linked => u \in linked'
    PROVE  Whole(u)'
BY DEF AInv, UserFits, Whole

LEMMA StepsApart ==
    /\ "upsert" \notin Registering /\ "found" \notin Registering
    /\ "deactivate" \notin Registering /\ "tell Firebase" \notin Registering
    /\ Confirming \cap Registering = {} /\ "idle" \notin Registering
    /\ "idle" \notin Confirming \cup Touching \cup Deleting
    /\ Touching \cap Deleting = {}
BY DEF Registering, Confirming, Touching, Deleting

LEMMA Upserts ==
    ASSUME AInv, NEW r \in Requests, UpsertUser(r)
    PROVE  AInv'
<1>1. /\ areq[r].at = "upsert" /\ areq[r].at \notin Unbound
      /\ areq[r] \in LoginWork
      /\ Ends(areq, r)
      /\ UNCHANGED <<overlap, faults, identity, company, linked, token, done, amoves>>
  BY AccountShapes DEF UpsertUser, Unbound, AInv
<1>2. PICK u \in Uids : u = areq[r].uid
  BY <1>1, BoundTo
<1>3. Slots(r) /\ areq'[r].at = "idle" /\ About(r, u)
  BY <1>1, <1>2, Ended DEF About, Unbound
<1>4. CASE user[u].there \/ Holders(user, areq[r].claims.email) # {}
  <2>1. UNCHANGED <<overlap, faults, stores, done, early>> /\ amoves' \in 0 .. AccountMoves
    BY <1>1, <1>2, <1>4 DEF UpsertUser, stores, AInv, StoresTyped
  <2>. QED  BY <1>1, <1>3, <2>1, StepsApart, Quiet
<1>5. CASE ~(user[u].there \/ Holders(user, areq[r].claims.email) # {})
  <2>1. user' = [user EXCEPT ![u] = areq[r].claims] /\ early' = early \cup {u}
    BY <1>2, <1>5 DEF UpsertUser
  <2>2. StoresTyped' /\ Elsewhere(u)
    BY <1>1, <2>1 DEF AInv, StoresTyped, Elsewhere, LoginWork
  <2>3. Whole(u)'
    BY <1>1, <1>5, WholeStill
  <2>4. ~faults => Owned(u)' /\ Confirmed(u)'
    BY <1>1, <1>3, <1>5, <2>1, StepsApart, StillOwned, StillConfirmed
  <2>5. ASSUME NEW s \in Requests \ {r}, areq[s].at \in Registering,
               areq[s].uid = u, Knows(areq[s])
        PROVE  Knows(areq[s])'
    BY <1>1, <1>3, <1>5, <2>1, <2>5, StepsApart, StillKnows
  <2>6. areq[r].at \in Touching /\ areq[r].at # "idle"
    BY <1>1 DEF Touching
  <2>. QED  BY <1>1, <1>2, <1>3, <2>2, <2>3, <2>4, <2>5, <2>6, StepsApart, AltersUser
<1>. QED  BY <1>4, <1>5

LEMMA Founds ==
    ASSUME AInv, NEW r \in Requests, FoundCompany(r) \/ Deactivate(r)
    PROVE  AInv'
<1>1. /\ areq[r].at \in {"found", "deactivate"} /\ areq[r].at \notin Unbound
      /\ areq[r].at \notin Touching /\ areq[r].at # "idle"
      /\ areq[r].at \notin Registering /\ Ends(areq, r)
      /\ UNCHANGED <<overlap, faults, done, early, amoves, identity, user, linked, token>>
  BY DEF FoundCompany, Deactivate, kept, Unbound, Touching, Registering
<1>2. PICK u \in Uids : u = areq[r].uid
  BY <1>1, BoundTo
<1>3. Slots(r) /\ areq'[r].at = "idle" /\ About(r, u)
  BY <1>1, <1>2, Ended DEF About, Unbound
<1>4. CASE UNCHANGED company
  <2>1. UNCHANGED <<overlap, faults, stores, done, early>> /\ amoves' \in 0 .. AccountMoves
    BY <1>1, <1>4 DEF stores, AInv, StoresTyped
  <2>. QED  BY <1>1, <1>3, <2>1, StepsApart, Quiet
<1>5. CASE \/ TaxNew /\ company' = [company EXCEPT ![u] = "founded"]
           \/ company' = [company EXCEPT ![u] = "deleted"]
  <2>1. /\ \/ company'[u] = "founded" /\ company[u] = "none"
           \/ company'[u] = "deleted"
        /\ StoresTyped' /\ Elsewhere(u)
    BY <1>1, <1>5 DEF TaxNew, AInv, StoresTyped, Elsewhere, Companies, Origins
  <2>2. Whole(u)'
    BY <1>1, <2>1, WholeStill
  <2>3. ~faults => Owned(u)' /\ Confirmed(u)'
    BY <1>1, <1>3, <2>1, StillOwned, StillConfirmed
  <2>4. ASSUME NEW s \in Requests \ {r}, areq[s].at \in Registering,
               areq[s].uid = u, Knows(areq[s])
        PROVE  Knows(areq[s])'
    BY <1>1, <1>3, <2>1, <2>4, StepsApart, StillKnows
  <2>. QED  BY <1>1, <1>2, <1>3, <2>1, <2>2, <2>3, <2>4, StepsApart, AltersUser
<1>. QED  BY <1>2, <1>4, <1>5 DEF FoundCompany, Deactivate

LEMMA Consumes ==
    ASSUME AInv, NEW r \in Requests, Consume(r)
    PROVE  AInv'
<1>1. /\ areq[r].at = "consume" /\ areq[r].at \notin Unbound
      /\ areq[r].at \in Touching /\ areq[r].at \in Confirming
      /\ areq[r].at # "idle" /\ areq[r].at \notin Registering
      /\ UNCHANGED <<overlap, faults, done, early, amoves, identity, user, company, linked>>
  BY DEF Consume, kept, Unbound, Touching, Confirming, Registering
<1>2. PICK u \in Uids : u = areq[r].uid
  BY <1>1, BoundTo
<1>3. CASE Ends(areq, r) /\ UNCHANGED token
  <2>1. Slots(r) /\ areq'[r].at = "idle" /\ About(r, u)
    BY <1>1, <1>2, <1>3, Ended DEF About, Unbound
  <2>2. UNCHANGED <<overlap, faults, stores, done, early>> /\ amoves' \in 0 .. AccountMoves
    BY <1>1, <1>3 DEF stores, AInv, StoresTyped
  <2>. QED  BY <1>1, <2>1, <2>2, StepsApart, Quiet
<1>4. ASSUME NEW rest \in {{}, {"sent"}},
             token' = [token EXCEPT ![u] = rest \cup {"consumed"}],
             AccountGoes(r, areq[r], "verify")
      PROVE  AInv'
  <2>1. /\ Slots(r) /\ areq'[r].at = "verify" /\ About(r, u) /\ areq'[r].uid = u
        /\ areq'[r].at \in Touching
    BY <1>1, <1>2, <1>4, GoesOn DEF About, Confirming, Touching
  <2>2. StoresTyped' /\ Elsewhere(u)
    BY <1>1, <1>4 DEF AInv, StoresTyped, Elsewhere
  <2>3. Whole(u)'
    BY <1>1, WholeStill
  <2>4. ~faults => Owned(u)'
    BY <1>1, <2>1, StillOwned
  <2>5. Confirmed(u)'
    BY <2>1 DEF Confirmed, On, Slots
  <2>6. On(u, Confirming)
    BY <1>1, <1>2 DEF On
  <2>7. ASSUME NEW s \in Requests \ {r}, areq[s].at \in Registering,
               areq[s].uid = u, Knows(areq[s])
        PROVE  Knows(areq[s])'
    BY <1>1, <2>1, <2>6, <2>7, StillKnows
  <2>. QED  BY <1>1, <1>2, <2>1, <2>2, <2>3, <2>4, <2>5, <2>7, StepsApart, AltersUser
<1>. QED  BY <1>2, <1>3, <1>4 DEF Consume

LEMMA VerifiedEntry ==
    ASSUME NEW e \in Entries, e.there
    PROVE  /\ [e EXCEPT !.verified = TRUE] \in Entries
           /\ [e EXCEPT !.verified = TRUE].there = e.there
           /\ [e EXCEPT !.verified = TRUE].email = e.email
           /\ [e EXCEPT !.verified = TRUE].verified
<1>1. e \in [there : {TRUE}, email : Emails, verified : BOOLEAN]
  <2>1. ~NoEntry.there
    BY DEF NoEntry
  <2>2. e # NoEntry
    BY <2>1
  <2>. QED  BY <2>2 DEF Entries
<1>2. [e EXCEPT !.verified = TRUE] \in [there : {TRUE}, email : Emails, verified : BOOLEAN]
  BY <1>1
<1>3. /\ [e EXCEPT !.verified = TRUE].there = e.there
      /\ [e EXCEPT !.verified = TRUE].email = e.email
      /\ [e EXCEPT !.verified = TRUE].verified = TRUE
  BY <1>1
<1>. QED  BY <1>2, <1>3 DEF Entries

LEMMA Verifies ==
    ASSUME AInv, NEW r \in Requests, MarkVerified(r)
    PROVE  AInv'
<1>1. /\ areq[r].at = "verify" /\ areq[r].at \notin Unbound
      /\ areq[r].at \in Touching /\ areq[r].at \in Confirming
      /\ areq[r].at # "idle" /\ areq[r].at \notin Registering
      /\ AccountGoes(r, areq[r], "tell Firebase")
      /\ UNCHANGED <<overlap, faults, done, early, amoves>>
      /\ UNCHANGED <<identity, company, linked, token>>
  BY DEF MarkVerified, kept, Unbound, Touching, Confirming, Registering
<1>2. PICK u \in Uids : u = areq[r].uid
  BY <1>1, BoundTo
<1>3. /\ Slots(r) /\ areq'[r].at = "tell Firebase" /\ About(r, u) /\ areq'[r].uid = u
      /\ areq'[r].at \notin Touching
  <2>1. Slots(r) /\ areq'[r].at = "tell Firebase" /\ areq'[r].uid = u
    BY <1>1, <1>2, GoesOn DEF Confirming
  <2>. QED  BY <1>1, <1>2, <2>1 DEF About, Touching
<1>4. /\ StoresTyped' /\ Elsewhere(u)
      /\ user'[u].there = user[u].there
      /\ user[u].there => user'[u].email = user[u].email /\ user'[u].verified
  <2>1. CASE user[u].there
    <3>1. user' = [user EXCEPT ![u] = [user[u] EXCEPT !.verified = TRUE]]
      BY <1>2, <2>1 DEF MarkVerified
    <3>2. user[u] \in Entries
      BY DEF AInv, StoresTyped
    <3>3. /\ user'[u] \in Entries /\ user'[u].there = user[u].there
          /\ user'[u].email = user[u].email /\ user'[u].verified
      BY <2>1, <3>1, <3>2, VerifiedEntry DEF AInv, StoresTyped
    <3>. QED  BY <1>1, <3>1, <3>3 DEF AInv, StoresTyped, Elsewhere
  <2>2. CASE ~user[u].there
    BY <1>1, <1>2, <2>2 DEF MarkVerified, AInv, StoresTyped, Elsewhere
  <2>. QED  BY <2>1, <2>2
<1>5. Whole(u)'
  BY <1>1, <1>4, WholeStill
<1>6. ~faults => Owned(u)'
  BY <1>1, <1>3, <1>4, StillOwned
<1>7. Confirmed(u)'
  <2>1. On(u, {"tell Firebase"})'
    BY <1>3 DEF On, Slots
  <2>2. On(u, {"company", "link", "token"})' => On(u, {"company", "link", "token"})
    BY <1>3 DEF On, Slots
  <2>. QED  BY <1>1, <1>4, <2>1, <2>2, There DEF Confirmed
<1>8. On(u, Confirming)
  BY <1>1, <1>2 DEF On
<1>9. ASSUME NEW s \in Requests \ {r}, areq[s].at \in Registering,
             areq[s].uid = u, Knows(areq[s])
      PROVE  Knows(areq[s])'
  BY <1>1, <1>3, <1>4, <1>8, <1>9, StillKnows
<1>. QED  BY <1>1, <1>2, <1>3, <1>4, <1>5, <1>6, <1>7, <1>9, StepsApart, AltersUser

LEMMA Tells ==
    ASSUME AInv, NEW r \in Requests, TellFirebase(r)
    PROVE  AInv'
<1>1. /\ areq[r].at = "tell Firebase" /\ areq[r].at \notin Unbound
      /\ areq[r].at \notin Touching
      /\ areq[r].at # "idle" /\ areq[r].at \notin Registering
      /\ Ends(areq, r)
      /\ UNCHANGED <<overlap, faults, done, early, amoves>>
      /\ UNCHANGED <<user, company, linked, token>>
  BY DEF TellFirebase, kept, Unbound, Touching, Registering
<1>2. PICK u \in Uids : u = areq[r].uid
  BY <1>1, BoundTo
<1>3. Slots(r) /\ areq'[r].at = "idle" /\ About(r, u)
  BY <1>1, <1>2, Ended DEF About, Unbound
<1>4. /\ StoresTyped' /\ Elsewhere(u)
      /\ identity'[u].there = identity[u].there
      /\ identity'[u].email = identity[u].email
      /\ identity[u].there => identity'[u].verified
  <2>1. CASE identity[u].there
    <3>1. identity' = [identity EXCEPT ![u] = [identity[u] EXCEPT !.verified = TRUE]]
      BY <1>2, <2>1 DEF TellFirebase
    <3>2. identity[u] \in Entries
      BY DEF AInv, StoresTyped
    <3>3. /\ identity'[u] \in Entries /\ identity'[u].there = identity[u].there
          /\ identity'[u].email = identity[u].email /\ identity'[u].verified
      BY <2>1, <3>1, <3>2, VerifiedEntry DEF AInv, StoresTyped
    <3>. QED  BY <1>1, <3>1, <3>3 DEF AInv, StoresTyped, Elsewhere
  <2>2. CASE ~identity[u].there
    BY <1>1, <1>2, <2>2 DEF TellFirebase, AInv, StoresTyped, Elsewhere
  <2>. QED  BY <2>1, <2>2
<1>5. Whole(u)'
  BY <1>1, <1>4, WholeStill
<1>6. ~faults => Owned(u)'
  BY <1>1, <1>3, <1>4, StillOwned
<1>7. ~faults => Confirmed(u)'
  <2>1. On(u, {"verify"}) => On(u, {"verify"})'
    BY <1>1, <1>3 DEF On, Slots
  <2>2. On(u, {"company", "link", "token"})' => On(u, {"company", "link", "token"})
    BY <1>3 DEF On, Slots
  <2>3. ~faults => Confirmed(u)
    BY DEF AInv, UserFits
  <2>. QED  BY <1>1, <1>4, <2>1, <2>2, <2>3, There DEF Confirmed
<1>8. ASSUME NEW s \in Requests \ {r}, areq[s].at \in Registering,
             areq[s].uid = u, Knows(areq[s])
      PROVE  Knows(areq[s])'
  BY <1>1, <1>3, <1>4, <1>8, StepsApart, StillKnows
<1>. QED  BY <1>1, <1>2, <1>3, <1>4, <1>5, <1>6, <1>7, <1>8, StepsApart, AltersUser

LEMMA Resends ==
    ASSUME AInv, NEW r \in Requests, DropTokens(r) \/ SendToken(r)
    PROVE  AInv'
<1>1. /\ areq[r].at \in {"drop tokens", "send token"} /\ areq[r].at \notin Unbound
      /\ areq[r].at \in Touching /\ areq[r].at \in Confirming
      /\ areq[r].at # "idle" /\ areq[r].at \notin Registering
      /\ UNCHANGED <<overlap, faults, done, early, amoves, identity, user, company, linked>>
  BY DEF DropTokens, SendToken, kept, Unbound, Touching, Confirming, Registering
<1>2. PICK u \in Uids : u = areq[r].uid
  BY <1>1, BoundTo
<1>3. /\ Slots(r) /\ areq'[r].at \in {"send token", "idle"} /\ About(r, u)
      /\ areq'[r].at \in Touching \cup {"idle"}
  <2>1. CASE DropTokens(r)
    BY <1>1, <1>2, <2>1, GoesOn DEF DropTokens, About, Confirming, Touching
  <2>2. CASE SendToken(r)
    BY <1>2, <2>2, Ended DEF SendToken, About, Unbound
  <2>. QED  BY <2>1, <2>2
<1>4. /\ StoresTyped' /\ Elsewhere(u)
      /\ "consumed" \in token'[u] => "consumed" \in token[u]
  <2>1. PICK t \in {{}, token[u] \cup {"sent"}} : token' = [token EXCEPT ![u] = t]
    BY <1>2 DEF DropTokens, SendToken, AInv, StoresTyped
  <2>2. t \in SUBSET {"sent", "consumed"} /\ ("consumed" \in t => "consumed" \in token[u])
    BY DEF AInv, StoresTyped
  <2>. QED  BY <1>1, <2>1, <2>2 DEF AInv, StoresTyped, Elsewhere
<1>5. Whole(u)'
  BY <1>1, WholeStill
<1>6. ~faults => Owned(u)' /\ Confirmed(u)'
  BY <1>1, <1>3, <1>4, StillOwned, StillConfirmed
<1>7. On(u, Confirming)
  BY <1>1, <1>2 DEF On
<1>8. ASSUME NEW s \in Requests \ {r}, areq[s].at \in Registering,
             areq[s].uid = u, Knows(areq[s])
      PROVE  Knows(areq[s])'
  BY <1>1, <1>3, <1>7, <1>8, StillKnows
<1>. QED  BY <1>1, <1>2, <1>3, <1>4, <1>5, <1>6, <1>8, StepsApart, AltersUser

LEMMA Started ==
    ASSUME AInv, NEW r \in Requests, StartAccount(r)
    PROVE  MayStart(areq, r) /\ areq[r].at = "idle" /\ amoves' \in 0 .. AccountMoves
<1>1. MayStart(areq, r) /\ areq[r].at = "idle"
  BY IdleAccount DEF StartAccount, MayStart
<1>2. amoves \in 0 .. AccountMoves
  BY DEF AInv, StoresTyped
<1>. QED  BY <1>1, <1>2, AccountMovesAssumption DEF StartAccount

LEMMA BeginsDeleting ==
    ASSUME AInv, NEW r \in Requests, NEW u \in Uids, DeleteUser(r, u)
    PROVE  AInv'
<1>1. /\ MayStart(areq, r) /\ areq[r].at = "idle"
      /\ identity' = [identity EXCEPT ![u] = NoEntry]
      /\ done' = [done EXCEPT ![u] = "deleted"] /\ amoves' \in 0 .. AccountMoves
      /\ Goes(areq, r, [at |-> "delete profile", uid |-> u])
      /\ UNCHANGED <<overlap, faults, user, company, linked, token, early>>
  BY Started DEF DeleteUser
<1>2. [at |-> "delete profile", uid |-> u] \in AccountRequests
  BY DEF AccountRequests, UserWork
<1>3. Slots(r) /\ areq'[r].at = "delete profile" /\ areq'[r].uid = u
  <2>1. PICK q \in AccountRequests : q = [at |-> "delete profile", uid |-> u]
    BY <1>2
  <2>2. q.at = "delete profile" /\ q.uid = u
    BY <2>1
  <2>3. areq'[r] = q /\ Slots(r)
    BY <1>1, <2>1, AccountMoved
  <2>. QED  BY <2>2, <2>3
<1>4. /\ About(r, u) /\ areq'[r].at \notin Registering \cup Touching
  BY <1>1, <1>3 DEF About, Unbound, Registering, Touching
<1>5. NoEntry \in Entries /\ ~NoEntry.there
  BY DEF NoEntry, Entries
<1>6. /\ StoresTyped' /\ Elsewhere(u)
      /\ done'[u] = "deleted" /\ ~identity'[u].there
  BY <1>1, <1>5 DEF AInv, StoresTyped, Elsewhere
<1>7. Erased(u)'
  BY <1>3 DEF Erased, On, Slots
<1>8. UserFits(u)'
  BY <1>6, <1>7 DEF UserFits, Whole, Owned, Confirmed
<1>. QED  BY <1>1, <1>3, <1>4, <1>6, <1>8, Local

(* When requests do not overlap, the one that deletes is alone.            *)
LEMMA DeletedSoFar ==
    ASSUME AInv, NEW r \in Requests, NEW u \in Uids, areq[r].at \in Deleting,
           areq[r].uid = u, ~faults, ~overlap
    PROVE  /\ areq[r].at \in {"delete tokens", "delete user"} => u \notin linked
           /\ areq[r].at = "delete user" => token[u] = {}
<1>1. done[u] = "deleted" /\ Erased(u)
  BY DEF AInv, AccountFits, UserFits
<1>2. areq[r].at # "idle"
  BY DEF Deleting
<1>3. \A s \in Requests : areq[s].at # "idle" => s = r
  BY <1>2, OnlyAccount
<1>. QED  BY <1>1, <1>3 DEF Erased, On

LEMMA GoesOnDeleting ==
    ASSUME AInv, NEW r \in Requests,
           DeleteProfile(r) \/ DeleteTokens(r) \/ RemoveUser(r)
    PROVE  AInv'
<1>1. /\ areq[r].at \in Deleting /\ areq[r].at \notin Unbound
      /\ UNCHANGED <<overlap, faults, done, early, amoves, identity, company>>
  BY DEF DeleteProfile, DeleteTokens, RemoveUser, kept, Deleting, Unbound
<1>2. PICK u \in Uids : u = areq[r].uid
  BY <1>1, BoundTo
<1>3. CASE DeleteProfile(r)
  <2>1. /\ linked' = linked \ {u} /\ AccountGoes(r, areq[r], "delete tokens")
        /\ UNCHANGED <<user, token>>
    BY <1>2, <1>3 DEF DeleteProfile
  <2>2. Slots(r) /\ areq'[r].at = "delete tokens" /\ areq'[r].uid = u
    BY <1>1, <1>2, <2>1, GoesOn DEF Deleting
  <2>3. About(r, u) /\ areq'[r].at \in Deleting
    BY <1>2, <2>2 DEF About, Deleting
  <2>4. StoresTyped' /\ Elsewhere(u)
    BY <1>1, <2>1 DEF AInv, StoresTyped, Elsewhere
  <2>5. Erased(u)'
    BY <2>1, <2>2 DEF Erased, On, Slots
  <2>. QED  BY <1>1, <1>2, <2>2, <2>3, <2>4, <2>5, Deletes
<1>4. CASE DeleteTokens(r)
  <2>1. /\ token' = [token EXCEPT ![u] = {}] /\ AccountGoes(r, areq[r], "delete user")
        /\ areq[r].at = "delete tokens" /\ UNCHANGED <<user, linked>>
    BY <1>2, <1>4 DEF DeleteTokens
  <2>2. Slots(r) /\ areq'[r].at = "delete user" /\ areq'[r].uid = u
    BY <1>1, <1>2, <2>1, GoesOn DEF Deleting
  <2>3. About(r, u) /\ areq'[r].at \in Deleting
    BY <1>2, <2>2 DEF About, Deleting
  <2>4. StoresTyped' /\ Elsewhere(u) /\ token'[u] = {}
    BY <1>1, <2>1 DEF AInv, StoresTyped, Elsewhere
  <2>5. ~faults /\ ~overlap => Erased(u)'
    BY <1>1, <1>2, <2>1, <2>2, <2>4, DeletedSoFar DEF Erased, On, Slots
  <2>. QED  BY <1>1, <1>2, <2>2, <2>3, <2>4, <2>5, Deletes
<1>5. CASE RemoveUser(r)
  <2>1. /\ user' = [user EXCEPT ![u] = NoEntry] /\ Ends(areq, r)
        /\ areq[r].at = "delete user" /\ UNCHANGED <<token, linked>>
    BY <1>2, <1>5 DEF RemoveUser
  <2>2. Slots(r) /\ areq'[r].at = "idle"
    BY <2>1, Ended
  <2>3. About(r, u)
    BY <1>2, <2>2 DEF About, Unbound
  <2>4. StoresTyped' /\ Elsewhere(u) /\ ~user'[u].there
    <3>1. NoEntry \in Entries /\ ~NoEntry.there
      BY DEF NoEntry, Entries
    <3>. QED  BY <1>1, <2>1, <3>1 DEF AInv, StoresTyped, Elsewhere
  <2>5. ~faults /\ ~overlap => Erased(u)'
    BY <1>1, <1>2, <2>1, <2>4, DeletedSoFar DEF Erased
  <2>. QED  BY <1>1, <1>2, <2>2, <2>3, <2>4, <2>5, Deletes
<1>. QED  BY <1>3, <1>4, <1>5

(* A request starts about user u, and stores nothing yet.                  *)
LEMMA Begins ==
    ASSUME AInv, NEW r \in Requests, NEW u \in Uids,
           NEW q \in UserWork \cup LoginWork \cup CompanyWork,
           q.uid = u, q.at \in {"upsert", "consume", "drop tokens", "found", "deactivate"},
           StartAccount(r), Goes(areq, r, q),
           UNCHANGED <<overlap, faults, stores, done, early>>,
           q.at = "upsert" => identity[u].there,
           q.at = "consume" => token[u] # {},
           q.at = "drop tokens" => user[u].there
    PROVE  AInv'
<1>1. MayStart(areq, r) /\ areq[r].at = "idle" /\ amoves' \in 0 .. AccountMoves
  BY Started
<1>2. areq'[r] = q /\ Slots(r)
  BY AccountMoved DEF AccountRequests
<1>3. /\ About(r, u) /\ areq[r].at \in Unbound
      /\ areq'[r].at \notin Deleting \cup Registering
  BY <1>1, <1>2 DEF About, Unbound, Deleting, Registering
<1>4. areq'[r].at \in Confirming => token[u] # {} \/ user[u].there
  BY <1>2 DEF Confirming
<1>5. ~overlap /\ ~faults /\ areq'[r].at \in Touching => done[u] # "deleted"
  <2> SUFFICES ASSUME ~overlap, ~faults, areq'[r].at \in Touching, done[u] = "deleted"
               PROVE  FALSE
    OBVIOUS
  <2>1. ~identity[u].there /\ Erased(u)
    BY DEF AInv, UserFits
  <2>2. \A s \in Requests : areq[s].at = "idle"
    BY <1>1, OnlyAccount
  <2>3. token[u] = {} /\ ~user[u].there
    BY <2>1, <2>2 DEF Erased, On
  <2>. QED  BY <1>2, <2>1, <2>3 DEF Touching
<1>. QED  BY <1>1, <1>2, <1>3, <1>4, <1>5, Quiet

LEMMA Starts ==
    ASSUME AInv, NEW r \in Requests, NEW u \in Uids,
           \/ Login(r, u) \/ FindToken(r, u) \/ Resend(r, u)
           \/ AskCompany(r, u) \/ DropCompany(r, u)
    PROVE  AInv'
<1>1. CASE Login(r, u)
  <2>1. [at |-> "upsert", uid |-> u, claims |-> identity[u]] \in LoginWork
    BY DEF LoginWork, AInv, StoresTyped
  <2>. QED  BY <1>1, <2>1, Begins DEF Login
<1>2. CASE FindToken(r, u)
  <2>1. [at |-> "consume", uid |-> u] \in UserWork
    BY DEF UserWork
  <2>. QED  BY <1>2, <2>1, Begins DEF FindToken
<1>3. CASE Resend(r, u)
  <2>1. [at |-> "drop tokens", uid |-> u] \in UserWork
    BY DEF UserWork
  <2>. QED  BY <1>3, <2>1, Begins DEF Resend
<1>4. CASE AskCompany(r, u)
  <2>1. [at |-> "found", uid |-> u] \in UserWork
    BY DEF UserWork
  <2>. QED  BY <1>4, <2>1, Begins DEF AskCompany
<1>5. CASE DropCompany(r, u)
  <2>1. [at |-> "deactivate", uid |-> u, made |-> company[u]] \in CompanyWork
    BY <1>5 DEF DropCompany, CompanyWork
  <2>. QED  BY <1>5, <2>1, Begins DEF DropCompany
<1>. QED  BY <1>1, <1>2, <1>3, <1>4, <1>5

LEMMA BeginsRegistering ==
    ASSUME AInv, NEW r \in Requests, NEW e \in Emails,
           Register(r, e) \/ RegisterByAdmin(r, e)
    PROVE  AInv'
<1>1. PICK firm \in BOOLEAN, confirmed \in BOOLEAN : CheckEmail(r, e, firm, confirmed)
  BY DEF Register, RegisterByAdmin
<1>2. PICK q : /\ Goes(areq, r, q) /\ q \in RegisterWork
               /\ q.at \in {"check tax", "identity"}
  <2> DEFINE q == [at |-> IF firm THEN "check tax" ELSE "identity", email |-> e,
                   firm |-> firm, confirmed |-> confirmed, uid |-> "none yet"]
  <2>1. q \in RegisterWork /\ q.at \in {"check tax", "identity"}
    BY DEF RegisterWork, RegisterSteps
  <2>. QED  BY <1>1, <2>1 DEF CheckEmail
<1>3. /\ MayStart(areq, r) /\ areq[r].at = "idle" /\ amoves' \in 0 .. AccountMoves
      /\ UNCHANGED <<overlap, faults, stores, done, early>>
  BY <1>1, Started DEF CheckEmail
<1>4. areq'[r] = q /\ Slots(r)
  BY <1>2, AccountMoved DEF AccountRequests
<1>5. /\ About(r, 0) /\ areq'[r].at \in Unbound
      /\ areq'[r].at \notin Deleting \cup Registering \cup Confirming \cup Touching
  BY <1>2, <1>3, <1>4
     DEF About, Unbound, Deleting, Registering, Confirming, Touching
<1>6. areq[r].at \in Unbound
  BY <1>3 DEF Unbound
<1>. QED  BY <1>3, <1>4, <1>5, <1>6, Quiet

LEMMA ChecksTax ==
    ASSUME AInv, NEW r \in Requests, CheckTax(r)
    PROVE  AInv'
<1>1. /\ areq[r].at = "check tax" /\ areq[r].at \in Unbound
      /\ areq[r].at # "idle" /\ areq[r].at \in RegisterSteps
      /\ UNCHANGED <<overlap, faults, stores, done, early>>
      /\ amoves' \in 0 .. AccountMoves
  BY DEF CheckTax, kept, Unbound, RegisterSteps, AInv, StoresTyped
<1>2. Slots(r) /\ areq'[r].at \in {"identity", "idle"}
  BY <1>1, GoesOn, Ended DEF CheckTax, RegisterSteps
<1>3. /\ About(r, 0) /\ areq'[r].at \in Unbound
      /\ areq'[r].at \notin Deleting \cup Registering \cup Confirming \cup Touching
  BY <1>1, <1>2 DEF About, Unbound, Deleting, Registering, Confirming, Touching
<1>. QED  BY <1>1, <1>2, <1>3, Quiet

(* An await that raises leaves all that is stored as it is.                *)
LEMMA Raising ==
    ASSUME AInv, NEW r \in Requests, Fails(r) \/ Dies(r)
    PROVE  AInv'
<1>1. /\ UNCHANGED <<overlap, faults, stores, done, early>>
      /\ amoves' \in 0 .. AccountMoves /\ faults
  BY DEF Fails, Dies, Raises, kept, AInv, StoresTyped
<1>2. CASE Fails(r)
  <2>1. PICK at \in {"undo company", "undo user", "undo identity"} :
           /\ AccountGoes(r, areq[r], at)
           /\ areq[r].at \in {"user", "company", "link", "undo company"}
    <3>1. DOMAIN Recovery = {"user", "company", "link"}
      BY DEF Recovery
    <3>2. /\ Recovery["user"] = "undo identity" /\ Recovery["company"] = "undo user"
          /\ Recovery["link"] = "undo company"
      BY DEF Recovery
    <3>. QED  BY <1>2, <3>1, <3>2 DEF Fails, AccountGoes, Goes
  <2>2. at \in Registering /\ areq[r].at \in Registering /\ areq[r].at # "idle"
    BY <2>1 DEF Registering
  <2>3. PICK u \in Uids : u = areq[r].uid
    BY <2>2, RegistrationFits
  <2>4. /\ Slots(r) /\ About(r, u) /\ areq'[r].at = at
        /\ areq'[r].email = areq[r].email
    BY <2>1, <2>2, <2>3, Registration
  <2>5. areq'[r].at \notin Deleting \cup Confirming \cup Touching
    BY <2>4 DEF Deleting, Confirming, Touching
  <2>. QED  BY <1>1, <2>1, <2>2, <2>4, <2>5, Quiet
<1>3. CASE Dies(r)
  <2>1. Slots(r) /\ areq'[r].at = "idle" /\ "idle" \in Unbound /\ areq[r].at # "idle"
    BY <1>3, Ended, AccountShapes DEF Dies, Raises, Unbound, AInv
  <2>2. About(r, areq[r].uid)
    BY <2>1 DEF About
  <2>3. PICK u : u = areq[r].uid
    OBVIOUS
  <2>. QED  BY <1>1, <2>1, <2>2, <2>3, StepsApart, Quiet
<1>. QED  BY <1>2, <1>3

LEMMA StepAInv == AInv /\ [AccountsNext]_avars => AInv'
<1> SUFFICES ASSUME AInv, [AccountsNext]_avars PROVE AInv'
  OBVIOUS
<1>1. CASE UNCHANGED avars
  <2>1. \A u, steps : On(u, steps)' <=> On(u, steps)
    BY <1>1 DEF avars, On
  <2>2. StoresTyped' /\ areq' \in [Requests -> AccountRequests]
    BY <1>1 DEF avars, AInv, StoresTyped
  <2>3. \A r \in Requests : AccountFits(r)'
    BY <1>1, <2>1 DEF avars, AInv, AccountFits, Knows
  <2>4. \A u \in Uids : UserFits(u)'
    BY <1>1, <2>1 DEF avars, AInv, UserFits, Whole, Owned, Confirmed, Erased
  <2>5. AccountAlone'
    BY <1>1 DEF avars, AInv, AccountAlone
  <2>. QED  BY <2>2, <2>3, <2>4, <2>5 DEF AInv
<1>2. ASSUME NEW r \in Requests, AccountStep(r) PROVE AInv'
  BY <1>2, BeginsRegistering, ChecksTax, Creates, InsertsUser, Incorporates, Links,
     Issues, Dissolves, TakesBack, Withdraws, Starts, BeginsDeleting, Upserts,
     Founds, GoesOnDeleting, Consumes, Verifies, Tells, Resends, Raising
  DEF AccountStep
<1>. QED  BY <1>1, <1>2 DEF AccountsNext

(* The inductive invariant tells what the properties say.                  *)
LEMMA AInvTells == AInv => TypeOKAccounts /\ AllOrNothing
<1> SUFFICES ASSUME AInv PROVE TypeOKAccounts /\ AllOrNothing
  OBVIOUS
<1>1. TypeOKAccounts
  BY DEF AInv, StoresTyped, TypeOKAccounts
<1>2. ASSUME AllIdle(areq), NEW u \in Uids, NEW steps, "idle" \notin steps
      PROVE  ~On(u, steps)
  BY <1>2, IdleAccount DEF AllIdle, On
<1>3. AllIdle(areq) =>
        \A u \in Uids :
           /\ ~On(u, Registering) /\ ~On(u, {"link", "token", "undo company"})
           /\ ~On(u, {"company", "link", "token", "undo company", "undo user"})
           /\ ~On(u, {"verify"}) /\ ~On(u, {"tell Firebase"})
           /\ ~On(u, {"delete profile"}) /\ ~On(u, {"delete tokens"})
           /\ ~On(u, {"delete user"})
  BY <1>2, StepsApart
<1>4. DoneIsWhole
  BY <1>3 DEF DoneIsWhole, AInv, UserFits, Whole, Confirmed
<1>5. RollbackClean
  BY <1>3 DEF RollbackClean, AInv, UserFits, Owned
<1>6. DeletedIsGone
  BY <1>3 DEF DeletedIsGone, AInv, UserFits, Erased
<1>. QED  BY <1>1, <1>4, <1>5, <1>6 DEF AllOrNothing

-----------------------------------------------------------------------------
(* Theorems                                                                *)

(* What a registration or a deletion knows of its user, and what a user    *)
(* that is half made or half deleted is owed by a request, hold throughout *)
(* (auth/service.py, admin/service.py, companies/service.py).              *)
THEOREM AccountsInvariance == AccountsSpec => []AInv
BY InitAInv, StepAInv, PTL DEF AccountsSpec

(* The stores, the history and the requests keep their types.              *)
THEOREM AccountsTypeCorrect == AccountsSpec => []TypeOKAccounts
<1>1. AInv => TypeOKAccounts
  BY AInvTells
<1>. QED  BY AccountsInvariance, <1>1, PTL

(* Registering and deleting are all or nothing: for any number of ids,     *)
(* addresses and requests, whichever way they interleave, what was answered*)
(* with success is whole, what was refused has left nothing, and what was  *)
(* deleted is gone (_create_account, login_with_id_token, verify_account,  *)
(* delete_user and the companies' create and delete).                      *)
THEOREM AccountsAllOrNothing == AccountsSpec => []AllOrNothing
<1>1. AInv => AllOrNothing
  BY AInvTells
<1>. QED  BY AccountsInvariance, <1>1, PTL

-----------------------------------------------------------------------------
(* Visual signatures                                                       *)

Fits(q) ==
    /\ q.at = "insert" =>
         /\ q.doc.key \in DOMAIN files
         /\ \A s \in stamps : s.key # q.doc.key
    /\ q.at \in {"tell creation", "load", "tell use", "tell failure"} =>
         q.doc \in stamps
    /\ q.at = "tell creation" => ~InTrail(q.doc.key, "created")
    /\ q.at = "tell failure" => files[q.doc.key] = "altered"

AllFit == \A r \in Requests : Fits(sreq[r])

(* Two requests never bring the same key.                                  *)
Apart ==
    \A r, s \in Requests :
        /\ sreq[r].at = sreq[s].at
        /\ sreq[r].at \in {"insert", "tell creation"}
        /\ sreq[r].doc.key = sreq[s].doc.key
        => r = s

Damage ==
    \A i \in DOMAIN trail :
        trail[i].what = "integrity_failed" => files[trail[i].key] = "altered"

(* A request is about to put that into the trail.                          *)
Due(key, at) == \E r \in Requests : sreq[r].at = at /\ sreq[r].doc.key = key

Owed ==
    ~faults =>
        /\ \A s \in stamps :
             InTrail(s.key, "created") \/ Due(s.key, "tell creation")
        /\ \A key \in met :
             InTrail(key, "integrity_failed") \/ Due(key, "tell failure")

(* What a request knows when there is no other.                            *)
Undisturbed(q) ==
    /\ q.at = "tell use" => ~InTrail(q.doc.key, "integrity_failed")
    /\ ~faults /\ q.at = "tell creation" =>
         \A i \in DOMAIN trail : trail[i].key # q.doc.key

Ordered ==
    \A i, j \in DOMAIN trail :
        i < j /\ trail[i].key = trail[j].key =>
            /\ trail[i].what = "integrity_failed"
                 => trail[j].what # "used_in_agreement"
            /\ ~faults => trail[j].what # "created"

Alone ==
    ~overlap =>
        /\ \A r, s \in Requests :
             sreq[r].at # "idle" /\ sreq[s].at # "idle" => r = s
        /\ \A r \in Requests : Undisturbed(sreq[r])
        /\ Ordered

(* What the trail holds, whatever overlaps or raises.                      *)
Told ==
    /\ \A i \in DOMAIN trail : \E s \in stamps : s.key = trail[i].key
    /\ \A i, j \in DOMAIN trail :
         trail[i] = trail[j] /\ trail[i].what = "created" => i = j

SInv ==
    /\ TypeOKStamps /\ AllFit /\ Apart
    /\ StampsDiffer /\ ImagesStored
    /\ Told /\ Damage /\ Owed /\ Alone

-----------------------------------------------------------------------------
(* Lemmas                                                                  *)

(* What stays when nothing that it is about changes.                       *)
LEMMA SameApart == Apart /\ sreq' = sreq => Apart'
BY DEF Apart

(* A request that moves to a key which no other request at its step has.   *)
LEMMA StaysApart ==
    ASSUME Apart, NEW r \in Requests, NEW q, sreq'[r] = q,
           \A s \in Requests \ {r} : sreq'[s] = sreq[s],
           \A s \in Requests \ {r} : sreq[s].at = q.at => sreq[s].doc.key # q.doc.key
    PROVE  Apart'
<1> SUFFICES ASSUME NEW s \in Requests, NEW t \in Requests,
                    sreq'[s].at = sreq'[t].at,
                    sreq'[s].at \in {"insert", "tell creation"},
                    sreq'[s].doc.key = sreq'[t].doc.key
             PROVE  s = t
  BY Zenon DEF Apart
<1>1. CASE s # r /\ t # r
  <2>1. sreq'[s] = sreq[s] /\ sreq'[t] = sreq[t]
    BY <1>1
  <2>. QED  BY <2>1 DEF Apart
<1>2. CASE s = r /\ t # r
  BY <1>2
<1>3. CASE s # r /\ t = r
  BY <1>3
<1>. QED  BY <1>1, <1>2, <1>3

LEMMA SameStamps ==
    StampsDiffer /\ ImagesStored /\ stamps' = stamps
        /\ DOMAIN files' = DOMAIN files => StampsDiffer' /\ ImagesStored'
BY DEF StampsDiffer, ImagesStored

LEMMA SameTold == Told /\ trail' = trail /\ stamps' = stamps => Told'
BY DEF Told

LEMMA SameDamage == Damage /\ trail' = trail /\ files' = files => Damage'
BY DEF Damage

LEMMA SameOrdered ==
    Ordered /\ trail' = trail /\ faults' = faults => Ordered'
BY DEF Ordered

LEMMA SameOwed ==
    Owed /\ trail' = trail /\ faults' = faults /\ stamps' = stamps
        /\ met' = met /\ sreq' = sreq => Owed'
<1> SUFFICES ASSUME Owed, trail' = trail, faults' = faults, stamps' = stamps,
                    met' = met, sreq' = sreq
             PROVE  Owed'
  OBVIOUS
<1>1. \A key, what : InTrail(key, what)' <=> InTrail(key, what)
  BY DEF InTrail
<1>2. \A key, at : Due(key, at)' <=> Due(key, at)
  BY DEF Due
<1>. QED  BY <1>1, <1>2 DEF Owed

LEMMA SameAlone ==
    Alone /\ trail' = trail /\ faults' = faults /\ overlap' = overlap
        /\ sreq' = sreq => Alone'
<1> SUFFICES ASSUME Alone, trail' = trail, faults' = faults, overlap' = overlap,
                    sreq' = sreq, ~overlap
             PROVE  /\ \A r, s \in Requests :
                         sreq[r].at # "idle" /\ sreq[s].at # "idle" => r = s
                    /\ \A r \in Requests : Undisturbed(sreq[r])'
                    /\ Ordered'
  BY DEF Alone
<1>1. \A key, what : InTrail(key, what)' <=> InTrail(key, what)
  BY DEF InTrail
<1>2. ASSUME NEW r \in Requests PROVE Undisturbed(sreq[r])'
  <2>1. Undisturbed(sreq[r])
    BY DEF Alone
  <2>. QED  BY <1>1, <2>1 DEF Undisturbed
<1>. QED  BY <1>2, SameOrdered DEF Alone

(* The step a request is at tells which fields it has.                     *)
LEMMA Shapes ==
    \A q \in StampRequests :
        /\ q.at \in {"check kind", "check combo", "upload"} => q \in ConfirmWork
        /\ q.at \in {"insert", "tell creation"} => q \in PersistWork
        /\ q.at \in {"load", "tell use"} => q \in UseWork
        /\ q.at = "tell failure" => q \in FailureWork
<1>1. Idle.at = "idle"
  BY DEF Idle
<1>2. \A q \in ConfirmWork : q.at \in {"check kind", "check combo", "upload"}
  BY DEF ConfirmWork
<1>3. \A q \in PersistWork : q.at \in {"insert", "tell creation"}
  BY DEF PersistWork
<1>4. \A q \in UseWork : q.at \in {"load", "tell use"}
  BY DEF UseWork
<1>5. \A q \in FailureWork : q.at = "tell failure"
  BY DEF FailureWork
<1>. QED  BY <1>1, <1>2, <1>3, <1>4, <1>5 DEF StampRequests

LEMMA IdleFits ==
    /\ Idle \in StampRequests /\ Idle.at = "idle"
    /\ Fits(Idle) /\ Undisturbed(Idle)
BY DEF Idle, StampRequests, Fits, Undisturbed

LEMMA Appended ==
    ASSUME NEW S, NEW s \in Seq(S), NEW e \in S
    PROVE  /\ Append(s, e) \in Seq(S)
           /\ Len(s) \in Nat /\ DOMAIN s = 1 .. Len(s)
           /\ DOMAIN Append(s, e) = 1 .. Len(s) + 1
           /\ \A i \in 1 .. Len(s) : Append(s, e)[i] = s[i]
           /\ Append(s, e)[Len(s) + 1] = e
OBVIOUS

LEMMA Elements ==
    ASSUME NEW S, NEW s \in Seq(S), NEW i \in DOMAIN s
    PROVE  s[i] \in S
OBVIOUS

LEMMA Typed ==
    ASSUME SInv
    PROVE  /\ stamps \subseteq StampDocs
           /\ files \in Seq({"intact", "altered"})
           /\ trail \in Seq([key : Keys, what : Happened])
           /\ met \subseteq Keys
           /\ sreq \in [Requests -> StampRequests]
           /\ smoves \in 0 .. StampMoves
BY DEF SInv, TypeOKStamps

(* The request that moved, and the others.                                 *)
LEMMA Moved ==
    ASSUME SInv, NEW r \in Requests, NEW q \in StampRequests, Goes(sreq, r, q)
    PROVE  /\ sreq' \in [Requests -> StampRequests]
           /\ sreq'[r] = q
           /\ \A s \in Requests \ {r} : sreq'[s] = sreq[s]
BY Typed DEF Goes

(* One request at a time is kept by a request that starts when all others  *)
(* are idle or goes on.                                                    *)
LEMMA Only ==
    ASSUME SInv, NEW r \in Requests, NEW q \in StampRequests, Goes(sreq, r, q),
           MayStart(sreq, r) \/ sreq[r].at # "idle", ~overlap
    PROVE  /\ \A s \in Requests \ {r} : sreq[s].at = "idle" /\ sreq'[s].at = "idle"
           /\ \A s, t \in Requests :
                sreq'[s].at # "idle" /\ sreq'[t].at # "idle" => s = t
<1>1. \A s \in Requests \ {r} : sreq[s].at = "idle"
  BY IdleFits DEF SInv, Alone, MayStart, AllIdle
<1>. QED  BY <1>1, Moved

-----------------------------------------------------------------------------
(* Steps that only move a request                                          *)

(* A request moves and stores nothing.  What it owed the trail it still    *)
(* owes, unless awaits raise.                                              *)
LEMMA Moves ==
    ASSUME SInv, NEW r \in Requests, NEW q \in StampRequests, Goes(sreq, r, q),
           UNCHANGED <<overlap, faults, stamps, files, trail, met>>,
           smoves' \in 0 .. StampMoves,
           MayStart(sreq, r) \/ sreq[r].at # "idle",
           q.at \notin {"insert", "tell creation", "tell failure"},
           q.at \in {"load", "tell use"} => q.doc \in stamps,
           q.at = "tell use" /\ ~overlap => ~InTrail(q.doc.key, "integrity_failed"),
           ~faults => sreq[r].at \notin {"tell creation", "tell failure"}
    PROVE  SInv'
<1>1. /\ sreq' \in [Requests -> StampRequests] /\ sreq'[r] = q
      /\ \A s \in Requests \ {r} : sreq'[s] = sreq[s]
  BY Moved
<1>2. TypeOKStamps'
  BY <1>1, Typed DEF TypeOKStamps
<1>3. AllFit'
  <2> SUFFICES ASSUME NEW s \in Requests PROVE Fits(sreq[s])'
    BY DEF AllFit
  <2>1. Fits(q)'
    BY DEF Fits
  <2>2. Fits(sreq[s])
    BY DEF SInv, AllFit
  <2>. QED  BY <1>1, <2>1, <2>2 DEF Fits, InTrail
<1>4. Apart'
  BY <1>1 DEF SInv, Apart
<1>5. StampsDiffer' /\ ImagesStored' /\ Told' /\ Damage'
  BY DEF SInv, StampsDiffer, ImagesStored, Told, Damage
<1>6. Owed'
  <2> SUFFICES ASSUME ~faults
               PROVE  /\ \A s \in stamps : \/ InTrail(s.key, "created")'
                                           \/ Due(s.key, "tell creation")'
                      /\ \A key \in met : \/ InTrail(key, "integrity_failed")'
                                          \/ Due(key, "tell failure")'
    BY DEF Owed, Due, InTrail
  <2>1. ASSUME NEW key, NEW at \in {"tell creation", "tell failure"}, Due(key, at)
        PROVE  Due(key, at)'
    BY <1>1, <2>1 DEF Due
  <2>2. \A key, what : InTrail(key, what) => InTrail(key, what)'
    BY DEF InTrail
  <2>. QED  BY <2>1, <2>2 DEF SInv, Owed
<1>7. Alone'
  <2> SUFFICES ASSUME ~overlap
               PROVE  /\ \A s, t \in Requests :
                           sreq'[s].at # "idle" /\ sreq'[t].at # "idle" => s = t
                      /\ \A s \in Requests : Undisturbed(sreq[s])'
                      /\ Ordered'
    BY DEF Alone
  <2>1. ASSUME NEW s \in Requests PROVE Undisturbed(sreq[s])'
    <3>1. Undisturbed(q)'
      BY DEF Undisturbed, InTrail
    <3>2. Undisturbed(sreq[s])
      BY DEF SInv, Alone
    <3>. QED  BY <1>1, <3>1, <3>2 DEF Undisturbed, InTrail
  <2>2. Ordered'
    BY SameOrdered DEF SInv, Alone
  <2>. QED  BY <2>1, <2>2, Only
<1>. QED  BY <1>2, <1>3, <1>4, <1>5, <1>6, <1>7 DEF SInv

LEMMA InitSInv == StampsInit => SInv
<1> SUFFICES ASSUME StampsInit PROVE SInv
  OBVIOUS
<1>1. \A r \in Requests : sreq[r] = Idle /\ sreq[r].at = "idle"
  BY IdleFits DEF StampsInit
<1>2. /\ stamps = {} /\ met = {} /\ files = <<>> /\ trail = <<>>
      /\ DOMAIN trail = {}
  BY DEF StampsInit
<1>3. TypeOKStamps
  BY <1>1, <1>2, IdleFits, StampMovesAssumption DEF StampsInit, TypeOKStamps
<1>4. AllFit /\ Apart
  BY <1>1, IdleFits DEF AllFit, Apart
<1>5. StampsDiffer /\ ImagesStored /\ Told /\ Damage /\ Owed /\ Ordered
  BY <1>2 DEF StampsDiffer, ImagesStored, Told, Damage, Owed, Ordered
<1>6. Alone
  BY <1>1, <1>5, IdleFits DEF Alone
<1>. QED  BY <1>3, <1>4, <1>5, <1>6 DEF SInv

LEMMA Confirms ==
    ASSUME SInv, NEW r \in Requests, NEW u \in Signers,
           ConfirmAutomatic(r, u) \/ ConfirmManual(r, u)
    PROVE  SInv'
<1>1. PICK k \in StampKinds, c \in Combos \cup {ByHand} :
        Goes(sreq, r, [at |-> "check kind", user |-> u, kind |-> k, combo |-> c])
  <2>1. CASE ConfirmManual(r, u)
    BY <2>1 DEF ConfirmManual
  <2>2. CASE ConfirmAutomatic(r, u)
    <3>1. PICK k \in StampKinds, n \in Names, v \in Variants, f \in Fonts :
            Goes(sreq, r, [at |-> "check kind", user |-> u, kind |-> k,
                           combo |-> Combo(k, SourceText(n, k, v), f)])
      BY <2>2 DEF ConfirmAutomatic
    <3>2. Combo(k, SourceText(n, k, v), f) \in Combos
      BY DEF Combos
    <3>. QED  BY <3>1, <3>2
  <2>. QED  BY <2>1, <2>2
<1> DEFINE q == [at |-> "check kind", user |-> u, kind |-> k, combo |-> c]
<1>2. q \in StampRequests /\ q.at = "check kind"
  BY DEF StampRequests, ConfirmWork
<1>3. /\ UNCHANGED <<overlap, faults, stamps, files, trail, met>>
      /\ StartStamp(r)
  BY DEF ConfirmAutomatic, ConfirmManual
<1>4. smoves' \in 0 .. StampMoves /\ MayStart(sreq, r)
  BY <1>3, Typed, StampMovesAssumption DEF StartStamp
<1>5. sreq[r].at = "idle"
  BY <1>4, IdleFits DEF MayStart
<1> HIDE DEF q
<1>. QED  BY <1>1, <1>2, <1>3, <1>4, <1>5, Moves DEF q

LEMMA Checks ==
    ASSUME SInv, NEW r \in Requests, CheckKind(r) \/ CheckCombo(r)
    PROVE  SInv'
<1> DEFINE q == sreq[r]
<1>1. q.at \in {"check kind", "check combo"} /\ q \in ConfirmWork
  BY Typed, Shapes DEF CheckKind, CheckCombo
<1>2. PICK p \in StampRequests :
        /\ p.at \in {"idle", "check combo", "upload"} /\ Goes(sreq, r, p)
  <2>1. /\ [q EXCEPT !.at = "upload"] \in ConfirmWork
        /\ [q EXCEPT !.at = "upload"].at = "upload"
        /\ [q EXCEPT !.at = "check combo"] \in ConfirmWork
        /\ [q EXCEPT !.at = "check combo"].at = "check combo"
    BY <1>1 DEF ConfirmWork
  <2>2. CASE CheckKind(r)
    BY <2>1, <2>2, IdleFits DEF CheckKind, Ends, StampGoes, StampRequests
  <2>3. CASE CheckCombo(r)
    BY <2>1, <2>3, IdleFits DEF CheckCombo, Ends, StampGoes, StampRequests
  <2>. QED  BY <2>2, <2>3
<1>3. /\ UNCHANGED <<overlap, faults, stamps, files, trail, met>>
      /\ smoves' \in 0 .. StampMoves
  BY Typed DEF CheckKind, CheckCombo, skept
<1>. QED  BY <1>1, <1>2, <1>3, Moves

LEMMA Uses ==
    ASSUME SInv, NEW r \in Requests, NEW s \in stamps, UseStamp(r, s)
    PROVE  SInv'
<1>1. PICK a \in BOOLEAN :
        Goes(sreq, r, [at |-> "load", doc |-> s, agreement |-> a])
  BY DEF UseStamp
<1> DEFINE q == [at |-> "load", doc |-> s, agreement |-> a]
<1>2. q \in StampRequests /\ q.at = "load" /\ q.doc = s
  BY Typed DEF StampRequests, UseWork
<1>3. /\ UNCHANGED <<overlap, faults, stamps, files, trail, met>>
      /\ smoves' \in 0 .. StampMoves /\ MayStart(sreq, r)
  BY Typed, StampMovesAssumption DEF UseStamp, StartStamp
<1>4. sreq[r].at = "idle"
  BY <1>3, IdleFits DEF MayStart
<1> HIDE DEF q
<1>. QED  BY <1>1, <1>2, <1>3, <1>4, Moves DEF q

LEMMA RaisesKeep ==
    ASSUME SInv, NEW r \in Requests, StampRaises(r)
    PROVE  SInv'
<1>1. /\ faults /\ sreq[r] # Idle /\ Goes(sreq, r, Idle)
      /\ UNCHANGED <<overlap, faults, stamps, files, trail, met>>
      /\ smoves' \in 0 .. StampMoves
  BY Typed DEF StampRaises, Raises, Ends, skept
<1>2. sreq[r].at # "idle"
  BY <1>1, Typed DEF StampRequests, ConfirmWork, PersistWork, UseWork, FailureWork
<1>. QED  BY <1>1, <1>2, IdleFits, Moves

-----------------------------------------------------------------------------
(* Steps that store                                                        *)

LEMMA Uploads ==
    ASSUME SInv, NEW r \in Requests, UploadImage(r)
    PROVE  SInv'
<1> DEFINE p == sreq[r]
           n == Len(files) + 1
           d == [user |-> p.user, kind |-> p.kind, combo |-> p.combo, key |-> n]
           q == [at |-> "insert", doc |-> d]
<1>1. p.at = "upload" /\ p \in ConfirmWork
  BY Typed, Shapes DEF UploadImage
<1>2. /\ Goes(sreq, r, q) /\ files' = Append(files, "intact")
      /\ UNCHANGED <<overlap, faults, stamps, trail, met>>
      /\ smoves' \in 0 .. StampMoves
  BY Typed DEF UploadImage, skept
<1>3. /\ files' \in Seq({"intact", "altered"}) /\ n \in Nat
      /\ DOMAIN files = 1 .. Len(files) /\ DOMAIN files' = 1 .. n
      /\ \A i \in DOMAIN files : i \in DOMAIN files' /\ files'[i] = files[i]
      /\ n \in Keys /\ n \in DOMAIN files' /\ n \notin DOMAIN files
  <2>1. /\ Append(files, "intact") \in Seq({"intact", "altered"})
        /\ Len(files) \in Nat /\ DOMAIN files = 1 .. Len(files)
        /\ DOMAIN Append(files, "intact") = 1 .. n
        /\ \A i \in 1 .. Len(files) : Append(files, "intact")[i] = files[i]
    BY Typed, Appended
  <2>. QED  BY <1>2, <2>1 DEF Keys
<1>4. q \in StampRequests /\ q.at = "insert" /\ q.doc.key = n
  <2>1. d \in StampDocs
    BY <1>1, <1>3 DEF ConfirmWork, StampDocs
  <2>. QED  BY <2>1 DEF StampRequests, PersistWork
<1> HIDE DEF q, n
<1>5. /\ sreq' \in [Requests -> StampRequests] /\ sreq'[r] = q
      /\ \A s \in Requests \ {r} : sreq'[s] = sreq[s]
  BY <1>2, <1>4, Moved
<1>6. TypeOKStamps'
  BY <1>2, <1>3, <1>5, Typed DEF TypeOKStamps
<1>7. \A s \in stamps : s.key \in DOMAIN files /\ s.key # n
  BY <1>3 DEF SInv, ImagesStored
<1>8. AllFit'
  <2> SUFFICES ASSUME NEW s \in Requests PROVE Fits(sreq[s])'
    BY DEF AllFit
  <2>1. Fits(sreq[s])
    BY DEF SInv, AllFit
  <2>2. CASE s = r
    BY <1>2, <1>3, <1>4, <1>5, <1>7, <2>2 DEF Fits, InTrail
  <2>3. CASE s # r
    BY <1>2, <1>3, <1>5, <1>7, <2>1, <2>3 DEF Fits, InTrail
  <2>. QED  BY <2>2, <2>3
<1>9. Apart'
  <2>1. \A s \in Requests \ {r} : sreq[s].at = "insert" => sreq[s].doc.key # n
    BY <1>3 DEF SInv, AllFit, Fits
  <2>2. Apart
    BY DEF SInv
  <2>. QED  BY <1>4, <1>5, <2>1, <2>2, StaysApart
<1>10. StampsDiffer' /\ Told'
  BY <1>2 DEF SInv, StampsDiffer, Told
<1>11. ImagesStored' /\ Damage'
  BY <1>2, <1>3, <1>7 DEF SInv, ImagesStored, Damage, Told
<1>12. Owed'
  <2> SUFFICES ASSUME ~faults
               PROVE  /\ \A s \in stamps : \/ InTrail(s.key, "created")'
                                           \/ Due(s.key, "tell creation")'
                      /\ \A key \in met : \/ InTrail(key, "integrity_failed")'
                                          \/ Due(key, "tell failure")'
    BY <1>2 DEF Owed, Due, InTrail
  <2>1. ASSUME NEW key, NEW at \in {"tell creation", "tell failure"}, Due(key, at)
        PROVE  Due(key, at)'
    BY <1>1, <1>5, <2>1 DEF Due
  <2>2. \A key, what : InTrail(key, what) => InTrail(key, what)'
    BY <1>2 DEF InTrail
  <2>. QED  BY <2>1, <2>2 DEF SInv, Owed
<1>13. Alone'
  <2> SUFFICES ASSUME ~overlap
               PROVE  /\ \A s, t \in Requests :
                           sreq'[s].at # "idle" /\ sreq'[t].at # "idle" => s = t
                      /\ \A s \in Requests : Undisturbed(sreq[s])'
                      /\ Ordered'
    BY <1>2 DEF Alone
  <2>1. ASSUME NEW s \in Requests PROVE Undisturbed(sreq[s])'
    <3>1. Undisturbed(sreq[s])
      BY DEF SInv, Alone
    <3>. QED  BY <1>2, <1>4, <1>5, <3>1 DEF Undisturbed, InTrail
  <2>2. Ordered'
    BY <1>2, SameOrdered DEF SInv, Alone
  <2>. QED  BY <1>1, <1>2, <1>4, <2>1, <2>2, Only
<1>. QED  BY <1>6, <1>8, <1>9, <1>10, <1>11, <1>12, <1>13 DEF SInv

LEMMA Inserts ==
    ASSUME SInv, NEW r \in Requests, InsertStamp(r)
    PROVE  SInv'
<1> DEFINE p == sreq[r]
           d == p.doc
           q == [p EXCEPT !.at = "tell creation"]
<1>1. p.at = "insert" /\ p \in PersistWork /\ p.at # "idle"
  BY Typed, Shapes DEF InsertStamp
<1>2. /\ UNCHANGED <<overlap, faults, files, trail, met>>
      /\ smoves' \in 0 .. StampMoves
  BY Typed DEF InsertStamp, skept
<1>3. CASE HasKind(d.user, d.kind) \/ Taken(d.combo)
  <2>1. Goes(sreq, r, Idle) /\ UNCHANGED stamps
    BY <1>3 DEF InsertStamp, Ends
  <2>. QED  BY <1>1, <1>2, <2>1, IdleFits, Moves
<1>4. CASE ~(HasKind(d.user, d.kind) \/ Taken(d.combo))
  <2>1. Goes(sreq, r, q) /\ stamps' = stamps \cup {d}
    BY <1>4 DEF InsertStamp, StampGoes
  <2>2. /\ q \in StampRequests /\ q.at = "tell creation" /\ q.doc = d
        /\ d \in StampDocs
    BY <1>1 DEF StampRequests, PersistWork
  <2>3. d.key \in DOMAIN files /\ \A s \in stamps : s.key # d.key
    BY <1>1 DEF SInv, AllFit, Fits
  <2>4. \A i \in DOMAIN trail : trail[i].key # d.key
    BY <2>3 DEF SInv, Told
  <2>5. \A what : ~InTrail(d.key, what)
    BY <2>4 DEF InTrail
  <2> HIDE DEF q
  <2>6. /\ sreq' \in [Requests -> StampRequests] /\ sreq'[r] = q
        /\ \A s \in Requests \ {r} : sreq'[s] = sreq[s]
    BY <2>1, <2>2, Moved
  <2>7. TypeOKStamps'
    BY <1>2, <2>1, <2>2, <2>6, Typed DEF TypeOKStamps
  <2>8. AllFit'
    <3> SUFFICES ASSUME NEW s \in Requests PROVE Fits(sreq[s])'
      BY DEF AllFit
    <3>1. Fits(sreq[s])
      BY DEF SInv, AllFit
    <3>2. CASE s = r
      BY <1>2, <2>1, <2>2, <2>5, <2>6, <3>2 DEF Fits, InTrail
    <3>3. CASE s # r
      <4>1. sreq[s].at = "insert" => sreq[s].doc.key # d.key
        BY <1>1, <3>3 DEF SInv, Apart
      <4>. QED  BY <1>2, <2>1, <2>6, <3>1, <3>3, <4>1 DEF Fits, InTrail
    <3>. QED  BY <3>2, <3>3
  <2>9. Apart'
    <3>1. \A s \in Requests : sreq[s].at = "tell creation" => sreq[s].doc.key # d.key
      BY <2>3 DEF SInv, AllFit, Fits
    <3>2. Apart
      BY DEF SInv
    <3>3. \A s \in Requests \ {r} : sreq[s].at = q.at => sreq[s].doc.key # q.doc.key
      BY <2>2, <3>1
    <3>. QED  BY <2>6, <3>2, <3>3, StaysApart
  <2>10. StampsDiffer'
    <3>1. \A s \in stamps : /\ ~(s.user = d.user /\ s.kind = d.kind)
                            /\ ~(s.combo = d.combo /\ d.combo # ByHand)
      BY <1>4 DEF HasKind, Taken
    <3>. QED  BY <2>1, <3>1 DEF SInv, StampsDiffer
  <2>11. ImagesStored'
    BY <1>2, <2>1, <2>3 DEF SInv, ImagesStored
  <2>12. Told' /\ Damage'
    BY <1>2, <2>1 DEF SInv, Told, Damage
  <2>13. Owed'
    <3> SUFFICES ASSUME ~faults
                 PROVE  /\ \A s \in stamps' : \/ InTrail(s.key, "created")'
                                              \/ Due(s.key, "tell creation")'
                        /\ \A key \in met : \/ InTrail(key, "integrity_failed")'
                                            \/ Due(key, "tell failure")'
      BY <1>2 DEF Owed, Due, InTrail
    <3>1. ASSUME NEW key, NEW at \in {"tell creation", "tell failure"}, Due(key, at)
          PROVE  Due(key, at)'
      BY <1>1, <2>6, <3>1 DEF Due
    <3>2. \A key, what : InTrail(key, what) => InTrail(key, what)'
      BY <1>2 DEF InTrail
    <3>3. ASSUME NEW s \in stamps', s = d PROVE Due(s.key, "tell creation")'
      BY <2>2, <2>6, <3>3 DEF Due
    <3>4. ASSUME NEW s \in stamps'
          PROVE  InTrail(s.key, "created")' \/ Due(s.key, "tell creation")'
      <4>1. CASE s = d
        BY <3>3, <4>1
      <4>2. CASE s # d
        <5>1. InTrail(s.key, "created") \/ Due(s.key, "tell creation")
          BY <2>1, <4>2 DEF SInv, Owed
        <5>. QED  BY <3>1, <3>2, <5>1
      <4>. QED  BY <4>1, <4>2
    <3>. QED  BY <3>1, <3>2, <3>4 DEF SInv, Owed
  <2>14. Alone'
    <3> SUFFICES ASSUME ~overlap
                 PROVE  /\ \A s, t \in Requests :
                             sreq'[s].at # "idle" /\ sreq'[t].at # "idle" => s = t
                        /\ \A s \in Requests : Undisturbed(sreq[s])'
                        /\ Ordered'
      BY <1>2 DEF Alone
    <3>1. ASSUME NEW s \in Requests PROVE Undisturbed(sreq[s])'
      <4>1. Undisturbed(sreq[s])
        BY DEF SInv, Alone
      <4>. QED  BY <1>2, <2>2, <2>4, <2>6, <4>1 DEF Undisturbed, InTrail
    <3>2. Ordered'
      BY <1>2, SameOrdered DEF SInv, Alone
    <3>. QED  BY <1>1, <2>1, <2>2, <3>1, <3>2, Only
  <2>. QED  BY <2>7, <2>8, <2>9, <2>10, <2>11, <2>12, <2>13, <2>14 DEF SInv
<1>. QED  BY <1>3, <1>4

LEMMA InTrailIff ==
    ASSUME SInv, NEW key, NEW what
    PROVE  InTrail(key, what) <=>
             \E i \in DOMAIN trail : trail[i].key = key /\ trail[i].what = what
<1>1. \A i \in DOMAIN trail : trail[i] \in [key : Keys, what : Happened]
  BY Typed, Elements
<1>. QED  BY <1>1 DEF InTrail

(* What a request puts into the trail, at each step that does.             *)
Says == [at \in {"tell creation", "tell use", "tell failure"} |->
           CASE at = "tell creation" -> "created"
             [] at = "tell use"      -> "used_in_agreement"
             [] at = "tell failure"  -> "integrity_failed"]

LEMMA Logs ==
    ASSUME SInv, NEW r \in Requests,
           TellCreation(r) \/ TellFailure(r) \/ TellUse(r)
    PROVE  SInv'
<1> DEFINE p == sreq[r]
<1>1. PICK at, k, what :
        /\ p.at = at /\ k = p.doc.key /\ what = Says[at]
        /\ \/ at = "tell creation" /\ what = "created"
           \/ at = "tell use"      /\ what = "used_in_agreement"
           \/ at = "tell failure"  /\ what = "integrity_failed"
        /\ Log(r, what)
  BY DEF TellCreation, TellFailure, TellUse, Says
<1> DEFINE e == [key |-> k, what |-> what]
<1>2. p.doc \in stamps /\ k \in Keys /\ what \in Happened
  BY <1>1, Typed DEF SInv, AllFit, Fits, StampDocs, Happened
<1>3. /\ trail' = Append(trail, e) /\ Goes(sreq, r, Idle)
      /\ UNCHANGED <<overlap, faults, stamps, files, met>>
      /\ smoves' \in 0 .. StampMoves
  BY <1>1, Typed DEF TellCreation, TellFailure, TellUse, Log, Ends, skept
<1>4. e \in [key : Keys, what : Happened] /\ e.key = k /\ e.what = what
  BY <1>2
<1> DEFINE n == Len(trail) + 1
<1>5. /\ trail' \in Seq([key : Keys, what : Happened]) /\ n \in Nat
      /\ DOMAIN trail = 1 .. Len(trail) /\ DOMAIN trail' = 1 .. n
      /\ \A i \in DOMAIN trail : i \in DOMAIN trail' /\ trail'[i] = trail[i]
      /\ n \in DOMAIN trail' /\ n \notin DOMAIN trail /\ trail'[n] = e
      /\ \A i \in DOMAIN trail' : i \in DOMAIN trail \/ i = n
      /\ \A i \in DOMAIN trail' : i <= n
  <2>1. /\ Append(trail, e) \in Seq([key : Keys, what : Happened])
        /\ Len(trail) \in Nat /\ DOMAIN trail = 1 .. Len(trail)
        /\ DOMAIN Append(trail, e) = 1 .. n
        /\ \A i \in 1 .. Len(trail) : Append(trail, e)[i] = trail[i]
        /\ Append(trail, e)[n] = e
    BY <1>4, Typed, Appended
  <2>. QED  BY <1>3, <2>1
<1> HIDE DEF e, n
<1>6. /\ sreq' \in [Requests -> StampRequests] /\ sreq'[r] = Idle
      /\ \A s \in Requests \ {r} : sreq'[s] = sreq[s]
  BY <1>3, IdleFits, Moved
<1>7. TypeOKStamps'
  BY <1>3, <1>5, <1>6, Typed DEF TypeOKStamps
<1>8. /\ \A x, y : InTrail(x, y) => InTrail(x, y)'
      /\ InTrail(k, what)'
      /\ \A x, y : InTrail(x, y)' => InTrail(x, y) \/ (x = k /\ y = what)
  <2>1. \A x, y : InTrail(x, y) => InTrail(x, y)'
    BY <1>5 DEF InTrail
  <2>2. InTrail(k, what)'
    BY <1>5 DEF InTrail, e
  <2>3. ASSUME NEW x, NEW y, InTrail(x, y)' PROVE InTrail(x, y) \/ (x = k /\ y = what)
    <3>1. PICK i \in DOMAIN trail' : trail'[i] = [key |-> x, what |-> y]
      BY <2>3 DEF InTrail
    <3>2. CASE i = n
      BY <1>4, <1>5, <3>1, <3>2
    <3>3. CASE i \in DOMAIN trail
      BY <1>5, <3>1, <3>3 DEF InTrail
    <3>. QED  BY <1>5, <3>2, <3>3
  <2>. QED  BY <2>1, <2>2, <2>3
<1>9. AllFit'
  <2> SUFFICES ASSUME NEW s \in Requests PROVE Fits(sreq[s])'
    BY DEF AllFit
  <2>1. Fits(sreq[s])
    BY DEF SInv, AllFit
  <2>2. CASE s = r
    <3>1. sreq'[s].at = "idle"
      BY <1>6, <2>2, IdleFits
    <3>. QED  BY <3>1 DEF Fits
  <2>3. CASE s # r
    <3>1. sreq[s].at = "tell creation" /\ what = "created" => sreq[s].doc.key # k
      BY <1>1, <2>3 DEF SInv, Apart
    <3>2. sreq[s].at = "tell creation" => ~InTrail(sreq[s].doc.key, "created")'
      BY <1>6, <1>8, <2>1, <2>3, <3>1 DEF Fits
    <3>. QED  BY <1>3, <1>6, <2>1, <2>3, <3>2 DEF Fits
  <2>. QED  BY <2>2, <2>3
<1>10. Apart'
  BY <1>6, IdleFits DEF SInv, Apart
<1>11. StampsDiffer' /\ ImagesStored'
  BY <1>3 DEF SInv, StampsDiffer, ImagesStored
<1>12. Told'
  <2>1. \A i \in DOMAIN trail' : \E s \in stamps' : s.key = trail'[i].key
    <3>1. \A i \in DOMAIN trail : \E s \in stamps : s.key = trail'[i].key
      BY <1>5 DEF SInv, Told
    <3>2. \E s \in stamps : s.key = trail'[n].key
      BY <1>1, <1>2, <1>4, <1>5
    <3>. QED  BY <1>3, <1>5, <3>1, <3>2
  <2>2. what = "created" => ~InTrail(k, "created")
    BY <1>1 DEF SInv, AllFit, Fits
  <2>3. \A i \in DOMAIN trail : trail[i] = e => e.what # "created"
    BY <1>4, <2>2 DEF InTrail, e
  <2>4. ASSUME NEW i \in DOMAIN trail', NEW j \in DOMAIN trail',
               trail'[i] = trail'[j], trail'[i].what = "created"
        PROVE  i = j
    <3>1. CASE i \in DOMAIN trail /\ j \in DOMAIN trail
      BY <1>5, <2>4, <3>1 DEF SInv, Told
    <3>2. CASE i = n \/ j = n
      BY <1>5, <2>3, <2>4, <3>2
    <3>. QED  BY <1>5, <3>1, <3>2
  <2>. QED  BY <2>1, <2>4 DEF Told
<1>13. Damage'
  <2>1. what = "integrity_failed" => files[k] = "altered"
    BY <1>1 DEF SInv, AllFit, Fits
  <2>. QED  BY <1>3, <1>4, <1>5, <2>1 DEF SInv, Damage
<1>14. Owed'
  <2> SUFFICES ASSUME ~faults
               PROVE  /\ \A s \in stamps : \/ InTrail(s.key, "created")'
                                           \/ Due(s.key, "tell creation")'
                      /\ \A key \in met : \/ InTrail(key, "integrity_failed")'
                                          \/ Due(key, "tell failure")'
    BY <1>3 DEF Owed, Due, InTrail
  <2>1. ASSUME NEW key, NEW x, Due(key, x), NEW y, y = Says[x],
               x \in {"tell creation", "tell failure"}
        PROVE  InTrail(key, y)' \/ Due(key, x)'
    <3>1. PICK s \in Requests : sreq[s].at = x /\ sreq[s].doc.key = key
      BY <2>1 DEF Due
    <3>2. CASE s = r
      BY <1>1, <1>8, <2>1, <3>1, <3>2
    <3>3. CASE s # r
      BY <1>6, <3>1, <3>3 DEF Due
    <3>. QED  BY <3>2, <3>3
  <2>2. Says["tell creation"] = "created" /\ Says["tell failure"] = "integrity_failed"
    BY DEF Says
  <2>. QED  BY <1>8, <2>1, <2>2 DEF SInv, Owed
<1>15. Alone'
  <2> SUFFICES ASSUME ~overlap
               PROVE  /\ \A s, t \in Requests :
                           sreq'[s].at # "idle" /\ sreq'[t].at # "idle" => s = t
                      /\ \A s \in Requests : Undisturbed(sreq[s])'
                      /\ Ordered'
    BY <1>3 DEF Alone
  <2>1. \A s \in Requests : sreq'[s].at = "idle"
    BY <1>1, <1>3, <1>6, IdleFits, Only
  <2>2. \A s \in Requests : Undisturbed(sreq[s])'
    BY <2>1 DEF Undisturbed
  <2>3. Undisturbed(p)
    BY DEF SInv, Alone
  <2>4. ASSUME NEW i \in DOMAIN trail', NEW j \in DOMAIN trail', i < j,
               trail'[i].key = trail'[j].key
        PROVE  /\ trail'[i].what = "integrity_failed"
                    => trail'[j].what # "used_in_agreement"
               /\ ~faults => trail'[j].what # "created"
    <3>1. i \in DOMAIN trail /\ trail'[i] = trail[i]
      <4>1. i # n
        BY <1>5, <2>4
      <4>. QED  BY <1>5, <4>1
    <3>2. CASE j \in DOMAIN trail
      BY <1>5, <2>4, <3>1, <3>2 DEF SInv, Alone, Ordered
    <3>3. CASE j = n
      <4>1. trail[i].key = k /\ trail'[j].what = what
        BY <1>4, <1>5, <2>4, <3>1, <3>3
      <4>2. what = "used_in_agreement" => trail[i].what # "integrity_failed"
        <5> SUFFICES ASSUME what = "used_in_agreement" PROVE ~(trail[i].what = "integrity_failed")
          OBVIOUS
        <5>1. ~InTrail(k, "integrity_failed")
          BY <1>1, <2>3 DEF Undisturbed
        <5>2. i \in DOMAIN trail /\ trail[i].key = k
          BY <3>1, <4>1
        <5>. QED  BY <5>1, <5>2, InTrailIff
      <4>3. ~faults => what # "created"
        BY <1>1, <2>3, <3>1, <4>1 DEF Undisturbed
      <4>. QED  BY <3>1, <4>1, <4>2, <4>3
    <3>. QED  BY <1>5, <3>2, <3>3
  <2>5. Ordered'
    BY <1>3, <2>4 DEF Ordered
  <2>. QED  BY <2>1, <2>2, <2>5
<1>. QED  BY <1>7, <1>9, <1>10, <1>11, <1>12, <1>13, <1>14, <1>15 DEF SInv

LEMMA Loads ==
    ASSUME SInv, NEW r \in Requests, LoadImage(r)
    PROVE  SInv'
<1> DEFINE p == sreq[r]
           k == p.doc.key
<1>1. p.at = "load" /\ p \in UseWork /\ p.at # "idle"
  BY Typed, Shapes DEF LoadImage
<1>2. /\ UNCHANGED <<overlap, faults, stamps, files, trail>>
      /\ smoves' \in 0 .. StampMoves
  BY Typed DEF LoadImage, skept
<1>3. p.doc \in stamps /\ k \in DOMAIN files
  BY <1>1 DEF SInv, AllFit, Fits, ImagesStored
<1>4. CASE files[k] # "altered"
  <2>1. ~InTrail(k, "integrity_failed")
    BY <1>4, InTrailIff DEF SInv, Damage
  <2>2. PICK q \in StampRequests :
          /\ q.at \in {"idle", "tell use"} /\ Goes(sreq, r, q)
          /\ q.at = "tell use" => q.doc = p.doc
    <3>1. /\ [p EXCEPT !.at = "tell use"] \in UseWork
          /\ [p EXCEPT !.at = "tell use"].at = "tell use"
          /\ [p EXCEPT !.at = "tell use"].doc = p.doc
      BY <1>1 DEF UseWork
    <3>2. Ends(sreq, r) \/ StampGoes(r, p, "tell use")
      BY <1>4 DEF LoadImage
    <3>. QED  BY <3>1, <3>2, IdleFits DEF Ends, StampGoes, StampRequests
  <2>3. UNCHANGED met
    BY <1>4 DEF LoadImage
  <2>. QED  BY <1>1, <1>2, <1>3, <2>1, <2>2, <2>3, Moves
<1>5. CASE files[k] = "altered"
  <2> DEFINE q == [at |-> "tell failure", doc |-> p.doc]
  <2>1. Goes(sreq, r, q) /\ met' = met \cup {k}
    BY <1>5 DEF LoadImage
  <2>2. /\ q \in StampRequests /\ q.at = "tell failure" /\ q.doc = p.doc
        /\ k \in Keys
    BY <1>3, Typed DEF StampRequests, FailureWork, StampDocs
  <2> HIDE DEF q
  <2>3. /\ sreq' \in [Requests -> StampRequests] /\ sreq'[r] = q
        /\ \A s \in Requests \ {r} : sreq'[s] = sreq[s]
    BY <2>1, <2>2, Moved
  <2>4. TypeOKStamps'
    BY <1>2, <2>1, <2>2, <2>3, Typed DEF TypeOKStamps
  <2>5. AllFit'
    <3> SUFFICES ASSUME NEW s \in Requests PROVE Fits(sreq[s])'
      BY DEF AllFit
    <3>1. Fits(sreq[s])
      BY DEF SInv, AllFit
    <3>. QED  BY <1>2, <1>3, <1>5, <2>2, <2>3, <3>1 DEF Fits, InTrail
  <2>6. Apart'
    BY <2>2, <2>3 DEF SInv, Apart
  <2>7. StampsDiffer' /\ ImagesStored' /\ Told' /\ Damage'
    BY <1>2 DEF SInv, StampsDiffer, ImagesStored, Told, Damage
  <2>8. Owed'
    <3> SUFFICES ASSUME ~faults
                 PROVE  /\ \A s \in stamps : \/ InTrail(s.key, "created")'
                                             \/ Due(s.key, "tell creation")'
                        /\ \A key \in met' : \/ InTrail(key, "integrity_failed")'
                                             \/ Due(key, "tell failure")'
      BY <1>2 DEF Owed, Due, InTrail
    <3>1. ASSUME NEW key, NEW at \in {"tell creation", "tell failure"}, Due(key, at)
          PROVE  Due(key, at)'
      BY <1>1, <2>3, <3>1 DEF Due
    <3>2. \A key, what : InTrail(key, what) => InTrail(key, what)'
      BY <1>2 DEF InTrail
    <3>3. \A key : key = k => Due(key, "tell failure")'
      BY <2>2, <2>3 DEF Due
    <3>. QED  BY <2>1, <3>1, <3>2, <3>3 DEF SInv, Owed
  <2>9. Alone'
    <3> SUFFICES ASSUME ~overlap
                 PROVE  /\ \A s, t \in Requests :
                             sreq'[s].at # "idle" /\ sreq'[t].at # "idle" => s = t
                        /\ \A s \in Requests : Undisturbed(sreq[s])'
                        /\ Ordered'
      BY <1>2 DEF Alone
    <3>1. ASSUME NEW s \in Requests PROVE Undisturbed(sreq[s])'
      <4>1. Undisturbed(sreq[s])
        BY DEF SInv, Alone
      <4>. QED  BY <1>2, <2>2, <2>3, <4>1 DEF Undisturbed, InTrail
    <3>2. Ordered'
      BY <1>2, SameOrdered DEF SInv, Alone
    <3>. QED  BY <1>1, <2>1, <2>2, <3>1, <3>2, Only
  <2>. QED  BY <2>4, <2>5, <2>6, <2>7, <2>8, <2>9 DEF SInv
<1>. QED  BY <1>4, <1>5

(* Damage is done to one image, and for good.                              *)
LEMMA Alters ==
    ASSUME SInv, NEW key \in DOMAIN files, Alter(key)
    PROVE  SInv'
<1>1. /\ files' = [files EXCEPT ![key] = "altered"]
      /\ UNCHANGED <<overlap, faults, stamps, trail, met, sreq>>
      /\ smoves' \in 0 .. StampMoves
  BY Typed DEF Alter, skept
<1>2. files' \in Seq({"intact", "altered"}) /\ DOMAIN files' = DOMAIN files
  BY <1>1, Typed
<1>3. \A i : files[i] = "altered" /\ i \in DOMAIN files => files'[i] = "altered"
  BY <1>1
<1>4. TypeOKStamps'
  BY <1>1, <1>2, Typed DEF TypeOKStamps
<1>5. \A s \in stamps : s.key \in DOMAIN files
  BY DEF SInv, ImagesStored
<1>6. AllFit'
  <2> SUFFICES ASSUME NEW s \in Requests PROVE Fits(sreq[s])'
    BY DEF AllFit
  <2>1. Fits(sreq[s])
    BY DEF SInv, AllFit
  <2>. QED  BY <1>1, <1>2, <1>3, <1>5, <2>1 DEF Fits, InTrail
<1>7. Apart' /\ StampsDiffer' /\ ImagesStored' /\ Told'
  BY <1>1, <1>2, SameApart, SameStamps, SameTold DEF SInv
<1>8. Damage'
  <2>1. \A i \in DOMAIN trail : trail[i].key \in DOMAIN files
    BY <1>5 DEF SInv, Told
  <2>2. Damage
    BY DEF SInv
  <2>. QED  BY <1>1, <1>3, <2>1, <2>2 DEF Damage
<1>9. Owed' /\ Alone'
  BY <1>1, SameOwed, SameAlone DEF SInv
<1>. QED  BY <1>4, <1>6, <1>7, <1>8, <1>9 DEF SInv

LEMMA StepSInv == SInv /\ [StampsNext]_svars => SInv'
<1> SUFFICES ASSUME SInv, [StampsNext]_svars PROVE SInv'
  OBVIOUS
<1>1. ASSUME NEW r \in Requests, StampStep(r) PROVE SInv'
  BY <1>1, Confirms, Checks, Uploads, Inserts, Logs, Uses, Loads, RaisesKeep
     DEF StampStep
<1>2. ASSUME NEW key \in DOMAIN files, Alter(key) PROVE SInv'
  BY <1>2, Alters
<1>3. CASE UNCHANGED svars
  <2>1. UNCHANGED <<overlap, faults, stamps, files, trail, met, sreq, smoves>>
    BY <1>3 DEF svars
  <2>2. TypeOKStamps'
    BY <2>1 DEF SInv, TypeOKStamps
  <2>3. AllFit'
    <3> SUFFICES ASSUME NEW r \in Requests PROVE Fits(sreq[r])'
      BY DEF AllFit
    <3>1. Fits(sreq[r])
      BY DEF SInv, AllFit
    <3>2. \A key, what : InTrail(key, what)' <=> InTrail(key, what)
      BY <2>1 DEF InTrail
    <3>. QED  BY <2>1, <3>1, <3>2 DEF Fits
  <2>4. Apart' /\ StampsDiffer' /\ ImagesStored' /\ Told' /\ Damage'
    BY <2>1, SameApart, SameStamps, SameTold, SameDamage DEF SInv
  <2>5. Owed' /\ Alone'
    BY <2>1, SameOwed, SameAlone DEF SInv
  <2>. QED  BY <2>2, <2>3, <2>4, <2>5 DEF SInv
<1>. QED  BY <1>1, <1>2, <1>3 DEF StampsNext

LEMMA SInvTells == SInv => TrailsTrue
<1> SUFFICES ASSUME SInv PROVE TrailsTrue
  OBVIOUS
<1>1. ~faults /\ AllIdle(sreq) =>
        /\ \A s \in stamps : InTrail(s.key, "created")
        /\ \A key \in met : InTrail(key, "integrity_failed")
  BY IdleFits DEF SInv, Owed, AllIdle, Due
<1>. QED  BY <1>1 DEF SInv, Told, Alone, Ordered, TrailsTrue

-----------------------------------------------------------------------------
(* Theorems                                                                *)

(* What holds of a visual signature, its image and its trail holds of each *)
(* request that is about to store one or to tell of one, in every          *)
(* behaviour of confirm, use and verification (_persist, _load_and_verify).*)
THEOREM StampsInvariance == StampsSpec => []SInv
<1>. QED  BY InitSInv, StepSInv, PTL DEF StampsSpec

(* Visual signatures, images, trail and requests keep their types.         *)
THEOREM StampsTypeCorrect == StampsSpec => []TypeOKStamps
<1>1. SInv => TypeOKStamps
  BY DEF SInv
<1>. QED  BY <1>1, StampsInvariance, PTL

(* No member has two signatures or two rubrics, no combination is used     *)
(* twice, each has its image, and the trail tells of each once and in      *)
(* order (repository.py's two unique indexes, and the events of service.py)*)
THEOREM StampsAreTrue == StampsSpec => []StampsTrue
<1>1. SInv => StampsTrue
  BY SInvTells DEF SInv, StampsTrue
<1>. QED  BY <1>1, StampsInvariance, PTL

-----------------------------------------------------------------------------
(* Notifications                                                           *)

TellWork  == [at : {"find", "presence", "store", "push", "mail"}, how : Hows,
              to : Seq(NewsTo), seen : SUBSET Readers, spare : BOOLEAN, key : NewsKeys]
JoinWork  == [at : {"insert group"}, users : SUBSET Readers]
AmendWork == [at : {"patch group"}, group : Nat, users : SUBSET Readers,
              named : BOOLEAN, status : {"kept", "revived", "ended"}]
EraseWork == [at : {"erase group"}, group : Nat]

EventDocs == [how : Hows, to : Seq(NewsTo), spared : SUBSET Readers]
GroupDocs == [users : SUBSET Readers, active : BOOLEAN]

IsTelling(q) == "key" \in DOMAIN q

Single(s) == \A i, j \in DOMAIN s : s[i] = s[j] => i = j

(* What an event is: who it is for.                                        *)
Suits(e) ==
    /\ e \in EventDocs /\ e.to # <<>>
    /\ e.how # "agreement" => Single(e.to)
    /\ e.how = "visitor" => ToSet(e.to) \subseteq {Stranger}
    /\ e.how \notin {"visitor", "invite"} => ToSet(e.to) \subseteq Readers

OnStep(how, at) ==
    \/ how = "talk" /\ at \in {"presence", "store", "push", "mail"}
    \/ how = "contact" /\ at \in {"store", "push", "mail"}
    \/ how = "decision" /\ at \in {"store", "push", "presence", "mail"}
    \/ how \in {"agreement", "invite"} /\ at \in {"find", "store", "push", "mail"}
    \/ how = "visitor" /\ at = "mail"

(* How a request q that tells the event e stands to it: those it has not   *)
(* come to are still in its list.                                          *)
TellsOf(q, e, ever) ==
    /\ q.how = e.how /\ OnStep(q.how, q.at)
    /\ q.to # <<>> /\ ToSet(q.to) \subseteq ToSet(e.to)
    /\ q.how # "agreement" => Single(q.to)
    /\ q.how = "agreement" => ToSet(e.to) \subseteq q.seen \cup ToSet(q.to)
    /\ q.how = "agreement" /\ q.at # "find" => Head(q.to) \in q.seen /\ Head(q.to) \in ever
    /\ q.at \in {"store", "push"} => Head(q.to) \in Readers
    /\ q.spare => q.how = "talk" /\ q.at \in {"store", "push"}

(* What u has had of the event e, i notifications and m mails, when it has *)
(* been told, ...                                                          *)
Informed(e, u, i, m, on, ever) ==
    /\ e.how # "agreement" \/ u \in on =>
          /\ u \in Readers => i = 1
          /\ m = IF u \in e.spared THEN 0 ELSE 1
    /\ e.how = "agreement" /\ u \notin ever => i + m = 0

(* ... and while request q tells it: those q has not come to have nothing, *)
(* and the one it is at has what it has done so far.                       *)
Awaits(q, u) == IF q.how = "agreement" THEN u \notin q.seen ELSE u \in ToSet(Tail(q.to))
Serves(q, u) == u = Head(q.to) /\ (q.how = "agreement" => q.at # "find")
Filed(q)     == q.at \in {"push", "mail"} \/ (q.at = "presence" /\ q.how = "decision")

SoFar(q, e, u, i, m, on, ever) ==
    /\ Awaits(q, u) => i = 0 /\ m = 0 /\ u \notin e.spared
    /\ ~Awaits(q, u) /\ Serves(q, u) =>
         /\ u \in Readers => i = IF Filed(q) THEN 1 ELSE 0
         /\ m = 0
         /\ u \in e.spared <=> q.spare
    /\ ~Awaits(q, u) /\ ~Serves(q, u) => Informed(e, u, i, m, on, ever)

Shown(u, k) == \E i \in DOMAIN inbox : inbox[i].to = u /\ inbox[i].key = k

(* What requests refer to is there.                                        *)
KnowsEvent(q) ==
    IsTelling(q) =>
        /\ q.key \in DOMAIN events
        /\ TellsOf(q, events[q.key], once)
        /\ q.at = "push" => Shown(Head(q.to), q.key)

NamesGroup(q) ==
    /\ q.at = "insert group" => q.users \subseteq once
    /\ q.at = "patch group" => q.group \in DOMAIN groups /\ q.users \subseteq once
    /\ q.at = "erase group" => q.group \in DOMAIN groups

OneTeller ==
    \A r, s \in Requests :
        IsTelling(nreq[r]) /\ IsTelling(nreq[s]) /\ nreq[r].key = nreq[s].key => r = s

(* What was stored and mailed is of events, and what was pushed is stored. *)
Kept ==
    /\ \A i \in DOMAIN inbox : inbox[i].key \in DOMAIN events
    /\ \A i \in DOMAIN mailed : mailed[i][2] \in DOMAIN events
    /\ \A p \in pushed : Shown(p[1], p[2])

Progress ==
    \A k \in DOMAIN events : \A u \in ToSet(events[k].to) :
        /\ \A r \in Requests : IsTelling(nreq[r]) /\ nreq[r].key = k =>
              SoFar(nreq[r], events[k], u, Inboxed(u, k), Mails(u, k), active, once)
        /\ AllTold(k) =>
              Informed(events[k], u, Inboxed(u, k), Mails(u, k), active, once)

NewsInv ==
    /\ TypeOKNews
    /\ \A k \in DOMAIN events : Suits(events[k])
    /\ \A r \in Requests : KnowsEvent(nreq[r]) /\ NamesGroup(nreq[r])
    /\ OneTeller
    /\ Kept
    /\ ReadOnce
    /\ GroupsHold
    /\ ~faults => Progress

-----------------------------------------------------------------------------
(* Lemmas                                                                  *)

LEMMA ListFacts ==
    ASSUME NEW S, NEW s \in Seq(S), s # <<>>
    PROVE  /\ Head(s) \in S /\ Head(s) \in ToSet(s) /\ Len(s) \in Nat /\ Len(s) >= 1
           /\ Tail(s) \in Seq(S)
           /\ \A u \in ToSet(s) : u = Head(s) \/ u \in ToSet(Tail(s))
           /\ ToSet(Tail(s)) \subseteq ToSet(s)
           /\ Len(s) = 1 => ToSet(Tail(s)) = {}
           /\ Len(s) # 1 => Tail(s) # <<>>
           /\ Single(s) => Head(s) \notin ToSet(Tail(s)) /\ Single(Tail(s))
<1>1. Len(s) \in Nat /\ Len(s) >= 1 /\ DOMAIN s = 1 .. Len(s) /\ \A i \in 1 .. Len(s) : s[i] \in S
  BY EmptySeq, LenProperties
<1>2. Head(s) = s[1] /\ 1 \in DOMAIN s
  BY <1>1
<1>3. /\ Tail(s) \in Seq(S) /\ Len(Tail(s)) = Len(s) - 1
      /\ DOMAIN Tail(s) = 1 .. Len(s) - 1
      /\ \A i \in 1 .. Len(s) - 1 : Tail(s)[i] = s[i + 1]
  BY <1>1, HeadTailProperties
<1>4. Head(s) \in S /\ Head(s) \in ToSet(s)
  BY <1>1, <1>2 DEF ToSet
<1>5. ASSUME NEW u \in ToSet(s) PROVE u = Head(s) \/ u \in ToSet(Tail(s))
  <2>1. PICK i \in 1 .. Len(s) : u = s[i]
    BY <1>1 DEF ToSet
  <2>2. CASE i = 1
    BY <1>2, <2>1, <2>2
  <2>3. CASE i # 1
    <3>1. i - 1 \in 1 .. Len(s) - 1 /\ Tail(s)[i - 1] = s[i]
      BY <1>1, <1>3, <2>3
    <3>. QED  BY <1>3, <2>1, <3>1 DEF ToSet
  <2>. QED  BY <2>2, <2>3
<1>6. ToSet(Tail(s)) \subseteq ToSet(s)
  <2>1. \A i \in 1 .. Len(s) - 1 : i + 1 \in 1 .. Len(s)
    BY <1>1
  <2>. QED  BY <1>1, <1>3, <2>1 DEF ToSet
<1>7. Len(s) = 1 => ToSet(Tail(s)) = {}
  <2>1. SUFFICES ASSUME Len(s) = 1 PROVE ToSet(Tail(s)) = {}
    OBVIOUS
  <2>2. DOMAIN Tail(s) = {}
    BY <1>3, <2>1
  <2>. QED  BY <2>2 DEF ToSet
<1>8. Len(s) # 1 => Tail(s) # <<>>
  <2>1. \A t \in Seq(S) : t = <<>> => Len(t) = 0
    BY EmptySeq
  <2>2. Tail(s) = <<>> => Len(Tail(s)) = 0
    BY <1>3, <2>1, Zenon
  <2>3. Len(Tail(s)) = 0 => Len(s) = 1
    BY <1>1, <1>3
  <2>. QED  BY <2>2, <2>3, Zenon
<1>9. ASSUME Single(s) PROVE Head(s) \notin ToSet(Tail(s)) /\ Single(Tail(s))
  <2>1. \A i \in 1 .. Len(s) - 1 : i + 1 \in 1 .. Len(s) /\ i + 1 # 1
    BY <1>1
  <2>2. Head(s) \notin ToSet(Tail(s))
    BY <1>1, <1>2, <1>3, <1>9, <2>1 DEF ToSet, Single
  <2>3. ASSUME NEW i \in DOMAIN Tail(s), NEW j \in DOMAIN Tail(s), Tail(s)[i] = Tail(s)[j]
        PROVE  i = j
    <3>1. i + 1 = j + 1
      BY <1>1, <1>3, <1>9, <2>1, <2>3 DEF Single
    <3>. QED  BY <1>1, <1>3, <3>1
  <2>. QED  BY <2>2, <2>3 DEF Single
<1>. QED  BY <1>1, <1>3, <1>4, <1>5, <1>6, <1>7, <1>8, <1>9

(* Which requests tell of an event, and which of a group.                  *)
LEMMA NewsShapes ==
    /\ ~IsTelling(Idle) /\ Idle \in NewsRequests /\ Idle \notin TellWork
    /\ \A q \in TellWork : IsTelling(q) /\ q \in NewsRequests
    /\ \A q \in NewsRequests :
         /\ IsTelling(q) \/ q.at \in {"find", "presence", "store", "push", "mail"} =>
              q \in TellWork
         /\ q.at = "insert group" => q \in JoinWork
         /\ q.at = "patch group" => q \in AmendWork
         /\ q.at = "erase group" => q \in EraseWork
         /\ q.at \in {"insert group", "patch group", "erase group"} => ~IsTelling(q)
<1>1. Idle.at = "idle" /\ ~IsTelling(Idle)
  BY DEF Idle, IsTelling
<1>2. \A q \in TellWork :
        IsTelling(q) /\ q.at \in {"find", "presence", "store", "push", "mail"}
  BY DEF TellWork, IsTelling
<1>3. \A q \in JoinWork : q.at = "insert group" /\ ~IsTelling(q)
  BY DEF JoinWork, IsTelling
<1>4. \A q \in AmendWork : q.at = "patch group" /\ ~IsTelling(q)
  BY DEF AmendWork, IsTelling
<1>5. \A q \in EraseWork : q.at = "erase group" /\ ~IsTelling(q)
  BY DEF EraseWork, IsTelling
<1>6. NewsRequests = {Idle} \cup TellWork \cup JoinWork \cup AmendWork \cup EraseWork
  BY DEF NewsRequests, TellWork, JoinWork, AmendWork, EraseWork
<1>. QED  BY <1>1, <1>2, <1>3, <1>4, <1>5, <1>6

(* The step of q once its recipient is done with.                          *)
After(q) == [q EXCEPT !.at = FirstStep(q.how), !.to = Tail(q.to), !.spare = FALSE]

Later(q) == IF Len(q.to) = 1 THEN Idle ELSE After(q)

(* What u has had of e when its request is at p.                           *)
Stands(p, e, u, i, m, on, ever) ==
    IF p = Idle THEN Informed(e, u, i, m, on, ever) ELSE SoFar(p, e, u, i, m, on, ever)

LEMMA FirstSteps ==
    ASSUME NEW how \in Hows
    PROVE  /\ FirstStep(how) \in {"find", "presence", "store", "mail"}
           /\ OnStep(how, FirstStep(how))
           /\ how = "agreement" => FirstStep(how) = "find"
           /\ FirstStep(how) = "presence" => how # "decision"
           /\ FirstStep(how) = "store" => how \in {"contact", "decision"}
           /\ FirstStep(how) = "mail" => how = "visitor"
<1>1. CASE how = "talk"
  BY <1>1 DEF FirstStep, OnStep
<1>2. CASE how = "contact"
  BY <1>2 DEF FirstStep, OnStep
<1>3. CASE how = "decision"
  BY <1>3 DEF FirstStep, OnStep
<1>4. CASE how = "agreement"
  BY <1>4 DEF FirstStep, OnStep
<1>5. CASE how = "invite"
  BY <1>5 DEF FirstStep, OnStep
<1>6. CASE how = "visitor"
  BY <1>6 DEF FirstStep, OnStep
<1>. QED  BY <1>1, <1>2, <1>3, <1>4, <1>5, <1>6 DEF Hows

(* A request goes on to the next of its list, who has had nothing yet.     *)
LEMMA NextRecipient ==
    ASSUME NEW e, NEW q \in TellWork, NEW ever, NEW on, Suits(e), TellsOf(q, e, ever),
           q.how = "agreement" => Head(q.to) \in q.seen
    PROVE  /\ Later(q) = Idle \/ /\ Later(q) \in TellWork /\ Later(q).key = q.key
                                 /\ TellsOf(Later(q), e, ever) /\ Later(q).at # "push"
           /\ \A u \in ToSet(e.to), i \in Nat, m \in Nat :
                /\ u # Head(q.to) => SoFar(q, e, u, i, m, on, ever)
                /\ u = Head(q.to) => Informed(e, u, i, m, on, ever)
                => Stands(Later(q), e, u, i, m, on, ever)
<1>. DEFINE s == q.to
            p == After(q)
<1>1. /\ s \in Seq(NewsTo) /\ q.how \in Hows /\ q.seen \in SUBSET Readers
      /\ q.spare \in BOOLEAN /\ q.key \in NewsKeys
  BY DEF TellWork
<1>2. s # <<>>
  BY DEF TellsOf
<1>3. /\ Head(s) \in NewsTo /\ Head(s) \in ToSet(s) /\ Tail(s) \in Seq(NewsTo)
      /\ \A u \in ToSet(s) : u = Head(s) \/ u \in ToSet(Tail(s))
      /\ ToSet(Tail(s)) \subseteq ToSet(s)
      /\ Len(s) = 1 => ToSet(Tail(s)) = {}
      /\ Len(s) # 1 => Tail(s) # <<>>
      /\ Single(s) => Head(s) \notin ToSet(Tail(s)) /\ Single(Tail(s))
  <2>. HIDE DEF s
  <2>. QED  BY <1>1, <1>2, ListFacts
<1>4. /\ p \in TellWork /\ p.at = FirstStep(q.how) /\ p.how = q.how /\ p.to = Tail(s)
      /\ p.seen = q.seen /\ p.spare = FALSE /\ p.key = q.key
  BY <1>1, <1>3, FirstSteps DEF TellWork, After
<1>5. p # Idle
  BY <1>4, NewsShapes
<1>6. ASSUME Len(s) # 1 PROVE TellsOf(p, e, ever) /\ p.at # "push"
  <2>1. p.how = e.how /\ OnStep(p.how, p.at)
    BY <1>1, <1>4, FirstSteps DEF TellsOf
  <2>2. p.to # <<>> /\ ToSet(p.to) \subseteq ToSet(e.to)
    BY <1>3, <1>4, <1>6 DEF TellsOf
  <2>3. p.how # "agreement" => Single(p.to)
    BY <1>3, <1>4 DEF TellsOf
  <2>4. p.how = "agreement" => ToSet(e.to) \subseteq p.seen \cup ToSet(p.to)
    BY <1>3, <1>4 DEF TellsOf
  <2>5. p.how = "agreement" => p.at = "find"
    BY <1>1, <1>4, FirstSteps
  <2>6. p.at # "push" /\ (p.at = "store" => p.how \in {"contact", "decision"})
    BY <1>1, <1>4, FirstSteps
  <2>7. p.how \in {"contact", "decision"} => ToSet(e.to) \subseteq Readers
    BY <2>1 DEF Suits
  <2>8. p.at = "store" => Head(p.to) \in Readers
    <3>1. Head(Tail(s)) \in ToSet(Tail(s))
      <4>. HIDE DEF s
      <4>. QED  BY <1>3, <1>6, ListFacts
    <3>. QED  BY <1>4, <2>2, <2>6, <2>7, <3>1
  <2>. QED  BY <1>4, <2>1, <2>2, <2>3, <2>4, <2>5, <2>6, <2>8 DEF TellsOf
<1>7. ASSUME NEW u \in ToSet(e.to), NEW i \in Nat, NEW m \in Nat,
             u # Head(s) => SoFar(q, e, u, i, m, on, ever),
             u = Head(s) => Informed(e, u, i, m, on, ever)
      PROVE  Stands(Later(q), e, u, i, m, on, ever)
  <2>1. CASE Len(s) = 1
    <3>1. ~Awaits(q, u)
      BY <1>3, <1>7, <2>1 DEF Awaits, TellsOf
    <3>2. Informed(e, u, i, m, on, ever)
      BY <1>7, <3>1 DEF SoFar, Serves
    <3>. QED  BY <2>1, <3>2 DEF Stands, Later
  <2>2. CASE Len(s) # 1
    <3>0. SUFFICES SoFar(p, e, u, i, m, on, ever)
      BY <1>5, <2>2 DEF Stands, Later
    <3>1. Tail(s) # <<>>
      BY <1>3, <2>2
    <3>2. /\ Head(Tail(s)) \in ToSet(Tail(s))
          /\ ToSet(Tail(Tail(s))) \subseteq ToSet(Tail(s))
          /\ \A v \in ToSet(Tail(s)) : v = Head(Tail(s)) \/ v \in ToSet(Tail(Tail(s)))
          /\ Single(Tail(s)) => Head(Tail(s)) \notin ToSet(Tail(Tail(s)))
      <4>. HIDE DEF s
      <4>. QED  BY <1>3, <3>1, ListFacts
    <3>3. CASE q.how = "agreement"
      <4>1. ~Serves(p, u) /\ (Awaits(p, u) <=> u \notin q.seen)
        BY <1>1, <1>4, <3>3, FirstSteps DEF Serves, Awaits
      <4>2. Awaits(p, u) => Awaits(q, u) /\ u # Head(s)
        BY <3>3, <4>1 DEF Awaits
      <4>3. ~Awaits(p, u) => Informed(e, u, i, m, on, ever)
        BY <1>7, <3>3, <4>1 DEF Awaits, Serves, SoFar
      <4>. QED  BY <1>7, <4>1, <4>2, <4>3 DEF SoFar
    <3>4. CASE q.how # "agreement"
      <4>0. Single(s) /\ e.how = q.how
        BY <3>4 DEF TellsOf
      <4>1. /\ Awaits(q, u) <=> u \in ToSet(Tail(s))
            /\ Awaits(p, u) <=> u \in ToSet(Tail(Tail(s)))
            /\ Serves(p, u) <=> u = Head(Tail(s))
            /\ Serves(q, u) <=> u = Head(s)
        BY <1>4, <3>4 DEF Awaits, Serves
      <4>2. u \in ToSet(Tail(s)) => u # Head(s) /\ i = 0 /\ m = 0 /\ u \notin e.spared
        BY <1>3, <1>7, <4>0, <4>1 DEF SoFar
      <4>3. Filed(p) => u \notin Readers
        <5>1. Filed(p) => q.how = "visitor"
          BY <1>1, <1>4, FirstSteps DEF Filed
        <5>. QED  BY <4>0, <5>1, StrangerAssumption DEF Suits
      <4>4. u \notin ToSet(Tail(s)) => Informed(e, u, i, m, on, ever)
        BY <1>7, <4>1 DEF SoFar
      <4>5. CASE u \in ToSet(Tail(s))
        BY <1>4, <3>2, <4>1, <4>2, <4>3, <4>5 DEF SoFar
      <4>6. CASE u \notin ToSet(Tail(s))
        BY <3>2, <4>1, <4>4, <4>6 DEF SoFar
      <4>. QED  BY <4>5, <4>6
    <3>. QED  BY <3>3, <3>4
  <2>. QED  BY <2>1, <2>2
<1>. QED  BY <1>4, <1>6, <1>7 DEF Later


(* Counting in a list what has property P, and in a longer one.            *)
Hits(s, P) == {i \in DOMAIN s : P[s[i]]}

LEMMA Counted ==
    ASSUME NEW S, NEW s \in Seq(S), NEW P \in [S -> BOOLEAN]
    PROVE  /\ IsFiniteSet(Hits(s, P)) /\ Cardinality(Hits(s, P)) \in Nat
           /\ Cardinality(Hits(s, P)) = 0 <=> Hits(s, P) = {}
<1>. DEFINE C == Hits(s, P)
<1>1. Len(s) \in Nat /\ DOMAIN s = 1 .. Len(s)
  BY LenProperties
<1>2. IsFiniteSet(1 .. Len(s))
  BY <1>1, FS_Interval
<1>3. C \in SUBSET (1 .. Len(s))
  BY <1>1 DEF Hits
<1>. HIDE DEF C
<1>4. IsFiniteSet(C)
  BY <1>2, <1>3, FS_Subset
<1>5. Cardinality(C) \in Nat /\ (Cardinality(C) = 0 <=> C = {})
  BY <1>4, FS_CardinalityType, FS_EmptySet
<1>. QED  BY <1>4, <1>5 DEF C

LEMMA CountedOneMore ==
    ASSUME NEW S, NEW s \in Seq(S), NEW x \in S, NEW P \in [S -> BOOLEAN],
           NEW t, t = Append(s, x)
    PROVE  Cardinality(Hits(t, P)) = Cardinality(Hits(s, P)) + IF P[x] THEN 1 ELSE 0
<1>. DEFINE C == Hits(s, P)
            D == Hits(t, P)
            n == Len(s) + 1
<1>1. /\ Len(s) \in Nat /\ DOMAIN s = 1 .. Len(s) /\ \A i \in 1 .. Len(s) : s[i] \in S
      /\ DOMAIN t = 1 .. n /\ \A i \in 1 .. Len(s) : t[i] = s[i]
      /\ t[n] = x
  BY LenProperties, AppendProperties
<1>2. IsFiniteSet(C) /\ Cardinality(C) \in Nat
  BY Counted
<1>3. n \notin C
  BY <1>1 DEF Hits
<1>4. D = IF P[x] THEN C \cup {n} ELSE C
  <2>1. \A i \in 1 .. n : i \in 1 .. Len(s) \/ i = n
    BY <1>1
  <2>2. 1 .. Len(s) \subseteq 1 .. n /\ n \in 1 .. n /\ n \notin 1 .. Len(s)
    BY <1>1
  <2>3. P[x] \in BOOLEAN
    OBVIOUS
  <2>. HIDE DEF n
  <2>4. \A i \in 1 .. Len(s) : i \in D <=> i \in C
    BY <1>1, <2>2 DEF Hits
  <2>5. n \in D <=> P[x]
    BY <1>1, <2>2 DEF Hits
  <2>6. D \subseteq 1 .. n /\ C \subseteq 1 .. Len(s)
    BY <1>1 DEF Hits
  <2>. HIDE DEF C, D
  <2>7. CASE P[x]
    <3>1. D \subseteq C \cup {n}
      BY <2>1, <2>4, <2>6
    <3>2. C \cup {n} \subseteq D
      BY <2>4, <2>5, <2>6, <2>7
    <3>. QED  BY <2>7, <3>1, <3>2
  <2>8. CASE ~P[x]
    <3>1. D \subseteq C
      BY <2>1, <2>4, <2>5, <2>6, <2>8
    <3>2. C \subseteq D
      BY <2>4, <2>6
    <3>. QED  BY <2>8, <3>1, <3>2
  <2>. QED  BY <2>7, <2>8
<1>. HIDE DEF C, D, n
<1>5. Cardinality(C \cup {n}) = Cardinality(C) + 1
  BY <1>2, <1>3, FS_AddElement
<1>6. Cardinality(D) = Cardinality(C) + IF P[x] THEN 1 ELSE 0
  BY <1>2, <1>4, <1>5
<1>. QED  BY <1>6 DEF C, D

(* What the type says of the lists, and that a news is in them.            *)
Reads(u) == {i \in DOMAIN inbox : inbox[i].to = u /\ inbox[i].read}

OfReader(u, k) == [d \in News |-> d.to = u /\ d.key = k]
ReadBy(u)      == [d \in News |-> d.to = u /\ d.read]
Mailed(u, k)   == [p \in NewsTo \X NewsKeys |-> p = <<u, k>>]

LEMMA NewsCounts ==
    ASSUME TypeOKNews, NEW u, NEW k
    PROVE  /\ Inboxed(u, k) \in Nat /\ Mails(u, k) \in Nat
           /\ Inboxed(u, k) > 0 <=> Shown(u, k)
           /\ (\A i \in DOMAIN mailed : mailed[i] # <<u, k>>) => Mails(u, k) = 0
<1>. USE DEF TypeOKNews
<1>1. OfReader(u, k) \in [News -> BOOLEAN] /\ Mailed(u, k) \in [NewsTo \X NewsKeys -> BOOLEAN]
  BY DEF OfReader, Mailed
<1>2. \A i \in DOMAIN inbox : inbox[i] \in News
  BY LenProperties
<1>3. \A i \in DOMAIN mailed : mailed[i] \in NewsTo \X NewsKeys
  BY LenProperties
<1>. DEFINE C == Hits(inbox, OfReader(u, k))
            D == Hits(mailed, Mailed(u, k))
<1>4. C = {i \in DOMAIN inbox : inbox[i].to = u /\ inbox[i].key = k}
  BY <1>2 DEF OfReader, Hits
<1>5. D = {i \in DOMAIN mailed : mailed[i] = <<u, k>>}
  BY <1>3 DEF Mailed, Hits
<1>6. Cardinality(C) \in Nat /\ (Cardinality(C) = 0 <=> C = {})
  BY <1>1, Counted
<1>7. Cardinality(D) \in Nat /\ (Cardinality(D) = 0 <=> D = {})
  BY <1>1, Counted
<1>8. Shown(u, k) <=> C # {}
  BY <1>4 DEF Shown
<1>9. (\A i \in DOMAIN mailed : mailed[i] # <<u, k>>) => D = {}
  BY <1>5
<1>10. Inboxed(u, k) = Cardinality(C) /\ Mails(u, k) = Cardinality(D)
  BY <1>4, <1>5 DEF Inboxed, Mails
<1>. HIDE DEF C, D
<1>. QED  BY <1>6, <1>7, <1>8, <1>9, <1>10

LEMMA InboxGrows ==
    ASSUME TypeOKNews, NEW d \in News, ~d.read, inbox' = Append(inbox, d)
    PROVE  /\ \A u, k : Inboxed(u, k)' = Inboxed(u, k) + IF d.to = u /\ d.key = k THEN 1 ELSE 0
           /\ \A u, k : Shown(u, k) => Shown(u, k)'
           /\ Shown(d.to, d.key)'
           /\ \A u : Cardinality(Reads(u))' = Cardinality(Reads(u))
           /\ \A i \in DOMAIN inbox' :
                (i \in DOMAIN inbox /\ inbox'[i] = inbox[i]) \/ inbox'[i] = d
           /\ inbox' \in Seq(News)
<1>. USE DEF TypeOKNews
<1>1. /\ Len(inbox) \in Nat /\ DOMAIN inbox = 1 .. Len(inbox)
      /\ \A i \in DOMAIN inbox : inbox[i] \in News
      /\ inbox' \in Seq(News) /\ DOMAIN inbox' = 1 .. Len(inbox) + 1
      /\ \A i \in 1 .. Len(inbox) : inbox'[i] = inbox[i]
      /\ inbox'[Len(inbox) + 1] = d
      /\ \A i \in DOMAIN inbox' : inbox'[i] \in News
  BY LenProperties, AppendProperties
<1>2. \A i \in DOMAIN inbox' :
        (i \in DOMAIN inbox /\ inbox'[i] = inbox[i]) \/ inbox'[i] = d
  <2>1. \A i \in 1 .. Len(inbox) + 1 : i \in 1 .. Len(inbox) \/ i = Len(inbox) + 1
    BY <1>1
  <2>. QED  BY <1>1, <2>1
<1>3. ASSUME NEW u, NEW k
      PROVE  Inboxed(u, k)' = Inboxed(u, k) + IF d.to = u /\ d.key = k THEN 1 ELSE 0
  <2>1. OfReader(u, k) \in [News -> BOOLEAN] /\ (OfReader(u, k)[d] <=> d.to = u /\ d.key = k)
    BY DEF OfReader
  <2>2. {i \in DOMAIN inbox : inbox[i].to = u /\ inbox[i].key = k}
          = Hits(inbox, OfReader(u, k))
    BY <1>1 DEF OfReader, Hits
  <2>3. {i \in DOMAIN inbox' : inbox'[i].to = u /\ inbox'[i].key = k}
          = Hits(inbox', OfReader(u, k))
    BY <1>1 DEF OfReader, Hits
  <2>. HIDE DEF OfReader
  <2>0. inbox \in Seq(News) /\ d \in News /\ inbox' = Append(inbox, d)
    OBVIOUS
  <2>4. Cardinality(Hits(inbox', OfReader(u, k)))
          = Cardinality(Hits(inbox, OfReader(u, k)))
              + IF OfReader(u, k)[d] THEN 1 ELSE 0
    BY <2>0, <2>1, CountedOneMore
  <2>5. Inboxed(u, k) = Cardinality(Hits(inbox, OfReader(u, k)))
    BY <2>2 DEF Inboxed
  <2>6. Inboxed(u, k)' = Cardinality(Hits(inbox', OfReader(u, k)))
    BY <2>3 DEF Inboxed
  <2>. QED  BY <2>1, <2>4, <2>5, <2>6
<1>4. ASSUME NEW u PROVE Cardinality(Reads(u))' = Cardinality(Reads(u))
  <2>1. Reads(u)' \subseteq Reads(u)
    BY <1>2 DEF Reads
  <2>2. Reads(u) \subseteq Reads(u)'
    <3>1. \A i \in 1 .. Len(inbox) : i \in 1 .. Len(inbox) + 1
      BY <1>1
    <3>. QED  BY <1>1, <3>1 DEF Reads
  <2>3. Reads(u)' = Reads(u)
    BY <2>1, <2>2
  <2>. QED  BY <2>3, Zenon
<1>5. \A u, k : Shown(u, k) => Shown(u, k)'
  <2>1. \A i \in 1 .. Len(inbox) : i \in 1 .. Len(inbox) + 1
    BY <1>1
  <2>. QED  BY <1>1, <2>1 DEF Shown
<1>6. Shown(d.to, d.key)'
  <2>1. Len(inbox) + 1 \in 1 .. Len(inbox) + 1
    BY <1>1
  <2>. QED  BY <1>1, <2>1 DEF Shown
<1>. QED  BY <1>1, <1>2, <1>3, <1>4, <1>5, <1>6

LEMMA MailGrows ==
    ASSUME TypeOKNews, NEW p \in NewsTo \X NewsKeys, mailed' = Append(mailed, p)
    PROVE  /\ \A u, k : Mails(u, k)' = Mails(u, k) + IF p = <<u, k>> THEN 1 ELSE 0
           /\ \A i \in DOMAIN mailed' :
                (i \in DOMAIN mailed /\ mailed'[i] = mailed[i]) \/ mailed'[i] = p
           /\ mailed' \in Seq(NewsTo \X NewsKeys)
<1>. USE DEF TypeOKNews
<1>. DEFINE T == NewsTo \X NewsKeys
<1>1. /\ Len(mailed) \in Nat /\ DOMAIN mailed = 1 .. Len(mailed)
      /\ \A i \in DOMAIN mailed : mailed[i] \in T
      /\ mailed' \in Seq(T) /\ DOMAIN mailed' = 1 .. Len(mailed) + 1
      /\ \A i \in 1 .. Len(mailed) : mailed'[i] = mailed[i]
      /\ mailed'[Len(mailed) + 1] = p
      /\ \A i \in DOMAIN mailed' : mailed'[i] \in T
  <2>. HIDE DEF T
  <2>1. mailed \in Seq(T) /\ p \in T
    BY DEF T
  <2>. QED  BY <2>1, LenProperties, AppendProperties
<1>2. \A i \in DOMAIN mailed' :
        (i \in DOMAIN mailed /\ mailed'[i] = mailed[i]) \/ mailed'[i] = p
  <2>1. \A i \in 1 .. Len(mailed) + 1 : i \in 1 .. Len(mailed) \/ i = Len(mailed) + 1
    BY <1>1
  <2>. QED  BY <1>1, <2>1
<1>3. ASSUME NEW u, NEW k
      PROVE  Mails(u, k)' = Mails(u, k) + IF p = <<u, k>> THEN 1 ELSE 0
  <2>1. Mailed(u, k) \in [T -> BOOLEAN] /\ (Mailed(u, k)[p] <=> p = <<u, k>>)
    BY DEF Mailed
  <2>2. {i \in DOMAIN mailed : mailed[i] = <<u, k>>}
          = Hits(mailed, Mailed(u, k))
    BY <1>1 DEF Mailed, Hits
  <2>3. {i \in DOMAIN mailed' : mailed'[i] = <<u, k>>}
          = Hits(mailed', Mailed(u, k))
    BY <1>1 DEF Mailed, Hits
  <2>. HIDE DEF Mailed
  <2>0. mailed \in Seq(T) /\ p \in T /\ mailed' = Append(mailed, p)
    OBVIOUS
  <2>4. Cardinality(Hits(mailed', Mailed(u, k)))
          = Cardinality(Hits(mailed, Mailed(u, k)))
              + IF Mailed(u, k)[p] THEN 1 ELSE 0
    BY <2>0, <2>1, CountedOneMore
  <2>5. Mails(u, k) = Cardinality(Hits(mailed, Mailed(u, k)))
    BY <2>2 DEF Mails
  <2>6. Mails(u, k)' = Cardinality(Hits(mailed', Mailed(u, k)))
    BY <2>3 DEF Mails
  <2>. QED  BY <2>1, <2>4, <2>5, <2>6
<1>. QED  BY <1>1, <1>2, <1>3

(***************************************************************************)
(* What a step of one request leaves of the invariant                      *)
(***************************************************************************)

LEMMA InboxSame ==
    ASSUME inbox' = inbox
    PROVE  /\ \A u, k : Inboxed(u, k)' = Inboxed(u, k) /\ Shown(u, k)' = Shown(u, k)
           /\ \A u : Cardinality(Reads(u))' = Cardinality(Reads(u))
BY DEF Inboxed, Shown, Reads

LEMMA MailSame == mailed' = mailed => \A u, k : Mails(u, k)' = Mails(u, k)
BY DEF Mails

(* A request that tells an event, in its slot.                             *)
LEMMA Teller ==
    ASSUME NewsInv, NEW r \in Requests,
           IsTelling(nreq[r]) \/ nreq[r].at \in {"find", "presence", "store", "push", "mail"}
    PROVE  /\ nreq[r] \in TellWork /\ nreq[r].key \in DOMAIN events
           /\ Suits(events[nreq[r].key])
           /\ TellsOf(nreq[r], events[nreq[r].key], once)
           /\ nreq[r].at = "push" => Shown(Head(nreq[r].to), nreq[r].key)
<1>1. nreq[r] \in NewsRequests /\ KnowsEvent(nreq[r])
  BY DEF NewsInv, TypeOKNews
<1>2. nreq[r] \in TellWork /\ IsTelling(nreq[r])
  BY <1>1, NewsShapes
<1>. QED  BY <1>1, <1>2 DEF NewsInv, KnowsEvent

(* Request r, at q, goes on to p or ends.                                  *)
LEMMA NewsTold ==
    ASSUME NewsInv, NEW r \in Requests, NEW q \in TellWork, nreq[r] = q,
           NEW p, p = Idle \/ (p \in TellWork /\ p.key = q.key),
           nreq' = [nreq EXCEPT ![r] = p], UNCHANGED <<once, groups>>,
           \A u, k : Shown(u, k) => Shown(u, k)',
           DOMAIN events' = DOMAIN events,
           \A k \in DOMAIN events : k # q.key => events'[k] = events[k],
           Suits(events'[q.key]),
           p # Idle => TellsOf(p, events'[q.key], once),
           p # Idle /\ p.at = "push" => Shown(Head(p.to), p.key)'
    PROVE  /\ nreq' \in [Requests -> NewsRequests]
           /\ (\A k \in DOMAIN events : Suits(events[k]))'
           /\ (\A s \in Requests : KnowsEvent(nreq[s]) /\ NamesGroup(nreq[s]))'
           /\ OneTeller'
<1>1. nreq \in [Requests -> NewsRequests] /\ p \in NewsRequests
  BY NewsShapes DEF NewsInv, TypeOKNews
<1>2. nreq' \in [Requests -> NewsRequests] /\ nreq'[r] = p
      /\ \A s \in Requests \ {r} : nreq'[s] = nreq[s]
  BY <1>1
<1>3. IsTelling(q) /\ ~IsTelling(Idle) /\ (IsTelling(p) => p.key = q.key /\ p # Idle)
  BY NewsShapes
<1>4. q.key \in DOMAIN events
  BY <1>3, Teller
<1>5. (\A k \in DOMAIN events : Suits(events[k]))'
  BY DEF NewsInv
<1>6. ASSUME NEW s \in Requests PROVE KnowsEvent(nreq[s])' /\ NamesGroup(nreq[s])'
  <2>1. CASE s = r
    <3>1. KnowsEvent(nreq[s])'
      BY <1>2, <1>3, <1>4, <2>1 DEF KnowsEvent
    <3>2. p.at \notin {"insert group", "patch group", "erase group"}
      <4>1. Idle.at = "idle"
        BY DEF Idle
      <4>2. \A x \in TellWork : x.at \in {"find", "presence", "store", "push", "mail"}
        BY DEF TellWork
      <4>. QED  BY <4>1, <4>2
    <3>. QED  BY <1>2, <2>1, <3>1, <3>2 DEF NamesGroup
  <2>2. CASE s # r
    <3>1. nreq'[s] = nreq[s] /\ KnowsEvent(nreq[s]) /\ NamesGroup(nreq[s])
      BY <1>2, <2>2 DEF NewsInv
    <3>2. IsTelling(nreq[s]) => nreq[s].key # q.key
      BY <1>3, <2>2 DEF NewsInv, OneTeller
    <3>3. KnowsEvent(nreq[s])'
      BY <3>1, <3>2 DEF KnowsEvent
    <3>. QED  BY <3>1, <3>3 DEF NamesGroup
  <2>. QED  BY <2>1, <2>2
<1>7. OneTeller'
  <2>1. \A s \in Requests : IsTelling(nreq'[s]) => IsTelling(nreq[s]) /\ nreq'[s].key = nreq[s].key
    BY <1>2, <1>3
  <2>. QED  BY <2>1 DEF NewsInv, OneTeller
<1>. QED  BY <1>2, <1>5, <1>6, <1>7

LEMMA NewsProgressed ==
    ASSUME NewsInv, Progress, NEW r \in Requests, NEW q \in TellWork, nreq[r] = q,
           NEW p, p = Idle \/ (p \in TellWork /\ p.key = q.key),
           nreq' = [nreq EXCEPT ![r] = p], UNCHANGED <<active, once>>,
           DOMAIN events' = DOMAIN events,
           \A k \in DOMAIN events : k # q.key => events'[k] = events[k],
           \A u, k : k # q.key => Inboxed(u, k)' = Inboxed(u, k) /\ Mails(u, k)' = Mails(u, k),
           \A u \in ToSet(events'[q.key].to) :
               Stands(p, events'[q.key], u, Inboxed(u, q.key)', Mails(u, q.key)', active, once)
    PROVE  Progress'
<1>1. nreq \in [Requests -> NewsRequests]
  BY DEF NewsInv, TypeOKNews
<1>2. nreq'[r] = p /\ \A s \in Requests \ {r} : nreq'[s] = nreq[s]
  BY <1>1
<1>3. /\ IsTelling(q) /\ ~IsTelling(Idle)
      /\ IsTelling(p) => p.key = q.key /\ p # Idle
      /\ p # Idle => IsTelling(p) /\ p.key = q.key
  BY NewsShapes
<1>4. SUFFICES ASSUME NEW k \in DOMAIN events, NEW u \in ToSet(events'[k].to)
      PROVE  /\ \A s \in Requests : IsTelling(nreq'[s]) /\ nreq'[s].key = k =>
                   SoFar(nreq'[s], events'[k], u, Inboxed(u, k)', Mails(u, k)', active, once)
             /\ AllTold(k)' =>
                   Informed(events'[k], u, Inboxed(u, k)', Mails(u, k)', active, once)
  BY DEF Progress
<1>5. CASE k # q.key
  <2>1. /\ \A s \in Requests : IsTelling(nreq[s]) /\ nreq[s].key = k =>
              SoFar(nreq[s], events[k], u, Inboxed(u, k), Mails(u, k), active, once)
        /\ AllTold(k) =>
              Informed(events[k], u, Inboxed(u, k), Mails(u, k), active, once)
    BY <1>5 DEF Progress
  <2>2. AllTold(k)' => AllTold(k)
    BY <1>2, <1>5 DEF AllTold
  <2>3. \A s \in Requests : IsTelling(nreq'[s]) /\ nreq'[s].key = k =>
           nreq'[s] = nreq[s]
    BY <1>2, <1>3, <1>5
  <2>4. /\ events'[k] = events[k] /\ Inboxed(u, k)' = Inboxed(u, k)
        /\ Mails(u, k)' = Mails(u, k)
    BY <1>5
  <2>. QED  BY <2>1, <2>2, <2>3, <2>4
<1>6. CASE k = q.key
  <2>1. Stands(p, events'[k], u, Inboxed(u, k)', Mails(u, k)', active, once)
    BY <1>6
  <2>2. \A s \in Requests : IsTelling(nreq'[s]) /\ nreq'[s].key = k => s = r
    BY <1>2, <1>3, <1>6 DEF NewsInv, OneTeller
  <2>3. AllTold(k)' => p = Idle
    BY <1>2, <1>3, <1>6 DEF AllTold, IsTelling
  <2>4. ASSUME NEW s \in Requests, IsTelling(nreq'[s]), nreq'[s].key = k
        PROVE  SoFar(nreq'[s], events'[k], u, Inboxed(u, k)', Mails(u, k)', active, once)
    <3>1. nreq'[s] = p /\ p # Idle
      BY <1>2, <1>3, <2>2, <2>4
    <3>. QED  BY <2>1, <3>1 DEF Stands
  <2>5. AllTold(k)' =>
          Informed(events'[k], u, Inboxed(u, k)', Mails(u, k)', active, once)
    BY <2>1, <2>3 DEF Stands
  <2>. QED  BY <2>4, <2>5
<1>. QED  BY <1>5, <1>6

(* A step that stores nothing and mails nothing.                           *)
LEMMA NewsStep ==
    ASSUME NewsInv, NEW r \in Requests, NEW q \in TellWork, nreq[r] = q, NEW p,
           \/ p = Idle
           \/ /\ p \in TellWork /\ p.key = q.key
              /\ TellsOf(p, events[q.key], once) /\ p.at # "push",
           nreq' = [nreq EXCEPT ![r] = p],
           UNCHANGED <<overlap, faults, peopleVars, inbox, mailed, events, answered,
                       groupVars, nmoves>>,
           \/ pushed' = pushed
           \/ q.at = "push" /\ pushed' = pushed \cup {<<Head(q.to), q.key>>},
           \A u \in ToSet(events[q.key].to), i \in Nat, m \in Nat :
               SoFar(q, events[q.key], u, i, m, active, once) =>
                   Stands(p, events[q.key], u, i, m, active, once)
    PROVE  NewsInv'
<1>1. /\ IsTelling(q) /\ q.key \in DOMAIN events /\ Suits(events[q.key])
      /\ TellsOf(q, events[q.key], once)
      /\ q.at = "push" => Shown(Head(q.to), q.key)
  BY NewsShapes, Teller
<1>2. /\ \A u, k : Inboxed(u, k)' = Inboxed(u, k) /\ Shown(u, k)' = Shown(u, k)
      /\ \A u : Cardinality(Reads(u))' = Cardinality(Reads(u))
      /\ \A u, k : Mails(u, k)' = Mails(u, k)
  BY InboxSame, MailSame
<1>3. /\ nreq' \in [Requests -> NewsRequests]
      /\ (\A k \in DOMAIN events : Suits(events[k]))'
      /\ (\A s \in Requests : KnowsEvent(nreq[s]) /\ NamesGroup(nreq[s]))'
      /\ OneTeller'
  BY <1>1, <1>2, NewsTold DEF peopleVars, groupVars
<1>4. TypeOKNews'
  <2>1. pushed' \subseteq Readers \X NewsKeys
    <3>1. q.at = "push" => Head(q.to) \in Readers
      BY <1>1 DEF TellsOf
    <3>. QED  BY <3>1 DEF NewsInv, TypeOKNews, TellWork
  <2>. QED  BY <1>3, <2>1 DEF NewsInv, TypeOKNews, peopleVars, groupVars
<1>5. Kept'
  <2>1. \A x \in pushed' : x \in pushed \/ (q.at = "push" /\ x = <<Head(q.to), q.key>>)
    OBVIOUS
  <2>2. \A x \in pushed' : Shown(x[1], x[2])'
    BY <1>1, <1>2, <2>1 DEF NewsInv, Kept
  <2>. QED  BY <2>2 DEF NewsInv, Kept
<1>6. ReadOnce' /\ GroupsHold'
  BY <1>2 DEF NewsInv, ReadOnce, GroupsHold, Reads, peopleVars, groupVars
<1>7. ~faults => Progress'
  <2>1. SUFFICES ASSUME ~faults PROVE Progress'
    OBVIOUS
  <2>2. Progress
    BY <2>1 DEF NewsInv
  <2>3. ASSUME NEW u \in ToSet(events[q.key].to)
        PROVE  Stands(p, events[q.key], u, Inboxed(u, q.key), Mails(u, q.key), active, once)
    <3>1. Inboxed(u, q.key) \in Nat /\ Mails(u, q.key) \in Nat
      BY NewsCounts DEF NewsInv
    <3>2. SoFar(q, events[q.key], u, Inboxed(u, q.key), Mails(u, q.key), active, once)
      BY <1>1, <2>2 DEF Progress
    <3>. QED  BY <3>1, <3>2
  <2>. QED  BY <1>1, <1>2, <2>2, <2>3, NewsProgressed DEF peopleVars
<1>. QED  BY <1>3, <1>4, <1>5, <1>6, <1>7 DEF NewsInv

(***************************************************************************)
(* The steps of telling                                                    *)
(***************************************************************************)

LEMMA FindKeeps ==
    ASSUME NewsInv, NEW r \in Requests, FindRecipient(r)
    PROVE  NewsInv'
<1>1. PICK q : q = nreq[r]
  OBVIOUS
<1>2. PICK e, on, ever : e = events[q.key] /\ on = active /\ ever = once
  OBVIOUS
<1>3. q \in TellWork /\ q.at = "find" /\ Suits(e) /\ TellsOf(q, e, ever)
  BY <1>1, <1>2, Teller DEF FindRecipient
<1>4. on \subseteq ever /\ ever \subseteq Readers
  BY <1>2 DEF NewsInv, TypeOKNews
<1>. DEFINE h == Head(q.to)
            Fit(p) == \/ p = Idle
                      \/ /\ p \in TellWork /\ p.key = q.key
                         /\ TellsOf(p, e, ever) /\ p.at # "push"
            Fair(p) == \A u \in ToSet(e.to), i \in Nat, m \in Nat :
                          SoFar(q, e, u, i, m, on, ever) => Stands(p, e, u, i, m, on, ever)
<1>5. ASSUME NEW p, nreq' = [nreq EXCEPT ![r] = p], Fit(p), Fair(p)
      PROVE  NewsInv'
  <2>1. UNCHANGED <<overlap, faults, peopleVars, inbox, mailed, pushed, events, answered,
                    groupVars, nmoves>>
    BY DEF FindRecipient
  <2>. QED  BY <1>1, <1>2, <1>3, <1>5, <2>1, NewsStep
<1>6. /\ h \in NewsTo /\ h \in ToSet(q.to) /\ q.how \in {"agreement", "invite"}
      /\ q.how = e.how /\ q.seen \subseteq Readers /\ ~q.spare /\ q.spare \in BOOLEAN
      /\ q.to \in Seq(NewsTo)
  <2>1. q.to \in Seq(NewsTo) /\ q.to # <<>>
    BY <1>3 DEF TellWork, TellsOf
  <2>2. h \in NewsTo /\ h \in ToSet(q.to)
    BY <2>1, ListFacts
  <2>. QED  BY <1>3, <2>1, <2>2 DEF TellWork, TellsOf, OnStep
<1>7. CASE q.how = "invite"
  <2>1. PICK p : p = [q EXCEPT !.at = IF h = Stranger THEN "mail" ELSE "store"]
    OBVIOUS
  <2>2. nreq' = [nreq EXCEPT ![r] = p]
    BY <1>1, <1>7, <2>1 DEF FindRecipient, Goes, Recipient
  <2>3. /\ p \in TellWork /\ p.key = q.key /\ p.how = q.how /\ p.to = q.to
        /\ p.seen = q.seen /\ p.spare = q.spare
        /\ p.at = IF h = Stranger THEN "mail" ELSE "store"
    BY <1>3, <2>1 DEF TellWork
  <2>4. p.at = "store" => h \in Readers
    BY <1>6, <2>3 DEF NewsTo
  <2>5. TellsOf(p, e, ever)
    BY <1>3, <1>6, <1>7, <2>3, <2>4 DEF TellsOf, OnStep
  <2>6. p # Idle
    BY <2>3, NewsShapes
  <2>7. ASSUME NEW u, NEW i \in Nat, NEW m \in Nat, SoFar(q, e, u, i, m, on, ever)
        PROVE  SoFar(p, e, u, i, m, on, ever)
    <3>1. /\ Awaits(p, u) <=> Awaits(q, u)
          /\ Serves(p, u) <=> Serves(q, u)
      BY <1>7, <2>3 DEF Awaits, Serves
    <3>2. ~Filed(q) /\ (Filed(p) => h = Stranger)
      BY <1>3, <2>3 DEF Filed
    <3>3. Serves(p, u) => u = h
      BY <2>3 DEF Serves
    <3>. QED  BY <2>3, <2>7, <3>1, <3>2, <3>3, StrangerAssumption DEF SoFar
  <2>. QED  BY <1>5, <2>2, <2>3, <2>5, <2>6, <2>7 DEF Stands
<1>8. CASE q.how = "agreement"
  <2>0. h \in Readers
    <3>1. ToSet(q.to) \subseteq ToSet(e.to)
      BY <1>3 DEF TellsOf
    <3>. QED  BY <1>3, <1>6, <1>8, <3>1 DEF Suits
  <2>1. PICK noted : noted = [q EXCEPT !.seen = @ \cup {h}]
    OBVIOUS
  <2>2. /\ noted \in TellWork /\ noted.key = q.key /\ noted.how = q.how /\ noted.to = q.to
        /\ noted.seen = q.seen \cup {h} /\ noted.spare = q.spare /\ noted.at = q.at
    BY <1>3, <1>6, <2>0, <2>1 DEF TellWork
  <2>3. TellsOf(noted, e, ever)
    BY <1>3, <2>2 DEF TellsOf
  <2>4. CASE Skips(q)
    <3>1. nreq' = [nreq EXCEPT ![r] = Later(noted)]
      BY <1>1, <1>8, <2>1, <2>4
         DEF FindRecipient, Recipient, Skips, Onward, Ends, Goes, Later, After
    <3>2. /\ Later(noted) = Idle
             \/ /\ Later(noted) \in TellWork /\ Later(noted).key = q.key
                /\ TellsOf(Later(noted), e, ever) /\ Later(noted).at # "push"
          /\ \A u \in ToSet(e.to), i \in Nat, m \in Nat :
                /\ u # h => SoFar(noted, e, u, i, m, on, ever)
                /\ u = h => Informed(e, u, i, m, on, ever)
                => Stands(Later(noted), e, u, i, m, on, ever)
      BY <1>3, <2>2, <2>3, NextRecipient
    <3>3. ASSUME NEW u \in ToSet(e.to), NEW i \in Nat, NEW m \in Nat,
                 SoFar(q, e, u, i, m, on, ever)
          PROVE  Stands(Later(noted), e, u, i, m, on, ever)
      <4>1. ~Serves(q, u) /\ ~Serves(noted, u)
        BY <1>3, <1>8, <2>2 DEF Serves
      <4>2. /\ Awaits(q, u) <=> u \notin q.seen
            /\ Awaits(noted, u) <=> u \notin q.seen /\ u # h
        BY <1>8, <2>2 DEF Awaits
      <4>3. u # h => SoFar(noted, e, u, i, m, on, ever)
        BY <2>2, <3>3, <4>1, <4>2 DEF SoFar
      <4>4. u = h => Informed(e, u, i, m, on, ever)
        <5>1. CASE u = h /\ h \in q.seen
          BY <3>3, <4>1, <4>2, <5>1 DEF SoFar
        <5>2. CASE u = h /\ h \notin q.seen
          <6>1. h \notin on
            BY <1>1, <1>2, <2>4, <5>2 DEF Skips, Recipient
          <6>2. i = 0 /\ m = 0
            BY <3>3, <4>2, <5>2 DEF SoFar
          <6>. QED  BY <1>6, <1>8, <5>2, <6>1, <6>2 DEF Informed
        <5>. QED  BY <5>1, <5>2
      <4>. QED  BY <3>2, <4>3, <4>4
    <3>. QED  BY <1>5, <3>1, <3>2, <3>3
  <2>5. CASE ~Skips(q)
    <3>1. PICK p : p = [noted EXCEPT !.at = "store"]
      OBVIOUS
    <3>2. nreq' = [nreq EXCEPT ![r] = p]
      BY <1>1, <1>8, <2>1, <2>5, <3>1 DEF FindRecipient, Recipient, Goes
    <3>3. /\ p \in TellWork /\ p.key = q.key /\ p.how = q.how /\ p.to = q.to
          /\ p.seen = q.seen \cup {h} /\ p.spare = q.spare /\ p.at = "store"
      BY <2>2, <3>1 DEF TellWork
    <3>4. h \notin q.seen /\ h \in on
      BY <1>1, <1>2, <2>5 DEF Skips, Recipient
    <3>5. TellsOf(p, e, ever)
      BY <1>3, <1>4, <1>6, <1>8, <2>0, <3>3, <3>4 DEF TellsOf, OnStep
    <3>6. p # Idle
      BY <3>3, NewsShapes
    <3>7. ASSUME NEW u, NEW i \in Nat, NEW m \in Nat, SoFar(q, e, u, i, m, on, ever)
          PROVE  SoFar(p, e, u, i, m, on, ever)
      <4>1. /\ ~Serves(q, u) /\ (Serves(p, u) <=> u = h) /\ ~Filed(p)
            /\ Awaits(q, u) <=> u \notin q.seen
            /\ Awaits(p, u) <=> u \notin q.seen /\ u # h
        BY <1>3, <1>8, <3>3 DEF Serves, Awaits, Filed
      <4>. QED  BY <1>6, <3>3, <3>4, <3>7, <4>1 DEF SoFar
    <3>. QED  BY <1>5, <3>2, <3>3, <3>5, <3>6, <3>7 DEF Stands
  <2>. QED  BY <2>4, <2>5
<1>. QED  BY <1>6, <1>7, <1>8

LEMMA PushKeeps ==
    ASSUME NewsInv, NEW r \in Requests, PushNews(r)
    PROVE  NewsInv'
<1>1. PICK q : q = nreq[r]
  OBVIOUS
<1>2. PICK e, on, ever : e = events[q.key] /\ on = active /\ ever = once
  OBVIOUS
<1>3. q \in TellWork /\ q.at = "push" /\ Suits(e) /\ TellsOf(q, e, ever)
  BY <1>1, <1>2, Teller DEF PushNews
<1>. DEFINE h == Head(q.to)
            Fit(p) == \/ p = Idle
                      \/ /\ p \in TellWork /\ p.key = q.key
                         /\ TellsOf(p, e, ever) /\ p.at # "push"
            Fair(p) == \A u \in ToSet(e.to), i \in Nat, m \in Nat :
                          SoFar(q, e, u, i, m, on, ever) => Stands(p, e, u, i, m, on, ever)
<1>5. ASSUME NEW p, nreq' = [nreq EXCEPT ![r] = p], Fit(p), Fair(p)
      PROVE  NewsInv'
  <2>1. UNCHANGED <<overlap, faults, peopleVars, inbox, mailed, events, answered,
                    groupVars, nmoves>>
    BY DEF PushNews
  <2>2. pushed' = pushed \/ (q.at = "push" /\ pushed' = pushed \cup {<<h, q.key>>})
    BY <1>1, <1>3 DEF PushNews, Recipient
  <2>. HIDE DEF h
  <2>. QED  BY <1>1, <1>2, <1>3, <1>5, <2>1, <2>2, NewsStep DEF h
<1>6. /\ q.how = e.how /\ q.how # "visitor" /\ (q.how = "agreement" => h \in q.seen)
      /\ q.spare \in BOOLEAN /\ (q.spare => q.how = "talk") /\ h \in Readers
      /\ q.how # "agreement" => h \notin ToSet(Tail(q.to))
  <2>1. q.to \in Seq(NewsTo) /\ q.to # <<>>
    BY <1>3 DEF TellWork, TellsOf
  <2>2. q.how # "agreement" => h \notin ToSet(Tail(q.to))
    BY <1>3, <2>1, ListFacts DEF TellsOf
  <2>. QED  BY <1>3, <2>1, <2>2 DEF TellWork, TellsOf, OnStep
<1>7. ~Awaits(q, h) /\ Serves(q, h) /\ Filed(q) /\ \A u : Serves(q, u) => u = h
  BY <1>3, <1>6 DEF Awaits, Serves, Filed
<1>8. CASE q.spare
  <2>1. nreq' = [nreq EXCEPT ![r] = Later(q)]
    BY <1>1, <1>6, <1>8 DEF PushNews, Onward, Ends, Goes, Later, After
  <2>2. /\ Later(q) = Idle
           \/ /\ Later(q) \in TellWork /\ Later(q).key = q.key
              /\ TellsOf(Later(q), e, ever) /\ Later(q).at # "push"
        /\ \A u \in ToSet(e.to), i \in Nat, m \in Nat :
              /\ u # h => SoFar(q, e, u, i, m, on, ever)
              /\ u = h => Informed(e, u, i, m, on, ever)
              => Stands(Later(q), e, u, i, m, on, ever)
    BY <1>3, <1>6, NextRecipient
  <2>3. ASSUME NEW i \in Nat, NEW m \in Nat, SoFar(q, e, h, i, m, on, ever)
        PROVE  Informed(e, h, i, m, on, ever)
    BY <1>6, <1>7, <1>8, <2>3 DEF SoFar, Informed
  <2>. QED  BY <1>5, <2>1, <2>2, <2>3
<1>9. CASE ~q.spare
  <2>1. PICK p : p = [q EXCEPT !.at = IF q.how = "decision" THEN "presence" ELSE "mail"]
    OBVIOUS
  <2>2. nreq' = [nreq EXCEPT ![r] = p]
    BY <1>1, <1>9, <2>1 DEF PushNews, Goes
  <2>3. /\ p \in TellWork /\ p.key = q.key /\ p.how = q.how /\ p.to = q.to
        /\ p.seen = q.seen /\ p.spare = q.spare
        /\ p.at = IF q.how = "decision" THEN "presence" ELSE "mail"
    BY <1>3, <2>1 DEF TellWork
  <2>4. TellsOf(p, e, ever) /\ p.at # "push" /\ Filed(p)
    BY <1>3, <1>6, <1>9, <2>3 DEF TellsOf, OnStep, Filed, TellWork, Hows
  <2>5. p # Idle
    BY <2>3, NewsShapes
  <2>6. ASSUME NEW u, NEW i \in Nat, NEW m \in Nat, SoFar(q, e, u, i, m, on, ever)
        PROVE  SoFar(p, e, u, i, m, on, ever)
    <3>1. /\ Awaits(p, u) <=> Awaits(q, u)
          /\ Serves(p, u) <=> Serves(q, u)
      BY <1>3, <2>3 DEF Awaits, Serves
    <3>. QED  BY <1>7, <2>3, <2>4, <2>6, <3>1 DEF SoFar
  <2>. QED  BY <1>5, <2>2, <2>3, <2>4, <2>5, <2>6 DEF Stands
<1>. QED  BY <1>6, <1>8, <1>9

(* What a request has done for the recipient it is at, and that it is not  *)
(* waiting for it.                                                         *)
LEMMA AtRecipient ==
    ASSUME NEW q \in TellWork, NEW e, NEW ever, TellsOf(q, e, ever), q.at # "find"
    PROVE  /\ q.to \in Seq(NewsTo) /\ q.to # <<>> /\ Head(q.to) \in NewsTo
           /\ Head(q.to) \in ToSet(e.to)
           /\ q.how = "agreement" => Head(q.to) \in q.seen /\ Head(q.to) \in ever
           /\ ~Awaits(q, Head(q.to))
           /\ \A u : Serves(q, u) <=> u = Head(q.to)
<1>1. q.to \in Seq(NewsTo) /\ q.to # <<>>
  BY DEF TellWork, TellsOf
<1>2. /\ Head(q.to) \in NewsTo /\ Head(q.to) \in ToSet(q.to)
      /\ Single(q.to) => Head(q.to) \notin ToSet(Tail(q.to))
  BY <1>1, ListFacts
<1>. QED  BY <1>1, <1>2 DEF TellsOf, Awaits, Serves

LEMMA StoreKeeps ==
    ASSUME NewsInv, NEW r \in Requests, StoreNews(r)
    PROVE  NewsInv'
<1>1. PICK q : q = nreq[r]
  OBVIOUS
<1>2. PICK e, on, ever : e = events[q.key] /\ on = active /\ ever = once
  OBVIOUS
<1>3. /\ q \in TellWork /\ q.at = "store" /\ Suits(e) /\ TellsOf(q, e, ever)
      /\ q.key \in DOMAIN events
  BY <1>1, <1>2, Teller DEF StoreNews
<1>4. PICK h : h = Head(q.to)
  OBVIOUS
<1>5. /\ h \in Readers /\ ~Awaits(q, h) /\ h \in ToSet(e.to)
      /\ \A u : Serves(q, u) <=> u = h
  BY <1>3, <1>4, AtRecipient DEF TellsOf
<1>6. PICK d : d = [to |-> h, key |-> q.key, read |-> FALSE]
  OBVIOUS
<1>7. d \in News /\ ~d.read /\ d.to = h /\ d.key = q.key
  BY <1>3, <1>5, <1>6 DEF News, TellWork
<1>8. inbox' = Append(inbox, d)
  BY <1>1, <1>4, <1>6 DEF StoreNews, Recipient
<1>9. /\ \A u, k : Inboxed(u, k)' = Inboxed(u, k) + IF h = u /\ q.key = k THEN 1 ELSE 0
      /\ \A u, k : Shown(u, k) => Shown(u, k)'
      /\ Shown(h, q.key)'
      /\ \A u : Cardinality(Reads(u))' = Cardinality(Reads(u))
      /\ \A i \in DOMAIN inbox' :
           (i \in DOMAIN inbox /\ inbox'[i] = inbox[i]) \/ inbox'[i] = d
      /\ inbox' \in Seq(News)
  BY <1>7, <1>8, InboxGrows DEF NewsInv
<1>10. UNCHANGED <<overlap, faults, active, once, online, pushed, mailed, events, answered,
                   groups, erased, nmoves>>
  BY DEF StoreNews, peopleVars, groupVars
<1>11. PICK p : p = [q EXCEPT !.at = "push"]
  OBVIOUS
<1>12. nreq' = [nreq EXCEPT ![r] = p]
  BY <1>1, <1>11 DEF StoreNews, Goes
<1>13. /\ p \in TellWork /\ p.key = q.key /\ p.how = q.how /\ p.to = q.to
       /\ p.seen = q.seen /\ p.spare = q.spare /\ p.at = "push"
  BY <1>3, <1>11 DEF TellWork
<1>14. TellsOf(p, e, ever) /\ ~Filed(q) /\ Filed(p) /\ p # Idle
  BY <1>3, <1>13, NewsShapes DEF TellsOf, OnStep, Filed
<1>15. /\ nreq' \in [Requests -> NewsRequests]
       /\ (\A k \in DOMAIN events : Suits(events[k]))'
       /\ (\A s \in Requests : KnowsEvent(nreq[s]) /\ NamesGroup(nreq[s]))'
       /\ OneTeller'
  <2>1. events'[q.key] = e /\ once = ever
    BY <1>2, <1>10, <1>13
  <2>2. Shown(Head(p.to), p.key)'
    BY <1>4, <1>9, <1>13
  <2>. QED  BY <1>1, <1>2, <1>3, <1>9, <1>10, <1>12, <1>13, <1>14, <2>2, NewsTold
<1>16. TypeOKNews'
  BY <1>9, <1>10, <1>15 DEF NewsInv, TypeOKNews
<1>17. Kept'
  BY <1>3, <1>7, <1>9, <1>10 DEF NewsInv, Kept
<1>18. ReadOnce' /\ GroupsHold'
  BY <1>9, <1>10 DEF NewsInv, ReadOnce, GroupsHold, Reads
<1>19. ASSUME ~faults PROVE Progress'
  <2>1. Progress
    BY <1>19 DEF NewsInv
  <2>2. ASSUME NEW u \in ToSet(e.to)
        PROVE  SoFar(p, e, u, Inboxed(u, q.key)', Mails(u, q.key)', on, ever)
    <3>1. PICK i \in Nat, m \in Nat : i = Inboxed(u, q.key) /\ m = Mails(u, q.key)
      BY NewsCounts DEF NewsInv
    <3>2. SoFar(q, e, u, i, m, on, ever)
      BY <1>1, <1>2, <1>3, <2>1, <3>1, NewsShapes DEF Progress
    <3>3. Inboxed(u, q.key)' = (IF u = h THEN i + 1 ELSE i) /\ Mails(u, q.key)' = m
      BY <1>9, <1>10, <3>1, MailSame
    <3>4. /\ Awaits(p, u) <=> Awaits(q, u)
          /\ Serves(p, u) <=> Serves(q, u)
      BY <1>3, <1>13 DEF Awaits, Serves
    <3>5. SoFar(p, e, u, IF u = h THEN i + 1 ELSE i, m, on, ever)
      BY <1>5, <1>13, <1>14, <3>2, <3>4 DEF SoFar
    <3>. QED  BY <3>3, <3>5
  <2>3. \A u, k : k # q.key => Inboxed(u, k)' = Inboxed(u, k) /\ Mails(u, k)' = Mails(u, k)
    <3>1. ASSUME NEW u, NEW k, k # q.key
          PROVE  Inboxed(u, k)' = Inboxed(u, k) /\ Mails(u, k)' = Mails(u, k)
      <4>1. Inboxed(u, k) \in Nat
        BY NewsCounts DEF NewsInv
      <4>. QED  BY <1>9, <1>10, <3>1, <4>1, MailSame
    <3>. QED  BY <3>1
  <2>4. \A u \in ToSet(events'[q.key].to) :
          Stands(p, events'[q.key], u, Inboxed(u, q.key)', Mails(u, q.key)', active, once)
    BY <1>2, <1>10, <1>14, <2>2 DEF Stands
  <2>. QED  BY <1>1, <1>3, <1>10, <1>12, <1>13, <2>1, <2>3, <2>4, NewsProgressed
<1>. QED  BY <1>10, <1>15, <1>16, <1>17, <1>18, <1>19 DEF NewsInv

LEMMA MailKeeps ==
    ASSUME NewsInv, NEW r \in Requests, SendMail(r)
    PROVE  NewsInv'
<1>1. PICK q : q = nreq[r]
  OBVIOUS
<1>2. PICK e, on, ever : e = events[q.key] /\ on = active /\ ever = once
  OBVIOUS
<1>3. /\ q \in TellWork /\ q.at = "mail" /\ Suits(e) /\ TellsOf(q, e, ever)
      /\ q.key \in DOMAIN events
  BY <1>1, <1>2, Teller DEF SendMail
<1>4. PICK h : h = Head(q.to)
  OBVIOUS
<1>5. /\ h \in NewsTo /\ ~Awaits(q, h) /\ h \in ToSet(e.to)
      /\ q.how = "agreement" => h \in q.seen /\ h \in ever
      /\ \A u : Serves(q, u) <=> u = h
      /\ ~q.spare /\ q.spare \in BOOLEAN /\ q.how = e.how /\ Filed(q)
  BY <1>3, <1>4, AtRecipient DEF TellsOf, Filed, TellWork
<1>6. PICK x : x = <<h, q.key>>
  OBVIOUS
<1>7. x \in NewsTo \X NewsKeys
  BY <1>3, <1>5, <1>6 DEF TellWork
<1>8. mailed' = Append(mailed, x)
  BY <1>1, <1>4, <1>6 DEF SendMail, Recipient
<1>9. /\ \A u, k : Mails(u, k)' = Mails(u, k) + IF x = <<u, k>> THEN 1 ELSE 0
      /\ \A i \in DOMAIN mailed' :
           (i \in DOMAIN mailed /\ mailed'[i] = mailed[i]) \/ mailed'[i] = x
      /\ mailed' \in Seq(NewsTo \X NewsKeys)
  BY <1>7, <1>8, MailGrows DEF NewsInv
<1>10. UNCHANGED <<overlap, faults, active, once, online, pushed, inbox, events, answered,
                   groups, erased, nmoves>>
  BY DEF SendMail, peopleVars, groupVars
<1>11. PICK p : p = Later(q)
  OBVIOUS
<1>12. nreq' = [nreq EXCEPT ![r] = p]
  BY <1>1, <1>11 DEF SendMail, Onward, Ends, Goes, Later, After
<1>13. /\ p = Idle
          \/ /\ p \in TellWork /\ p.key = q.key /\ TellsOf(p, e, ever) /\ p.at # "push"
       /\ \A u \in ToSet(e.to), i \in Nat, m \in Nat :
             /\ u # h => SoFar(q, e, u, i, m, on, ever)
             /\ u = h => Informed(e, u, i, m, on, ever)
             => Stands(p, e, u, i, m, on, ever)
  BY <1>3, <1>4, <1>5, <1>11, NextRecipient
<1>14. /\ \A u, k : Inboxed(u, k)' = Inboxed(u, k) /\ Shown(u, k)' = Shown(u, k)
       /\ \A u : Cardinality(Reads(u))' = Cardinality(Reads(u))
  BY <1>10, InboxSame
<1>15. /\ nreq' \in [Requests -> NewsRequests]
       /\ (\A k \in DOMAIN events : Suits(events[k]))'
       /\ (\A s \in Requests : KnowsEvent(nreq[s]) /\ NamesGroup(nreq[s]))'
       /\ OneTeller'
  BY <1>1, <1>2, <1>3, <1>10, <1>12, <1>13, <1>14, NewsTold
<1>16. TypeOKNews'
  BY <1>9, <1>10, <1>15 DEF NewsInv, TypeOKNews
<1>17. Kept'
  <2>1. x[2] = q.key
    BY <1>6
  <2>2. \A i \in DOMAIN mailed' : mailed'[i][2] \in DOMAIN events
    BY <1>3, <1>9, <2>1 DEF NewsInv, Kept
  <2>. QED  BY <1>10, <1>14, <2>2 DEF NewsInv, Kept
<1>18. ReadOnce' /\ GroupsHold'
  BY <1>10, <1>14 DEF NewsInv, ReadOnce, GroupsHold, Reads
<1>19. ASSUME ~faults PROVE Progress'
  <2>1. Progress
    BY <1>19 DEF NewsInv
  <2>2. ASSUME NEW u \in ToSet(e.to)
        PROVE  Stands(p, e, u, Inboxed(u, q.key)', Mails(u, q.key)', on, ever)
    <3>1. PICK i \in Nat, m \in Nat : i = Inboxed(u, q.key) /\ m = Mails(u, q.key)
      BY NewsCounts DEF NewsInv
    <3>2. SoFar(q, e, u, i, m, on, ever)
      BY <1>1, <1>2, <1>3, <2>1, <3>1, NewsShapes DEF Progress
    <3>3. x = <<u, q.key>> <=> u = h
      BY <1>6
    <3>4. Inboxed(u, q.key)' = i /\ Mails(u, q.key)' = IF u = h THEN m + 1 ELSE m
      BY <1>9, <1>14, <3>1, <3>3
    <3>5. u = h => Informed(e, u, i, m + 1, on, ever)
      BY <1>5, <3>2 DEF SoFar, Informed
    <3>6. Stands(p, e, u, i, IF u = h THEN m + 1 ELSE m, on, ever)
      <4>1. m + 1 \in Nat
        OBVIOUS
      <4>2. CASE u = h
        BY <1>13, <3>5, <4>1, <4>2
      <4>3. CASE u # h
        BY <1>13, <3>2, <4>3
      <4>. QED  BY <4>2, <4>3
    <3>. QED  BY <3>4, <3>6
  <2>3. \A u, k : k # q.key => Inboxed(u, k)' = Inboxed(u, k) /\ Mails(u, k)' = Mails(u, k)
    <3>1. ASSUME NEW u, NEW k, k # q.key
          PROVE  Inboxed(u, k)' = Inboxed(u, k) /\ Mails(u, k)' = Mails(u, k)
      <4>1. Mails(u, k) \in Nat /\ x # <<u, k>>
        BY <1>6, <3>1, NewsCounts DEF NewsInv
      <4>. QED  BY <1>9, <1>14, <4>1
    <3>. QED  BY <3>1
  <2>4. \A u \in ToSet(events'[q.key].to) :
          Stands(p, events'[q.key], u, Inboxed(u, q.key)', Mails(u, q.key)', active, once)
    BY <1>2, <1>10, <2>2
  <2>. QED  BY <1>1, <1>3, <1>10, <1>12, <1>13, <2>1, <2>3, <2>4, NewsProgressed
<1>. QED  BY <1>10, <1>15, <1>16, <1>17, <1>18, <1>19 DEF NewsInv

(* The event e of which h, who is online, is spared the e-mail.            *)
SparedBy(e, here, h) == IF here THEN [e EXCEPT !.spared = @ \cup {h}] ELSE e

LEMMA PresenceKeeps ==
    ASSUME NewsInv, NEW r \in Requests, CheckPresence(r)
    PROVE  NewsInv'
<1>1. PICK q : q = nreq[r]
  OBVIOUS
<1>2. PICK e, on, ever : e = events[q.key] /\ on = active /\ ever = once
  OBVIOUS
<1>3. /\ q \in TellWork /\ q.at = "presence" /\ Suits(e) /\ TellsOf(q, e, ever)
      /\ q.key \in DOMAIN events
  BY <1>1, <1>2, Teller DEF CheckPresence
<1>40. PICK h : h = Head(q.to)
  OBVIOUS
<1>41. PICK here \in BOOLEAN : here = (h \in online)
  <2>1. CASE h \in online
    <3>1. (h \in online) = TRUE
      BY <2>1
    <3>. QED  BY <3>1, Zenon
  <2>2. CASE h \notin online
    <3>1. (h \in online) = FALSE
      BY <2>2
    <3>. QED  BY <3>1, Zenon
  <2>. QED  BY <2>1, <2>2
<1>4. h = Head(q.to) /\ here = (h \in online)
  BY <1>40, <1>41
<1>5. /\ h \in NewsTo /\ ~Awaits(q, h) /\ h \in ToSet(e.to)
      /\ \A u : Serves(q, u) <=> u = h
      /\ ~q.spare /\ q.spare \in BOOLEAN /\ q.how = e.how /\ q.how \in {"talk", "decision"}
  BY <1>3, <1>4, AtRecipient DEF TellsOf, TellWork, OnStep
<1>6. h \in Readers
  BY <1>3, <1>5 DEF Suits
<1>7. PICK f : f = SparedBy(e, here, h)
  OBVIOUS
<1>8. /\ Suits(f) /\ f.how = e.how /\ f.to = e.to
      /\ \A u : u \in f.spared <=> u \in e.spared \/ (here /\ u = h)
      /\ f \in EventDocs
  BY <1>3, <1>6, <1>7 DEF SparedBy, Suits, EventDocs
<1>9. UNCHANGED <<overlap, faults, active, once, online, pushed, inbox, mailed, answered,
                  groups, erased, nmoves>>
  BY DEF CheckPresence, peopleVars, groupVars
<1>10. events' = [events EXCEPT ![q.key] = f]
  <2>1. CASE here
    BY <1>1, <1>2, <1>4, <1>7, <2>1 DEF CheckPresence, Recipient, SparedBy
  <2>2. CASE ~here
    <3>1. events' = events
      BY <1>1, <1>4, <2>2 DEF CheckPresence, Recipient
    <3>2. f = events[q.key]
      BY <1>2, <1>7, <2>2 DEF SparedBy
    <3>3. events \in [DOMAIN events -> EventDocs]
      BY LenProperties DEF NewsInv, TypeOKNews, EventDocs
    <3>. QED  BY <3>1, <3>2, <3>3
  <2>. QED  BY <2>1, <2>2
<1>11. /\ events' \in Seq(EventDocs) /\ Len(events') = Len(events)
       /\ DOMAIN events' = DOMAIN events /\ events'[q.key] = f
       /\ \A k \in DOMAIN events : k # q.key => events'[k] = events[k]
  <2>1. events \in Seq(EventDocs)
    BY DEF NewsInv, TypeOKNews, EventDocs
  <2>2. DOMAIN events = 1 .. Len(events)
    BY <2>1, LenProperties
  <2>3. /\ events' \in Seq(EventDocs) /\ Len(events') = Len(events)
        /\ \A k \in 1 .. Len(events) : events'[k] = IF k = q.key THEN f ELSE events[k]
    BY <1>3, <1>8, <1>10, <2>1, <2>2, ExceptSeq
  <2>. QED  BY <1>3, <1>10, <2>2, <2>3
<1>12. \E p : /\ nreq' = [nreq EXCEPT ![r] = p]
              /\ p = Idle
                 \/ /\ p \in TellWork /\ p.key = q.key /\ TellsOf(p, f, ever) /\ p.at # "push"
              /\ \A u \in ToSet(e.to), i \in Nat, m \in Nat :
                    SoFar(q, e, u, i, m, on, ever) => Stands(p, f, u, i, m, on, ever)
  <2>1. CASE q.how = "talk"
    <3>1. PICK p : p = [q EXCEPT !.at = "store", !.spare = here]
      OBVIOUS
    <3>2. nreq' = [nreq EXCEPT ![r] = p]
      BY <1>1, <1>4, <2>1, <3>1 DEF CheckPresence, Recipient, Goes
    <3>3. /\ p \in TellWork /\ p.key = q.key /\ p.how = q.how /\ p.to = q.to
          /\ p.seen = q.seen /\ p.spare = here /\ p.at = "store"
      BY <1>3, <3>1 DEF TellWork
    <3>4. TellsOf(p, f, ever) /\ p # Idle /\ ~Filed(p) /\ ~Filed(q)
      BY <1>3, <1>4, <1>6, <1>8, <2>1, <3>3, NewsShapes DEF TellsOf, OnStep, Filed
    <3>5. ASSUME NEW u, NEW i \in Nat, NEW m \in Nat, SoFar(q, e, u, i, m, on, ever)
          PROVE  SoFar(p, f, u, i, m, on, ever)
      <4>1. /\ Awaits(p, u) <=> Awaits(q, u)
            /\ Serves(p, u) <=> u = h
        BY <1>4, <2>1, <3>3 DEF Awaits, Serves
      <4>2. u # h => (u \in f.spared <=> u \in e.spared)
        BY <1>8
      <4>3. CASE u = h
        BY <1>5, <1>8, <3>3, <3>4, <3>5, <4>1, <4>3 DEF SoFar
      <4>4. CASE u # h
        BY <1>5, <1>8, <3>5, <4>1, <4>2, <4>4 DEF SoFar, Informed
      <4>. QED  BY <4>3, <4>4
    <3>. QED  BY <3>2, <3>3, <3>4, <3>5 DEF Stands
  <2>2. CASE q.how = "decision" /\ here
    <3>1. nreq' = [nreq EXCEPT ![r] = Later(q)]
      BY <1>1, <1>4, <2>2
         DEF CheckPresence, Recipient, Onward, Ends, Goes, Later, After
    <3>2. TellsOf(q, f, ever)
      BY <1>3, <1>8 DEF TellsOf
    <3>3. /\ Later(q) = Idle
             \/ /\ Later(q) \in TellWork /\ Later(q).key = q.key
                /\ TellsOf(Later(q), f, ever) /\ Later(q).at # "push"
          /\ \A u \in ToSet(f.to), i \in Nat, m \in Nat :
                /\ u # h => SoFar(q, f, u, i, m, on, ever)
                /\ u = h => Informed(f, u, i, m, on, ever)
                => Stands(Later(q), f, u, i, m, on, ever)
      BY <1>3, <1>4, <1>8, <2>2, <3>2, NextRecipient
    <3>4. ASSUME NEW u \in ToSet(e.to), NEW i \in Nat, NEW m \in Nat,
                 SoFar(q, e, u, i, m, on, ever)
          PROVE  Stands(Later(q), f, u, i, m, on, ever)
      <4>1. u # h => SoFar(q, f, u, i, m, on, ever)
        BY <1>5, <1>8, <3>4 DEF SoFar, Informed
      <4>2. Filed(q)
        BY <1>3, <2>2 DEF Filed
      <4>3. u = h => Informed(f, u, i, m, on, ever)
        BY <1>5, <1>6, <1>8, <2>2, <3>4, <4>2 DEF SoFar, Informed
      <4>. QED  BY <1>8, <3>3, <4>1, <4>3
    <3>. QED  BY <3>1, <3>3, <3>4
  <2>3. CASE q.how = "decision" /\ ~here
    <3>1. PICK p : p = [q EXCEPT !.at = "mail"]
      OBVIOUS
    <3>2. nreq' = [nreq EXCEPT ![r] = p]
      BY <1>1, <1>4, <2>3, <3>1 DEF CheckPresence, Recipient, Goes
    <3>3. /\ p \in TellWork /\ p.key = q.key /\ p.how = q.how /\ p.to = q.to
          /\ p.seen = q.seen /\ p.spare = q.spare /\ p.at = "mail"
      BY <1>3, <3>1 DEF TellWork
    <3>4. TellsOf(p, f, ever) /\ p # Idle /\ Filed(p) /\ Filed(q)
      BY <1>3, <1>5, <1>8, <2>3, <3>3, NewsShapes DEF TellsOf, OnStep, Filed
    <3>5. ASSUME NEW u, NEW i \in Nat, NEW m \in Nat, SoFar(q, e, u, i, m, on, ever)
          PROVE  SoFar(p, f, u, i, m, on, ever)
      <4>1. /\ Awaits(p, u) <=> Awaits(q, u)
            /\ Serves(p, u) <=> Serves(q, u)
        BY <1>3, <2>3, <3>3 DEF Awaits, Serves
      <4>2. f = e
        BY <1>7, <2>3 DEF SparedBy
      <4>. QED  BY <3>3, <3>4, <3>5, <4>1, <4>2 DEF SoFar
    <3>. QED  BY <3>2, <3>3, <3>4, <3>5 DEF Stands
  <2>. QED  BY <1>5, <2>1, <2>2, <2>3
<1>13. PICK p : /\ nreq' = [nreq EXCEPT ![r] = p]
                /\ p = Idle
                   \/ /\ p \in TellWork /\ p.key = q.key /\ TellsOf(p, f, ever)
                      /\ p.at # "push"
                /\ \A u \in ToSet(e.to), i \in Nat, m \in Nat :
                      SoFar(q, e, u, i, m, on, ever) => Stands(p, f, u, i, m, on, ever)
  BY <1>12
<1>14. /\ \A u, k : Inboxed(u, k)' = Inboxed(u, k) /\ Shown(u, k)' = Shown(u, k)
       /\ \A u : Cardinality(Reads(u))' = Cardinality(Reads(u))
       /\ \A u, k : Mails(u, k)' = Mails(u, k)
  BY <1>9, InboxSame, MailSame
<1>15. /\ nreq' \in [Requests -> NewsRequests]
       /\ (\A k \in DOMAIN events : Suits(events[k]))'
       /\ (\A s \in Requests : KnowsEvent(nreq[s]) /\ NamesGroup(nreq[s]))'
       /\ OneTeller'
  BY <1>1, <1>2, <1>3, <1>8, <1>9, <1>11, <1>13, <1>14, NewsTold
<1>16. TypeOKNews'
  BY <1>9, <1>11, <1>15 DEF NewsInv, TypeOKNews, EventDocs
<1>17. Kept'
  BY <1>9, <1>11, <1>14 DEF NewsInv, Kept
<1>18. ReadOnce' /\ GroupsHold'
  BY <1>9, <1>14 DEF NewsInv, ReadOnce, GroupsHold, Reads
<1>19. ASSUME ~faults PROVE Progress'
  <2>1. Progress
    BY <1>19 DEF NewsInv
  <2>2. ASSUME NEW u \in ToSet(e.to)
        PROVE  Stands(p, f, u, Inboxed(u, q.key)', Mails(u, q.key)', on, ever)
    <3>1. PICK i \in Nat, m \in Nat : i = Inboxed(u, q.key) /\ m = Mails(u, q.key)
      BY NewsCounts DEF NewsInv
    <3>2. SoFar(q, e, u, i, m, on, ever)
      BY <1>1, <1>2, <1>3, <2>1, <3>1, NewsShapes DEF Progress
    <3>. QED  BY <1>13, <1>14, <3>1, <3>2
  <2>3. \A u \in ToSet(events'[q.key].to) :
          Stands(p, events'[q.key], u, Inboxed(u, q.key)', Mails(u, q.key)', active, once)
    BY <1>2, <1>8, <1>11, <2>2
  <2>. QED  BY <1>1, <1>3, <1>9, <1>11, <1>13, <1>14, <2>1, <2>3, NewsProgressed
<1>. QED  BY <1>9, <1>15, <1>16, <1>17, <1>18, <1>19 DEF NewsInv

(***************************************************************************)
(* An event is told                                                        *)
(***************************************************************************)

(* The administrators are listed once each.                                *)
LEMMA ListsOfAdmins ==
    ASSUME active \subseteq Readers, NEW to \in AdminLists
    PROVE  to \in Seq(Readers) /\ to # <<>> /\ Single(to)
<1>1. PICK S \in SUBSET active : to \in SetToSeqs(S)
  BY DEF AdminLists, SetToAllKPermutations
<1>2. /\ to \in [1 .. Cardinality(S) -> S]
      /\ \A i, j \in 1 .. Cardinality(S) : i # j => to[i] # to[j]
  BY <1>1 DEF SetToSeqs
<1>3. S \subseteq Readers /\ IsFiniteSet(S)
  BY ReadersAssumption, FS_Subset
<1>4. Cardinality(S) \in Nat
  BY <1>3, FS_CardinalityType
<1>5. to \in Seq(Readers)
  BY <1>2, <1>3, <1>4, SeqDef
<1>6. Single(to)
  BY <1>2 DEF Single
<1>. QED  BY <1>5, <1>6 DEF AdminLists

LEMMA PairsAndTriples ==
    /\ \A S : \A u \in S : <<u>> \in Seq(S) /\ <<u>> # <<>> /\ Single(<<u>>) /\ ToSet(<<u>>) = {u}
    /\ \A S : \A u, v \in S :
         /\ <<u, v>> \in Seq(S) /\ <<u, v>> # <<>> /\ (u # v => Single(<<u, v>>))
         /\ <<u, v, u>> \in Seq(S) /\ <<u, v, u>> # <<>>
<1>1. ASSUME NEW S, NEW u \in S
      PROVE  <<u>> \in Seq(S) /\ <<u>> # <<>> /\ Single(<<u>>) /\ ToSet(<<u>>) = {u}
  <2>1. <<u>> \in Seq(S) /\ <<u>> # <<>> /\ DOMAIN <<u>> = {1} /\ <<u>>[1] = u
    OBVIOUS
  <2>. QED  BY <2>1 DEF Single, ToSet
<1>2. ASSUME NEW S, NEW u \in S, NEW v \in S
      PROVE  /\ <<u, v>> \in Seq(S) /\ <<u, v>> # <<>> /\ (u # v => Single(<<u, v>>))
             /\ <<u, v, u>> \in Seq(S) /\ <<u, v, u>> # <<>>
  <2>1. /\ <<u, v>> \in Seq(S) /\ <<u, v>> # <<>> /\ DOMAIN <<u, v>> = {1, 2}
        /\ <<u, v>>[1] = u /\ <<u, v>>[2] = v
    OBVIOUS
  <2>2. u # v => Single(<<u, v>>)
    BY <2>1 DEF Single
  <2>3. <<u, v, u>> \in Seq(S) /\ <<u, v, u>> # <<>>
    OBVIOUS
  <2>. QED  BY <2>1, <2>2, <2>3
<1>. QED  BY <1>1, <1>2

LEMMA Audience ==
    ASSUME active \subseteq Readers, NEW how \in Hows, NEW to \in Audiences(how)
    PROVE  Suits([how |-> how, to |-> to, spared |-> {}])
<1>. DEFINE e == [how |-> how, to |-> to, spared |-> {}]
<1>1. Readers \subseteq NewsTo /\ Stranger \in NewsTo /\ Seq(Readers) \subseteq Seq(NewsTo)
  BY SeqMonotonic DEF NewsTo
<1>2. \A s \in Seq(Readers) : ToSet(s) \subseteq Readers
  BY LenProperties DEF ToSet
<1>3. \A s \in AdminLists \cup OneReader : s \in Seq(Readers) /\ s # <<>> /\ Single(s)
  BY ListsOfAdmins, PairsAndTriples DEF OneReader
<1>4. \A s \in Signatories : s \in Seq(Readers) /\ s # <<>>
  <2>1. ASSUME NEW u \in Readers, NEW v \in Readers
        PROVE  /\ <<u, v, u>> \in Seq(Readers) /\ <<u, v, u>> # <<>>
               /\ <<u>> \in Seq(Readers) /\ <<u>> # <<>>
    BY PairsAndTriples
  <2>2. \A s \in Signatories :
          (\E u \in Readers : s = <<u>>) \/ \E u, v \in Readers : s = <<u, v, u>>
    BY DEF Signatories, OneReader
  <2>3. ASSUME NEW s \in Signatories PROVE s \in Seq(Readers) /\ s # <<>>
    <3>1. CASE \E u \in Readers : s = <<u>>
      BY <2>1, <3>1
    <3>2. CASE \E u, v \in Readers : s = <<u, v, u>>
      BY <2>1, <3>2
    <3>. QED  BY <2>2, <3>1, <3>2
  <2>. QED  BY <2>3
<1>5. \A s \in Invited : s \in Seq(NewsTo) /\ s # <<>> /\ Single(s)
  <2>1. ASSUME NEW u \in Readers
        PROVE  <<Stranger, u>> \in Seq(NewsTo) /\ <<Stranger, u>> # <<>>
               /\ Single(<<Stranger, u>>)
    BY <1>1, PairsAndTriples, StrangerAssumption
  <2>2. ASSUME NEW u \in Readers
        PROVE  <<u>> \in Seq(NewsTo) /\ <<u>> # <<>> /\ Single(<<u>>)
    BY <1>1, PairsAndTriples
  <2>. QED  BY <2>1, <2>2 DEF Invited, OneReader
<1>6. CASE how \in {"talk", "contact", "decision"}
  <2>1. to \in AdminLists \cup OneReader
    BY <1>6 DEF Audiences
  <2>. QED  BY <1>1, <1>2, <1>3, <1>6, <2>1 DEF Suits, EventDocs, Hows
<1>7. CASE how = "agreement"
  <2>1. to \in Signatories
    BY <1>7 DEF Audiences
  <2>. QED  BY <1>1, <1>2, <1>4, <1>7, <2>1 DEF Suits, EventDocs, Hows
<1>8. CASE how = "invite"
  <2>1. to \in Invited
    BY <1>8 DEF Audiences
  <2>. QED  BY <1>5, <1>8, <2>1 DEF Suits, EventDocs, Hows
<1>9. CASE how = "visitor"
  <2>1. to = <<Stranger>>
    BY <1>9 DEF Audiences
  <2>2. to \in Seq(NewsTo) /\ to # <<>> /\ Single(to) /\ ToSet(to) = {Stranger}
    BY <1>1, <2>1, PairsAndTriples
  <2>. QED  BY <1>9, <2>2 DEF Suits, EventDocs, Hows
<1>. QED  BY <1>6, <1>7, <1>8, <1>9 DEF Hows

(* Nobody has had anything of a new event.                                 *)
LEMMA NothingYet ==
    ASSUME NEW how \in Hows, NEW to, NEW key \in NewsKeys, NEW on, NEW ever, NEW q, NEW e,
           e = [how |-> how, to |-> to, spared |-> {}], Suits(e),
           q = [at |-> FirstStep(how), how |-> how, to |-> to, seen |-> {},
                spare |-> FALSE, key |-> key]
    PROVE  /\ q \in TellWork /\ q.key = key /\ q.at # "push" /\ TellsOf(q, e, ever)
           /\ \A u \in ToSet(e.to) : SoFar(q, e, u, 0, 0, on, ever)
<1>1. e.how = how /\ e.to = to /\ e.spared = {} /\ to \in Seq(NewsTo) /\ to # <<>>
  BY DEF Suits, EventDocs
<1>2. /\ q.at = FirstStep(how) /\ q.how = how /\ q.to = to /\ q.seen = {}
      /\ q.spare = FALSE /\ q.key = key
  OBVIOUS
<1>3. /\ q.at \in {"find", "presence", "store", "mail"} /\ OnStep(q.how, q.at)
      /\ q.how = "agreement" => q.at = "find"
      /\ q.at = "presence" => q.how # "decision"
      /\ q.at = "store" => q.how \in {"contact", "decision"}
      /\ q.at = "mail" => q.how = "visitor"
  BY <1>2, FirstSteps
<1>4. q \in TellWork
  BY <1>1, <1>2, <1>3 DEF TellWork
<1>5. /\ Head(to) \in ToSet(to)
      /\ \A u \in ToSet(to) : u = Head(to) \/ u \in ToSet(Tail(to))
  BY <1>1, ListFacts
<1>6. TellsOf(q, e, ever)
  <2>1. q.at \in {"store", "push"} => Head(q.to) \in Readers
    BY <1>1, <1>2, <1>3, <1>5 DEF Suits
  <2>. QED  BY <1>1, <1>2, <1>3, <2>1 DEF TellsOf, Suits
<1>7. ASSUME NEW u \in ToSet(e.to) PROVE SoFar(q, e, u, 0, 0, on, ever)
  <2>1. Awaits(q, u) \/ Serves(q, u)
    BY <1>1, <1>2, <1>5 DEF Awaits, Serves
  <2>2. Filed(q) => u \notin Readers
    BY <1>1, <1>2, <1>3, StrangerAssumption DEF Filed, Suits
  <2>. QED  BY <1>1, <1>2, <2>1, <2>2 DEF SoFar
<1>. QED  BY <1>2, <1>3, <1>4, <1>6, <1>7

LEMMA TellKeeps ==
    ASSUME NewsInv, NEW r \in Requests, NEW how \in Hows, TellEvent(r, how)
    PROVE  NewsInv'
<1>1. PICK to \in Audiences(how) :
        /\ events' = Append(events, [how |-> how, to |-> to, spared |-> {}])
        /\ nreq' = [nreq EXCEPT ![r] =
                      [at |-> FirstStep(how), how |-> how, to |-> to, seen |-> {},
                       spare |-> FALSE, key |-> Len(events')]]
  BY DEF TellEvent, Goes
<1>2. PICK e : e = [how |-> how, to |-> to, spared |-> {}]
  OBVIOUS
<1>3. Suits(e) /\ e \in EventDocs
  <2>1. active \subseteq Readers
    BY DEF NewsInv, TypeOKNews
  <2>. QED  BY <1>2, <2>1, Audience DEF Suits
<1>4. PICK key : key = Len(events) + 1
  OBVIOUS
<1>5. /\ events' \in Seq(EventDocs) /\ Len(events') = key /\ events'[key] = e
      /\ DOMAIN events' = 1 .. key /\ DOMAIN events = 1 .. Len(events) /\ Len(events) \in Nat
      /\ \A k \in DOMAIN events : events'[k] = events[k]
  <2>1. events \in Seq(EventDocs)
    BY DEF NewsInv, TypeOKNews, EventDocs
  <2>2. /\ events' \in Seq(EventDocs) /\ Len(events') = Len(events) + 1
        /\ \A k \in 1 .. Len(events) : events'[k] = events[k]
        /\ events'[Len(events) + 1] = e
    BY <1>1, <1>2, <1>3, <2>1, AppendProperties
  <2>3. DOMAIN events' = 1 .. Len(events')
    BY <2>2, LenProperties
  <2>4. DOMAIN events = 1 .. Len(events) /\ Len(events) \in Nat
    BY <2>1, LenProperties
  <2>. QED  BY <1>4, <2>2, <2>3, <2>4
<1>6. /\ key \in 1 .. key /\ key \notin DOMAIN events /\ DOMAIN events \subseteq 1 .. key
      /\ \A k \in 1 .. key : k \in DOMAIN events \/ k = key
      /\ key \in NewsKeys /\ key <= NewsEvents
  <2>1. Len(events) < NewsEvents
    BY DEF TellEvent
  <2>. QED  BY <1>4, <1>5, <2>1, NewsBoundsAssumption DEF NewsKeys
<1>7. PICK q : q = [at |-> FirstStep(how), how |-> how, to |-> to, seen |-> {},
                    spare |-> FALSE, key |-> key]
  OBVIOUS
<1>8. PICK on, ever : on = active /\ ever = once
  OBVIOUS
<1>9. /\ q \in TellWork /\ q.key = key /\ q.at # "push" /\ TellsOf(q, e, ever)
      /\ \A u \in ToSet(e.to) : SoFar(q, e, u, 0, 0, on, ever)
  BY <1>2, <1>3, <1>6, <1>7, NothingYet
<1>10. nreq' = [nreq EXCEPT ![r] = q]
  BY <1>1, <1>5, <1>7
<1>11. /\ nreq[r] = Idle /\ nreq \in [Requests -> NewsRequests]
       /\ nmoves' \in 0 .. NewsMoves
  BY NewsBoundsAssumption DEF TellEvent, StartNews, NewsMove, MayStart, NewsInv, TypeOKNews
<1>12. /\ nreq' \in [Requests -> NewsRequests] /\ nreq'[r] = q
       /\ \A s \in Requests \ {r} : nreq'[s] = nreq[s]
       /\ IsTelling(q) /\ ~IsTelling(nreq[r])
  BY <1>9, <1>10, <1>11, NewsShapes
<1>13. UNCHANGED <<overlap, faults, active, once, online, inbox, pushed, mailed, answered,
                   groups, erased>>
  BY DEF TellEvent, peopleVars, groupVars
<1>14. /\ \A u, k : Inboxed(u, k)' = Inboxed(u, k) /\ Shown(u, k)' = Shown(u, k)
       /\ \A u : Cardinality(Reads(u))' = Cardinality(Reads(u))
       /\ \A u, k : Mails(u, k)' = Mails(u, k)
  BY <1>13, InboxSame, MailSame
<1>15. (\A k \in DOMAIN events : Suits(events[k]))'
  BY <1>3, <1>5, <1>6 DEF NewsInv
<1>16. ASSUME NEW s \in Requests PROVE KnowsEvent(nreq[s])' /\ NamesGroup(nreq[s])'
  <2>1. CASE s = r
    <3>1. KnowsEvent(nreq[s])'
      BY <1>5, <1>6, <1>8, <1>9, <1>12, <1>13, <2>1 DEF KnowsEvent
    <3>2. q.at \notin {"insert group", "patch group", "erase group"}
      BY <1>9 DEF TellWork
    <3>. QED  BY <1>12, <2>1, <3>1, <3>2 DEF NamesGroup
  <2>2. CASE s # r
    <3>1. nreq'[s] = nreq[s] /\ KnowsEvent(nreq[s]) /\ NamesGroup(nreq[s])
      BY <1>12, <2>2 DEF NewsInv
    <3>2. KnowsEvent(nreq[s])'
      BY <1>5, <1>6, <1>13, <1>14, <3>1 DEF KnowsEvent
    <3>. QED  BY <1>13, <3>1, <3>2 DEF NamesGroup
  <2>. QED  BY <2>1, <2>2
<1>17. ASSUME NEW s \in Requests, IsTelling(nreq'[s]) PROVE s = r <=> nreq'[s].key = key
  <2>1. s # r => nreq'[s].key \in DOMAIN events
    BY <1>12, <1>17 DEF NewsInv, KnowsEvent
  <2>. QED  BY <1>6, <1>9, <1>12, <2>1
<1>18. OneTeller'
  <2>1. SUFFICES ASSUME NEW s \in Requests, NEW t \in Requests, IsTelling(nreq'[s]),
                        IsTelling(nreq'[t]), nreq'[s].key = nreq'[t].key
        PROVE  s = t
    BY DEF OneTeller
  <2>2. CASE s = r \/ t = r
    BY <1>17, <2>1, <2>2
  <2>3. CASE s # r /\ t # r
    BY <1>12, <2>1, <2>3 DEF NewsInv, OneTeller
  <2>. QED  BY <2>2, <2>3
<1>19. TypeOKNews'
  BY <1>5, <1>6, <1>11, <1>12, <1>13 DEF NewsInv, TypeOKNews, EventDocs
<1>20. Kept'
  BY <1>5, <1>6, <1>13, <1>14 DEF NewsInv, Kept
<1>21. ReadOnce' /\ GroupsHold'
  BY <1>13, <1>14 DEF NewsInv, ReadOnce, GroupsHold, Reads
<1>22. ASSUME ~faults PROVE Progress'
  <2>1. SUFFICES ASSUME NEW k \in 1 .. key, NEW u \in ToSet(events'[k].to)
        PROVE  /\ \A s \in Requests : IsTelling(nreq'[s]) /\ nreq'[s].key = k =>
                     SoFar(nreq'[s], events'[k], u, Inboxed(u, k), Mails(u, k), active, once)
               /\ AllTold(k)' =>
                     Informed(events'[k], u, Inboxed(u, k), Mails(u, k), active, once)
    BY <1>5, <1>13, <1>14 DEF Progress
  <2>2. CASE k # key
    <3>1. k \in DOMAIN events /\ events'[k] = events[k]
      BY <1>5, <1>6, <2>2
    <3>2. /\ \A s \in Requests : IsTelling(nreq[s]) /\ nreq[s].key = k =>
                SoFar(nreq[s], events[k], u, Inboxed(u, k), Mails(u, k), active, once)
          /\ AllTold(k) =>
                Informed(events[k], u, Inboxed(u, k), Mails(u, k), active, once)
      BY <1>22, <2>1, <3>1 DEF NewsInv, Progress
    <3>3. AllTold(k)' => AllTold(k)
      BY <1>12 DEF AllTold, IsTelling
    <3>4. \A s \in Requests : IsTelling(nreq'[s]) /\ nreq'[s].key = k => nreq'[s] = nreq[s]
      BY <1>9, <1>12, <2>2
    <3>. QED  BY <3>1, <3>2, <3>3, <3>4
  <2>3. CASE k = key
    <3>1. ~Shown(u, k) /\ \A i \in DOMAIN mailed : mailed[i] # <<u, k>>
      BY <1>6, <2>3 DEF NewsInv, Kept, Shown
    <3>2. Inboxed(u, k) = 0 /\ Mails(u, k) = 0
      BY <3>1, NewsCounts DEF NewsInv
    <3>3. ~AllTold(k)'
      BY <1>9, <1>12, <2>3 DEF AllTold, IsTelling
    <3>4. SoFar(q, e, u, 0, 0, active, once)
      BY <1>5, <1>8, <1>9, <2>1, <2>3
    <3>. QED  BY <1>5, <1>12, <1>17, <2>3, <3>2, <3>3, <3>4
  <2>. QED  BY <2>2, <2>3
<1>. QED  BY <1>13, <1>15, <1>16, <1>18, <1>19, <1>20, <1>21, <1>22 DEF NewsInv

(***************************************************************************)
(* The other steps                                                         *)
(***************************************************************************)

(* A step that tells nobody anything.                                      *)
LEMMA NewsAside ==
    ASSUME NewsInv, nreq' \in [Requests -> NewsRequests],
           \A s \in Requests : IsTelling(nreq[s]) \/ IsTelling(nreq'[s]) => nreq'[s] = nreq[s],
           \A s \in Requests : NamesGroup(nreq[s])',
           UNCHANGED <<faults, once, pushed, mailed, events>>, active' \subseteq active,
           \A u, k : Inboxed(u, k)' = Inboxed(u, k) /\ Shown(u, k)' = Shown(u, k),
           \A i \in DOMAIN inbox' : inbox'[i].key \in DOMAIN events
    PROVE  /\ (\A k \in DOMAIN events : Suits(events[k]))'
           /\ (\A s \in Requests : KnowsEvent(nreq[s]) /\ NamesGroup(nreq[s]))'
           /\ OneTeller' /\ Kept' /\ (~faults => Progress)'
<1>1. (\A k \in DOMAIN events : Suits(events[k]))'
  BY DEF NewsInv
<1>2. ASSUME NEW s \in Requests PROVE KnowsEvent(nreq[s])'
  BY DEF NewsInv, KnowsEvent
<1>3. OneTeller'
  BY DEF NewsInv, OneTeller
<1>4. Kept'
  BY DEF NewsInv, Kept
<1>5. ASSUME ~faults PROVE Progress'
  <2>1. SUFFICES ASSUME NEW k \in DOMAIN events, NEW u \in ToSet(events[k].to)
        PROVE  /\ \A s \in Requests : IsTelling(nreq'[s]) /\ nreq'[s].key = k =>
                     SoFar(nreq'[s], events[k], u, Inboxed(u, k)', Mails(u, k)', active', once)
               /\ AllTold(k)' =>
                     Informed(events[k], u, Inboxed(u, k)', Mails(u, k)', active', once)
    BY DEF Progress
  <2>2. /\ \A s \in Requests : IsTelling(nreq[s]) /\ nreq[s].key = k =>
              SoFar(nreq[s], events[k], u, Inboxed(u, k), Mails(u, k), active, once)
        /\ AllTold(k) =>
              Informed(events[k], u, Inboxed(u, k), Mails(u, k), active, once)
    BY <1>5 DEF NewsInv, Progress
  <2>3. AllTold(k)' => AllTold(k)
    BY DEF AllTold, IsTelling
  <2>4. Inboxed(u, k)' = Inboxed(u, k) /\ Mails(u, k)' = Mails(u, k)
    BY MailSame
  <2>5. \A q, i, m : SoFar(q, events[k], u, i, m, active, once)
                       => SoFar(q, events[k], u, i, m, active', once)
    BY DEF SoFar, Informed
  <2>6. \A i, m : Informed(events[k], u, i, m, active, once)
                    => Informed(events[k], u, i, m, active', once)
    BY DEF Informed
  <2>. QED  BY <2>2, <2>3, <2>4, <2>5, <2>6
<1>. QED  BY <1>1, <1>2, <1>3, <1>4, <1>5

(* ... and leaves the requests as they are.                                *)
LEMMA NewsStill ==
    ASSUME NewsInv, UNCHANGED <<faults, once, pushed, mailed, events, groups, nreq>>,
           active' \subseteq active,
           \A u, k : Inboxed(u, k)' = Inboxed(u, k) /\ Shown(u, k)' = Shown(u, k),
           \A i \in DOMAIN inbox' : inbox'[i].key \in DOMAIN events
    PROVE  /\ (\A k \in DOMAIN events : Suits(events[k]))'
           /\ (\A s \in Requests : KnowsEvent(nreq[s]) /\ NamesGroup(nreq[s]))'
           /\ OneTeller' /\ Kept' /\ (~faults => Progress)'
<1>1. nreq' \in [Requests -> NewsRequests]
  BY DEF NewsInv, TypeOKNews
<1>2. \A s \in Requests : NamesGroup(nreq[s])'
  BY DEF NewsInv, NamesGroup
<1>. QED  BY <1>1, <1>2, NewsAside

LEMMA PeopleKeep ==
    ASSUME NewsInv, NEW u \in Readers, Touch(u) \/ Fades(u) \/ DeactivateReader(u)
    PROVE  NewsInv'
<1>1. /\ UNCHANGED <<overlap, faults, once, inbox, pushed, mailed, events, answered,
                     groups, erased, nreq>>
      /\ active' \subseteq active /\ online' \subseteq Readers
      /\ nmoves' \in 0 .. NewsMoves
  <2>1. nmoves < NewsMoves /\ nmoves' = nmoves + 1
    BY DEF Touch, Fades, DeactivateReader, PresenceMove, NewsMove
  <2>2. nmoves' \in 0 .. NewsMoves
    BY <2>1, NewsBoundsAssumption DEF NewsInv, TypeOKNews
  <2>. QED  BY <2>2
       DEF Touch, Fades, DeactivateReader, PresenceMove, groupVars, NewsInv, TypeOKNews
<1>2. /\ \A v, k : Inboxed(v, k)' = Inboxed(v, k) /\ Shown(v, k)' = Shown(v, k)
      /\ \A v : Cardinality(Reads(v))' = Cardinality(Reads(v))
  BY <1>1, InboxSame
<1>3. \A i \in DOMAIN inbox' : inbox'[i].key \in DOMAIN events
  BY <1>1 DEF NewsInv, Kept
<1>4. /\ (\A k \in DOMAIN events : Suits(events[k]))'
      /\ (\A s \in Requests : KnowsEvent(nreq[s]) /\ NamesGroup(nreq[s]))'
      /\ OneTeller' /\ Kept' /\ (~faults => Progress)'
  BY <1>1, <1>2, <1>3, NewsStill
<1>5. TypeOKNews'
  BY <1>1 DEF NewsInv, TypeOKNews
<1>6. ReadOnce' /\ GroupsHold'
  BY <1>1, <1>2 DEF NewsInv, ReadOnce, GroupsHold, Reads
<1>. QED  BY <1>4, <1>5, <1>6 DEF NewsInv

(* Marks are of unread notifications of the user.                          *)
LEMMA MarksKeep ==
    ASSUME NewsInv, NEW u \in Readers, NEW places \in SUBSET Unread(u), Marks(u, places)
    PROVE  NewsInv'
<1>1. /\ UNCHANGED <<overlap, faults, active, once, online, pushed, mailed, events,
                     groups, erased, nreq>>
      /\ answered' = [answered EXCEPT ![u] = @ + Cardinality(places)]
      /\ nmoves' \in 0 .. NewsMoves
  <2>1. nmoves < NewsMoves /\ nmoves' = nmoves + 1
    BY DEF Marks, NewsMove
  <2>2. nmoves' \in 0 .. NewsMoves
    BY <2>1, NewsBoundsAssumption DEF NewsInv, TypeOKNews
  <2>. QED  BY <2>2 DEF Marks, peopleVars, groupVars
<1>2. /\ Len(inbox) \in Nat /\ DOMAIN inbox = 1 .. Len(inbox)
      /\ \A i \in DOMAIN inbox : inbox[i] \in News
  BY LenProperties DEF NewsInv, TypeOKNews
<1>3. /\ DOMAIN inbox' = DOMAIN inbox
      /\ \A i \in DOMAIN inbox :
           /\ inbox'[i] \in News /\ inbox'[i].to = inbox[i].to /\ inbox'[i].key = inbox[i].key
           /\ inbox'[i].read <=> i \in places \/ inbox[i].read
  <2>1. inbox' = [i \in DOMAIN inbox |->
                    IF i \in places THEN [inbox[i] EXCEPT !.read = TRUE] ELSE inbox[i]]
    BY DEF Marks
  <2>2. ASSUME NEW i \in DOMAIN inbox
        PROVE  /\ inbox'[i] \in News /\ inbox'[i].to = inbox[i].to
               /\ inbox'[i].key = inbox[i].key
               /\ inbox'[i].read <=> i \in places \/ inbox[i].read
    <3>1. inbox[i] \in News
      BY <1>2
    <3>2. CASE i \in places
      BY <2>1, <3>1, <3>2 DEF News
    <3>3. CASE i \notin places
      BY <2>1, <3>1, <3>3 DEF News
    <3>. QED  BY <3>2, <3>3
  <2>. QED  BY <2>1, <2>2
<1>4. inbox' \in Seq(News)
  <2>1. inbox' \in [1 .. Len(inbox) -> News]
    BY <1>2, <1>3 DEF Marks
  <2>. QED  BY <1>2, <2>1, SeqDef
<1>5. \A v, k : Inboxed(v, k)' = Inboxed(v, k) /\ Shown(v, k)' = Shown(v, k)
  BY <1>3 DEF Inboxed, Shown
<1>6. \A i \in DOMAIN inbox' : inbox'[i].key \in DOMAIN events
  BY <1>3 DEF NewsInv, Kept
<1>7. /\ (\A k \in DOMAIN events : Suits(events[k]))'
      /\ (\A s \in Requests : KnowsEvent(nreq[s]) /\ NamesGroup(nreq[s]))'
      /\ OneTeller' /\ Kept' /\ (~faults => Progress)'
  BY <1>1, <1>5, <1>6, NewsStill
<1>8. \A v : IsFiniteSet(Reads(v)) /\ Cardinality(Reads(v)) \in Nat
  <2>1. IsFiniteSet(1 .. Len(inbox))
    BY <1>2, FS_Interval
  <2>2. \A v : Reads(v) \in SUBSET (1 .. Len(inbox))
    BY <1>2 DEF Reads
  <2>. QED  BY <2>1, <2>2, FS_Subset, FS_CardinalityType
<1>9. IsFiniteSet(places) /\ Cardinality(places) \in Nat
  <2>1. IsFiniteSet(1 .. Len(inbox)) /\ places \in SUBSET (1 .. Len(inbox))
    BY <1>2, FS_Interval DEF Unread
  <2>. QED  BY <2>1, FS_Subset, FS_CardinalityType
<1>10. Cardinality(Reads(u))' = Cardinality(Reads(u)) + Cardinality(places)
  <2>1. Reads(u)' = Reads(u) \cup places
    BY <1>3 DEF Reads, Unread
  <2>2. Reads(u) \cap places = {}
    BY DEF Reads, Unread
  <2>3. Cardinality(Reads(u) \cup places)
          = Cardinality(Reads(u)) + Cardinality(places) - Cardinality({})
    BY <1>8, <1>9, <2>2, FS_Union
  <2>4. Cardinality(Reads(u) \cup places) = Cardinality(Reads(u)) + Cardinality(places)
    BY <1>8, <1>9, <2>3, FS_EmptySet
  <2>. QED  BY <2>1, <2>4
<1>11. \A v \in Readers \ {u} : Reads(v)' = Reads(v)
  BY <1>3 DEF Reads, Unread
<1>12. TypeOKNews'
  <2>1. answered' \in [Readers -> Nat]
    BY <1>1, <1>9 DEF NewsInv, TypeOKNews
  <2>. QED  BY <1>1, <1>4, <2>1 DEF NewsInv, TypeOKNews
<1>13. ReadOnce'
  <2>1. \A v \in Readers : answered[v] = Cardinality(Reads(v))
    BY DEF NewsInv, ReadOnce, Reads
  <2>2. ASSUME NEW v \in Readers PROVE answered'[v] = Cardinality(Reads(v))'
    <3>1. answered \in [Readers -> Nat]
      BY DEF NewsInv, TypeOKNews
    <3>2. CASE v = u
      BY <1>1, <1>10, <2>1, <3>1, <3>2
    <3>3. CASE v # u
      BY <1>1, <1>11, <2>1, <3>1, <3>3
    <3>. QED  BY <3>2, <3>3
  <2>. QED  BY <2>2 DEF ReadOnce, Reads
<1>14. GroupsHold'
  BY <1>1 DEF NewsInv, GroupsHold
<1>. QED  BY <1>7, <1>12, <1>13, <1>14 DEF NewsInv

(* A request about a group begins, or ends.                                *)
LEMMA GroupStep ==
    ASSUME NewsInv, NEW r \in Requests, NEW p \in NewsRequests,
           ~IsTelling(nreq[r]), ~IsTelling(p), nreq' = [nreq EXCEPT ![r] = p],
           UNCHANGED <<overlap, faults, active, once, online, inbox, pushed, mailed,
                       events, answered>>,
           nmoves' \in 0 .. NewsMoves, DOMAIN groups \subseteq DOMAIN groups', NamesGroup(p)',
           groups' \in Seq(GroupDocs), erased' \subseteq DOMAIN groups', GroupsHold'
    PROVE  NewsInv'
<1>1. nreq \in [Requests -> NewsRequests]
  BY DEF NewsInv, TypeOKNews
<1>2. /\ nreq' \in [Requests -> NewsRequests] /\ nreq'[r] = p
      /\ \A s \in Requests \ {r} : nreq'[s] = nreq[s]
  BY <1>1
<1>3. ASSUME NEW s \in Requests PROVE NamesGroup(nreq[s])'
  <2>1. CASE s = r
    BY <1>2, <2>1 DEF NamesGroup
  <2>2. CASE s # r
    <3>1. NamesGroup(nreq[s]) /\ nreq'[s] = nreq[s]
      BY <1>2, <2>2 DEF NewsInv
    <3>. QED  BY <3>1 DEF NamesGroup
  <2>. QED  BY <2>1, <2>2
<1>4. /\ \A v, k : Inboxed(v, k)' = Inboxed(v, k) /\ Shown(v, k)' = Shown(v, k)
      /\ \A v : Cardinality(Reads(v))' = Cardinality(Reads(v))
  BY InboxSame
<1>5. \A i \in DOMAIN inbox' : inbox'[i].key \in DOMAIN events
  BY DEF NewsInv, Kept
<1>6. /\ (\A k \in DOMAIN events : Suits(events[k]))'
      /\ (\A s \in Requests : KnowsEvent(nreq[s]) /\ NamesGroup(nreq[s]))'
      /\ OneTeller' /\ Kept' /\ (~faults => Progress)'
  BY <1>2, <1>3, <1>4, <1>5, NewsAside
<1>7. TypeOKNews'
  BY <1>2 DEF NewsInv, TypeOKNews, GroupDocs
<1>8. ReadOnce'
  BY <1>4 DEF NewsInv, ReadOnce, Reads
<1>. QED  BY <1>6, <1>7, <1>8 DEF NewsInv

LEMMA GroupsBegin ==
    ASSUME NewsInv, NEW r \in Requests,
           \/ \E users \in SUBSET Readers : CreateGroup(r, users)
           \/ \E g \in DOMAIN groups : UpdateGroup(r, g) \/ DeleteGroup(r, g)
    PROVE  NewsInv'
<1>1. /\ StartNews(r)
      /\ UNCHANGED <<overlap, faults, active, once, online, inbox, pushed, mailed,
                     events, answered, groups, erased>>
  BY DEF CreateGroup, UpdateGroup, DeleteGroup, peopleVars, groupVars
<1>2. nreq[r] = Idle /\ nmoves' \in 0 .. NewsMoves
  BY <1>1, NewsBoundsAssumption DEF StartNews, NewsMove, MayStart, NewsInv, TypeOKNews
<1>3. \A users : ValidUsers(users) => users \subseteq once
  BY DEF ValidUsers, NewsInv, TypeOKNews
<1>4. DOMAIN groups \subseteq Nat
  BY LenProperties DEF NewsInv, TypeOKNews
<1>5. PICK p \in JoinWork \cup AmendWork \cup EraseWork :
        nreq' = [nreq EXCEPT ![r] = p] /\ NamesGroup(p)
  <2>1. ASSUME NEW users \in SUBSET Readers, CreateGroup(r, users)
        PROVE  \E p \in JoinWork : nreq' = [nreq EXCEPT ![r] = p] /\ NamesGroup(p)
    <3>1. PICK p : p = [at |-> "insert group", users |-> users]
      OBVIOUS
    <3>2. p \in JoinWork /\ p.at = "insert group" /\ p.users = users
      BY <3>1 DEF JoinWork
    <3>3. NamesGroup(p)
      BY <1>3, <2>1, <3>2 DEF NamesGroup, CreateGroup
    <3>4. nreq' = [nreq EXCEPT ![r] = p]
      BY <2>1, <3>1 DEF CreateGroup, Goes
    <3>. QED  BY <3>2, <3>3, <3>4
  <2>2. ASSUME NEW g \in DOMAIN groups, UpdateGroup(r, g)
        PROVE  \E p \in AmendWork : nreq' = [nreq EXCEPT ![r] = p] /\ NamesGroup(p)
    <3>1. PICK users \in SUBSET Readers, named \in BOOLEAN :
            /\ IF named THEN ValidUsers(users) ELSE users = {}
            /\ \E status \in {"kept", "revived", "ended"} :
                 nreq' = [nreq EXCEPT ![r] =
                            [at |-> "patch group", group |-> g, users |-> users,
                             named |-> named, status |-> status]]
      BY <2>2 DEF UpdateGroup, Goes
    <3>2. PICK status \in {"kept", "revived", "ended"} :
             nreq' = [nreq EXCEPT ![r] =
                        [at |-> "patch group", group |-> g, users |-> users,
                         named |-> named, status |-> status]]
      BY <3>1
    <3>3. PICK p : p = [at |-> "patch group", group |-> g, users |-> users,
                        named |-> named, status |-> status]
      OBVIOUS
    <3>4. p \in AmendWork /\ p.at = "patch group" /\ p.users = users /\ p.group = g
      BY <1>4, <3>3 DEF AmendWork
    <3>5. NamesGroup(p)
      BY <1>3, <3>1, <3>4 DEF NamesGroup
    <3>. QED  BY <3>2, <3>3, <3>4, <3>5
  <2>3. ASSUME NEW g \in DOMAIN groups, DeleteGroup(r, g)
        PROVE  \E p \in EraseWork : nreq' = [nreq EXCEPT ![r] = p] /\ NamesGroup(p)
    <3>1. PICK p : p = [at |-> "erase group", group |-> g]
      OBVIOUS
    <3>2. p \in EraseWork /\ p.at = "erase group" /\ p.group = g
      BY <1>4, <3>1 DEF EraseWork
    <3>3. NamesGroup(p)
      BY <3>2 DEF NamesGroup
    <3>4. nreq' = [nreq EXCEPT ![r] = p]
      BY <2>3, <3>1 DEF DeleteGroup, Goes
    <3>. QED  BY <3>2, <3>3, <3>4
  <2>. QED  BY <2>1, <2>2, <2>3
<1>6. p \in NewsRequests /\ ~IsTelling(p) /\ ~IsTelling(nreq[r])
  <2>1. p \in NewsRequests
    BY DEF NewsRequests, JoinWork, AmendWork, EraseWork
  <2>2. p.at \in {"insert group", "patch group", "erase group"}
    BY DEF JoinWork, AmendWork, EraseWork
  <2>. QED  BY <1>2, <2>1, <2>2, NewsShapes
<1>7. /\ NamesGroup(p)' /\ groups' \in Seq(GroupDocs) /\ erased' \subseteq DOMAIN groups'
      /\ GroupsHold'
  BY <1>1, <1>5 DEF NamesGroup, GroupsHold, NewsInv, TypeOKNews, GroupDocs
<1>. QED  BY <1>1, <1>2, <1>5, <1>6, <1>7, GroupStep

LEMMA GroupsEnd ==
    ASSUME NewsInv, NEW r \in Requests, InsertGroup(r) \/ PatchGroup(r) \/ EraseGroup(r)
    PROVE  NewsInv'
<1>1. PICK q : q = nreq[r]
  OBVIOUS
<1>2. /\ UNCHANGED <<overlap, faults, active, once, online, inbox, pushed, mailed,
                     events, answered, nmoves>>
      /\ nreq' = [nreq EXCEPT ![r] = Idle]
  BY DEF InsertGroup, PatchGroup, EraseGroup, peopleVars, Ends, Goes
<1>3. /\ q \in NewsRequests /\ NamesGroup(q) /\ nmoves \in 0 .. NewsMoves
      /\ q.at \in {"insert group", "patch group", "erase group"}
  BY <1>1 DEF NewsInv, TypeOKNews, InsertGroup, PatchGroup, EraseGroup
<1>4. /\ groups \in Seq(GroupDocs) /\ DOMAIN groups = 1 .. Len(groups) /\ Len(groups) \in Nat
      /\ \A g \in DOMAIN groups : groups[g] \in GroupDocs
      /\ erased \subseteq DOMAIN groups
      /\ \A g \in DOMAIN groups : groups[g].users \subseteq once
      /\ \A g \in erased : ~groups[g].active
  <2>1. groups \in Seq(GroupDocs) /\ erased \subseteq DOMAIN groups
    BY DEF NewsInv, TypeOKNews, GroupDocs
  <2>. QED  BY <2>1, LenProperties DEF NewsInv, GroupsHold
<1>5. /\ groups' \in Seq(GroupDocs) /\ DOMAIN groups \subseteq DOMAIN groups'
      /\ erased' \subseteq DOMAIN groups' /\ GroupsHold'
  <2>1. CASE InsertGroup(r)
    <3>1. PICK d : d = [users |-> q.users, active |-> TRUE]
      OBVIOUS
    <3>2. q \in JoinWork /\ q.users \subseteq once
      BY <1>1, <1>3, <2>1, NewsShapes DEF InsertGroup, NamesGroup
    <3>3. d \in GroupDocs /\ d.users \subseteq once
      BY <3>1, <3>2 DEF GroupDocs, JoinWork
    <3>4. groups' = Append(groups, d) /\ erased' = erased
      BY <1>1, <2>1, <3>1 DEF InsertGroup
    <3>5. /\ groups' \in Seq(GroupDocs) /\ Len(groups') = Len(groups) + 1
          /\ \A g \in 1 .. Len(groups) : groups'[g] = groups[g]
          /\ groups'[Len(groups) + 1] = d
      BY <1>4, <3>3, <3>4, AppendProperties
    <3>6. DOMAIN groups' = 1 .. Len(groups) + 1
      BY <3>5, LenProperties
    <3>7. /\ \A g \in 1 .. Len(groups) + 1 : g \in 1 .. Len(groups) \/ g = Len(groups) + 1
          /\ 1 .. Len(groups) \subseteq 1 .. Len(groups) + 1
      BY <1>4
    <3>. QED  BY <1>2, <1>4, <3>3, <3>4, <3>5, <3>6, <3>7 DEF GroupsHold
  <2>2. CASE PatchGroup(r)
    <3>1. q \in AmendWork /\ q.users \subseteq once /\ q.group \in DOMAIN groups
      BY <1>1, <1>3, <2>2, NewsShapes DEF PatchGroup, NamesGroup
    <3>2. PICK d : d = PatchedGroup(q.group, q)
      OBVIOUS
    <3>3. /\ d \in GroupDocs /\ d.users \subseteq once
          /\ d.active <=> IF q.status = "kept" THEN groups[q.group].active
                                               ELSE q.status = "revived"
      BY <1>4, <3>1, <3>2 DEF PatchedGroup, GroupDocs, AmendWork
    <3>4. groups' = [groups EXCEPT ![q.group] = d]
      BY <1>1, <2>2, <3>2 DEF PatchGroup
    <3>5. /\ groups' \in Seq(GroupDocs) /\ DOMAIN groups' = DOMAIN groups
          /\ \A g \in DOMAIN groups : groups'[g] = IF g = q.group THEN d ELSE groups[g]
      BY <1>4, <3>1, <3>3, <3>4, ExceptSeq
    <3>6. /\ q.status = "kept" => erased' = erased
          /\ q.status = "revived" => erased' = erased \ {q.group}
          /\ q.status = "ended" => erased' = erased \cup {q.group}
          /\ q.status \in {"kept", "revived", "ended"}
      <4>1. q.status \in {"kept", "revived", "ended"}
        BY <3>1 DEF AmendWork
      <4>. QED  BY <1>1, <2>2, <4>1 DEF PatchGroup
    <3>. QED  BY <1>2, <1>4, <3>1, <3>3, <3>5, <3>6 DEF GroupsHold
  <2>3. CASE EraseGroup(r)
    <3>1. q.group \in DOMAIN groups
      BY <1>1, <1>3, <2>3 DEF EraseGroup, NamesGroup
    <3>2. PICK d : d = [groups[q.group] EXCEPT !.active = FALSE]
      OBVIOUS
    <3>3. d \in GroupDocs /\ d.users = groups[q.group].users /\ ~d.active
      BY <1>4, <3>1, <3>2 DEF GroupDocs
    <3>4. groups' = [groups EXCEPT ![q.group] = d] /\ erased' = erased \cup {q.group}
      BY <1>1, <2>3, <3>2 DEF EraseGroup
    <3>5. /\ groups' \in Seq(GroupDocs) /\ DOMAIN groups' = DOMAIN groups
          /\ \A g \in DOMAIN groups : groups'[g] = IF g = q.group THEN d ELSE groups[g]
      BY <1>4, <3>1, <3>3, <3>4, ExceptSeq
    <3>. QED  BY <1>2, <1>4, <3>1, <3>3, <3>4, <3>5 DEF GroupsHold
  <2>. QED  BY <2>1, <2>2, <2>3
<1>6. NamesGroup(Idle)'
  <2>1. Idle.at = "idle"
    BY DEF Idle
  <2>. QED  BY <2>1 DEF NamesGroup
<1>7. ~IsTelling(nreq[r]) /\ ~IsTelling(Idle) /\ Idle \in NewsRequests
  BY <1>1, <1>3, NewsShapes
<1>. QED  BY <1>2, <1>3, <1>5, <1>6, <1>7, GroupStep

(* What a request would have told is told to nobody.                       *)
LEMMA RaiseKeeps ==
    ASSUME NewsInv, NEW r \in Requests, RaiseNews(r)
    PROVE  NewsInv'
<1>1. /\ faults /\ nreq' = [nreq EXCEPT ![r] = Idle]
      /\ UNCHANGED <<overlap, faults, active, once, online, inbox, pushed, mailed, events,
                     answered, groups, erased, nmoves>>
  BY DEF RaiseNews, Raises, Ends, Goes, peopleVars, groupVars
<1>2. CASE IsTelling(nreq[r])
  <2>1. PICK q : q = nreq[r]
    OBVIOUS
  <2>2. q \in TellWork /\ q.key \in DOMAIN events /\ Suits(events[q.key])
    BY <1>2, <2>1, Teller
  <2>3. /\ \A u, k : Inboxed(u, k)' = Inboxed(u, k) /\ Shown(u, k)' = Shown(u, k)
        /\ \A u : Cardinality(Reads(u))' = Cardinality(Reads(u))
    BY <1>1, InboxSame
  <2>4. /\ nreq' \in [Requests -> NewsRequests]
        /\ (\A k \in DOMAIN events : Suits(events[k]))'
        /\ (\A s \in Requests : KnowsEvent(nreq[s]) /\ NamesGroup(nreq[s]))'
        /\ OneTeller'
    BY <1>1, <2>1, <2>2, <2>3, NewsTold
  <2>5. TypeOKNews'
    BY <1>1, <2>4 DEF NewsInv, TypeOKNews
  <2>6. Kept'
    BY <1>1, <2>3 DEF NewsInv, Kept
  <2>7. ReadOnce' /\ GroupsHold'
    BY <1>1, <2>3 DEF NewsInv, ReadOnce, GroupsHold, Reads
  <2>. QED  BY <1>1, <2>4, <2>5, <2>6, <2>7 DEF NewsInv
<1>3. CASE ~IsTelling(nreq[r])
  <2>1. NamesGroup(Idle)'
    <3>1. Idle.at = "idle"
      BY DEF Idle
    <3>. QED  BY <3>1 DEF NamesGroup
  <2>2. GroupsHold' /\ groups' \in Seq(GroupDocs) /\ erased' \subseteq DOMAIN groups'
        /\ nmoves' \in 0 .. NewsMoves
    BY <1>1 DEF NewsInv, TypeOKNews, GroupsHold, GroupDocs
  <2>. QED  BY <1>1, <1>3, <2>1, <2>2, NewsShapes, GroupStep
<1>. QED  BY <1>2, <1>3

-----------------------------------------------------------------------------
(* Theorems                                                                *)

LEMMA NewsStarts == NewsInit => NewsInv
<1>1. SUFFICES ASSUME NewsInit PROVE NewsInv
  OBVIOUS
<1>2. /\ inbox = <<>> /\ mailed = <<>> /\ events = <<>> /\ pushed = {}
      /\ active \subseteq Readers /\ once = active /\ online \subseteq Readers
      /\ answered = [u \in Readers |-> 0] /\ erased = {} /\ nmoves = 0
      /\ nreq = [r \in Requests |-> Idle]
  BY <1>1 DEF NewsInit
<1>3. DOMAIN inbox = {} /\ DOMAIN mailed = {} /\ DOMAIN events = {} /\ Len(events) = 0
  BY <1>2
<1>4. /\ groups \in Seq([users : SUBSET Readers, active : BOOLEAN])
      /\ DOMAIN groups = {1} /\ groups[1].users = active
  <2>1. groups = <<[users |-> active, active |-> TRUE]>>
    BY <1>1 DEF NewsInit
  <2>2. [users |-> active, active |-> TRUE] \in [users : SUBSET Readers, active : BOOLEAN]
    BY <1>2
  <2>. QED  BY <2>1, <2>2
<1>5. TypeOKNews
  <2>1. nmoves \in 0 .. NewsMoves /\ Len(events) <= NewsEvents
    BY <1>2, <1>3, NewsBoundsAssumption
  <2>2. nreq \in [Requests -> NewsRequests]
    BY <1>2, NewsShapes
  <2>3. /\ inbox \in Seq(News) /\ mailed \in Seq(NewsTo \X NewsKeys)
        /\ events \in Seq([how : Hows, to : Seq(NewsTo), spared : SUBSET Readers])
    BY <1>2, EmptySeq
  <2>. QED  BY <1>2, <1>4, <2>1, <2>2, <2>3 DEF TypeOKNews
<1>6. \A r \in Requests : KnowsEvent(nreq[r]) /\ NamesGroup(nreq[r])
  <2>1. Idle.at = "idle" /\ ~IsTelling(Idle)
    BY NewsShapes DEF Idle
  <2>. QED  BY <1>2, <2>1 DEF KnowsEvent, NamesGroup
<1>7. OneTeller
  BY <1>2, NewsShapes DEF OneTeller
<1>8. Kept
  BY <1>2, <1>3 DEF Kept
<1>9. ReadOnce
  <2>1. \A u : {i \in DOMAIN inbox : inbox[i].to = u /\ inbox[i].read} = {}
    BY <1>3
  <2>. QED  BY <1>2, <2>1, FS_EmptySet DEF ReadOnce
<1>10. GroupsHold
  BY <1>2, <1>4 DEF GroupsHold
<1>11. Progress
  BY <1>3 DEF Progress
<1>. QED  BY <1>3, <1>5, <1>6, <1>7, <1>8, <1>9, <1>10, <1>11 DEF NewsInv

LEMMA NewsKeep == NewsInv /\ [NewsNext]_nvars => NewsInv'
<1>1. SUFFICES ASSUME NewsInv, [NewsNext]_nvars PROVE NewsInv'
  OBVIOUS
<1>2. CASE UNCHANGED nvars
  <2>1. UNCHANGED <<overlap, faults, active, once, online, inbox, pushed, mailed, events,
                    answered, groups, erased, nreq, nmoves>>
    BY <1>2 DEF nvars
  <2>2. /\ \A u, k : Inboxed(u, k)' = Inboxed(u, k) /\ Shown(u, k)' = Shown(u, k)
        /\ \A u : Cardinality(Reads(u))' = Cardinality(Reads(u))
    BY <2>1, InboxSame
  <2>3. \A i \in DOMAIN inbox' : inbox'[i].key \in DOMAIN events
    BY <1>1, <2>1 DEF NewsInv, Kept
  <2>4. /\ (\A k \in DOMAIN events : Suits(events[k]))'
        /\ (\A s \in Requests : KnowsEvent(nreq[s]) /\ NamesGroup(nreq[s]))'
        /\ OneTeller' /\ Kept' /\ (~faults => Progress)'
    BY <1>1, <2>1, <2>2, <2>3, NewsStill
  <2>5. TypeOKNews'
    BY <1>1, <2>1 DEF NewsInv, TypeOKNews
  <2>6. ReadOnce' /\ GroupsHold'
    BY <1>1, <2>1, <2>2 DEF NewsInv, ReadOnce, GroupsHold, Reads
  <2>. QED  BY <2>4, <2>5, <2>6 DEF NewsInv
<1>3. ASSUME NEW u \in Readers, Touch(u) \/ Fades(u) \/ DeactivateReader(u) PROVE NewsInv'
  BY <1>1, <1>3, PeopleKeep
<1>4. ASSUME NEW u \in Readers, MarkOne(u) PROVE NewsInv'
  <2>1. PICK i \in Unread(u) : Marks(u, {i})
    BY <1>4 DEF MarkOne
  <2>2. {i} \in SUBSET Unread(u)
    BY <2>1
  <2>. QED  BY <1>1, <2>1, <2>2, MarksKeep
<1>5. ASSUME NEW u \in Readers, MarkAll(u) PROVE NewsInv'
  <2>1. Marks(u, Unread(u))
    BY <1>5 DEF MarkAll
  <2>2. PICK places : places = Unread(u)
    OBVIOUS
  <2>3. Marks(u, places)
    BY <2>1, <2>2 DEF Marks
  <2>. QED  BY <1>1, <2>2, <2>3, MarksKeep
<1>6. ASSUME NEW r \in Requests, NEW how \in Hows, TellEvent(r, how) PROVE NewsInv'
  BY <1>1, <1>6, TellKeeps
<1>7. ASSUME NEW r \in Requests, FindRecipient(r) PROVE NewsInv'
  BY <1>1, <1>7, FindKeeps
<1>8. ASSUME NEW r \in Requests, CheckPresence(r) PROVE NewsInv'
  BY <1>1, <1>8, PresenceKeeps
<1>9. ASSUME NEW r \in Requests, StoreNews(r) PROVE NewsInv'
  BY <1>1, <1>9, StoreKeeps
<1>10. ASSUME NEW r \in Requests, PushNews(r) PROVE NewsInv'
  BY <1>1, <1>10, PushKeeps
<1>11. ASSUME NEW r \in Requests, SendMail(r) PROVE NewsInv'
  BY <1>1, <1>11, MailKeeps
<1>12. ASSUME NEW r \in Requests, InsertGroup(r) \/ PatchGroup(r) \/ EraseGroup(r)
       PROVE  NewsInv'
  BY <1>1, <1>12, GroupsEnd
<1>13. ASSUME NEW r \in Requests, RaiseNews(r) PROVE NewsInv'
  BY <1>1, <1>13, RaiseKeeps
<1>14. ASSUME NEW r \in Requests,
              \/ \E users \in SUBSET Readers : CreateGroup(r, users)
              \/ \E g \in DOMAIN groups : UpdateGroup(r, g) \/ DeleteGroup(r, g)
       PROVE  NewsInv'
  BY <1>1, <1>14, GroupsBegin
<1>. QED
  BY <1>1, <1>2, <1>3, <1>4, <1>5, <1>6, <1>7, <1>8, <1>9, <1>10, <1>11, <1>12, <1>13, <1>14
  DEF NewsNext

LEMMA NewsInvariance == NewsSpec => []NewsInv
BY NewsStarts, NewsKeep, PTL DEF NewsSpec

(* Notifications, e-mails, events, groups and requests keep their types.   *)
THEOREM NewsTypeCorrect == NewsSpec => []TypeOKNews
<1>1. NewsInv => TypeOKNews
  BY DEF NewsInv
<1>. QED  BY <1>1, NewsInvariance, PTL

(* Users are told, and told once: without failures, whoever an event is    *)
(* for has one notification, and one e-mail unless they were online, when  *)
(* it has been told, however often a list names them (_notify,             *)
(* _notify_owner, notify_user_ids, notify_by_emails); what a stream shows  *)
(* is stored; and each notification is counted as read once.               *)
THEOREM NewsAreTrue == NewsSpec => []NewsTrue
<1>1. ASSUME NewsInv PROVE NewsTrue
  <2>1. StreamsShowInbox
    <3>1. \A p \in pushed : Shown(p[1], p[2])
      BY <1>1 DEF NewsInv, Kept
    <3>2. TypeOKNews
      BY <1>1 DEF NewsInv
    <3>. QED  BY <3>1, <3>2, NewsCounts DEF StreamsShowInbox
  <2>2. EachToldOnce
    <3>1. SUFFICES ASSUME ~faults, NEW k \in DOMAIN events, AllTold(k),
                          NEW u \in ToSet(events[k].to)
          PROVE  /\ events[k].how # "agreement" \/ u \in active =>
                       /\ u \in Readers => Inboxed(u, k) = 1
                       /\ Mails(u, k) = IF u \in events[k].spared THEN 0 ELSE 1
                 /\ events[k].how = "agreement" /\ u \notin once =>
                       Inboxed(u, k) + Mails(u, k) = 0
      BY DEF EachToldOnce
    <3>2. Informed(events[k], u, Inboxed(u, k), Mails(u, k), active, once)
      BY <1>1, <3>1 DEF NewsInv, Progress
    <3>. QED  BY <3>2 DEF Informed
  <2>. QED  BY <1>1, <2>1, <2>2 DEF NewsInv, NewsTrue
<1>. QED  BY <1>1, NewsInvariance, PTL

=============================================================================
