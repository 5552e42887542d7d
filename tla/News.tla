--------------------------------- MODULE News ---------------------------------
(***************************************************************************)
(* How users are told: by a notification in their inbox, pushed to their   *)
(* stream, and by an e-mail, which the support and conversation services   *)
(* spare those who are online (infrastructure/realtime, the notification   *)
(* services of support, conversations, agreements and compliance review,   *)
(* and src/modules/notifications), and the groups that campaigns go to.    *)
(*                                                                         *)
(* Redis is what the code uses of it: a key that expires, and channels that*)
(* reach who is subscribed at that moment.  An event is its number.        *)
(***************************************************************************)
EXTENDS Handlers, SequencesExt

CONSTANTS
    Readers,     \* the users
    Stranger,    \* an address that no user has
    NewsEvents,  \* bound on the events told
    NewsMoves    \* bound on the requests made

ASSUME NewsBoundsAssumption == NewsEvents \in Nat /\ NewsMoves \in Nat
ASSUME StrangerAssumption  == Stranger \notin Readers
ASSUME ReadersAssumption   == IsFiniteSet(Readers)

VARIABLES
    active,     \* the users that are active
    once,       \* history: those that were at the start
    online,     \* the users whose presence key is there
    inbox,      \* the collection of user notifications, in order
    pushed,     \* history: what reached a stream of its user
    mailed,     \* history: the e-mails handed to the sender, in order
    events,     \* history: by event, who it was for and who was spared
    answered,   \* history: how many of its marks each user was told of
    groups,     \* the collection of groups, in the order of insertion
    erased,     \* history: the groups deleted and not revived by an update
    nreq,       \* where each request is
    nmoves      \* requests made so far

nvars == <<overlap, faults, active, once, online, inbox, pushed, mailed, events,
           answered, groups, erased, nreq, nmoves>>
peopleVars == <<active, once, online>>
groupVars  == <<groups, erased>>

Hows   == {"talk", "contact", "decision", "agreement", "invite", "visitor"}
NewsKeys == 1 .. NewsEvents
News   == [to : Readers, key : NewsKeys, read : BOOLEAN]
NewsTo == Readers \cup {Stranger}

(* The recipients of an event, in the order in which they are told: the    *)
(* administrators that list_admins finds, who are active, ...              *)
AdminLists == SetToAllKPermutations(active) \ {<<>>}

(* ... the other side of a conversation, the owner of a ticket or company, *)
OneReader == {<<u>> : u \in Readers}

(* ... the owner of an agreement and the users that sign it, who may be    *)
(* the same, or one party of a minuta.                                     *)
Signatories == OneReader \cup {<<u, v, u>> : u, v \in Readers}

(* ... the addresses invited to sign, of which one may be no user's.       *)
Invited == OneReader \cup {<<Stranger, u>> : u \in Readers}

Audiences(how) ==
    CASE how = "talk"      -> AdminLists \cup OneReader
      [] how = "contact"   -> AdminLists
      [] how = "decision"  -> OneReader
      [] how = "agreement" -> Signatories
      [] how = "invite"    -> Invited
      [] how = "visitor"   -> {<<Stranger>>}

NewsRequests ==
    {Idle}
    \cup [at : {"find", "presence", "store", "push", "mail"}, how : Hows,
          to : Seq(NewsTo), seen : SUBSET Readers, spare : BOOLEAN, key : NewsKeys]
    \cup [at : {"insert group"}, users : SUBSET Readers]
    \cup [at : {"patch group"}, group : Nat, users : SUBSET Readers,
          named : BOOLEAN, status : {"kept", "revived", "ended"}]
    \cup [at : {"erase group"}, group : Nat]

TypeOKNews ==
    /\ active \subseteq once /\ once \subseteq Readers
    /\ online \subseteq Readers
    /\ inbox \in Seq(News)
    /\ pushed \subseteq Readers \X NewsKeys
    /\ mailed \in Seq(NewsTo \X NewsKeys)
    /\ events \in Seq([how : Hows, to : Seq(NewsTo), spared : SUBSET Readers])
    /\ Len(events) <= NewsEvents
    /\ answered \in [Readers -> Nat]
    /\ groups \in Seq([users : SUBSET Readers, active : BOOLEAN])
    /\ erased \subseteq DOMAIN groups
    /\ nreq \in [Requests -> NewsRequests]
    /\ nmoves \in 0 .. NewsMoves

NewsInit ==
    /\ HandlersInit
    /\ active \in SUBSET Readers /\ once = active
    /\ online \in SUBSET Readers
    /\ inbox = <<>> /\ pushed = {} /\ mailed = <<>> /\ events = <<>>
    /\ answered = [u \in Readers |-> 0]
    /\ groups = <<[users |-> active, active |-> TRUE]>> /\ erased = {}
    /\ nreq = [r \in Requests |-> Idle]
    /\ nmoves = 0

(* A request of one step.                                                  *)
NewsMove ==
    /\ overlap \/ AllIdle(nreq)
    /\ nmoves < NewsMoves
    /\ nmoves' = nmoves + 1

StartNews(r) == MayStart(nreq, r) /\ NewsMove

(***************************************************************************)
(* Presence (presence.py)                                                  *)
(***************************************************************************)

PresenceMove ==
    /\ NewsMove
    /\ UNCHANGED <<overlap, faults, active, once, inbox, pushed, mailed, events,
                   answered, groupVars, nreq>>

(* touch, by a heartbeat or the ping of a stream.                          *)
Touch(u) == PresenceMove /\ online' = online \cup {u}

(* clear, when the user signs out, or the end of the key's time without a  *)
(* sign of life, which the bound counts too: the end of a stream clears    *)
(* nothing.                                                                *)
Fades(u) == PresenceMove /\ online' = online \ {u}

(* An administrator deactivates the user.                                  *)
DeactivateReader(u) ==
    /\ NewsMove
    /\ active' = active \ {u}
    /\ UNCHANGED <<overlap, faults, once, online, inbox, pushed, mailed, events, answered,
                   groupVars, nreq>>

(***************************************************************************)
(* Telling one event to its audience, one recipient after the other        *)
(***************************************************************************)

(* The first step for a recipient.                                         *)
FirstStep(how) ==
    CASE how = "talk"                     -> "presence"
      [] how \in {"contact", "decision"}  -> "store"
      [] how \in {"agreement", "invite"}  -> "find"
      [] how = "visitor"                  -> "mail"

Recipient(q) == Head(q.to)

(* The step after the recipient of q.                                      *)
Onward(r, q) ==
    IF Len(q.to) = 1
    THEN Ends(nreq, r)
    ELSE Goes(nreq, r, [q EXCEPT !.at = FirstStep(q.how), !.to = Tail(q.to),
                                 !.spare = FALSE])

(* A handler tells what it stored.                                         *)
TellEvent(r, how) ==
    /\ StartNews(r)
    /\ Len(events) < NewsEvents
    /\ \E to \in Audiences(how) :
         /\ events' = Append(events, [how |-> how, to |-> to, spared |-> {}])
         /\ Goes(nreq, r, [at |-> FirstStep(how), how |-> how, to |-> to, seen |-> {},
                           spare |-> FALSE, key |-> Len(events')])
    /\ UNCHANGED <<overlap, faults, peopleVars, inbox, pushed, mailed, answered,
                   groupVars>>

Skips_OnlySeen(q) == Recipient(q) \in q.seen

(* notify_user_ids leaves out who was seen or is not active.               *)
Skips(q) == Recipient(q) \in q.seen \/ Recipient(q) \notin active

(* notify_user_ids, and notify_by_emails, which asks only whether the      *)
(* address is a user's.                                                    *)
FindRecipient(r) ==
    LET q == nreq[r] IN
    /\ q.at = "find"
    /\ IF q.how = "invite"
       THEN Goes(nreq, r, [q EXCEPT !.at = IF Recipient(q) = Stranger THEN "mail"
                                                                      ELSE "store"])
       ELSE LET noted == [q EXCEPT !.seen = @ \cup {Recipient(q)}]
            IN  IF Skips(q) THEN Onward(r, noted)
                            ELSE Goes(nreq, r, [noted EXCEPT !.at = "store"])
    /\ UNCHANGED <<overlap, faults, peopleVars, inbox, pushed, mailed, events, answered,
                   groupVars, nmoves>>

(* is_online, before the notification in _notify and after it in           *)
(* _notify_owner: who is online is spared the e-mail.                      *)
CheckPresence(r) ==
    LET q == nreq[r]  here == Recipient(q) \in online IN
    /\ q.at = "presence"
    /\ events' = IF here THEN [events EXCEPT ![q.key].spared = @ \cup {Recipient(q)}]
                       ELSE events
    /\ CASE q.how = "talk" -> Goes(nreq, r, [q EXCEPT !.at = "store", !.spare = here])
         [] q.how = "decision" /\ here  -> Onward(r, q)
         [] q.how = "decision" /\ ~here -> Goes(nreq, r, [q EXCEPT !.at = "mail"])
    /\ UNCHANGED <<overlap, faults, peopleVars, inbox, pushed, mailed, answered,
                   groupVars, nmoves>>

StoreNews(r) ==
    LET q == nreq[r] IN
    /\ q.at = "store"
    /\ inbox' = Append(inbox, [to |-> Recipient(q), key |-> q.key, read |-> FALSE])
    /\ Goes(nreq, r, [q EXCEPT !.at = "push"])
    /\ UNCHANGED <<overlap, faults, peopleVars, pushed, mailed, events, answered,
                   groupVars, nmoves>>

(* publish_user_notification reaches who is subscribed at that moment, and *)
(* is kept for nobody.                                                     *)
PushNews(r) ==
    LET q == nreq[r] IN
    /\ q.at = "push"
    /\ pushed' \in {pushed, pushed \cup {<<Recipient(q), q.key>>}}
    /\ CASE q.spare          -> Onward(r, q)
         [] q.how = "decision" -> Goes(nreq, r, [q EXCEPT !.at = "presence"])
         [] OTHER            -> Goes(nreq, r, [q EXCEPT !.at = "mail"])
    /\ UNCHANGED <<overlap, faults, peopleVars, inbox, mailed, events, answered,
                   groupVars, nmoves>>

(* Whether the sender raises or not: the exception is only logged.         *)
SendMail(r) ==
    LET q == nreq[r] IN
    /\ q.at = "mail"
    /\ mailed' = Append(mailed, <<Recipient(q), q.key>>)
    /\ Onward(r, q)
    /\ UNCHANGED <<overlap, faults, peopleVars, inbox, pushed, events, answered,
                   groupVars, nmoves>>

(***************************************************************************)
(* The inbox (UserNotificationsRepository)                                 *)
(***************************************************************************)

(* The notifications that a mark of user u is for.                         *)
Unread(u) == {i \in DOMAIN inbox : inbox[i].to = u /\ ~inbox[i].read}

(* User u marks the notifications of places, and is told how many.         *)
Marks(u, places) ==
    /\ NewsMove
    /\ inbox' = [i \in DOMAIN inbox |->
                    IF i \in places THEN [inbox[i] EXCEPT !.read = TRUE] ELSE inbox[i]]
    /\ answered' = [answered EXCEPT ![u] = @ + Cardinality(places)]
    /\ UNCHANGED <<overlap, faults, peopleVars, pushed, mailed, events, groupVars, nreq>>

(* mark_read: any other notification is answered with 404.                 *)
MarkOne(u) == \E i \in Unread(u) : Marks(u, {i})

MarkAll(u) == Unread(u) # {} /\ Marks(u, Unread(u))

(***************************************************************************)
(* Groups (NotificationGroupsService)                                      *)
(***************************************************************************)

(* _validate_user_ids                                                      *)
ValidUsers(users) == users \subseteq active

CreateGroup(r, users) ==
    /\ StartNews(r)
    /\ ValidUsers(users)
    /\ Goes(nreq, r, [at |-> "insert group", users |-> users])
    /\ UNCHANGED <<overlap, faults, peopleVars, inbox, pushed, mailed, events, answered,
                   groupVars>>

InsertGroup(r) ==
    /\ nreq[r].at = "insert group"
    /\ groups' = Append(groups, [users |-> nreq[r].users, active |-> TRUE])
    /\ Ends(nreq, r)
    /\ UNCHANGED <<overlap, faults, peopleVars, inbox, pushed, mailed, events, answered,
                   erased, nmoves>>

(* update reads the group, deleted or not, and validates the users that    *)
(* its payload may name.  The payload may set is_active too.               *)
UpdateGroup(r, g) ==
    /\ StartNews(r)
    /\ \E users \in SUBSET Readers, named \in BOOLEAN,
          status \in {"kept", "revived", "ended"} :
         /\ IF named THEN ValidUsers(users) ELSE users = {}
         /\ Goes(nreq, r, [at |-> "patch group", group |-> g, users |-> users,
                           named |-> named, status |-> status])
    /\ UNCHANGED <<overlap, faults, peopleVars, inbox, pushed, mailed, events, answered,
                   groupVars>>

(* Group g with the fields that the payload of q names.                    *)
PatchedGroup(g, q) ==
    [users  |-> IF q.named THEN q.users ELSE groups[g].users,
     active |-> IF q.status = "kept" THEN groups[g].active ELSE q.status = "revived"]

PatchGroup(r) ==
    LET q == nreq[r] IN
    /\ q.at = "patch group"
    /\ groups' = [groups EXCEPT ![q.group] = PatchedGroup(q.group, q)]
    /\ erased' = CASE q.status = "kept"    -> erased
                   [] q.status = "revived" -> erased \ {q.group}
                   [] q.status = "ended"   -> erased \cup {q.group}
    /\ Ends(nreq, r)
    /\ UNCHANGED <<overlap, faults, peopleVars, inbox, pushed, mailed, events, answered,
                   nmoves>>

DeleteGroup(r, g) ==
    /\ StartNews(r)
    /\ groups[g].active
    /\ Goes(nreq, r, [at |-> "erase group", group |-> g])
    /\ UNCHANGED <<overlap, faults, peopleVars, inbox, pushed, mailed, events, answered,
                   groupVars>>

(* soft_delete                                                             *)
EraseGroup(r) ==
    /\ nreq[r].at = "erase group"
    /\ groups' = [groups EXCEPT ![nreq[r].group].active = FALSE]
    /\ erased' = erased \cup {nreq[r].group}
    /\ Ends(nreq, r)
    /\ UNCHANGED <<overlap, faults, peopleVars, inbox, pushed, mailed, events, answered,
                   nmoves>>

RaiseNews(r) ==
    /\ Raises(nreq, r)
    /\ UNCHANGED <<overlap, faults, peopleVars, inbox, pushed, mailed, events, answered,
                   groupVars, nmoves>>

NewsNext ==
    \/ \E u \in Readers :
         \/ Touch(u) \/ Fades(u) \/ DeactivateReader(u) \/ MarkOne(u) \/ MarkAll(u)
    \/ \E r \in Requests, how \in Hows : TellEvent(r, how)
    \/ \E r \in Requests :
         \/ FindRecipient(r) \/ CheckPresence(r) \/ StoreNews(r) \/ PushNews(r)
         \/ SendMail(r) \/ InsertGroup(r) \/ PatchGroup(r) \/ EraseGroup(r)
         \/ RaiseNews(r)
         \/ \E users \in SUBSET Readers : CreateGroup(r, users)
         \/ \E g \in DOMAIN groups : UpdateGroup(r, g) \/ DeleteGroup(r, g)

NewsSpec == NewsInit /\ [][NewsNext]_nvars

(***************************************************************************)
(* Properties                                                              *)
(***************************************************************************)

(* No request is telling event k any more.                                 *)
AllTold(k) == \A r \in Requests : "key" \in DOMAIN nreq[r] => nreq[r].key # k

Inboxed(u, k) == Cardinality({i \in DOMAIN inbox : inbox[i].to = u /\ inbox[i].key = k})

Mails(u, k) == Cardinality({i \in DOMAIN mailed : mailed[i] = <<u, k>>})

(* Whoever an event is for finds it in the inbox once and is e-mailed once,*)
(* however often a list names them, unless they were online; who left the  *)
(* platform before is not told by user id (_notify, _notify_owner,         *)
(* _deliver, notify_user_ids, notify_by_emails).                           *)
EachToldOnce ==
    ~faults =>
        \A k \in DOMAIN events : AllTold(k) =>
            \A u \in ToSet(events[k].to) :
                LET due == IF u \in events[k].spared THEN 0 ELSE 1 IN
                /\ events[k].how # "agreement" \/ u \in active =>
                      /\ u \in Readers => Inboxed(u, k) = 1
                      /\ Mails(u, k) = due
                /\ events[k].how = "agreement" /\ u \notin once =>
                      Inboxed(u, k) + Mails(u, k) = 0

(* What a stream shows is in the inbox already, also when the request that *)
(* told it did not end (publish_user_notification).                        *)
StreamsShowInbox == \A p \in pushed : Inboxed(p[1], p[2]) > 0

(* The answers count each notification that was read once, and for the     *)
(* user whose it is (mark_read, mark_all_read).                            *)
ReadOnce ==
    \A u \in Readers :
        answered[u] = Cardinality({i \in DOMAIN inbox : inbox[i].to = u /\ inbox[i].read})

(* A group names users that were active, and once deleted it stays so      *)
(* unless an update says otherwise.                                        *)
GroupsHold ==
    /\ \A g \in DOMAIN groups : groups[g].users \subseteq once
    /\ \A g \in erased : ~groups[g].active

(* Users are told, and told once.                                          *)
NewsTrue == EachToldOnce /\ StreamsShowInbox /\ ReadOnce /\ GroupsHold

=============================================================================
