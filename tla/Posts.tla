------------------------------- MODULE Posts -------------------------------
(***************************************************************************)
(* The blog (src/modules/blog/service.py) and the worker that publishes    *)
(* scheduled posts (src/workers/blog/runner.py).                           *)
(*                                                                         *)
(* Administrators' updates decide on a copy and then store a patch without *)
(* a condition, as the worker does for each post of the list it has read.  *)
(* The public sees what is published, and only that.  Left out: the text,  *)
(* the cover and the slug of a post, which a unique index guards.          *)
(***************************************************************************)
EXTENDS Handlers, Naturals

CONSTANTS
    PostIds,    \* the ids that new posts get
    Horizon,    \* bound on the clock
    PostMoves   \* bound on the requests and rounds of the worker made

ASSUME PostsAssumption == Horizon \in Nat \ {0} /\ PostMoves \in Nat

VARIABLES
    post,    \* the blog_posts collection
    clock,   \* utcnow()
    preq,    \* where each request, or round of the worker, is
    pmoves   \* requests and rounds so far

pvars == <<overlap, faults, post, clock, preq, pmoves>>

(* Dates; a payload may also leave publish_at as it is.                    *)
Unset == 0
Same  == Horizon + 1
Dates == Unset .. Horizon

NoPost       == [status |-> "none"]
Deleted      == [status |-> "deleted"]   \* ids are not given twice
PostStatuses == {"draft", "scheduled", "published", "disabled"}
PostDocs     == [status : PostStatuses, publishAt : Dates, publishedAt : Dates]

(* What an administrator asks for: a status or none, and a publish_at.     *)
Asks == [status : PostStatuses \cup {"same"}, publishAt : Dates \cup {Same}]

InsertWork == [at : {"insert"}, doc : PostDocs]
PatchWork  == [at : {"patch", "publish"}, p : PostIds, copy : PostDocs,
               ask : Asks]
DueWork    == [at : {"publish due"}, due : SUBSET PostIds, now : 1 .. Horizon]

PostRequests == {Idle} \cup InsertWork \cup PatchWork \cup DueWork

TypeOKPosts ==
    /\ post \in [PostIds -> PostDocs \cup {NoPost, Deleted}]
    /\ clock \in 1 .. Horizon
    /\ preq \in [Requests -> PostRequests]
    /\ pmoves \in 0 .. PostMoves

PostsInit ==
    /\ HandlersInit
    /\ post = [p \in PostIds |-> NoPost]
    /\ clock = 1
    /\ preq = [r \in Requests |-> Idle]
    /\ pmoves = 0

StartPost(r) ==
    /\ MayStart(preq, r)
    /\ pmoves < PostMoves
    /\ pmoves' = pmoves + 1

IsStored(p) == post[p] \notin {NoPost, Deleted}

(* A post of the given status with the dates that go with it, now.         *)
Dated(status, at) ==
    [status      |-> status,
     publishAt   |-> IF status = "published" /\ at = Unset THEN clock ELSE at,
     publishedAt |-> IF status = "published" THEN clock ELSE Unset]

(* _resolve_create_status.                                                 *)
Resolved(ask) ==
    LET at == ask.publishAt IN
    IF ask.status \in {"disabled", "published"} THEN Dated(ask.status, at)
    ELSE IF at > clock THEN Dated("scheduled", at)
    ELSE IF ask.status = "scheduled" THEN Dated("published", at)
    ELSE Dated("draft", at)

(* create: the status is chosen before the slug is looked for.             *)
CreatePost(r, ask) ==
    /\ StartPost(r)
    /\ ask.publishAt # Same
    /\ ask.status = "scheduled" => ask.publishAt # Unset
    /\ Goes(preq, r, [at |-> "insert", doc |-> Resolved(ask)])
    /\ UNCHANGED <<overlap, faults, post, clock>>

InsertPost(r) ==
    LET q == preq[r] IN
    /\ q.at = "insert"
    /\ \E p \in PostIds :
         /\ post[p] = NoPost
         /\ post' = [post EXCEPT ![p] = q.doc]
    /\ Ends(preq, r)
    /\ UNCHANGED <<overlap, faults, clock, pmoves>>

(* update, disable (an update of the status alone) and publish.            *)
ReadPost(r, p, ask, at) ==
    /\ StartPost(r)
    /\ IsStored(p)
    /\ at = "publish" => ask = [status |-> "published", publishAt |-> Same]
    /\ Goes(preq, r, [at |-> at, p |-> p, copy |-> post[p], ask |-> ask])
    /\ UNCHANGED <<overlap, faults, post, clock>>

(* The date and the status that update settles on, from its copy.          *)
AskedDate(q) == IF q.ask.publishAt = Same THEN q.copy.publishAt
                                          ELSE q.ask.publishAt

AskedStatus(q) == IF q.ask.status = "same" THEN q.copy.status ELSE q.ask.status

NextStatus(q) ==
    IF /\ q.ask.status = "same"
       /\ q.copy.status \in {"draft", "scheduled"}
       /\ AskedDate(q) > clock
      THEN "scheduled"
    ELSE IF AskedStatus(q) = "scheduled" /\ AskedDate(q) <= clock
      THEN "published"
    ELSE AskedStatus(q)

(* published_at of the copy, or now.                                       *)
FirstPublished(q) == IF q.copy.publishedAt = Unset THEN clock
                                                   ELSE q.copy.publishedAt

(* The fields of the stored post after the patch of update.                *)
Patched(d, q) ==
    LET status == NextStatus(q) IN
    [status      |-> status,
     publishAt   |-> IF status = "published" /\ AskedDate(q) = Unset THEN clock
                     ELSE IF q.ask.publishAt = Same THEN d.publishAt
                     ELSE q.ask.publishAt,
     publishedAt |-> IF status = "published" THEN FirstPublished(q)
                     ELSE IF status = "disabled" THEN d.publishedAt
                     ELSE Unset]

(* The patch is computed, and applied to the stored post, whatever it is   *)
(* by now; a post that was deleted is not found.                           *)
PatchPost(r) ==
    LET q       == preq[r]
        refused == AskedStatus(q) = "scheduled" /\ AskedDate(q) = Unset
    IN /\ q.at = "patch"
       /\ post' = IF refused \/ ~IsStored(q.p) THEN post
                  ELSE [post EXCEPT ![q.p] = Patched(@, q)]
       /\ Ends(preq, r)
       /\ UNCHANGED <<overlap, faults, clock, pmoves>>

(* publish stores both dates, the copy's or now.                           *)
PublishPost(r) ==
    LET q == preq[r] IN
    /\ q.at = "publish"
    /\ post' = IF ~IsStored(q.p) THEN post
               ELSE [post EXCEPT ![q.p] =
                       [status      |-> "published",
                        publishAt   |-> IF q.copy.publishAt = Unset THEN clock
                                        ELSE q.copy.publishAt,
                        publishedAt |-> FirstPublished(q)]]
    /\ Ends(preq, r)
    /\ UNCHANGED <<overlap, faults, clock, pmoves>>

DeletePost(r, p) ==
    /\ StartPost(r)
    /\ IsStored(p)
    /\ post' = [post EXCEPT ![p] = Deleted]
    /\ UNCHANGED <<overlap, faults, clock, preq>>

(* publish_due_scheduled: the posts that are due by now, one after another.*)
PublishingDue(due, now) == IF due = {} THEN Idle
                           ELSE [at |-> "publish due", due |-> due, now |-> now]

ListDue(r) ==
    /\ StartPost(r)
    /\ Goes(preq, r,
            PublishingDue({p \in PostIds : /\ post[p].status = "scheduled"
                                           /\ post[p].publishAt # Unset
                                           /\ post[p].publishAt <= clock},
                          clock))
    /\ UNCHANGED <<overlap, faults, post, clock>>

PublishDue_Undated(r) ==
    LET q == preq[r] IN
    /\ q.at = "publish due"
    /\ \E p \in q.due :
         /\ post' = IF ~IsStored(p) THEN post
                    ELSE [post EXCEPT ![p].status = "published"]
         /\ Goes(preq, r, PublishingDue(q.due \ {p}, q.now))
    /\ UNCHANGED <<overlap, faults, clock, pmoves>>

PublishDue(r) ==
    LET q == preq[r] IN
    /\ q.at = "publish due"
    /\ \E p \in q.due :
         /\ post' = IF ~IsStored(p) THEN post
                    ELSE [post EXCEPT ![p].status = "published",
                                      ![p].publishedAt = q.now]
         /\ Goes(preq, r, PublishingDue(q.due \ {p}, q.now))
    /\ UNCHANGED <<overlap, faults, clock, pmoves>>

Tick ==
    /\ clock < Horizon
    /\ clock' = clock + 1
    /\ UNCHANGED <<overlap, faults, post, preq, pmoves>>

PostRaises(r) ==
    Raises(preq, r) /\ UNCHANGED <<overlap, faults, post, clock, pmoves>>

PostStep(r) ==
    \/ \E ask \in Asks : CreatePost(r, ask)
    \/ InsertPost(r)
    \/ \E p \in PostIds, ask \in Asks, at \in {"patch", "publish"} :
         ReadPost(r, p, ask, at)
    \/ PatchPost(r) \/ PublishPost(r)
    \/ \E p \in PostIds : DeletePost(r, p)
    \/ ListDue(r) \/ PublishDue(r)
    \/ PostRaises(r)

PostsNext == Tick \/ \E r \in Requests : PostStep(r)

PostsSpec == PostsInit /\ [][PostsNext]_pvars

(***************************************************************************)
(* Properties                                                              *)
(***************************************************************************)

(* Whatever updates, publications and rounds of the worker overlap, what   *)
(* the public sees has a date of publication, and a draft or scheduled     *)
(* post has none.  One at a time, a scheduled post has the date that       *)
(* list_due_scheduled finds it by, so it is not forgotten, and a published *)
(* one the date it is listed by (BlogPublicListParams' default sort).      *)
PostDates ==
    \A p \in PostIds :
        /\ post[p].status = "published" => post[p].publishedAt # Unset
        /\ post[p].status \in {"draft", "scheduled"} =>
               post[p].publishedAt = Unset
        /\ ~overlap /\ post[p].status \in {"scheduled", "published"} =>
               post[p].publishAt # Unset

=============================================================================
