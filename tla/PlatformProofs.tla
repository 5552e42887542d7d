--------------------------- MODULE PlatformProofs ---------------------------
(***************************************************************************)
(* Theorems about Posts, Members, the Doors, Paywall and Market, for any   *)
(* number of posts, members, companies, grants, opportunities and requests,*)
(* and however late it gets.                                               *)
(*                                                                         *)
(* Posts: every patch chooses the date of publication with the status,     *)
(* whatever it is applied to (Dates of Good); the date a post is listed by *)
(* depends on the copy, which is the stored post as long as requests do    *)
(* not overlap (Alone, Fresh).                                             *)
(*                                                                         *)
(* Members: deletion takes the identity first (Throughout).  One request   *)
(* at a time, Midway says of each write what of the member it touches has  *)
(* been told to Firebase and to the users collection, every other member   *)
(* being the same in both; and Led, that an administrator who is not being *)
(* deleted is still one.                                                   *)
(*                                                                         *)
(* Paywall: what a check has read so far is held against what has given    *)
(* access since it came (FairFor), and the settings it read are those in   *)
(* force unless they changed.  A company has a grant in force at most, and *)
(* none when the next is inserted (Orderly).                               *)
(*                                                                         *)
(* Doors and Market: see there.                                            *)
(***************************************************************************)
EXTENDS Posts, Members, Paywall, Market, FiniteSetTheorems, SequenceTheorems,
        WellFoundedInduction, TLAPS

-----------------------------------------------------------------------------
(* Posts                                                                   *)

(* What PostDates says of one post, whatever overlaps, and if nothing does.*)
Good(d) ==
    /\ d.status = "published" => d.publishedAt # Unset
    /\ d.status \in {"draft", "scheduled"} => d.publishedAt = Unset

Listed(d) == d.status \in {"scheduled", "published"} => d.publishAt # Unset

Inserts(q) == q.at = "insert" => Good(q.doc) /\ Listed(q.doc)

Fresh(q) ==
    /\ q.at \in {"patch", "publish"} => q.copy = post[q.p]
    /\ q.at = "publish due" =>
           \A p \in q.due : IsStored(p) => post[p].publishAt # Unset

Alone ==
    ~overlap =>
        /\ \A r, s \in Requests :
             preq[r].at # "idle" /\ preq[s].at # "idle" => r = s
        /\ \A r \in Requests : Fresh(preq[r])
        /\ \A p \in PostIds : Listed(post[p])

PInv ==
    /\ TypeOKPosts
    /\ \A r \in Requests : Inserts(preq[r])
    /\ \A p \in PostIds : Good(post[p])
    /\ Alone

-----------------------------------------------------------------------------
(* Lemmas                                                                  *)

LEMMA Shapes ==
    \A q \in PostRequests :
        /\ q.at = "insert" => q \in InsertWork
        /\ q.at \in {"patch", "publish"} => q \in PatchWork
        /\ q.at = "publish due" => q \in DueWork
<1>1. Idle.at = "idle"
  BY DEF Idle
<1>2. \A q \in InsertWork : q.at = "insert"
  BY DEF InsertWork
<1>3. \A q \in PatchWork : q.at \in {"patch", "publish"}
  BY DEF PatchWork
<1>4. \A q \in DueWork : q.at = "publish due"
  BY DEF DueWork
<1>. QED  BY <1>1, <1>2, <1>3, <1>4 DEF PostRequests

LEMMA Typed ==
    ASSUME PInv
    PROVE  /\ post \in [PostIds -> PostDocs \cup {NoPost, Deleted}]
           /\ clock \in 1 .. Horizon
           /\ preq \in [Requests -> PostRequests]
           /\ pmoves \in 0 .. PostMoves
           /\ \A r \in Requests : Inserts(preq[r])
           /\ \A p \in PostIds : Good(post[p])
           /\ Alone
BY DEF PInv, TypeOKPosts

LEMMA Stored ==
    /\ \A d \in PostDocs : d.status \in PostStatuses /\ d \notin {NoPost, Deleted}
    /\ NoPost.status = "none" /\ Deleted.status = "deleted"
<1>1. NoPost.status = "none" /\ Deleted.status = "deleted"
  BY DEF NoPost, Deleted
<1>2. \A d \in PostDocs : d.status \in PostStatuses
  BY DEF PostDocs
<1>3. "none" \notin PostStatuses /\ "deleted" \notin PostStatuses
  BY DEF PostStatuses
<1>. QED  BY <1>1, <1>2, <1>3

LEMMA Absentees == Good(NoPost) /\ Listed(NoPost) /\ Good(Deleted) /\ Listed(Deleted)
BY Stored DEF Good, Listed

LEMMA IdleFits == Idle \in PostRequests /\ Inserts(Idle) /\ Idle.at = "idle"
BY DEF Idle, PostRequests, Inserts

LEMMA Ranges ==
    ASSUME clock \in 1 .. Horizon
    PROVE  /\ Horizon \in Nat /\ clock \in Nat /\ clock >= 1 /\ clock <= Horizon
           /\ clock \in Dates /\ clock # Unset /\ Unset \in Dates
           /\ \A d \in Dates : d \in Nat
           /\ Same \notin Dates
BY PostsAssumption DEF Dates, Unset, Same

(* A request moves and at most one post changes.  While requests do not    *)
(* overlap it is the only one, so that no other has a copy.                *)
LEMMA Keeps ==
    ASSUME PInv, NEW r \in Requests, NEW q \in PostRequests,
           Goes(preq, r, q), Inserts(q),
           UNCHANGED <<overlap, clock>>,
           post' \in [PostIds -> PostDocs \cup {NoPost, Deleted}],
           \A p \in PostIds : post'[p] = post[p] \/ Good(post'[p]),
           ~overlap =>
               /\ \A s \in Requests \ {r} : preq[s].at = "idle"
               /\ Fresh(q)'
               /\ \A p \in PostIds : post'[p] = post[p] \/ Listed(post'[p]),
           pmoves' \in 0 .. PostMoves
    PROVE  PInv'
<1>1. /\ preq' \in [Requests -> PostRequests] /\ preq'[r] = q
      /\ \A s \in Requests \ {r} : preq'[s] = preq[s]
  BY Typed DEF Goes
<1>2. TypeOKPosts'
  BY <1>1, Typed DEF TypeOKPosts
<1>3. \A s \in Requests : Inserts(preq'[s])
  BY <1>1, Typed
<1>4. \A p \in PostIds : Good(post'[p])
  BY Typed
<1>5. Alone'
  <2> SUFFICES ASSUME ~overlap PROVE
        /\ \A x, s \in Requests :
             preq'[x].at # "idle" /\ preq'[s].at # "idle" => x = s
        /\ \A s \in Requests : Fresh(preq[s])'
        /\ \A p \in PostIds : Listed(post'[p])
    BY DEF Alone, Listed
  <2>1. \A s \in Requests \ {r} : preq'[s].at = "idle"
    BY <1>1
  <2>2. ASSUME NEW s \in Requests PROVE Fresh(preq[s])'
    <3>1. CASE s = r
      BY <1>1, <3>1 DEF Fresh, IsStored
    <3>2. CASE s # r
      <4>1. preq'[s].at = "idle"
        BY <2>1, <3>2
      <4>2. preq'[s].at \notin {"patch", "publish", "publish due"}
        BY <4>1
      <4>. QED  BY <4>2 DEF Fresh, IsStored
    <3>. QED  BY <3>1, <3>2
  <2>3. \A p \in PostIds : Listed(post'[p])
    BY Typed DEF Alone
  <2>. QED  BY <2>1, <2>2, <2>3
<1>. QED  BY <1>2, <1>3, <1>4, <1>5 DEF PInv, Inserts, Good

(* The same, for one that leaves the posts alone.                          *)
LEMMA Moves ==
    ASSUME PInv, NEW r \in Requests, NEW q \in PostRequests,
           Goes(preq, r, q), Inserts(q),
           UNCHANGED <<overlap, clock, post>>,
           ~overlap => /\ \A s \in Requests \ {r} : preq[s].at = "idle"
                       /\ Fresh(q),
           pmoves' \in 0 .. PostMoves
    PROVE  PInv'
<1>1. ~overlap => Fresh(q)'
  BY DEF Fresh, IsStored
<1>2. post' \in [PostIds -> PostDocs \cup {NoPost, Deleted}]
  BY Typed
<1>. QED  BY <1>1, <1>2, Keeps

(* And for one that ends, with one post stored.                            *)
LEMMA Stores ==
    ASSUME PInv, NEW r \in Requests, preq[r].at # "idle", Ends(preq, r),
           UNCHANGED <<overlap, clock, pmoves>>,
           NEW p \in PostIds, NEW d \in PostDocs,
           Good(d), ~overlap => Listed(d),
           post' = [post EXCEPT ![p] = d]
    PROVE  PInv'
<1>1. Goes(preq, r, Idle)
  BY DEF Ends
<1>2. ~overlap => \A s \in Requests \ {r} : preq[s].at = "idle"
  BY Typed DEF Alone
<1>3. Fresh(Idle)'
  BY IdleFits DEF Fresh
<1>4. /\ post' \in [PostIds -> PostDocs \cup {NoPost, Deleted}]
      /\ post'[p] = d /\ \A x \in PostIds \ {p} : post'[x] = post[x]
  BY Typed
<1>5. pmoves' \in 0 .. PostMoves
  BY Typed
<1>. QED  BY <1>1, <1>2, <1>3, <1>4, <1>5, IdleFits, Keeps

(* A request that starts is the only one, unless requests overlap.         *)
LEMMA Starts ==
    ASSUME PInv, NEW r \in Requests, StartPost(r)
    PROVE  /\ pmoves' \in 0 .. PostMoves /\ preq[r].at = "idle"
           /\ ~overlap => \A s \in Requests : preq[s].at = "idle"
<1>1. pmoves \in 0 .. PostMoves /\ pmoves < PostMoves /\ pmoves' = pmoves + 1
  BY Typed DEF StartPost
<1>2. PostMoves \in Nat
  BY PostsAssumption
<1>3. pmoves' \in 0 .. PostMoves
  BY <1>1, <1>2
<1>4. preq[r].at = "idle"
  BY DEF StartPost, MayStart, Idle
<1>5. ~overlap => \A s \in Requests : preq[s].at = "idle"
  BY DEF StartPost, MayStart, AllIdle, Idle
<1>. QED  BY <1>3, <1>4, <1>5

(* One that goes on was the only one.                                      *)
LEMMA Only ==
    ASSUME PInv, NEW r \in Requests, preq[r].at # "idle"
    PROVE  ~overlap => \A s \in Requests \ {r} : preq[s].at = "idle"
BY Typed DEF Alone

-----------------------------------------------------------------------------
(* What the handlers make of a post                                        *)

LEMMA ResolvedDoc ==
    ASSUME clock \in 1 .. Horizon, NEW ask \in Asks, ask.publishAt # Same,
           ask.status = "scheduled" => ask.publishAt # Unset
    PROVE  Resolved(ask) \in PostDocs /\ Good(Resolved(ask)) /\ Listed(Resolved(ask))
<1>1. ask.publishAt \in Dates
  BY DEF Asks
<1>2. /\ clock \in Dates /\ clock # Unset /\ Unset \in Dates /\ clock \in Nat
      /\ \A d \in Dates : d \in Nat
  BY Ranges
<1>3. ASSUME NEW st \in PostStatuses,
             st = "scheduled" => ask.publishAt # Unset
      PROVE  LET d == Dated(st, ask.publishAt)
             IN d \in PostDocs /\ Good(d) /\ Listed(d)
  <2> DEFINE a == IF st = "published" /\ ask.publishAt = Unset THEN clock
                  ELSE ask.publishAt
             b == IF st = "published" THEN clock ELSE Unset
             d == [status |-> st, publishAt |-> a, publishedAt |-> b]
  <2>1. /\ a \in Dates /\ b \in Dates
        /\ st = "published" => b # Unset
        /\ st \in {"draft", "scheduled"} => b = Unset
        /\ st \in {"scheduled", "published"} => a # Unset
    BY <1>1, <1>2, <1>3
  <2> HIDE DEF a, b
  <2>2. d \in PostDocs /\ Good(d) /\ Listed(d)
    BY <2>1 DEF PostDocs, Good, Listed
  <2>3. d = Dated(st, ask.publishAt)
    BY DEF a, b, Dated
  <2>. QED  BY <2>2, <2>3
<1>4. "published" \in PostStatuses /\ "scheduled" \in PostStatuses
      /\ "draft" \in PostStatuses /\ "disabled" \in PostStatuses
  BY DEF PostStatuses
<1>5. CASE ask.status \in {"disabled", "published"}
  BY <1>3, <1>4, <1>5 DEF Resolved
<1>6. CASE ask.status \notin {"disabled", "published"} /\ ask.publishAt > clock
  <2>1. ask.publishAt # Unset
    BY <1>1, <1>2, <1>6 DEF Unset
  <2>. QED  BY <1>3, <1>4, <1>6, <2>1 DEF Resolved
<1>7. CASE ask.status \notin {"disabled", "published"} /\ ~(ask.publishAt > clock)
  BY <1>3, <1>4, <1>7 DEF Resolved
<1>. QED  BY <1>5, <1>6, <1>7

LEMMA PatchedDoc ==
    ASSUME clock \in 1 .. Horizon, NEW q \in PatchWork, NEW d \in PostDocs,
           ~(AskedStatus(q) = "scheduled" /\ AskedDate(q) = Unset)
    PROVE  /\ Patched(d, q) \in PostDocs /\ Good(Patched(d, q))
           /\ d = q.copy => Listed(Patched(d, q))
<1> DEFINE st == NextStatus(q)
           a == IF st = "published" /\ AskedDate(q) = Unset THEN clock
                ELSE IF q.ask.publishAt = Same THEN d.publishAt
                ELSE q.ask.publishAt
           b == IF st = "published" THEN FirstPublished(q)
                ELSE IF st = "disabled" THEN d.publishedAt
                ELSE Unset
           e == [status |-> st, publishAt |-> a, publishedAt |-> b]
<1>1. /\ q.ask \in Asks /\ q.copy \in PostDocs
  BY DEF PatchWork
<1>2. /\ q.ask.status \in PostStatuses \cup {"same"}
      /\ q.ask.publishAt \in Dates \cup {Same}
      /\ q.copy.status \in PostStatuses /\ q.copy.publishAt \in Dates
      /\ q.copy.publishedAt \in Dates
      /\ d.publishAt \in Dates /\ d.publishedAt \in Dates
  BY <1>1 DEF Asks, PostDocs
<1>3. /\ clock \in Dates /\ clock # Unset /\ Unset \in Dates /\ clock \in Nat
      /\ \A x \in Dates : x \in Nat
  BY Ranges
<1>4. AskedDate(q) \in Dates
  BY <1>2 DEF AskedDate
<1>5. AskedStatus(q) \in PostStatuses
  BY <1>2 DEF AskedStatus
<1>6. st \in PostStatuses
  BY <1>5 DEF NextStatus, PostStatuses
<1>7. st = "scheduled" => AskedDate(q) # Unset
  <2>1. AskedDate(q) > clock => AskedDate(q) # Unset
    BY <1>3, <1>4 DEF Unset
  <2>. QED  BY <2>1 DEF NextStatus
<1>8. FirstPublished(q) \in Dates /\ FirstPublished(q) # Unset
  BY <1>2, <1>3 DEF FirstPublished
<1>9. a \in Dates
  BY <1>2, <1>3
<1>10. d = q.copy => (st \in {"scheduled", "published"} => a # Unset)
  BY <1>3, <1>7 DEF AskedDate
<1>11. /\ b \in Dates
       /\ st = "published" => b # Unset
       /\ st \in {"draft", "scheduled"} => b = Unset
  BY <1>2, <1>3, <1>8
<1>12. Patched(d, q) = e
  BY DEF Patched
<1> HIDE DEF st, a, b
<1>13. e \in PostDocs /\ e.status = st /\ e.publishAt = a /\ e.publishedAt = b
  BY <1>6, <1>9, <1>11 DEF PostDocs
<1> HIDE DEF e
<1>. QED  BY <1>10, <1>11, <1>12, <1>13 DEF Good, Listed

-----------------------------------------------------------------------------
(* The steps                                                               *)

LEMMA PostsStart == PostsInit => PInv
<1> SUFFICES ASSUME PostsInit PROVE PInv
  OBVIOUS
<1>1. /\ post = [p \in PostIds |-> NoPost] /\ clock = 1
      /\ preq = [r \in Requests |-> Idle] /\ pmoves = 0
  BY DEF PostsInit
<1>2. TypeOKPosts
  <2>1. Horizon \in Nat \ {0} /\ PostMoves \in Nat
    BY PostsAssumption
  <2>2. clock \in 1 .. Horizon /\ pmoves \in 0 .. PostMoves
    BY <1>1, <2>1
  <2>3. post \in [PostIds -> PostDocs \cup {NoPost, Deleted}]
    BY <1>1
  <2>4. preq \in [Requests -> PostRequests]
    BY <1>1, IdleFits
  <2>. QED  BY <2>2, <2>3, <2>4 DEF TypeOKPosts
<1>3. \A r \in Requests : Inserts(preq[r]) /\ preq[r].at = "idle"
  BY <1>1, IdleFits
<1>4. \A p \in PostIds : Good(post[p]) /\ Listed(post[p])
  BY <1>1, Absentees
<1>5. \A r \in Requests : Fresh(preq[r])
  BY <1>3 DEF Fresh
<1>. QED  BY <1>2, <1>3, <1>4, <1>5 DEF PInv, Alone

LEMMA CreateKeeps ==
    ASSUME PInv, NEW r \in Requests, NEW ask \in Asks, CreatePost(r, ask)
    PROVE  PInv'
<1> DEFINE d == Resolved(ask)
           q == [at |-> "insert", doc |-> d]
<1>1. d \in PostDocs /\ Good(d) /\ Listed(d)
  BY Typed, ResolvedDoc DEF CreatePost
<1>2. Goes(preq, r, q) /\ UNCHANGED <<overlap, clock, post>>
  BY DEF CreatePost
<1>3. pmoves' \in 0 .. PostMoves /\ (~overlap => \A s \in Requests : preq[s].at = "idle")
  BY Starts DEF CreatePost
<1> HIDE DEF d
<1>4. q \in InsertWork /\ q.at = "insert" /\ q.doc = d
  BY <1>1 DEF InsertWork
<1> HIDE DEF q
<1>5. q \in PostRequests /\ Inserts(q) /\ Fresh(q)
  BY <1>1, <1>4 DEF PostRequests, Inserts, Fresh
<1>. QED  BY <1>2, <1>3, <1>5, Moves

LEMMA InsertKeeps ==
    ASSUME PInv, NEW r \in Requests, InsertPost(r)
    PROVE  PInv'
<1>1. preq[r].at = "insert"
  BY DEF InsertPost
<1>2. preq[r] \in InsertWork /\ Inserts(preq[r])
  BY <1>1, Typed, Shapes
<1>3. preq[r].doc \in PostDocs /\ Good(preq[r].doc) /\ Listed(preq[r].doc)
  BY <1>1, <1>2 DEF InsertWork, Inserts
<1>4. PICK p \in PostIds : post' = [post EXCEPT ![p] = preq[r].doc]
  BY DEF InsertPost
<1>5. Ends(preq, r) /\ UNCHANGED <<overlap, clock, pmoves>>
  BY DEF InsertPost
<1>. QED  BY <1>1, <1>3, <1>4, <1>5, Stores

LEMMA ReadKeeps ==
    ASSUME PInv, NEW r \in Requests, NEW p \in PostIds, NEW ask \in Asks,
           NEW at \in {"patch", "publish"}, ReadPost(r, p, ask, at)
    PROVE  PInv'
<1> DEFINE q == [at |-> at, p |-> p, copy |-> post[p], ask |-> ask]
<1>1. post[p] \in PostDocs
  BY Typed DEF ReadPost, IsStored
<1>2. q \in PatchWork /\ q.at = at /\ q.p = p /\ q.copy = post[p]
  BY <1>1 DEF PatchWork
<1>3. Goes(preq, r, q) /\ UNCHANGED <<overlap, clock, post>>
  BY DEF ReadPost
<1>4. pmoves' \in 0 .. PostMoves /\ (~overlap => \A s \in Requests : preq[s].at = "idle")
  BY Starts DEF ReadPost
<1> HIDE DEF q
<1>5. q \in PostRequests /\ Inserts(q) /\ Fresh(q)
  BY <1>2 DEF PostRequests, Inserts, Fresh
<1>. QED  BY <1>3, <1>4, <1>5, Moves

LEMMA EndKeeps ==
    ASSUME PInv, NEW r \in Requests, preq[r].at # "idle", Ends(preq, r),
           UNCHANGED <<overlap, clock, post, pmoves>>
    PROVE  PInv'
<1>1. pmoves' \in 0 .. PostMoves
  BY Typed
<1>2. Fresh(Idle)
  BY IdleFits DEF Fresh
<1>. QED  BY <1>1, <1>2, IdleFits, Only, Moves DEF Ends

LEMMA PatchKeeps ==
    ASSUME PInv, NEW r \in Requests, PatchPost(r) \/ PublishPost(r)
    PROVE  PInv'
<1> DEFINE q == preq[r]
<1>1. q.at \in {"patch", "publish"} /\ q.at # "idle"
  BY DEF PatchPost, PublishPost
<1>2. q \in PatchWork
  BY <1>1, Typed, Shapes
<1>3. q.p \in PostIds /\ q.copy \in PostDocs
  BY <1>2 DEF PatchWork
<1>4. ~overlap => q.copy = post[q.p]
  BY <1>1, Typed DEF Alone, Fresh
<1>5. Ends(preq, r) /\ UNCHANGED <<overlap, clock, pmoves>>
  BY DEF PatchPost, PublishPost
<1>6. CASE post' = post
  BY <1>1, <1>5, <1>6, EndKeeps
<1>7. ASSUME post' # post PROVE IsStored(q.p) /\ post[q.p] \in PostDocs
  BY <1>3, <1>7, Typed DEF PatchPost, PublishPost, IsStored
<1>8. CASE PatchPost(r) /\ post' # post
  <2> DEFINE e == Patched(post[q.p], q)
  <2>1. /\ ~(AskedStatus(q) = "scheduled" /\ AskedDate(q) = Unset)
        /\ post' = [post EXCEPT ![q.p] = e]
    BY <1>8 DEF PatchPost
  <2>2. post[q.p] \in PostDocs
    BY <1>7, <1>8
  <2>3. e \in PostDocs /\ Good(e) /\ (~overlap => Listed(e))
    <3> HIDE DEF q
    <3>. QED  BY <1>2, <1>4, <2>1, <2>2, Typed, PatchedDoc
  <2> HIDE DEF e
  <2>. QED  BY <1>1, <1>3, <1>5, <2>1, <2>3, Stores
<1>9. CASE PublishPost(r) /\ post' # post
  <2> DEFINE a == IF q.copy.publishAt = Unset THEN clock ELSE q.copy.publishAt
             b == FirstPublished(q)
             e == [status |-> "published", publishAt |-> a, publishedAt |-> b]
  <2>1. post' = [post EXCEPT ![q.p] = e]
    BY <1>9 DEF PublishPost
  <2>2. q.copy.publishAt \in Dates /\ q.copy.publishedAt \in Dates
    BY <1>3 DEF PostDocs
  <2>3. clock \in Dates /\ clock # Unset
    BY Typed, Ranges
  <2>4. a \in Dates /\ a # Unset /\ b \in Dates /\ b # Unset
    BY <2>2, <2>3 DEF FirstPublished
  <2> HIDE DEF a, b
  <2>5. e \in PostDocs /\ Good(e) /\ Listed(e)
    BY <2>4 DEF PostDocs, PostStatuses, Good, Listed
  <2> HIDE DEF e
  <2>. QED  BY <1>1, <1>3, <1>5, <2>1, <2>5, Stores
<1>. QED  BY <1>6, <1>8, <1>9

LEMMA DeleteKeeps ==
    ASSUME PInv, NEW r \in Requests, NEW p \in PostIds, DeletePost(r, p)
    PROVE  PInv'
<1>1. /\ post' \in [PostIds -> PostDocs \cup {NoPost, Deleted}]
      /\ post'[p] = Deleted /\ \A x \in PostIds \ {p} : post'[x] = post[x]
  BY Typed DEF DeletePost
<1>2. pmoves' \in 0 .. PostMoves /\ (~overlap => \A s \in Requests : preq[s].at = "idle")
  BY Starts DEF DeletePost
<1>3. preq[r] \in PostRequests /\ Inserts(preq[r]) /\ Goes(preq, r, preq[r])
  BY Typed DEF DeletePost, Goes
<1>4. PICK q \in PostRequests : q = preq[r]
  BY <1>3
<1>5. Goes(preq, r, q) /\ Inserts(q) /\ (~overlap => q.at = "idle")
  BY <1>2, <1>3, <1>4
<1>6. ~overlap => Fresh(q)'
  BY <1>5 DEF Fresh
<1>7. UNCHANGED <<overlap, clock>>
  BY DEF DeletePost
<1>. QED  BY <1>1, <1>2, <1>5, <1>6, <1>7, Absentees, Keeps

(* What is left of the list of a round of the worker.                      *)
LEMMA DueFits ==
    ASSUME PInv, NEW due \in SUBSET PostIds, NEW now \in 1 .. Horizon
    PROVE  /\ PublishingDue(due, now) \in PostRequests
           /\ Inserts(PublishingDue(due, now))
           /\ \/ PublishingDue(due, now).at = "idle"
              \/ /\ PublishingDue(due, now).at = "publish due"
                 /\ PublishingDue(due, now).due = due
<1>1. CASE due = {}
  BY <1>1, IdleFits DEF PublishingDue
<1>2. CASE due # {}
  <2> DEFINE q == [at |-> "publish due", due |-> due, now |-> now]
  <2>1. q \in DueWork
    BY DEF DueWork
  <2>2. q \in PostRequests /\ Inserts(q)
    BY <2>1 DEF PostRequests, Inserts
  <2>3. PublishingDue(due, now) = q
    BY <1>2 DEF PublishingDue
  <2>4. q.at = "publish due" /\ q.due = due
    OBVIOUS
  <2> HIDE DEF q
  <2>. QED  BY <2>2, <2>3, <2>4
<1>. QED  BY <1>1, <1>2

LEMMA ListKeeps ==
    ASSUME PInv, NEW r \in Requests, ListDue(r)
    PROVE  PInv'
<1> DEFINE due == {p \in PostIds : /\ post[p].status = "scheduled"
                                   /\ post[p].publishAt # Unset
                                   /\ post[p].publishAt <= clock}
           q == PublishingDue(due, clock)
<1>1. Goes(preq, r, q) /\ UNCHANGED <<overlap, clock, post>>
  BY DEF ListDue
<1>2. pmoves' \in 0 .. PostMoves /\ (~overlap => \A s \in Requests : preq[s].at = "idle")
  BY Starts DEF ListDue
<1>3. due \in SUBSET PostIds /\ \A p \in due : post[p].publishAt # Unset
  OBVIOUS
<1> HIDE DEF due
<1>4. /\ q \in PostRequests /\ Inserts(q)
      /\ q.at = "idle" \/ (q.at = "publish due" /\ q.due = due)
  BY <1>3, Typed, DueFits
<1> HIDE DEF q
<1>5. Fresh(q)
  BY <1>3, <1>4 DEF Fresh
<1>. QED  BY <1>1, <1>2, <1>4, <1>5, Moves

LEMMA PublishKeeps ==
    ASSUME PInv, NEW r \in Requests, PublishDue(r)
    PROVE  PInv'
<1> DEFINE w == preq[r]
<1>1. w.at = "publish due" /\ w.at # "idle"
  BY DEF PublishDue
<1>2. w \in DueWork
  BY <1>1, Typed, Shapes
<1>3. w.due \in SUBSET PostIds /\ w.now \in 1 .. Horizon
  BY <1>2 DEF DueWork
<1>4. PICK p \in w.due :
        /\ post' = IF ~IsStored(p) THEN post
                   ELSE [post EXCEPT ![p].status = "published",
                                     ![p].publishedAt = w.now]
        /\ Goes(preq, r, PublishingDue(w.due \ {p}, w.now))
  BY DEF PublishDue
<1>5. p \in PostIds
  BY <1>3, <1>4
<1> DEFINE rest == w.due \ {p}
           q == PublishingDue(rest, w.now)
           e == [post[p] EXCEPT !.status = "published", !.publishedAt = w.now]
<1>6. /\ q \in PostRequests /\ Inserts(q)
      /\ q.at = "idle" \/ (q.at = "publish due" /\ q.due = rest)
  BY <1>3, DueFits
<1>7. Goes(preq, r, q) /\ UNCHANGED <<overlap, clock>> /\ pmoves' \in 0 .. PostMoves
  BY <1>4, Typed DEF PublishDue
<1>8. IsStored(p) =>
        /\ e \in PostDocs /\ Good(e)
        /\ e.publishAt = post[p].publishAt /\ e.status = "published"
  <2> SUFFICES ASSUME IsStored(p)
               PROVE  /\ e \in PostDocs /\ Good(e)
                      /\ e.publishAt = post[p].publishAt /\ e.status = "published"
    OBVIOUS
  <2>1. post[p] \in PostDocs
    BY <1>5, Typed DEF IsStored
  <2>2. Horizon \in Nat
    BY PostsAssumption
  <2>3. w.now \in Dates /\ w.now # Unset
    BY <1>3, <2>2 DEF Dates, Unset
  <2>4. e \in PostDocs /\ e.publishAt = post[p].publishAt
        /\ e.status = "published" /\ e.publishedAt = w.now
    BY <2>1, <2>3 DEF PostDocs, PostStatuses
  <2> HIDE DEF e
  <2>. QED  BY <2>3, <2>4 DEF Good
<1>9. post' = IF ~IsStored(p) THEN post ELSE [post EXCEPT ![p] = e]
  BY <1>4
<1>10. ~overlap =>
         /\ \A x \in w.due : IsStored(x) => post[x].publishAt # Unset
         /\ \A s \in Requests \ {r} : preq[s].at = "idle"
  BY <1>1, Typed DEF Alone, Fresh
<1> HIDE DEF e
<1>11. /\ post' \in [PostIds -> PostDocs \cup {NoPost, Deleted}]
       /\ \A x \in PostIds \ {p} : post'[x] = post[x]
       /\ IsStored(p) => post'[p] = e
       /\ ~IsStored(p) => post'[p] = post[p]
  BY <1>5, <1>8, <1>9, Typed
<1>12. \A x \in PostIds : post'[x] = post[x] \/ Good(post'[x])
  BY <1>8, <1>11
<1>13. ~overlap => \A x \in PostIds : post'[x] = post[x] \/ Listed(post'[x])
  BY <1>8, <1>10, <1>11 DEF Listed
<1> HIDE DEF q, rest
<1>14. PICK c \in PostRequests : c = q
  BY <1>6
<1>15. ~overlap => Fresh(c)'
  <2> SUFFICES ASSUME ~overlap, NEW x \in PostIds, x # p, x \in w.due,
                      IsStored(x)'
               PROVE  post'[x].publishAt # Unset
    BY <1>3, <1>6, <1>14 DEF Fresh, rest
  <2>1. post'[x] = post[x] /\ IsStored(x)
    BY <1>11 DEF IsStored
  <2>. QED  BY <1>10, <2>1
<1>. QED  BY <1>6, <1>7, <1>10, <1>11, <1>12, <1>13, <1>14, <1>15, Keeps

(* Time passes.                                                            *)
LEMMA TickKeeps ==
    ASSUME PInv, Tick
    PROVE  PInv'
<1>1. clock' \in 1 .. Horizon
  <2>1. Horizon \in Nat /\ clock \in 1 .. Horizon
    BY PostsAssumption, Typed
  <2>. QED  BY <2>1 DEF Tick
<1>2. /\ overlap' = overlap /\ post' = post /\ preq' = preq /\ pmoves' = pmoves
  BY DEF Tick
<1>. QED  BY <1>1, <1>2
          DEF PInv, TypeOKPosts, Inserts, Good, Alone, Fresh, Listed, IsStored

LEMMA PInvKept == PInv /\ [PostsNext]_pvars => PInv'
<1> SUFFICES ASSUME PInv, [PostsNext]_pvars PROVE PInv'
  OBVIOUS
<1>1. CASE UNCHANGED pvars
  <2>1. /\ overlap' = overlap /\ post' = post /\ clock' = clock /\ preq' = preq
        /\ pmoves' = pmoves
    BY <1>1 DEF pvars
  <2>. QED  BY <2>1
            DEF PInv, TypeOKPosts, Inserts, Good, Alone, Fresh, Listed, IsStored
<1>2. ASSUME NEW r \in Requests, PostStep(r) PROVE PInv'
  <2>1. CASE PostRaises(r)
    <3>1. /\ preq[r].at # "idle" /\ Ends(preq, r)
          /\ UNCHANGED <<overlap, clock, post, pmoves>>
      <4>1. preq[r] # Idle /\ preq[r] \in PostRequests
        BY <2>1, Typed DEF PostRaises, Raises
      <4>2. preq[r].at # "idle"
        BY <4>1 DEF PostRequests, InsertWork, PatchWork, DueWork
      <4>. QED  BY <2>1, <4>2 DEF PostRaises, Raises
    <3>. QED  BY <3>1, EndKeeps
  <2>. QED  BY <1>2, <2>1, CreateKeeps, InsertKeeps, ReadKeeps, PatchKeeps,
               DeleteKeeps, ListKeeps, PublishKeeps DEF PostStep
<1>. QED  BY <1>1, <1>2, TickKeeps DEF PostsNext

LEMMA PInvHolds == PostsSpec => []PInv
BY PostsStart, PInvKept, PTL DEF PostsSpec

-----------------------------------------------------------------------------
(* Theorems                                                                *)

(* The posts, the clock and the copies keep to their types.                *)
THEOREM PostsTypeCorrect == PostsSpec => []TypeOKPosts
<1>1. PInv => TypeOKPosts
  BY DEF PInv
<1>. QED  BY <1>1, PInvHolds, PTL

(* What the public sees has a date of publication and what it does not see *)
(* yet has none, whatever overlaps; one at a time, a scheduled post has    *)
(* the date that the worker finds it by.                                   *)
THEOREM PostsDated == PostsSpec => []PostDates
<1>1. PInv => PostDates
  BY Typed DEF PostDates, Good, Alone, Listed
<1>. QED  BY <1>1, PInvHolds, PTL

-----------------------------------------------------------------------------
(* The doors.  Every path of a router starts with the router's own word,   *)
(* so that a call arrives at a door that starts as the one it was meant    *)
(* for, whichever comes first: of a door it is enough to know its gate and *)
(* that word (Sound), which is shown of each router, and of all of them    *)
(* one after the other (DoorsSound).                                       *)

(* Every set of numbers has a least one: what the inductions rest on.      *)
LEMMA Least ==
    ASSUME NEW T, T \subseteq Nat, T # {}
    PROVE  \E n \in T : \A m \in T : n <= m
<1> DEFINE R == OpToRel(<, Nat)
<1>1. IsWellFoundedOn(R, Nat)
  BY NatLessThanWellFounded
<1>2. \A m, n \in Nat : <<m, n>> \in R <=> m < n
  BY DEF OpToRel
<1> HIDE DEF R
<1>3. PICK n \in T : \A m \in T : ~ (<<m, n>> \in R)
  BY <1>1, WFMin
<1>4. ASSUME NEW m \in T PROVE n <= m
  <2>1. m \in Nat /\ n \in Nat
    OBVIOUS
  <2>2. ~ (m < n)
    BY <1>2, <1>3, <2>1
  <2>. QED  BY <2>1, <2>2
<1>. QED  BY <1>4

(* Sequences, here of doors and of the words of paths.                     *)
(* The gates that a door may have whose path starts with h.                *)
GatesBehind(h) ==
    CASE h = "admin" -> {"admin"}
      [] h \in {"billing", "support", "companies"} -> {"open", "token"}
      [] h \in {"agreements", "contract-proposals", "conversations"} -> {"paid"}
      [] OTHER -> {"open", "token", "paid", "admin"}

IsList(s) == s \in Seq(ToSet(s))

LEMMA Tabled ==
    ASSUME NEW n \in Nat, NEW f, f = [i \in 1 .. n |-> f[i]]
    PROVE  IsList(f) /\ Len(f) = n
<1>1. DOMAIN f = 1 .. n
  OBVIOUS
<1>2. f \in [1 .. n -> ToSet(f)]
  BY <1>1 DEF ToSet
<1>. QED  BY <1>2 DEF IsList

LEMMA InOrder ==
    ASSUME NEW s, NEW t, IsList(s), IsList(t)
    PROVE  /\ DOMAIN s = 1 .. Len(s) /\ DOMAIN t = 1 .. Len(t)
           /\ Len(s) \in Nat /\ Len(t) \in Nat
           /\ Len(s \o t) = Len(s) + Len(t)
           /\ DOMAIN (s \o t) = 1 .. Len(s) + Len(t)
           /\ \A i \in 1 .. Len(s) : (s \o t)[i] = s[i]
           /\ \A i \in 1 .. Len(t) : (s \o t)[Len(s) + i] = t[i]
BY DEF IsList

LEMMA Joined ==
    ASSUME NEW s, NEW t, IsList(s), IsList(t)
    PROVE  IsList(s \o t) /\ ToSet(s \o t) = ToSet(s) \cup ToSet(t)
<1>1. /\ DOMAIN s = 1 .. Len(s) /\ DOMAIN t = 1 .. Len(t)
      /\ Len(s) \in Nat /\ Len(t) \in Nat
      /\ DOMAIN (s \o t) = 1 .. Len(s) + Len(t)
      /\ \A i \in 1 .. Len(s) : (s \o t)[i] = s[i]
      /\ \A i \in 1 .. Len(t) : (s \o t)[Len(s) + i] = t[i]
  BY DEF IsList
<1>2. ASSUME NEW i \in DOMAIN (s \o t) PROVE (s \o t)[i] \in ToSet(s) \cup ToSet(t)
  <2>1. CASE i <= Len(s)
    BY <1>1, <2>1 DEF ToSet
  <2>2. CASE ~(i <= Len(s))
    <3>1. i - Len(s) \in 1 .. Len(t) /\ i = Len(s) + (i - Len(s))
      BY <1>1, <2>2
    <3>. QED  BY <1>1, <3>1 DEF ToSet
  <2>. QED  BY <2>1, <2>2
<1>3. ToSet(s) \subseteq ToSet(s \o t)
  BY <1>1 DEF ToSet
<1>4. ASSUME NEW i \in 1 .. Len(t) PROVE t[i] \in ToSet(s \o t)
  <2>1. Len(s) + i \in 1 .. Len(s) + Len(t)
    BY <1>1
  <2>. QED  BY <1>1, <2>1 DEF ToSet
<1>5. ToSet(s \o t) = ToSet(s) \cup ToSet(t)
  BY <1>1, <1>2, <1>3, <1>4 DEF ToSet
<1>. QED  BY <1>1, <1>5 DEF IsList

(* Words of a path, none of which is admin.                                *)
Fine(p) == IsList(p) /\ "admin" \notin ToSet(p)

LEMMA Paths ==
    /\ Fine(<<>>)
    /\ \A a : a # "admin" => Fine(<<a>>)
    /\ \A a, b : a # "admin" /\ b # "admin" => Fine(<<a, b>>)
    /\ \A a, b, c : a # "admin" /\ b # "admin" /\ c # "admin" => Fine(<<a, b, c>>)
    /\ \A a, b, c, d : a # "admin" /\ b # "admin" /\ c # "admin" /\ d # "admin" =>
           Fine(<<a, b, c, d>>)
    /\ \A a, b, c, d, e : a # "admin" /\ b # "admin" /\ c # "admin" /\ d # "admin"
                            /\ e # "admin" => Fine(<<a, b, c, d, e>>)
<1>1. Fine(<<>>)
  BY DEF Fine, IsList, ToSet
<1>2. ASSUME NEW a, a # "admin" PROVE Fine(<<a>>)
  BY <1>2 DEF Fine, IsList, ToSet
<1>3. ASSUME NEW a, NEW b, a # "admin", b # "admin" PROVE Fine(<<a, b>>)
  BY <1>3 DEF Fine, IsList, ToSet
<1>4. ASSUME NEW a, NEW b, NEW c, a # "admin", b # "admin", c # "admin"
      PROVE  Fine(<<a, b, c>>)
  BY <1>4 DEF Fine, IsList, ToSet
<1>5. ASSUME NEW a, NEW b, NEW c, NEW d,
             a # "admin", b # "admin", c # "admin", d # "admin"
      PROVE  Fine(<<a, b, c, d>>)
  BY <1>5 DEF Fine, IsList, ToSet
<1>6. ASSUME NEW a, NEW b, NEW c, NEW d, NEW e,
             a # "admin", b # "admin", c # "admin", d # "admin", e # "admin"
      PROVE  Fine(<<a, b, c, d, e>>)
  BY <1>6 DEF Fine, IsList, ToSet
<1>. QED  BY <1>1, <1>2, <1>3, <1>4, <1>5, <1>6

(* A route of a router: its own gate, if it has one, is among gates.       *)
Route(d, gates) ==
    /\ d = Door(d.method, d.path, d.gate) /\ Fine(d.path)
    /\ d.gate \in {"router"} \cup gates

Routes(s, gates) == IsList(s) /\ \A d \in ToSet(s) : Route(d, gates)

LEMMA Verbs ==
    ASSUME NEW p, NEW gates, Fine(p)
    PROVE  /\ Route(Get(p), gates) /\ Route(Post(p), gates) /\ Route(Put(p), gates)
           /\ Route(Patch(p), gates) /\ Route(Delete(p), gates)
           /\ Route(Stream(p), gates)
BY DEF Get, Post, Put, Patch, Delete, Stream, Door, Route

LEMMA AdminRoutes ==
    ASSUME NEW g
    PROVE  /\ Routes(AdminUserDoors, g) /\ Routes(AdminCompanyDoors, g)
           /\ Routes(AdminOpportunityDoors, g) /\ Routes(AdminAgreementDoors, g)
           /\ Routes(AdminGroupDoors, g) /\ Routes(AdminSectionDoors, g)
           /\ Routes(AdminProposalDoors, g) /\ Routes(AdminCampaignDoors, g)
           /\ Routes(AdminBlogDoors, g) /\ Routes(AdminTicketDoors, g)
           /\ Routes(AdminTicketStreams, g) /\ Routes(AdminConversationDoors, g)
<1>1. Routes(AdminUserDoors, g)
  BY Verbs, Paths DEF AdminUserDoors, Routes, IsList, ToSet
<1>2. Routes(AdminCompanyDoors, g)
  BY Verbs, Paths DEF AdminCompanyDoors, Routes, IsList, ToSet
<1>3. Routes(AdminOpportunityDoors, g)
  BY Verbs, Paths DEF AdminOpportunityDoors, Routes, IsList, ToSet
<1>4. Routes(AdminAgreementDoors, g)
  BY Verbs, Paths DEF AdminAgreementDoors, Routes, IsList, ToSet
<1>5. Routes(AdminGroupDoors, g)
  BY Verbs, Paths DEF AdminGroupDoors, Routes, IsList, ToSet
<1>6. Routes(AdminSectionDoors, g)
  BY Verbs, Paths DEF AdminSectionDoors, Routes, IsList, ToSet
<1>7. Routes(AdminProposalDoors, g)
  BY Verbs, Paths DEF AdminProposalDoors, Routes, IsList, ToSet
<1>8. Routes(AdminCampaignDoors, g)
  BY Verbs, Paths DEF AdminCampaignDoors, Routes, IsList, ToSet
<1>9. Routes(AdminBlogDoors, g)
  BY Verbs, Paths DEF AdminBlogDoors, Routes, IsList, ToSet
<1>10. Routes(AdminTicketDoors, g)
  BY Verbs, Paths DEF AdminTicketDoors, Routes, IsList, ToSet
<1>11. Routes(AdminTicketStreams, g)
  BY Verbs, Paths DEF AdminTicketStreams, Routes, IsList, ToSet
<1>12. Routes(AdminConversationDoors, g)
  BY Verbs, Paths DEF AdminConversationDoors, Routes, IsList, ToSet
<1>. QED  BY <1>1, <1>2, <1>3, <1>4, <1>5, <1>6, <1>7, <1>8, <1>9, <1>10, <1>11, <1>12

LEMMA MemberRoutes ==
    ASSUME NEW g
    PROVE  /\ Routes(AgreementDraftDoors, g) /\ Routes(AgreementSigningDoors, g)
           /\ Routes(ThreadDoors, g) /\ Routes(ThreadMoveDoors, g)
           /\ Routes(MemberTicketDoors, g) /\ Routes(PresenceDoors, g)
<1>1. Routes(AgreementDraftDoors, g)
  BY Verbs, Paths DEF AgreementDraftDoors, Routes, IsList, ToSet
<1>2. Routes(AgreementSigningDoors, g)
  BY Verbs, Paths DEF AgreementSigningDoors, Routes, IsList, ToSet
<1>3. Routes(ThreadDoors, g)
  BY Verbs, Paths DEF ThreadDoors, Routes, IsList, ToSet
<1>4. Routes(ThreadMoveDoors, g)
  BY Verbs, Paths DEF ThreadMoveDoors, Routes, IsList, ToSet
<1>5. Routes(MemberTicketDoors, g)
  BY Verbs, Paths DEF MemberTicketDoors, Routes, IsList, ToSet
<1>6. Routes(PresenceDoors, g)
  BY Verbs, Paths DEF PresenceDoors, Routes, IsList, ToSet
<1>. QED  BY <1>1, <1>2, <1>3, <1>4, <1>5, <1>6

(* What is known of each door of the API.                                  *)
Sound(d) ==
    /\ IsList(d.path) /\ Len(d.path) > 0 /\ d.path[1] # "*"
    /\ d.gate \in GatesBehind(d.path[1])
    /\ "admin" \in ToSet(d.path) =>
           \/ d.path[1] = "admin"
           \/ d.path[1] = "auth" /\ Len(d.path) = 3
    /\ d.path[1] = "auth" /\ Len(d.path) = 3 => d.gate = "admin" \/ d.path[3] = "login"

Sounds(s) == IsList(s) /\ \A d \in ToSet(s) : Sound(d)

Behind(h, s) == Sounds(s) /\ \A d \in ToSet(s) : d.path[1] = h

(* A prefix that starts with h, and is the administrators' only if h says  *)
(* so.                                                                     *)
Leads(p, h) ==
    /\ IsList(p) /\ Len(p) > 0 /\ p[1] = h
    /\ "admin" \in ToSet(p) => h = "admin"

(* What a router makes of its routes.                                      *)
MadeOf(prefix, gate, d, e) ==
    /\ e.method = d.method /\ e.path = prefix \o d.path /\ IsList(e.path)
    /\ ToSet(e.path) = ToSet(prefix) \cup ToSet(d.path)
    /\ Len(e.path) = Len(prefix) + Len(d.path)
    /\ e.gate = IF d.gate = "router" THEN gate ELSE d.gate

MakesDoors(prefix, gate, doors, s) ==
    /\ IsList(s)
    /\ \A e \in ToSet(s) : \E d \in ToSet(doors) : MadeOf(prefix, gate, d, e)
    /\ \A d \in ToSet(doors) : \E e \in ToSet(s) : MadeOf(prefix, gate, d, e)

LEMMA Routed ==
    ASSUME NEW prefix, NEW gate, NEW doors, IsList(prefix), IsList(doors),
           \A d \in ToSet(doors) : d = Door(d.method, d.path, d.gate) /\ IsList(d.path)
    PROVE  MakesDoors(prefix, gate, doors, Router(prefix, gate, doors))
<1> DEFINE routed(d) == [d EXCEPT !.path = prefix \o @,
                                  !.gate = IF @ = "router" THEN gate ELSE @]
           s == Router(prefix, gate, doors)
<1>1. /\ DOMAIN doors = 1 .. Len(doors) /\ Len(doors) \in Nat
      /\ \A i \in DOMAIN doors : doors[i] \in ToSet(doors)
  BY DEF IsList, ToSet
<1>2. /\ s = [i \in DOMAIN doors |-> routed(doors[i])]
      /\ DOMAIN s = 1 .. Len(doors) /\ Len(s) = Len(doors)
  BY <1>1 DEF Router
<1> HIDE DEF s
<1>3. IsList(s)
  <2>1. s = [i \in 1 .. Len(doors) |-> s[i]]
    BY <1>1, <1>2
  <2>. QED  BY <1>1, <2>1, Tabled
<1>4. ASSUME NEW d \in ToSet(doors) PROVE MadeOf(prefix, gate, d, routed(d))
  <2>1. d = Door(d.method, d.path, d.gate) /\ IsList(d.path)
    OBVIOUS
  <2>2. PICK e : e = routed(d)
    OBVIOUS
  <2>3. /\ e.method = d.method /\ e.path = prefix \o d.path
        /\ e.gate = IF d.gate = "router" THEN gate ELSE d.gate
    BY <2>1, <2>2 DEF Door
  <2>4. /\ IsList(prefix \o d.path)
        /\ ToSet(prefix \o d.path) = ToSet(prefix) \cup ToSet(d.path)
    BY <2>1, Joined
  <2>5. Len(prefix \o d.path) = Len(prefix) + Len(d.path)
    BY <2>1 DEF IsList
  <2>. QED  BY <2>2, <2>3, <2>4, <2>5 DEF MadeOf
<1> HIDE DEF routed
<1>5. \A e \in ToSet(s) : \E d \in ToSet(doors) : MadeOf(prefix, gate, d, e)
  BY <1>1, <1>2, <1>4 DEF ToSet
<1>6. \A d \in ToSet(doors) : \E e \in ToSet(s) : MadeOf(prefix, gate, d, e)
  BY <1>1, <1>2, <1>4 DEF ToSet
<1>7. MakesDoors(prefix, gate, doors, s)
  BY <1>3, <1>5, <1>6 DEF MakesDoors
<1>. QED  BY <1>7 DEF s

LEMMA RouterBehind ==
    ASSUME NEW prefix, NEW h, NEW gate, NEW doors,
           Leads(prefix, h), h \notin {"*", "auth"},
           gate \in GatesBehind(h), Routes(doors, GatesBehind(h))
    PROVE  Behind(h, Router(prefix, gate, doors))
<1> DEFINE s == Router(prefix, gate, doors)
<1>1. /\ IsList(prefix) /\ IsList(doors)
      /\ \A d \in ToSet(doors) : d = Door(d.method, d.path, d.gate) /\ IsList(d.path)
  BY DEF Leads, Routes, Route, Fine
<1>2. MakesDoors(prefix, gate, doors, s)
  BY <1>1, Routed
<1> HIDE DEF s
<1>3. ASSUME NEW e \in ToSet(s) PROVE Sound(e) /\ e.path[1] = h
  <2>1. PICK d \in ToSet(doors) : MadeOf(prefix, gate, d, e)
    BY <1>2 DEF MakesDoors
  <2>2. Fine(d.path) /\ d.gate \in {"router"} \cup GatesBehind(h)
    BY DEF Routes, Route
  <2>3. Len(e.path) > 0 /\ e.path[1] = h
    BY <1>1, <2>1 DEF IsList, Leads, MadeOf
  <2>. QED  BY <2>1, <2>2, <2>3 DEF Sound, Fine, Leads, MadeOf
<1>4. Behind(h, s)
  BY <1>2, <1>3 DEF Sounds, Behind, MakesDoors
<1>. QED  BY <1>4 DEF s

LEMMA AskedGates ==
    /\ \A h : "router" \notin GatesBehind(h)
    /\ GatesBehind("admin") = {"admin"}
    /\ \A h \in {"billing", "support", "companies"} : GatesBehind(h) = {"open", "token"}
    /\ \A h \in {"agreements", "contract-proposals", "conversations"} :
          GatesBehind(h) = {"paid"}
    /\ \A h \in {"blog", "coming-soon", "users", "opportunities", "notifications",
                  "contract-section-templates", "public", "platform",
                  "circularity", "files", "blockchain", "auth", "dashboard"} :
          GatesBehind(h) = {"open", "token", "paid", "admin"}
BY DEF GatesBehind

LEMMA SimpleRouters ==
    /\ Behind("blog", BlogDoors)
    /\ Behind("coming-soon", ComingSoonDoors)
    /\ Behind("users", UserDoors)
    /\ Behind("users", SignatureDoors)
    /\ Behind("admin", AdminSignatureDoors)
    /\ Behind("companies", CompanyDoors)
    /\ Behind("notifications", NotificationDoors)
    /\ Behind("contract-section-templates", SectionDoors)
    /\ Behind("contract-proposals", ProposalDoors)
    /\ Behind("public", VisitorDoors)
    /\ Behind("billing", BillingDoors)
    /\ Behind("admin", AdminBillingDoors)
    /\ Behind("billing", WebhookDoors)
    /\ Behind("platform", SettingsDoors)
    /\ Behind("admin", AdminSettingsDoors)
    /\ Behind("circularity", FlowDoors)
    /\ Behind("files", FileDoors)
    /\ Behind("blockchain", AnchorDoors)
<1>1. Behind("blog", BlogDoors)
  <2>1. PICK doors : doors =
          << Get(<<"posts", "exists">>), Get(<<"posts">>), Get(<<"posts", "*">>) >>
    OBVIOUS
  <2>2. Routes(doors, GatesBehind("blog"))
    BY <2>1, Verbs, Paths DEF Routes, IsList, ToSet
  <2>3. Leads(<<"blog">>, "blog")
    BY DEF Leads, IsList, ToSet
  <2>4. "open" \in GatesBehind("blog")
    BY AskedGates
  <2>. QED  BY <2>1, <2>2, <2>3, <2>4, RouterBehind DEF BlogDoors
<1>2. Behind("coming-soon", ComingSoonDoors)
  <2>1. PICK doors : doors =
          << Post(<<"subscribe">>) >>
    OBVIOUS
  <2>2. Routes(doors, GatesBehind("coming-soon"))
    BY <2>1, Verbs, Paths DEF Routes, IsList, ToSet
  <2>3. Leads(<<"coming-soon">>, "coming-soon")
    BY DEF Leads, IsList, ToSet
  <2>4. "open" \in GatesBehind("coming-soon")
    BY AskedGates
  <2>. QED  BY <2>1, <2>2, <2>3, <2>4, RouterBehind DEF ComingSoonDoors
<1>3. Behind("users", UserDoors)
  <2>1. PICK doors : doors =
          << Get(<<"me", "profile">>), Patch(<<"me", "profile">>),
       Post(<<"avatar", "presign">>), Post(<<"avatar", "upload">>) >>
    OBVIOUS
  <2>2. Routes(doors, GatesBehind("users"))
    BY <2>1, Verbs, Paths DEF Routes, IsList, ToSet
  <2>3. Leads(<<"users">>, "users")
    BY DEF Leads, IsList, ToSet
  <2>4. "token" \in GatesBehind("users")
    BY AskedGates
  <2>. QED  BY <2>1, <2>2, <2>3, <2>4, RouterBehind DEF UserDoors
<1>4. Behind("users", SignatureDoors)
  <2>1. PICK doors : doors =
          << Get(<<>>), Get(<<"fonts">>), Get(<<"initials-options">>),
       Post(<<"preview">>), Post(<<"automatic">>), Post(<<"manual">>),
       Get(<<"*", "image">>) >>
    OBVIOUS
  <2>2. Routes(doors, GatesBehind("users"))
    BY <2>1, Verbs, Paths DEF Routes, IsList, ToSet
  <2>3. Leads(<<"users", "me", "visual-signatures">>, "users")
    BY DEF Leads, IsList, ToSet
  <2>4. "token" \in GatesBehind("users")
    BY AskedGates
  <2>. QED  BY <2>1, <2>2, <2>3, <2>4, RouterBehind DEF SignatureDoors
<1>5. Behind("admin", AdminSignatureDoors)
  <2>1. PICK doors : doors =
          << Get(<<"*", "visual-signatures">>),
       Get(<<"*", "visual-signatures", "*", "image">>) >>
    OBVIOUS
  <2>2. Routes(doors, GatesBehind("admin"))
    BY <2>1, Verbs, Paths DEF Routes, IsList, ToSet
  <2>3. Leads(<<"admin", "users">>, "admin")
    BY DEF Leads, IsList, ToSet
  <2>4. "admin" \in GatesBehind("admin")
    BY AskedGates
  <2>. QED  BY <2>1, <2>2, <2>3, <2>4, RouterBehind DEF AdminSignatureDoors
<1>6. Behind("companies", CompanyDoors)
  <2>1. PICK doors : doors =
          << Get(<<>>), Post(<<>>), Post(<<"logo", "presign">>),
       Post(<<"logo", "upload">>), Post(<<"*", "documents", "*", "upload">>),
       Get(<<"*">>), Patch(<<"*">>), Delete(<<"*">>) >>
    OBVIOUS
  <2>2. Routes(doors, GatesBehind("companies"))
    BY <2>1, Verbs, Paths DEF Routes, IsList, ToSet
  <2>3. Leads(<<"companies">>, "companies")
    BY DEF Leads, IsList, ToSet
  <2>4. "token" \in GatesBehind("companies")
    BY AskedGates
  <2>. QED  BY <2>1, <2>2, <2>3, <2>4, RouterBehind DEF CompanyDoors
<1>7. Behind("notifications", NotificationDoors)
  <2>1. PICK doors : doors =
          << Get(<<>>), Get(<<"unread-count">>), Patch(<<"read-all">>),
       Stream(<<"stream">>), Patch(<<"*", "read">>) >>
    OBVIOUS
  <2>2. Routes(doors, GatesBehind("notifications"))
    BY <2>1, Verbs, Paths DEF Routes, IsList, ToSet
  <2>3. Leads(<<"notifications">>, "notifications")
    BY DEF Leads, IsList, ToSet
  <2>4. "token" \in GatesBehind("notifications")
    BY AskedGates
  <2>. QED  BY <2>1, <2>2, <2>3, <2>4, RouterBehind DEF NotificationDoors
<1>8. Behind("contract-section-templates", SectionDoors)
  <2>1. PICK doors : doors =
          << Get(<<>>) >>
    OBVIOUS
  <2>2. Routes(doors, GatesBehind("contract-section-templates"))
    BY <2>1, Verbs, Paths DEF Routes, IsList, ToSet
  <2>3. Leads(<<"contract-section-templates">>, "contract-section-templates")
    BY DEF Leads, IsList, ToSet
  <2>4. "token" \in GatesBehind("contract-section-templates")
    BY AskedGates
  <2>. QED  BY <2>1, <2>2, <2>3, <2>4, RouterBehind DEF SectionDoors
<1>9. Behind("contract-proposals", ProposalDoors)
  <2>1. PICK doors : doors =
          << Post(<<>>), Get(<<>>), Get(<<"*">>), Patch(<<"*">>),
       Post(<<"*", "generate-pdf">>), Post(<<"*", "approve">>),
       Post(<<"*", "request-changes">>), Post(<<"*", "reject">>) >>
    OBVIOUS
  <2>2. Routes(doors, GatesBehind("contract-proposals"))
    BY <2>1, Verbs, Paths DEF Routes, IsList, ToSet
  <2>3. Leads(<<"contract-proposals">>, "contract-proposals")
    BY DEF Leads, IsList, ToSet
  <2>4. "paid" \in GatesBehind("contract-proposals")
    BY AskedGates
  <2>. QED  BY <2>1, <2>2, <2>3, <2>4, RouterBehind DEF ProposalDoors
<1>10. Behind("public", VisitorDoors)
  <2>1. PICK doors : doors =
          << Post(<<"contact">>), Post(<<"contact-request">>) >>
    OBVIOUS
  <2>2. Routes(doors, GatesBehind("public"))
    BY <2>1, Verbs, Paths DEF Routes, IsList, ToSet
  <2>3. Leads(<<"public", "support">>, "public")
    BY DEF Leads, IsList, ToSet
  <2>4. "open" \in GatesBehind("public")
    BY AskedGates
  <2>. QED  BY <2>1, <2>2, <2>3, <2>4, RouterBehind DEF VisitorDoors
<1>11. Behind("billing", BillingDoors)
  <2>1. PICK doors : doors =
          << Get(<<"me">>), Get(<<"plans">>), Post(<<"coupons", "validate">>),
       Post(<<"subscribe">>), Get(<<"subscription">>),
       Post(<<"subscription", "cancel">>), Get(<<"invoices">>) >>
    OBVIOUS
  <2>2. Routes(doors, GatesBehind("billing"))
    BY <2>1, Verbs, Paths DEF Routes, IsList, ToSet
  <2>3. Leads(<<"billing">>, "billing")
    BY DEF Leads, IsList, ToSet
  <2>4. "token" \in GatesBehind("billing")
    BY AskedGates
  <2>. QED  BY <2>1, <2>2, <2>3, <2>4, RouterBehind DEF BillingDoors
<1>12. Behind("admin", AdminBillingDoors)
  <2>1. PICK doors : doors =
          << Get(<<"plans">>), Post(<<"plans">>), Get(<<"plans", "*">>),
       Patch(<<"plans", "*">>), Get(<<"settings">>), Patch(<<"settings">>),
       Get(<<"coupons">>), Post(<<"coupons">>), Get(<<"coupons", "*">>),
       Patch(<<"coupons", "*">>), Get(<<"subscriptions">>),
       Get(<<"subscriptions", "pending-users">>), Get(<<"subscriptions", "*">>),
       Get(<<"subscriptions", "*", "invoices">>), Get(<<"access-grant-targets">>),
       Get(<<"access-grants">>), Post(<<"access-grants">>),
       Post(<<"access-grants", "*", "revoke">>) >>
    OBVIOUS
  <2>2. Routes(doors, GatesBehind("admin"))
    BY <2>1, Verbs, Paths DEF Routes, IsList, ToSet
  <2>3. Leads(<<"admin", "billing">>, "admin")
    BY DEF Leads, IsList, ToSet
  <2>4. "admin" \in GatesBehind("admin")
    BY AskedGates
  <2>. QED  BY <2>1, <2>2, <2>3, <2>4, RouterBehind DEF AdminBillingDoors
<1>13. Behind("billing", WebhookDoors)
  <2>1. PICK doors : doors =
          << Post(<<"asaas">>) >>
    OBVIOUS
  <2>2. Routes(doors, GatesBehind("billing"))
    BY <2>1, Verbs, Paths DEF Routes, IsList, ToSet
  <2>3. Leads(<<"billing", "webhooks">>, "billing")
    BY DEF Leads, IsList, ToSet
  <2>4. "open" \in GatesBehind("billing")
    BY AskedGates
  <2>. QED  BY <2>1, <2>2, <2>3, <2>4, RouterBehind DEF WebhookDoors
<1>14. Behind("platform", SettingsDoors)
  <2>1. PICK doors : doors =
          << Get(<<"settings">>) >>
    OBVIOUS
  <2>2. Routes(doors, GatesBehind("platform"))
    BY <2>1, Verbs, Paths DEF Routes, IsList, ToSet
  <2>3. Leads(<<"platform">>, "platform")
    BY DEF Leads, IsList, ToSet
  <2>4. "token" \in GatesBehind("platform")
    BY AskedGates
  <2>. QED  BY <2>1, <2>2, <2>3, <2>4, RouterBehind DEF SettingsDoors
<1>15. Behind("admin", AdminSettingsDoors)
  <2>1. PICK doors : doors =
          << Get(<<"settings">>), Patch(<<"settings">>) >>
    OBVIOUS
  <2>2. Routes(doors, GatesBehind("admin"))
    BY <2>1, Verbs, Paths DEF Routes, IsList, ToSet
  <2>3. Leads(<<"admin", "platform">>, "admin")
    BY DEF Leads, IsList, ToSet
  <2>4. "admin" \in GatesBehind("admin")
    BY AskedGates
  <2>. QED  BY <2>1, <2>2, <2>3, <2>4, RouterBehind DEF AdminSettingsDoors
<1>16. Behind("circularity", FlowDoors)
  <2>1. PICK doors : doors =
          << Get(<<"companies", "*", "flows">>) >>
    OBVIOUS
  <2>2. Routes(doors, GatesBehind("circularity"))
    BY <2>1, Verbs, Paths DEF Routes, IsList, ToSet
  <2>3. Leads(<<"circularity">>, "circularity")
    BY DEF Leads, IsList, ToSet
  <2>4. "token" \in GatesBehind("circularity")
    BY AskedGates
  <2>. QED  BY <2>1, <2>2, <2>3, <2>4, RouterBehind DEF FlowDoors
<1>17. Behind("files", FileDoors)
  <2>1. PICK doors : doors =
          << Get(<<>>) >>
    OBVIOUS
  <2>2. Routes(doors, GatesBehind("files"))
    BY <2>1, Verbs, Paths DEF Routes, IsList, ToSet
  <2>3. Leads(<<"files">>, "files")
    BY DEF Leads, IsList, ToSet
  <2>4. "token" \in GatesBehind("files")
    BY AskedGates
  <2>. QED  BY <2>1, <2>2, <2>3, <2>4, RouterBehind DEF FileDoors
<1>18. Behind("blockchain", AnchorDoors)
  <2>1. PICK doors : doors =
          << Get(<<"anchors">>) >>
    OBVIOUS
  <2>2. Routes(doors, GatesBehind("blockchain"))
    BY <2>1, Verbs, Paths DEF Routes, IsList, ToSet
  <2>3. Leads(<<"blockchain">>, "blockchain")
    BY DEF Leads, IsList, ToSet
  <2>4. "token" \in GatesBehind("blockchain")
    BY AskedGates
  <2>. QED  BY <2>1, <2>2, <2>3, <2>4, RouterBehind DEF AnchorDoors
<1>. QED  BY <1>1, <1>2, <1>3, <1>4, <1>5, <1>6, <1>7, <1>8, <1>9, <1>10, <1>11, <1>12,
             <1>13, <1>14, <1>15, <1>16, <1>17, <1>18

LEMMA JoinedRoutes ==
    ASSUME NEW s, NEW t, NEW g, Routes(s, g), Routes(t, g)
    PROVE  Routes(s \o t, g) /\ ToSet(s) \subseteq ToSet(s \o t)
BY Joined DEF Routes

(* The administrators' routes, those of users among them.                  *)
LEMMA AdminList ==
    \E routes : /\ AdminDoors = Router(<<"admin">>, "admin", routes)
               /\ Routes(routes, GatesBehind("admin"))
               /\ ToSet(AdminUserDoors) \subseteq ToSet(routes)
<1> DEFINE g == GatesBehind("admin")
           a == AdminUserDoors \o AdminCompanyDoors
           b == a \o AdminOpportunityDoors
           c == b \o AdminAgreementDoors
           d == c \o AdminGroupDoors
           e == d \o AdminSectionDoors
           f == e \o AdminProposalDoors
           i == f \o AdminCampaignDoors
           j == i \o AdminBlogDoors
           k == j \o AdminTicketDoors
           l == k \o AdminTicketStreams
           m == l \o AdminConversationDoors
<1>1. Routes(a, g) /\ ToSet(AdminUserDoors) \subseteq ToSet(a)
  BY AdminRoutes, JoinedRoutes
<1>2. Routes(b, g) /\ ToSet(AdminUserDoors) \subseteq ToSet(b)
  <2> HIDE DEF a
  <2>. QED  BY <1>1, AdminRoutes, JoinedRoutes
<1>3. Routes(c, g) /\ ToSet(AdminUserDoors) \subseteq ToSet(c)
  <2> HIDE DEF b
  <2>. QED  BY <1>2, AdminRoutes, JoinedRoutes
<1>4. Routes(d, g) /\ ToSet(AdminUserDoors) \subseteq ToSet(d)
  <2> HIDE DEF c
  <2>. QED  BY <1>3, AdminRoutes, JoinedRoutes
<1>5. Routes(e, g) /\ ToSet(AdminUserDoors) \subseteq ToSet(e)
  <2> HIDE DEF d
  <2>. QED  BY <1>4, AdminRoutes, JoinedRoutes
<1>6. Routes(f, g) /\ ToSet(AdminUserDoors) \subseteq ToSet(f)
  <2> HIDE DEF e
  <2>. QED  BY <1>5, AdminRoutes, JoinedRoutes
<1>7. Routes(i, g) /\ ToSet(AdminUserDoors) \subseteq ToSet(i)
  <2> HIDE DEF f
  <2>. QED  BY <1>6, AdminRoutes, JoinedRoutes
<1>8. Routes(j, g) /\ ToSet(AdminUserDoors) \subseteq ToSet(j)
  <2> HIDE DEF i
  <2>. QED  BY <1>7, AdminRoutes, JoinedRoutes
<1>9. Routes(k, g) /\ ToSet(AdminUserDoors) \subseteq ToSet(k)
  <2> HIDE DEF j
  <2>. QED  BY <1>8, AdminRoutes, JoinedRoutes
<1>10. Routes(l, g) /\ ToSet(AdminUserDoors) \subseteq ToSet(l)
  <2> HIDE DEF k
  <2>. QED  BY <1>9, AdminRoutes, JoinedRoutes
<1>11. Routes(m, g) /\ ToSet(AdminUserDoors) \subseteq ToSet(m)
  <2> HIDE DEF l
  <2>. QED  BY <1>10, AdminRoutes, JoinedRoutes
<1>. QED  BY <1>11 DEF AdminDoors

LEMMA LongRouters ==
    /\ Behind("admin", AdminDoors)
    /\ Behind("opportunities", OpportunityDoors)
    /\ Behind("agreements", AgreementDoors)
    /\ Behind("conversations", ConversationDoors)
    /\ Behind("support", TicketDoors)
<1>1. Behind("admin", AdminDoors)
  <2>1. PICK routes : /\ AdminDoors = Router(<<"admin">>, "admin", routes)
                      /\ Routes(routes, GatesBehind("admin"))
    BY AdminList
  <2>2. Leads(<<"admin">>, "admin")
    BY DEF Leads, IsList, ToSet
  <2>3. "admin" \in GatesBehind("admin")
    BY AskedGates
  <2>. QED  BY <2>1, <2>2, <2>3, RouterBehind
<1>2. Behind("opportunities", OpportunityDoors)
  <2>1. PICK doors : doors =
          << WithGate("token", Get(<<>>)), Post(<<>>), Post(<<"images", "presign">>),
             Post(<<"images", "upload">>), Get(<<"*">>), Patch(<<"*">>),
             Delete(<<"*">>) >>
    OBVIOUS
  <2>2. Routes(doors, GatesBehind("opportunities"))
    <3>1. Route(WithGate("token", Get(<<>>)), GatesBehind("opportunities"))
      BY Paths, AskedGates DEF WithGate, Get, Door, Route
    <3>. QED  BY <2>1, <3>1, Verbs, Paths DEF Routes, IsList, ToSet
  <2>3. Leads(<<"opportunities">>, "opportunities")
    BY DEF Leads, IsList, ToSet
  <2>4. "paid" \in GatesBehind("opportunities")
    BY AskedGates
  <2>. QED  BY <2>1, <2>2, <2>3, <2>4, RouterBehind DEF OpportunityDoors
<1>3. Behind("agreements", AgreementDoors)
  <2>1. PICK doors : doors = AgreementDraftDoors \o AgreementSigningDoors
    OBVIOUS
  <2>2. Routes(doors, GatesBehind("agreements"))
    BY <2>1, MemberRoutes, JoinedRoutes
  <2>3. Leads(<<"agreements">>, "agreements")
    BY DEF Leads, IsList, ToSet
  <2>4. "paid" \in GatesBehind("agreements")
    BY AskedGates
  <2>. QED  BY <2>1, <2>2, <2>3, <2>4, RouterBehind DEF AgreementDoors
<1>4. Behind("conversations", ConversationDoors)
  <2> DEFINE g == GatesBehind("conversations")
             a == ThreadDoors \o ThreadMoveDoors
             b == << Stream(<<"*", "stream">>) >>
  <2>1. Routes(a, g)
    BY MemberRoutes, JoinedRoutes
  <2>2. Routes(b, g)
    BY Verbs, Paths DEF Routes, IsList, ToSet
  <2>3. ConversationDoors = Router(<<"conversations">>, "paid", a \o b)
    BY DEF ConversationDoors
  <2> HIDE DEF a, b
  <2>4. Routes(a \o b, g)
    BY <2>1, <2>2, JoinedRoutes
  <2>5. Leads(<<"conversations">>, "conversations")
    BY DEF Leads, IsList, ToSet
  <2>6. "paid" \in g
    BY AskedGates
  <2>. QED  BY <2>3, <2>4, <2>5, <2>6, RouterBehind
<1>5. Behind("support", TicketDoors)
  <2> DEFINE g == GatesBehind("support")
             a == MemberTicketDoors \o PresenceDoors
             b == << Post(<<"tickets", "*", "messages", "read">>), Stream(<<"stream">>),
                     Stream(<<"tickets", "*", "stream">>) >>
  <2>1. Routes(a, g)
    BY MemberRoutes, JoinedRoutes
  <2>2. Routes(b, g)
    BY Verbs, Paths DEF Routes, IsList, ToSet
  <2>3. TicketDoors = Router(<<"support">>, "token", a \o b)
    BY DEF TicketDoors
  <2> HIDE DEF a, b
  <2>4. Routes(a \o b, g)
    BY <2>1, <2>2, JoinedRoutes
  <2>5. Leads(<<"support">>, "support")
    BY DEF Leads, IsList, ToSet
  <2>6. "token" \in g
    BY AskedGates
  <2>. QED  BY <2>3, <2>4, <2>5, <2>6, RouterBehind
<1>. QED  BY <1>1, <1>2, <1>3, <1>4, <1>5

(* The two routers that one rule does not describe: no route of auth is    *)
(* for administrators but two, and dashboard has no prefix.                *)
LEMMA AuthSounds == Sounds(AuthDoors)
<1> DEFINE Word(d) == /\ d = Door(d.method, d.path, d.gate) /\ IsList(d.path)
                      /\ Len(d.path) = 1 /\ "admin" \notin ToSet(d.path)
                      /\ d.gate \in {"router", "token"}
           Two(d)  == /\ d = Door(d.method, d.path, d.gate) /\ IsList(d.path)
                      /\ Len(d.path) = 2
                      /\ \/ d.gate = "admin"
                         \/ d.gate = "router" /\ d.path[2] = "login"
<1>1. ASSUME NEW a, a # "admin"
      PROVE  Word(Post(<<a>>)) /\ Word(WithGate("token", Post(<<a>>)))
             /\ Word(WithGate("token", Get(<<a>>)))
  BY <1>1 DEF Post, Get, WithGate, Door, IsList, ToSet
<1>2. Two(WithGate("admin", Post(<<"admin", "users">>)))
  BY DEF Post, WithGate, Door, IsList, ToSet
<1>3. Two(Post(<<"admin", "login">>))
  BY DEF Post, Door, IsList, ToSet
<1> HIDE DEF Word, Two
<1>4. PICK doors : doors =
         << Post(<<"register">>),
            WithGate("admin", Post(<<"admin", "users">>)),
            Post(<<"verify">>), Post(<<"resend-verification">>),
            Post(<<"forgot-password">>), Post(<<"verify-password-reset">>),
            Post(<<"confirm-password-reset">>),
            Post(<<"login">>), Post(<<"admin", "login">>),
            WithGate("token", Get(<<"me">>)),
            WithGate("token", Post(<<"logout">>)),
            WithGate("token", Post(<<"revoke-all">>)) >>
  OBVIOUS
<1>5. IsList(doors) /\ \A d \in ToSet(doors) : Word(d) \/ Two(d)
  <2>1. /\ Word(Post(<<"register">>)) /\ Word(Post(<<"verify">>))
        /\ Word(Post(<<"resend-verification">>)) /\ Word(Post(<<"forgot-password">>))
        /\ Word(Post(<<"verify-password-reset">>))
        /\ Word(Post(<<"confirm-password-reset">>)) /\ Word(Post(<<"login">>))
        /\ Word(WithGate("token", Get(<<"me">>)))
        /\ Word(WithGate("token", Post(<<"logout">>)))
        /\ Word(WithGate("token", Post(<<"revoke-all">>)))
    BY <1>1
  <2>. QED  BY <1>2, <1>3, <1>4, <2>1 DEF IsList, ToSet
<1> DEFINE s == Router(<<"auth">>, "open", doors)
<1>6. IsList(<<"auth">>) /\ ToSet(<<"auth">>) = {"auth"} /\ Len(<<"auth">>) = 1
  BY DEF IsList, ToSet
<1>7. \A d \in ToSet(doors) : d = Door(d.method, d.path, d.gate) /\ IsList(d.path)
  BY <1>5 DEF Word, Two
<1>8. PICK p, gate : p = <<"auth">> /\ gate = "open"
  OBVIOUS
<1>9. IsList(p) /\ p[1] = "auth" /\ Len(p) = 1 /\ ToSet(p) = {"auth"}
  BY <1>6, <1>8
<1>10. MakesDoors(p, gate, doors, Router(p, gate, doors))
  BY <1>5, <1>7, <1>9, Routed
<1>11. ASSUME NEW e \in ToSet(Router(p, gate, doors)) PROVE Sound(e)
  <2>1. PICK d \in ToSet(doors) : MadeOf(p, gate, d, e)
    BY <1>10 DEF MakesDoors
  <2>2. e.path[1] = "auth" /\ "open" \in GatesBehind("auth") /\ "token" \in GatesBehind("auth")
        /\ "admin" \in GatesBehind("auth")
    BY <1>9, <2>1, AskedGates DEF IsList, MadeOf
  <2>3. CASE Word(d)
    BY <1>8, <1>9, <2>1, <2>2, <2>3 DEF Word, Sound, MadeOf
  <2>4. CASE Two(d)
    <3>1. e.path[3] = d.path[2]
      BY <1>9, <2>1, <2>4 DEF Two, IsList, MadeOf
    <3>. QED  BY <1>8, <1>9, <2>1, <2>2, <2>4, <3>1 DEF Two, Sound, MadeOf
  <2>. QED  BY <1>5, <2>3, <2>4
<1>12. AuthDoors = Router(p, gate, doors)
  BY <1>4, <1>8 DEF AuthDoors
<1>. QED  BY <1>10, <1>11, <1>12 DEF Sounds, MakesDoors

LEMMA DashboardSounds == Sounds(DashboardDoors)
<1>1. PICK p, gate : p = <<>> /\ gate = "token"
  OBVIOUS
<1>2. PICK x, y : x = <<"admin", "dashboard">> /\ y = <<"dashboard">>
  OBVIOUS
<1>3. /\ IsList(p) /\ Len(p) = 0 /\ ToSet(p) = {}
      /\ IsList(x) /\ Len(x) = 2 /\ x[1] = "admin"
      /\ IsList(y) /\ Len(y) = 1 /\ y[1] = "dashboard" /\ ToSet(y) = {"dashboard"}
  BY <1>1, <1>2 DEF IsList, ToSet
<1>4. PICK doors : doors = << WithGate("admin", Get(x)), Get(y) >>
  OBVIOUS
<1>5. /\ IsList(doors)
      /\ \A d \in ToSet(doors) :
           /\ d = Door(d.method, d.path, d.gate)
           /\ \/ d.path = x /\ d.gate = "admin"
              \/ d.path = y /\ d.gate = "router"
  BY <1>4 DEF WithGate, Get, Door, IsList, ToSet
<1>6. MakesDoors(p, gate, doors, Router(p, gate, doors))
  BY <1>3, <1>5, Routed
<1>7. ASSUME NEW e \in ToSet(Router(p, gate, doors)) PROVE Sound(e)
  <2>1. PICK d \in ToSet(doors) : MadeOf(p, gate, d, e)
    BY <1>6 DEF MakesDoors
  <2>2. e.path[1] = d.path[1] /\ Len(e.path) > 0
    BY <1>3, <1>5, <2>1 DEF IsList, MadeOf
  <2>. QED  BY <1>1, <1>3, <1>5, <2>1, <2>2, AskedGates DEF Sound, MadeOf
<1>8. DashboardDoors = Router(p, gate, doors)
  BY <1>1, <1>2, <1>4 DEF DashboardDoors
<1>. QED  BY <1>6, <1>7, <1>8 DEF Sounds, MakesDoors

LEMMA JoinedSounds ==
    ASSUME NEW s, NEW t, Sounds(s), Sounds(t)
    PROVE  Sounds(s \o t) /\ ToSet(s \o t) = ToSet(s) \cup ToSet(t)
BY Joined DEF Sounds

(* All doors are sound, one router after another.                          *)
LEMMA DoorsSound ==
    /\ Sounds(Doors)
    /\ \A s \in {AdminDoors, CompanyDoors, AgreementDoors, ConversationDoors,
                 ProposalDoors, TicketDoors, BillingDoors} : ToSet(s) \subseteq ToSet(Doors)
<1> DEFINE a == AuthDoors \o AdminDoors \o DashboardDoors \o BlogDoors \o ComingSoonDoors
           b == a \o UserDoors \o SignatureDoors \o AdminSignatureDoors \o CompanyDoors
           c == b \o OpportunityDoors \o AgreementDoors \o NotificationDoors
           d == c \o ConversationDoors \o SectionDoors \o ProposalDoors \o TicketDoors
           e == d \o VisitorDoors \o BillingDoors \o AdminBillingDoors \o WebhookDoors
           f == e \o SettingsDoors \o AdminSettingsDoors \o FlowDoors \o FileDoors
                  \o AnchorDoors
<1>1. /\ Sounds(AdminDoors) /\ Sounds(OpportunityDoors) /\ Sounds(AgreementDoors)
      /\ Sounds(ConversationDoors) /\ Sounds(TicketDoors)
  BY LongRouters DEF Behind
<1>2. /\ Sounds(BlogDoors) /\ Sounds(ComingSoonDoors) /\ Sounds(UserDoors)
      /\ Sounds(SignatureDoors) /\ Sounds(AdminSignatureDoors) /\ Sounds(CompanyDoors)
      /\ Sounds(NotificationDoors) /\ Sounds(SectionDoors) /\ Sounds(ProposalDoors)
      /\ Sounds(VisitorDoors) /\ Sounds(BillingDoors) /\ Sounds(AdminBillingDoors)
      /\ Sounds(WebhookDoors) /\ Sounds(SettingsDoors) /\ Sounds(AdminSettingsDoors)
      /\ Sounds(FlowDoors) /\ Sounds(FileDoors) /\ Sounds(AnchorDoors)
  BY SimpleRouters DEF Behind
<1>3. \A s, t : Sounds(s) /\ Sounds(t) =>
          /\ Sounds(s \o t)
          /\ ToSet(s) \subseteq ToSet(s \o t) /\ ToSet(t) \subseteq ToSet(s \o t)
  BY JoinedSounds
<1>4. /\ Sounds(a)
      /\ \A s \in {AdminDoors} :
           ToSet(s) \subseteq ToSet(a)
  BY <1>1, <1>2, <1>3, AuthSounds, DashboardSounds
<1> HIDE DEF a
<1>5. /\ Sounds(b)
      /\ \A s \in {AdminDoors, CompanyDoors} :
           ToSet(s) \subseteq ToSet(b)
  BY <1>2, <1>3, <1>4
<1> HIDE DEF b
<1>6. /\ Sounds(c)
      /\ \A s \in {AdminDoors, CompanyDoors, AgreementDoors} :
           ToSet(s) \subseteq ToSet(c)
  BY <1>1, <1>2, <1>3, <1>5
<1> HIDE DEF c
<1>7. /\ Sounds(d)
      /\ \A s \in {AdminDoors, CompanyDoors, AgreementDoors,
                   ConversationDoors, ProposalDoors, TicketDoors} :
           ToSet(s) \subseteq ToSet(d)
  BY <1>1, <1>2, <1>3, <1>6
<1> HIDE DEF d
<1>8. /\ Sounds(e)
      /\ \A s \in {AdminDoors, CompanyDoors, AgreementDoors,
                   ConversationDoors, ProposalDoors, TicketDoors, BillingDoors} :
           ToSet(s) \subseteq ToSet(e)
  BY <1>2, <1>3, <1>7
<1> HIDE DEF e
<1>9. /\ Sounds(f)
      /\ \A s \in {AdminDoors, CompanyDoors, AgreementDoors,
                   ConversationDoors, ProposalDoors, TicketDoors, BillingDoors} :
           ToSet(s) \subseteq ToSet(f)
  BY <1>2, <1>3, <1>8
<1>. QED  BY <1>9 DEF Doors, a, b, c, d, e

(* A call that some door fits goes to a door that it fits, at which its    *)
(* path starts with the same word; a call to where a door is, to one that  *)
(* starts as that door.                                                    *)
Arrives(method, path) ==
    \E e \in ToSet(Doors) : Fits(e, method, path) /\ GateOf(method, path) = e.gate

LEMMA CallsArrive ==
    ASSUME NEW method, NEW path, NEW d \in ToSet(Doors), Fits(d, method, path)
    PROVE  Arrives(method, path)
<1> DEFINE I == {i \in 1 .. Len(Doors) : Fits(Doors[i], method, path)}
<1>1. DOMAIN Doors = 1 .. Len(Doors) /\ Len(Doors) \in Nat
  BY DoorsSound DEF Sounds, IsList
<1>2. I \subseteq Nat /\ I # {}
  BY <1>1 DEF ToSet
<1>3. Reached(method, path) = CHOOSE i \in I : \A j \in I : i <= j
  BY <1>2 DEF Reached, SelectInSeq, Min
<1> HIDE DEF I
<1>4. \E i \in I : \A j \in I : i <= j
  BY <1>2, Least
<1>5. Reached(method, path) \in I
  BY <1>3, <1>4
<1>6. PICK i : i = Reached(method, path)
  OBVIOUS
<1>7. /\ i \in 1 .. Len(Doors) /\ Fits(Doors[i], method, path)
      /\ Doors[i] \in ToSet(Doors)
  BY <1>1, <1>5, <1>6 DEF I, ToSet
<1>8. GateOf(method, path) = Doors[i].gate
  BY <1>1, <1>6, <1>7 DEF GateOf
<1>. QED  BY <1>7, <1>8 DEF Arrives

LEMMA CallsOfDoors ==
    ASSUME NEW d \in ToSet(Doors)
    PROVE  /\ GateOf(Verb(d.method), PathTo(d)) \in GatesBehind(d.path[1])
           /\ d.path[1] = "auth" /\ Len(d.path) = 3 /\ d.path[3] # "login" =>
                GateOf(Verb(d.method), PathTo(d)) = "admin"
<1>1. Sound(d)
  BY DoorsSound DEF Sounds
<1>2. PICK path : path = PathTo(d)
  OBVIOUS
<1>3. PICK method : method = Verb(d.method)
  OBVIOUS
<1>4. /\ DOMAIN d.path = 1 .. Len(d.path) /\ Len(d.path) \in Nat
      /\ d.path[1] # "*"
  BY <1>1 DEF Sound, IsList
<1>5. /\ DOMAIN path = 1 .. Len(d.path) /\ Len(path) = Len(d.path)
      /\ \A i \in 1 .. Len(d.path) :
           path[i] = IF d.path[i] = "*" THEN "an id" ELSE d.path[i]
  <2>1. path = [i \in 1 .. Len(d.path) |->
                  IF d.path[i] = "*" THEN "an id" ELSE d.path[i]]
    BY <1>2, <1>4 DEF PathTo
  <2>2. path = [i \in 1 .. Len(d.path) |-> path[i]]
    BY <2>1
  <2>3. Len(path) = Len(d.path)
    BY <1>4, <2>2, Tabled
  <2>. QED  BY <2>1, <2>3
<1>6. Fits(d, method, path)
  BY <1>3, <1>4, <1>5 DEF Fits
<1>7. PICK e \in ToSet(Doors) : Fits(e, method, path) /\ GateOf(method, path) = e.gate
  BY <1>6, CallsArrive DEF Arrives
<1>8. Sound(e)
  BY DoorsSound DEF Sounds
<1>9. 1 \in 1 .. Len(d.path)
  BY <1>1, <1>4 DEF Sound
<1>10. e.path[1] = d.path[1] /\ Len(e.path) = Len(d.path)
  BY <1>4, <1>5, <1>7, <1>8, <1>9 DEF Fits, Sound
<1>11. ASSUME Len(d.path) = 3, e.path[3] = "login" PROVE d.path[3] = "login"
  <2>1. 3 \in DOMAIN path
    <3>1. 3 \in 1 .. Len(d.path)
      BY <1>11
    <3>. QED  BY <1>5, <3>1
  <2>2. e.path[3] \in {"*", path[3]}
    BY <1>7, <2>1 DEF Fits
  <2>. QED  BY <1>5, <1>11, <2>1, <2>2
<1>. QED  BY <1>2, <1>3, <1>7, <1>8, <1>10, <1>11 DEF Sound

LEMMA DeletionAsks == DeleteUserGate = "admin"
<1>1. PICK path : path = <<"admin", "users", "an id">>
  OBVIOUS
<1>2. DOMAIN path = 1 .. 3 /\ Len(path) = 3 /\ path[1] = "admin" /\ path[2] = "users"
  <2>1. ASSUME NEW a, NEW b, NEW c PROVE IsList(<<a, b, c>>)
    BY DEF IsList, ToSet
  <2>2. path[1] = "admin" /\ path[2] = "users"
    BY <1>1
  <2>3. Len(path) = 3
    BY <1>1
  <2>4. IsList(path)
    BY <1>1, <2>1, Zenon
  <2>. QED  BY <2>2, <2>3, <2>4 DEF IsList
<1>3. \E d \in ToSet(Doors) : Fits(d, "DELETE", path)
  <2>1. PICK routes : /\ AdminDoors = Router(<<"admin">>, "admin", routes)
                      /\ Routes(routes, GatesBehind("admin"))
                      /\ ToSet(AdminUserDoors) \subseteq ToSet(routes)
    BY AdminList
  <2>2. PICK p, gate : p = <<"admin">> /\ gate = "admin"
    OBVIOUS
  <2>3. IsList(p) /\ Len(p) = 1 /\ p[1] = "admin"
    BY <2>2 DEF IsList, ToSet
  <2>4. /\ IsList(routes)
        /\ \A d \in ToSet(routes) : d = Door(d.method, d.path, d.gate) /\ IsList(d.path)
    BY <2>1 DEF Routes, Route, Fine
  <2>5. MakesDoors(p, gate, routes, Router(p, gate, routes))
    BY <2>3, <2>4, Routed
  <2>6. PICK x : x = <<"users", "*">>
    OBVIOUS
  <2>7. IsList(x) /\ Len(x) = 2 /\ x[1] = "users" /\ x[2] = "*"
    BY <2>6 DEF IsList, ToSet
  <2>8. Delete(x) \in ToSet(AdminUserDoors)
    <3>1. AdminUserDoors[6] = Delete(x) /\ 6 \in DOMAIN AdminUserDoors
      BY <2>6 DEF AdminUserDoors
    <3>. QED  BY <3>1 DEF ToSet
  <2>9. PICK e \in ToSet(AdminDoors) : MadeOf(p, gate, Delete(x), e)
    BY <2>1, <2>2, <2>5, <2>8 DEF MakesDoors
  <2>10. e.method = "DELETE" /\ e.path = p \o x
    BY <2>9 DEF MadeOf, Delete, Door
  <2>11. /\ Len(e.path) = 3 /\ e.path[1] = "admin" /\ e.path[2] = "users"
         /\ e.path[3] = "*"
    <3>0. IsList(p) /\ IsList(x)
      BY <2>3, <2>7
    <3>1. /\ Len(p \o x) = Len(p) + Len(x)
          /\ \A i \in 1 .. Len(p) : (p \o x)[i] = p[i]
          /\ \A i \in 1 .. Len(x) : (p \o x)[Len(p) + i] = x[i]
      BY <3>0, InOrder
    <3>2. 1 \in 1 .. Len(p) /\ 1 \in 1 .. Len(x) /\ 2 \in 1 .. Len(x)
      BY <2>3, <2>7
    <3>3. /\ (p \o x)[1] = p[1] /\ (p \o x)[Len(p) + 1] = x[1]
          /\ (p \o x)[Len(p) + 2] = x[2]
      BY <3>1, <3>2
    <3>. QED  BY <2>3, <2>7, <2>10, <3>1, <3>3
  <2>12. Fits(e, "DELETE", path)
    BY <1>2, <2>10, <2>11 DEF Fits, Verb
  <2>. QED  BY <2>9, <2>12, DoorsSound
<1>4. PICK e \in ToSet(Doors) : Fits(e, "DELETE", path) /\ GateOf("DELETE", path) = e.gate
  BY <1>3, CallsArrive DEF Arrives
<1>5. Sound(e)
  BY DoorsSound DEF Sounds
<1>6. e.path[1] = "admin"
  BY <1>2, <1>4, <1>5 DEF Fits, Sound
<1>. QED  BY <1>1, <1>4, <1>5, <1>6, AskedGates DEF Sound, DeleteUserGate

(* The doors for administrators ask for one, and so does that of the       *)
(* deletion of users: the list of routers is fixed, so this needs no step. *)
THEOREM DoorsForAdmins == AdminsOnly
<1>1. ASSUME NEW d \in ToSet(Doors), "admin" \in ToSet(d.path), Last(d.path) # "login"
      PROVE  GateOf(Verb(d.method), PathTo(d)) = "admin"
  <2>1. Sound(d)
    BY DoorsSound DEF Sounds
  <2>2. CASE d.path[1] = "admin"
    BY <2>2, CallsOfDoors, AskedGates
  <2>3. CASE d.path[1] = "auth" /\ Len(d.path) = 3
    BY <1>1, <2>3, CallsOfDoors DEF Last
  <2>. QED  BY <1>1, <2>1, <2>2, <2>3 DEF Sound
<1>2. AdminGates \subseteq {"admin"}
  BY <1>1 DEF AdminGates
<1>. QED  BY <1>2, DeletionAsks DEF AdminsOnly

(* What asks at the doors behind which access is bought, and at those of   *)
(* the contracts.                                                          *)
LEMMA PayDoors == ToPay \subseteq {"open", "token"} /\ ToContract \subseteq {"paid"}
<1>1. PICK pay, use : /\ pay = BillingDoors \o TicketDoors \o CompanyDoors
                      /\ use = AgreementDoors \o ProposalDoors \o ConversationDoors
  OBVIOUS
<1>2. /\ Behind("billing", BillingDoors) /\ Behind("support", TicketDoors)
      /\ Behind("companies", CompanyDoors) /\ Behind("agreements", AgreementDoors)
      /\ Behind("contract-proposals", ProposalDoors)
      /\ Behind("conversations", ConversationDoors)
  BY SimpleRouters, LongRouters
<1>3. /\ ToSet(pay) = ToSet(BillingDoors) \cup ToSet(TicketDoors) \cup ToSet(CompanyDoors)
      /\ ToSet(use) = ToSet(AgreementDoors) \cup ToSet(ProposalDoors)
                      \cup ToSet(ConversationDoors)
  BY <1>1, <1>2, JoinedSounds DEF Behind
<1>4. ToSet(pay) \subseteq ToSet(Doors) /\ ToSet(use) \subseteq ToSet(Doors)
  BY <1>3, DoorsSound
<1>5. /\ \A d \in ToSet(pay) : d.path[1] \in {"billing", "support", "companies"}
      /\ \A d \in ToSet(use) :
           d.path[1] \in {"agreements", "contract-proposals", "conversations"}
  BY <1>2, <1>3 DEF Behind
<1>6. ASSUME NEW d \in ToSet(pay)
      PROVE  GateOf(Verb(d.method), PathTo(d)) \in {"open", "token"}
  BY <1>4, <1>5, CallsOfDoors, AskedGates
<1>7. ASSUME NEW d \in ToSet(use)
      PROVE  GateOf(Verb(d.method), PathTo(d)) \in {"paid"}
  BY <1>4, <1>5, CallsOfDoors, AskedGates
<1>. QED  BY <1>1, <1>6, <1>7 DEF ToPay, ToContract, GatesTo

-----------------------------------------------------------------------------
(* Members                                                                 *)

LoginWork  == [at : {"upsert"}, uid : Persons, claims : Claims]
UpdateWork == [at : {"rename", "set role", "set claims", "reread", "set active",
                     "set disabled"}, uid : Persons, patch : Patches]
FaceWork   == [at : {"tell Firebase", "store user", "store profile"},
               uid : Persons, new : Faces]
DropWork   == [at : {"drop identity", "drop profile", "drop user"}, uid : Persons]

(* What every request has seen to, whatever overlaps and raises.           *)
Seen(q) ==
    /\ q.at \in {"drop profile", "drop user"} => ~atFire[q.uid].there
    /\ q.at \in {"rename", "set role", "set claims"} /\ q.patch.role = "admin" =>
           q.uid \in appointed
    /\ q.at = "set claims" =>
           q.patch.role \in Roles /\ (q.patch.role = "viewer" => lowered)
    /\ q.at = "set disabled" =>
           q.patch.mode \in Modes /\ (q.patch.mode = "disabled" => lowered)

(* A member who administers by Firebase, or by a token, was appointed.     *)
Appointments ==
    \A u \in Persons :
        /\ atFire[u].there /\ atFire[u].role = "admin" => u \in appointed
        /\ \A t \in tokens[u] : t.role = "admin" => u \in appointed

(* Until one is demoted or disabled, all are active, and whoever shows a   *)
(* token of an administrator is one.                                       *)
NoneLowered ==
    ~lowered =>
        \A u \in Persons :
            /\ inUsers[u].there => inUsers[u].mode = "active"
            /\ atFire[u].there => atFire[u].mode = "active"
            /\ \A t \in tokens[u] :
                   t.role = "admin" /\ atFire[u].there => atFire[u].role = "admin"

Throughout == NoIdentityAlone /\ Appointments /\ NoneLowered

(* One request at a time, none of them lowered: there is an administrator  *)
(* whom the deletion in flight does not take, and the users collection     *)
(* knows those that Firebase has, but for older claims.                    *)
Heads(a) == atFire[a].there /\ atFire[a].role = "admin"

Led(q) ==
    ~lowered =>
        /\ \E a \in Persons : Heads(a) /\ (q.at = "drop identity" => a # q.uid)
        /\ \A u \in Persons : Heads(u) /\ u \notin behind => inUsers[u].role = "admin"
        /\ q.at = "set claims" /\ q.patch.role = "admin" =>
               (inUsers[q.uid].there => inUsers[q.uid].role = "admin")

(* What StoresAgree says of a member, with the picture as Firebase has it. *)
Told(u)       == inUsers[u].there => atFire[u].there
SameMode(u)   == inUsers[u].there => inUsers[u].mode = atFire[u].mode
SameClaims(u) == inUsers[u].there /\ u \notin behind =>
                     ClaimsOf(inUsers[u]) = ClaimsOf(atFire[u])
SameFace(u)   == atFire[u].there => face[u] \in {"none", atFire[u].picture}
Settled(u)    == Told(u) /\ SameMode(u) /\ SameClaims(u) /\ SameFace(u)

(* How far the only request has got with its member.                       *)
Partly(q) ==
    LET u == q.uid IN
    /\ q.at \in {"upsert", "rename", "set role", "reread", "set active",
                 "tell Firebase", "drop identity"} => Settled(u)
    /\ q.at = "upsert" => EnabledAt(u)
    /\ q.at = "set claims" =>
         /\ Told(u) /\ SameMode(u) /\ SameFace(u)
         /\ inUsers[u].there /\ u \notin behind =>
              ClaimsOf(inUsers[u]) = [ClaimsOf(atFire[u]) EXCEPT !.role = q.patch.role]
    /\ q.at = "set disabled" =>
         /\ Told(u) /\ SameClaims(u) /\ SameFace(u)
         /\ inUsers[u].there => inUsers[u].mode = q.patch.mode
    /\ q.at = "tell Firebase" => inUsers[u].there
    /\ q.at = "store user" =>
         /\ inUsers[u].there /\ atFire[u].there /\ SameMode(u)
         /\ u \notin behind => ClaimsOf(With(inUsers[u], q.new)) = ClaimsOf(atFire[u])
    /\ q.at = "store profile" => Told(u) /\ SameMode(u) /\ SameClaims(u)
    /\ q.at \in {"store user", "store profile"} =>
         IF q.new.picture = Kept THEN SameFace(u)
         ELSE atFire[u].there => atFire[u].picture = q.new.picture

Midway(q) ==
    /\ \A u \in Persons : q.at = "idle" \/ u # q.uid => Settled(u)
    /\ Partly(q)

(* Requests that are not idle are q.                                       *)
Lone(q) ==
    /\ \A r \in Requests : breq[r] \in {Idle, q}
    /\ \A r, s \in Requests : breq[r] # Idle /\ breq[s] # Idle => r = s
    /\ AllIdle(breq) => q = Idle

BInv ==
    /\ TypeOKMembers
    /\ \A r \in Requests : Seen(breq[r])
    /\ Throughout
    /\ ~overlap => \E q \in {Idle} \cup {breq[r] : r \in Requests} :
                       Lone(q) /\ (AdminsOnly => Led(q)) /\ (~faults => Midway(q))

-----------------------------------------------------------------------------
(* Lemmas                                                                  *)

Stocks ==
    /\ atFire \in [Persons -> Records]
    /\ inUsers \in [Persons -> Records]
    /\ face \in [Persons -> Labels \cup {"none"}]
    /\ tokens \in [Persons -> SUBSET Claims]
    /\ behind \subseteq Persons
    /\ lowered \in BOOLEAN
    /\ appointed \subseteq Persons
    /\ bmoves \in 0 .. MemberMoves

LEMMA MemberTyped ==
    ASSUME BInv
    PROVE  /\ Stocks
           /\ atFire \in [Persons -> Records] /\ inUsers \in [Persons -> Records]
           /\ face \in [Persons -> Labels \cup {"none"}]
           /\ tokens \in [Persons -> SUBSET Claims]
           /\ behind \subseteq Persons /\ appointed \subseteq Persons
           /\ lowered \in BOOLEAN
           /\ bmoves \in 0 .. MemberMoves
           /\ breq \in [Requests -> MemberRequests]
           /\ \A r \in Requests : Seen(breq[r])
           /\ NoIdentityAlone /\ Appointments /\ NoneLowered
BY DEF BInv, TypeOKMembers, Stocks, Throughout

LEMMA MemberShapes ==
    ASSUME NEW q \in MemberRequests
    PROVE  /\ q.at = "upsert" => q \in LoginWork
           /\ q.at \in {"rename", "set role", "set claims", "reread", "set active",
                        "set disabled"} => q \in UpdateWork
           /\ q.at \in {"tell Firebase", "store user", "store profile"} => q \in FaceWork
           /\ q.at \in {"drop identity", "drop profile", "drop user"} => q \in DropWork
           /\ q.at = "idle" => q = Idle
           /\ q # Idle => q.at # "idle" /\ q.uid \in Persons
<1>1. Idle.at = "idle"
  BY DEF Idle
<1>2. \A x \in LoginWork : x.at = "upsert" /\ x.uid \in Persons
  BY DEF LoginWork
<1>3. \A x \in UpdateWork :
          /\ x.at \in {"rename", "set role", "set claims", "reread", "set active",
                       "set disabled"}
          /\ x.uid \in Persons
  BY DEF UpdateWork
<1>4. \A x \in FaceWork :
          x.at \in {"tell Firebase", "store user", "store profile"} /\ x.uid \in Persons
  BY DEF FaceWork
<1>5. \A x \in DropWork :
          x.at \in {"drop identity", "drop profile", "drop user"} /\ x.uid \in Persons
  BY DEF DropWork
<1>6. q = Idle \/ q \in LoginWork \/ q \in UpdateWork \/ q \in FaceWork \/ q \in DropWork
  BY DEF MemberRequests, LoginWork, UpdateWork, FaceWork, DropWork
<1>. QED  BY <1>1, <1>2, <1>3, <1>4, <1>5, <1>6

LEMMA MemberWork ==
    /\ \A q \in LoginWork \cup UpdateWork \cup FaceWork \cup DropWork :
           q \in MemberRequests
    /\ Idle \in MemberRequests /\ Idle.at = "idle"
BY DEF MemberRequests, LoginWork, UpdateWork, FaceWork, DropWork, Idle

(* The same request at another of its steps.                               *)
LEMMA UpdateOn ==
    ASSUME NEW q \in UpdateWork,
           NEW at \in {"rename", "set role", "set claims", "reread", "set active",
                       "set disabled"}
    PROVE  LET p == [q EXCEPT !.at = at] IN
           /\ p \in UpdateWork /\ p \in MemberRequests
           /\ p.at = at /\ p.uid = q.uid /\ p.patch = q.patch /\ q.uid \in Persons
           /\ q.patch.name \in Labels \cup {Kept} /\ q.patch.role \in Roles \cup {Kept}
           /\ q.patch.mode \in Modes \cup {Kept}
BY MemberWork DEF UpdateWork, Patches

LEMMA FaceOn ==
    ASSUME NEW q \in FaceWork,
           NEW at \in {"tell Firebase", "store user", "store profile"}
    PROVE  LET p == [q EXCEPT !.at = at] IN
           /\ p \in FaceWork /\ p \in MemberRequests
           /\ p.at = at /\ p.uid = q.uid /\ p.new = q.new /\ q.uid \in Persons
           /\ q.new.name \in Labels \cup {Kept} /\ q.new.picture \in Labels \cup {Kept}
BY MemberWork DEF FaceWork, Faces

LEMMA DropOn ==
    ASSUME NEW q \in DropWork,
           NEW at \in {"drop identity", "drop profile", "drop user"}
    PROVE  LET p == [q EXCEPT !.at = at] IN
           /\ p \in DropWork /\ p \in MemberRequests
           /\ p.at = at /\ p.uid = q.uid /\ q.uid \in Persons
BY MemberWork DEF DropWork

Real == [there : {TRUE}, mode : Modes, role : Roles, name : Labels, picture : Labels]

LEMMA RecordFacts ==
    /\ Gone \in Records /\ ~Gone.there
    /\ \A d \in Records : d.there => d \in Real
    /\ \A d \in Real :
         /\ d \in Records /\ d.there
         /\ d.mode \in Modes /\ d.role \in Roles /\ d.name \in Labels /\ d.picture \in Labels
         /\ ClaimsOf(d) \in Claims
<1>1. /\ Gone \in Records /\ ~Gone.there
      /\ \A d \in Real : d \in Records /\ d.there
  BY DEF Records, Gone, Real
<1>2. \A d \in Records : d = Gone \/ d \in Real
  BY DEF Records, Real
<1>3. \A d \in Real :
        d.mode \in Modes /\ d.role \in Roles /\ d.name \in Labels /\ d.picture \in Labels
  BY DEF Real
<1>4. \A d \in Real : ClaimsOf(d) \in Claims
  BY <1>3 DEF Claims, ClaimsOf
<1>. QED  BY <1>1, <1>2, <1>3, <1>4

(* What holds of every request goes on holding while identities only go,   *)
(* and appointments and demotions only come.                               *)
LEMMA SeenStays ==
    ASSUME NEW q \in MemberRequests, Seen(q),
           \A u \in Persons : atFire'[u].there => atFire[u].there,
           appointed \subseteq appointed', lowered => lowered'
    PROVE  Seen(q)'
<1>1. q.at \in {"drop profile", "drop user"} => q.uid \in Persons
  BY MemberShapes DEF DropWork
<1>. QED  BY <1>1 DEF Seen

LEMMA IdleSeen == Seen(Idle) /\ Partly(Idle)
<1>1. Idle.at = "idle"
  BY MemberWork
<1>. QED  BY <1>1 DEF Seen, Partly

(* A step of slot r, which goes on to p.                                   *)
LEMMA MemberOn ==
    ASSUME BInv, NEW r \in Requests, NEW p \in MemberRequests, Goes(breq, r, p),
           NEW q, q = breq[r],
           UNCHANGED <<overlap, faults>>, Stocks', Throughout', Seen(p)',
           \A u \in Persons : atFire'[u].there => atFire[u].there,
           appointed \subseteq appointed', lowered => lowered',
           ~overlap => q # Idle \/ AllIdle(breq),
           ~overlap /\ AdminsOnly /\ Led(q) => Led(p)',
           ~overlap /\ ~faults /\ Midway(q) => Midway(p)'
    PROVE  BInv'
<1>1. /\ breq' \in [Requests -> MemberRequests] /\ breq'[r] = p
      /\ \A s \in Requests \ {r} : breq'[s] = breq[s]
  BY MemberTyped DEF Goes
<1>2. TypeOKMembers'
  BY <1>1 DEF TypeOKMembers, Stocks
<1>3. ASSUME NEW s \in Requests PROVE Seen(breq[s])'
  <2>1. CASE s = r
    BY <1>1, <2>1 DEF Seen
  <2>2. CASE s # r
    <3>1. PICK x \in MemberRequests : x = breq[s]
      BY MemberTyped
    <3>2. Seen(x)
      BY <3>1, MemberTyped
    <3>3. Seen(x)'
      BY <3>2, SeenStays
    <3>4. breq'[s] = x
      BY <1>1, <2>2, <3>1
    <3>. QED  BY <3>3, <3>4 DEF Seen
  <2>. QED  BY <2>1, <2>2
<1>4. ASSUME ~overlap
      PROVE  \E x \in {Idle} \cup {breq'[s] : s \in Requests} :
                 Lone(x)' /\ (AdminsOnly => Led(x)') /\ (~faults => Midway(x)')
  <2>1. PICK x : Lone(x) /\ (AdminsOnly => Led(x)) /\ (~faults => Midway(x))
    BY <1>4 DEF BInv
  <2>2. q = x /\ \A s \in Requests \ {r} : breq[s] = Idle
    BY <1>4, <2>1 DEF Lone, AllIdle
  <2>3. (AdminsOnly => Led(p)') /\ (~faults => Midway(p)')
    BY <1>4, <2>1, <2>2
  <2>4. Lone(p)'
    BY <1>1, <2>2 DEF Lone, AllIdle
  <2>5. p \in {Idle} \cup {breq'[s] : s \in Requests}
    BY <1>1
  <2>. QED  BY <2>3, <2>4, <2>5
<1>5. overlap' = overlap /\ faults' = faults
  OBVIOUS
<1>. QED  BY <1>2, <1>3, <1>4, <1>5 DEF BInv

(* A request that starts, and one that changes nothing but itself.         *)
LEMMA MemberStarts ==
    ASSUME BInv, NEW r \in Requests, StartMember(r)
    PROVE  /\ bmoves' \in 0 .. MemberMoves /\ breq[r] = Idle
           /\ ~overlap => breq[r] # Idle \/ AllIdle(breq)
<1>1. bmoves \in 0 .. MemberMoves /\ bmoves < MemberMoves /\ bmoves' = bmoves + 1
  BY MemberTyped DEF StartMember
<1>2. MemberMoves \in Nat
  BY MemberMovesAssumption
<1>3. bmoves' \in 0 .. MemberMoves
  BY <1>1, <1>2
<1>4. MayStart(breq, r)
  BY DEF StartMember
<1>. QED  BY <1>3, <1>4, Zenon DEF MayStart

LEMMA MemberMovesOn ==
    ASSUME BInv, NEW r \in Requests, NEW p \in MemberRequests, Goes(breq, r, p),
           NEW q, q = breq[r],
           UNCHANGED <<overlap, faults, atFire, inUsers, face, tokens, behind, lowered,
                       appointed>>,
           bmoves' \in 0 .. MemberMoves, Seen(p),
           ~overlap => q # Idle \/ AllIdle(breq),
           ~overlap /\ AdminsOnly /\ Led(q) => Led(p),
           ~overlap /\ ~faults /\ Midway(q) => Midway(p)
    PROVE  BInv'
<1>1. /\ overlap' = overlap /\ faults' = faults /\ atFire' = atFire /\ inUsers' = inUsers
      /\ face' = face /\ tokens' = tokens /\ behind' = behind /\ lowered' = lowered
      /\ appointed' = appointed
  OBVIOUS
<1>2. Stocks'
  BY <1>1, MemberTyped DEF Stocks
<1>3. Throughout'
  BY <1>1, MemberTyped DEF Throughout, NoIdentityAlone, Appointments, NoneLowered
<1>4. Seen(p)'
  <2>1. lowered => lowered'
    BY <1>1
  <2>. QED  BY <1>1, <2>1, SeenStays
<1>5. Led(p) => Led(p)'
  <2>1. lowered' <=> lowered
    BY <1>1
  <2>. QED  BY <1>1, <2>1, Zenon DEF Led, Heads
<1>6. Midway(p) => Midway(p)'
  BY <1>1 DEF Midway, Partly, Settled, Told, SameMode, SameClaims, SameFace, EnabledAt
<1>7. ~overlap /\ AdminsOnly /\ Led(q) => Led(p)'
  BY <1>5
<1>8. ~overlap /\ ~faults /\ Midway(q) => Midway(p)'
  BY <1>6
<1>9. lowered => lowered'
  BY <1>1
<1>. QED  BY <1>1, <1>2, <1>3, <1>4, <1>7, <1>8, <1>9, MemberOn

(* What is not touched stays as it was.                                    *)
Rests(v) ==
    /\ inUsers'[v] = inUsers[v] /\ atFire'[v] = atFire[v] /\ face'[v] = face[v]
    /\ v \in behind' <=> v \in behind

LEMMA OneTouched ==
    ASSUME NEW q, NEW p, NEW u \in Persons, Midway(q), q.at = "idle" \/ q.uid = u,
           \A v \in Persons \ {u} : Rests(v),
           p.at = "idle" \/ p.uid = u, Partly(p)', p.at = "idle" => Settled(u)'
    PROVE  Midway(p)'
<1>1. ASSUME NEW v \in Persons, p.at = "idle" \/ v # p.uid PROVE Settled(v)'
  <2>1. CASE v = u
    BY <1>1, <2>1
  <2>2. CASE v # u
    <3>1. Settled(v)
      BY <2>2 DEF Midway
    <3>2. Rests(v)
      BY <2>2
    <3>. QED  BY <3>1, <3>2 DEF Rests, Settled, Told, SameMode, SameClaims, SameFace
  <2>. QED  BY <2>1, <2>2
<1>. QED  BY <1>1 DEF Midway

-----------------------------------------------------------------------------
(* The steps                                                               *)

LEMMA MembersStart == MembersInit => BInv
<1> SUFFICES ASSUME MembersInit PROVE BInv
  OBVIOUS
<1>1. PICK admins \in (SUBSET Persons) \ {{}} :
        atFire = [u \in Persons |->
                     [there |-> TRUE, mode |-> "active", name |-> "first", picture |-> "first",
                      role |-> IF u \in admins THEN "admin" ELSE "viewer"]]
  BY DEF MembersInit
<1>2. \A u \in Persons :
        /\ atFire[u].there /\ atFire[u].mode = "active"
        /\ atFire[u].role = "admin" <=> u \in admins
        /\ atFire[u] \in Real
  BY <1>1 DEF Real, Roles, Labels, Modes
<1>3. /\ inUsers = atFire /\ behind = {} /\ lowered = FALSE /\ bmoves = 0
      /\ appointed = {u \in Persons : atFire[u].role = "admin"}
      /\ face = [u \in Persons |-> "none"]
      /\ tokens = [u \in Persons |-> {ClaimsOf(atFire[u])}]
      /\ breq = [r \in Requests |-> Idle]
  BY DEF MembersInit
<1>4. atFire \in [Persons -> Records]
  BY <1>1, <1>2, RecordFacts
<1>5. TypeOKMembers
  <2>1. bmoves \in 0 .. MemberMoves
    BY <1>3, MemberMovesAssumption
  <2>2. tokens \in [Persons -> SUBSET Claims]
    BY <1>2, <1>3, RecordFacts
  <2>3. breq \in [Requests -> MemberRequests]
    BY <1>3, MemberWork
  <2>. QED  BY <1>3, <1>4, <2>1, <2>2, <2>3 DEF TypeOKMembers
<1>6. Throughout
  <2>1. NoIdentityAlone
    BY <1>3 DEF NoIdentityAlone
  <2>2. \A u \in Persons : \A t \in tokens[u] : t.role = atFire[u].role
    BY <1>3 DEF ClaimsOf
  <2>3. Appointments
    BY <1>2, <1>3, <2>2 DEF Appointments
  <2>4. NoneLowered
    BY <1>2, <1>3, <2>2 DEF NoneLowered
  <2>. QED  BY <2>1, <2>3, <2>4 DEF Throughout
<1>7. Lone(Idle)
  BY <1>3 DEF Lone
<1>8. Led(Idle)
  <2>1. PICK a : a \in admins /\ a \in Persons
    <3>1. admins # {} /\ admins \subseteq Persons
      OBVIOUS
    <3>2. \E a : a \in admins
      BY <3>1
    <3>. QED  BY <3>1, <3>2
  <2>2. Heads(a)
    BY <1>2, <2>1 DEF Heads
  <2>3. \A u \in Persons : Heads(u) => inUsers[u].role = "admin"
    BY <1>3 DEF Heads
  <2>. QED  BY <2>1, <2>2, <2>3, MemberWork DEF Led
<1>9. Midway(Idle)
  <2>1. ASSUME NEW u \in Persons PROVE Settled(u)
    BY <1>3 DEF Settled, Told, SameMode, SameClaims, SameFace
  <2>. QED  BY <2>1, IdleSeen DEF Midway
<1>10. \A r \in Requests : Seen(breq[r])
  BY <1>3, IdleSeen
<1>. QED  BY <1>5, <1>6, <1>7, <1>8, <1>9, <1>10 DEF BInv

(* Steps that change no record.                                            *)
LEMMA SignInKeeps ==
    ASSUME BInv, NEW u \in Persons, SignIn(u)
    PROVE  BInv'
<1>1. /\ overlap' = overlap /\ faults' = faults /\ atFire' = atFire /\ inUsers' = inUsers
      /\ face' = face /\ behind' = behind /\ lowered' = lowered
      /\ appointed' = appointed /\ breq' = breq /\ bmoves' = bmoves
  BY DEF SignIn
<1>2. atFire[u] \in Real
  BY MemberTyped, RecordFacts DEF SignIn, EnabledAt
<1>3. /\ tokens' \in [Persons -> SUBSET Claims]
      /\ tokens'[u] = tokens[u] \cup {ClaimsOf(atFire[u])}
      /\ \A v \in Persons \ {u} : tokens'[v] = tokens[v]
  BY <1>2, MemberTyped, RecordFacts DEF SignIn
<1>4. TypeOKMembers'
  BY <1>1, <1>3, MemberTyped DEF TypeOKMembers
<1>5. ClaimsOf(atFire[u]).role = atFire[u].role /\ atFire[u].there
  BY <1>2, RecordFacts DEF ClaimsOf
<1>6. Throughout'
  <2>1. NoIdentityAlone'
    BY <1>1, MemberTyped DEF NoIdentityAlone
  <2>2. Appointments'
    BY <1>1, <1>3, <1>5, MemberTyped DEF Appointments
  <2>3. NoneLowered'
    BY <1>1, <1>3, <1>5, MemberTyped DEF NoneLowered
  <2>. QED  BY <2>1, <2>2, <2>3 DEF Throughout
<1>7. \A r \in Requests : Seen(breq[r])'
  <2>1. \A r \in Requests : Seen(breq[r])
    BY MemberTyped
  <2>. QED  BY <1>1, <2>1 DEF Seen
<1>8. ASSUME ~overlap
      PROVE  \E q \in {Idle} \cup {breq'[r] : r \in Requests} :
                 Lone(q)' /\ (AdminsOnly => Led(q)') /\ (~faults => Midway(q)')
  <2>1. PICK q \in {Idle} \cup {breq[r] : r \in Requests} :
            Lone(q) /\ (AdminsOnly => Led(q)) /\ (~faults => Midway(q))
    BY <1>8 DEF BInv
  <2>2. Lone(q)'
    BY <1>1, <2>1 DEF Lone, AllIdle
  <2>3. Led(q) => Led(q)'
    BY <1>1 DEF Led, Heads
  <2>4. Midway(q) => Midway(q)'
    BY <1>1 DEF Midway, Partly, Settled, Told, SameMode, SameClaims, SameFace, EnabledAt
  <2>. QED  BY <1>1, <2>1, <2>2, <2>3, <2>4
<1>. QED  BY <1>1, <1>4, <1>6, <1>7, <1>8 DEF BInv

LEMMA RevokeAllKeeps ==
    ASSUME BInv, NEW r \in Requests, NEW u \in Persons, RevokeAll(r, u)
    PROVE  BInv'
<1>1. /\ overlap' = overlap /\ faults' = faults /\ atFire' = atFire /\ inUsers' = inUsers
      /\ face' = face /\ behind' = behind /\ lowered' = lowered
      /\ appointed' = appointed /\ breq' = breq
  BY DEF RevokeAll
<1>2. StartMember(r) /\ tokens' = [tokens EXCEPT ![u] = {}]
  BY DEF RevokeAll
<1>3. bmoves' \in 0 .. MemberMoves /\ breq[r] = Idle
      /\ (~overlap => breq[r] # Idle \/ AllIdle(breq))
  BY <1>2, MemberStarts
<1>4. Goes(breq, r, Idle)
  BY <1>1, <1>3, MemberTyped DEF Goes
<1>5. Stocks'
  BY <1>1, <1>2, <1>3, MemberTyped DEF Stocks
<1>6. \A v \in Persons : tokens'[v] \subseteq tokens[v]
  BY <1>2, MemberTyped
<1>7. Throughout'
  <2>1. NoIdentityAlone'
    BY <1>1, MemberTyped DEF NoIdentityAlone
  <2>2. Appointments'
    BY <1>1, <1>6, MemberTyped DEF Appointments
  <2>3. NoneLowered'
    BY <1>1, <1>6, MemberTyped DEF NoneLowered
  <2>. QED  BY <2>1, <2>2, <2>3 DEF Throughout
<1>8. Seen(Idle)'
  BY MemberWork DEF Seen
<1>9. Led(Idle) => Led(Idle)'
  BY <1>1 DEF Led, Heads
<1>10. Midway(Idle) => Midway(Idle)'
  BY <1>1 DEF Midway, Partly, Settled, Told, SameMode, SameClaims, SameFace, EnabledAt
<1>11. lowered => lowered'
  BY <1>1
<1>. QED  BY <1>1, <1>3, <1>4, <1>5, <1>7, <1>8, <1>9, <1>10, <1>11, MemberWork, MemberOn

LEMMA LoginKeeps ==
    ASSUME BInv, NEW r \in Requests, NEW u \in Persons, NEW t \in tokens[u],
           LoginWithToken(r, u, t)
    PROVE  BInv'
<1> DEFINE p == [at |-> "upsert", uid |-> u, claims |-> t]
<1>1. /\ bmoves' \in 0 .. MemberMoves /\ breq[r] = Idle
      /\ ~overlap => breq[r] # Idle \/ AllIdle(breq)
  BY MemberStarts DEF LoginWithToken
<1>2. Goes(breq, r, p) /\ EnabledAt(u)
      /\ UNCHANGED <<overlap, faults, atFire, inUsers, face, tokens, behind, lowered,
                     appointed>>
  BY DEF LoginWithToken, Shows
<1>3. p \in LoginWork /\ p.at = "upsert" /\ p.uid = u
  BY MemberTyped DEF LoginWork
<1> HIDE DEF p
<1>4. p \in MemberRequests
  BY <1>3, MemberWork
<1>5. Seen(p)
  BY <1>3 DEF Seen
<1>6. Led(Idle) => Led(p)
  BY <1>3 DEF Led
<1>7. Midway(Idle) => Midway(p)
  <2> SUFFICES ASSUME Midway(Idle) PROVE Midway(p)
    OBVIOUS
  <2>1. \A v \in Persons : Settled(v)
    BY MemberWork DEF Midway
  <2>2. Partly(p)
    BY <1>2, <1>3, <2>1 DEF Partly
  <2>. QED  BY <2>1, <2>2 DEF Midway
<1>. QED  BY <1>1, <1>2, <1>4, <1>5, <1>6, <1>7, MemberMovesOn

LEMMA UpdateUserKeeps ==
    ASSUME BInv, NEW r \in Requests, NEW u \in Persons, UpdateUser(r, u)
    PROVE  BInv'
<1>1. /\ bmoves' \in 0 .. MemberMoves /\ breq[r] = Idle
      /\ ~overlap => breq[r] # Idle \/ AllIdle(breq)
  BY MemberStarts DEF UpdateUser
<1>2. PICK f \in Patches :
        /\ Goes(breq, r, [at |-> "rename", uid |-> u, patch |-> f])
        /\ appointed' = IF f.role = "admin" THEN appointed \cup {u} ELSE appointed
  BY DEF UpdateUser
<1> DEFINE p == [at |-> "rename", uid |-> u, patch |-> f]
<1>3. /\ overlap' = overlap /\ faults' = faults /\ atFire' = atFire /\ inUsers' = inUsers
      /\ face' = face /\ behind' = behind /\ lowered' = lowered /\ tokens' = tokens
  BY DEF UpdateUser
<1>4. p \in UpdateWork /\ p.at = "rename" /\ p.uid = u /\ p.patch = f
  BY DEF UpdateWork
<1>5. Goes(breq, r, p)
  BY <1>2
<1> HIDE DEF p
<1>6. p \in MemberRequests
  BY <1>4, MemberWork
<1>7. /\ appointed \subseteq appointed' /\ appointed' \subseteq Persons
      /\ f.role = "admin" => u \in appointed'
  BY <1>2, MemberTyped
<1>8. Stocks'
  BY <1>1, <1>3, <1>7, MemberTyped DEF Stocks
<1>9. Throughout'
  <2>1. NoIdentityAlone'
    BY <1>3, MemberTyped DEF NoIdentityAlone
  <2>2. Appointments'
    BY <1>3, <1>7, MemberTyped DEF Appointments
  <2>3. NoneLowered'
    BY <1>3, MemberTyped DEF NoneLowered
  <2>. QED  BY <2>1, <2>2, <2>3 DEF Throughout
<1>10. Seen(p)'
  BY <1>4, <1>7 DEF Seen
<1>11. Led(Idle) => Led(p)'
  BY <1>3, <1>4 DEF Led, Heads
<1>12. ASSUME Midway(Idle) PROVE Midway(p)'
  <2>1. \A v \in Persons : Settled(v)
    BY <1>12, MemberWork DEF Midway
  <2>2. \A v \in Persons : Settled(v)'
    BY <1>3, <2>1 DEF Settled, Told, SameMode, SameClaims, SameFace
  <2>3. Partly(p)'
    BY <1>4, <2>2 DEF Partly
  <2>. QED  BY <2>2, <2>3 DEF Midway
<1>13. lowered => lowered'
  BY <1>3
<1>. QED  BY <1>1, <1>3, <1>5, <1>6, <1>7, <1>8, <1>9, <1>10, <1>11, <1>12, <1>13, MemberOn

LEMMA OpenProfileKeeps ==
    ASSUME BInv, NEW r \in Requests, NEW u \in Persons, NEW new \in Faces,
           OpenProfile(r, u, new)
    PROVE  BInv'
<1> DEFINE p == [at |-> "tell Firebase", uid |-> u, new |-> new]
<1>1. /\ bmoves' \in 0 .. MemberMoves /\ breq[r] = Idle
      /\ ~overlap => breq[r] # Idle \/ AllIdle(breq)
  BY MemberStarts DEF OpenProfile
<1>2. Goes(breq, r, p) /\ inUsers[u].there
      /\ UNCHANGED <<overlap, faults, atFire, inUsers, face, tokens, behind, lowered,
                     appointed>>
  BY DEF OpenProfile
<1>3. p \in FaceWork /\ p.at = "tell Firebase" /\ p.uid = u
  BY DEF FaceWork
<1> HIDE DEF p
<1>4. p \in MemberRequests
  BY <1>3, MemberWork
<1>5. Seen(p)
  BY <1>3 DEF Seen
<1>6. Led(Idle) => Led(p)
  BY <1>3 DEF Led
<1>7. Midway(Idle) => Midway(p)
  <2> SUFFICES ASSUME Midway(Idle) PROVE Midway(p)
    OBVIOUS
  <2>1. \A v \in Persons : Settled(v)
    BY MemberWork DEF Midway
  <2>2. Partly(p)
    BY <1>2, <1>3, <2>1 DEF Partly
  <2>. QED  BY <2>1, <2>2 DEF Midway
<1>. QED  BY <1>1, <1>2, <1>4, <1>5, <1>6, <1>7, MemberMovesOn

LEMMA AskDeletionKeeps ==
    ASSUME BInv, NEW r \in Requests, NEW u \in Persons, AskDeletion(r, u)
    PROVE  BInv'
<1> DEFINE p == [at |-> "drop identity", uid |-> u]
<1>1. /\ bmoves' \in 0 .. MemberMoves /\ breq[r] = Idle
      /\ ~overlap => breq[r] # Idle \/ AllIdle(breq)
  BY MemberStarts DEF AskDeletion
<1>2. Goes(breq, r, p)
      /\ UNCHANGED <<overlap, faults, atFire, inUsers, face, tokens, behind, lowered,
                     appointed>>
  BY DEF AskDeletion
<1>3. p \in DropWork /\ p.at = "drop identity" /\ p.uid = u
  BY DEF DropWork
<1> HIDE DEF p
<1>4. p \in MemberRequests
  BY <1>3, MemberWork
<1>5. Seen(p)
  BY <1>3 DEF Seen
<1>6. AdminsOnly /\ Led(Idle) => Led(p)
  <2> SUFFICES ASSUME AdminsOnly, Led(Idle), ~lowered PROVE Led(p)
    BY DEF Led
  <2>1. PICK a \in Persons \ {u} : Opens(a, DeleteUserGate)
    BY DEF AskDeletion
  <2>2. DeleteUserGate = "admin"
    BY DEF AdminsOnly
  <2>3. \E t \in tokens[a] : t.role = "admin" /\ EnabledAt(a)
    BY <2>1, <2>2 DEF Opens, LetIn, Shows
  <2>4. Heads(a)
    BY <2>3, MemberTyped DEF NoneLowered, Heads, EnabledAt
  <2>. QED  BY <1>3, <2>1, <2>4 DEF Led
<1>7. Midway(Idle) => Midway(p)
  <2> SUFFICES ASSUME Midway(Idle) PROVE Midway(p)
    OBVIOUS
  <2>1. \A v \in Persons : Settled(v)
    BY MemberWork DEF Midway
  <2>2. Partly(p)
    BY <1>2, <1>3, <2>1 DEF Partly
  <2>. QED  BY <2>1, <2>2 DEF Midway
<1>. QED  BY <1>1, <1>2, <1>4, <1>5, <1>6, <1>7, MemberMovesOn

LEMMA MemberRaisesKeeps ==
    ASSUME BInv, NEW r \in Requests, MemberRaises(r)
    PROVE  BInv'
<1>1. faults /\ breq[r] # Idle /\ Goes(breq, r, Idle)
  BY DEF MemberRaises, Raises, Ends
<1>2. UNCHANGED <<overlap, faults, atFire, inUsers, face, tokens, behind, lowered,
                  appointed>> /\ bmoves' \in 0 .. MemberMoves
  BY MemberTyped DEF MemberRaises, bkept
<1>3. Led(breq[r]) => Led(Idle)
  BY MemberWork DEF Led
<1>. QED  BY <1>1, <1>2, <1>3, MemberWork, IdleSeen, MemberMovesOn

(* Steps of login.                                                         *)
LEMMA StoreClaimsKeeps ==
    ASSUME BInv, NEW r \in Requests, StoreClaims(r)
    PROVE  BInv'
<1>1. PICK q : q = breq[r]
  OBVIOUS
<1>2. q.at = "upsert" /\ q \in LoginWork /\ q # Idle
  BY <1>1, MemberTyped, MemberShapes, MemberWork DEF StoreClaims
<1>3. PICK u \in Persons : u = q.uid
  BY <1>2 DEF LoginWork
<1>4. PICK d : d = [there |-> TRUE,
                    mode |-> IF inUsers[u].there THEN inUsers[u].mode ELSE "active",
                    role |-> q.claims.role, name |-> q.claims.name,
                    picture |-> q.claims.picture]
  OBVIOUS
<1>5. /\ q.claims \in Claims
      /\ d \in Real /\ d.there /\ ClaimsOf(d) = q.claims /\ d.role = q.claims.role
      /\ d.mode = IF inUsers[u].there THEN inUsers[u].mode ELSE "active"
  <2>1. q.claims \in Claims
    BY <1>2 DEF LoginWork
  <2>2. (IF inUsers[u].there THEN inUsers[u].mode ELSE "active") \in Modes
    BY MemberTyped, RecordFacts DEF Modes
  <2>3. /\ q.claims.role \in Roles /\ q.claims.name \in Labels /\ q.claims.picture \in Labels
        /\ q.claims = [role |-> q.claims.role, name |-> q.claims.name,
                       picture |-> q.claims.picture]
    BY <2>1 DEF Claims
  <2>. QED  BY <1>4, <2>1, <2>2, <2>3 DEF Real, ClaimsOf
<1>6. /\ inUsers' = [inUsers EXCEPT ![u] = d]
      /\ behind' = IF atFire[u].there /\ q.claims = ClaimsOf(atFire[u])
                     THEN behind \ {u} ELSE behind \cup {u}
      /\ Goes(breq, r, Idle)
  BY <1>1, <1>3, <1>4 DEF StoreClaims, Ends
<1>7. /\ overlap' = overlap /\ faults' = faults /\ atFire' = atFire
      /\ face' = face /\ lowered' = lowered /\ tokens' = tokens
      /\ appointed' = appointed /\ bmoves' = bmoves
  BY DEF StoreClaims, bkept
<1>8. /\ inUsers' \in [Persons -> Records] /\ inUsers'[u] = d
      /\ \A v \in Persons \ {u} : inUsers'[v] = inUsers[v] /\ (v \in behind' <=> v \in behind)
      /\ behind' \subseteq Persons
      /\ u \notin behind' => q.claims = ClaimsOf(atFire[u])
  BY <1>5, <1>6, MemberTyped, RecordFacts
<1>9. Stocks'
  BY <1>7, <1>8, MemberTyped DEF Stocks
<1>10. Throughout'
  <2>1. NoIdentityAlone'
    BY <1>5, <1>7, <1>8, MemberTyped DEF NoIdentityAlone
  <2>2. Appointments'
    BY <1>7, MemberTyped DEF Appointments
  <2>3. NoneLowered'
    BY <1>5, <1>7, <1>8, MemberTyped DEF NoneLowered
  <2>. QED  BY <2>1, <2>2, <2>3 DEF Throughout
<1>11. Seen(Idle)'
  BY MemberWork DEF Seen
<1>12. ASSUME Led(q) PROVE Led(Idle)'
  <2>1. \A v \in Persons : Heads(v)' <=> Heads(v)
    BY <1>7 DEF Heads
  <2>2. ClaimsOf(atFire[u]).role = atFire[u].role
    BY DEF ClaimsOf
  <2>3. ASSUME ~lowered, NEW v \in Persons, Heads(v), v \notin behind'
        PROVE  inUsers'[v].role = "admin"
    <3>1. CASE v = u
      BY <1>5, <1>8, <2>2, <2>3, <3>1 DEF Heads
    <3>2. CASE v # u
      BY <1>8, <1>12, <2>3, <3>2 DEF Led
    <3>. QED  BY <3>1, <3>2
  <2>4. ~lowered => \E a \in Persons : Heads(a)
    BY <1>12 DEF Led
  <2>. QED  BY <1>7, <2>1, <2>3, <2>4, MemberWork DEF Led
<1>13. ASSUME Midway(q) PROVE Midway(Idle)'
  <2>1. Settled(u) /\ EnabledAt(u)
    BY <1>2, <1>3, <1>13 DEF Midway, Partly
  <2>2. inUsers[u].there
    BY <2>1, MemberTyped DEF EnabledAt, NoIdentityAlone
  <2>3. Settled(u)'
    <3>1. Told(u)' /\ SameMode(u)' /\ SameFace(u)'
      BY <1>5, <1>7, <1>8, <2>1, <2>2 DEF Settled, Told, SameMode, SameFace, EnabledAt
    <3>2. SameClaims(u)'
      BY <1>5, <1>7, <1>8 DEF SameClaims
    <3>. QED  BY <3>1, <3>2 DEF Settled
  <2>4. \A v \in Persons \ {u} : Rests(v)
    BY <1>7, <1>8 DEF Rests
  <2>5. Partly(Idle)'
    BY MemberWork DEF Partly
  <2>. QED  BY <1>3, <1>13, <2>3, <2>4, <2>5, MemberWork, OneTouched
<1>14. \A v \in Persons : atFire'[v].there => atFire[v].there
  BY <1>7
<1>15. appointed \subseteq appointed' /\ (lowered => lowered')
  BY <1>7
<1>16. overlap' = overlap /\ faults' = faults
  BY <1>7
<1>. QED  BY <1>1, <1>2, <1>6, <1>9, <1>10, <1>11, <1>12, <1>13, <1>14, <1>15, <1>16,
             MemberWork, MemberOn

(* Steps of update_user.                                                   *)
LEMMA RenameKeeps ==
    ASSUME BInv, NEW r \in Requests, Rename(r)
    PROVE  BInv'
<1>1. PICK q : q = breq[r]
  OBVIOUS
<1>2. q.at = "rename" /\ q \in UpdateWork /\ q # Idle
  BY <1>1, MemberTyped, MemberShapes, MemberWork DEF Rename
<1>3. PICK u \in Persons : u = q.uid
  BY <1>2 DEF UpdateWork
<1>4. PICK p : p = [q EXCEPT !.at = "set role"]
  OBVIOUS
<1>5. /\ p \in MemberRequests /\ p.at = "set role" /\ p.uid = u /\ p.patch = q.patch
      /\ q.patch.name \in Labels \cup {Kept} /\ q.patch.role \in Roles \cup {Kept}
  BY <1>2, <1>3, <1>4, UpdateOn
<1>6. /\ overlap' = overlap /\ faults' = faults /\ atFire' = atFire
      /\ face' = face /\ lowered' = lowered /\ tokens' = tokens
      /\ appointed' = appointed /\ bmoves' \in 0 .. MemberMoves
  BY MemberTyped DEF Rename, bkept
<1>7. Seen(p)
  <2>1. Seen(q)
    BY <1>1, MemberTyped
  <2>. QED  BY <1>2, <1>3, <1>5, <2>1 DEF Seen
<1>8. Led(q) => Led(p) /\ Led(Idle)
  BY <1>2, <1>5, MemberWork DEF Led
<1>9. ASSUME Midway(q) PROVE Midway(p) /\ Midway(Idle)
  <2>1. \A v \in Persons : Settled(v)
    BY <1>2, <1>3, <1>9, MemberShapes DEF Midway, Partly
  <2>2. Partly(p) /\ Partly(Idle)
    BY <1>3, <1>5, <2>1, IdleSeen DEF Partly
  <2>. QED  BY <2>1, <2>2 DEF Midway
<1>10. CASE inUsers' = inUsers /\ behind' = behind /\ Goes(breq, r, p)
  BY <1>1, <1>2, <1>5, <1>6, <1>7, <1>8, <1>9, <1>10, MemberMovesOn
<1>11. CASE inUsers' = inUsers /\ behind' = behind /\ Goes(breq, r, Idle)
  BY <1>1, <1>2, <1>6, <1>8, <1>9, <1>11, MemberWork, IdleSeen, MemberMovesOn
<1>12. CASE /\ q.patch.name # Kept /\ inUsers[u].there
            /\ inUsers' = [inUsers EXCEPT ![u].name = q.patch.name]
            /\ behind' = behind \cup {u}
            /\ Goes(breq, r, p)
  <2>1. PICK d : d = [inUsers[u] EXCEPT !.name = q.patch.name]
    OBVIOUS
  <2>2. inUsers[u] \in Real
    BY <1>12, MemberTyped, RecordFacts
  <2>3. /\ d \in Real /\ d.there /\ d.mode = inUsers[u].mode /\ d.role = inUsers[u].role
    BY <1>5, <1>12, <2>1, <2>2 DEF Real
  <2>4. /\ inUsers' \in [Persons -> Records] /\ inUsers'[u] = d
        /\ \A v \in Persons \ {u} : inUsers'[v] = inUsers[v] /\ (v \in behind' <=> v \in behind)
        /\ behind' \subseteq Persons /\ u \in behind' /\ behind \subseteq behind'
    BY <1>12, <2>1, <2>3, MemberTyped, RecordFacts
  <2>5. Stocks'
    BY <1>6, <2>4, MemberTyped DEF Stocks
  <2>6. Throughout'
    <3>1. NoIdentityAlone'
      BY <1>6, <2>3, <2>4, MemberTyped DEF NoIdentityAlone
    <3>2. Appointments'
      BY <1>6, MemberTyped DEF Appointments
    <3>3. NoneLowered'
      BY <1>6, <1>12, <2>3, <2>4, MemberTyped DEF NoneLowered
    <3>. QED  BY <3>1, <3>2, <3>3 DEF Throughout
  <2>7. Seen(p)'
    BY <1>6, <1>7 DEF Seen
  <2>8. Led(q) => Led(p)'
    <3> SUFFICES ASSUME Led(q), ~lowered PROVE Led(p)'
      BY <1>6 DEF Led
    <3>1. \A v \in Persons : Heads(v)' <=> Heads(v)
      BY <1>6 DEF Heads
    <3>2. \E a \in Persons : Heads(a)
      BY DEF Led
    <3>3. \A v \in Persons : Heads(v) /\ v \notin behind => inUsers[v].role = "admin"
      BY DEF Led
    <3>4. \A v \in Persons : Heads(v)' /\ v \notin behind' => inUsers'[v].role = "admin"
      BY <2>3, <2>4, <3>1, <3>3
    <3>. QED  BY <1>5, <3>1, <3>2, <3>4 DEF Led
  <2>9. ASSUME Midway(q) PROVE Midway(p)'
    <3>1. Settled(u)
      BY <1>2, <1>3, <2>9 DEF Midway, Partly
    <3>2. Settled(u)'
      BY <1>6, <1>12, <2>3, <2>4, <3>1 DEF Settled, Told, SameMode, SameClaims, SameFace
    <3>3. Partly(p)'
      BY <1>5, <3>2 DEF Partly
    <3>4. \A v \in Persons \ {u} : Rests(v)
      BY <1>6, <2>4 DEF Rests
    <3>. QED  BY <1>3, <1>5, <2>9, <3>2, <3>3, <3>4, OneTouched
  <2>10. \A v \in Persons : atFire'[v].there => atFire[v].there
    BY <1>6
  <2>11. appointed \subseteq appointed' /\ (lowered => lowered')
    BY <1>6
  <2>. QED  BY <1>1, <1>2, <1>5, <1>6, <1>12, <2>5, <2>6, <2>7, <2>8, <2>9, <2>10, <2>11,
               MemberOn
<1>. QED  BY <1>1, <1>3, <1>4, <1>10, <1>11, <1>12 DEF Rename, MemberGoes, Ends

LEMMA SetRoleKeeps ==
    ASSUME BInv, NEW r \in Requests, SetRole(r)
    PROVE  BInv'
<1>1. PICK q : q = breq[r]
  OBVIOUS
<1>2. q.at = "set role" /\ q \in UpdateWork /\ q # Idle
  BY <1>1, MemberTyped, MemberShapes, MemberWork DEF SetRole
<1>3. PICK u \in Persons : u = q.uid
  BY <1>2 DEF UpdateWork
<1>4. /\ overlap' = overlap /\ faults' = faults /\ atFire' = atFire
      /\ face' = face /\ behind' = behind /\ tokens' = tokens
      /\ appointed' = appointed /\ bmoves' \in 0 .. MemberMoves
  BY MemberTyped DEF SetRole
<1>5. Seen(q)
  BY <1>1, MemberTyped
<1>6. CASE q.patch.role = Kept
  <2>1. PICK p : p = [q EXCEPT !.at = "set active"]
    OBVIOUS
  <2>2. /\ p \in MemberRequests /\ p.at = "set active" /\ p.uid = u /\ p.patch = q.patch
    BY <1>2, <1>3, <2>1, UpdateOn
  <2>3. Goes(breq, r, p) /\ inUsers' = inUsers /\ lowered' = lowered
    BY <1>1, <1>6, <2>1 DEF SetRole, MemberGoes
  <2>4. Seen(p)
    BY <2>2 DEF Seen
  <2>5. Led(q) => Led(p)
    BY <1>2, <2>2 DEF Led
  <2>6. ASSUME Midway(q) PROVE Midway(p)
    <3>1. \A v \in Persons : Settled(v)
      BY <1>2, <1>3, <2>6 DEF Midway, Partly
    <3>2. Partly(p)
      BY <2>2, <3>1 DEF Partly
    <3>. QED  BY <3>1, <3>2 DEF Midway
  <2>. QED  BY <1>1, <1>2, <1>4, <2>2, <2>3, <2>4, <2>5, <2>6, MemberMovesOn
<1>7. CASE q.patch.role # Kept
  <2>1. PICK p : p = [q EXCEPT !.at = "set claims"]
    OBVIOUS
  <2>2. /\ p \in MemberRequests /\ p.at = "set claims" /\ p.uid = u /\ p.patch = q.patch
        /\ q.patch.role \in Roles
    BY <1>2, <1>3, <1>7, <2>1, UpdateOn
  <2>3. PICK d : d = IF inUsers[u].there THEN [inUsers[u] EXCEPT !.role = q.patch.role]
                     ELSE inUsers[u]
    OBVIOUS
  <2>4. Goes(breq, r, p) /\ lowered' = (lowered \/ q.patch.role # "admin")
    BY <1>1, <1>7, <2>1 DEF SetRole, MemberGoes
  <2>5. inUsers' = IF inUsers[u].there
                      THEN [inUsers EXCEPT ![u].role = q.patch.role] ELSE inUsers
    BY <1>1, <1>3, <1>7 DEF SetRole
  <2>6. /\ inUsers'[u] = d /\ \A v \in Persons \ {u} : inUsers'[v] = inUsers[v]
    BY <2>3, <2>5, MemberTyped
  <2>7. ASSUME inUsers[u].there
        PROVE  /\ d \in Real /\ d.there /\ d.mode = inUsers[u].mode /\ d.role = q.patch.role
               /\ ClaimsOf(d) = [ClaimsOf(inUsers[u]) EXCEPT !.role = q.patch.role]
    <3>1. inUsers[u] \in Real
      BY <2>7, MemberTyped, RecordFacts
    <3>2. d = [inUsers[u] EXCEPT !.role = q.patch.role]
      BY <2>3, <2>7
    <3>3. /\ d \in Real /\ d.there /\ d.mode = inUsers[u].mode /\ d.role = q.patch.role
          /\ d.name = inUsers[u].name /\ d.picture = inUsers[u].picture
      BY <2>2, <3>1, <3>2 DEF Real
    <3>4. ClaimsOf(d) = [ClaimsOf(inUsers[u]) EXCEPT !.role = q.patch.role]
      BY <3>3 DEF ClaimsOf
    <3>. QED  BY <3>3, <3>4
  <2>8. ~inUsers[u].there => d = inUsers[u]
    BY <2>3
  <2>9. inUsers' \in [Persons -> Records]
    <3>1. d \in Records
      BY <2>7, <2>8, MemberTyped, RecordFacts
    <3>2. inUsers' = [inUsers EXCEPT ![u] = d]
      BY <2>3, <2>5, MemberTyped
    <3>. QED  BY <3>1, <3>2, MemberTyped
  <2>10. Stocks'
    BY <1>4, <2>4, <2>9, MemberTyped DEF Stocks
  <2>11. Throughout'
    <3>1. NoIdentityAlone'
      BY <1>4, <2>6, <2>7, <2>8, MemberTyped DEF NoIdentityAlone
    <3>2. Appointments'
      BY <1>4, MemberTyped DEF Appointments
    <3>3. NoneLowered'
      BY <1>4, <2>4, <2>6, <2>7, <2>8, MemberTyped DEF NoneLowered
    <3>. QED  BY <3>1, <3>2, <3>3 DEF Throughout
  <2>12. Seen(p)'
    BY <1>2, <1>3, <1>4, <1>5, <2>2, <2>4 DEF Seen
  <2>13. ASSUME Led(q) PROVE Led(p)'
    <3>1. \A v \in Persons : Heads(v)' <=> Heads(v)
      BY <1>4 DEF Heads
    <3>2. ASSUME ~lowered', NEW v \in Persons, Heads(v), v \notin behind
          PROVE  inUsers'[v].role = "admin"
      BY <2>4, <2>6, <2>7, <2>8, <2>13, <3>2 DEF Led
    <3>3. ~lowered' => \E a \in Persons : Heads(a)
      BY <2>4, <2>13 DEF Led
    <3>4. ~lowered' /\ inUsers'[u].there => inUsers'[u].role = "admin"
      BY <2>4, <2>6, <2>7, <2>8
    <3>. QED  BY <1>4, <2>2, <3>1, <3>2, <3>3, <3>4 DEF Led
  <2>14. ASSUME Midway(q) PROVE Midway(p)'
    <3>1. Settled(u)
      BY <1>2, <1>3, <2>14 DEF Midway, Partly
    <3>2. Told(u)' /\ SameMode(u)' /\ SameFace(u)'
      BY <1>4, <2>6, <2>7, <2>8, <3>1 DEF Settled, Told, SameMode, SameFace
    <3>3. inUsers'[u].there /\ u \notin behind' =>
            ClaimsOf(inUsers'[u]) = [ClaimsOf(atFire'[u]) EXCEPT !.role = p.patch.role]
      BY <1>4, <2>2, <2>6, <2>7, <2>8, <3>1 DEF Settled, SameClaims
    <3>4. Partly(p)'
      BY <2>2, <3>2, <3>3 DEF Partly
    <3>5. \A v \in Persons \ {u} : Rests(v)
      BY <1>4, <2>6 DEF Rests
    <3>. QED  BY <1>3, <2>2, <2>14, <3>4, <3>5, OneTouched
  <2>15. \A v \in Persons : atFire'[v].there => atFire[v].there
    BY <1>4
  <2>16. appointed \subseteq appointed' /\ (lowered => lowered')
    BY <1>4, <2>4
  <2>. QED  BY <1>1, <1>2, <1>4, <2>2, <2>4, <2>10, <2>11, <2>12, <2>13, <2>14, <2>15,
               <2>16, MemberOn
<1>. QED  BY <1>6, <1>7

LEMMA SetClaimsKeeps ==
    ASSUME BInv, NEW r \in Requests, SetClaims(r)
    PROVE  BInv'
<1>1. PICK q : q = breq[r]
  OBVIOUS
<1>2. q.at = "set claims" /\ q \in UpdateWork /\ q # Idle
  BY <1>1, MemberTyped, MemberShapes, MemberWork DEF SetClaims
<1>3. PICK u \in Persons : u = q.uid
  BY <1>2 DEF UpdateWork
<1>4. /\ overlap' = overlap /\ faults' = faults /\ inUsers' = inUsers /\ lowered' = lowered
      /\ face' = face /\ behind' = behind /\ tokens' = tokens
      /\ appointed' = appointed /\ bmoves' \in 0 .. MemberMoves
  BY MemberTyped DEF SetClaims, bkept
<1>5. /\ q.patch.role = "admin" => u \in appointed
      /\ q.patch.role \in Roles /\ (q.patch.role = "viewer" => lowered)
  <2>1. Seen(q)
    BY <1>1, MemberTyped
  <2>. QED  BY <1>2, <1>3, <2>1 DEF Seen
<1>6. ~lowered => q.patch.role = "admin"
  BY <1>5 DEF Roles
<1>7. CASE ~atFire[u].there
  <2>1. Goes(breq, r, Idle) /\ atFire' = atFire
    BY <1>1, <1>3, <1>7 DEF SetClaims, Ends
  <2>2. Led(q) => Led(Idle)
    BY <1>2, MemberWork DEF Led
  <2>3. ASSUME Midway(q) PROVE Midway(Idle)
    <3>1. Told(u)
      BY <1>2, <1>3, <2>3 DEF Midway, Partly
    <3>2. Settled(u)
      BY <1>7, <3>1 DEF Settled, Told, SameMode, SameClaims, SameFace
    <3>3. \A v \in Persons : Settled(v)
      BY <1>2, <1>3, <2>3, <3>2 DEF Midway
    <3>. QED  BY <3>3, IdleSeen DEF Midway
  <2>. QED  BY <1>1, <1>2, <1>4, <2>1, <2>2, <2>3, MemberWork, IdleSeen, MemberMovesOn
<1>8. CASE atFire[u].there
  <2>1. PICK p : p = [q EXCEPT !.at = "reread"]
    OBVIOUS
  <2>2. p \in MemberRequests /\ p.at = "reread" /\ p.uid = u
    BY <1>2, <1>3, <2>1, UpdateOn
  <2>3. PICK d : d = [atFire[u] EXCEPT !.role = q.patch.role]
    OBVIOUS
  <2>4. Goes(breq, r, p) /\ atFire' = [atFire EXCEPT ![u] = d]
    BY <1>1, <1>3, <1>8, <2>1, <2>3 DEF SetClaims, MemberGoes
  <2>5. atFire[u] \in Real
    BY <1>8, MemberTyped, RecordFacts
  <2>6. /\ d \in Real /\ d.there /\ d.mode = atFire[u].mode /\ d.role = q.patch.role
        /\ d.name = atFire[u].name /\ d.picture = atFire[u].picture
    BY <1>5, <1>8, <2>3, <2>5 DEF Real
  <2>7. ClaimsOf(d) = [ClaimsOf(atFire[u]) EXCEPT !.role = q.patch.role]
    BY <2>6 DEF ClaimsOf
  <2>8. /\ atFire' \in [Persons -> Records] /\ atFire'[u] = d
        /\ \A v \in Persons \ {u} : atFire'[v] = atFire[v]
    BY <2>4, <2>6, MemberTyped, RecordFacts
  <2>9. Stocks'
    BY <1>4, <2>8, MemberTyped DEF Stocks
  <2>10. Throughout'
    <3>1. NoIdentityAlone'
      BY <1>4, <1>8, <2>8, MemberTyped DEF NoIdentityAlone
    <3>2. Appointments'
      BY <1>4, <1>5, <2>6, <2>8, MemberTyped DEF Appointments
    <3>3. NoneLowered'
      BY <1>4, <1>6, <1>8, <2>6, <2>8, MemberTyped DEF NoneLowered
    <3>. QED  BY <3>1, <3>2, <3>3 DEF Throughout
  <2>11. Seen(p)'
    BY <2>2 DEF Seen
  <2>12. ASSUME Led(q) PROVE Led(p)'
    <3>1. ASSUME ~lowered, NEW v \in Persons, Heads(v) PROVE Heads(v)'
      BY <1>6, <2>6, <2>8, <3>1 DEF Heads
    <3>2. ASSUME ~lowered, NEW v \in Persons, Heads(v)', v \notin behind
          PROVE  inUsers[v].role = "admin"
      <4>1. CASE v = u
        <5>1. inUsers[u].there
          BY <1>8, MemberTyped DEF NoIdentityAlone
        <5>. QED  BY <1>2, <1>3, <1>6, <2>12, <3>2, <4>1, <5>1 DEF Led
      <4>2. CASE v # u
        BY <2>8, <2>12, <3>2, <4>2 DEF Led, Heads
      <4>. QED  BY <4>1, <4>2
    <3>3. ~lowered => \E a \in Persons : Heads(a)
      BY <2>12 DEF Led
    <3>. QED  BY <1>4, <2>2, <3>1, <3>2, <3>3 DEF Led
  <2>13. ASSUME Midway(q) PROVE Midway(p)'
    <3>1. /\ Told(u) /\ SameMode(u) /\ SameFace(u)
          /\ inUsers[u].there /\ u \notin behind =>
               ClaimsOf(inUsers[u]) = [ClaimsOf(atFire[u]) EXCEPT !.role = q.patch.role]
      BY <1>2, <1>3, <2>13 DEF Midway, Partly
    <3>2. Told(u)' /\ SameMode(u)' /\ SameFace(u)'
      BY <1>4, <1>8, <2>6, <2>8, <3>1 DEF Told, SameMode, SameFace
    <3>3. SameClaims(u)'
      BY <1>4, <2>7, <2>8, <3>1 DEF SameClaims
    <3>4. Partly(p)'
      BY <2>2, <3>2, <3>3 DEF Partly, Settled
    <3>5. \A v \in Persons \ {u} : Rests(v)
      BY <1>4, <2>8 DEF Rests
    <3>. QED  BY <1>3, <2>2, <2>13, <3>4, <3>5, OneTouched
  <2>14. \A v \in Persons : atFire'[v].there => atFire[v].there
    BY <1>8, <2>8
  <2>15. appointed \subseteq appointed' /\ (lowered => lowered')
    BY <1>4
  <2>. QED  BY <1>1, <1>2, <1>4, <2>2, <2>4, <2>9, <2>10, <2>11, <2>12, <2>13, <2>14,
               <2>15, MemberOn
<1>. QED  BY <1>7, <1>8

LEMMA RereadKeeps ==
    ASSUME BInv, NEW r \in Requests, Reread(r)
    PROVE  BInv'
<1>1. PICK q : q = breq[r]
  OBVIOUS
<1>2. q.at = "reread" /\ q \in UpdateWork /\ q # Idle
  BY <1>1, MemberTyped, MemberShapes, MemberWork DEF Reread
<1>3. PICK u \in Persons : u = q.uid
  BY <1>2 DEF UpdateWork
<1>4. PICK p : p = [q EXCEPT !.at = "set active"]
  OBVIOUS
<1>5. p \in MemberRequests /\ p.at = "set active" /\ p.uid = u
  BY <1>2, <1>3, <1>4, UpdateOn
<1>6. UNCHANGED <<overlap, faults, atFire, inUsers, face, tokens, behind, lowered,
                  appointed>> /\ bmoves' \in 0 .. MemberMoves
  BY MemberTyped DEF Reread, bkept
<1>7. Goes(breq, r, p) \/ Goes(breq, r, Idle)
  BY <1>1, <1>4 DEF Reread, MemberGoes, Ends
<1>8. Seen(p)
  BY <1>5 DEF Seen
<1>9. Led(q) => Led(p) /\ Led(Idle)
  BY <1>2, <1>5, MemberWork DEF Led
<1>10. ASSUME Midway(q) PROVE Midway(p) /\ Midway(Idle)
  <2>1. \A v \in Persons : Settled(v)
    BY <1>2, <1>3, <1>10 DEF Midway, Partly
  <2>2. Partly(p) /\ Partly(Idle)
    BY <1>5, <2>1, IdleSeen DEF Partly
  <2>. QED  BY <2>1, <2>2 DEF Midway
<1>11. CASE Goes(breq, r, p)
  BY <1>1, <1>2, <1>5, <1>6, <1>8, <1>9, <1>10, <1>11, MemberMovesOn
<1>12. CASE Goes(breq, r, Idle)
  BY <1>1, <1>2, <1>6, <1>9, <1>10, <1>12, MemberWork, IdleSeen, MemberMovesOn
<1>. QED  BY <1>7, <1>11, <1>12

LEMMA SetActiveKeeps ==
    ASSUME BInv, NEW r \in Requests, SetActive(r)
    PROVE  BInv'
<1>1. PICK q : q = breq[r]
  OBVIOUS
<1>2. q.at = "set active" /\ q \in UpdateWork /\ q # Idle
  BY <1>1, MemberTyped, MemberShapes, MemberWork DEF SetActive
<1>3. PICK u \in Persons : u = q.uid
  BY <1>2 DEF UpdateWork
<1>4. /\ overlap' = overlap /\ faults' = faults /\ atFire' = atFire
      /\ face' = face /\ behind' = behind /\ tokens' = tokens
      /\ appointed' = appointed /\ bmoves' \in 0 .. MemberMoves
  BY MemberTyped DEF SetActive
<1>5. CASE q.patch.mode = Kept
  <2>1. Goes(breq, r, Idle) /\ inUsers' = inUsers /\ lowered' = lowered
    BY <1>1, <1>5 DEF SetActive, Ends
  <2>2. Led(q) => Led(Idle)
    BY <1>2, MemberWork DEF Led
  <2>3. ASSUME Midway(q) PROVE Midway(Idle)
    <3>1. \A v \in Persons : Settled(v)
      BY <1>2, <1>3, <2>3 DEF Midway, Partly
    <3>. QED  BY <3>1, IdleSeen DEF Midway
  <2>. QED  BY <1>1, <1>2, <1>4, <2>1, <2>2, <2>3, MemberWork, IdleSeen, MemberMovesOn
<1>6. CASE q.patch.mode # Kept
  <2>1. PICK p : p = [q EXCEPT !.at = "set disabled"]
    OBVIOUS
  <2>2. /\ p \in MemberRequests /\ p.at = "set disabled" /\ p.uid = u /\ p.patch = q.patch
        /\ q.patch.mode \in Modes
    BY <1>2, <1>3, <1>6, <2>1, UpdateOn
  <2>3. PICK d : d = IF inUsers[u].there THEN [inUsers[u] EXCEPT !.mode = q.patch.mode]
                     ELSE inUsers[u]
    OBVIOUS
  <2>4. Goes(breq, r, p) /\ lowered' = (lowered \/ q.patch.mode = "disabled")
    BY <1>1, <1>6, <2>1 DEF SetActive, MemberGoes
  <2>5. inUsers' = IF inUsers[u].there
                      THEN [inUsers EXCEPT ![u].mode = q.patch.mode] ELSE inUsers
    BY <1>1, <1>3, <1>6 DEF SetActive
  <2>6. /\ inUsers'[u] = d /\ \A v \in Persons \ {u} : inUsers'[v] = inUsers[v]
    BY <2>3, <2>5, MemberTyped
  <2>7. ASSUME inUsers[u].there
        PROVE  /\ d \in Real /\ d.there /\ d.mode = q.patch.mode /\ d.role = inUsers[u].role
               /\ ClaimsOf(d) = ClaimsOf(inUsers[u])
    <3>1. inUsers[u] \in Real
      BY <2>7, MemberTyped, RecordFacts
    <3>2. d = [inUsers[u] EXCEPT !.mode = q.patch.mode]
      BY <2>3, <2>7
    <3>3. /\ d \in Real /\ d.there /\ d.mode = q.patch.mode /\ d.role = inUsers[u].role
          /\ d.name = inUsers[u].name /\ d.picture = inUsers[u].picture
      BY <2>2, <3>1, <3>2 DEF Real
    <3>4. ClaimsOf(d) = ClaimsOf(inUsers[u])
      BY <3>3 DEF ClaimsOf
    <3>. QED  BY <3>3, <3>4
  <2>8. ~inUsers[u].there => d = inUsers[u]
    BY <2>3
  <2>9. inUsers' \in [Persons -> Records]
    <3>1. d \in Records
      BY <2>7, <2>8, MemberTyped, RecordFacts
    <3>2. inUsers' = [inUsers EXCEPT ![u] = d]
      BY <2>3, <2>5, MemberTyped
    <3>. QED  BY <3>1, <3>2, MemberTyped
  <2>10. Stocks'
    BY <1>4, <2>4, <2>9, MemberTyped DEF Stocks
  <2>11. ~lowered' => ~lowered /\ q.patch.mode = "active"
    BY <2>2, <2>4 DEF Modes
  <2>12. Throughout'
    <3>1. NoIdentityAlone'
      BY <1>4, <2>6, <2>7, <2>8, MemberTyped DEF NoIdentityAlone
    <3>2. Appointments'
      BY <1>4, MemberTyped DEF Appointments
    <3>3. NoneLowered'
      BY <1>4, <2>6, <2>7, <2>8, <2>11, MemberTyped DEF NoneLowered
    <3>. QED  BY <3>1, <3>2, <3>3 DEF Throughout
  <2>13. Seen(p)'
    BY <2>2, <2>4 DEF Seen
  <2>14. ASSUME Led(q) PROVE Led(p)'
    <3>1. \A v \in Persons : Heads(v)' <=> Heads(v)
      BY <1>4 DEF Heads
    <3>2. ASSUME ~lowered', NEW v \in Persons, Heads(v), v \notin behind
          PROVE  inUsers'[v].role = "admin"
      <4>1. inUsers[v].role = "admin"
        BY <2>11, <2>14, <3>2 DEF Led
      <4>2. inUsers[v].there
        BY <3>2, MemberTyped DEF NoIdentityAlone, Heads
      <4>. QED  BY <2>6, <2>7, <4>1, <4>2
    <3>3. ~lowered' => \E a \in Persons : Heads(a)
      BY <2>11, <2>14 DEF Led
    <3>. QED  BY <1>4, <2>2, <3>1, <3>2, <3>3 DEF Led
  <2>15. ASSUME Midway(q) PROVE Midway(p)'
    <3>1. Settled(u)
      BY <1>2, <1>3, <2>15 DEF Midway, Partly
    <3>2. Told(u)' /\ SameFace(u)'
      BY <1>4, <2>6, <2>7, <2>8, <3>1 DEF Settled, Told, SameFace
    <3>3. SameClaims(u)'
      BY <1>4, <2>6, <2>7, <2>8, <3>1 DEF Settled, SameClaims
    <3>4. inUsers'[u].there => inUsers'[u].mode = p.patch.mode
      BY <2>2, <2>6, <2>7, <2>8
    <3>5. Partly(p)'
      BY <2>2, <3>2, <3>3, <3>4 DEF Partly
    <3>6. \A v \in Persons \ {u} : Rests(v)
      BY <1>4, <2>6 DEF Rests
    <3>. QED  BY <1>3, <2>2, <2>15, <3>5, <3>6, OneTouched
  <2>16. \A v \in Persons : atFire'[v].there => atFire[v].there
    BY <1>4
  <2>17. appointed \subseteq appointed' /\ (lowered => lowered')
    BY <1>4, <2>4
  <2>. QED  BY <1>1, <1>2, <1>4, <2>2, <2>4, <2>10, <2>12, <2>13, <2>14, <2>15, <2>16,
               <2>17, MemberOn
<1>. QED  BY <1>5, <1>6

LEMMA SetDisabledKeeps ==
    ASSUME BInv, NEW r \in Requests, SetDisabled(r)
    PROVE  BInv'
<1>1. PICK q : q = breq[r]
  OBVIOUS
<1>2. q.at = "set disabled" /\ q \in UpdateWork /\ q # Idle
  BY <1>1, MemberTyped, MemberShapes, MemberWork DEF SetDisabled
<1>3. PICK u \in Persons : u = q.uid
  BY <1>2 DEF UpdateWork
<1>4. /\ overlap' = overlap /\ faults' = faults /\ inUsers' = inUsers /\ lowered' = lowered
      /\ face' = face /\ behind' = behind /\ tokens' = tokens
      /\ appointed' = appointed /\ bmoves' \in 0 .. MemberMoves
      /\ Goes(breq, r, Idle)
  BY MemberTyped DEF SetDisabled, bkept, Ends
<1>5. q.patch.mode \in Modes /\ (~lowered => q.patch.mode = "active")
  <2>1. Seen(q)
    BY <1>1, MemberTyped
  <2>. QED  BY <1>2, <2>1 DEF Seen, Modes
<1>6. PICK d : d = IF atFire[u].there THEN [atFire[u] EXCEPT !.mode = q.patch.mode]
                   ELSE atFire[u]
  OBVIOUS
<1>7. atFire' = IF atFire[u].there
                  THEN [atFire EXCEPT ![u].mode = q.patch.mode] ELSE atFire
  BY <1>1, <1>3 DEF SetDisabled
<1>8. atFire'[u] = d /\ \A v \in Persons \ {u} : atFire'[v] = atFire[v]
  BY <1>6, <1>7, MemberTyped
<1>9. ASSUME atFire[u].there
      PROVE  /\ d \in Real /\ d.there /\ d.mode = q.patch.mode /\ d.role = atFire[u].role
             /\ d.picture = atFire[u].picture /\ ClaimsOf(d) = ClaimsOf(atFire[u])
  <2>1. atFire[u] \in Real
    BY <1>9, MemberTyped, RecordFacts
  <2>2. d = [atFire[u] EXCEPT !.mode = q.patch.mode]
    BY <1>6, <1>9
  <2>3. /\ d \in Real /\ d.there /\ d.mode = q.patch.mode /\ d.role = atFire[u].role
        /\ d.name = atFire[u].name /\ d.picture = atFire[u].picture
    BY <1>5, <2>1, <2>2 DEF Real
  <2>4. ClaimsOf(d) = ClaimsOf(atFire[u])
    BY <2>3 DEF ClaimsOf
  <2>. QED  BY <2>3, <2>4
<1>10. ~atFire[u].there => d = atFire[u]
  BY <1>6
<1>11. atFire' \in [Persons -> Records]
  <2>1. d \in Records
    BY <1>9, <1>10, MemberTyped, RecordFacts
  <2>2. atFire' = [atFire EXCEPT ![u] = d]
    BY <1>6, <1>7, MemberTyped
  <2>. QED  BY <2>1, <2>2, MemberTyped
<1>12. Stocks'
  BY <1>4, <1>11, MemberTyped DEF Stocks
<1>13. \A v \in Persons : /\ atFire'[v].there <=> atFire[v].there
                          /\ Heads(v)' <=> Heads(v)
  BY <1>8, <1>9, <1>10 DEF Heads
<1>14. Throughout'
  <2>1. NoIdentityAlone'
    BY <1>4, <1>13, MemberTyped DEF NoIdentityAlone
  <2>2. Appointments'
    BY <1>4, <1>13, MemberTyped DEF Appointments, Heads
  <2>3. \A v \in Persons : ~lowered /\ atFire'[v].there => atFire'[v].mode = "active"
    BY <1>5, <1>8, <1>9, <1>10, MemberTyped DEF NoneLowered
  <2>4. NoneLowered'
    BY <1>4, <1>13, <2>3, MemberTyped DEF NoneLowered, Heads
  <2>. QED  BY <2>1, <2>2, <2>4 DEF Throughout
<1>15. Seen(Idle)'
  BY MemberWork DEF Seen
<1>16. Led(q) => Led(Idle)'
  BY <1>2, <1>4, <1>13, MemberWork DEF Led
<1>17. ASSUME Midway(q) PROVE Midway(Idle)'
  <2>1. /\ Told(u) /\ SameClaims(u) /\ SameFace(u)
        /\ inUsers[u].there => inUsers[u].mode = q.patch.mode
    BY <1>2, <1>3, <1>17 DEF Midway, Partly
  <2>2. Told(u)' /\ SameMode(u)'
    BY <1>4, <1>8, <1>9, <2>1 DEF Told, SameMode
  <2>3. SameClaims(u)' /\ SameFace(u)'
    BY <1>4, <1>8, <1>9, <1>10, <2>1 DEF Told, SameClaims, SameFace
  <2>4. Settled(u)'
    BY <2>2, <2>3 DEF Settled
  <2>5. \A v \in Persons \ {u} : Rests(v)
    BY <1>4, <1>8 DEF Rests
  <2>6. Partly(Idle)'
    BY MemberWork DEF Partly
  <2>. QED  BY <1>3, <1>17, <2>4, <2>5, <2>6, MemberWork, OneTouched
<1>18. \A v \in Persons : atFire'[v].there => atFire[v].there
  BY <1>13
<1>19. appointed \subseteq appointed' /\ (lowered => lowered')
  BY <1>4
<1>. QED  BY <1>1, <1>2, <1>4, <1>12, <1>14, <1>15, <1>16, <1>17, <1>18, <1>19,
             MemberWork, MemberOn

(* Steps of update_my_profile and upload_avatar.                           *)
LEMMA WithFacts ==
    ASSUME NEW d \in Real, NEW new, new.name \in Labels \cup {Kept},
           new.picture \in Labels \cup {Kept}
    PROVE  LET e == With(d, new) IN
           /\ e \in Real /\ e.there /\ e.mode = d.mode /\ e.role = d.role
           /\ e.name = IF new.name = Kept THEN d.name ELSE new.name
           /\ e.picture = IF new.picture = Kept THEN d.picture ELSE new.picture
<1> DEFINE n == IF new.name = Kept THEN d.name ELSE new.name
           p == IF new.picture = Kept THEN d.picture ELSE new.picture
<1>1. n \in Labels /\ p \in Labels
  BY DEF Real
<1>2. With(d, new) = [d EXCEPT !.name = n, !.picture = p]
  BY DEF With
<1> HIDE DEF n, p
<1>3. /\ [d EXCEPT !.name = n, !.picture = p] \in Real
      /\ [d EXCEPT !.name = n, !.picture = p].there
      /\ [d EXCEPT !.name = n, !.picture = p].mode = d.mode
      /\ [d EXCEPT !.name = n, !.picture = p].role = d.role
      /\ [d EXCEPT !.name = n, !.picture = p].name = n
      /\ [d EXCEPT !.name = n, !.picture = p].picture = p
  BY <1>1 DEF Real
<1>. QED  BY <1>2, <1>3 DEF n, p

LEMMA TellFirebaseKeeps ==
    ASSUME BInv, NEW r \in Requests, TellFirebaseFace(r)
    PROVE  BInv'
<1>1. PICK q : q = breq[r]
  OBVIOUS
<1>2. q.at = "tell Firebase" /\ q \in FaceWork /\ q # Idle
  BY <1>1, MemberTyped, MemberShapes, MemberWork DEF TellFirebaseFace
<1>3. PICK u \in Persons : u = q.uid
  BY <1>2 DEF FaceWork
<1>4. /\ overlap' = overlap /\ faults' = faults /\ inUsers' = inUsers /\ lowered' = lowered
      /\ face' = face /\ behind' = behind /\ tokens' = tokens
      /\ appointed' = appointed /\ bmoves' \in 0 .. MemberMoves
  BY MemberTyped DEF TellFirebaseFace, bkept
<1>5. CASE q.new.name = Kept /\ q.new.picture = Kept
  <2>1. PICK p : p = [q EXCEPT !.at = "store profile"]
    OBVIOUS
  <2>2. p \in MemberRequests /\ p.at = "store profile" /\ p.uid = u /\ p.new = q.new
    BY <1>2, <1>3, <2>1, FaceOn
  <2>3. Goes(breq, r, p) /\ atFire' = atFire
    BY <1>1, <1>5, <2>1 DEF TellFirebaseFace, MemberGoes
  <2>4. Seen(p)
    BY <2>2 DEF Seen
  <2>5. Led(q) => Led(p)
    BY <1>2, <2>2 DEF Led
  <2>6. ASSUME Midway(q) PROVE Midway(p)
    <3>1. \A v \in Persons : Settled(v)
      BY <1>2, <1>3, <2>6 DEF Midway, Partly
    <3>2. Partly(p)
      BY <1>5, <2>2, <3>1 DEF Partly, Settled
    <3>. QED  BY <3>1, <3>2 DEF Midway
  <2>. QED  BY <1>1, <1>2, <1>4, <2>2, <2>3, <2>4, <2>5, <2>6, MemberMovesOn
<1>6. CASE ~(q.new.name = Kept /\ q.new.picture = Kept) /\ ~atFire[u].there
  <2>1. Goes(breq, r, Idle) /\ atFire' = atFire
    BY <1>1, <1>3, <1>6 DEF TellFirebaseFace, Ends
  <2>2. Led(q) => Led(Idle)
    BY <1>2, MemberWork DEF Led
  <2>3. ASSUME Midway(q) PROVE Midway(Idle)
    <3>1. \A v \in Persons : Settled(v)
      BY <1>2, <1>3, <2>3 DEF Midway, Partly
    <3>. QED  BY <3>1, IdleSeen DEF Midway
  <2>. QED  BY <1>1, <1>2, <1>4, <2>1, <2>2, <2>3, MemberWork, IdleSeen, MemberMovesOn
<1>7. CASE ~(q.new.name = Kept /\ q.new.picture = Kept) /\ atFire[u].there
  <2>1. PICK p : p = [q EXCEPT !.at = "store user"]
    OBVIOUS
  <2>2. /\ p \in MemberRequests /\ p.at = "store user" /\ p.uid = u /\ p.new = q.new
        /\ q.new.name \in Labels \cup {Kept} /\ q.new.picture \in Labels \cup {Kept}
    BY <1>2, <1>3, <2>1, FaceOn
  <2>3. PICK d : d = With(atFire[u], q.new)
    OBVIOUS
  <2>4. Goes(breq, r, p) /\ atFire' = [atFire EXCEPT ![u] = d]
    BY <1>1, <1>3, <1>7, <2>1, <2>3 DEF TellFirebaseFace, MemberGoes
  <2>5. atFire[u] \in Real
    BY <1>7, MemberTyped, RecordFacts
  <2>6. /\ d \in Real /\ d.there /\ d.mode = atFire[u].mode /\ d.role = atFire[u].role
        /\ d.name = IF q.new.name = Kept THEN atFire[u].name ELSE q.new.name
        /\ d.picture = IF q.new.picture = Kept THEN atFire[u].picture ELSE q.new.picture
    BY <2>2, <2>3, <2>5, WithFacts
  <2>7. /\ atFire' \in [Persons -> Records] /\ atFire'[u] = d
        /\ \A v \in Persons \ {u} : atFire'[v] = atFire[v]
    BY <2>4, <2>6, MemberTyped, RecordFacts
  <2>8. Stocks'
    BY <1>4, <2>7, MemberTyped DEF Stocks
  <2>9. \A v \in Persons : /\ atFire'[v].there <=> atFire[v].there
                           /\ Heads(v)' <=> Heads(v)
                           /\ atFire'[v].mode = atFire[v].mode
    BY <1>7, <2>6, <2>7 DEF Heads
  <2>10. Throughout'
    <3>1. NoIdentityAlone'
      BY <1>4, <2>9, MemberTyped DEF NoIdentityAlone
    <3>2. Appointments'
      BY <1>4, <2>9, MemberTyped DEF Appointments, Heads
    <3>3. NoneLowered'
      BY <1>4, <2>9, MemberTyped DEF NoneLowered, Heads
    <3>. QED  BY <3>1, <3>2, <3>3 DEF Throughout
  <2>11. Seen(p)'
    BY <2>2 DEF Seen
  <2>12. Led(q) => Led(p)'
    BY <1>2, <1>4, <2>2, <2>9 DEF Led
  <2>13. ASSUME Midway(q) PROVE Midway(p)'
    <3>1. Settled(u) /\ inUsers[u].there
      BY <1>2, <1>3, <2>13 DEF Midway, Partly
    <3>2. inUsers[u] \in Real
      BY <3>1, MemberTyped, RecordFacts
    <3>3. SameMode(u)'
      BY <1>4, <2>9, <3>1 DEF Settled, SameMode
    <3>4. ASSUME u \notin behind
          PROVE  ClaimsOf(With(inUsers[u], q.new)) = ClaimsOf(d)
      <4>1. ClaimsOf(inUsers[u]) = ClaimsOf(atFire[u])
        BY <3>1, <3>4 DEF Settled, SameClaims
      <4>2. /\ inUsers[u].role = atFire[u].role /\ inUsers[u].name = atFire[u].name
            /\ inUsers[u].picture = atFire[u].picture
        BY <4>1 DEF ClaimsOf
      <4>3. PICK e : e = With(inUsers[u], q.new)
        OBVIOUS
      <4>4. /\ e.role = inUsers[u].role
            /\ e.name = IF q.new.name = Kept THEN inUsers[u].name ELSE q.new.name
            /\ e.picture = IF q.new.picture = Kept THEN inUsers[u].picture ELSE q.new.picture
        BY <2>2, <3>2, <4>3, WithFacts
      <4>5. e.role = d.role /\ e.name = d.name /\ e.picture = d.picture
        BY <2>6, <4>2, <4>4
      <4>. QED  BY <4>3, <4>5 DEF ClaimsOf
    <3>5. With(inUsers[u], q.new)' = With(inUsers[u], q.new)
      BY <1>4 DEF With
    <3>6. IF q.new.picture = Kept THEN SameFace(u)'
          ELSE atFire'[u].there => atFire'[u].picture = q.new.picture
      BY <1>4, <1>7, <2>6, <2>7, <3>1 DEF Settled, SameFace
    <3>7. u \notin behind' => ClaimsOf(With(inUsers[u], q.new))' = ClaimsOf(atFire[u])'
      BY <1>4, <2>7, <3>4, <3>5 DEF ClaimsOf
    <3>8. Partly(p)'
      BY <1>4, <2>2, <2>6, <2>7, <3>1, <3>3, <3>6, <3>7 DEF Partly
    <3>9. \A v \in Persons \ {u} : Rests(v)
      BY <1>4, <2>7 DEF Rests
    <3>. QED  BY <1>3, <2>2, <2>13, <3>8, <3>9, OneTouched
  <2>14. \A v \in Persons : atFire'[v].there => atFire[v].there
    BY <2>9
  <2>15. appointed \subseteq appointed' /\ (lowered => lowered')
    BY <1>4
  <2>. QED  BY <1>1, <1>2, <1>4, <2>2, <2>4, <2>8, <2>10, <2>11, <2>12, <2>13, <2>14,
               <2>15, MemberOn
<1>. QED  BY <1>5, <1>6, <1>7

LEMMA StoreUserKeeps ==
    ASSUME BInv, NEW r \in Requests, StoreUser(r)
    PROVE  BInv'
<1>1. PICK q : q = breq[r]
  OBVIOUS
<1>2. q.at = "store user" /\ q \in FaceWork /\ q # Idle
  BY <1>1, MemberTyped, MemberShapes, MemberWork DEF StoreUser
<1>3. PICK u \in Persons : u = q.uid
  BY <1>2 DEF FaceWork
<1>4. PICK p : p = [q EXCEPT !.at = "store profile"]
  OBVIOUS
<1>5. /\ p \in MemberRequests /\ p.at = "store profile" /\ p.uid = u /\ p.new = q.new
      /\ q.new.name \in Labels \cup {Kept} /\ q.new.picture \in Labels \cup {Kept}
  BY <1>2, <1>3, <1>4, FaceOn
<1>6. /\ overlap' = overlap /\ faults' = faults /\ atFire' = atFire /\ lowered' = lowered
      /\ face' = face /\ behind' = behind /\ tokens' = tokens
      /\ appointed' = appointed /\ bmoves' \in 0 .. MemberMoves
  BY MemberTyped DEF StoreUser, bkept
<1>7. Seen(p)
  BY <1>5 DEF Seen
<1>8. CASE ~inUsers[u].there
  <2>1. inUsers' = inUsers /\ (Goes(breq, r, p) \/ Goes(breq, r, Idle))
    BY <1>1, <1>3, <1>4, <1>8 DEF StoreUser, MemberGoes, Ends
  <2>2. Led(q) => Led(p) /\ Led(Idle)
    BY <1>2, <1>5, MemberWork DEF Led
  <2>3. ~Midway(q)
    BY <1>2, <1>3, <1>8 DEF Midway, Partly
  <2>4. CASE Goes(breq, r, p)
    BY <1>1, <1>2, <1>5, <1>6, <1>7, <2>1, <2>2, <2>3, <2>4, MemberMovesOn
  <2>5. CASE Goes(breq, r, Idle)
    BY <1>1, <1>2, <1>6, <2>1, <2>2, <2>3, <2>5, MemberWork, IdleSeen, MemberMovesOn
  <2>. QED  BY <2>1, <2>4, <2>5
<1>9. CASE inUsers[u].there
  <2>1. PICK d : d = With(inUsers[u], q.new)
    OBVIOUS
  <2>2. Goes(breq, r, p) /\ inUsers' = [inUsers EXCEPT ![u] = d]
    BY <1>1, <1>3, <1>4, <1>9, <2>1 DEF StoreUser, MemberGoes
  <2>3. inUsers[u] \in Real
    BY <1>9, MemberTyped, RecordFacts
  <2>4. d \in Real /\ d.there /\ d.mode = inUsers[u].mode /\ d.role = inUsers[u].role
    BY <1>5, <2>1, <2>3, WithFacts
  <2>5. /\ inUsers' \in [Persons -> Records] /\ inUsers'[u] = d
        /\ \A v \in Persons \ {u} : inUsers'[v] = inUsers[v]
    BY <2>2, <2>4, MemberTyped, RecordFacts
  <2>6. Stocks'
    BY <1>6, <2>5, MemberTyped DEF Stocks
  <2>7. \A v \in Persons : /\ inUsers'[v].there <=> inUsers[v].there
                           /\ inUsers'[v].role = inUsers[v].role
                           /\ inUsers'[v].mode = inUsers[v].mode
    BY <1>9, <2>4, <2>5
  <2>8. Throughout'
    <3>1. NoIdentityAlone'
      BY <1>6, <2>7, MemberTyped DEF NoIdentityAlone
    <3>2. Appointments'
      BY <1>6, MemberTyped DEF Appointments
    <3>3. NoneLowered'
      BY <1>6, <2>7, MemberTyped DEF NoneLowered
    <3>. QED  BY <3>1, <3>2, <3>3 DEF Throughout
  <2>9. Seen(p)'
    BY <1>5 DEF Seen
  <2>10. Led(q) => Led(p)'
    <3> SUFFICES ASSUME Led(q), ~lowered PROVE Led(p)'
      BY <1>6 DEF Led
    <3>1. \A v \in Persons : Heads(v)' <=> Heads(v)
      BY <1>6 DEF Heads
    <3>2. \E a \in Persons : Heads(a)
      BY DEF Led
    <3>3. \A v \in Persons : Heads(v) /\ v \notin behind => inUsers[v].role = "admin"
      BY DEF Led
    <3>4. \A v \in Persons : Heads(v)' /\ v \notin behind' => inUsers'[v].role = "admin"
      BY <1>6, <2>7, <3>1, <3>3
    <3>. QED  BY <1>5, <3>1, <3>2, <3>4 DEF Led
  <2>11. ASSUME Midway(q) PROVE Midway(p)'
    <3>1. /\ atFire[u].there /\ SameMode(u)
          /\ u \notin behind => ClaimsOf(d) = ClaimsOf(atFire[u])
          /\ IF q.new.picture = Kept THEN SameFace(u)
             ELSE atFire[u].there => atFire[u].picture = q.new.picture
      BY <1>2, <1>3, <2>1, <2>11 DEF Midway, Partly
    <3>2. Told(u)' /\ SameMode(u)'
      BY <1>6, <2>7, <3>1 DEF Told, SameMode
    <3>3. SameClaims(u)'
      BY <1>6, <2>5, <3>1 DEF SameClaims
    <3>4. IF p.new.picture = Kept THEN SameFace(u)'
          ELSE atFire'[u].there => atFire'[u].picture = p.new.picture
      BY <1>5, <1>6, <3>1 DEF SameFace
    <3>5. Partly(p)'
      BY <1>5, <3>2, <3>3, <3>4 DEF Partly
    <3>6. \A v \in Persons \ {u} : Rests(v)
      BY <1>6, <2>5 DEF Rests
    <3>. QED  BY <1>3, <1>5, <2>11, <3>5, <3>6, OneTouched
  <2>12. \A v \in Persons : atFire'[v].there => atFire[v].there
    BY <1>6
  <2>13. appointed \subseteq appointed' /\ (lowered => lowered')
    BY <1>6
  <2>. QED  BY <1>1, <1>2, <1>5, <1>6, <2>2, <2>6, <2>8, <2>9, <2>10, <2>11, <2>12,
               <2>13, MemberOn
<1>. QED  BY <1>8, <1>9

LEMMA StoreProfileKeeps ==
    ASSUME BInv, NEW r \in Requests, StoreProfile(r)
    PROVE  BInv'
<1>1. PICK q : q = breq[r]
  OBVIOUS
<1>2. q.at = "store profile" /\ q \in FaceWork /\ q # Idle
  BY <1>1, MemberTyped, MemberShapes, MemberWork DEF StoreProfile
<1>3. PICK u \in Persons : u = q.uid
  BY <1>2 DEF FaceWork
<1>4. /\ overlap' = overlap /\ faults' = faults /\ atFire' = atFire /\ lowered' = lowered
      /\ inUsers' = inUsers /\ behind' = behind /\ tokens' = tokens
      /\ appointed' = appointed /\ bmoves' \in 0 .. MemberMoves
      /\ Goes(breq, r, Idle)
  BY MemberTyped DEF StoreProfile, bkept, Ends
<1>5. q.new.picture \in Labels \cup {Kept}
  BY <1>2, FaceOn
<1>6. face' = IF q.new.picture = Kept THEN face ELSE [face EXCEPT ![u] = q.new.picture]
  BY <1>1, <1>3 DEF StoreProfile
<1>7. /\ face' \in [Persons -> Labels \cup {"none"}]
      /\ \A v \in Persons \ {u} : face'[v] = face[v]
      /\ IF q.new.picture = Kept THEN face'[u] = face[u] ELSE face'[u] = q.new.picture
  BY <1>5, <1>6, MemberTyped
<1>8. Stocks'
  BY <1>4, <1>7, MemberTyped DEF Stocks
<1>9. Throughout'
  BY <1>4, MemberTyped DEF Throughout, NoIdentityAlone, Appointments, NoneLowered
<1>10. Seen(Idle)'
  BY MemberWork DEF Seen
<1>11. Led(q) => Led(Idle)'
  BY <1>2, <1>4, MemberWork DEF Led, Heads
<1>12. ASSUME Midway(q) PROVE Midway(Idle)'
  <2>1. /\ Told(u) /\ SameMode(u) /\ SameClaims(u)
        /\ IF q.new.picture = Kept THEN SameFace(u)
           ELSE atFire[u].there => atFire[u].picture = q.new.picture
    BY <1>2, <1>3, <1>12 DEF Midway, Partly
  <2>2. SameFace(u)'
    BY <1>4, <1>7, <2>1 DEF SameFace
  <2>3. Settled(u)'
    BY <1>4, <2>1, <2>2 DEF Settled, Told, SameMode, SameClaims
  <2>4. \A v \in Persons \ {u} : Rests(v)
    BY <1>4, <1>7 DEF Rests
  <2>5. Partly(Idle)'
    BY MemberWork DEF Partly
  <2>. QED  BY <1>3, <1>12, <2>3, <2>4, <2>5, MemberWork, OneTouched
<1>13. \A v \in Persons : atFire'[v].there => atFire[v].there
  BY <1>4
<1>14. appointed \subseteq appointed' /\ (lowered => lowered')
  BY <1>4
<1>. QED  BY <1>1, <1>2, <1>4, <1>8, <1>9, <1>10, <1>11, <1>12, <1>13, <1>14,
             MemberWork, MemberOn

(* Steps of delete_user.                                                   *)
LEMMA DropIdentityKeeps ==
    ASSUME BInv, NEW r \in Requests, DropIdentity(r)
    PROVE  BInv'
<1>1. PICK q : q = breq[r]
  OBVIOUS
<1>2. q.at = "drop identity" /\ q \in DropWork /\ q # Idle
  BY <1>1, MemberTyped, MemberShapes, MemberWork DEF DropIdentity
<1>3. PICK u \in Persons : u = q.uid
  BY <1>2 DEF DropWork
<1>4. PICK p : p = [q EXCEPT !.at = "drop profile"]
  OBVIOUS
<1>5. p \in MemberRequests /\ p.at = "drop profile" /\ p.uid = u
  BY <1>2, <1>3, <1>4, DropOn
<1>6. /\ overlap' = overlap /\ faults' = faults /\ inUsers' = inUsers /\ lowered' = lowered
      /\ face' = face /\ behind' = behind /\ tokens' = tokens
      /\ appointed' = appointed /\ bmoves' \in 0 .. MemberMoves
      /\ Goes(breq, r, p) /\ atFire' = [atFire EXCEPT ![u] = Gone]
  BY <1>1, <1>3, <1>4, MemberTyped DEF DropIdentity, bkept, MemberGoes
<1>7. /\ atFire' \in [Persons -> Records] /\ ~atFire'[u].there
      /\ \A v \in Persons \ {u} : atFire'[v] = atFire[v]
  BY <1>6, MemberTyped, RecordFacts
<1>8. Stocks'
  BY <1>6, <1>7, MemberTyped DEF Stocks
<1>9. \A v \in Persons : atFire'[v].there => atFire[v].there /\ atFire'[v] = atFire[v]
  BY <1>7
<1>10. Throughout'
  <2>1. NoIdentityAlone'
    BY <1>6, <1>9, MemberTyped DEF NoIdentityAlone
  <2>2. Appointments'
    BY <1>6, <1>9, MemberTyped DEF Appointments
  <2>3. NoneLowered'
    BY <1>6, <1>9, MemberTyped DEF NoneLowered
  <2>. QED  BY <2>1, <2>2, <2>3 DEF Throughout
<1>11. Seen(p)'
  BY <1>5, <1>7 DEF Seen
<1>12. ASSUME Led(q) PROVE Led(p)'
  <2>1. \A v \in Persons : Heads(v)' <=> Heads(v) /\ v # u
    BY <1>7 DEF Heads
  <2>2. ~lowered => \E a \in Persons : Heads(a) /\ a # u
    BY <1>2, <1>3, <1>12 DEF Led
  <2>3. ~lowered => \A v \in Persons : Heads(v) /\ v \notin behind => inUsers[v].role = "admin"
    BY <1>12 DEF Led
  <2>. QED  BY <1>5, <1>6, <2>1, <2>2, <2>3 DEF Led
<1>13. ASSUME Midway(q) PROVE Midway(p)'
  <2>1. Partly(p)'
    BY <1>5 DEF Partly
  <2>2. \A v \in Persons \ {u} : Rests(v)
    BY <1>6, <1>7 DEF Rests
  <2>. QED  BY <1>3, <1>5, <1>13, <2>1, <2>2, OneTouched
<1>14. \A v \in Persons : atFire'[v].there => atFire[v].there
  BY <1>9
<1>15. appointed \subseteq appointed' /\ (lowered => lowered')
  BY <1>6
<1>. QED  BY <1>1, <1>2, <1>5, <1>6, <1>8, <1>10, <1>11, <1>12, <1>13, <1>14, <1>15,
             MemberOn

LEMMA DropProfileKeeps ==
    ASSUME BInv, NEW r \in Requests, DropProfile(r)
    PROVE  BInv'
<1>1. PICK q : q = breq[r]
  OBVIOUS
<1>2. q.at = "drop profile" /\ q \in DropWork /\ q # Idle
  BY <1>1, MemberTyped, MemberShapes, MemberWork DEF DropProfile
<1>3. PICK u \in Persons : u = q.uid
  BY <1>2 DEF DropWork
<1>4. PICK p : p = [q EXCEPT !.at = "drop user"]
  OBVIOUS
<1>5. p \in MemberRequests /\ p.at = "drop user" /\ p.uid = u
  BY <1>2, <1>3, <1>4, DropOn
<1>6. /\ overlap' = overlap /\ faults' = faults /\ inUsers' = inUsers /\ lowered' = lowered
      /\ atFire' = atFire /\ behind' = behind /\ tokens' = tokens
      /\ appointed' = appointed /\ bmoves' \in 0 .. MemberMoves
      /\ Goes(breq, r, p) /\ face' = [face EXCEPT ![u] = "none"]
  BY <1>1, <1>3, <1>4, MemberTyped DEF DropProfile, bkept, MemberGoes
<1>7. /\ face' \in [Persons -> Labels \cup {"none"}]
      /\ \A v \in Persons \ {u} : face'[v] = face[v]
  BY <1>6, MemberTyped
<1>8. Stocks'
  BY <1>6, <1>7, MemberTyped DEF Stocks
<1>9. Throughout'
  BY <1>6, MemberTyped DEF Throughout, NoIdentityAlone, Appointments, NoneLowered
<1>10. Seen(p)'
  <2>1. Seen(q)
    BY <1>1, MemberTyped
  <2>2. ~atFire[u].there
    BY <1>2, <1>3, <2>1 DEF Seen
  <2>. QED  BY <1>5, <1>6, <2>2 DEF Seen
<1>11. Led(q) => Led(p)'
  BY <1>2, <1>5, <1>6 DEF Led, Heads
<1>12. ASSUME Midway(q) PROVE Midway(p)'
  <2>1. Partly(p)'
    BY <1>5 DEF Partly
  <2>2. \A v \in Persons \ {u} : Rests(v)
    BY <1>6, <1>7 DEF Rests
  <2>. QED  BY <1>3, <1>5, <1>12, <2>1, <2>2, OneTouched
<1>13. \A v \in Persons : atFire'[v].there => atFire[v].there
  BY <1>6
<1>14. appointed \subseteq appointed' /\ (lowered => lowered')
  BY <1>6
<1>. QED  BY <1>1, <1>2, <1>5, <1>6, <1>8, <1>9, <1>10, <1>11, <1>12, <1>13, <1>14,
             MemberOn

LEMMA DropUserKeeps ==
    ASSUME BInv, NEW r \in Requests, DropUser(r)
    PROVE  BInv'
<1>1. PICK q : q = breq[r]
  OBVIOUS
<1>2. q.at = "drop user" /\ q \in DropWork /\ q # Idle
  BY <1>1, MemberTyped, MemberShapes, MemberWork DEF DropUser
<1>3. PICK u \in Persons : u = q.uid
  BY <1>2 DEF DropWork
<1>4. /\ overlap' = overlap /\ faults' = faults /\ atFire' = atFire /\ lowered' = lowered
      /\ face' = face /\ behind' = behind /\ tokens' = tokens
      /\ appointed' = appointed /\ bmoves' \in 0 .. MemberMoves
      /\ Goes(breq, r, Idle) /\ inUsers' = [inUsers EXCEPT ![u] = Gone]
  BY <1>1, <1>3, MemberTyped DEF DropUser, bkept, Ends
<1>5. /\ inUsers' \in [Persons -> Records] /\ ~inUsers'[u].there
      /\ \A v \in Persons \ {u} : inUsers'[v] = inUsers[v]
  BY <1>4, MemberTyped, RecordFacts
<1>6. ~atFire[u].there
  <2>1. Seen(q)
    BY <1>1, MemberTyped
  <2>. QED  BY <1>2, <1>3, <2>1 DEF Seen
<1>7. Stocks'
  BY <1>4, <1>5, MemberTyped DEF Stocks
<1>8. Throughout'
  <2>1. NoIdentityAlone'
    BY <1>4, <1>5, <1>6, MemberTyped DEF NoIdentityAlone
  <2>2. Appointments'
    BY <1>4, MemberTyped DEF Appointments
  <2>3. NoneLowered'
    BY <1>4, <1>5, MemberTyped DEF NoneLowered
  <2>. QED  BY <2>1, <2>2, <2>3 DEF Throughout
<1>9. Seen(Idle)'
  BY MemberWork DEF Seen
<1>10. ASSUME Led(q) PROVE Led(Idle)'
  <2>1. \A v \in Persons : /\ Heads(v)' <=> Heads(v)
                           /\ Heads(v) => inUsers'[v] = inUsers[v]
    BY <1>4, <1>5, <1>6 DEF Heads
  <2>. QED  BY <1>2, <1>4, <1>10, <2>1, MemberWork DEF Led
<1>11. ASSUME Midway(q) PROVE Midway(Idle)'
  <2>1. Settled(u)'
    BY <1>4, <1>5, <1>6 DEF Settled, Told, SameMode, SameClaims, SameFace
  <2>2. \A v \in Persons \ {u} : Rests(v)
    BY <1>4, <1>5 DEF Rests
  <2>3. Partly(Idle)'
    BY MemberWork DEF Partly
  <2>. QED  BY <1>3, <1>11, <2>1, <2>2, <2>3, MemberWork, OneTouched
<1>12. \A v \in Persons : atFire'[v].there => atFire[v].there
  BY <1>4
<1>13. appointed \subseteq appointed' /\ (lowered => lowered')
  BY <1>4
<1>. QED  BY <1>1, <1>2, <1>4, <1>7, <1>8, <1>9, <1>10, <1>11, <1>12, <1>13,
             MemberWork, MemberOn

LEMMA MemberStepKeeps ==
    ASSUME BInv, NEW r \in Requests, MemberStep(r)
    PROVE  BInv'
<1>1. CASE \E u \in Persons : RevokeAll(r, u)
  BY <1>1, RevokeAllKeeps
<1>2. CASE \E u \in Persons : \E t \in tokens[u] : LoginWithToken(r, u, t)
  BY <1>2, LoginKeeps
<1>3. CASE \E u \in Persons : UpdateUser(r, u) \/ AskDeletion(r, u)
  BY <1>3, UpdateUserKeeps, AskDeletionKeeps
<1>4. CASE \E u \in Persons : UpdateMyProfile(r, u) \/ UploadAvatar(r, u)
  <2>1. PICK u \in Persons : UpdateMyProfile(r, u) \/ UploadAvatar(r, u)
    BY <1>4
  <2>2. \E new \in Faces : OpenProfile(r, u, new)
    <3>1. CASE UploadAvatar(r, u)
      <4>1. [name |-> Kept, picture |-> "second", upload |-> TRUE] \in Faces
        BY DEF Faces, Labels
      <4>. QED  BY <3>1, <4>1 DEF UploadAvatar
    <3>2. CASE UpdateMyProfile(r, u)
      <4>1. PICK n \in {"second", Kept}, f \in {"second", Kept} :
                OpenProfile(r, u, [name |-> n, picture |-> f, upload |-> FALSE])
        BY <3>2 DEF UpdateMyProfile
      <4>2. [name |-> n, picture |-> f, upload |-> FALSE] \in Faces
        BY DEF Faces, Labels
      <4>. QED  BY <4>1, <4>2
    <3>. QED  BY <2>1, <3>1, <3>2
  <2>. QED  BY <2>2, OpenProfileKeeps
<1>5. CASE StoreClaims(r) \/ Rename(r) \/ SetRole(r) \/ SetClaims(r)
  BY <1>5, StoreClaimsKeeps, RenameKeeps, SetRoleKeeps, SetClaimsKeeps
<1>6. CASE Reread(r) \/ SetActive(r) \/ SetDisabled(r)
  BY <1>6, RereadKeeps, SetActiveKeeps, SetDisabledKeeps
<1>7. CASE TellFirebaseFace(r) \/ StoreUser(r) \/ StoreProfile(r)
  BY <1>7, TellFirebaseKeeps, StoreUserKeeps, StoreProfileKeeps
<1>8. CASE DropIdentity(r) \/ DropProfile(r) \/ DropUser(r) \/ MemberRaises(r)
  BY <1>8, DropIdentityKeeps, DropProfileKeeps, DropUserKeeps, MemberRaisesKeeps
<1>. QED  BY <1>1, <1>2, <1>3, <1>4, <1>5, <1>6, <1>7, <1>8, Zenon DEF MemberStep

LEMMA MembersKept ==
    ASSUME BInv, [MembersNext]_bvars
    PROVE  BInv'
<1>1. CASE \E u \in Persons : SignIn(u)
  BY <1>1, SignInKeeps
<1>2. CASE \E r \in Requests : MemberStep(r)
  BY <1>2, MemberStepKeeps
<1>3. CASE UNCHANGED bvars
  <2>1. /\ overlap' = overlap /\ faults' = faults /\ inUsers' = inUsers /\ atFire' = atFire
        /\ lowered' = lowered /\ face' = face /\ behind' = behind /\ tokens' = tokens
        /\ appointed' = appointed /\ bmoves' = bmoves /\ breq' = breq
    BY <1>3 DEF bvars
  <2>2. TypeOKMembers'
    BY <2>1, MemberTyped DEF TypeOKMembers
  <2>3. Throughout'
    BY <2>1, MemberTyped DEF Throughout, NoIdentityAlone, Appointments, NoneLowered
  <2>4. \A r \in Requests : Seen(breq[r])'
    <3>1. \A r \in Requests : Seen(breq[r])
      BY MemberTyped
    <3>. QED  BY <2>1, <3>1 DEF Seen
  <2>5. ASSUME ~overlap
        PROVE  \E q \in {Idle} \cup {breq'[r] : r \in Requests} :
                   Lone(q)' /\ (AdminsOnly => Led(q)') /\ (~faults => Midway(q)')
    <3>1. PICK q \in {Idle} \cup {breq[r] : r \in Requests} :
              Lone(q) /\ (AdminsOnly => Led(q)) /\ (~faults => Midway(q))
      BY <2>5 DEF BInv
    <3>2. Lone(q)'
      BY <2>1, <3>1 DEF Lone, AllIdle
    <3>3. Led(q) => Led(q)'
      BY <2>1 DEF Led, Heads
    <3>4. Midway(q) => Midway(q)'
      BY <2>1 DEF Midway, Partly, Settled, Told, SameMode, SameClaims, SameFace, EnabledAt
    <3>. QED  BY <2>1, <3>1, <3>2, <3>3, <3>4
  <2>. QED  BY <2>1, <2>2, <2>3, <2>4, <2>5 DEF BInv
<1>. QED  BY <1>1, <1>2, <1>3 DEF MembersNext

LEMMA BInvHolds == MembersSpec => []BInv
<1>1. MembersInit => BInv
  BY MembersStart
<1>2. BInv /\ [MembersNext]_bvars => BInv'
  BY MembersKept
<1>. QED  BY <1>1, <1>2, PTL DEF MembersSpec

(* The identity, the user and the profile of a member, and what requests   *)
(* carry of them, keep their types.                                        *)
THEOREM MembersTypeCorrect == MembersSpec => []TypeOKMembers
<1>1. BInv => TypeOKMembers
  BY DEF BInv
<1>. QED  BY <1>1, BInvHolds, PTL

(* Deletion takes the identity first, so that none is ever without its     *)
(* user; and one request after the other, update_user, update_my_profile,  *)
(* upload_avatar and delete_user leave Firebase, the users collection and  *)
(* the profile the same.                                                   *)
THEOREM MembersInStep == MembersSpec => [](NoIdentityAlone /\ StoresAgree)
<1>1. BInv => NoIdentityAlone /\ StoresAgree
  <2> SUFFICES ASSUME BInv PROVE NoIdentityAlone /\ StoresAgree
    OBVIOUS
  <2>1. ASSUME ~overlap, ~faults, AllIdle(breq), NEW u \in Persons PROVE Settled(u)
    <3>1. PICK q : Lone(q) /\ (~faults => Midway(q))
      BY <2>1 DEF BInv
    <3>2. q = Idle
      BY <2>1, <3>1 DEF Lone
    <3>. QED  BY <2>1, <3>1, <3>2, MemberWork DEF Midway
  <2>2. StoresAgree
    BY <2>1 DEF StoresAgree, Settled, Told, SameMode, SameClaims, SameFace, ClaimsOf
  <2>. QED  BY <2>2, MemberTyped
<1>. QED  BY <1>1, BInvHolds, PTL

(* And since the doors for administrators ask for one (DoorsForAdmins),    *)
(* deletions leave an active administrator, and nobody administers but who *)
(* was made to by an administrator.                                        *)
THEOREM MembersInAgreement == MembersSpec => []MembersAgree
<1>1. BInv => StillManned /\ OnlyAppointed
  <2> SUFFICES ASSUME BInv PROVE StillManned /\ OnlyAppointed
    OBVIOUS
  <2>1. ASSUME ~overlap, ~lowered, behind = {} PROVE Manned(inUsers) # {}
    <3>1. PICK q : Led(q)
      BY <2>1, DoorsForAdmins DEF BInv
    <3>2. PICK a \in Persons : Heads(a) /\ inUsers[a].role = "admin"
      BY <2>1, <3>1 DEF Led
    <3>3. inUsers[a].there /\ inUsers[a].mode = "active"
      BY <2>1, <3>2, MemberTyped DEF NoIdentityAlone, NoneLowered, Heads
    <3>. QED  BY <3>2, <3>3 DEF Manned
  <2>2. ASSUME NEW u \in Persons, NEW g \in AdminGates, Opens(u, g)
        PROVE  u \in appointed
    <3>1. g = "admin"
      BY DoorsForAdmins DEF AdminsOnly
    <3>2. \E t \in tokens[u] : t.role = "admin"
      BY <2>2, <3>1 DEF Opens, LetIn
    <3>. QED  BY <3>2, MemberTyped DEF Appointments
  <2>. QED  BY <2>1, <2>2 DEF StillManned, OnlyAppointed
<1>. QED  BY <1>1, BInvHolds, MembersInStep, DoorsForAdmins, PTL DEF MembersAgree

-----------------------------------------------------------------------------
(* Paywall                                                                 *)

CheckWork  == [at : {"find settings", "make settings"}, firm : Firms]
TermsWork  == [at : {"find settings", "make settings", "patch settings"},
               patch : SettingsPatches]
AskWork    == [at : {"read subscription"}, firm : Firms, seen : Settings]
ProbeWork  == [at : {"read grant"}, firm : Firms, good : BOOLEAN]
DoneWork   == [at : {"let in", "refused"}, firm : Firms]
GrantWork  == [at : {"revoke others", "insert grant"}, firm : Firms, until : 1 .. LastDay + 1]
RevokeWork == [at : {"revoke"}, grant : 1 .. PaywallMoves]

(* What a check has seen to: S has given access all the while, and E says  *)
(* whether anything did, or the terms changed.                             *)
FairFor(q, S, E) ==
    /\ Checks(q) => S \subseteq Causes(q.firm)
    /\ q.at = "read subscription" =>
         /\ \A x \in S : x[1] = "subscription" => x[2] = q.seen.grace
         /\ E \/ q.seen = InForce
    /\ q.at = "read grant" =>
         /\ q.good => E
         /\ ~q.good => \A x \in S : x[1] # "subscription"
    /\ q.at = "refused" => S = {}
    /\ q.at = "let in" => E

Fair == \A r \in Requests : FairFor(wreq[r], steady[r], ever[r])

(* A grant is made for a request, and every request is one move.           *)
Granting == {r \in Requests : wreq[r].at \in {"revoke others", "insert grant"}}

Bounded == IsFiniteSet(Granting) /\ Len(grants) + Cardinality(Granting) <= wmoves

(* What requests and histories refer to is there.                          *)
Refers(q) ==
    /\ q.at = "revoke" => q.grant \in DOMAIN grants
    /\ q.at = "patch settings" => terms.made

Recorded ==
    /\ \A i \in ended : i \in DOMAIN grants /\ grants[i].revoked
    /\ \A c \in Firms : granted[c] # 0 =>
           granted[c] \in DOMAIN grants /\ grants[granted[c]].firm = c

(* One request at a time, q.                                               *)
Sole(q) ==
    /\ \A r \in Requests : wreq[r] \in {Idle, q}
    /\ \A r, s \in Requests : wreq[r] # Idle /\ wreq[s] # Idle => r = s
    /\ AllIdle(wreq) => q = Idle

(* A company has at most one grant in force, and none when q is about to   *)
(* make one; if nothing raises, the last that was answered is revoked only *)
(* if that was answered, or if q is about to make another.                 *)
Orderly(q) ==
    /\ \A c \in Firms : \A i, j \in OpenGrants(c) : i = j
    /\ q.at = "insert grant" => OpenGrants(q.firm) = {}
    /\ ~faults => \A c \in Firms :
         granted[c] # 0 /\ grants[granted[c]].revoked =>
             granted[c] \in ended \/ (q.at = "insert grant" /\ q.firm = c)

WInv ==
    /\ TypeOKPaywall
    /\ Bounded
    /\ \A r \in Requests : Refers(wreq[r])
    /\ Recorded
    /\ SettingsKept
    /\ Fair
    /\ ~overlap => \E q \in {Idle} \cup {wreq[r] : r \in Requests} : Sole(q) /\ Orderly(q)

-----------------------------------------------------------------------------
(* Lemmas                                                                  *)

Bills ==
    /\ day \in Days
    /\ standing \in [Firms -> Standings]
    /\ grants \in Seq(GrantDocs)
    /\ terms \in Settings \cup {NoTerms}
    /\ granted \in [Firms -> 0 .. PaywallMoves]
    /\ ended \subseteq 1 .. PaywallMoves
    /\ chosen \in {<<>>} \cup SettingsPatches \cup [grace : GraceDays, trial : Trials]
    /\ wmoves \in 0 .. PaywallMoves

LEMMA WTyped ==
    ASSUME WInv
    PROVE  /\ Bills
           /\ day \in Days
           /\ standing \in [Firms -> Standings]
           /\ grants \in Seq(GrantDocs) /\ Len(grants) \in Nat /\ Len(grants) <= PaywallMoves
           /\ terms \in Settings \cup {NoTerms}
           /\ granted \in [Firms -> 0 .. PaywallMoves]
           /\ ended \subseteq 1 .. PaywallMoves
           /\ chosen \in {<<>>} \cup SettingsPatches \cup [grace : GraceDays, trial : Trials]
           /\ wmoves \in 0 .. PaywallMoves /\ wmoves \in Nat
           /\ steady \in [Requests -> SUBSET (({"subscription"} \X Nat) \cup ({"grant"} \X Nat))]
           /\ ever \in [Requests -> BOOLEAN]
           /\ wreq \in [Requests -> PaywallRequests]
           /\ Bounded /\ Recorded /\ SettingsKept /\ Fair
           /\ \A r \in Requests : Refers(wreq[r])
<1>1. wmoves \in 0 .. PaywallMoves /\ PaywallMoves \in Nat
  BY PaywallAssumption DEF WInv, TypeOKPaywall
<1>2. wmoves \in Nat
  BY <1>1
<1>. QED  BY <1>2 DEF WInv, TypeOKPaywall, Bills

LEMMA WShapes ==
    ASSUME NEW q \in PaywallRequests
    PROVE  /\ q.at \in {"find settings", "make settings"} =>
                  q \in CheckWork \/ q \in TermsWork
           /\ q.at = "patch settings" => q \in TermsWork
           /\ q.at = "read subscription" => q \in AskWork
           /\ q.at = "read grant" => q \in ProbeWork
           /\ q.at \in {"let in", "refused"} => q \in DoneWork
           /\ q.at \in {"revoke others", "insert grant"} => q \in GrantWork
           /\ q.at = "revoke" => q \in RevokeWork
           /\ q.at = "idle" => q = Idle
<1>1. Idle.at = "idle"
  BY DEF Idle
<1>2. \A x \in CheckWork : x.at \in {"find settings", "make settings"}
  BY DEF CheckWork
<1>3. \A x \in TermsWork : x.at \in {"find settings", "make settings", "patch settings"}
  BY DEF TermsWork
<1>4. \A x \in AskWork : x.at = "read subscription"
  BY DEF AskWork
<1>5. \A x \in ProbeWork : x.at = "read grant"
  BY DEF ProbeWork
<1>6. \A x \in DoneWork : x.at \in {"let in", "refused"}
  BY DEF DoneWork
<1>7. \A x \in GrantWork : x.at \in {"revoke others", "insert grant"}
  BY DEF GrantWork
<1>8. \A x \in RevokeWork : x.at = "revoke"
  BY DEF RevokeWork
<1>9. \/ q = Idle \/ q \in CheckWork \/ q \in TermsWork \/ q \in AskWork \/ q \in ProbeWork
      \/ q \in DoneWork \/ q \in GrantWork \/ q \in RevokeWork
  BY DEF PaywallRequests, CheckWork, TermsWork, AskWork, ProbeWork, DoneWork, GrantWork,
         RevokeWork
<1>. QED  BY <1>1, <1>2, <1>3, <1>4, <1>5, <1>6, <1>7, <1>8, <1>9

LEMMA WWork ==
    /\ \A q \in CheckWork \cup TermsWork \cup AskWork \cup ProbeWork \cup DoneWork
                \cup GrantWork \cup RevokeWork : q \in PaywallRequests
    /\ Idle \in PaywallRequests /\ Idle.at = "idle"
BY DEF PaywallRequests, CheckWork, TermsWork, AskWork, ProbeWork, DoneWork, GrantWork,
       RevokeWork, Idle

(* Which of them are checks.                                               *)
LEMMA WhoChecks ==
    /\ \A q \in CheckWork \cup AskWork \cup ProbeWork \cup DoneWork :
           Checks(q) /\ q.firm \in Firms /\ q # Idle
    /\ \A q \in TermsWork \cup GrantWork \cup RevokeWork : ~Checks(q) /\ q # Idle
    /\ \A q \in TermsWork : "firm" \notin DOMAIN q
    /\ \A q \in CheckWork : "firm" \in DOMAIN q
    /\ ~Checks(Idle)
<1>1. \A q \in CheckWork : DOMAIN q = {"at", "firm"} /\ q.firm \in Firms
  BY DEF CheckWork
<1>2. \A q \in AskWork : DOMAIN q = {"at", "firm", "seen"} /\ q.firm \in Firms
  BY DEF AskWork
<1>3. \A q \in ProbeWork : DOMAIN q = {"at", "firm", "good"} /\ q.firm \in Firms
  BY DEF ProbeWork
<1>4. \A q \in DoneWork : DOMAIN q = {"at", "firm"} /\ q.firm \in Firms
  BY DEF DoneWork
<1>5. \A q \in TermsWork : DOMAIN q = {"at", "patch"}
  BY DEF TermsWork
<1>6. \A q \in GrantWork : DOMAIN q = {"at", "firm", "until"}
  BY DEF GrantWork
<1>7. \A q \in RevokeWork : DOMAIN q = {"at", "grant"}
  BY DEF RevokeWork
<1>8. DOMAIN Idle = {"at"}
  BY DEF Idle
<1>9. \A q \in TermsWork \cup GrantWork \cup RevokeWork : ~Checks(q) /\ q # Idle
  BY <1>5, <1>6, <1>7, <1>8 DEF Checks
<1>10. \A q \in CheckWork \cup AskWork \cup ProbeWork \cup DoneWork :
           Checks(q) /\ q.firm \in Firms /\ q # Idle
  BY <1>1, <1>2, <1>3, <1>4, <1>8 DEF Checks
<1>. QED  BY <1>1, <1>5, <1>8, <1>9, <1>10 DEF Checks

LEMMA IdleOrChecks ==
    ASSUME NEW q \in PaywallRequests, Checks(q)
    PROVE  q.firm \in Firms /\ q # Idle
BY WhoChecks DEF PaywallRequests, CheckWork, TermsWork, AskWork, ProbeWork, DoneWork,
                 GrantWork, RevokeWork

LEMMA InForceTyped ==
    ASSUME terms \in Settings \cup {NoTerms}
    PROVE  /\ InForce \in Settings /\ InForce.grace \in Nat
           /\ terms.made => InForce = terms /\ terms \in Settings
           /\ ~terms.made => InForce = DefaultTerms
<1>1. DefaultTerms \in Settings
  BY DEF DefaultTerms, Settings, Trials
<1>2. ~NoTerms.made
  BY DEF NoTerms
<1>3. \A s \in Settings : s.grace \in Nat
  BY PaywallAssumption DEF Settings
<1>. QED  BY <1>1, <1>2, <1>3 DEF InForce

(* What gives access, and what a step makes of it.                         *)
LEMMA CausesTyped ==
    ASSUME terms \in Settings \cup {NoTerms}, grants \in Seq(GrantDocs), NEW c \in Firms
    PROVE  /\ Causes(c) \subseteq ({"subscription"} \X Nat) \cup ({"grant"} \X Nat)
           /\ \A x \in Causes(c) :
                \/ x[1] = "grant" /\ x[2] \in OpenGrants(c)
                \/ /\ x = <<"subscription", InForce.grace>>
                   /\ x[1] = "subscription" /\ x[2] = InForce.grace
                   /\ InGoodStanding(standing[c], InForce, day)
           /\ InGoodStanding(standing[c], InForce, day) => Causes(c) # {}
           /\ OpenGrants(c) # {} => Causes(c) # {}
<1>1. InForce.grace \in Nat
  BY InForceTyped
<1>2. OpenGrants(c) \subseteq Nat
  BY DEF OpenGrants
<1>3. \A x \in Causes(c) :
        \/ \E i \in OpenGrants(c) : x = <<"grant", i>>
        \/ x = <<"subscription", InForce.grace>> /\ InGoodStanding(standing[c], InForce, day)
  BY DEF Causes
<1>4. \A i \in OpenGrants(c) : <<"grant", i>> \in Causes(c)
  BY DEF Causes
<1>5. InGoodStanding(standing[c], InForce, day) => <<"subscription", InForce.grace>> \in Causes(c)
  BY DEF Causes
<1>6. ASSUME NEW x \in Causes(c)
      PROVE  /\ x \in ({"subscription"} \X Nat) \cup ({"grant"} \X Nat)
             /\ \/ x[1] = "grant" /\ x[2] \in OpenGrants(c)
                \/ /\ x = <<"subscription", InForce.grace>>
                   /\ x[1] = "subscription" /\ x[2] = InForce.grace
                   /\ InGoodStanding(standing[c], InForce, day)
  <2>1. CASE \E i \in OpenGrants(c) : x = <<"grant", i>>
    BY <1>2, <2>1
  <2>2. CASE /\ x = <<"subscription", InForce.grace>>
             /\ InGoodStanding(standing[c], InForce, day)
    <3>1. x \in {"subscription"} \X Nat
      BY <1>1, <2>2
    <3>2. x[1] = "subscription" /\ x[2] = InForce.grace
      BY <2>2
    <3>. QED  BY <2>2, <3>1, <3>2
  <2>. QED  BY <1>3, <2>1, <2>2
<1>7. /\ InGoodStanding(standing[c], InForce, day) => Causes(c) # {}
      /\ OpenGrants(c) # {} => Causes(c) # {}
  BY <1>4, <1>5
<1>8. Causes(c) \subseteq ({"subscription"} \X Nat) \cup ({"grant"} \X Nat)
  BY <1>6
<1>. QED  BY <1>6, <1>7, <1>8

(* What Watch makes of the histories of slot s, which is at q now.         *)
LEMMA Watched ==
    ASSUME Watch, NEW s \in Requests, NEW q \in PaywallRequests, q = wreq'[s]
    PROVE  /\ ~Checks(q) => steady'[s] = {} /\ ever'[s] = FALSE
           /\ Checks(q) =>
                /\ wreq[s] = Idle => /\ steady'[s] = Causes(q.firm)'
                                     /\ ever'[s] <=> Causes(q.firm)' # {}
                /\ wreq[s] # Idle =>
                     /\ steady'[s] = steady[s] \cap Causes(q.firm)'
                     /\ ever'[s] <=> Causes(q.firm)' # {} \/ ever[s] \/ InForce' # InForce
<1>1. Checks(q) => q.firm \in Firms
  BY IdleOrChecks
<1>2. Checks(q) => AllCauses'[q.firm] = Causes(q.firm)'
  BY <1>1 DEF AllCauses
<1>3. steady'[s] = IF ~Checks(q) THEN {}
                   ELSE IF wreq[s] = Idle THEN AllCauses'[q.firm]
                   ELSE steady[s] \cap AllCauses'[q.firm]
  BY DEF Watch
<1>4. ever'[s] = /\ Checks(q)
                 /\ \/ AllCauses'[q.firm] # {}
                    \/ wreq[s] # Idle /\ (ever[s] \/ InForce' # InForce)
  BY DEF Watch
<1>5. CASE ~Checks(q)
  BY <1>3, <1>4, <1>5
<1>6. CASE Checks(q)
  <2>1. wreq[s] = Idle => steady'[s] = Causes(q.firm)'
    BY <1>2, <1>3, <1>6
  <2>2. wreq[s] # Idle => steady'[s] = steady[s] \cap Causes(q.firm)'
    BY <1>2, <1>3, <1>6
  <2>3. wreq[s] = Idle => (ever'[s] <=> Causes(q.firm)' # {})
    BY <1>2, <1>4, <1>6, Zenon
  <2>4. wreq[s] # Idle =>
          (ever'[s] <=> Causes(q.firm)' # {} \/ ever[s] \/ InForce' # InForce)
    BY <1>2, <1>4, <1>6, Zenon
  <2>. QED  BY <1>6, <2>1, <2>2, <2>3, <2>4
<1>. QED  BY <1>5, <1>6

(* Who does not move has been treated fairly all the same.                 *)
LEMMA FairStays ==
    ASSUME WInv, Watch, NEW s \in Requests, NEW q \in PaywallRequests,
           q = wreq[s], q = wreq'[s]
    PROVE  FairFor(q, steady[s], ever[s])'
<1>1. FairFor(q, steady[s], ever[s])
  BY WTyped DEF Fair
<1>2. CASE ~Checks(q)
  <2>1. q.at \notin {"read subscription", "read grant", "refused", "let in"}
    BY <1>2, WShapes, WhoChecks
  <2>. QED  BY <1>2, <2>1 DEF FairFor
<1>3. CASE Checks(q)
  <2>1. q # Idle
    BY <1>3, IdleOrChecks
  <2>2. /\ steady'[s] = steady[s] \cap Causes(q.firm)'
        /\ ever'[s] <=> Causes(q.firm)' # {} \/ ever[s] \/ InForce' # InForce
    BY <1>3, <2>1, Watched
  <2>3. PICK S, T : S = steady[s] /\ T = steady'[s]
    OBVIOUS
  <2>4. T \subseteq S /\ T \subseteq Causes(q.firm)'
    BY <2>2, <2>3
  <2>5. ever[s] => ever'[s]
    BY <2>2
  <2>6. q.at = "read subscription" =>
          /\ \A x \in T : x[1] = "subscription" => x[2] = q.seen.grace
          /\ ever'[s] \/ q.seen = InForce'
    BY <1>1, <2>2, <2>3, <2>4 DEF FairFor
  <2>7. q.at = "read grant" =>
          /\ q.good => ever'[s]
          /\ ~q.good => \A x \in T : x[1] # "subscription"
    BY <1>1, <2>3, <2>4, <2>5 DEF FairFor
  <2>8. /\ q.at = "refused" => T = {}
        /\ q.at = "let in" => ever'[s]
    BY <1>1, <2>3, <2>4, <2>5 DEF FairFor
  <2>. QED  BY <2>3, <2>4, <2>6, <2>7, <2>8 DEF FairFor
<1>. QED  BY <1>2, <1>3

LEMMA FairKept ==
    ASSUME WInv, Watch, wreq' \in [Requests -> PaywallRequests],
           terms' \in Settings \cup {NoTerms}, grants' \in Seq(GrantDocs),
           \A s \in Requests :
               wreq'[s] = wreq[s] \/ FairFor(wreq[s], steady[s], ever[s])'
    PROVE  /\ Fair'
           /\ steady' \in [Requests -> SUBSET (({"subscription"} \X Nat) \cup ({"grant"} \X Nat))]
           /\ ever' \in [Requests -> BOOLEAN]
<1> DEFINE All == ({"subscription"} \X Nat) \cup ({"grant"} \X Nat)
<1>1. ASSUME NEW s \in Requests PROVE FairFor(wreq[s], steady[s], ever[s])'
  <2>1. CASE wreq'[s] = wreq[s]
    <3>1. PICK q \in PaywallRequests : q = wreq'[s]
      OBVIOUS
    <3>2. FairFor(q, steady[s], ever[s])'
      BY <2>1, <3>1, FairStays
    <3>3. q = wreq[s]'
      BY <3>1
    <3>. QED  BY <3>2, <3>3
  <2>. QED  BY <2>1
<1>2. Fair'
  BY <1>1 DEF Fair
<1>3. ASSUME NEW c \in Firms PROVE Causes(c)' \subseteq All
  <2>1. InForce'.grace \in Nat
    <3>1. DefaultTerms.grace \in Nat
      BY PaywallAssumption DEF DefaultTerms
    <3>2. CASE terms' \in Settings
      <4>1. terms'.grace \in Nat
        BY <3>2, PaywallAssumption DEF Settings
      <4>. QED  BY <3>1, <4>1 DEF InForce
    <3>3. CASE terms' = NoTerms
      <4>1. ~terms'.made
        BY <3>3 DEF NoTerms
      <4>. QED  BY <3>1, <4>1 DEF InForce
    <3>. QED  BY <3>2, <3>3
  <2>2. OpenGrants(c)' \subseteq Nat
    BY DEF OpenGrants
  <2>3. ASSUME NEW x \in Causes(c)' PROVE x \in All
    <3>1. \/ \E i \in OpenGrants(c)' : x = <<"grant", i>>
          \/ x = <<"subscription", InForce'.grace>>
      BY DEF Causes
    <3>2. CASE \E i \in OpenGrants(c)' : x = <<"grant", i>>
      BY <2>2, <3>2
    <3>3. CASE x = <<"subscription", InForce'.grace>>
      BY <2>1, <3>3
    <3>. QED  BY <3>1, <3>2, <3>3
  <2>. QED  BY <2>3
<1>4. ASSUME NEW s \in Requests PROVE steady'[s] \in SUBSET All /\ ever'[s] \in BOOLEAN
  <2>1. PICK q \in PaywallRequests : q = wreq'[s]
    OBVIOUS
  <2>2. CASE ~Checks(q)
    <3>1. steady'[s] = {} /\ ever'[s] = FALSE
      BY <2>1, <2>2, Watched
    <3>. QED  BY <3>1
  <2>3. CASE Checks(q)
    <3>1. q.firm \in Firms
      BY <2>3, IdleOrChecks
    <3>2. Causes(q.firm)' \subseteq All
      BY <1>3, <3>1
    <3>3. steady'[s] \subseteq Causes(q.firm)'
      BY <2>1, <2>3, Watched
    <3>4. ever'[s] \in BOOLEAN
      BY DEF Watch
    <3>. QED  BY <3>2, <3>3, <3>4
  <2>. QED  BY <2>2, <2>3
<1>5. /\ steady' = [s \in Requests |-> steady'[s]]
      /\ ever' = [s \in Requests |-> ever'[s]]
  BY DEF Watch
<1>6. steady' \in [Requests -> SUBSET All] /\ ever' \in [Requests -> BOOLEAN]
  BY <1>4, <1>5
<1>. QED  BY <1>2, <1>6

(* The step of a slot, which goes on to p.                                 *)
LEMMA PaywallOn ==
    ASSUME WInv, Watch, NEW r \in Requests, NEW p \in PaywallRequests, Goes(wreq, r, p),
           NEW q, q = wreq[r],
           UNCHANGED <<overlap, faults>>, Bills', Bounded', Recorded', SettingsKept',
           Refers(p)', Len(grants) <= Len(grants'), terms.made => terms'.made,
           FairFor(p, steady[r], ever[r])',
           ~overlap => q # Idle \/ AllIdle(wreq),
           ~overlap /\ Orderly(q) => Orderly(p)'
    PROVE  WInv'
<1>1. /\ wreq' \in [Requests -> PaywallRequests] /\ wreq'[r] = p
      /\ \A s \in Requests \ {r} : wreq'[s] = wreq[s]
  BY WTyped DEF Goes
<1>2. terms' \in Settings \cup {NoTerms} /\ grants' \in Seq(GrantDocs)
  BY DEF Bills
<1>3. \A s \in Requests : wreq'[s] = wreq[s] \/ FairFor(wreq[s], steady[s], ever[s])'
  <2>1. p = wreq[r]'
    BY <1>1
  <2>2. FairFor(wreq[r], steady[r], ever[r])'
    BY <2>1
  <2>. QED  BY <1>1, <2>2
<1>4. /\ Fair'
      /\ steady' \in [Requests -> SUBSET (({"subscription"} \X Nat) \cup ({"grant"} \X Nat))]
      /\ ever' \in [Requests -> BOOLEAN]
  BY <1>1, <1>2, <1>3, FairKept
<1>5. Len(grants') <= PaywallMoves
  <2>1. Len(grants)' + Cardinality(Granting)' <= wmoves' /\ IsFiniteSet(Granting)'
    BY DEF Bounded
  <2>2. Cardinality(Granting)' \in Nat
    BY <2>1, FS_CardinalityType
  <2>3. wmoves' \in 0 .. PaywallMoves /\ PaywallMoves \in Nat /\ Len(grants') \in Nat
    BY <1>2, PaywallAssumption DEF Bills
  <2>. QED  BY <2>1, <2>2, <2>3
<1>6. TypeOKPaywall'
  BY <1>1, <1>4, <1>5 DEF TypeOKPaywall, Bills
<1>7. ASSUME NEW s \in Requests PROVE Refers(wreq[s])'
  <2>1. CASE s = r
    BY <1>1, <2>1 DEF Refers
  <2>2. CASE s # r
    <3>1. PICK x : x = wreq[s]
      OBVIOUS
    <3>2. Refers(x)
      BY <3>1, WTyped
    <3>3. x = wreq'[s]
      BY <1>1, <2>2, <3>1
    <3>4. DOMAIN grants \subseteq DOMAIN grants'
      BY <1>2, WTyped
    <3>. QED  BY <3>2, <3>3, <3>4 DEF Refers
  <2>. QED  BY <2>1, <2>2
<1>8. ASSUME ~overlap
      PROVE  \E x \in {Idle} \cup {wreq'[s] : s \in Requests} : Sole(x)' /\ Orderly(x)'
  <2>1. PICK x : Sole(x) /\ Orderly(x)
    BY <1>8 DEF WInv
  <2>2. q = x /\ \A s \in Requests \ {r} : wreq[s] = Idle
    BY <1>8, <2>1 DEF Sole, AllIdle
  <2>3. Orderly(p)'
    BY <1>8, <2>1, <2>2
  <2>4. Sole(p)'
    BY <1>1, <2>2 DEF Sole, AllIdle
  <2>5. p \in {Idle} \cup {wreq'[s] : s \in Requests}
    BY <1>1
  <2>. QED  BY <2>3, <2>4, <2>5
<1>9. overlap' = overlap
  OBVIOUS
<1>. QED  BY <1>4, <1>6, <1>7, <1>8, <1>9 DEF WInv

LEMMA StillMore ==
    \A m, n : m \in Nat /\ n = m => n \in Nat /\ n >= m
OBVIOUS

LEMMA Room ==
    \A a, b, l, m, n \in Nat : l + a <= m /\ b <= a /\ m <= n => l + b <= n
OBVIOUS

(* The requests that are making a grant.                                   *)
LEMMA SameBound ==
    ASSUME WInv, NEW r \in Requests, NEW p \in PaywallRequests, Goes(wreq, r, p),
           p.at \in {"revoke others", "insert grant"} => r \in Granting,
           grants' \in Seq(GrantDocs), Len(grants') = Len(grants), wmoves' \in Nat, wmoves' >= wmoves
    PROVE  Bounded'
<1>1. /\ wreq'[r] = p /\ \A s \in Requests \ {r} : wreq'[s] = wreq[s]
  BY WTyped DEF Goes
<1>2. Granting' \subseteq Granting
  BY <1>1 DEF Granting
<1>3. IsFiniteSet(Granting) /\ Len(grants) + Cardinality(Granting) <= wmoves
  BY WTyped DEF Bounded
<1>4. /\ IsFiniteSet(Granting') /\ Cardinality(Granting') <= Cardinality(Granting)
      /\ Cardinality(Granting) \in Nat /\ Cardinality(Granting') \in Nat
  BY <1>2, <1>3, FS_Subset, FS_CardinalityType
<1>5. wmoves \in Nat /\ Len(grants) \in Nat
  BY WTyped, Zenon
<1>6. PICK a, b, l, m, n : /\ a = Cardinality(Granting) /\ b = Cardinality(Granting')
                           /\ l = Len(grants) /\ m = wmoves /\ n = wmoves'
  OBVIOUS
<1>7. l + b <= n
  <2>1. m \in Nat
    BY <1>5, <1>6, Zenon
  <2>2. a \in Nat /\ b \in Nat /\ l \in Nat /\ n \in Nat
    BY <1>4, <1>5, <1>6, Zenon
  <2>3. l + a <= m /\ b <= a /\ m <= n
    BY <1>3, <1>4, <1>6, Zenon
  <2>. QED  BY <2>1, <2>2, <2>3, Room, Zenon
<1>. QED  BY <1>4, <1>6, <1>7 DEF Bounded

LEMMA MoreBound ==
    ASSUME WInv, NEW r \in Requests, NEW p \in PaywallRequests, Goes(wreq, r, p),
           grants' = grants, wmoves' = wmoves + 1
    PROVE  Bounded'
<1>1. /\ wreq'[r] = p /\ \A s \in Requests \ {r} : wreq'[s] = wreq[s]
  BY WTyped DEF Goes
<1>2. Granting' \subseteq Granting \cup {r}
  BY <1>1 DEF Granting
<1>3. IsFiniteSet(Granting) /\ Len(grants) + Cardinality(Granting) <= wmoves
  BY WTyped DEF Bounded
<1>4. /\ IsFiniteSet(Granting \cup {r}) /\ Cardinality(Granting) \in Nat
      /\ Cardinality(Granting \cup {r}) <= Cardinality(Granting) + 1
      /\ Cardinality(Granting \cup {r}) \in Nat
  <2>1. Cardinality(Granting) \in Nat
    BY <1>3, FS_CardinalityType
  <2>2. /\ IsFiniteSet(Granting \cup {r})
        /\ \/ Cardinality(Granting \cup {r}) = Cardinality(Granting)
           \/ Cardinality(Granting \cup {r}) = Cardinality(Granting) + 1
    BY <1>3, FS_AddElement
  <2>. QED  BY <2>1, <2>2
<1>5. /\ IsFiniteSet(Granting') /\ Cardinality(Granting') \in Nat
      /\ Cardinality(Granting') <= Cardinality(Granting \cup {r})
  BY <1>2, <1>4, FS_Subset, FS_CardinalityType
<1>6. wmoves \in Nat /\ Len(grants) \in Nat
  BY WTyped, PaywallAssumption
<1>7. PICK a, b, c : /\ a = Cardinality(Granting) /\ b = Cardinality(Granting')
                     /\ c = Cardinality(Granting \cup {r})
  OBVIOUS
<1>8. Len(grants') + b <= wmoves'
  BY <1>3, <1>4, <1>5, <1>6, <1>7
<1>. QED  BY <1>5, <1>7, <1>8 DEF Bounded

LEMMA LessBound ==
    ASSUME WInv, NEW r \in Requests, r \in Granting, Ends(wreq, r),
           grants' \in Seq(GrantDocs), Len(grants') = Len(grants) + 1, wmoves' = wmoves
    PROVE  Bounded' /\ Len(grants) + 1 <= PaywallMoves
<1>1. /\ wreq'[r] = Idle /\ \A s \in Requests \ {r} : wreq'[s] = wreq[s]
  BY WTyped DEF Goes, Ends
<1>2. r \in Granting /\ Granting' \subseteq Granting \ {r}
  BY <1>1, WWork DEF Granting
<1>3. IsFiniteSet(Granting) /\ Len(grants) + Cardinality(Granting) <= wmoves
  BY WTyped DEF Bounded
<1>4. /\ IsFiniteSet(Granting \ {r}) /\ Cardinality(Granting) \in Nat
      /\ Cardinality(Granting \ {r}) = Cardinality(Granting) - 1
      /\ Cardinality(Granting \ {r}) \in Nat
  BY <1>2, <1>3, FS_RemoveElement, FS_CardinalityType
<1>5. /\ IsFiniteSet(Granting') /\ Cardinality(Granting') \in Nat
      /\ Cardinality(Granting') <= Cardinality(Granting \ {r})
  BY <1>2, <1>4, FS_Subset, FS_CardinalityType
<1>6. wmoves \in 0 .. PaywallMoves /\ Len(grants) \in Nat /\ PaywallMoves \in Nat
  BY WTyped, PaywallAssumption
<1>7. PICK a, b, c, l, m : /\ a = Cardinality(Granting) /\ b = Cardinality(Granting')
                           /\ c = Cardinality(Granting \ {r})
                           /\ l = Len(grants) /\ m = wmoves
  OBVIOUS
<1>8. l + 1 + b <= m /\ l + 1 <= PaywallMoves
  <2>1. /\ a \in Nat /\ b \in Nat /\ c \in Nat /\ l \in Nat /\ m \in Nat
        /\ m <= PaywallMoves /\ PaywallMoves \in Nat
    BY <1>4, <1>5, <1>6, <1>7
  <2>2. l + a <= m /\ b <= c /\ c = a - 1
    BY <1>3, <1>4, <1>5, <1>7
  <2>. QED  BY <2>1, <2>2
<1>. QED  BY <1>5, <1>7, <1>8 DEF Bounded

LEMMA PaywallStarts ==
    ASSUME WInv, NEW r \in Requests, StartPaywall(r)
    PROVE  /\ wmoves' \in 0 .. PaywallMoves /\ wmoves' = wmoves + 1 /\ wmoves' >= wmoves
           /\ wreq[r] = Idle
           /\ ~overlap => wreq[r] # Idle \/ AllIdle(wreq)
<1>1. wmoves \in 0 .. PaywallMoves /\ wmoves < PaywallMoves /\ wmoves' = wmoves + 1
  BY WTyped DEF StartPaywall
<1>2. PaywallMoves \in Nat
  BY PaywallAssumption
<1>3. wmoves' \in 0 .. PaywallMoves /\ wmoves' >= wmoves
  BY <1>1, <1>2
<1>4. MayStart(wreq, r)
  BY DEF StartPaywall
<1>5. wreq[r] = Idle /\ (~overlap => wreq[r] # Idle \/ AllIdle(wreq))
  BY <1>4, Zenon DEF MayStart
<1>. QED  BY <1>1, <1>3, <1>5

(* Whoever does not check is not watched.                                  *)
LEMMA NotChecking ==
    ASSUME NEW p \in TermsWork \cup GrantWork \cup RevokeWork \cup {Idle}
    PROVE  /\ p \in PaywallRequests /\ ~Checks(p)
           /\ p.at \notin {"read subscription", "read grant", "refused", "let in"}
<1>1. Idle.at = "idle"
  BY WWork
<1>. QED  BY <1>1, WhoChecks, WWork DEF TermsWork, GrantWork, RevokeWork

(* A request that starts or goes on, and changes no record.                *)
LEMMA PaywallMovesOn ==
    ASSUME WInv, Watch, NEW r \in Requests, NEW p \in PaywallRequests, Goes(wreq, r, p),
           NEW q, q = wreq[r],
           UNCHANGED <<overlap, faults, day, standing, grants, terms, granted, ended, chosen>>,
           wmoves' \in 0 .. PaywallMoves, Bounded', Refers(p),
           FairFor(p, steady[r], ever[r])',
           ~overlap => q # Idle \/ AllIdle(wreq),
           ~overlap /\ Orderly(q) => Orderly(p)
    PROVE  WInv'
<1>1. /\ overlap' = overlap /\ faults' = faults /\ day' = day /\ standing' = standing
      /\ grants' = grants /\ terms' = terms /\ granted' = granted /\ ended' = ended
      /\ chosen' = chosen
  OBVIOUS
<1>2. Bills'
  BY <1>1, WTyped DEF Bills
<1>3. Recorded' /\ SettingsKept'
  BY <1>1, WTyped DEF Recorded, SettingsKept
<1>4. Refers(p)'
  BY <1>1 DEF Refers
<1>5. Len(grants) <= Len(grants')
  BY <1>1, WTyped
<1>6. Orderly(p) => Orderly(p)'
  <2>1. \A c : OpenGrants(c)' = OpenGrants(c)
    BY <1>1 DEF OpenGrants
  <2>2. faults' <=> faults
    BY <1>1
  <2>. QED  BY <1>1, <2>1, <2>2, Zenon DEF Orderly
<1>7. terms.made => terms'.made
  BY <1>1
<1>8. ~overlap /\ Orderly(q) => Orderly(p)'
  BY <1>6
<1>. QED  BY <1>1, <1>2, <1>3, <1>4, <1>5, <1>7, <1>8, PaywallOn

-----------------------------------------------------------------------------
(* Each step keeps the invariant.                                          *)

LEMMA PaywallStartsWell ==
    ASSUME PaywallInit
    PROVE  WInv
<1>1. /\ day = 0 /\ standing = [c \in Firms |-> [status |-> "none"]] /\ grants = <<>>
      /\ terms = NoTerms /\ granted = [c \in Firms |-> 0] /\ ended = {} /\ chosen = <<>>
      /\ steady = [r \in Requests |-> {}] /\ ever = [r \in Requests |-> FALSE]
      /\ wreq = [r \in Requests |-> Idle] /\ wmoves = 0
  BY DEF PaywallInit
<1>2. LastDay \in Nat /\ PaywallMoves \in Nat
  BY PaywallAssumption
<1>3. grants \in Seq(GrantDocs) /\ Len(grants) = 0 /\ DOMAIN grants = {}
  BY <1>1
<1>4. \A r \in Requests : wreq[r] = Idle
  BY <1>1
<1>5. [status |-> "none"] \in Standings
  BY DEF Standings
<1>6. TypeOKPaywall
  <2>1. day \in Days /\ wmoves \in 0 .. PaywallMoves /\ 0 \in 0 .. PaywallMoves
    BY <1>1, <1>2 DEF Days
  <2>2. standing \in [Firms -> Standings] /\ granted \in [Firms -> 0 .. PaywallMoves]
    BY <1>1, <1>5, <2>1
  <2>3. wreq \in [Requests -> PaywallRequests]
    BY <1>1, WWork
  <2>4. /\ steady \in [Requests -> SUBSET (({"subscription"} \X Nat) \cup ({"grant"} \X Nat))]
        /\ ever \in [Requests -> BOOLEAN]
    BY <1>1
  <2>. QED  BY <1>1, <1>2, <1>3, <2>1, <2>2, <2>3, <2>4 DEF TypeOKPaywall
<1>7. Bounded
  <2>1. Granting = {}
    BY <1>4, WWork DEF Granting
  <2>2. IsFiniteSet(Granting) /\ Cardinality(Granting) = 0
    BY <2>1, FS_EmptySet
  <2>. QED  BY <1>1, <1>3, <2>2 DEF Bounded
<1>8. Recorded
  BY <1>1 DEF Recorded
<1>9. SettingsKept
  BY <1>1 DEF SettingsKept
<1>10. Fair
  <2>1. \A r \in Requests : FairFor(Idle, steady[r], ever[r])
    BY WhoChecks, WWork DEF FairFor
  <2>. QED  BY <1>4, <2>1 DEF Fair
<1>11. \A r \in Requests : Refers(wreq[r])
  BY <1>4, WWork DEF Refers
<1>12. Sole(Idle)
  BY <1>4 DEF Sole
<1>13. Orderly(Idle)
  BY <1>1, <1>3, WWork DEF Orderly, OpenGrants
<1>. QED  BY <1>6, <1>7, <1>8, <1>9, <1>10, <1>11, <1>12, <1>13 DEF WInv

(* A check that is looking for the settings has nothing to be held to yet, *)
(* and whoever does not check never has.                                   *)
LEMMA LookingFair ==
    ASSUME Watch, NEW r \in Requests, NEW p \in PaywallRequests, p = wreq'[r],
           p.at \in {"find settings", "make settings"}
    PROVE  FairFor(p, steady[r], ever[r])'
<1>1. Checks(p) => steady'[r] \subseteq Causes(p.firm)'
  BY Watched
<1>. QED  BY <1>1 DEF FairFor

LEMMA AsideFair ==
    ASSUME NEW r \in Requests, NEW p \in TermsWork \cup GrantWork \cup RevokeWork \cup {Idle}
    PROVE  FairFor(p, steady[r], ever[r])'
BY NotChecking DEF FairFor

LEMMA SamePlace ==
    ASSUME WInv, NEW r \in Requests, NEW p \in PaywallRequests, Goes(wreq, r, p)
    PROVE  p = wreq'[r]
BY WTyped DEF Goes

LEMMA SameCauses ==
    ASSUME UNCHANGED <<day, standing, grants>>, InForce' = InForce
    PROVE  \A c \in Firms : Causes(c)' = Causes(c)
<1>1. \A c : OpenGrants(c)' = OpenGrants(c)
  BY DEF OpenGrants
<1>2. day' = day /\ standing' = standing
  OBVIOUS
<1>3. ASSUME NEW c \in Firms PROVE Causes(c)' = Causes(c)
  <2>1. InGoodStanding(standing[c], InForce, day)' <=> InGoodStanding(standing[c], InForce, day)
    BY <1>2 DEF InGoodStanding
  <2>. QED  BY <1>1, <2>1 DEF Causes
<1>. QED  BY <1>3

(* A check that has found the settings.                                    *)
LEMMA AskingFair ==
    ASSUME WInv, Watch, NEW r \in Requests, NEW p \in AskWork, p = wreq'[r],
           UNCHANGED <<day, standing, grants>>, InForce' = InForce, p.seen = InForce
    PROVE  FairFor(p, steady[r], ever[r])'
<1>1. Checks(p) /\ p.firm \in Firms /\ p \in PaywallRequests /\ p.at = "read subscription"
  BY WhoChecks, WWork DEF AskWork
<1>2. steady'[r] \subseteq Causes(p.firm)'
  BY <1>1, Watched
<1>3. Causes(p.firm)' = Causes(p.firm)
  BY <1>1, SameCauses
<1>4. \A x \in Causes(p.firm) : x[1] = "subscription" => x[2] = InForce.grace
  BY <1>1, CausesTyped, WTyped
<1>5. p.seen = InForce'
  OBVIOUS
<1>6. \A x \in steady'[r] : x[1] = "subscription" => x[2] = p.seen.grace
  BY <1>2, <1>3, <1>4
<1>. QED  BY <1>1, <1>2, <1>5, <1>6 DEF FairFor

LEMMA Enters ==
    ASSUME WInv, Watch, NEW r \in Requests, NEW c \in Firms, Enter(r, c)
    PROVE  WInv'
<1>1. PICK p : p = [at |-> "find settings", firm |-> c]
  OBVIOUS
<1>2. p \in CheckWork /\ p \in PaywallRequests /\ p.at = "find settings"
  <2>1. p \in CheckWork /\ p.at = "find settings"
    BY <1>1 DEF CheckWork
  <2>. QED  BY <2>1, WWork
<1>3. /\ StartPaywall(r) /\ Goes(wreq, r, p)
      /\ UNCHANGED <<overlap, faults, day, standing, grants, terms, granted, ended, chosen>>
  BY <1>1 DEF Enter, records
<1>4. /\ wmoves' \in 0 .. PaywallMoves /\ wmoves' \in Nat /\ wmoves' >= wmoves
      /\ wreq[r] = Idle /\ (~overlap => wreq[r] # Idle \/ AllIdle(wreq))
  BY <1>3, PaywallStarts
<1>5. Bounded'
  BY <1>2, <1>3, <1>4, SameBound, WTyped
<1>6. Refers(p)
  BY <1>2 DEF Refers
<1>7. FairFor(p, steady[r], ever[r])'
  BY <1>2, <1>3, SamePlace, LookingFair
<1>8. Orderly(Idle) => Orderly(p)
  BY <1>2, WWork DEF Orderly
<1>. QED  BY <1>2, <1>3, <1>4, <1>5, <1>6, <1>7, <1>8, PaywallMovesOn

LEMMA UpdateStarts ==
    ASSUME WInv, Watch, NEW r \in Requests, UpdateSettings(r)
    PROVE  WInv'
<1>1. PICK x \in SettingsPatches : Goes(wreq, r, [at |-> "find settings", patch |-> x])
  BY DEF UpdateSettings
<1>2. PICK p : p = [at |-> "find settings", patch |-> x]
  OBVIOUS
<1>3. p \in TermsWork /\ p \in PaywallRequests /\ p.at = "find settings"
  <2>1. p \in TermsWork /\ p.at = "find settings"
    BY <1>2 DEF TermsWork
  <2>. QED  BY <2>1, WWork
<1>4. /\ StartPaywall(r) /\ Goes(wreq, r, p)
      /\ UNCHANGED <<overlap, faults, day, standing, grants, terms, granted, ended, chosen>>
  BY <1>1, <1>2 DEF UpdateSettings, records
<1>5. /\ wmoves' \in 0 .. PaywallMoves /\ wmoves' \in Nat /\ wmoves' >= wmoves
      /\ wreq[r] = Idle /\ (~overlap => wreq[r] # Idle \/ AllIdle(wreq))
  BY <1>4, PaywallStarts
<1>6. Bounded'
  BY <1>3, <1>4, <1>5, SameBound, WTyped
<1>7. Refers(p)
  BY <1>3 DEF Refers
<1>8. FairFor(p, steady[r], ever[r])'
  BY <1>3, <1>4, SamePlace, LookingFair
<1>9. Orderly(Idle) => Orderly(p)
  BY <1>3, WWork DEF Orderly
<1>. QED  BY <1>3, <1>4, <1>5, <1>6, <1>7, <1>8, <1>9, PaywallMovesOn

(* A request that goes on, changes no record and makes no grant.           *)
LEMMA OnlyGoesOn ==
    ASSUME WInv, Watch, NEW r \in Requests, NEW p \in PaywallRequests, Goes(wreq, r, p),
           NEW q, q = wreq[r], q # Idle,
           UNCHANGED <<overlap, faults, wmoves, day, standing, grants, terms,
                       granted, ended, chosen>>,
           p.at \notin {"revoke others", "insert grant", "revoke"}, Refers(p),
           FairFor(p, steady[r], ever[r])',
           faults \/ q.at # "insert grant"
    PROVE  WInv'
<1>1. Bounded'
  <2>1. wmoves' \in Nat /\ wmoves' >= wmoves
    <3>1. wmoves \in Nat
      BY WTyped, Zenon
    <3>2. wmoves' = wmoves
      OBVIOUS
    <3>. QED  BY <3>1, <3>2, StillMore, Zenon
  <2>2. grants' \in Seq(GrantDocs) /\ Len(grants') = Len(grants)
    BY WTyped
  <2>. QED  BY <2>1, <2>2, SameBound
<1>2. Orderly(q) => Orderly(p)
  BY DEF Orderly
<1>3. wmoves' \in 0 .. PaywallMoves
  BY WTyped
<1>4. UNCHANGED <<overlap, faults, day, standing, grants, terms, granted, ended, chosen>>
  OBVIOUS
<1>. QED  BY <1>1, <1>2, <1>3, <1>4, PaywallMovesOn

LEMMA AtHand ==
    ASSUME WInv, NEW r \in Requests
    PROVE  /\ wreq[r] \in PaywallRequests /\ Refers(wreq[r])
           /\ FairFor(wreq[r], steady[r], ever[r])
BY WTyped DEF Fair

LEMMA SettingsFound ==
    ASSUME WInv, Watch, NEW r \in Requests, FindSettings(r)
    PROVE  WInv'
<1>1. PICK q \in PaywallRequests : q = wreq[r]
  BY WTyped
<1>2. /\ q.at = "find settings" /\ q # Idle /\ q.at # "insert grant"
      /\ IF terms.made THEN WithSettings(r, q, terms)
                       ELSE Goes(wreq, r, [q EXCEPT !.at = "make settings"])
      /\ UNCHANGED <<overlap, faults, wmoves, day, standing, grants, terms,
                     granted, ended, chosen>>
  <2>1. q.at = "find settings"
    BY <1>1 DEF FindSettings, WithSettings, Goes
  <2>2. q # Idle /\ q.at # "insert grant"
    BY <2>1, WWork
  <2>3. IF terms.made THEN WithSettings(r, q, terms)
                      ELSE Goes(wreq, r, [q EXCEPT !.at = "make settings"])
    BY <1>1 DEF FindSettings, WithSettings, Goes
  <2>4. UNCHANGED <<overlap, faults, wmoves, day, standing, grants, terms,
                    granted, ended, chosen>>
    BY DEF FindSettings, wkept, records
  <2>. QED  BY <2>1, <2>2, <2>3, <2>4
<1>3. UNCHANGED <<day, standing, grants>> /\ InForce' = InForce
  BY <1>2 DEF InForce
<1>4. CASE terms.made /\ q \in CheckWork
  <2>1. PICK p : p = [at |-> "read subscription", firm |-> q.firm, seen |-> terms]
    OBVIOUS
  <2>2. terms \in Settings /\ InForce = terms
    BY <1>4, InForceTyped, WTyped
  <2>3. /\ p \in AskWork /\ p \in PaywallRequests
        /\ p.at = "read subscription" /\ p.seen = InForce
    <3>1. p \in AskWork /\ p.at = "read subscription" /\ p.seen = terms
      BY <1>4, <2>1, <2>2 DEF AskWork, CheckWork
    <3>. QED  BY <2>2, <3>1, WWork
  <2>4. Goes(wreq, r, p)
    BY <1>2, <1>4, <2>1, WhoChecks DEF WithSettings
  <2>5. FairFor(p, steady[r], ever[r])'
    BY <1>3, <2>3, <2>4, SamePlace, AskingFair
  <2>6. Refers(p)
    BY <2>3 DEF Refers
  <2>. QED  BY <1>1, <1>2, <2>3, <2>4, <2>5, <2>6, OnlyGoesOn
<1>5. CASE terms.made /\ q \in TermsWork
  <2>1. PICK p : p = [q EXCEPT !.at = "patch settings"]
    OBVIOUS
  <2>2. p \in TermsWork /\ p \in PaywallRequests /\ p.at = "patch settings"
    <3>1. p \in TermsWork /\ p.at = "patch settings"
      BY <1>5, <2>1 DEF TermsWork
    <3>. QED  BY <3>1, WWork
  <2>3. Goes(wreq, r, p)
    BY <1>2, <1>5, <2>1, WhoChecks DEF WithSettings
  <2>4. FairFor(p, steady[r], ever[r])'
    BY <2>2, AsideFair
  <2>5. Refers(p)
    BY <1>5, <2>2 DEF Refers
  <2>. QED  BY <1>1, <1>2, <2>2, <2>3, <2>4, <2>5, OnlyGoesOn
<1>6. CASE ~terms.made
  <2>1. PICK p : p = [q EXCEPT !.at = "make settings"]
    OBVIOUS
  <2>2. p \in CheckWork \cup TermsWork /\ p.at = "make settings"
    BY <1>2, <2>1, WShapes DEF CheckWork, TermsWork
  <2>3. p \in PaywallRequests
    BY <2>2, WWork
  <2>4. Goes(wreq, r, p)
    BY <1>2, <1>6, <2>1
  <2>5. FairFor(p, steady[r], ever[r])'
    BY <2>2, <2>3, <2>4, SamePlace, LookingFair
  <2>6. Refers(p)
    BY <2>2 DEF Refers
  <2>. QED  BY <1>1, <1>2, <2>2, <2>3, <2>4, <2>5, <2>6, OnlyGoesOn
<1>. QED  BY <1>2, <1>4, <1>5, <1>6, WShapes

LEMMA SettingsMade ==
    ASSUME WInv, Watch, NEW r \in Requests, MakeSettings(r)
    PROVE  WInv'
<1>1. PICK q \in PaywallRequests : q = wreq[r]
  BY WTyped
<1>2. /\ q.at = "make settings" /\ q # Idle
      /\ terms' = InForce /\ WithSettings(r, q, InForce)
      /\ UNCHANGED <<overlap, faults, wmoves, day, standing, grants, granted, ended, chosen>>
  <2>1. q.at = "make settings"
    BY <1>1, Zenon DEF MakeSettings
  <2>2. q # Idle
    BY <2>1, WWork
  <2>3. terms' = InForce /\ WithSettings(r, q, InForce)
    BY <1>1 DEF MakeSettings, InForce, WithSettings, Goes
  <2>4. UNCHANGED <<overlap, faults, wmoves, day, standing, grants, granted, ended, chosen>>
    BY DEF MakeSettings, wkept, records
  <2>. QED  BY <2>1, <2>2, <2>3, <2>4
<1>3. /\ InForce \in Settings /\ InForce.made
      /\ terms.made => InForce = terms
  BY InForceTyped, WTyped DEF Settings
<1>4. terms'.made /\ InForce' = InForce /\ UNCHANGED <<day, standing, grants>>
  BY <1>2, <1>3 DEF InForce
<1>5. Bills'
  BY <1>2, <1>3, WTyped DEF Bills
<1>6. SettingsKept'
  <2>1. chosen' = chosen
    BY <1>2
  <2>. QED  BY <1>2, <1>3, <1>4, <2>1, WTyped DEF SettingsKept
<1>7. Recorded' /\ Len(grants) <= Len(grants')
  <2>1. grants' = grants /\ granted' = granted /\ ended' = ended
    BY <1>2
  <2>. QED  BY <2>1, WTyped DEF Recorded
<1>8. ASSUME NEW p \in PaywallRequests, Goes(wreq, r, p), Refers(p)',
             p.at \in {"read subscription", "patch settings"},
             FairFor(p, steady[r], ever[r])'
      PROVE  WInv'
  <2>1. Bounded'
    <3>1. wmoves' \in Nat /\ wmoves' >= wmoves
      <4>1. wmoves \in Nat /\ wmoves' = wmoves
        BY <1>2, WTyped, Zenon
      <4>. QED  BY <4>1
    <3>2. grants' \in Seq(GrantDocs) /\ Len(grants') = Len(grants)
      BY <1>2, WTyped
    <3>. QED  BY <1>8, <3>1, <3>2, SameBound
  <2>2. Orderly(q) => Orderly(p)'
    <3>1. \A c : OpenGrants(c)' = OpenGrants(c)
      BY <1>2 DEF OpenGrants
    <3>2. /\ grants' = grants /\ granted' = granted /\ ended' = ended
          /\ faults' <=> faults
      BY <1>2
    <3>3. p.at # "insert grant" /\ q.at # "insert grant"
      BY <1>2, <1>8
    <3>. QED  BY <3>1, <3>2, <3>3, Zenon DEF Orderly
  <2>3. UNCHANGED <<overlap, faults>>
    BY <1>2
  <2>. QED  BY <1>1, <1>2, <1>4, <1>5, <1>6, <1>7, <1>8, <2>1, <2>2, <2>3, PaywallOn
<1>9. CASE q \in CheckWork
  <2>1. PICK p : p = [at |-> "read subscription", firm |-> q.firm, seen |-> InForce]
    OBVIOUS
  <2>2. /\ p \in AskWork /\ p \in PaywallRequests
        /\ p.at = "read subscription" /\ p.seen = InForce
    <3>1. p \in AskWork /\ p.at = "read subscription" /\ p.seen = InForce
      BY <1>3, <1>9, <2>1 DEF AskWork, CheckWork
    <3>. QED  BY <3>1, WWork
  <2>3. Goes(wreq, r, p)
    BY <1>2, <1>9, <2>1, WhoChecks DEF WithSettings
  <2>4. FairFor(p, steady[r], ever[r])'
    BY <1>4, <2>2, <2>3, SamePlace, AskingFair
  <2>5. Refers(p)'
    BY <2>2 DEF Refers
  <2>. QED  BY <1>8, <2>2, <2>3, <2>4, <2>5
<1>10. CASE q \in TermsWork
  <2>1. PICK p : p = [q EXCEPT !.at = "patch settings"]
    OBVIOUS
  <2>2. p \in TermsWork /\ p \in PaywallRequests /\ p.at = "patch settings"
    <3>1. p \in TermsWork /\ p.at = "patch settings"
      BY <1>10, <2>1 DEF TermsWork
    <3>. QED  BY <3>1, WWork
  <2>3. Goes(wreq, r, p)
    BY <1>2, <1>10, <2>1, WhoChecks DEF WithSettings
  <2>4. FairFor(p, steady[r], ever[r])'
    BY <2>2, AsideFair
  <2>5. Refers(p)'
    BY <1>4, <2>2 DEF Refers
  <2>. QED  BY <1>8, <2>2, <2>3, <2>4, <2>5
<1>. QED  BY <1>2, <1>9, <1>10, WShapes

LEMMA SettingsPatched ==
    ASSUME WInv, Watch, NEW r \in Requests, PatchSettings(r)
    PROVE  WInv'
<1>1. PICK q \in PaywallRequests : q = wreq[r]
  BY WTyped
<1>2. /\ q.at = "patch settings" /\ q # Idle
      /\ terms' = SetIn(q.patch, terms) /\ chosen' = SetIn(q.patch, chosen)
      /\ Ends(wreq, r)
      /\ UNCHANGED <<overlap, faults, wmoves, day, standing, grants, granted, ended>>
  BY <1>1, WWork DEF PatchSettings, wkept
<1>3. PICK f : f = q.patch
  OBVIOUS
<1>4. f \in SettingsPatches
  <2>1. q \in TermsWork
    BY <1>2, WShapes
  <2>. QED  BY <1>3, <2>1 DEF TermsWork
<1>5. terms \in Settings /\ terms.made
  <2>1. terms.made
    BY <1>1, <1>2, AtHand DEF Refers
  <2>. QED  BY <2>1, InForceTyped, WTyped
<1>6. /\ \/ DOMAIN f = {"grace"} /\ f["grace"] \in GraceDays
         \/ DOMAIN f = {"trial"} /\ f["trial"] \in Trials
      /\ DOMAIN terms = {"made", "grace", "trial"}
  BY <1>4, <1>5 DEF SettingsPatches, Settings
<1>7. /\ DOMAIN terms' = {"made", "grace", "trial"}
      /\ \A x \in DOMAIN terms' : terms'[x] = IF x \in DOMAIN f THEN f[x] ELSE terms[x]
      /\ DOMAIN chosen' = DOMAIN f \cup DOMAIN chosen
      /\ \A x \in DOMAIN chosen' : chosen'[x] = IF x \in DOMAIN f THEN f[x] ELSE chosen[x]
  BY <1>2, <1>3, <1>6 DEF SetIn
<1>8. terms' \in Settings /\ terms'.made
  <2>1. terms["made"] = TRUE /\ terms["grace"] \in GraceDays \cup {DefaultGrace}
        /\ terms["trial"] \in Trials
    BY <1>5 DEF Settings
  <2>2. /\ terms'["made"] = TRUE /\ terms'["grace"] \in GraceDays \cup {DefaultGrace}
        /\ terms'["trial"] \in Trials
    BY <1>6, <1>7, <2>1
  <2>3. terms' = [x \in {"made", "grace", "trial"} |-> terms'[x]]
    BY <1>2, <1>6, <1>7 DEF SetIn
  <2>4. terms' = [made |-> terms'["made"], grace |-> terms'["grace"], trial |-> terms'["trial"]]
    BY <2>3
  <2>. QED  BY <2>2, <2>4 DEF Settings
<1>9. /\ chosen' \in {<<>>} \cup SettingsPatches \cup [grace : GraceDays, trial : Trials]
  <2>1. chosen' = [x \in DOMAIN f \cup DOMAIN chosen |-> chosen'[x]]
    BY <1>2, <1>3, <1>7 DEF SetIn
  <2>2. \/ DOMAIN chosen = {}
        \/ DOMAIN chosen = {"grace"} /\ chosen["grace"] \in GraceDays
        \/ DOMAIN chosen = {"trial"} /\ chosen["trial"] \in Trials
        \/ /\ DOMAIN chosen = {"grace", "trial"}
           /\ chosen["grace"] \in GraceDays /\ chosen["trial"] \in Trials
    BY WTyped DEF SettingsPatches
  <2>3. \/ DOMAIN chosen' = {"grace"} /\ chosen'["grace"] \in GraceDays
        \/ DOMAIN chosen' = {"trial"} /\ chosen'["trial"] \in Trials
        \/ /\ DOMAIN chosen' = {"grace", "trial"}
           /\ chosen'["grace"] \in GraceDays /\ chosen'["trial"] \in Trials
    BY <1>6, <1>7, <2>2
  <2>4. chosen' = [x \in DOMAIN chosen' |-> chosen'[x]]
    BY <1>7, <2>1
  <2>5. CASE DOMAIN chosen' = {"grace"} /\ chosen'["grace"] \in GraceDays
    <3>1. chosen' = [grace |-> chosen'["grace"]]
      BY <2>4, <2>5
    <3>. QED  BY <2>5, <3>1 DEF SettingsPatches
  <2>6. CASE DOMAIN chosen' = {"trial"} /\ chosen'["trial"] \in Trials
    <3>1. chosen' = [trial |-> chosen'["trial"]]
      BY <2>4, <2>6
    <3>. QED  BY <2>6, <3>1 DEF SettingsPatches
  <2>7. CASE /\ DOMAIN chosen' = {"grace", "trial"}
             /\ chosen'["grace"] \in GraceDays /\ chosen'["trial"] \in Trials
    <3>1. chosen' = [grace |-> chosen'["grace"], trial |-> chosen'["trial"]]
      BY <2>4, <2>7
    <3>. QED  BY <2>7, <3>1
  <2>. QED  BY <2>3, <2>5, <2>6, <2>7
<1>10. SettingsKept'
  <2>1. \A x \in DOMAIN chosen : terms[x] = chosen[x]
    BY WTyped DEF SettingsKept
  <2>2. DOMAIN chosen \subseteq {"grace", "trial"}
    BY WTyped DEF SettingsPatches
  <2>. QED  BY <1>6, <1>7, <1>8, <2>1, <2>2 DEF SettingsKept
<1>11. Bills'
  BY <1>2, <1>8, <1>9, WTyped DEF Bills
<1>12. Recorded' /\ Len(grants) <= Len(grants')
  <2>1. grants' = grants /\ granted' = granted /\ ended' = ended
    BY <1>2
  <2>. QED  BY <2>1, WTyped DEF Recorded
<1>13. Idle \in PaywallRequests /\ Idle.at = "idle" /\ Goes(wreq, r, Idle)
  BY <1>2, WWork DEF Ends
<1>14. FairFor(Idle, steady[r], ever[r])'
  BY AsideFair
<1>15. Refers(Idle)'
  BY <1>13 DEF Refers
<1>16. Bounded'
  <2>1. wmoves' \in Nat /\ wmoves' >= wmoves
    <3>1. wmoves \in Nat /\ wmoves' = wmoves
      BY <1>2, WTyped, Zenon
    <3>. QED  BY <3>1
  <2>2. grants' \in Seq(GrantDocs) /\ Len(grants') = Len(grants)
    BY <1>2, WTyped
  <2>3. Idle.at \notin {"revoke others", "insert grant"}
    BY <1>13
  <2>. QED  BY <1>13, <2>1, <2>2, <2>3, SameBound
<1>17. Orderly(q) => Orderly(Idle)'
  <2>1. \A c : OpenGrants(c)' = OpenGrants(c)
    BY <1>2 DEF OpenGrants
  <2>2. /\ grants' = grants /\ granted' = granted /\ ended' = ended
        /\ faults' <=> faults
    BY <1>2
  <2>3. Idle.at # "insert grant" /\ q.at # "insert grant"
    BY <1>2, <1>13
  <2>. QED  BY <2>1, <2>2, <2>3, Zenon DEF Orderly
<1>18. UNCHANGED <<overlap, faults>>
  BY <1>2
<1>. QED  BY <1>1, <1>2, <1>8, <1>10, <1>11, <1>12, <1>13, <1>14, <1>15, <1>16, <1>17,
            <1>18, PaywallOn

LEMMA SubscriptionRead ==
    ASSUME WInv, Watch, NEW r \in Requests, ReadSubscription(r)
    PROVE  WInv'
<1>1. PICK q \in PaywallRequests : q = wreq[r]
  BY WTyped
<1>2. PICK good : good = InGoodStanding(standing[q.firm], q.seen, day)
  OBVIOUS
<1>3. PICK p : p = [at |-> "read grant", firm |-> q.firm, good |-> good]
  OBVIOUS
<1>4. q.at = "read subscription"
  BY <1>1 DEF ReadSubscription
<1>5. /\ q \in AskWork /\ q.firm \in Firms /\ q # Idle /\ Checks(q)
      /\ q.at # "insert grant"
  BY <1>4, WShapes, WhoChecks
<1>6. Goes(wreq, r, p)
  BY <1>1, <1>2, <1>3 DEF ReadSubscription, Goes
<1>7. UNCHANGED <<overlap, faults, wmoves, day, standing, grants, terms, granted, ended, chosen>>
  BY DEF ReadSubscription, wkept, records
<1>8. /\ p \in ProbeWork /\ p.at = "read grant" /\ p.firm = q.firm
      /\ p.good <=> InGoodStanding(standing[q.firm], q.seen, day)
  <2>1. good \in BOOLEAN
    BY <1>2 DEF InGoodStanding
  <2>. QED  BY <1>2, <1>3, <1>5, <2>1 DEF ProbeWork
<1>9. p \in PaywallRequests /\ Checks(p)
  BY <1>8, WWork, WhoChecks
<1>10. p = wreq'[r]
  BY <1>6, <1>9, SamePlace
<1>11. PICK S, T, C : S = steady[r] /\ T = steady'[r] /\ C = Causes(q.firm)
  OBVIOUS
<1>12. InForce' = InForce /\ Causes(q.firm)' = C
  <2>1. InForce' = InForce
    BY <1>7 DEF InForce
  <2>2. UNCHANGED <<day, standing, grants>>
    BY <1>7
  <2>. QED  BY <1>5, <1>11, <2>1, <2>2, SameCauses
<1>13. /\ T = S \cap C
       /\ ever'[r] <=> C # {} \/ ever[r]
  <2>1. /\ steady'[r] = steady[r] \cap Causes(p.firm)'
        /\ ever'[r] <=> Causes(p.firm)' # {} \/ ever[r] \/ InForce' # InForce
    BY <1>1, <1>5, <1>9, <1>10, Watched
  <2>2. Causes(p.firm)' = C
    BY <1>8, <1>12
  <2>. QED  BY <1>11, <1>12, <2>1, <2>2
<1>14. /\ \A x \in S : x[1] = "subscription" => x[2] = q.seen.grace
       /\ ever[r] \/ q.seen = InForce
  BY <1>1, <1>4, <1>11, AtHand DEF FairFor
<1>15. p.good => ever'[r]
  <2>1. CASE ever[r]
    BY <1>13, <2>1
  <2>2. CASE q.seen = InForce
    BY <1>5, <1>8, <1>11, <1>13, <2>2, CausesTyped, WTyped
  <2>. QED  BY <1>14, <2>1, <2>2
<1>16. ASSUME ~p.good, NEW x \in T PROVE x[1] # "subscription"
  <2>1. SUFFICES ASSUME x[1] = "subscription" PROVE FALSE
    OBVIOUS
  <2>2. x[2] = q.seen.grace
    BY <1>13, <1>14, <2>1
  <2>3. x[2] = InForce.grace /\ InGoodStanding(standing[q.firm], InForce, day)
    BY <1>5, <1>11, <1>13, <2>1, CausesTyped, WTyped
  <2>4. InGoodStanding(standing[q.firm], q.seen, day)
    BY <2>2, <2>3 DEF InGoodStanding
  <2>. QED  BY <1>8, <1>16, <2>4
<1>17. FairFor(p, steady[r], ever[r])'
  <2>1. T \subseteq Causes(p.firm)'
    BY <1>8, <1>12, <1>13
  <2>. QED  BY <1>8, <1>11, <1>15, <1>16, <2>1 DEF FairFor
<1>18. Refers(p)
  BY <1>8 DEF Refers
<1>19. p.at \notin {"revoke others", "insert grant", "revoke"}
  BY <1>8
<1>. QED  BY <1>1, <1>5, <1>6, <1>7, <1>9, <1>17, <1>18, <1>19, OnlyGoesOn

LEMMA GrantRead ==
    ASSUME WInv, Watch, NEW r \in Requests, ReadGrant(r)
    PROVE  WInv'
<1>1. PICK q \in PaywallRequests : q = wreq[r]
  BY WTyped
<1>2. PICK p : p = [firm |-> q.firm,
                    at |-> IF q.good \/ OpenGrants(q.firm) # {} THEN "let in" ELSE "refused"]
  OBVIOUS
<1>3. q.at = "read grant"
  BY <1>1 DEF ReadGrant
<1>4. /\ q \in ProbeWork /\ q.firm \in Firms /\ q # Idle /\ Checks(q)
      /\ q.at # "insert grant"
  BY <1>3, WShapes, WhoChecks
<1>5. Goes(wreq, r, p)
  BY <1>1, <1>2 DEF ReadGrant, Goes
<1>6. UNCHANGED <<overlap, faults, wmoves, day, standing, grants, terms, granted, ended, chosen>>
  BY DEF ReadGrant, wkept, records
<1>7. /\ p \in DoneWork /\ p.firm = q.firm /\ p.at \in {"let in", "refused"}
      /\ p.at = "let in" <=> q.good \/ OpenGrants(q.firm) # {}
  BY <1>2, <1>4 DEF DoneWork
<1>8. p \in PaywallRequests /\ Checks(p)
  BY <1>7, WWork, WhoChecks
<1>9. p = wreq'[r]
  BY <1>5, <1>8, SamePlace
<1>10. PICK S, T, C : S = steady[r] /\ T = steady'[r] /\ C = Causes(q.firm)
  OBVIOUS
<1>11. InForce' = InForce /\ Causes(q.firm)' = C
  <2>1. InForce' = InForce
    BY <1>6 DEF InForce
  <2>2. UNCHANGED <<day, standing, grants>>
    BY <1>6
  <2>. QED  BY <1>4, <1>10, <2>1, <2>2, SameCauses
<1>12. /\ T = S \cap C
       /\ ever'[r] <=> C # {} \/ ever[r]
  <2>1. /\ steady'[r] = steady[r] \cap Causes(p.firm)'
        /\ ever'[r] <=> Causes(p.firm)' # {} \/ ever[r] \/ InForce' # InForce
    BY <1>1, <1>4, <1>8, <1>9, Watched
  <2>2. Causes(p.firm)' = C
    BY <1>7, <1>11
  <2>. QED  BY <1>10, <1>11, <2>1, <2>2
<1>13. /\ q.good => ever[r]
       /\ ~q.good => \A x \in S : x[1] # "subscription"
  BY <1>1, <1>3, <1>10, AtHand DEF FairFor
<1>14. ASSUME p.at = "let in" PROVE ever'[r]
  <2>1. CASE q.good
    BY <1>12, <1>13, <2>1
  <2>2. CASE OpenGrants(q.firm) # {}
    <3>1. C # {}
      BY <1>4, <1>10, <2>2, CausesTyped, WTyped
    <3>. QED  BY <1>12, <3>1
  <2>. QED  BY <1>7, <1>14, <2>1, <2>2
<1>15. ASSUME p.at = "refused" PROVE T = {}
  <2>1. ~q.good /\ OpenGrants(q.firm) = {}
    BY <1>7, <1>15
  <2>2. ASSUME NEW x \in T PROVE FALSE
    <3>1. x[1] # "subscription"
      BY <1>12, <1>13, <2>1
    <3>2. x[2] \in OpenGrants(q.firm)
      BY <1>4, <1>10, <1>12, <3>1, CausesTyped, WTyped
    <3>. QED  BY <2>1, <3>2
  <2>. QED  BY <2>2
<1>16. FairFor(p, steady[r], ever[r])'
  <2>1. T \subseteq Causes(p.firm)'
    BY <1>7, <1>11, <1>12
  <2>. QED  BY <1>7, <1>10, <1>14, <1>15, <2>1 DEF FairFor
<1>17. Refers(p)
  BY <1>7 DEF Refers
<1>18. p.at \notin {"revoke others", "insert grant", "revoke"}
  BY <1>7
<1>. QED  BY <1>1, <1>4, <1>5, <1>6, <1>8, <1>16, <1>17, <1>18, OnlyGoesOn

LEMMA Leaves ==
    ASSUME WInv, Watch, NEW r \in Requests, Leave(r) \/ PaywallRaises(r)
    PROVE  WInv'
<1>1. PICK q \in PaywallRequests : q = wreq[r]
  BY WTyped
<1>2. faults \/ q.at # "insert grant"
  BY <1>1 DEF Leave, PaywallRaises, Raises
<1>3. q # Idle
  <2>1. CASE Leave(r)
    BY <1>1, <2>1, WWork DEF Leave
  <2>2. CASE PaywallRaises(r)
    BY <1>1, <2>2 DEF PaywallRaises, Raises
  <2>. QED  BY <2>1, <2>2
<1>4. UNCHANGED <<overlap, faults, wmoves, day, standing, grants, terms, granted, ended, chosen>>
  BY DEF Leave, PaywallRaises, wkept, records
<1>5. Goes(wreq, r, Idle)
  BY DEF Leave, PaywallRaises, Raises, Ends
<1>6. /\ Idle \in PaywallRequests /\ Refers(Idle)
      /\ Idle.at \notin {"revoke others", "insert grant", "revoke"}
  BY WWork DEF Refers
<1>7. FairFor(Idle, steady[r], ever[r])'
  BY AsideFair
<1>. QED  BY <1>1, <1>2, <1>3, <1>4, <1>5, <1>6, <1>7, OnlyGoesOn

LEMMA GrantStarts ==
    ASSUME WInv, Watch, NEW r \in Requests, NEW c \in Firms, CreateGrant(r, c)
    PROVE  WInv'
<1>1. PICK until \in day + 1 .. LastDay + 1 :
        Goes(wreq, r, [at |-> "revoke others", firm |-> c, until |-> until])
  BY DEF CreateGrant
<1>2. PICK p : p = [at |-> "revoke others", firm |-> c, until |-> until]
  OBVIOUS
<1>3. p \in GrantWork /\ p \in PaywallRequests /\ p.at = "revoke others"
  <2>1. until \in 1 .. LastDay + 1
    <3>1. day \in 0 .. LastDay /\ LastDay \in Nat
      BY WTyped, PaywallAssumption DEF Days
    <3>. QED  BY <3>1
  <2>2. p \in GrantWork /\ p.at = "revoke others"
    BY <1>2, <2>1 DEF GrantWork
  <2>. QED  BY <2>2, WWork
<1>4. /\ StartPaywall(r) /\ Goes(wreq, r, p)
      /\ UNCHANGED <<overlap, faults, day, standing, grants, terms, granted, ended, chosen>>
  BY <1>1, <1>2 DEF CreateGrant, records
<1>5. /\ wmoves' \in 0 .. PaywallMoves /\ wmoves' = wmoves + 1
      /\ wreq[r] = Idle /\ (~overlap => wreq[r] # Idle \/ AllIdle(wreq))
  BY <1>4, PaywallStarts
<1>6. Bounded'
  <2>1. grants' = grants
    BY <1>4
  <2>. QED  BY <1>3, <1>4, <1>5, <2>1, MoreBound
<1>7. Refers(p)
  BY <1>3 DEF Refers
<1>8. FairFor(p, steady[r], ever[r])'
  BY <1>3, AsideFair
<1>9. Orderly(Idle) => Orderly(p)
  BY <1>3, WWork DEF Orderly
<1>. QED  BY <1>3, <1>4, <1>5, <1>6, <1>7, <1>8, <1>9, PaywallMovesOn

LEMMA OthersRevoked ==
    ASSUME WInv, Watch, NEW r \in Requests, RevokeOthers(r)
    PROVE  WInv'
<1>1. PICK q \in PaywallRequests : q = wreq[r]
  BY WTyped
<1>2. PICK p : p = [q EXCEPT !.at = "insert grant"]
  OBVIOUS
<1>3. q.at = "revoke others"
  BY <1>1 DEF RevokeOthers
<1>4. q \in GrantWork /\ q.firm \in Firms /\ q # Idle
  <2>1. q \in GrantWork
    BY <1>3, WShapes
  <2>. QED  BY <2>1, WhoChecks DEF GrantWork
<1>5. Goes(wreq, r, p)
  BY <1>1, <1>2 DEF RevokeOthers, Goes
<1>6. p \in GrantWork /\ p.at = "insert grant" /\ p.firm = q.firm /\ p \in PaywallRequests
  <2>1. p \in GrantWork /\ p.at = "insert grant" /\ p.firm = q.firm
    BY <1>2, <1>4 DEF GrantWork
  <2>. QED  BY <2>1, WWork
<1>7. PICK open : open = OpenGrants(q.firm)
  OBVIOUS
<1>8. /\ overlap' = overlap /\ faults' = faults /\ wmoves' = wmoves /\ day' = day
      /\ standing' = standing /\ terms' = terms
      /\ granted' = granted /\ ended' = ended /\ chosen' = chosen
  BY DEF RevokeOthers, wkept, records
<1>9. grants' = [i \in DOMAIN grants |->
                   IF i \in open THEN [grants[i] EXCEPT !.revoked = TRUE] ELSE grants[i]]
  BY <1>1, <1>7 DEF RevokeOthers
<1>10. \A i \in DOMAIN grants : grants[i] \in GrantDocs
  BY WTyped
<1>11. \A i \in DOMAIN grants :
         /\ grants'[i] \in GrantDocs
         /\ grants'[i].firm = grants[i].firm /\ grants'[i].until = grants[i].until
         /\ grants'[i].revoked <=> grants[i].revoked \/ i \in open
  <2>1. ASSUME NEW i \in DOMAIN grants, i \in open
        PROVE  /\ grants'[i] \in GrantDocs /\ grants'[i].revoked
               /\ grants'[i].firm = grants[i].firm /\ grants'[i].until = grants[i].until
    BY <1>9, <1>10, <2>1 DEF GrantDocs
  <2>2. ASSUME NEW i \in DOMAIN grants, i \notin open PROVE grants'[i] = grants[i]
    BY <1>9, <2>2
  <2>. QED  BY <1>10, <2>1, <2>2
<1>12. grants' \in Seq(GrantDocs) /\ Len(grants') = Len(grants) /\ DOMAIN grants' = DOMAIN grants
  <2>1. DOMAIN grants = 1 .. Len(grants) /\ Len(grants) \in Nat
    BY WTyped
  <2>2. DOMAIN grants' = 1 .. Len(grants)
    BY <1>9, <2>1
  <2>3. grants' = [i \in 1 .. Len(grants) |-> grants'[i]]
    BY <1>9, <2>1
  <2>4. grants' \in [1 .. Len(grants) -> GrantDocs]
    BY <1>11, <2>1, <2>3
  <2>. QED  BY <2>1, <2>2, <2>4
<1>13. Bounded'
  <2>1. r \in Granting
    BY <1>1, <1>3 DEF Granting
  <2>2. wmoves' \in Nat /\ wmoves' >= wmoves
    BY <1>8, WTyped, StillMore, Zenon
  <2>. QED  BY <1>5, <1>6, <1>12, <2>1, <2>2, SameBound
<1>14. \A c \in Firms : OpenGrants(c)' \subseteq OpenGrants(c)
  BY <1>8, <1>11, <1>12 DEF OpenGrants
<1>15. OpenGrants(q.firm)' = {}
  BY <1>7, <1>8, <1>11, <1>12 DEF OpenGrants
<1>16. Bills'
  BY <1>8, <1>12, WTyped DEF Bills
<1>17. Recorded'
  BY <1>8, <1>11, <1>12, WTyped DEF Recorded
<1>18. SettingsKept'
  BY <1>8, WTyped DEF SettingsKept
<1>19. Refers(p)' /\ Len(grants) <= Len(grants') /\ (terms.made => terms'.made)
  <2>1. Refers(p)'
    BY <1>6 DEF Refers
  <2>2. Len(grants) <= Len(grants')
    BY <1>12, WTyped
  <2>. QED  BY <1>8, <2>1, <2>2
<1>20. FairFor(p, steady[r], ever[r])'
  BY <1>6, AsideFair
<1>21. ASSUME Orderly(q) PROVE Orderly(p)'
  <2>1. \A c \in Firms : \A i, j \in OpenGrants(c)' : i = j
    BY <1>14, <1>21 DEF Orderly
  <2>2. ASSUME ~faults, NEW c \in Firms, granted[c] # 0, grants'[granted[c]].revoked
        PROVE  granted[c] \in ended \/ q.firm = c
    <3>1. granted[c] \in DOMAIN grants /\ grants[granted[c]].firm = c
      BY <2>2, WTyped DEF Recorded
    <3>2. CASE grants[granted[c]].revoked
      BY <1>3, <1>21, <2>2, <3>2 DEF Orderly
    <3>3. CASE granted[c] \in open
      BY <1>7, <3>1, <3>3 DEF OpenGrants
    <3>. QED  BY <1>11, <2>2, <3>1, <3>2, <3>3
  <2>3. faults' <=> faults
    BY <1>8
  <2>. QED  BY <1>6, <1>8, <1>15, <2>1, <2>2, <2>3, Zenon DEF Orderly
<1>22. UNCHANGED <<overlap, faults>>
  BY <1>8
<1>. QED  BY <1>1, <1>4, <1>5, <1>6, <1>13, <1>16, <1>17, <1>18, <1>19, <1>20, <1>21,
            <1>22, PaywallOn

LEMMA GrantInserted ==
    ASSUME WInv, Watch, NEW r \in Requests, InsertGrant(r)
    PROVE  WInv'
<1>1. PICK q \in PaywallRequests : q = wreq[r]
  BY WTyped
<1>2. q.at = "insert grant"
  BY <1>1 DEF InsertGrant
<1>3. q \in GrantWork /\ q.firm \in Firms /\ q.until \in 1 .. LastDay + 1 /\ q # Idle
  <2>1. q \in GrantWork
    BY <1>2, WShapes
  <2>. QED  BY <2>1, WhoChecks DEF GrantWork
<1>4. PICK d : d = [firm |-> q.firm, until |-> q.until, revoked |-> FALSE]
  OBVIOUS
<1>5. d \in GrantDocs /\ d.firm = q.firm /\ d.revoked = FALSE
  BY <1>3, <1>4 DEF GrantDocs
<1>6. PICK n : n = Len(grants) + 1
  OBVIOUS
<1>7. /\ Ends(wreq, r) /\ Goes(wreq, r, Idle)
      /\ grants' = Append(grants, d) /\ granted' = [granted EXCEPT ![q.firm] = n]
      /\ overlap' = overlap /\ faults' = faults /\ wmoves' = wmoves /\ day' = day
      /\ standing' = standing /\ terms' = terms /\ ended' = ended /\ chosen' = chosen
  BY <1>1, <1>4, <1>6 DEF InsertGrant, Ends, wkept
<1>8. /\ grants' \in Seq(GrantDocs) /\ Len(grants') = Len(grants) + 1
      /\ DOMAIN grants' = DOMAIN grants \cup {n} /\ grants'[n] = d
      /\ n \notin DOMAIN grants /\ n \in Nat /\ n # 0
      /\ \A i \in DOMAIN grants : grants'[i] = grants[i] /\ i # n
  BY <1>5, <1>6, <1>7, WTyped
<1>9. Bounded' /\ n <= PaywallMoves
  <2>1. r \in Granting
    BY <1>1, <1>2 DEF Granting
  <2>. QED  BY <1>6, <1>7, <1>8, <2>1, LessBound
<1>10. granted' \in [Firms -> 0 .. PaywallMoves]
  <2>1. n \in 0 .. PaywallMoves
    BY <1>8, <1>9, PaywallAssumption
  <2>. QED  BY <1>3, <1>7, <2>1, WTyped
<1>11. Bills'
  BY <1>7, <1>8, <1>10, WTyped DEF Bills
<1>12. \A c \in Firms : granted'[c] = IF c = q.firm THEN n ELSE granted[c]
  BY <1>3, <1>7, WTyped
<1>13. Recorded'
  <2>1. \A i \in ended' : i \in DOMAIN grants' /\ grants'[i].revoked
    BY <1>7, <1>8, WTyped DEF Recorded
  <2>2. ASSUME NEW c \in Firms, granted'[c] # 0
        PROVE  granted'[c] \in DOMAIN grants' /\ grants'[granted'[c]].firm = c
    <3>1. CASE c = q.firm
      BY <1>5, <1>8, <1>12, <3>1
    <3>2. CASE c # q.firm
      BY <1>8, <1>12, <2>2, <3>2, WTyped DEF Recorded
    <3>. QED  BY <3>1, <3>2
  <2>. QED  BY <2>1, <2>2 DEF Recorded
<1>14. SettingsKept'
  BY <1>7, WTyped DEF SettingsKept
<1>15. Idle \in PaywallRequests /\ Idle.at = "idle"
  BY WWork
<1>16. Refers(Idle)' /\ Len(grants) <= Len(grants') /\ (terms.made => terms'.made)
  <2>1. Refers(Idle)'
    BY <1>15 DEF Refers
  <2>2. Len(grants) <= Len(grants')
    BY <1>8, WTyped
  <2>. QED  BY <1>7, <2>1, <2>2
<1>17. FairFor(Idle, steady[r], ever[r])'
  BY AsideFair
<1>18. ASSUME Orderly(q) PROVE Orderly(Idle)'
  <2>1. OpenGrants(q.firm)' \subseteq {n}
    <3>1. OpenGrants(q.firm) = {}
      BY <1>2, <1>18 DEF Orderly
    <3>. QED  BY <1>7, <1>8, <3>1 DEF OpenGrants
  <2>2. \A c \in Firms : c # q.firm => OpenGrants(c)' \subseteq OpenGrants(c)
    BY <1>5, <1>7, <1>8 DEF OpenGrants
  <2>3. ASSUME NEW c \in Firms, NEW i \in OpenGrants(c)', NEW j \in OpenGrants(c)'
        PROVE  i = j
    <3>1. CASE c = q.firm
      BY <2>1, <3>1
    <3>2. CASE c # q.firm
      BY <1>18, <2>2, <3>2 DEF Orderly
    <3>. QED  BY <3>1, <3>2
  <2>4. ASSUME ~faults, NEW c \in Firms, granted'[c] # 0, grants'[granted'[c]].revoked
        PROVE  granted'[c] \in ended
    <3>1. c # q.firm
      BY <1>5, <1>8, <1>12, <2>4
    <3>2. granted'[c] = granted[c] /\ granted[c] \in DOMAIN grants
      BY <1>12, <2>4, <3>1, WTyped DEF Recorded
    <3>3. grants[granted[c]].revoked
      BY <1>8, <2>4, <3>2
    <3>. QED  BY <1>18, <2>4, <3>1, <3>2, <3>3 DEF Orderly
  <2>5. faults' <=> faults
    BY <1>7
  <2>6. Idle.at # "insert grant"
    BY <1>15
  <2>. QED  BY <1>7, <2>3, <2>4, <2>5, <2>6, Zenon DEF Orderly
<1>19. UNCHANGED <<overlap, faults>>
  BY <1>7
<1>. QED  BY <1>1, <1>3, <1>7, <1>9, <1>11, <1>13, <1>14, <1>15, <1>16, <1>17, <1>18,
            <1>19, PaywallOn

LEMMA RevocationAsked ==
    ASSUME WInv, Watch, NEW r \in Requests, NEW i \in DOMAIN grants, AskRevocation(r, i)
    PROVE  WInv'
<1>1. /\ StartPaywall(r)
      /\ overlap' = overlap /\ faults' = faults /\ day' = day /\ standing' = standing
      /\ grants' = grants /\ terms' = terms /\ granted' = granted /\ chosen' = chosen
  BY DEF AskRevocation
<1>2. /\ wmoves' \in 0 .. PaywallMoves /\ wmoves' \in Nat /\ wmoves' >= wmoves
      /\ wreq[r] = Idle /\ (~overlap => wreq[r] # Idle \/ AllIdle(wreq))
  BY <1>1, PaywallStarts
<1>3. i \in 1 .. PaywallMoves
  <2>1. i \in 1 .. Len(grants) /\ Len(grants) \in Nat /\ Len(grants) <= PaywallMoves
    BY WTyped
  <2>2. PaywallMoves \in Nat
    BY PaywallAssumption
  <2>. QED  BY <2>1, <2>2
<1>4. Idle \in PaywallRequests /\ Idle.at = "idle"
  BY WWork
<1>5. grants' \in Seq(GrantDocs) /\ Len(grants') = Len(grants) /\ Len(grants) <= Len(grants')
  BY <1>1, WTyped
<1>6. CASE grants[i].revoked
  <2>1. Goes(wreq, r, Idle) /\ ended' = ended \cup {i}
    BY <1>6 DEF AskRevocation, Ends
  <2>2. Bounded'
    BY <1>2, <1>4, <1>5, <2>1, SameBound
  <2>3. Bills'
    BY <1>1, <1>2, <1>3, <2>1, WTyped DEF Bills
  <2>4. Recorded' /\ SettingsKept'
    BY <1>1, <1>6, <2>1, WTyped DEF Recorded, SettingsKept
  <2>5. Refers(Idle)' /\ (terms.made => terms'.made)
    BY <1>1, <1>4 DEF Refers
  <2>6. FairFor(Idle, steady[r], ever[r])'
    BY AsideFair
  <2>7. ASSUME Orderly(Idle) PROVE Orderly(Idle)'
    <3>1. \A c : OpenGrants(c)' = OpenGrants(c)
      BY <1>1 DEF OpenGrants
    <3>2. faults' <=> faults
      BY <1>1
    <3>3. ended \subseteq ended'
      BY <2>1
    <3>4. \A c \in Firms : granted[c] \in ended => granted[c] \in ended'
      BY <3>3
    <3>. QED  BY <1>1, <1>4, <2>7, <3>1, <3>2, <3>4, Zenon DEF Orderly
  <2>8. UNCHANGED <<overlap, faults>>
    BY <1>1
  <2>. QED  BY <1>2, <1>4, <1>5, <2>1, <2>2, <2>3, <2>4, <2>5, <2>6, <2>7, <2>8, PaywallOn
<1>7. CASE ~grants[i].revoked
  <2>1. PICK p : p = [at |-> "revoke", grant |-> i]
    OBVIOUS
  <2>2. p \in RevokeWork /\ p.at = "revoke" /\ p.grant = i /\ p \in PaywallRequests
    <3>1. p \in RevokeWork /\ p.at = "revoke" /\ p.grant = i
      BY <1>3, <2>1 DEF RevokeWork
    <3>. QED  BY <3>1, WWork
  <2>3. Goes(wreq, r, p) /\ ended' = ended
    BY <1>7, <2>1 DEF AskRevocation
  <2>4. Bounded'
    BY <1>2, <1>5, <2>2, <2>3, SameBound
  <2>5. Refers(p)
    BY <2>2 DEF Refers
  <2>6. FairFor(p, steady[r], ever[r])'
    BY <2>2, AsideFair
  <2>7. Orderly(Idle) => Orderly(p)
    BY <1>4, <2>2 DEF Orderly
  <2>8. UNCHANGED <<overlap, faults, day, standing, grants, terms, granted, ended, chosen>>
    BY <1>1, <2>3
  <2>. QED  BY <1>2, <2>2, <2>3, <2>4, <2>5, <2>6, <2>7, <2>8, PaywallMovesOn
<1>. QED  BY <1>6, <1>7

LEMMA GrantRevoked ==
    ASSUME WInv, Watch, NEW r \in Requests, RevokeGrant(r)
    PROVE  WInv'
<1>1. PICK q \in PaywallRequests : q = wreq[r]
  BY WTyped
<1>2. PICK i : i = q.grant
  OBVIOUS
<1>3. q.at = "revoke"
  BY <1>1 DEF RevokeGrant
<1>4. q # Idle /\ i \in DOMAIN grants /\ i \in 1 .. PaywallMoves
  <2>1. q \in RevokeWork
    BY <1>3, WShapes
  <2>2. i \in DOMAIN grants
    BY <1>1, <1>2, <1>3, AtHand DEF Refers
  <2>. QED  BY <1>2, <2>1, <2>2, WhoChecks DEF RevokeWork
<1>5. /\ Goes(wreq, r, Idle)
      /\ grants' = [grants EXCEPT ![i].revoked = TRUE]
      /\ ended' = IF grants[i].revoked THEN ended ELSE ended \cup {i}
      /\ overlap' = overlap /\ faults' = faults /\ wmoves' = wmoves /\ day' = day
      /\ standing' = standing /\ terms' = terms /\ granted' = granted /\ chosen' = chosen
  BY <1>1, <1>2 DEF RevokeGrant, Ends, wkept
<1>6. \A j \in DOMAIN grants : grants[j] \in GrantDocs
  BY WTyped
<1>7. /\ DOMAIN grants' = DOMAIN grants
      /\ grants'[i] = [grants[i] EXCEPT !.revoked = TRUE]
      /\ \A j \in DOMAIN grants : j # i => grants'[j] = grants[j]
  BY <1>4, <1>5
<1>8. grants'[i] \in GrantDocs /\ grants'[i].firm = grants[i].firm /\ grants'[i].revoked
  BY <1>4, <1>6, <1>7 DEF GrantDocs
<1>9. \A j \in DOMAIN grants :
        /\ grants'[j] \in GrantDocs /\ grants'[j].firm = grants[j].firm
        /\ grants[j].revoked => grants'[j].revoked
        /\ j # i => grants'[j] = grants[j]
  BY <1>6, <1>7, <1>8
<1>10. grants' \in Seq(GrantDocs) /\ Len(grants') = Len(grants)
  <2>1. DOMAIN grants = 1 .. Len(grants) /\ Len(grants) \in Nat
    BY WTyped
  <2>2. grants' = [j \in 1 .. Len(grants) |-> grants'[j]]
    BY <1>5, <2>1
  <2>3. grants' \in [1 .. Len(grants) -> GrantDocs]
    BY <1>9, <2>1, <2>2
  <2>. QED  BY <1>7, <2>1, <2>3
<1>11. Idle \in PaywallRequests /\ Idle.at = "idle"
  BY WWork
<1>12. Bounded'
  <2>1. wmoves' \in Nat /\ wmoves' >= wmoves
    BY <1>5, WTyped, StillMore, Zenon
  <2>. QED  BY <1>5, <1>10, <1>11, <2>1, SameBound
<1>13. ended' = ended \/ ended' = ended \cup {i}
  BY <1>5
<1>14. Bills'
  BY <1>4, <1>5, <1>10, <1>13, WTyped DEF Bills
<1>15. Recorded'
  <2>0. \A j \in ended : j \in DOMAIN grants /\ grants[j].revoked
    BY WTyped DEF Recorded
  <2>1. \A j \in ended' : j \in DOMAIN grants' /\ grants'[j].revoked
    BY <1>4, <1>7, <1>8, <1>9, <1>13, <2>0
  <2>2. \A c \in Firms : granted'[c] # 0 =>
           granted'[c] \in DOMAIN grants' /\ grants'[granted'[c]].firm = c
    BY <1>5, <1>7, <1>9, WTyped DEF Recorded
  <2>. QED  BY <2>1, <2>2 DEF Recorded
<1>16. SettingsKept'
  BY <1>5, WTyped DEF SettingsKept
<1>17. Refers(Idle)' /\ Len(grants) <= Len(grants') /\ (terms.made => terms'.made)
  <2>1. Refers(Idle)'
    BY <1>11 DEF Refers
  <2>2. Len(grants) <= Len(grants')
    BY <1>10, WTyped
  <2>. QED  BY <1>5, <2>1, <2>2
<1>18. FairFor(Idle, steady[r], ever[r])'
  BY AsideFair
<1>19. ASSUME Orderly(q) PROVE Orderly(Idle)'
  <2>1. \A c \in Firms : OpenGrants(c)' \subseteq OpenGrants(c)
    <3>1. \A c : \A j \in OpenGrants(c)' : j # i
      BY <1>8 DEF OpenGrants
    <3>. QED  BY <1>5, <1>7, <3>1 DEF OpenGrants
  <2>2. \A c \in Firms : \A j, k \in OpenGrants(c)' : j = k
    BY <1>19, <2>1 DEF Orderly
  <2>3. ASSUME ~faults, NEW c \in Firms, granted[c] # 0, grants'[granted[c]].revoked
        PROVE  granted[c] \in ended'
    <3>1. granted[c] \in DOMAIN grants
      BY <2>3, WTyped DEF Recorded
    <3>2. CASE grants[granted[c]].revoked
      BY <1>3, <1>13, <1>19, <2>3, <3>2 DEF Orderly
    <3>3. CASE ~grants[granted[c]].revoked
      BY <1>5, <1>9, <2>3, <3>1, <3>3
    <3>. QED  BY <3>2, <3>3
  <2>4. faults' <=> faults
    BY <1>5
  <2>5. Idle.at # "insert grant"
    BY <1>11
  <2>. QED  BY <1>5, <2>2, <2>3, <2>4, <2>5, Zenon DEF Orderly
<1>20. UNCHANGED <<overlap, faults>>
  BY <1>5
<1>. QED  BY <1>1, <1>4, <1>5, <1>11, <1>12, <1>14, <1>15, <1>16, <1>17, <1>18, <1>19,
            <1>20, PaywallOn

(* The subscriptions and the days pass by the requests.                    *)
LEMMA PaywallPasses ==
    ASSUME WInv, Watch, day' \in Days, day' >= day, standing' \in [Firms -> Standings],
           UNCHANGED <<overlap, faults, wmoves, grants, terms, granted, ended, chosen, wreq>>
    PROVE  WInv'
<1>1. /\ overlap' = overlap /\ faults' = faults /\ wmoves' = wmoves
      /\ grants' = grants /\ terms' = terms /\ granted' = granted /\ ended' = ended
      /\ chosen' = chosen /\ wreq' = wreq
  OBVIOUS
<1>2. /\ Fair'
      /\ steady' \in [Requests -> SUBSET (({"subscription"} \X Nat) \cup ({"grant"} \X Nat))]
      /\ ever' \in [Requests -> BOOLEAN]
  BY <1>1, WTyped, FairKept
<1>3. TypeOKPaywall'
  BY <1>1, <1>2, WTyped DEF TypeOKPaywall
<1>4. Bounded'
  <2>1. Granting' = Granting
    BY <1>1 DEF Granting
  <2>. QED  BY <1>1, <2>1, WTyped DEF Bounded
<1>5. \A r \in Requests : Refers(wreq[r])'
  BY <1>1, WTyped DEF Refers
<1>6. Recorded' /\ SettingsKept'
  BY <1>1, WTyped DEF Recorded, SettingsKept
<1>7. \A c \in Firms : OpenGrants(c)' \subseteq OpenGrants(c)
  <2>1. \A x \in GrantDocs : x.until > day' => x.until > day
    BY WTyped, PaywallAssumption DEF GrantDocs, Days
  <2>. QED  BY <1>1, <2>1, WTyped DEF OpenGrants
<1>8. ASSUME NEW q \in PaywallRequests, Sole(q), Orderly(q) PROVE Sole(q)' /\ Orderly(q)'
  <2>1. Sole(q)'
    BY <1>1, <1>8 DEF Sole, AllIdle
  <2>2. \A c \in Firms : \A i, j \in OpenGrants(c)' : i = j
    BY <1>7, <1>8 DEF Orderly
  <2>3. q.at = "insert grant" => OpenGrants(q.firm)' = {}
    <3>1. q.at = "insert grant" => q.firm \in Firms
      BY WShapes DEF GrantWork
    <3>. QED  BY <1>7, <1>8, <3>1 DEF Orderly
  <2>4. faults' <=> faults
    BY <1>1
  <2>. QED  BY <1>1, <1>8, <2>1, <2>2, <2>3, <2>4, Zenon DEF Orderly
<1>9. ~overlap => \E q \in {Idle} \cup {wreq[r] : r \in Requests} : Sole(q)' /\ Orderly(q)'
  <2>1. \A q \in {Idle} \cup {wreq[r] : r \in Requests} : q \in PaywallRequests
    BY WWork, WTyped
  <2>. QED  BY <1>8, <2>1 DEF WInv
<1>. QED  BY <1>1, <1>2, <1>3, <1>4, <1>5, <1>6, <1>9 DEF WInv

LEMMA PaywallKept ==
    ASSUME WInv, [PaywallNext]_wvars
    PROVE  WInv'
<1>1. CASE PaywallNext
  <2>1. Watch
    BY <1>1 DEF PaywallNext
  <2>2. ASSUME NEW r \in Requests, PaywallStep(r) PROVE WInv'
    <3>1. ASSUME NEW c \in Firms, Enter(r, c) PROVE WInv'
      BY <2>1, <3>1, Enters
    <3>2. ASSUME NEW c \in Firms, CreateGrant(r, c) PROVE WInv'
      BY <2>1, <3>2, GrantStarts
    <3>3. ASSUME NEW i \in DOMAIN grants, AskRevocation(r, i) PROVE WInv'
      BY <2>1, <3>3, RevocationAsked
    <3>4. UpdateSettings(r) => WInv'
      BY <2>1, UpdateStarts
    <3>5. FindSettings(r) => WInv'
      BY <2>1, SettingsFound
    <3>6. MakeSettings(r) => WInv'
      BY <2>1, SettingsMade
    <3>7. PatchSettings(r) => WInv'
      BY <2>1, SettingsPatched
    <3>8. ReadSubscription(r) => WInv'
      BY <2>1, SubscriptionRead
    <3>9. ReadGrant(r) => WInv'
      BY <2>1, GrantRead
    <3>10. Leave(r) \/ PaywallRaises(r) => WInv'
      BY <2>1, Leaves
    <3>11. RevokeOthers(r) => WInv'
      BY <2>1, OthersRevoked
    <3>12. InsertGrant(r) => WInv'
      BY <2>1, GrantInserted
    <3>13. RevokeGrant(r) => WInv'
      BY <2>1, GrantRevoked
    <3>. QED  BY <2>2, <3>1, <3>2, <3>3, <3>4, <3>5, <3>6, <3>7, <3>8, <3>9, <3>10,
                 <3>11, <3>12, <3>13, Zenon DEF PaywallStep
  <2>3. ASSUME NEW c \in Firms, Move(c) PROVE WInv'
    <3>1. PICK s \in Standings : standing' = [standing EXCEPT ![c] = s]
      BY <2>3 DEF Move
    <3>2. UNCHANGED <<overlap, faults, wmoves, day, grants, terms, granted, ended, chosen, wreq>>
      BY <2>3 DEF Move, records
    <3>3. standing' \in [Firms -> Standings]
      BY <3>1, WTyped
    <3>4. day' \in Days /\ day' >= day
      BY <3>2, WTyped, PaywallAssumption DEF Days
    <3>5. UNCHANGED <<overlap, faults, wmoves, grants, terms, granted, ended, chosen, wreq>>
      BY <3>2
    <3>. QED  BY <2>1, <3>3, <3>4, <3>5, PaywallPasses
  <2>4. ASSUME NextDay PROVE WInv'
    <3>1. /\ day < LastDay /\ day' = day + 1 /\ standing' = standing
          /\ UNCHANGED <<overlap, faults, wmoves, grants, terms, granted, ended, chosen, wreq>>
      BY <2>4 DEF NextDay, records
    <3>2. day' \in Days /\ day' >= day
      BY <3>1, WTyped, PaywallAssumption DEF Days
    <3>3. standing' \in [Firms -> Standings]
      BY <3>1, WTyped
    <3>. QED  BY <2>1, <3>1, <3>2, <3>3, PaywallPasses
  <2>. QED  BY <1>1, <2>2, <2>3, <2>4, Zenon DEF PaywallNext
<1>2. CASE UNCHANGED wvars
  <2>1. /\ overlap' = overlap /\ faults' = faults /\ day' = day /\ standing' = standing
        /\ grants' = grants /\ terms' = terms /\ granted' = granted /\ ended' = ended
        /\ chosen' = chosen /\ steady' = steady /\ ever' = ever /\ wreq' = wreq
        /\ wmoves' = wmoves
    BY <1>2 DEF wvars
  <2>2. TypeOKPaywall'
    BY <2>1, WTyped DEF TypeOKPaywall
  <2>3. Bounded'
    <3>1. Granting' = Granting
      BY <2>1 DEF Granting
    <3>. QED  BY <2>1, <3>1, WTyped DEF Bounded
  <2>4. \A r \in Requests : Refers(wreq[r])'
    BY <2>1, WTyped DEF Refers
  <2>5. Recorded' /\ SettingsKept'
    BY <2>1, WTyped DEF Recorded, SettingsKept
  <2>6. \A c : OpenGrants(c)' = OpenGrants(c)
    BY <2>1 DEF OpenGrants
  <2>7. Fair'
    <3>1. UNCHANGED <<day, standing, grants>> /\ InForce' = InForce
      BY <2>1 DEF InForce
    <3>2. \A c \in Firms : Causes(c)' = Causes(c)
      BY <3>1, SameCauses
    <3>3. ASSUME NEW r \in Requests PROVE FairFor(wreq[r], steady[r], ever[r])'
      <4>1. PICK q \in PaywallRequests : q = wreq[r]
        BY WTyped
      <4>2. PICK S, E : S = steady[r] /\ E = ever[r]
        OBVIOUS
      <4>3. FairFor(q, S, E)
        BY <4>1, <4>2, AtHand
      <4>4. Checks(q) => Causes(q.firm)' = Causes(q.firm)
        BY <3>2, IdleOrChecks
      <4>5. FairFor(q, S, E)'
        BY <3>1, <4>3, <4>4 DEF FairFor
      <4>6. q = wreq'[r] /\ S = steady'[r] /\ E = ever'[r]
        BY <2>1, <4>1, <4>2
      <4>. QED  BY <4>5, <4>6
    <3>. QED  BY <3>3 DEF Fair
  <2>8. ASSUME NEW q, Sole(q), Orderly(q) PROVE Sole(q)' /\ Orderly(q)'
    <3>1. Sole(q)'
      BY <2>1, <2>8 DEF Sole, AllIdle
    <3>2. Orderly(q)'
      <4>1. faults' <=> faults
        BY <2>1
      <4>. QED  BY <2>1, <2>6, <2>8, <4>1, Zenon DEF Orderly
    <3>. QED  BY <3>1, <3>2
  <2>. QED  BY <2>1, <2>2, <2>3, <2>4, <2>5, <2>7, <2>8 DEF WInv
<1>. QED  BY <1>1, <1>2

LEMMA WInvHolds == PaywallSpec => []WInv
<1>1. PaywallInit => WInv
  BY PaywallStartsWell
<1>2. WInv /\ [PaywallNext]_wvars => WInv'
  BY PaywallKept
<1>. QED  BY <1>1, <1>2, PTL DEF PaywallSpec

-----------------------------------------------------------------------------
(* What is stored of the paywall, and what its requests carry, keeps its   *)
(* type whatever requests do to each other.                                *)
THEOREM PaywallTypeCorrect == PaywallSpec => []TypeOKPaywall
<1>1. WInv => TypeOKPaywall
  BY DEF WInv
<1>. QED  BY <1>1, WInvHolds, PTL

(* Whoever lost access, and is no administrator, still gets through every  *)
(* door behind which it is bought, and through none of the contracts', in  *)
(* every state: the routers alone decide it.                               *)
THEOREM PayersGetThrough == PaywallSpec => []LockedOutCanPay
<1>1. LockedOutCanPay
  BY PayDoors DEF LockedOutCanPay, LetIn
<1>. QED  BY <1>1, PTL

(* Nobody is refused by require_active_subscription who had access by one  *)
(* cause all the while, nor let in who never had any; answered revocations *)
(* and grants are in force, and what an administrator set stays set; and   *)
(* who has no access gets to where it is sold (PayersGetThrough).          *)
THEOREM PaywallIsFair == PaywallSpec => []PaywallFair
<1>1. ASSUME WInv PROVE PaywallFair
  <2>1. CheckedFairly
    BY <1>1, WTyped DEF Fair, FairFor, CheckedFairly
  <2>2. SettingsKept
    BY <1>1, WTyped
  <2>3. PendingHaveNone
    <3>1. ASSUME NEW c \in Pending PROVE Causes(c) = {}
      <4>1. c \in Firms /\ OpenGrants(c) = {}
        BY DEF Pending
      <4>2. standing[c].status \notin {"trialing", "active", "past_due"}
        BY <4>1 DEF Pending, Subscribed
      <4>3. ~InGoodStanding(standing[c], InForce, day)
        BY <4>2 DEF InGoodStanding
      <4>. QED  BY <4>1, <4>3 DEF Causes
    <3>. QED  BY <3>1 DEF PendingHaveNone
  <2>4. GrantsInForce
    <3>1. \A i \in ended : grants[i].revoked
      BY <1>1, WTyped DEF Recorded
    <3>2. ASSUME ~overlap
          PROVE  /\ \A c \in Firms : \A i, j \in OpenGrants(c) : i = j
                 /\ ~faults /\ AllIdle(wreq) =>
                      \A c \in Firms : granted[c] # 0 /\ granted[c] \notin ended
                                         /\ grants[granted[c]].until > day
                                            => granted[c] \in OpenGrants(c)
      <4>1. PICK q : Sole(q) /\ Orderly(q)
        BY <1>1, <3>2 DEF WInv
      <4>2. \A c \in Firms : \A i, j \in OpenGrants(c) : i = j
        BY <4>1 DEF Orderly
      <4>3. ASSUME ~faults, AllIdle(wreq), NEW c \in Firms, granted[c] # 0,
                   granted[c] \notin ended, grants[granted[c]].until > day
            PROVE  granted[c] \in OpenGrants(c)
        <5>1. q = Idle
          BY <4>1, <4>3 DEF Sole
        <5>2. granted[c] \in DOMAIN grants /\ grants[granted[c]].firm = c
          BY <1>1, <4>3, WTyped DEF Recorded
        <5>3. ~grants[granted[c]].revoked
          BY <4>1, <4>3, <5>1, WWork DEF Orderly
        <5>. QED  BY <4>3, <5>2, <5>3 DEF OpenGrants
      <4>. QED  BY <4>2, <4>3
    <3>. QED  BY <3>1, <3>2, Zenon DEF GrantsInForce
  <2>5. LockedOutCanPay
    BY PayDoors DEF LockedOutCanPay, LetIn
  <2>. QED  BY <2>1, <2>2, <2>3, <2>4, <2>5 DEF PaywallFair
<1>. QED  BY <1>1, WInvHolds, PTL

-----------------------------------------------------------------------------
(* The market.  Each request that is about to insert an opportunity was    *)
(* counted when it came (MarketInv), which bounds the collection; no step  *)
(* makes one live again.  A score is bounded part by part.  BestMatch is a *)
(* function of how many demands were tried: that there is one follows by   *)
(* induction on that number, and so does what it gives.  The induction is  *)
(* over numbers: a set of them that has 0, and each number with the one    *)
(* before, has them all (UpTo).                                            *)

(* What holds of 0, and of a number if of the one before, holds up to N.   *)
LEMMA UpTo ==
    ASSUME NEW N \in Nat, NEW T, 0 \in T,
           \A n \in 1 .. N : n - 1 \in T => n \in T
    PROVE  0 .. N \subseteq T
<1> SUFFICES ASSUME (0 .. N) \ T # {} PROVE FALSE
  OBVIOUS
<1>1. (0 .. N) \ T \subseteq Nat
  OBVIOUS
<1>2. PICK n \in (0 .. N) \ T : \A m \in (0 .. N) \ T : n <= m
  BY <1>1, Least
<1>3. n \in 1 .. N /\ n - 1 \in 0 .. N
  BY <1>2
<1>. QED  BY <1>2, <1>3

(* A value that each step makes of the one before exists for every number  *)
(* of steps.                                                               *)
Iterates(g, N, V, base, step) ==
    /\ g \in [0 .. N -> V] /\ g[0] = base
    /\ \A n \in 1 .. N : g[n] = step[<<g[n - 1], n>>]

LEMMA Iterated ==
    ASSUME NEW N \in Nat, NEW V, NEW base \in V, NEW step \in [V \X (1 .. N) -> V]
    PROVE  \E g : Iterates(g, N, V, base, step)
<1> DEFINE Is(g, m) == /\ g \in [0 .. m -> V] /\ g[0] = base
                       /\ \A n \in 1 .. m : g[n] = step[<<g[n - 1], n>>]
           T == {m \in 0 .. N : \E g : Is(g, m)}
<1>1. 0 \in T
  <2>1. Is([n \in 0 .. 0 |-> base], 0)
    OBVIOUS
  <2> HIDE DEF Is
  <2>. QED  BY <2>1
<1>2. ASSUME NEW m \in 1 .. N, m - 1 \in T PROVE m \in T
  <2>1. PICK g : Is(g, m - 1)
    BY <1>2
  <2> DEFINE h == [n \in 0 .. m |-> IF n = m THEN step[<<g[m - 1], m>>] ELSE g[n]]
  <2>2. g[m - 1] \in V /\ <<g[m - 1], m>> \in V \X (1 .. N)
    BY <2>1
  <2>3. step[<<g[m - 1], m>>] \in V
    BY <2>2
  <2>4. h \in [0 .. m -> V]
    BY <2>1, <2>3
  <2>5. h[0] = base
    BY <2>1
  <2>6. ASSUME NEW n \in 1 .. m PROVE h[n] = step[<<h[n - 1], n>>]
    <3>1. CASE n = m
      <4>1. h[m] = step[<<g[m - 1], m>>] /\ h[m - 1] = g[m - 1]
        OBVIOUS
      <4>. QED  BY <3>1, <4>1
    <3>2. CASE n # m
      <4>1. h[n] = g[n] /\ h[n - 1] = g[n - 1] /\ n \in 1 .. m - 1
        BY <3>2
      <4>. QED  BY <2>1, <4>1
    <3>. QED  BY <3>1, <3>2
  <2> HIDE DEF h
  <2>7. Is(h, m)
    BY <2>4, <2>5, <2>6
  <2> HIDE DEF Is
  <2>. QED  BY <2>7
<1> HIDE DEF T
<1>3. 0 .. N \subseteq T
  BY <1>1, <1>2, UpTo
<1>4. N \in T
  BY <1>3
<1>5. PICK g : Is(g, N)
  BY <1>4 DEF T
<1>. QED  BY <1>5 DEF Iterates

-----------------------------------------------------------------------------
(* The market: types, and what was removed                                 *)

Inserting == {r \in Requests : oreq[r].at = "insert"}

(* A request is about an opportunity that there is; each that inserts one  *)
(* was counted.                                                            *)
MarketInv ==
    /\ TypeOKMarket
    /\ \A r \in Requests :
         oreq[r].at \in {"patch", "remove"} => oreq[r].opp \in DOMAIN market
    /\ removed \subseteq DOMAIN market
    /\ RemovedStays
    /\ IsFiniteSet(Inserting) /\ Cardinality(Inserting) + Len(market) <= omoves

(* A patch changes what it carries, which is neither owner nor whether it  *)
(* is live.                                                                *)
LEMMA PatchedOpp ==
    ASSUME NEW d \in OppDocs, NEW p \in OppPatches
    PROVE  WithPatch(d, p) \in OppDocs /\ WithPatch(d, p).live = d.live
<1>1. /\ DOMAIN d = {"owner", "live", "side", "ware", "negotiable", "price"}
      /\ d.owner \in Owners /\ d.live \in BOOLEAN /\ d.side \in {"gerador", "receptor"}
      /\ d.ware \in Wares /\ d.negotiable \in BOOLEAN /\ d.price \in Prices
  BY DEF OppDocs
<1>2. /\ "owner" \notin DOMAIN p /\ "live" \notin DOMAIN p
      /\ "side" \in DOMAIN p => p.side \in {"gerador", "receptor"}
      /\ "ware" \in DOMAIN p => p.ware \in Wares
      /\ "negotiable" \in DOMAIN p => p.negotiable \in BOOLEAN
      /\ "price" \in DOMAIN p => p.price \in Prices
  BY DEF OppPatches, Prices
<1> DEFINE Field(f) == IF f \in DOMAIN p THEN p[f] ELSE d[f]
           e == [owner |-> d.owner, live |-> d.live, side |-> Field("side"),
                 ware |-> Field("ware"), negotiable |-> Field("negotiable"),
                 price |-> Field("price")]
<1>3. WithPatch(d, p) = e
  BY <1>1, <1>2 DEF WithPatch
<1>4. e \in OppDocs
  BY <1>1, <1>2 DEF OppDocs
<1>. QED  BY <1>3, <1>4

LEMMA MarketStarts == MarketInit => MarketInv
<1> SUFFICES ASSUME MarketInit PROVE MarketInv
  OBVIOUS
<1>1. Inserting = {}
  BY DEF MarketInit, Inserting, Idle
<1>2. IsFiniteSet(Inserting) /\ Cardinality(Inserting) = 0
  BY <1>1, FS_EmptySet
<1>3. TypeOKMarket
  BY MarketMovesAssumption DEF MarketInit, TypeOKMarket, OppRequests
<1>4. \A r \in Requests : oreq[r].at = "idle"
  BY DEF MarketInit, Idle
<1>. QED  BY <1>2, <1>3, <1>4, MarketMovesAssumption DEF MarketInv, MarketInit, RemovedStays

(* A request that goes on to q, and what it leaves of those that insert.   *)
LEMMA MarketGoes ==
    ASSUME MarketInv, NEW r \in Requests, NEW q \in OppRequests, Goes(oreq, r, q)
    PROVE  /\ oreq' \in [Requests -> OppRequests] /\ oreq'[r] = q
           /\ \A s \in Requests \ {r} : oreq'[s] = oreq[s]
           /\ IsFiniteSet(Inserting)'
           /\ Cardinality(Inserting) \in Nat /\ Cardinality(Inserting)' \in Nat
           /\ Cardinality(Inserting)' =
                Cardinality(Inserting) + (IF q.at = "insert" THEN 1 ELSE 0)
                                       - (IF oreq[r].at = "insert" THEN 1 ELSE 0)
<1>1. /\ oreq' \in [Requests -> OppRequests] /\ oreq'[r] = q
      /\ \A s \in Requests \ {r} : oreq'[s] = oreq[s]
  BY DEF MarketInv, TypeOKMarket, Goes
<1> DEFINE Rest == Inserting \ {r}
<1>2. IsFiniteSet(Inserting)
  BY DEF MarketInv
<1>3. /\ IsFiniteSet(Rest) /\ Cardinality(Rest) \in Nat
      /\ Cardinality(Inserting) =
           Cardinality(Rest) + (IF oreq[r].at = "insert" THEN 1 ELSE 0)
  <2>1. r \in Inserting <=> oreq[r].at = "insert"
    BY DEF Inserting
  <2>2. /\ IsFiniteSet(Rest)
        /\ Cardinality(Rest) = IF r \in Inserting THEN Cardinality(Inserting) - 1
                                                  ELSE Cardinality(Inserting)
    BY <1>2, FS_RemoveElement
  <2>3. Cardinality(Rest) \in Nat /\ Cardinality(Inserting) \in Nat
    BY <1>2, <2>2, FS_CardinalityType
  <2>. QED  BY <2>1, <2>2, <2>3
<1>4. Inserting' = IF q.at = "insert" THEN Rest \cup {r} ELSE Rest
  BY <1>1 DEF Inserting
<1> HIDE DEF Rest
<1>5. r \notin Rest
  BY DEF Rest
<1>6. /\ IsFiniteSet(Inserting)'
      /\ Cardinality(Inserting)' =
           Cardinality(Rest) + (IF q.at = "insert" THEN 1 ELSE 0)
  <2>1. CASE q.at = "insert"
    <3>1. Inserting' = Rest \cup {r}
      BY <1>4, <2>1
    <3>2. IsFiniteSet(Rest \cup {r}) /\ Cardinality(Rest \cup {r}) = Cardinality(Rest) + 1
      BY <1>3, <1>5, FS_AddElement
    <3>. QED  BY <2>1, <3>1, <3>2
  <2>2. CASE q.at # "insert"
    <3>1. Inserting' = Rest
      BY <1>4, <2>2
    <3>. QED  BY <1>3, <2>2, <3>1
  <2>. QED  BY <2>1, <2>2
<1>. QED  BY <1>1, <1>3, <1>6

(* A request that was not inserting and leaves the market as it is.        *)
LEMMA MarketMovesOn ==
    ASSUME MarketInv, NEW r \in Requests, NEW q \in OppRequests, Goes(oreq, r, q),
           q.at \in {"patch", "remove"} => q.opp \in DOMAIN market,
           market' = market, removed' = removed, omoves' \in 0 .. MarketMoves,
           omoves' >= omoves + IF q.at = "insert" THEN 1 ELSE 0
    PROVE  MarketInv'
<1>1. /\ oreq' \in [Requests -> OppRequests] /\ oreq'[r] = q
      /\ \A s \in Requests \ {r} : oreq'[s] = oreq[s]
      /\ IsFiniteSet(Inserting)'
      /\ Cardinality(Inserting) \in Nat /\ Cardinality(Inserting)' \in Nat
      /\ Cardinality(Inserting)' <=
           Cardinality(Inserting) + (IF q.at = "insert" THEN 1 ELSE 0)
  BY MarketGoes
<1>2. TypeOKMarket'
  BY <1>1 DEF MarketInv, TypeOKMarket, Opps
<1>3. Len(market) \in Nat /\ omoves \in Nat
  BY MarketMovesAssumption DEF MarketInv, TypeOKMarket
<1>4. Cardinality(Inserting)' + Len(market) <= omoves'
  BY <1>1, <1>2, <1>3, MarketMovesAssumption DEF MarketInv, TypeOKMarket
<1>5. RemovedStays'
  BY DEF MarketInv, RemovedStays, ListedOpps
<1>6. (\A s \in Requests : oreq[s].at \in {"patch", "remove"} =>
                              oreq[s].opp \in DOMAIN market)'
  BY <1>1 DEF MarketInv
<1>. QED  BY <1>1, <1>2, <1>4, <1>5, <1>6 DEF MarketInv

(* What an insertion adds was counted when it was asked for.               *)
LEMMA MarketCounts ==
    ASSUME MarketInv, NEW r \in Requests, Goes(oreq, r, Idle), omoves' = omoves,
           Len(market') \in Nat, Idle \in OppRequests, Idle.at = "idle",
           Len(market') <= Len(market) + (IF oreq[r].at = "insert" THEN 1 ELSE 0)
    PROVE  /\ Cardinality(Inserting)' + Len(market') <= omoves'
           /\ Len(market') <= MarketMoves
<1> DEFINE c == Cardinality(Inserting)
           e == Cardinality(Inserting)'
           k == Len(market)
           n == Len(market')
           one == IF oreq[r].at = "insert" THEN 1 ELSE 0
<1>1. c \in Nat /\ e \in Nat /\ e = c - one
  BY MarketGoes
<1>2. k \in Nat /\ omoves \in Nat /\ omoves <= MarketMoves /\ c + k <= omoves
  BY MarketMovesAssumption DEF MarketInv, TypeOKMarket
<1>3. n \in Nat /\ n <= k + one /\ one \in {0, 1}
  OBVIOUS
<1> HIDE DEF c, e, k, n, one
<1>4. e + n <= omoves
  BY <1>1, <1>2, <1>3
<1>5. n <= MarketMoves
  BY <1>1, <1>2, <1>3, <1>4, MarketMovesAssumption
<1>. QED  BY <1>4, <1>5 DEF e, n

(* A request that ends as it stores a document, in the place of one or     *)
(* after all of them.                                                      *)
LEMMA MarketStores ==
    ASSUME MarketInv, NEW r \in Requests, Ends(oreq, r), omoves' = omoves,
           market' \in Seq(OppDocs),
           Len(market') >= Len(market),
           Len(market') <= Len(market) + (IF oreq[r].at = "insert" THEN 1 ELSE 0),
           removed \subseteq removed', removed' \subseteq DOMAIN market',
           \A o \in removed' : ~market'[o].live
    PROVE  MarketInv'
<1>0. Idle \in OppRequests /\ Idle.at = "idle"
  BY DEF OppRequests, Idle
<1>1. /\ oreq' \in [Requests -> OppRequests] /\ oreq'[r] = Idle
      /\ \A s \in Requests \ {r} : oreq'[s] = oreq[s]
      /\ IsFiniteSet(Inserting)'
      /\ Cardinality(Inserting) \in Nat /\ Cardinality(Inserting)' \in Nat
      /\ Cardinality(Inserting)' =
           Cardinality(Inserting) - (IF oreq[r].at = "insert" THEN 1 ELSE 0)
  BY <1>0, MarketGoes DEF Ends
<1>2. /\ Len(market) \in Nat /\ omoves \in 0 .. MarketMoves /\ Len(market') \in Nat
      /\ DOMAIN market = 1 .. Len(market) /\ DOMAIN market' = 1 .. Len(market')
  BY DEF MarketInv, TypeOKMarket
<1>3. Cardinality(Inserting)' + Len(market') <= omoves' /\ Len(market') <= MarketMoves
  <2>1. Len(market') \in Nat
    BY <1>2
  <2>2. Goes(oreq, r, Idle)
    BY DEF Ends
  <2>. QED  BY <1>0, <2>1, <2>2, MarketCounts
<1>4. DOMAIN market \subseteq DOMAIN market'
  BY <1>2
<1>5. TypeOKMarket'
  <2>1. DOMAIN market' \subseteq Opps
    <3> DEFINE n == Len(market')
    <3>1. n \in Nat /\ n <= MarketMoves /\ DOMAIN market' = 1 .. n
      BY <1>2, <1>3
    <3> HIDE DEF n
    <3>. QED  BY <3>1, MarketMovesAssumption DEF Opps
  <2>. QED  BY <1>1, <1>2, <1>3, <2>1 DEF TypeOKMarket, Opps
<1>6. RemovedStays'
  BY DEF RemovedStays, ListedOpps
<1>7. (\A s \in Requests : oreq[s].at \in {"patch", "remove"} =>
                              oreq[s].opp \in DOMAIN market)'
  BY <1>0, <1>1, <1>4 DEF MarketInv
<1>. QED  BY <1>1, <1>3, <1>5, <1>6, <1>7 DEF MarketInv

LEMMA MarketSteps == MarketInv /\ [MarketNext]_ovars => MarketInv'
<1> SUFFICES ASSUME MarketInv, [MarketNext]_ovars PROVE MarketInv'
  OBVIOUS
<1>0. /\ market \in Seq(OppDocs) /\ DOMAIN market = 1 .. Len(market) /\ Len(market) \in Nat
      /\ Len(market) <= MarketMoves /\ omoves \in 0 .. MarketMoves
      /\ \A o \in removed : o \in DOMAIN market /\ ~market[o].live
      /\ \A o \in DOMAIN market : market[o] \in OppDocs /\ o \in Opps
  BY MarketMovesAssumption DEF MarketInv, TypeOKMarket, RemovedStays, ListedOpps, Opps
<1>1. CASE UNCHANGED ovars
  BY <1>1 DEF ovars, MarketInv, TypeOKMarket, RemovedStays, ListedOpps, Inserting, Opps
<1>2. ASSUME NEW r \in Requests, MarketStep(r) PROVE MarketInv'
  <2>0. oreq[r] \in OppRequests
    BY DEF MarketInv, TypeOKMarket
  <2>1. ASSUME NEW u \in Owners, CreateOpp(r, u) PROVE MarketInv'
    <3> DEFINE q == [at |-> "insert", owner |-> u]
    <3>1. /\ q \in OppRequests /\ q.at = "insert" /\ Goes(oreq, r, q)
          /\ market' = market /\ removed' = removed
          /\ omoves' = omoves + 1 /\ omoves' \in 0 .. MarketMoves
      BY <1>0, <2>1, MarketMovesAssumption DEF CreateOpp, StartMarket, OppRequests
    <3> HIDE DEF q
    <3>. QED  BY <1>0, <3>1, MarketMovesOn
  <2>2. ASSUME AskUpdate(r) \/ AskRemoval(r) PROVE MarketInv'
    <3>1. PICK o \in ListedOpps, at \in {"patch", "remove"} :
             Goes(oreq, r, [at |-> at, opp |-> o])
      BY <2>2 DEF AskUpdate, AskRemoval
    <3> DEFINE q == [at |-> at, opp |-> o]
    <3>2. /\ q \in OppRequests /\ q.at \in {"patch", "remove"}
          /\ q.opp \in DOMAIN market /\ Goes(oreq, r, q)
      BY <1>0, <3>1 DEF OppRequests, ListedOpps
    <3>3. /\ market' = market /\ removed' = removed
          /\ omoves' = omoves + 1 /\ omoves' \in 0 .. MarketMoves
      BY <1>0, <2>2, MarketMovesAssumption DEF AskUpdate, AskRemoval, StartMarket
    <3> HIDE DEF q
    <3>. QED  BY <1>0, <3>2, <3>3, MarketMovesOn
  <2>3. ASSUME InsertOpp(r) PROVE MarketInv'
    <3>1. PICK side \in {"gerador", "receptor"}, w \in Wares, open \in BOOLEAN :
             market' = Append(market,
                          [owner |-> oreq[r].owner, live |-> TRUE, side |-> side,
                           ware |-> w, negotiable |-> open,
                           price |-> IF open THEN NoPrice ELSE 100])
      BY <2>3 DEF InsertOpp
    <3> DEFINE d == [owner |-> oreq[r].owner, live |-> TRUE, side |-> side,
                     ware |-> w, negotiable |-> open,
                     price |-> IF open THEN NoPrice ELSE 100]
    <3>2. /\ oreq[r].at = "insert" /\ Ends(oreq, r) /\ omoves' = omoves
          /\ removed' = removed
      BY <2>3 DEF InsertOpp, okept
    <3>3. oreq[r].owner \in Owners
      BY <2>0, <3>2 DEF OppRequests, Idle
    <3>4. d \in OppDocs
      BY <3>3 DEF OppDocs, Prices
    <3> HIDE DEF d
    <3>5. market' = Append(market, d)
      BY <3>1 DEF d
    <3>6. /\ market' \in Seq(OppDocs) /\ Len(market') = Len(market) + 1
          /\ \A o \in DOMAIN market : o \in DOMAIN market' /\ market'[o] = market[o]
      BY <1>0, <3>4, <3>5
    <3>7. removed' \subseteq DOMAIN market' /\ \A o \in removed' : ~market'[o].live
      BY <1>0, <3>2, <3>6
    <3>. QED  BY <3>2, <3>6, <3>7, MarketStores
  <2>4. ASSUME PatchOpp(r) PROVE MarketInv'
    <3> DEFINE o == oreq[r].opp
    <3>1. PICK p \in OppPatches : market' = [market EXCEPT ![o] = WithPatch(@, p)]
      BY <2>4 DEF PatchOpp
    <3>2. /\ oreq[r].at = "patch" /\ Ends(oreq, r) /\ omoves' = omoves
          /\ removed' = removed
      BY <2>4 DEF PatchOpp, okept
    <3>3. o \in DOMAIN market
      BY <3>2 DEF MarketInv
    <3> DEFINE e == WithPatch(market[o], p)
    <3>4. e \in OppDocs /\ e.live = market[o].live
      BY <1>0, <3>3, PatchedOpp
    <3>5. market' = [market EXCEPT ![o] = e]
      BY <3>1
    <3> HIDE DEF e, o
    <3>6. /\ market' \in Seq(OppDocs) /\ Len(market') = Len(market)
          /\ DOMAIN market' = DOMAIN market
          /\ \A i \in DOMAIN market : market'[i] = IF i = o THEN e ELSE market[i]
      BY <1>0, <3>3, <3>4, <3>5, ExceptSeq
    <3>7. removed' \subseteq DOMAIN market' /\ \A i \in removed' : ~market'[i].live
      BY <1>0, <3>2, <3>4, <3>6
    <3>. QED  BY <3>2, <3>6, <3>7, MarketStores
  <2>5. ASSUME RemoveOpp(r) PROVE MarketInv'
    <3> DEFINE o == oreq[r].opp
               e == [market[o] EXCEPT !.live = FALSE]
    <3>1. /\ oreq[r].at = "remove" /\ Ends(oreq, r) /\ omoves' = omoves
          /\ removed' = removed \cup {o}
      BY <2>5 DEF RemoveOpp, okept
    <3>2. o \in DOMAIN market
      BY <3>1 DEF MarketInv
    <3>3. market' = [market EXCEPT ![o] = e]
      BY <2>5 DEF RemoveOpp
    <3>4. e \in OppDocs /\ ~e.live
      <4>1. market[o] \in OppDocs
        BY <1>0, <3>2
      <4>. QED  BY <4>1 DEF OppDocs
    <3> HIDE DEF e, o
    <3>5. /\ market' \in Seq(OppDocs) /\ Len(market') = Len(market)
          /\ DOMAIN market' = DOMAIN market
          /\ \A i \in DOMAIN market : market'[i] = IF i = o THEN e ELSE market[i]
      BY <1>0, <3>2, <3>3, <3>4, ExceptSeq
    <3>6. removed' \subseteq DOMAIN market' /\ \A i \in removed' : ~market'[i].live
      BY <1>0, <3>1, <3>2, <3>4, <3>5
    <3>. QED  BY <3>1, <3>5, <3>6, MarketStores
  <2>6. ASSUME OppRaises(r) PROVE MarketInv'
    <3>1. /\ Goes(oreq, r, Idle) /\ Idle \in OppRequests /\ Idle.at = "idle"
          /\ market' = market /\ removed' = removed /\ omoves' = omoves
      BY <2>6 DEF OppRaises, Raises, Ends, okept, OppRequests, Idle
    <3>. QED  BY <1>0, <3>1, MarketMovesOn
  <2>. QED  BY <1>2, <2>1, <2>2, <2>3, <2>4, <2>5, <2>6 DEF MarketStep
<1>. QED  BY <1>1, <1>2 DEF MarketNext

-----------------------------------------------------------------------------
(* The market: scores                                                      *)

Upto(n, most) == n \in Nat /\ n <= most

USE DEF Upto

LEMMA RestScores ==
    ASSUME NEW a \in Wares, NEW b \in Wares
    PROVE  /\ Upto(PurityScore(a.rest.purity, b.rest.purity), 100)
           /\ Upto(TextScore(a.rest.form, b.rest.form), 100)
           /\ Upto(TextScore(a.detail, b.detail), 100)
           /\ a.detail = b.detail => TextScore(a.detail, b.detail) = 100
           /\ Upto(LocationScore(a.rest, b.rest), 100)
           /\ Upto(QuantityScore(a.rest, b.rest), 100)
<1>1. a.rest \in {Plain, Odd} /\ b.rest \in {Plain, Odd}
  BY DEF Wares
<1>2. Upto(PurityScore(a.rest.purity, b.rest.purity), 100)
  <2>1. a.rest.purity \in {90, 20} /\ b.rest.purity \in {90, 20}
    BY <1>1 DEF Plain, Odd
  <2>. QED  BY <2>1 DEF PurityScore, Gap, AtLeast0
<1>3. \A s, t : Upto(TextScore(s, t), 100) /\ (s = t => TextScore(s, t) = 100)
  BY DEF TextScore, Ratio
<1>4. Upto(LocationScore(a.rest, b.rest), 100)
  BY DEF LocationScore
<1>5. Upto(QuantityScore(a.rest, b.rest), 100)
  <2>1. /\ Plain.unit = "t" /\ Plain.quantity = 2
        /\ Odd.unit = "kg" /\ Odd.quantity = 1
    BY DEF Plain, Odd
  <2>2. CASE a.rest.unit # b.rest.unit
    BY <2>2 DEF QuantityScore
  <2>3. CASE a.rest.unit = b.rest.unit
    <3>1. /\ a.rest.quantity = b.rest.quantity /\ a.rest.quantity \in {1, 2}
      BY <1>1, <2>1, <2>3
    <3>2. QuantityScore(a.rest, b.rest) =
            AtLeast0(100 - (100 * 0) \div a.rest.quantity)
      BY <2>3, <3>1 DEF QuantityScore, Gap
    <3>. QED  BY <3>1, <3>2 DEF AtLeast0
  <2>. QED  BY <2>2, <2>3
<1>. QED  BY <1>2, <1>3, <1>4, <1>5

LEMMA PriceScores ==
    ASSUME NEW a, NEW b
    PROVE  Upto(PriceScore(a, b), 100)
BY DEF PriceScore

LEMMA Scores ==
    ASSUME NEW a \in OppDocs, NEW b \in OppDocs
    PROVE  /\ Upto(Score(a, b), 100)
           /\ a.ware.category # b.ware.category => Score(a, b) <= 30
           /\ a.ware.detail # b.ware.detail => Score(a, b) <= 60
           /\ a.ware.category = b.ware.category /\ a.ware.detail = b.ware.detail
                => Score(a, b) >= 70
<1> DEFINE d == TextScore(a.ware.detail, b.ware.detail)
           p == PurityScore(a.ware.rest.purity, b.ware.rest.purity)
           f == TextScore(a.ware.rest.form, b.ware.rest.form)
           l == LocationScore(a.ware.rest, b.ware.rest)
           q == QuantityScore(a.ware.rest, b.ware.rest)
           e == PriceScore(a, b)
           c == IF a.ware.category = b.ware.category THEN 100 ELSE 0
           base == BaseScore(a, b)
           n == Penalised(a, b)
<1>1. a.ware \in Wares /\ b.ware \in Wares
  BY DEF OppDocs
<1>2. /\ Upto(p, 100) /\ Upto(f, 100) /\ Upto(d, 100)
      /\ a.ware.detail = b.ware.detail => d = 100
      /\ Upto(l, 100) /\ Upto(q, 100)
  BY <1>1, RestScores
<1>3. Upto(e, 100)
  BY PriceScores
<1>4. base = 40 * c + 30 * d + 5 * p + 5 * f + 10 * l + 5 * q + 5 * e
  BY DEF BaseScore
<1>5. c \in {0, 100} /\ (a.ware.category = b.ware.category => c = 100)
  OBVIOUS
<1> HIDE DEF d, p, f, l, q, e, c, base, n
<1>6. /\ Upto(base, 10000)
      /\ a.ware.category = b.ware.category /\ a.ware.detail = b.ware.detail
           => base >= 7000
  BY <1>2, <1>3, <1>4, <1>5
<1>7. n = IF a.ware.category # b.ware.category THEN Capped((25 * base) \div 100, 3000)
          ELSE IF a.ware.detail # b.ware.detail THEN Capped((60 * base) \div 100, 6000)
          ELSE base
  BY DEF Penalised, base, n
<1>8. /\ Upto(Capped((25 * base) \div 100, 3000), 3000)
      /\ Upto(Capped((60 * base) \div 100, 6000), 6000)
  BY <1>6 DEF Capped
<1>9. /\ Upto(n, 10000)
      /\ a.ware.category # b.ware.category => n <= 3000
      /\ a.ware.detail # b.ware.detail => n <= 6000
      /\ a.ware.category = b.ware.category /\ a.ware.detail = b.ware.detail
           => n >= 7000
  <2>1. CASE a.ware.category # b.ware.category
    <3>1. Upto(n, 3000)
      BY <1>7, <1>8, <2>1
    <3>. QED  BY <2>1, <3>1
  <2>2. CASE a.ware.category = b.ware.category /\ a.ware.detail # b.ware.detail
    <3>1. Upto(n, 6000)
      BY <1>7, <1>8, <2>2
    <3>2. Upto(n, 10000) /\ n <= 6000
      BY <3>1
    <3>. QED  BY <2>2, <3>2
  <2>3. CASE a.ware.category = b.ware.category /\ a.ware.detail = b.ware.detail
    <3>1. n = base
      BY <1>7, <2>3
    <3>. QED  BY <1>6, <2>3, <3>1
  <2>. QED  BY <2>1, <2>2, <2>3
<1>10. Score(a, b) = IF n % 100 = 50 /\ (n \div 100) % 2 = 0 THEN n \div 100
                                                           ELSE (n + 50) \div 100
  BY DEF Score, n
<1>11. /\ Upto(Score(a, b), 100)
       /\ n <= 3000 => Score(a, b) <= 30
       /\ n <= 6000 => Score(a, b) <= 60
       /\ n >= 7000 => Score(a, b) >= 70
  BY <1>9, <1>10
<1>. QED  BY <1>9, <1>11

(* What the n newest opportunities leave is the best of the demands among  *)
(* them, and the newest of the best.                                       *)
LEMMA BestIsBest ==
    ASSUME TypeOKMarket, NEW u \in Owners, NEW o \in MatchedOffers(u)
    PROVE  LET best == BestMatch(o, u) IN
           /\ best \in DemandsOf(u)
           /\ \A d \in DemandsOf(u) :
                \/ Score(market[o], market[d]) < Score(market[o], market[best])
                \/ /\ Score(market[o], market[d]) = Score(market[o], market[best])
                   /\ d <= best
<1> DEFINE N == Len(market)
           S(d) == Score(market[o], market[d])
           Next(found, d) == IF d \in DemandsOf(u) /\ (found = NoMatch \/ S(d) > S(found))
                               THEN d ELSE found
           Is(g) == g = [n \in 0 .. N |-> IF n = 0 THEN NoMatch
                                          ELSE Next(g[n - 1], N + 1 - n)]
           shown == CHOOSE g : Is(g)
<1>1. N \in Nat /\ DOMAIN market = 1 .. N /\ \A d \in 1 .. N : market[d] \in OppDocs
  BY DEF TypeOKMarket
<1>2. DemandsOf(u) \subseteq 1 .. N /\ DemandsOf(u) # {} /\ o \in 1 .. N
  BY <1>1 DEF DemandsOf, ListedOpps, MatchedOffers
<1>3. \A d \in 1 .. N : S(d) \in Int
  <2> SUFFICES ASSUME NEW d \in 1 .. N PROVE S(d) \in Int
    OBVIOUS
  <2>1. Upto(S(d), 100)
    BY <1>1, <1>2, Scores
  <2> HIDE DEF S
  <2>. QED  BY <2>1
<1>4. BestMatch(o, u) = shown[N]
  BY DEF BestMatch
<1> HIDE DEF Next
<1>5. \E g : Is(g)
  <2> DEFINE step == [x \in (0 .. N) \X (1 .. N) |-> Next(x[1], N + 1 - x[2])]
  <2>1. step \in [(0 .. N) \X (1 .. N) -> 0 .. N]
    BY <1>1 DEF Next
  <2>2. PICK g \in [0 .. N -> 0 .. N] :
           g[0] = NoMatch /\ \A n \in 1 .. N : g[n] = step[<<g[n - 1], n>>]
    <3>1. NoMatch \in 0 .. N
      BY <1>1 DEF NoMatch
    <3> DEFINE V == 0 .. N
    <3>2. N \in Nat /\ NoMatch \in V /\ step \in [V \X (1 .. N) -> V]
      BY <1>1, <2>1, <3>1
    <3> HIDE DEF step, N, V
    <3>3. \E g : Iterates(g, N, V, NoMatch, step)
      BY <3>2, Iterated
    <3>. QED  BY <3>3 DEF V, Iterates
  <2>3. ASSUME NEW n \in 0 .. N
        PROVE  g[n] = IF n = 0 THEN NoMatch ELSE Next(g[n - 1], N + 1 - n)
    <3>1. CASE n = 0
      BY <2>2, <3>1
    <3>2. CASE n # 0
      <4>1. n \in 1 .. N /\ n - 1 \in 0 .. N
        BY <1>1, <3>2
      <4>2. g[n - 1] \in 0 .. N
        BY <2>2, <4>1
      <4>. QED  BY <2>2, <3>2, <4>1, <4>2
    <3>. QED  BY <3>1, <3>2
  <2>4. Is(g)
    BY <2>2, <2>3
  <2>. QED  BY <2>4
<1>6. Is(shown)
  BY <1>5
<1> HIDE DEF shown
<1>7. /\ shown[0] = NoMatch
      /\ \A n \in 1 .. N : shown[n] = Next(shown[n - 1], N + 1 - n)
  BY <1>1, <1>6
<1> HIDE DEF Is
<1> DEFINE Among(n) == {d \in DemandsOf(u) : d > N - n}
           Best(n) == IF Among(n) = {} THEN shown[n] = NoMatch
                      ELSE /\ shown[n] \in Among(n)
                           /\ \A d \in Among(n) : \/ S(d) < S(shown[n])
                                                  \/ S(d) = S(shown[n]) /\ d <= shown[n]
           T == {n \in 0 .. N : Best(n)}
<1>8. 0 \in T
  <2>1. Among(0) = {}
    BY <1>1, <1>2
  <2>. QED  BY <1>1, <1>7, <2>1
<1>9. ASSUME NEW n \in 1 .. N, n - 1 \in T PROVE n \in T
  <2> DEFINE d == N + 1 - n
             k == n - 1
             found == shown[k]
  <2>0. k \in 0 .. N /\ Best(k)
    BY <1>9
  <2>1. /\ d \in 1 .. N /\ n \in 0 .. N
        /\ Among(n) = Among(k) \cup ({d} \cap DemandsOf(u))
        /\ \A c \in Among(k) : c \in 1 .. N /\ c > d
    BY <1>1, <1>2
  <2>3. shown[n] = Next(found, d)
    BY <1>7
  <2> HIDE DEF k
  <2>2. /\ Among(k) = {} => found = NoMatch
        /\ Among(k) # {} => /\ found \in Among(k)
                            /\ \A c \in Among(k) :
                                 S(c) < S(found) \/ (S(c) = S(found) /\ c <= found)
    <3> HIDE DEF Among, S
    <3>. QED  BY <2>0
  <2>4. CASE d \notin DemandsOf(u)
    <3>1. shown[n] = found /\ Among(n) = Among(k)
      BY <2>1, <2>3, <2>4 DEF Next
    <3>. QED  BY <2>1, <2>2, <3>1
  <2>5. CASE d \in DemandsOf(u)
    <3>1. Among(n) = Among(k) \cup {d}
      BY <2>1, <2>5
    <3>2. CASE Among(k) = {}
      <4>1. shown[n] = d /\ Among(n) = {d}
        BY <2>2, <2>3, <2>5, <3>1, <3>2 DEF Next
      <4>. QED  BY <2>1, <4>1
    <3>3. CASE Among(k) # {}
      <4>1. /\ found \in Among(k)
            /\ \A c \in Among(k) :
                 S(c) < S(found) \/ (S(c) = S(found) /\ c <= found)
        BY <2>2, <3>3
      <4>2. found # NoMatch /\ found \in 1 .. N
        BY <2>1, <4>1 DEF NoMatch
      <4>3. S(found) \in Int /\ S(d) \in Int /\ \A c \in Among(k) : S(c) \in Int
        BY <1>3, <2>1, <4>2
      <4>4. CASE S(d) > S(found)
        <5>1. shown[n] = d
          BY <2>3, <2>5, <4>4 DEF Next
        <5>. QED  BY <2>1, <3>1, <4>1, <4>3, <4>4, <5>1
      <4>5. CASE ~ (S(d) > S(found))
        <5>1. shown[n] = found
          BY <2>3, <4>2, <4>5 DEF Next
        <5>. QED  BY <2>1, <3>1, <4>1, <4>3, <4>5, <5>1
      <4>. QED  BY <4>4, <4>5
    <3>. QED  BY <3>2, <3>3
  <2>. QED  BY <2>4, <2>5
<1>10. Best(N)
  <2> HIDE DEF Best
  <2>1. 0 .. N \subseteq T
    <3> HIDE DEF T, N
    <3>. QED  BY <1>1, <1>8, <1>9, UpTo
  <2>. QED  BY <1>1, <2>1
<1>11. Among(N) = DemandsOf(u)
  BY <1>1, <1>2
<1>. QED  BY <1>2, <1>4, <1>10, <1>11

-----------------------------------------------------------------------------
(* The market: theorems                                                    *)

LEMMA MatchesRank == TypeOKMarket => MatchRanks
<1> SUFFICES ASSUME TypeOKMarket, NEW u \in Owners, NEW o \in MatchedOffers(u)
             PROVE  LET offer == market[o]
                        match == BestMatch(o, u)
                        best  == market[match]
                        won   == Score(offer, best) IN
                    /\ best.live /\ best.owner = u
                    /\ \A d \in DemandsOf(u) :
                         \/ Score(offer, market[d]) < won
                         \/ Score(offer, market[d]) = won /\ d <= match
                    /\ won \in 0 .. 100
                    /\ offer.ware.category # best.ware.category => Potential(won) = "LOW"
                    /\ offer.ware.detail # best.ware.detail => Potential(won) # "HIGH"
                    /\ (/\ offer.ware.category = best.ware.category
                        /\ offer.ware.detail = best.ware.detail) => Potential(won) # "LOW"
  BY DEF MatchRanks
<1> DEFINE match == BestMatch(o, u)
           won   == Score(market[o], market[match])
<1>1. /\ match \in DemandsOf(u)
      /\ \A d \in DemandsOf(u) :
           \/ Score(market[o], market[d]) < won
           \/ Score(market[o], market[d]) = won /\ d <= match
  BY BestIsBest
<1> HIDE DEF match
<1>2. /\ market[o] \in OppDocs /\ market[match] \in OppDocs
      /\ market[match].live /\ market[match].owner = u
  BY <1>1 DEF TypeOKMarket, MatchedOffers, DemandsOf, ListedOpps
<1>3. /\ Upto(won, 100)
      /\ market[o].ware.category # market[match].ware.category => won <= 30
      /\ market[o].ware.detail # market[match].ware.detail => won <= 60
      /\ (/\ market[o].ware.category = market[match].ware.category
          /\ market[o].ware.detail = market[match].ware.detail) => won >= 70
  BY <1>2, Scores
<1> HIDE DEF won
<1>4. /\ won \in 0 .. 100
      /\ won <= 30 => Potential(won) = "LOW"
      /\ won <= 60 => Potential(won) # "HIGH"
      /\ won >= 70 => Potential(won) # "LOW"
  BY <1>3 DEF Potential
<1>5. \A d \in DemandsOf(u) :
         \/ Score(market[o], market[d]) < won
         \/ Score(market[o], market[d]) = won /\ d <= match
  BY <1>1 DEF won
<1>. QED  BY <1>2, <1>3, <1>4, <1>5 DEF won, match

(* Opportunities, requests and the count of requests keep their types: an  *)
(* insertion was counted when it was asked for.                            *)
THEOREM MarketTypeCorrect == MarketSpec => []TypeOKMarket
<1>1. MarketInv => TypeOKMarket
  BY DEF MarketInv
<1>. QED  BY <1>1, MarketStarts, MarketSteps, PTL DEF MarketSpec

(* However requests overlap or raise, what was removed stays out of every  *)
(* list, and the match shown with an offer is the newest of a member's     *)
(* demands that score highest, classed by what the two have in common.     *)
THEOREM MarketIsFair == MarketSpec => []MarketFair
<1>1. MarketInv => MarketFair
  BY MatchesRank DEF MarketInv, MarketFair
<1>. QED  BY <1>1, MarketStarts, MarketSteps, PTL DEF MarketSpec

=============================================================================
