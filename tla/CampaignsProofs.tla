-------------------------- MODULE CampaignsProofs --------------------------
(***************************************************************************)
(* Theorems about Campaigns, for any number of campaigns, users, workers   *)
(* and requests.                                                           *)
(*                                                                         *)
(* The argument: a decision to send opens a campaign, a claim closes it,   *)
(* so claims never outrun decisions (Budget).  A claim lets one run serve  *)
(* each user once, and the run forgets a user it has served, so the copies *)
(* a user has and the runs that may still serve him are never more than    *)
(* the claims (Copies), however many runs overlap after a reset.           *)
(***************************************************************************)
EXTENDS Campaigns, FiniteSetTheorems, TLAPS

(* The runs that may still serve u.                                        *)
Serves(q, c, u) ==
    /\ q.on = {c}
    /\ \/ q.pc = "resolve"
       \/ q.pc = "send" /\ u \in q.todo

ToServe(c, u) == {p \in Procs : Serves(proc[p], c, u)}

Budget ==
    \A c \in Campaigns :
        takes[c] + (IF camp[c].status \in Claimable THEN 1 ELSE 0) <= grants[c]

Copies ==
    \A c \in Campaigns, u \in Users, ch \in Channels :
        got[c][<<u, ch>>] + Cardinality(ToServe(c, u)) <= takes[c]

CInv == TypeOK /\ Budget /\ Copies

Places == [pc: Phases, on: SUBSET Campaigns, batch: SUBSET Campaigns,
           todo: SUBSET Users, ok: Nat, total: Nat]

Records == [status: Statuses, at: Nat, channels: SUBSET Channels, delivered: Nat]

-----------------------------------------------------------------------------
(* Lemmas                                                                  *)

(* Sets of processes and of users can be counted.                          *)
LEMMA Countable ==
    /\ \A S \in SUBSET Procs : IsFiniteSet(S) /\ Cardinality(S) \in Nat
    /\ \A S \in SUBSET Users : IsFiniteSet(S) /\ Cardinality(S) \in Nat
<1>1. IsFiniteSet(Procs)
  BY ProcsAssumption, FS_Union DEF Procs
<1>. QED  BY <1>1, UsersAssumption, FS_Subset, FS_CardinalityType

(* Where a process is put after a step.                                    *)
LEMMA AtPlace ==
    ASSUME NEW pc \in Phases, NEW b \in SUBSET Campaigns
    PROVE  /\ At(pc, b) \in Places /\ At(pc, b).pc = pc /\ At(pc, b).batch = b
           /\ \A c \in Campaigns :
                /\ [At(pc, b) EXCEPT !.on = {c}] \in Places
                /\ [At(pc, b) EXCEPT !.on = {c}].pc = pc
BY DEF At, Places

(* Where a process goes when deliver ends.                                 *)
LEMMA ReturnPlace ==
    ASSUME TypeOK, NEW p \in Procs, Return(p)
    PROVE  \E q \in Places : Become(p, q) /\ q.pc \in {"next", "done"}
<1>1. proc[p].batch \in SUBSET Campaigns
  BY DEF TypeOK
<1>2. CASE p \in Workers
  BY <1>1, <1>2, AtPlace DEF Return, Phases
<1>3. CASE p \notin Workers
  BY <1>3, AtPlace DEF Return, Phases
<1>. QED  BY <1>2, <1>3

(* Moving one process to q.                                                *)
LEMMA PutAt ==
    ASSUME TypeOK, NEW p \in Procs, NEW q \in Places, Become(p, q)
    PROVE  /\ proc' \in [Procs -> Places] /\ proc'[p] = q
           /\ \A s \in Procs \ {p} : proc'[s] = proc[s]
BY DEF TypeOK, Become, Places

(* A step after which no user has more runs to wait for keeps Copies.      *)
LEMMA Fewer ==
    ASSUME Copies, TypeOK, UNCHANGED <<got, takes>>,
           \A c \in Campaigns, u \in Users : ToServe(c, u)' \subseteq ToServe(c, u)
    PROVE  Copies'
<1> SUFFICES ASSUME NEW c \in Campaigns, NEW u \in Users, NEW ch \in Channels
             PROVE  got'[c][<<u, ch>>] + Cardinality(ToServe(c, u)') <= takes'[c]
  BY DEF Copies
<1> DEFINE S == ToServe(c, u)
           T == ToServe(c, u)'
<1>1. S \in SUBSET Procs /\ T \subseteq S
  BY DEF ToServe
<1>2. Cardinality(S) \in Nat /\ Cardinality(T) \in Nat /\ Cardinality(T) <= Cardinality(S)
  <2> HIDE DEF S, T
  <2>. QED  BY <1>1, Countable, FS_Subset
<1>3. got[c][<<u, ch>>] \in Nat /\ takes[c] \in Nat
  BY DEF TypeOK
<1>4. got[c][<<u, ch>>] + Cardinality(S) <= takes[c]
  BY DEF Copies
<1> HIDE DEF S, T
<1>5. got[c][<<u, ch>>] + Cardinality(T) <= takes[c]
  BY <1>2, <1>3, <1>4
<1>. QED  BY <1>5 DEF T

(* Moving one process to a place where it serves nobody new.               *)
LEMMA Moves ==
    ASSUME Copies, TypeOK, NEW p \in Procs, NEW q \in Places, Become(p, q),
           UNCHANGED <<got, takes>>,
           \/ q.pc \notin {"resolve", "send"}
           \/ proc[p].pc = "resolve" /\ q.on = proc[p].on
    PROVE  Copies'
<1>1. ASSUME NEW c \in Campaigns, NEW u \in Users, NEW s \in Procs,
             Serves(proc'[s], c, u)
      PROVE  Serves(proc[s], c, u)
  <2>1. CASE s = p
    <3>1. Serves(q, c, u)
      BY <1>1, <2>1, PutAt
    <3>2. proc[p].pc = "resolve" /\ proc[p].on = {c}
      BY <3>1 DEF Serves
    <3>. QED  BY <2>1, <3>2 DEF Serves
  <2>2. CASE s # p
    BY <1>1, <2>2, PutAt
  <2>. QED  BY <2>1, <2>2
<1>2. \A c \in Campaigns, u \in Users : ToServe(c, u)' \subseteq ToServe(c, u)
  BY <1>1 DEF ToServe
<1>. QED  BY <1>2, Fewer

(* A step that leaves the campaigns and the history alone keeps Budget.    *)
LEMMA SameBudget ==
    ASSUME Budget, UNCHANGED <<camp, grants, takes>>
    PROVE  Budget'
BY DEF Budget

(* Changing a campaign's status without opening it keeps Budget.           *)
LEMMA Closes ==
    ASSUME Budget, TypeOK, NEW c \in Campaigns, UNCHANGED <<grants, takes>>,
           \A d \in Campaigns \ {c} : camp'[d].status = camp[d].status,
           camp'[c].status \notin Claimable
    PROVE  Budget'
BY DEF Budget, TypeOK

-----------------------------------------------------------------------------
(* The steps                                                               *)

LEMMA CampaignsStart == Init => CInv
<1> SUFFICES ASSUME Init PROVE CInv
  OBVIOUS
<1>1. TypeOK
  BY AtPlace DEF Init, TypeOK, Absent, Statuses, Phases, Places
<1>2. Budget
  BY DEF Init, Budget, Absent, Claimable
<1>3. Copies
  <2>1. \A c \in Campaigns, u \in Users : ToServe(c, u) = {}
    BY DEF Init, ToServe, Serves, At
  <2>2. \A c \in Campaigns, u \in Users, ch \in Channels :
          got[c][<<u, ch>>] = 0 /\ takes[c] = 0
    BY DEF Init
  <2>3. Cardinality({}) = 0
    BY FS_EmptySet
  <2>4. ASSUME NEW c \in Campaigns, NEW u \in Users, NEW ch \in Channels
        PROVE  got[c][<<u, ch>>] + Cardinality(ToServe(c, u)) <= takes[c]
    <3>1. Cardinality(ToServe(c, u)) = 0
      BY <2>1, <2>3, Zenon
    <3>. QED  BY <2>2, <3>1
  <2>. QED  BY <2>4 DEF Copies
<1>. QED  BY <1>1, <1>2, <1>3 DEF CInv

(* Moving a process on, with nothing else changed.                         *)
LEMMA OnlyMoves ==
    ASSUME CInv, NEW p \in Procs, NEW q \in Places, Become(p, q),
           UNCHANGED <<camp, got, now, grants, takes>>, crashes' \in Nat,
           \/ q.pc \notin {"resolve", "send"}
           \/ proc[p].pc = "resolve" /\ q.on = proc[p].on
    PROVE  CInv'
<1>1. TypeOK'
  BY PutAt DEF CInv, TypeOK, Places
<1>2. Budget'
  BY SameBudget DEF CInv
<1>3. Copies'
  BY Moves DEF CInv
<1>. QED  BY <1>1, <1>2, <1>3 DEF CInv

LEMMA OnlyReturns ==
    ASSUME CInv, NEW p \in Procs, Return(p),
           UNCHANGED <<camp, got, now, crashes, grants, takes>>
    PROVE  CInv'
<1>1. PICK q \in Places : Become(p, q) /\ q.pc \in {"next", "done"}
  BY ReturnPlace DEF CInv
<1>. QED  BY <1>1, OnlyMoves DEF CInv, TypeOK

(* A process stores a status that opens nothing.                           *)
LEMMA StoresClosed ==
    ASSUME CInv, NEW p \in Procs, NEW c \in Campaigns, NEW q \in Places,
           Become(p, q), q.pc \notin {"resolve", "send"},
           NEW s \in Statuses \ Claimable, NEW n \in Nat,
           camp' = [camp EXCEPT ![c].status = s, ![c].delivered = n],
           UNCHANGED <<got, now, crashes, grants, takes>>
    PROVE  CInv'
<1>0. camp' \in [Campaigns -> Records]
  <2>1. camp \in [Campaigns -> Records] /\ s \in Statuses
    BY DEF CInv, TypeOK, Records
  <2>2. [camp[c] EXCEPT !.status = s, !.delivered = n] \in Records
    BY <2>1 DEF Records
  <2>. QED  BY <2>1, <2>2
<1>1. TypeOK'
  <2>1. TypeOK
    BY DEF CInv
  <2>2. proc' \in [Procs -> Places]
    BY <2>1, PutAt
  <2>3. camp' \in [Campaigns -> [status: Statuses, at: Nat,
                                channels: SUBSET Channels, delivered: Nat]]
    BY <1>0 DEF Records
  <2>. QED  BY <2>1, <2>2, <2>3 DEF TypeOK, Places
<1>2. Budget'
  <2>1. Budget /\ TypeOK
    BY DEF CInv
  <2>2. /\ \A d \in Campaigns \ {c} : camp'[d].status = camp[d].status
        /\ camp'[c].status \notin Claimable
    BY <2>1 DEF TypeOK
  <2>. QED  BY <2>1, <2>2, Closes
<1>3. Copies'
  BY Moves DEF CInv
<1>. QED  BY <1>1, <1>2, <1>3 DEF CInv

(* A decision to send opens one campaign.                                  *)
LEMMA Opens ==
    ASSUME CInv, NEW p \in Procs, NEW c \in Campaigns, NEW q \in Places,
           Become(p, q), q.pc \notin {"resolve", "send"},
           NEW rec \in Records,
           camp' = [camp EXCEPT ![c] = rec],
           grants' = [grants EXCEPT ![c] = @ + 1],
           UNCHANGED <<got, now, crashes, takes>>
    PROVE  CInv'
<1>0. camp' \in [Campaigns -> Records] /\ grants' \in [Campaigns -> Nat]
  BY DEF CInv, TypeOK, Records
<1>1. TypeOK'
  BY <1>0, PutAt DEF CInv, TypeOK, Places, Records
<1>2. Budget'
  BY DEF CInv, TypeOK, Budget
<1>3. Copies'
  BY Moves DEF CInv
<1>. QED  BY <1>1, <1>2, <1>3 DEF CInv

(* The claim: the run may serve everybody once.                            *)
LEMMA Claims ==
    ASSUME CInv, NEW p \in Procs, NEW c \in Campaigns, Claim(p, c)
    PROVE  CInv'
<1> DEFINE q == [proc[p] EXCEPT !.pc = "resolve"]
<1>1. /\ proc' = [proc EXCEPT ![p] = q] /\ q \in Places
      /\ q.pc = "resolve" /\ q.on = {c} /\ proc[p].pc = "claim"
      /\ camp' = [camp EXCEPT ![c].status = "processing"]
      /\ camp[c].status \in Claimable
      /\ takes' = [takes EXCEPT ![c] = @ + 1]
      /\ UNCHANGED <<got, now, crashes, grants>>
  BY DEF Claim, CanClaim, SetStatus, Become, CInv, TypeOK, Places, Phases
<1> HIDE DEF q
<1>a. camp' \in [Campaigns -> Records] /\ takes' \in [Campaigns -> Nat]
  <2>1. camp \in [Campaigns -> Records] /\ takes \in [Campaigns -> Nat]
    BY DEF CInv, TypeOK, Records
  <2>2. "processing" \in Statuses
    BY DEF Statuses
  <2>. QED  BY <1>1, <2>1, <2>2 DEF Records
<1>b. /\ proc' \in [Procs -> Places] /\ proc'[p] = q
      /\ \A s \in Procs \ {p} : proc'[s] = proc[s]
  BY <1>1, PutAt DEF CInv, Become
<1>2. TypeOK'
  BY <1>1, <1>a, <1>b DEF CInv, TypeOK, Places, Records
<1>3. Budget'
  BY <1>1 DEF CInv, TypeOK, Budget, Claimable
<1>4. ASSUME NEW d \in Campaigns, NEW u \in Users, NEW ch \in Channels
      PROVE  got'[d][<<u, ch>>] + Cardinality(ToServe(d, u)') <= takes'[d]
  <2> DEFINE S == ToServe(d, u)
             T == ToServe(d, u)'
  <2>1. S \in SUBSET Procs /\ T = IF d = c THEN S \cup {p} ELSE S
    <3>1. ~Serves(proc[p], d, u)
      BY <1>1 DEF Serves
    <3>2. {c} = {d} <=> d = c
      OBVIOUS
    <3>3. Serves(q, d, u) <=> d = c
      BY <1>1, <3>2 DEF Serves
    <3>. QED  BY <1>b, <3>1, <3>3 DEF ToServe
  <2>2. got'[d][<<u, ch>>] = got[d][<<u, ch>>] /\ got[d][<<u, ch>>] \in Nat /\ takes[d] \in Nat
    BY <1>1 DEF CInv, TypeOK
  <2>3. got[d][<<u, ch>>] + Cardinality(S) <= takes[d]
    BY DEF CInv, Copies
  <2>4. takes'[d] = IF d = c THEN takes[d] + 1 ELSE takes[d]
    BY <1>1 DEF CInv, TypeOK
  <2> HIDE DEF S, T
  <2>5. /\ Cardinality(S) \in Nat /\ Cardinality(T) \in Nat
        /\ Cardinality(T) <= IF d = c THEN Cardinality(S) + 1 ELSE Cardinality(S)
    <3>1. IsFiniteSet(S) /\ Cardinality(S) \in Nat /\ T \in SUBSET Procs
      BY <2>1, Countable
    <3>2. Cardinality(S \cup {p}) = IF p \in S THEN Cardinality(S) ELSE Cardinality(S) + 1
      BY <3>1, FS_AddElement
    <3>3. Cardinality(T) \in Nat
      BY <3>1, Countable
    <3>. QED  BY <2>1, <3>1, <3>2, <3>3
  <2>6. got'[d][<<u, ch>>] + Cardinality(T) <= takes'[d]
    BY <2>2, <2>3, <2>4, <2>5
  <2>. QED  BY <2>6 DEF T
<1>5. Copies'
  BY <1>4 DEF Copies
<1>. QED  BY <1>2, <1>3, <1>5 DEF CInv

(* One user is served: he has one copy more, and one run less to wait for. *)
LEMMA Delivers ==
    ASSUME CInv, NEW p \in Procs, NEW c \in Campaigns, NEW u \in Users,
           Deliver(p, c, u)
    PROVE  CInv'
<1>0. \A served \in BOOLEAN : \A chs \in Reached(Wanted(c, u), served) :
        chs \in SUBSET Channels
  <2>1. Wanted(c, u) \subseteq Channels
    BY DEF Wanted, CInv, TypeOK
  <2>. QED  BY <2>1 DEF Reached
<1>1. PICK served \in BOOLEAN, chs \in SUBSET Channels :
        /\ got' = [got EXCEPT ![c] = [k \in Users \X Channels |->
                     IF k[1] = u /\ k[2] \in chs THEN @[k] + 1 ELSE @[k]]]
        /\ Become(p, [proc[p] EXCEPT !.todo = @ \ {u}, !.ok = Served(proc[p], served)])
  BY <1>0, Zenon DEF Deliver
<1> DEFINE q == [proc[p] EXCEPT !.todo = @ \ {u}, !.ok = Served(proc[p], served)]
<1>2. /\ proc' = [proc EXCEPT ![p] = q] /\ q \in Places
      /\ q.pc = "send" /\ q.on = {c} /\ q.todo = proc[p].todo \ {u}
      /\ proc[p].pc = "send" /\ proc[p].on = {c} /\ u \in proc[p].todo
      /\ UNCHANGED <<camp, now, crashes, grants, takes>>
  <2>1. proc[p] \in Places /\ Served(proc[p], served) \in Nat
    BY DEF Served, CInv, TypeOK, Places
  <2>2. proc[p].pc = "send" /\ proc[p].on = {c} /\ u \in proc[p].todo
    BY DEF Deliver
  <2>. QED  BY <1>1, <2>1, <2>2 DEF Deliver, Become, Places
<1>b. /\ proc' \in [Procs -> Places] /\ proc'[p] = q
      /\ \A s \in Procs \ {p} : proc'[s] = proc[s]
  BY <1>2, PutAt DEF CInv, Become
<1> HIDE DEF q
<1>3. \A d \in Campaigns, v \in Users, ch \in Channels :
        /\ got[d][<<v, ch>>] \in Nat
        /\ got'[d][<<v, ch>>] \in Nat
        /\ got'[d][<<v, ch>>] <= got[d][<<v, ch>>] + (IF d = c /\ v = u THEN 1 ELSE 0)
  BY <1>1 DEF CInv, TypeOK
<1>4. got' \in [Campaigns -> [Users \X Channels -> Nat]]
  BY <1>1 DEF CInv, TypeOK
<1>5. TypeOK'
  BY <1>2, <1>4, <1>b DEF CInv, TypeOK, Places
<1>6. Budget'
  BY <1>2, SameBudget DEF CInv
<1>7. ASSUME NEW d \in Campaigns, NEW v \in Users, NEW ch \in Channels
      PROVE  got'[d][<<v, ch>>] + Cardinality(ToServe(d, v)') <= takes'[d]
  <2> DEFINE S == ToServe(d, v)
             T == ToServe(d, v)'
  <2>1. S \in SUBSET Procs /\ T = IF d = c /\ v = u THEN S \ {p} ELSE S
    <3>1. {c} = {d} <=> d = c
      OBVIOUS
    <3>2. Serves(q, d, v) <=> Serves(proc[p], d, v) /\ ~(d = c /\ v = u)
      BY <1>2, <3>1 DEF Serves
    <3>. QED  BY <1>b, <3>2 DEF ToServe
  <2>2. d = c /\ v = u => p \in S
    BY <1>2 DEF ToServe, Serves
  <2>3. got[d][<<v, ch>>] + Cardinality(S) <= takes[d] /\ takes'[d] = takes[d] /\ takes[d] \in Nat
    BY <1>2 DEF CInv, Copies, TypeOK
  <2> HIDE DEF S, T
  <2>4. /\ Cardinality(S) \in Nat /\ Cardinality(T) \in Nat
        /\ Cardinality(T) = IF d = c /\ v = u THEN Cardinality(S) - 1 ELSE Cardinality(S)
    BY <2>1, <2>2, Countable, FS_RemoveElement
  <2>5. got'[d][<<v, ch>>] + Cardinality(T) <= takes'[d]
    BY <1>3, <2>3, <2>4
  <2>. QED  BY <2>5 DEF T
<1>8. Copies'
  BY <1>7 DEF Copies
<1>. QED  BY <1>5, <1>6, <1>8 DEF CInv

(* Every step of Next, and stuttering, preserves the invariant.            *)
LEMMA CampaignsSteps == CInv /\ [Next]_vars => CInv'
<1> SUFFICES ASSUME CInv, [Next]_vars PROVE CInv'
  OBVIOUS
<1>0. TypeOK /\ proc \in [Procs -> Places] /\ Workers \subseteq Procs /\ Requests \subseteq Procs
  BY DEF CInv, TypeOK, Places, Procs
<1>1. CASE UNCHANGED vars
  BY <1>1 DEF vars, CInv, TypeOK, Budget, Copies, ToServe
<1>2. CASE Tick
  <2>1. UNCHANGED <<camp, got, proc, crashes, grants, takes>> /\ now' \in Nat
    BY <1>0, <1>2 DEF Tick, TypeOK
  <2>2. TypeOK'
    BY <1>0, <2>1 DEF TypeOK
  <2>3. Budget'
    BY <2>1, SameBudget DEF CInv
  <2>4. \A c \in Campaigns, u \in Users : ToServe(c, u)' \subseteq ToServe(c, u)
    BY <2>1 DEF ToServe
  <2>5. Copies'
    BY <2>1, <2>4, Fewer DEF CInv
  <2>. QED  BY <2>2, <2>3, <2>5 DEF CInv
<1>3. ASSUME NEW w \in Workers, Scan(w) \/ Take(w)
      PROVE  CInv'
  <2>1. CASE Scan(w)
    BY <1>0, <2>1, AtPlace, OnlyMoves DEF Scan, Phases, TypeOK
  <2>2. ASSUME NEW c \in proc[w].batch,
               Become(w, [At("check", proc[w].batch \ {c}) EXCEPT !.on = {c}])
        PROVE  CInv'
    <3>1. /\ c \in Campaigns /\ proc[w].batch \ {c} \in SUBSET Campaigns
          /\ UNCHANGED <<camp, got, now, crashes, grants, takes>>
      BY <1>0, <1>3 DEF Places, Scan, Take
    <3> DEFINE q == [At("check", proc[w].batch \ {c}) EXCEPT !.on = {c}]
    <3>2. q \in Places /\ q.pc = "check"
      BY <3>1 DEF At, Places, Phases
    <3> HIDE DEF q
    <3>3. Become(w, q) /\ crashes' \in Nat
      BY <1>0, <2>2, <3>1 DEF q, TypeOK
    <3>. QED  BY <1>0, <3>1, <3>2, <3>3, OnlyMoves
  <2>3. CASE Take(w)
    BY <1>0, <2>2, <2>3, AtPlace, OnlyMoves DEF Take, Phases, TypeOK
  <2>. QED  BY <1>3, <2>1, <2>3
<1>4. ASSUME NEW r \in Requests, NEW c \in Campaigns, NEW at \in SendTimes,
             NEW chs \in ChannelSets, Create(r, c, at, chs)
      PROVE  CInv'
  <2> DEFINE q == IF at <= now THEN [At("check", {}) EXCEPT !.on = {c}] ELSE At("done", {})
             rec == [status |-> IF at <= now THEN "draft" ELSE "scheduled",
                     at |-> at, channels |-> chs, delivered |-> 0]
  <2>1. q \in Places /\ q.pc \in {"check", "done"}
    BY AtPlace DEF Phases
  <2>2. rec \in Records
    BY ChannelsAssumption, BoundsAssumption DEF Records, Statuses
  <2>. QED  BY <1>0, <1>4, <2>1, <2>2, Opens DEF Create
<1>5. ASSUME NEW r \in Requests, NEW c \in Campaigns, AskCancel(r, c) \/ AskSendNow(r, c)
      PROVE  CInv'
  <2>1. PICK pc \in {"cancel", "reset", "done"} :
               \/ Become(r, [At(pc, {}) EXCEPT !.on = {c}])
               \/ Become(r, At(pc, {}))
    BY <1>5 DEF AskCancel, AskSendNow, Ask
  <2>2. PICK q \in Places : Become(r, q) /\ q.pc = pc
    <3>1. pc \in Phases /\ {} \in SUBSET Campaigns
      BY DEF Phases
    <3>2. CASE Become(r, At(pc, {}))
      BY <3>1, <3>2, AtPlace
    <3>3. CASE Become(r, [At(pc, {}) EXCEPT !.on = {c}])
      <4> DEFINE q == [At(pc, {}) EXCEPT !.on = {c}]
      <4>1. q \in Places /\ q.pc = pc
        BY <3>1 DEF At, Places
      <4>. QED  BY <3>3, <4>1
    <3>. QED  BY <2>1, <3>2, <3>3
  <2>. QED  BY <1>0, <1>5, <2>2, OnlyMoves DEF AskCancel, AskSendNow, Ask, TypeOK
<1>6. ASSUME NEW r \in Requests, NEW c \in Campaigns, Cancel(r, c)
      PROVE  CInv'
  <2>1. camp' = [camp EXCEPT ![c].status = "cancelled", ![c].delivered = camp[c].delivered]
    BY <1>6 DEF Cancel, SetStatus, CInv, TypeOK
  <2>2. At("done", {}) \in Places /\ At("done", {}).pc = "done"
    BY AtPlace DEF Phases
  <2>3. "cancelled" \in Statuses \ Claimable /\ camp[c].delivered \in Nat
    BY DEF Statuses, Claimable, CInv, TypeOK
  <2>. QED  BY <1>0, <1>6, <2>1, <2>2, <2>3, StoresClosed DEF Cancel
<1>7. ASSUME NEW r \in Requests, NEW c \in Campaigns, Reset(r, c)
      PROVE  CInv'
  <2> DEFINE rec == [camp[c] EXCEPT !.status = "draft", !.at = 0]
             q == [proc[r] EXCEPT !.pc = "check"]
  <2>1. rec \in Records /\ camp' = [camp EXCEPT ![c] = rec]
    <3>1. camp \in [Campaigns -> Records] /\ "draft" \in Statuses
      BY <1>0 DEF TypeOK, Records, Statuses
    <3>2. rec \in Records
      BY <3>1 DEF Records
    <3>3. camp' = [camp EXCEPT ![c] = rec]
      BY <1>7, <3>1 DEF Reset, Records
    <3>. QED  BY <3>2, <3>3
  <2>2. q \in Places /\ q.pc = "check"
    BY <1>0 DEF Places, Phases
  <2>. QED  BY <1>0, <1>7, <2>1, <2>2, Opens DEF Reset
<1>8. ASSUME NEW p \in Procs, DeliverStep(p)
      PROVE  CInv'
  <2>1. ASSUME NEW c \in Campaigns, Check(p, c)
        PROVE  CInv'
    <3>1. CASE Return(p)
      BY <2>1, <3>1, OnlyReturns DEF Check
    <3>2. CASE Become(p, [proc[p] EXCEPT !.pc = "claim"])
      <4>1. /\ [proc[p] EXCEPT !.pc = "claim"] \in Places
            /\ [proc[p] EXCEPT !.pc = "claim"].pc = "claim"
        BY <1>0 DEF Places, Phases
      <4>. QED  BY <1>0, <2>1, <3>2, <4>1, OnlyMoves DEF Check, TypeOK
    <3>. QED  BY <2>1, <3>1, <3>2 DEF Check
  <2>2. ASSUME NEW c \in Campaigns, LoseClaim(p, c)
        PROVE  CInv'
    BY <2>2, OnlyReturns DEF LoseClaim
  <2>3. ASSUME NEW c \in Campaigns, Settle(p, c)
        PROVE  CInv'
    <3>1. PICK q \in Places : Become(p, q) /\ q.pc \in {"next", "done"}
      BY <1>0, <2>3, ReturnPlace DEF Settle
    <3>2. Outcome(proc[p]) \in Statuses \ Claimable /\ proc[p].ok \in Nat
      BY <1>0 DEF Outcome, Statuses, Claimable, Places
    <3>. QED  BY <2>3, <3>1, <3>2, StoresClosed DEF Settle
  <2>4. ASSUME NEW c \in Campaigns, GiveUp(p, c)
        PROVE  CInv'
    <3>1. PICK q \in Places : Become(p, q) /\ q.pc \in {"next", "done"}
      BY <1>0, <2>4, ReturnPlace DEF GiveUp
    <3>2. "failed" \in Statuses \ Claimable /\ camp[c].delivered \in Nat
      BY <1>0 DEF Statuses, Claimable, TypeOK
    <3>3. camp' = [camp EXCEPT ![c].status = "failed", ![c].delivered = camp[c].delivered]
      BY <1>0, <2>4 DEF GiveUp, SetStatus, AfterRaise, TypeOK
    <3>. QED  BY <2>4, <3>1, <3>2, <3>3, StoresClosed DEF GiveUp
  <2>5. CASE Resolve(p)
    <3>1. PICK us \in SUBSET Users :
            Become(p, [proc[p] EXCEPT !.pc = "send", !.todo = us, !.total = Cardinality(us)])
      BY <2>5 DEF Resolve
    <3>2. Cardinality(us) \in Nat
      BY Countable
    <3> DEFINE q == [proc[p] EXCEPT !.pc = "send", !.todo = us, !.total = Cardinality(us)]
    <3>3. q \in Places /\ q.on = proc[p].on
      BY <1>0, <3>2 DEF Places, Phases
    <3>. QED  BY <1>0, <2>5, <3>1, <3>3, OnlyMoves DEF Resolve, TypeOK
  <2>. QED  BY <1>8, <2>1, <2>2, <2>3, <2>4, <2>5, Claims, Delivers DEF DeliverStep
<1>9. ASSUME NEW p \in Procs, Raise(p)
      PROVE  CInv'
  <2> DEFINE q == [proc[p] EXCEPT !.pc = "giveup", !.ok = 0, !.total = 0]
  <2>1. q \in Places /\ q.pc = "giveup"
    BY <1>0 DEF Places, Phases
  <2>. QED  BY <1>0, <1>9, <2>1, OnlyMoves DEF Raise, TypeOK
<1>10. ASSUME NEW p \in Procs, Abort(p)
       PROVE  CInv'
  BY <1>10, OnlyReturns DEF Abort
<1>11. ASSUME NEW p \in Procs, Crash(p)
       PROVE  CInv'
  <2>1. PICK q \in Places : Become(p, q) /\ q.pc \in {"idle", "next", "done"}
    <3>1. CASE Return(p)
      BY <1>0, <3>1, ReturnPlace
    <3>2. CASE Become(p, IF p \in Workers THEN At("idle", {}) ELSE At("done", {}))
      BY <3>2, AtPlace DEF Phases
    <3>. QED  BY <1>11, <3>1, <3>2 DEF Crash
  <2>. QED  BY <1>0, <1>11, <2>1, OnlyMoves DEF Crash, TypeOK
<1>. QED  BY <1>0, <1>1, <1>2, <1>3, <1>4, <1>5, <1>6, <1>7, <1>8, <1>9, <1>10, <1>11
          DEF Next, WorkerStep, RequestStep

-----------------------------------------------------------------------------
(* Theorems                                                                *)

(* The inductive invariant, for any number of processes and of deaths.     *)
THEOREM CampaignsInvariance == Spec => []CInv
BY CampaignsStart, CampaignsSteps, PTL DEF Spec

(* Campaigns and processes keep their types.                               *)
THEOREM CampaignsTyped == Spec => []TypeOK
<1>1. CInv => TypeOK
  BY DEF CInv
<1>. QED  BY <1>1, CampaignsInvariance, PTL

(* Nobody receives a campaign over a channel more often than               *)
(* administrators decided to send it.                                      *)
THEOREM NoExtraCopies == Spec => []CopiesGranted
<1>1. CInv => CopiesGranted
  <2> SUFFICES ASSUME CInv, NEW c \in Campaigns, NEW u \in Users, NEW ch \in Channels
               PROVE  got[c][<<u, ch>>] <= grants[c]
    BY DEF CopiesGranted
  <2>1. ToServe(c, u) \in SUBSET Procs
    BY DEF ToServe
  <2>2. /\ Cardinality(ToServe(c, u)) \in Nat
        /\ got[c][<<u, ch>>] \in Nat /\ takes[c] \in Nat /\ grants[c] \in Nat
    BY <2>1, Countable DEF CInv, TypeOK
  <2>3. takes[c] <= grants[c]
    BY <2>2 DEF CInv, Budget
  <2>4. got[c][<<u, ch>>] + Cardinality(ToServe(c, u)) <= takes[c]
    BY DEF CInv, Copies
  <2>. QED  BY <2>2, <2>3, <2>4
<1>. QED  BY <1>1, CampaignsInvariance, PTL

-----------------------------------------------------------------------------
(* The refinement                                                          *)

Opened == {c \in Campaigns : camp[c].status \in Claimable}

(* What the ledger sees of a step that changes one campaign's status.      *)
LEMMA OneStatus ==
    ASSUME TypeOK, NEW c \in Campaigns,
           \A d \in Campaigns \ {c} : camp'[d].status = camp[d].status
    PROVE  Opened' = IF camp'[c].status \in Claimable THEN Opened \cup {c} ELSE Opened \ {c}
BY DEF Opened

LEMMA Unopened ==
    ASSUME TypeOK, NEW c \in Campaigns, UNCHANGED <<grants, takes>>,
           \A d \in Campaigns \ {c} : camp'[d].status = camp[d].status,
           camp'[c].status \notin Claimable
    PROVE  [Ledger!LedgerNext]_(Ledger!ledgerVars)
<1>1. Opened' = Opened \ {c}
  BY OneStatus
<1>2. CASE c \in Opened
  BY <1>1, <1>2 DEF Opened, Ledger!LedgerNext, Ledger!Close
<1>3. CASE c \notin Opened
  BY <1>1, <1>3 DEF Opened, Ledger!ledgerVars
<1>. QED  BY <1>2, <1>3

LEMMA Granted ==
    ASSUME TypeOK, NEW c \in Campaigns, UNCHANGED takes,
           grants' = [grants EXCEPT ![c] = @ + 1],
           \A d \in Campaigns \ {c} : camp'[d].status = camp[d].status,
           camp'[c].status \in Claimable
    PROVE  [Ledger!LedgerNext]_(Ledger!ledgerVars)
<1>1. Opened' = Opened \cup {c}
  BY OneStatus
<1>. QED  BY <1>1 DEF Opened, Ledger!LedgerNext, Ledger!Grant

(* A step that leaves the campaigns and the history alone is a stutter.    *)
LEMMA Unseen ==
    ASSUME UNCHANGED <<camp, grants, takes>>
    PROVE  [Ledger!LedgerNext]_(Ledger!ledgerVars)
BY DEF Ledger!ledgerVars

(* Every step of the code is a step of the ledger, or a stutter.           *)
LEMMA LedgerSteps == TypeOK /\ [Next]_vars => [Ledger!LedgerNext]_(Ledger!ledgerVars)
<1> SUFFICES ASSUME TypeOK, [Next]_vars PROVE [Ledger!LedgerNext]_(Ledger!ledgerVars)
  OBVIOUS
<1>1. CASE UNCHANGED vars \/ Tick
  BY <1>1, Unseen DEF vars, Tick
<1>2. ASSUME NEW w \in Workers, Scan(w) \/ Take(w)
      PROVE  UNCHANGED <<camp, grants, takes>>
  BY <1>2 DEF Scan, Take
<1>3. ASSUME NEW r \in Requests, NEW c \in Campaigns, NEW at \in SendTimes,
             NEW chs \in ChannelSets, Create(r, c, at, chs)
      PROVE  [Ledger!LedgerNext]_(Ledger!ledgerVars)
  <2>1. /\ camp'[c].status \in Claimable /\ \A d \in Campaigns \ {c} : camp'[d] = camp[d]
        /\ UNCHANGED takes /\ grants' = [grants EXCEPT ![c] = @ + 1]
    BY <1>3 DEF Create, TypeOK, Claimable
  <2>. QED  BY <2>1, Granted
<1>4. ASSUME NEW r \in Requests, NEW c \in Campaigns, AskCancel(r, c) \/ AskSendNow(r, c)
      PROVE  UNCHANGED <<camp, grants, takes>>
  BY <1>4 DEF AskCancel, AskSendNow, Ask
<1>5. ASSUME NEW r \in Requests, NEW c \in Campaigns, Cancel(r, c)
      PROVE  [Ledger!LedgerNext]_(Ledger!ledgerVars)
  <2>1. /\ camp'[c].status = "cancelled" /\ \A d \in Campaigns \ {c} : camp'[d] = camp[d]
        /\ UNCHANGED <<grants, takes>>
    BY <1>5 DEF Cancel, SetStatus, TypeOK
  <2>. QED  BY <2>1, Unopened DEF Claimable
<1>6. ASSUME NEW r \in Requests, NEW c \in Campaigns, Reset(r, c)
      PROVE  [Ledger!LedgerNext]_(Ledger!ledgerVars)
  <2>1. /\ camp'[c].status = "draft" /\ \A d \in Campaigns \ {c} : camp'[d] = camp[d]
        /\ UNCHANGED takes /\ grants' = [grants EXCEPT ![c] = @ + 1]
    BY <1>6 DEF Reset, TypeOK
  <2>. QED  BY <2>1, Granted DEF Claimable
<1>7. ASSUME NEW p \in Procs, NEW c \in Campaigns, Claim(p, c)
      PROVE  [Ledger!LedgerNext]_(Ledger!ledgerVars)
  <2>1. /\ camp'[c].status = "processing" /\ \A d \in Campaigns \ {c} : camp'[d] = camp[d]
        /\ camp[c].status \in Claimable
        /\ UNCHANGED grants /\ takes' = [takes EXCEPT ![c] = @ + 1]
    BY <1>7 DEF Claim, CanClaim, SetStatus, TypeOK
  <2>2. Opened' = Opened \ {c} /\ c \in Opened
    BY <2>1, OneStatus DEF Opened, Claimable
  <2>. QED  BY <2>1, <2>2 DEF Opened, Ledger!LedgerNext, Ledger!Take
<1>8. ASSUME NEW p \in Procs, NEW c \in Campaigns, Settle(p, c)
      PROVE  [Ledger!LedgerNext]_(Ledger!ledgerVars)
  <2>1. /\ camp'[c].status \in {"failed", "sent"}
        /\ \A d \in Campaigns \ {c} : camp'[d] = camp[d]
        /\ UNCHANGED <<grants, takes>>
    BY <1>8 DEF Settle, Outcome, TypeOK
  <2>. QED  BY <2>1, Unopened DEF Claimable
<1>9. ASSUME NEW p \in Procs, NEW c \in Campaigns, GiveUp(p, c)
      PROVE  [Ledger!LedgerNext]_(Ledger!ledgerVars)
  <2>1. /\ camp'[c].status = "failed" /\ \A d \in Campaigns \ {c} : camp'[d] = camp[d]
        /\ UNCHANGED <<grants, takes>>
    BY <1>9 DEF GiveUp, SetStatus, AfterRaise, TypeOK
  <2>. QED  BY <2>1, Unopened DEF Claimable
<1>10. ASSUME NEW p \in Procs, NEW c \in Campaigns,
              \/ Check(p, c) \/ LoseClaim(p, c)
              \/ \E u \in Users : Deliver(p, c, u)
       PROVE  UNCHANGED <<camp, grants, takes>>
  BY <1>10 DEF Check, LoseClaim, Deliver
<1>11. ASSUME NEW p \in Procs, Resolve(p) \/ Raise(p) \/ Abort(p) \/ Crash(p)
       PROVE  UNCHANGED <<camp, grants, takes>>
  BY <1>11 DEF Resolve, Raise, Abort, Crash
<1>12. ASSUME NEW p \in Procs, DeliverStep(p)
       PROVE  [Ledger!LedgerNext]_(Ledger!ledgerVars)
  BY <1>7, <1>8, <1>9, <1>10, <1>11, <1>12, Unseen DEF DeliverStep
<1>. QED  BY <1>1, <1>2, <1>3, <1>4, <1>5, <1>6, <1>11, <1>12, Unseen
          DEF Next, WorkerStep, RequestStep, Procs

(* The claims of the code implement the ledger: each decision to send is   *)
(* used by at most one delivery run.                                       *)
THEOREM ClaimsImplementLedger == Spec => ClaimsKeepLedger
<1>1. Init => Ledger!LedgerInit
  BY DEF Init, Absent, Claimable, Ledger!LedgerInit
<1>2. TypeOK /\ [Next]_vars => [Ledger!LedgerNext]_(Ledger!ledgerVars)
  BY LedgerSteps
<1>. QED  BY <1>1, <1>2, CampaignsTyped, PTL
          DEF Spec, ClaimsKeepLedger, Ledger!LedgerSpec

-----------------------------------------------------------------------------
(* The statistics                                                          *)

(* The users who hold campaign c on every channel of theirs.               *)
Reach(c) == {u \in Users : \A ch \in Wanted(c, u) : got[c][<<u, ch>>] > 0}

(* A run counts users who hold the campaign and whom it will not serve     *)
(* again; it counts nobody before it sends, and works on a campaign that   *)
(* exists.                                                                 *)
HonestRun(q) ==
    /\ \A c \in q.on \cup q.batch : camp[c].status # "absent"
    /\ q.pc # "send" => q.ok = 0
    /\ \A c \in Campaigns :
         q.pc = "send" /\ q.on = {c} => q.ok <= Cardinality(Reach(c) \ q.todo)

HInv == StatsHonest /\ \A p \in Procs : HonestRun(proc[p])

(* More users, larger count.                                               *)
LEMMA MoreUsers ==
    ASSUME NEW S \in SUBSET Users, NEW T \in SUBSET S
    PROVE  Cardinality(T) <= Cardinality(S)
BY Countable, FS_Subset

(* Process p goes to q, copies only grow, a campaign that exists keeps its *)
(* channels, and what it says was delivered is unchanged or honest.        *)
LEMMA HonestStep ==
    ASSUME CInv, HInv, NEW p \in Procs, NEW q \in Places, Become(p, q),
           \A c \in Campaigns :
              /\ camp[c].status # "absent" =>
                    /\ camp'[c].status # "absent"
                    /\ camp'[c].channels = camp[c].channels
              /\ \/ /\ camp'[c].channels = camp[c].channels
                    /\ camp'[c].delivered = camp[c].delivered
                 \/ camp'[c].delivered <= Cardinality(Reach(c)'),
           \A c \in Campaigns : camp'[c].delivered \in Nat,
           \A c \in Campaigns, k \in Users \X Channels :
              got[c][k] > 0 => got'[c][k] > 0,
           HonestRun(q)'
    PROVE  HInv'
<1>2. ASSUME NEW c \in Campaigns, camp'[c].channels = camp[c].channels
      PROVE  Reach(c) \subseteq Reach(c)'
  <2>1. \A u \in Users : Wanted(c, u)' = Wanted(c, u) /\ Wanted(c, u) \subseteq Channels
    BY <1>2 DEF Wanted, CInv, TypeOK
  <2>. QED  BY <2>1 DEF Reach
<1>3. StatsHonest'
  <2> SUFFICES ASSUME NEW c \in Campaigns
               PROVE  camp'[c].delivered <= Cardinality(Reach(c)')
    BY DEF StatsHonest, Reach
  <2>1. /\ Reach(c) \in SUBSET Users /\ Reach(c)' \in SUBSET Users
        /\ Cardinality(Reach(c)) \in Nat /\ Cardinality(Reach(c)') \in Nat
    <3>1. Reach(c) \in SUBSET Users /\ Reach(c)' \in SUBSET Users
      BY DEF Reach
    <3>. QED  BY <3>1, Countable
  <2>2. camp[c].delivered \in Nat /\ camp[c].delivered <= Cardinality(Reach(c))
    BY DEF HInv, StatsHonest, Reach, CInv, TypeOK
  <2>3. CASE camp'[c].channels = camp[c].channels /\ camp'[c].delivered = camp[c].delivered
    <3>1. Cardinality(Reach(c)) <= Cardinality(Reach(c)')
      BY <1>2, <2>1, <2>3, MoreUsers
    <3>. QED  BY <2>1, <2>2, <2>3, <3>1
  <2>. QED  BY <2>3
<1>4. ASSUME NEW s \in Procs \ {p}
      PROVE  HonestRun(proc[s])'
  <2>1. proc'[s] = proc[s] /\ HonestRun(proc[s]) /\ proc[s] \in Places
    BY PutAt DEF HInv, CInv, TypeOK, Places
  <2>2. \A c \in proc[s].on \cup proc[s].batch : camp'[c].status # "absent"
    BY <2>1 DEF HonestRun, Places
  <2>3. ASSUME NEW c \in Campaigns, proc[s].pc = "send", proc[s].on = {c}
        PROVE  proc[s].ok <= Cardinality(Reach(c)' \ proc[s].todo)
    <3> DEFINE T == Reach(c) \ proc[s].todo
               S == Reach(c)' \ proc[s].todo
    <3>1. camp'[c].channels = camp[c].channels
      <4>1. camp[c].status # "absent"
        BY <2>1, <2>3 DEF HonestRun
      <4>. QED  BY <4>1
    <3>2. T \subseteq S /\ S \in SUBSET Users
      BY <1>2, <3>1 DEF Reach
    <3>3. proc[s].ok \in Nat /\ proc[s].ok <= Cardinality(T)
      BY <2>1, <2>3 DEF HonestRun, Places
    <3> HIDE DEF S, T
    <3>4. /\ Cardinality(T) \in Nat /\ Cardinality(S) \in Nat
          /\ Cardinality(T) <= Cardinality(S)
      BY <3>2, MoreUsers, Countable
    <3>5. proc[s].ok <= Cardinality(S)
      BY <3>3, <3>4
    <3>. QED  BY <3>5 DEF S
  <2>4. proc[s].pc # "send" => proc[s].ok = 0
    BY <2>1 DEF HonestRun
  <2>. QED  BY <2>1, <2>2, <2>3, <2>4 DEF HonestRun
<1>5. HonestRun(proc[p])'
  BY PutAt DEF CInv
<1>. QED  BY <1>3, <1>4, <1>5 DEF HInv

(* At most the status of a campaign that exists changes.                   *)
Steady ==
    \A c \in Campaigns :
        /\ camp'[c].channels = camp[c].channels
        /\ camp'[c].delivered = camp[c].delivered
        /\ camp[c].status # "absent" => camp'[c].status # "absent"

LEMMA StatusIsSteady ==
    ASSUME TypeOK, NEW c \in Campaigns, NEW s \in Statuses, s # "absent",
           SetStatus(c, s)
    PROVE  Steady
BY DEF Steady, SetStatus, TypeOK

(* Process p goes to a place where it counts nobody; a campaign's status   *)
(* may change.                                                             *)
LEMMA HonestMove ==
    ASSUME CInv, HInv, NEW p \in Procs, NEW q \in Places, Become(p, q),
           UNCHANGED got, q.pc # "send", q.ok = 0,
           \A c \in q.on \cup q.batch : camp[c].status # "absent",
           Steady
    PROVE  HInv'
<1>1. HonestRun(q)'
  BY DEF HonestRun, Places, Steady
<1>2. \A c \in Campaigns : camp'[c].delivered \in Nat
  BY DEF Steady, CInv, TypeOK
<1>. QED  BY <1>1, <1>2, HonestStep DEF Steady

(* Where a process goes to rest it counts nobody.                          *)
LEMMA RestPlace ==
    ASSUME CInv, HInv, NEW p \in Procs, NEW q \in Places,
           \/ q = At("next", proc[p].batch)
           \/ q \in {At("done", {}), At("idle", {})}
    PROVE  /\ q.pc # "send" /\ q.ok = 0
           /\ \A c \in q.on \cup q.batch : camp[c].status # "absent"
BY DEF At, HInv, HonestRun

LEMMA ReturnsTo ==
    ASSUME CInv, HInv, NEW p \in Procs, Return(p)
    PROVE  \E q \in Places :
              /\ Become(p, q) /\ q.pc # "send" /\ q.ok = 0
              /\ \A c \in q.on \cup q.batch : camp[c].status # "absent"
<1>1. proc[p].batch \in SUBSET Campaigns
  BY DEF CInv, TypeOK
<1>2. At("next", proc[p].batch) \in Places /\ At("done", {}) \in Places
  BY <1>1, AtPlace DEF Phases
<1>3. CASE p \in Workers
  <2> DEFINE q == At("next", proc[p].batch)
  <2>1. Become(p, q)
    BY <1>3 DEF Return
  <2> HIDE DEF q
  <2>. QED  BY <1>2, <2>1, RestPlace DEF q
<1>4. CASE p \notin Workers
  <2> DEFINE q == At("done", {})
  <2>1. Become(p, q)
    BY <1>4 DEF Return
  <2> HIDE DEF q
  <2>. QED  BY <1>2, <2>1, RestPlace DEF q
<1>. QED  BY <1>3, <1>4

LEMMA HonestReturn ==
    ASSUME CInv, HInv, NEW p \in Procs, Return(p), UNCHANGED got,
           Steady
    PROVE  HInv'
BY ReturnsTo, HonestMove

(* One user is tried: he is counted when every channel of his was served.  *)
LEMMA HonestDeliver ==
    ASSUME CInv, HInv, NEW p \in Procs, NEW c \in Campaigns, NEW u \in Users,
           Deliver(p, c, u)
    PROVE  HInv'
<1>0. PICK served \in BOOLEAN : \E chs \in Reached(Wanted(c, u), served) :
        /\ got' = [got EXCEPT ![c] = [k \in Users \X Channels |->
                     IF k[1] = u /\ k[2] \in chs THEN @[k] + 1 ELSE @[k]]]
        /\ Become(p, [proc[p] EXCEPT !.todo = @ \ {u}, !.ok = Served(proc[p], served)])
  BY Zenon DEF Deliver
<1>1. PICK chs \in Reached(Wanted(c, u), served) :
        /\ got' = [got EXCEPT ![c] = [k \in Users \X Channels |->
                     IF k[1] = u /\ k[2] \in chs THEN @[k] + 1 ELSE @[k]]]
        /\ Become(p, [proc[p] EXCEPT !.todo = @ \ {u}, !.ok = Served(proc[p], served)])
  BY <1>0
<1>q. PICK q : q = [proc[p] EXCEPT !.todo = @ \ {u}, !.ok = Served(proc[p], served)]
  OBVIOUS
<1>2. /\ Become(p, q) /\ q \in Places /\ proc[p] \in Places
      /\ q.pc = "send" /\ q.on = {c} /\ q.todo = proc[p].todo \ {u}
      /\ q.batch = proc[p].batch
      /\ q.ok = IF served THEN proc[p].ok + 1 ELSE proc[p].ok
      /\ proc[p].pc = "send" /\ proc[p].on = {c} /\ u \in proc[p].todo
      /\ camp' = camp
  <2>1. proc[p] \in Places /\ Served(proc[p], served) \in Nat
    BY DEF Served, CInv, TypeOK, Places
  <2>2. proc[p].pc = "send" /\ proc[p].on = {c} /\ u \in proc[p].todo
    BY DEF Deliver
  <2>3. Become(p, q)
    BY <1>1, <1>q
  <2>. QED  BY <1>q, <2>1, <2>2, <2>3 DEF Deliver, Places, Served
<1>3. \A d \in Campaigns, k \in Users \X Channels :
         /\ got[d][k] \in Nat
         /\ got'[d][k] = IF d = c /\ k[1] = u /\ k[2] \in chs THEN got[d][k] + 1
                                                              ELSE got[d][k]
  BY <1>1 DEF CInv, TypeOK
<1>4. \A d \in Campaigns, k \in Users \X Channels : got[d][k] > 0 => got'[d][k] > 0
  BY <1>3
<1>5. \A d \in Campaigns, v \in Users :
         Wanted(d, v)' = Wanted(d, v) /\ Wanted(d, v) \subseteq Channels
  BY <1>2 DEF Wanted, CInv, TypeOK
<1>6. Reach(c) \subseteq Reach(c)' /\ (served => u \in Reach(c)')
  <2>1. Reach(c) \subseteq Reach(c)'
    BY <1>4, <1>5 DEF Reach
  <2>2. ASSUME served
        PROVE  u \in Reach(c)'
    <3>1. chs = Wanted(c, u)
      BY <2>2 DEF Reached
    <3>2. \A ch \in Wanted(c, u) : got'[c][<<u, ch>>] > 0
      BY <1>3, <1>5, <3>1
    <3>. QED  BY <1>5, <3>2 DEF Reach
  <2>. QED  BY <2>1, <2>2
<1>7. q.ok <= Cardinality(Reach(c)' \ q.todo)
  <2> DEFINE T == Reach(c) \ proc[p].todo
             S == Reach(c)' \ q.todo
  <2>1. T \in SUBSET Users /\ S \in SUBSET Users /\ T \subseteq S /\ u \notin T
    BY <1>2, <1>6 DEF Reach
  <2>2. served => u \in S
    BY <1>2, <1>6
  <2>3. proc[p].ok \in Nat /\ proc[p].ok <= Cardinality(T)
    BY <1>2 DEF HInv, HonestRun, Places
  <2> HIDE DEF S, T
  <2>4. /\ Cardinality(T) \in Nat /\ Cardinality(S) \in Nat
        /\ Cardinality(T) <= Cardinality(S)
    BY <2>1, MoreUsers, Countable
  <2>5. served => Cardinality(T) + 1 <= Cardinality(S)
    <3>1. Cardinality(T \cup {u}) = Cardinality(T) + 1
      BY <2>1, Countable, FS_AddElement
    <3>2. served => T \cup {u} \subseteq S
      BY <2>1, <2>2
    <3>3. served => Cardinality(T \cup {u}) <= Cardinality(S)
      BY <2>1, <3>2, MoreUsers
    <3>. QED  BY <3>1, <3>3
  <2>6. q.ok <= Cardinality(S)
    BY <1>2, <2>3, <2>4, <2>5
  <2>. QED  BY <2>6 DEF S
<1>8. HonestRun(q)'
  <2>1. \A d \in q.on \cup q.batch : camp'[d].status # "absent"
    BY <1>2 DEF HInv, HonestRun
  <2>2. \A d \in Campaigns : q.on = {d} => d = c
    BY <1>2
  <2>. QED  BY <1>2, <1>7, <2>1, <2>2 DEF HonestRun
<1>9. \A d \in Campaigns : camp'[d] = camp[d] /\ camp[d].delivered \in Nat
  BY <1>2 DEF CInv, TypeOK
<1>. QED  BY <1>2, <1>4, <1>8, <1>9, HonestStep

(* The recipients are known: nobody is counted yet.                        *)
LEMMA HonestResolve ==
    ASSUME CInv, HInv, NEW p \in Procs, Resolve(p)
    PROVE  HInv'
<1>1. PICK us \in SUBSET Users :
        Become(p, [proc[p] EXCEPT !.pc = "send", !.todo = us, !.total = Cardinality(us)])
  BY DEF Resolve
<1>2. PICK q : q = [proc[p] EXCEPT !.pc = "send", !.todo = us, !.total = Cardinality(us)]
  OBVIOUS
<1>3. Become(p, q)
  BY <1>1, <1>2
<1>4. /\ q \in Places /\ q.ok = 0 /\ q.todo = us /\ q.on = proc[p].on
      /\ q.batch = proc[p].batch /\ UNCHANGED <<camp, got>>
  <2>1. proc[p] \in Places /\ Cardinality(us) \in Nat
    BY Countable DEF CInv, TypeOK, Places
  <2>2. proc[p].pc = "resolve" /\ proc[p].ok = 0
    BY DEF Resolve, HInv, HonestRun
  <2>. QED  BY <1>2, <2>1, <2>2 DEF Resolve, Places, Phases
<1>5. HonestRun(q)'
  <2>1. \A c \in q.on \cup q.batch : camp'[c].status # "absent"
    BY <1>4 DEF HInv, HonestRun
  <2>2. ASSUME NEW c \in Campaigns
        PROVE  q.ok <= Cardinality(Reach(c)' \ q.todo)
    <3> DEFINE S == Reach(c)' \ q.todo
    <3>1. S \in SUBSET Users
      BY DEF Reach
    <3> HIDE DEF S
    <3>2. Cardinality(S) \in Nat
      BY <3>1, Countable
    <3>3. q.ok <= Cardinality(S)
      BY <1>4, <3>2
    <3>. QED  BY <3>3 DEF S
  <2>. QED  BY <1>4, <2>1, <2>2 DEF HonestRun
<1>6. \A c \in Campaigns : camp'[c] = camp[c] /\ camp[c].delivered \in Nat
  BY <1>4 DEF CInv, TypeOK
<1>. QED  BY <1>3, <1>4, <1>5, <1>6, HonestStep

(* The count is stored when nobody is left to serve.                       *)
LEMMA HonestSettle ==
    ASSUME CInv, HInv, NEW p \in Procs, NEW c \in Campaigns, Settle(p, c)
    PROVE  HInv'
<1>1. /\ proc[p] \in Places /\ proc[p].pc = "send" /\ proc[p].on = {c}
      /\ proc[p].todo = {} /\ UNCHANGED got
      /\ camp' = [camp EXCEPT ![c].status = Outcome(proc[p]), ![c].delivered = proc[p].ok]
  BY DEF Settle, CInv, TypeOK, Places
<1>2. Outcome(proc[p]) # "absent" /\ proc[p].ok \in Nat
  BY <1>1 DEF Outcome, Places
<1>3. \A d \in Campaigns :
        /\ camp'[d].channels = camp[d].channels
        /\ camp[d].status # "absent" => camp'[d].status # "absent"
        /\ camp'[d].delivered = IF d = c THEN proc[p].ok ELSE camp[d].delivered
        /\ camp'[d].delivered \in Nat
  BY <1>1, <1>2 DEF CInv, TypeOK
<1>4. Reach(c)' = Reach(c)
  <2>1. \A u \in Users : Wanted(c, u)' = Wanted(c, u)
    BY <1>3 DEF Wanted
  <2>. QED  BY <1>1, <2>1 DEF Reach
<1>5. camp'[c].delivered <= Cardinality(Reach(c)')
  <2>1. proc[p].ok <= Cardinality(Reach(c) \ proc[p].todo)
    BY <1>1 DEF HInv, HonestRun
  <2>2. Reach(c) \ proc[p].todo = Reach(c)
    BY <1>1
  <2>. QED  BY <1>3, <1>4, <2>1, <2>2
<1>6. PICK q \in Places :
         /\ Become(p, q) /\ q.pc # "send" /\ q.ok = 0
         /\ \A d \in q.on \cup q.batch : camp[d].status # "absent"
  <2>1. Return(p)
    BY DEF Settle
  <2>. QED  BY <2>1, ReturnsTo
<1>7. HonestRun(q)'
  BY <1>3, <1>6 DEF HonestRun, Places
<1>. QED  BY <1>1, <1>3, <1>5, <1>6, <1>7, HonestStep

(* A new campaign says that nobody was served.                             *)
LEMMA HonestCreate ==
    ASSUME CInv, HInv, NEW r \in Requests, NEW c \in Campaigns,
           NEW at \in SendTimes, NEW chs \in ChannelSets, Create(r, c, at, chs)
    PROVE  HInv'
<1>1. /\ camp[c].status = "absent" /\ UNCHANGED got
      /\ camp' = [camp EXCEPT ![c] =
                    [status |-> IF at <= now THEN "draft" ELSE "scheduled",
                     at |-> at, channels |-> chs, delivered |-> 0]]
  BY DEF Create
<1>2. /\ camp'[c].status # "absent" /\ camp'[c].delivered = 0
      /\ \A d \in Campaigns \ {c} : camp'[d] = camp[d]
      /\ \A d \in Campaigns : camp'[d].delivered \in Nat
  BY <1>1 DEF CInv, TypeOK
<1>3. 0 <= Cardinality(Reach(c)')
  <2>1. Reach(c)' \in SUBSET Users
    BY DEF Reach
  <2>2. Cardinality(Reach(c)') \in Nat
    BY <2>1, Countable
  <2>. QED  BY <2>2
<1>4. PICK q : q = IF at <= now THEN [At("check", {}) EXCEPT !.on = {c}] ELSE At("done", {})
  OBVIOUS
<1>5. Become(r, q) /\ q \in Places /\ q.pc # "send" /\ q.ok = 0 /\ r \in Procs
      /\ q.on \cup q.batch \subseteq {c}
  <2>1. Become(r, q)
    BY <1>4 DEF Create
  <2>. QED  BY <1>4, <2>1 DEF Procs, At, Places, Phases
<1>6. HonestRun(q)'
  BY <1>2, <1>5 DEF HonestRun
<1>. QED  BY <1>1, <1>2, <1>3, <1>5, <1>6, HonestStep

LEMMA HonestSteps == CInv /\ HInv /\ [Next]_vars => HInv'
<1> SUFFICES ASSUME CInv, HInv, [Next]_vars
             PROVE  HInv'
  OBVIOUS
<1>0. TypeOK /\ proc \in [Procs -> Places] /\ Workers \subseteq Procs /\ Requests \subseteq Procs
  BY DEF CInv, TypeOK, Places, Procs
<1>a. ASSUME UNCHANGED camp
      PROVE  Steady
  BY <1>a DEF Steady
<1>1. ASSUME UNCHANGED <<camp, got, proc>>
      PROVE  HInv'
  <2>1. \A c \in Campaigns : Reach(c)' = Reach(c)
    BY <1>1 DEF Reach, Wanted
  <2>2. StatsHonest'
    BY <1>1 DEF StatsHonest, Wanted, HInv
  <2>3. \A p \in Procs : HonestRun(proc[p])'
    BY <1>1, <2>1 DEF HonestRun, HInv
  <2>. QED  BY <2>2, <2>3 DEF HInv
<1>2. CASE UNCHANGED vars \/ Tick
  BY <1>1, <1>2 DEF vars, Tick
<1>3. ASSUME NEW w \in Workers, Scan(w)
      PROVE  HInv'
  <2> DEFINE B == {c \in Campaigns : Due(c)}
  <2>1. PICK q : q = At("next", B)
    OBVIOUS
  <2>2. Become(w, q) /\ UNCHANGED <<camp, got>>
    BY <1>3, <2>1 DEF Scan
  <2>3. \A c \in B : camp[c].status # "absent"
    BY DEF Due
  <2>4. /\ q \in Places /\ q.pc # "send" /\ q.ok = 0 /\ w \in Procs
        /\ q.on \cup q.batch = B
    BY <1>0, <2>1 DEF At, Places, Phases
  <2>. QED  BY <1>a, <2>2, <2>3, <2>4, HonestMove
<1>4. ASSUME NEW w \in Workers, Take(w)
      PROVE  HInv'
  <2>1. \A c \in proc[w].batch : c \in Campaigns /\ camp[c].status # "absent"
    BY <1>0 DEF HInv, HonestRun, Places
  <2>2. ASSUME NEW c \in proc[w].batch,
               Become(w, [At("check", proc[w].batch \ {c}) EXCEPT !.on = {c}])
        PROVE  HInv'
    <3>1. PICK q : q = [At("check", proc[w].batch \ {c}) EXCEPT !.on = {c}]
      OBVIOUS
    <3>2. Become(w, q)
      BY <2>2, <3>1
    <3>3. /\ q \in Places /\ q.pc # "send" /\ q.ok = 0 /\ w \in Procs
          /\ q.on \cup q.batch = proc[w].batch
      BY <1>0, <2>1, <3>1 DEF At, Places, Phases
    <3>4. UNCHANGED <<camp, got>>
      BY <1>4 DEF Take
    <3>. QED  BY <1>a, <2>1, <3>2, <3>3, <3>4, HonestMove
  <2>3. CASE Become(w, At("idle", {}))
    <3>1. At("idle", {}) \in Places /\ w \in Procs /\ UNCHANGED <<camp, got>>
      BY <1>0, <1>4, AtPlace DEF Phases, Take
    <3>2. PICK q : q = At("idle", {})
      OBVIOUS
    <3>3. q.pc # "send" /\ q.ok = 0 /\ q.on \cup q.batch = {}
      BY <3>2 DEF At
    <3>. QED  BY <1>a, <2>3, <3>1, <3>2, <3>3, HonestMove
  <2>. QED  BY <1>4, <2>2, <2>3 DEF Take
<1>5. ASSUME NEW r \in Requests, NEW c \in Campaigns, NEW acc, NEW pc \in {"cancel", "reset"},
             Ask(r, c, acc, pc)
      PROVE  HInv'
  <2>1. PICK q : q = IF camp[c].status \in acc THEN [At(pc, {}) EXCEPT !.on = {c}]
                                                ELSE At("done", {})
    OBVIOUS
  <2>2. Become(r, q) /\ camp[c].status # "absent" /\ UNCHANGED <<camp, got>>
    BY <1>5, <2>1 DEF Ask
  <2>3. /\ q \in Places /\ q.pc # "send" /\ q.ok = 0 /\ r \in Procs
        /\ q.on \cup q.batch \subseteq {c}
    BY <1>0, <2>1 DEF At, Places, Phases
  <2>. QED  BY <1>a, <2>2, <2>3, HonestMove
<1>6. ASSUME NEW r \in Requests, NEW c \in Campaigns, Cancel(r, c)
      PROVE  HInv'
  <2>1. Steady /\ UNCHANGED got
    <3>1. SetStatus(c, "cancelled") /\ UNCHANGED got /\ "cancelled" \in Statuses
      BY <1>6 DEF Cancel, Statuses
    <3>. QED  BY <1>0, <3>1, StatusIsSteady
  <2>2. PICK q : q = At("done", {})
    OBVIOUS
  <2>3. Become(r, q)
    BY <1>6, <2>2 DEF Cancel
  <2>4. /\ q \in Places /\ q.pc # "send" /\ q.ok = 0 /\ r \in Procs
        /\ q.on \cup q.batch = {}
    BY <1>0, <2>2 DEF At, Places, Phases
  <2>. QED  BY <2>1, <2>3, <2>4, HonestMove
<1>7. ASSUME NEW p \in Procs, NEW pc \in {"check", "claim", "resolve"},
             proc[p].pc \notin {"send"}, Become(p, [proc[p] EXCEPT !.pc = pc]),
             Steady, UNCHANGED got
      PROVE  HInv'
  <2>1. PICK q : q = [proc[p] EXCEPT !.pc = pc]
    OBVIOUS
  <2>2. Become(p, q)
    BY <1>7, <2>1
  <2>3. HonestRun(proc[p]) /\ proc[p] \in Places
    BY <1>0 DEF HInv
  <2>4. /\ q \in Places /\ q.pc # "send" /\ q.ok = 0
        /\ q.on = proc[p].on /\ q.batch = proc[p].batch
    BY <1>7, <2>1, <2>3 DEF HonestRun, Places, Phases
  <2>5. \A c \in q.on \cup q.batch : camp[c].status # "absent"
    BY <2>3, <2>4 DEF HonestRun
  <2>. QED  BY <1>7, <2>2, <2>4, <2>5, HonestMove
<1>8. ASSUME NEW r \in Requests, NEW c \in Campaigns, Reset(r, c)
      PROVE  HInv'
  <2>1. Steady
    BY <1>0, <1>8 DEF Reset, Steady, TypeOK
  <2>2. /\ Become(r, [proc[r] EXCEPT !.pc = "check"]) /\ r \in Procs
        /\ proc[r].pc = "reset" /\ UNCHANGED got
    BY <1>0, <1>8 DEF Reset
  <2>. QED  BY <1>7, <2>1, <2>2
<1>9. ASSUME NEW p \in Procs, NEW c \in Campaigns, Check(p, c)
      PROVE  HInv'
  <2>1. UNCHANGED <<camp, got>> /\ proc[p].pc = "check"
    BY <1>9 DEF Check
  <2>2. Return(p) \/ Become(p, [proc[p] EXCEPT !.pc = "claim"])
    BY <1>9 DEF Check
  <2>. QED  BY <1>7, <1>a, <2>1, <2>2, HonestReturn
<1>10. ASSUME NEW p \in Procs, NEW c \in Campaigns, Claim(p, c)
       PROVE  HInv'
  <2>1. Steady
    <3>1. SetStatus(c, "processing") /\ "processing" \in Statuses
      BY <1>10 DEF Claim, Statuses
    <3>. QED  BY <1>0, <3>1, StatusIsSteady
  <2>2. /\ Become(p, [proc[p] EXCEPT !.pc = "resolve"])
        /\ proc[p].pc = "claim" /\ UNCHANGED got
    BY <1>10 DEF Claim
  <2>. QED  BY <1>7, <2>1, <2>2
<1>11. ASSUME NEW p \in Procs, Return(p), UNCHANGED <<camp, got>>
       PROVE  HInv'
  BY <1>11, <1>a, HonestReturn
<1>12. ASSUME NEW p \in Procs, NEW c \in Campaigns, GiveUp(p, c)
       PROVE  HInv'
  <2>1. Steady
    <3>1. SetStatus(c, "failed") /\ "failed" \in Statuses
      BY <1>12 DEF GiveUp, AfterRaise, Statuses
    <3>. QED  BY <1>0, <3>1, StatusIsSteady
  <2>2. Return(p) /\ UNCHANGED got
    BY <1>12 DEF GiveUp
  <2>. QED  BY <2>1, <2>2, HonestReturn
<1>13. ASSUME NEW p \in Procs, Raise(p)
       PROVE  HInv'
  <2>1. PICK q : q = [proc[p] EXCEPT !.pc = "giveup", !.ok = 0, !.total = 0]
    OBVIOUS
  <2>2. Become(p, q) /\ UNCHANGED <<camp, got>>
    BY <1>13, <2>1 DEF Raise
  <2>3. /\ q \in Places /\ q.pc # "send" /\ q.ok = 0
        /\ q.on = proc[p].on /\ q.batch = proc[p].batch
    BY <1>0, <2>1 DEF Places, Phases
  <2>4. \A c \in q.on \cup q.batch : camp[c].status # "absent"
    BY <2>3 DEF HInv, HonestRun
  <2>. QED  BY <1>a, <2>2, <2>3, <2>4, HonestMove
<1>14. ASSUME NEW p \in Procs, Crash(p)
       PROVE  HInv'
  <2>1. CASE Return(p)
    BY <1>11, <1>14, <2>1 DEF Crash
  <2>2. CASE Become(p, IF p \in Workers THEN At("idle", {}) ELSE At("done", {}))
    <3>1. PICK q : q = IF p \in Workers THEN At("idle", {}) ELSE At("done", {})
      OBVIOUS
    <3>2. Become(p, q) /\ UNCHANGED <<camp, got>>
      BY <1>14, <2>2, <3>1 DEF Crash
    <3>3. q \in Places /\ q.pc # "send" /\ q.ok = 0 /\ q.on \cup q.batch = {}
      BY <3>1 DEF At, Places, Phases
    <3>. QED  BY <1>a, <3>2, <3>3, HonestMove
  <2>. QED  BY <1>14, <2>1, <2>2 DEF Crash
<1>15. ASSUME NEW p \in Procs, DeliverStep(p)
       PROVE  HInv'
  <2>1. ASSUME NEW c \in Campaigns, LoseClaim(p, c)
        PROVE  HInv'
    BY <1>11, <2>1 DEF LoseClaim
  <2>. QED  BY <1>15, <1>9, <1>10, <1>12, <2>1, HonestSettle, HonestDeliver,
               HonestResolve DEF DeliverStep
<1>16. ASSUME NEW p \in Procs, Abort(p)
       PROVE  HInv'
  BY <1>11, <1>16 DEF Abort
<1>17. ASSUME NEW r \in Requests, NEW c \in Campaigns, AskCancel(r, c) \/ AskSendNow(r, c)
       PROVE  HInv'
  <2>1. Ask(r, c, Cancellable, "cancel") \/ Ask(r, c, Sendable, "reset")
    BY <1>17 DEF AskCancel, AskSendNow
  <2>. QED  BY <1>5, <2>1
<1>18. ASSUME NEW w \in Workers, WorkerStep(w)
       PROVE  HInv'
  BY <1>0, <1>3, <1>4, <1>15, <1>18 DEF WorkerStep
<1>19. ASSUME NEW r \in Requests, RequestStep(r)
       PROVE  HInv'
  BY <1>0, <1>6, <1>8, <1>15, <1>17, <1>19, HonestCreate DEF RequestStep
<1>. QED  BY <1>2, <1>13, <1>14, <1>16, <1>18, <1>19 DEF Next

(* The number of delivered users that is stored counts people who hold the *)
(* campaign on every channel of theirs: with any number of workers and of  *)
(* deaths, and whatever delivery raises.  The one count a run keeps may be *)
(* overtaken, never overstated: it counts people it took off its list, and *)
(* what they received stays received (deliver, _deliver_to_user).          *)
THEOREM StatsStayHonest == Spec => []StatsHonest
<1>1. Init => HInv
  <2> SUFFICES ASSUME Init PROVE HInv
    OBVIOUS
  <2>1. ASSUME NEW c \in Campaigns
        PROVE  camp[c].delivered <= Cardinality(Reach(c))
    <3>1. Reach(c) \in SUBSET Users
      BY DEF Reach
    <3>2. Cardinality(Reach(c)) \in Nat
      BY <3>1, Countable
    <3>. QED  BY <3>2 DEF Init, Absent
  <2>2. ASSUME NEW p \in Procs
        PROVE  HonestRun(proc[p])
    BY DEF Init, At, HonestRun
  <2>. QED  BY <2>1, <2>2 DEF HInv, StatsHonest, Reach
<1>2. HInv => StatsHonest
  BY DEF HInv
<1>. QED  BY <1>1, <1>2, HonestSteps, CampaignsInvariance, PTL DEF Spec

=============================================================================
