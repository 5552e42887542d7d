--------------------------- MODULE ThreadsProofs ---------------------------
(***************************************************************************)
(* Theorems about Threads, for any number of threads and requests.         *)
(*                                                                         *)
(* The argument: only Archive makes a thread inactive, and leaves its      *)
(* request about to open the next one (Fits says which operations get      *)
(* where); such a request ends only when a thread is active, its own or    *)
(* another's (Heir).  A thread is linked to the one that was created to    *)
(* supersede it, and no later update touches either link (Links).          *)
(*                                                                         *)
(* One request at a time: who archives a thread is still about to link it  *)
(* until it names its replacement (HInv), and who has changed a thread is  *)
(* still to tell of it, knowing that it is as the message says (RInv).     *)
(***************************************************************************)
EXTENDS Threads, TLAPS

Stores   == Tells \ {"accept contact"}
Archives == {"accept contact", "create"}

Fits(q) ==
    /\ q.at \in {"store", "tell"} => q.op \in Stores
    /\ q.at \in {"archive", "open", "link"} => q.op \in Archives
    /\ q.at \in {"tell old", "tell new"} => q.op = "accept contact"
    /\ q.at \in {"accept reopen", "store", "archive", "link"} =>
           q.on \in Threads /\ thread[q.on].made
    /\ q.at = "open" /\ q.on # NoThread =>
           q.on \in Threads /\ thread[q.on].made
    /\ q.at = "link" =>
           /\ q.new \in Threads /\ thread[q.new].made
           /\ thread[q.new].supersedes = q.on

AllFit == \A r \in Requests : Fits(treq[r])

Opening == \E r \in Requests : treq[r].at = "open"

Heir == ~faults /\ Made # {} => Opening \/ \E t \in Threads : Active(t)

Links ==
    \A s, t \in Threads :
        thread[s].made /\ thread[s].replacedBy = t =>
            thread[t].made /\ thread[t].supersedes = s

TInv == TypeOKThreads /\ AllFit /\ OneActive /\ Heir /\ Links

-----------------------------------------------------------------------------
(* Lemmas                                                                  *)

(* A stored thread and a request that is not idle have all their fields.   *)
LEMMA Shapes ==
    /\ \A d \in ThreadDocs : d.made => d \in StoredThreads
    /\ \A d \in StoredThreads : d.made /\ d \in ThreadDocs
    /\ \A q \in ThreadRequests : q.at # "idle" => q \in ThreadWork
    /\ \A q \in ThreadWork : q.at # "idle" /\ q \in ThreadRequests
<1>1. \A d \in StoredThreads : d.made
  BY DEF StoredThreads
<1>2. ~Absent.made /\ Idle.at = "idle"
  BY DEF Absent, Idle
<1>3. \A q \in ThreadWork : q.at # "idle"
  BY DEF ThreadWork, ThreadSteps
<1>. QED  BY <1>1, <1>2, <1>3 DEF ThreadDocs, ThreadRequests

(* An operation's fields: never the links, and active only if it archives. *)
LEMMA UpdatedDoc ==
    ASSUME NEW d \in StoredThreads, NEW u \in Users, NEW op
    PROVE  /\ Updated(op, d, u) \in StoredThreads
           /\ Updated(op, d, u).supersedes = d.supersedes
           /\ Updated(op, d, u).replacedBy = d.replacedBy
           /\ op \in Stores => Updated(op, d, u).active = d.active
           /\ op \in Archives => ~Updated(op, d, u).active
<1>1. Updated(op, d, u) \in StoredThreads
  <2> DEFINE a == Updated(op, d, u).active
             c == Updated(op, d, u).closedBy
             e == Updated(op, d, u).reopen
             n == Updated(op, d, u).contact
  <2>1. /\ a \in BOOLEAN /\ c \in Users \cup {Nobody}
        /\ e \in Users \cup {Nobody} /\ n \in Users \cup {Nobody}
    BY DEF Updated, StoredThreads
  <2>2. Updated(op, d, u) =
            [d EXCEPT !.active = a, !.closedBy = c, !.reopen = e, !.contact = n]
    BY DEF Updated, StoredThreads
  <2> HIDE DEF a, c, e, n
  <2>3. [d EXCEPT !.active = a, !.closedBy = c, !.reopen = e, !.contact = n]
            \in StoredThreads
    BY <2>1 DEF StoredThreads
  <2>. QED  BY <2>2, <2>3
<1>2. /\ Updated(op, d, u).supersedes = d.supersedes
      /\ Updated(op, d, u).replacedBy = d.replacedBy
  BY DEF Updated, StoredThreads
<1>3. op \in Stores => Updated(op, d, u).active = d.active
  BY DEF Updated, StoredThreads, Stores, Tells
<1>4. op \in Archives => ~Updated(op, d, u).active
  BY DEF Updated, StoredThreads, Archives
<1>. QED  BY <1>1, <1>2, <1>3, <1>4

(* A request that moves while the threads stay, and that does not stop     *)
(* opening a thread unless one is active or an await may raise.            *)
LEMMA Moves ==
    ASSUME TInv, NEW r \in Requests, NEW q \in ThreadRequests,
           Goes(treq, r, q), Fits(q),
           thread' = thread, faults' = faults,
           told' \in [Threads -> Tells \cup {"nothing"}],
           tmoves' \in 0 .. ThreadMoves,
           \/ treq[r].at # "open" \/ q.at = "open" \/ faults
           \/ \E t \in Threads : Active(t)
    PROVE  TInv'
<1>1. /\ treq' \in [Requests -> ThreadRequests] /\ treq'[r] = q
      /\ \A s \in Requests \ {r} : treq'[s] = treq[s]
  BY DEF TInv, TypeOKThreads, Goes
<1>2. TypeOKThreads'
  BY <1>1 DEF TInv, TypeOKThreads
<1>3. AllFit'
  <2> SUFFICES ASSUME NEW s \in Requests PROVE Fits(treq[s])'
    BY DEF AllFit
  <2>1. Fits(treq'[s])
    BY <1>1 DEF TInv, AllFit
  <2>. QED  BY <2>1 DEF Fits
<1>4. OneActive' /\ Links'
  BY DEF TInv, OneActive, Links, Active
<1>5. Heir'
  <2>1. Opening => Opening' \/ faults \/ \E t \in Threads : Active(t)
    BY <1>1 DEF Opening
  <2>. QED  BY <2>1 DEF TInv, Heir, Made, Active
<1>. QED  BY <1>2, <1>3, <1>4, <1>5 DEF TInv

(* A request that stores fields of a thread: it may archive it if a new    *)
(* one is opened next, and may link it to the one that supersedes it.      *)
LEMMA Writes ==
    ASSUME TInv, NEW r \in Requests, NEW q \in ThreadRequests,
           Goes(treq, r, q), Fits(q), treq[r].at # "open",
           NEW x \in Threads, NEW e \in StoredThreads, thread[x].made,
           thread' = [thread EXCEPT ![x] = e], faults' = faults,
           e.supersedes = thread[x].supersedes,
           \/ e.replacedBy = thread[x].replacedBy
           \/ /\ e.replacedBy \in Threads /\ thread[e.replacedBy].made
              /\ thread[e.replacedBy].supersedes = x,
           e.active => thread[x].active,
           e.active \/ ~thread[x].active \/ q.at = "open",
           told' \in [Threads -> Tells \cup {"nothing"}],
           tmoves' \in 0 .. ThreadMoves
    PROVE  TInv'
<1>1. /\ treq' \in [Requests -> ThreadRequests] /\ treq'[r] = q
      /\ \A s \in Requests \ {r} : treq'[s] = treq[s]
  BY DEF TInv, TypeOKThreads, Goes
<1>2. /\ thread' \in [Threads -> ThreadDocs] /\ thread'[x] = e /\ e.made
      /\ \A t \in Threads \ {x} : thread'[t] = thread[t]
  BY Shapes DEF TInv, TypeOKThreads
<1>3. TypeOKThreads'
  BY <1>1, <1>2 DEF TInv, TypeOKThreads
<1>4. \A t \in Threads : /\ thread[t].made => thread'[t].made
                          /\ thread'[t].supersedes = thread[t].supersedes
  BY <1>2
<1>5. AllFit'
  <2> SUFFICES ASSUME NEW s \in Requests PROVE Fits(treq[s])'
    BY DEF AllFit
  <2>1. Fits(treq'[s])
    BY <1>1 DEF TInv, AllFit
  <2>. QED  BY <2>1, <1>4 DEF Fits
<1>6. OneActive'
  BY <1>2 DEF TInv, OneActive, Active
<1>7. Links'
  <2> SUFFICES ASSUME NEW s \in Threads, NEW t \in Threads,
                      thread'[s].made, thread'[s].replacedBy = t
               PROVE  thread'[t].made /\ thread'[t].supersedes = s
    BY DEF Links
  <2>1. thread[t].made /\ thread[t].supersedes = s
    BY <1>2 DEF TInv, Links
  <2>. QED  BY <2>1, <1>4
<1>8. Heir'
  <2>1. Opening => Opening'
    BY <1>1 DEF Opening
  <2>2. CASE q.at = "open"
    BY <1>1, <2>2 DEF Heir, Opening
  <2>3. CASE e.active \/ ~thread[x].active
    <3>1. \A t \in Threads : Active(t) => Active(t)'
      BY <1>2, <2>3 DEF Active
    <3>2. Made # {}
      BY DEF Made
    <3>. QED  BY <2>1, <3>1, <3>2 DEF TInv, Heir
  <2>. QED  BY <2>2, <2>3
<1>. QED  BY <1>3, <1>5, <1>6, <1>7, <1>8 DEF TInv

-----------------------------------------------------------------------------
(* The steps                                                               *)

LEMMA ThreadsStart == ThreadsInit => TInv
<1> SUFFICES ASSUME ThreadsInit PROVE TInv
  OBVIOUS
<1>1. thread = [t \in Threads |-> Absent] /\ \A t \in Threads : ~thread[t].made
  BY DEF ThreadsInit, Absent
<1>2. treq = [r \in Requests |-> Idle] /\ \A r \in Requests : treq[r].at = "idle"
  BY DEF ThreadsInit, Idle
<1>3. TypeOKThreads
  <2>1. tmoves \in 0 .. ThreadMoves
    <3>1. ThreadMoves \in Nat /\ tmoves = 0
      BY ThreadsAssumption DEF ThreadsInit
    <3>. QED  BY <3>1
  <2>2. thread \in [Threads -> ThreadDocs]
    BY <1>1 DEF ThreadDocs
  <2>3. treq \in [Requests -> ThreadRequests]
    BY <1>2 DEF ThreadRequests
  <2>4. told \in [Threads -> Tells \cup {"nothing"}]
    BY DEF ThreadsInit
  <2>. QED  BY <2>1, <2>2, <2>3, <2>4 DEF TypeOKThreads
<1>4. AllFit
  BY <1>2 DEF AllFit, Fits
<1>5. OneActive /\ Heir /\ Links
  BY <1>1 DEF OneActive, Active, Heir, Made, Links
<1>. QED  BY <1>3, <1>4, <1>5 DEF TInv

(* Idle fits everywhere.                                                   *)
LEMMA IdleFits == Idle \in ThreadRequests /\ Fits(Idle) /\ Idle.at = "idle"
BY DEF Idle, ThreadRequests, Fits

(* A request that goes on to another step, and keeps the rest.             *)
LEMMA Advance ==
    ASSUME NEW r \in Requests, NEW a \in ThreadSteps, treq[r] \in ThreadWork,
           Goes(treq, r, [treq[r] EXCEPT !.at = a])
    PROVE  \E q \in ThreadWork :
             /\ Goes(treq, r, q)
             /\ q.at = a /\ q.op = treq[r].op /\ q.new = treq[r].new
             /\ q.on = treq[r].on
<1> DEFINE q == [treq[r] EXCEPT !.at = a]
<1>1. q \in ThreadWork
  BY DEF ThreadWork
<1>2. /\ q.at = a /\ q.op = treq[r].op /\ q.new = treq[r].new
      /\ q.on = treq[r].on
  BY DEF ThreadWork
<1> HIDE DEF q
<1>3. Goes(treq, r, q)
  BY DEF q
<1>. QED  BY <1>1, <1>2, <1>3

(* A request that starts: the bound on them, and an idle slot.             *)
LEMMA StartsWell ==
    ASSUME TInv, NEW r \in Requests, StartThread(r)
    PROVE  tmoves' \in 0 .. ThreadMoves /\ treq[r].at # "open"
<1>1. tmoves \in 0 .. ThreadMoves /\ tmoves < ThreadMoves /\ tmoves' = tmoves + 1
  BY DEF TInv, TypeOKThreads, StartThread
<1>2. treq[r].at = "idle"
  BY DEF StartThread, MayStart, Idle
<1>3. tmoves' \in 0 .. ThreadMoves
  <2>1. ThreadMoves \in Nat
    BY ThreadsAssumption
  <2>. QED  BY <1>1, <2>1
<1>. QED  BY <1>2, <1>3

LEMMA ReadsKeep ==
    ASSUME TInv, NEW r \in Requests, NEW u \in Users, NEW t \in Threads,
           NEW op, NEW at, ReadThread(r, op, u, t, at),
           \/ at = "store" /\ op \in Stores
           \/ at = "archive" /\ op \in Archives
           \/ at = "accept reopen" /\ op = "accept reopen"
    PROVE  TInv'
<1> DEFINE q == [at |-> at, op |-> op, who |-> u, on |-> t, new |-> NoThread]
<1>1. q \in ThreadRequests
  BY DEF ThreadRequests, ThreadWork, ThreadSteps, Stores, Archives, Tells
<1>2. Fits(q)
  BY DEF Fits, ReadThread
<1>3. StartThread(r)
  BY DEF ReadThread
<1>4. /\ Goes(treq, r, q) /\ thread' = thread /\ faults' = faults
      /\ told' = told
  BY DEF ReadThread
<1> HIDE DEF q
<1>5. told' \in [Threads -> Tells \cup {"nothing"}]
  BY <1>4 DEF TInv, TypeOKThreads
<1>6. tmoves' \in 0 .. ThreadMoves /\ treq[r].at # "open"
  BY <1>3, StartsWell
<1>. QED  BY <1>1, <1>2, <1>4, <1>5, <1>6, Moves

(* What the invariant says of the request that takes a step.               *)
LEMMA Stands ==
    ASSUME TInv, NEW r \in Requests, treq[r].at # "idle"
    PROVE  treq[r] \in ThreadWork /\ Fits(treq[r])
BY Shapes DEF TInv, TypeOKThreads, AllFit

LEMMA StoresKeep ==
    ASSUME TInv, NEW r \in Requests, Store(r) \/ Archive(r)
    PROVE  TInv'
<1> DEFINE p == treq[r]
           x == p.on
           e == Updated(p.op, thread[x], p.who)
           a == IF p.at = "store" THEN "tell" ELSE "open"
<1>1. p.at \in {"store", "archive"}
  BY DEF Store, Archive
<1>2. p \in ThreadWork /\ Fits(p)
  BY <1>1, Stands
<1>3. x \in Threads /\ thread[x].made
  BY <1>1, <1>2 DEF Fits
<1>4. thread[x] \in StoredThreads
  BY <1>3, Shapes DEF TInv, TypeOKThreads
<1>5. p.who \in Users
  BY <1>2 DEF ThreadWork
<1>6. /\ e \in StoredThreads /\ e.supersedes = thread[x].supersedes
      /\ e.replacedBy = thread[x].replacedBy
      /\ p.at = "store" => e.active = thread[x].active
      /\ p.at = "archive" => ~e.active
  <2>1. (p.at = "store" => p.op \in Stores) /\ (p.at = "archive" => p.op \in Archives)
    BY <1>2 DEF Fits
  <2> HIDE DEF p
  <2>. QED  BY <2>1, <1>4, <1>5, UpdatedDoc
<1>7. /\ Goes(treq, r, [p EXCEPT !.at = a]) /\ thread' = [thread EXCEPT ![x] = e]
      /\ faults' = faults /\ told' = told /\ tmoves' = tmoves
  BY DEF Store, Archive
<1>8. a \in ThreadSteps
  BY DEF ThreadSteps
<1>9. PICK q \in ThreadWork :
        /\ Goes(treq, r, q)
        /\ q.at = a /\ q.op = p.op /\ q.new = p.new /\ q.on = p.on
  BY <1>2, <1>7, <1>8, Advance
<1>10. q \in ThreadRequests /\ Fits(q) /\ (p.at = "archive" => q.at = "open")
  <2>1. q \in ThreadRequests
    BY Shapes
  <2>2. \/ p.at = "archive" /\ q.at = "open"
        \/ p.at = "store" /\ q.at = "tell"
    BY <1>1, <1>9
  <2>3. q.at = "open" => q.op \in Archives
    BY <1>2, <1>9, <2>2 DEF Fits
  <2>4. q.at = "tell" => q.op \in Stores
    BY <1>2, <1>9, <2>2 DEF Fits
  <2>5. Fits(q)
    BY <1>3, <1>9, <2>2, <2>3, <2>4 DEF Fits
  <2>. QED  BY <2>1, <2>2, <2>5
<1>11. /\ told' \in [Threads -> Tells \cup {"nothing"}]
       /\ tmoves' \in 0 .. ThreadMoves
  BY <1>7 DEF TInv, TypeOKThreads
<1>12. Goes(treq, r, q)
  BY <1>9
<1>13. e.active => thread[x].active
  BY <1>1, <1>6
<1>14. e.active \/ ~thread[x].active \/ q.at = "open"
  BY <1>1, <1>6, <1>10
<1>15. treq[r].at # "open"
  BY <1>1
<1> HIDE DEF e, a
<1>. QED  BY <1>3, <1>6, <1>7, <1>10, <1>11, <1>12, <1>13, <1>14, <1>15, Writes

LEMMA AcceptReopenKeeps ==
    ASSUME TInv, NEW r \in Requests, AcceptReopen(r)
    PROVE  TInv'
<1>1. treq[r].at = "accept reopen" /\ treq[r].at # "idle" /\ treq[r].at # "open"
  BY DEF AcceptReopen
<1>2. treq[r] \in ThreadWork /\ Fits(treq[r])
  BY <1>1, Stands
<1>3. /\ thread' = thread /\ faults' = faults
      /\ told' \in [Threads -> Tells \cup {"nothing"}]
      /\ tmoves' \in 0 .. ThreadMoves
  BY DEF AcceptReopen, TInv, TypeOKThreads
<1>4. CASE Ends(treq, r)
  BY <1>1, <1>3, <1>4, IdleFits, Moves DEF Ends
<1>5. CASE Goes(treq, r, [treq[r] EXCEPT !.at = "store", !.op = "reopen"])
  <2> DEFINE p == treq[r]
             q == [p EXCEPT !.at = "store", !.op = "reopen"]
  <2>1. p.on \in Threads /\ thread[p.on].made
    BY <1>1, <1>2 DEF Fits
  <2>2. q \in ThreadWork
    BY <1>2 DEF ThreadWork, ThreadSteps, Tells
  <2>3. q.at = "store" /\ q.op = "reopen" /\ q.on = p.on
    BY <1>2 DEF ThreadWork
  <2>4. q \in ThreadRequests
    BY <2>2, Shapes
  <2>6. Goes(treq, r, q)
    BY <1>5
  <2> HIDE DEF q
  <2>5. Fits(q)
    BY <2>1, <2>3 DEF Fits, Stores, Tells
  <2>. QED  BY <1>1, <1>3, <2>4, <2>5, <2>6, Moves
<1>. QED  BY <1>4, <1>5 DEF AcceptReopen

(* The messages: they end the request, or go on from the old thread to     *)
(* the new one.                                                            *)
LEMMA TellsKeep ==
    ASSUME TInv, NEW r \in Requests,
           Tell(r) \/ Greet(r) \/ TellOld(r) \/ TellNew(r)
    PROVE  TInv'
<1>1. /\ treq[r].at \in {"tell", "greet", "tell old", "tell new"}
      /\ treq[r].at # "idle" /\ treq[r].at # "open"
  BY DEF Tell, Greet, TellOld, TellNew
<1>2. treq[r] \in ThreadWork /\ Fits(treq[r])
  BY <1>1, Stands
<1>3. thread' = thread /\ faults' = faults /\ tmoves' \in 0 .. ThreadMoves
  BY DEF Tell, Greet, TellOld, TellNew, TInv, TypeOKThreads
<1>4. told' \in [Threads -> Tells \cup {"nothing"}]
  <2>1. told \in [Threads -> Tells \cup {"nothing"}]
    BY DEF TInv, TypeOKThreads
  <2>2. \/ told' = told
        \/ told' = [told EXCEPT ![treq[r].new] = "say"]
        \/ \E t : /\ told' = [told EXCEPT ![t] = treq[r].op]
                  /\ treq[r].at # "greet"
    BY DEF Tell, Greet, TellOld, TellNew
  <2>3. treq[r].at # "greet" => treq[r].op \in Tells
    BY <1>1, <1>2 DEF Fits, Stores, Tells
  <2>4. "say" \in Tells
    BY DEF Tells
  <2>. QED  BY <2>1, <2>2, <2>3, <2>4
<1>5. CASE Ends(treq, r)
  BY <1>1, <1>3, <1>4, <1>5, IdleFits, Moves DEF Ends
<1>6. CASE TellOld(r)
  <2>1. "tell new" \in ThreadSteps
    BY DEF ThreadSteps
  <2>a. /\ treq[r].at = "tell old"
        /\ Goes(treq, r, [treq[r] EXCEPT !.at = "tell new"])
    BY <1>6 DEF TellOld
  <2>2. PICK q \in ThreadWork :
          /\ Goes(treq, r, q)
          /\ q.at = "tell new" /\ q.op = treq[r].op
    BY <1>2, <2>1, <2>a, Advance
  <2>3. treq[r].at = "tell old" /\ Goes(treq, r, q)
    BY <2>2, <2>a
  <2>4. q \in ThreadRequests /\ Fits(q)
    BY <1>2, <2>2, <2>3, Shapes DEF Fits
  <2>. QED  BY <1>1, <1>3, <1>4, <2>3, <2>4, Moves
<1>. QED  BY <1>5, <1>6 DEF Tell, Greet, TellNew

LEMMA FindThreadKeeps ==
    ASSUME TInv, NEW r \in Requests, FindThread(r)
    PROVE  TInv'
<1>1. tmoves' \in 0 .. ThreadMoves /\ treq[r].at # "open"
  BY StartsWell DEF FindThread
<1>2. /\ thread' = thread /\ faults' = faults
      /\ told' \in [Threads -> Tells \cup {"nothing"}]
  BY DEF FindThread, TInv, TypeOKThreads
<1>3. PICK a \in {"open", "archive"}, x \in Threads \cup {NoThread} :
        /\ Goes(treq, r, [at |-> a, op |-> "create", who |-> "interested",
                          on |-> x, new |-> NoThread])
        /\ \/ x = NoThread /\ a = "open"
           \/ x \in Threads /\ thread[x].made /\ a = "archive"
  BY DEF FindThread, Active
<1> DEFINE q == [at |-> a, op |-> "create", who |-> "interested", on |-> x,
                 new |-> NoThread]
<1>4. q \in ThreadRequests
  BY <1>3 DEF ThreadRequests, ThreadWork, ThreadSteps, Users
<1>5. Fits(q)
  BY <1>3 DEF Fits, Archives
<1>6. Goes(treq, r, q)
  BY <1>3
<1> HIDE DEF q
<1>. QED  BY <1>1, <1>2, <1>4, <1>5, <1>6, Moves

LEMMA LinkKeeps ==
    ASSUME TInv, NEW r \in Requests, Link(r)
    PROVE  TInv'
<1> DEFINE p == treq[r]
           x == p.on
           n == p.new
           e == [thread[x] EXCEPT !.replacedBy = n]
           a == IF p.op = "create" THEN "greet" ELSE "tell old"
<1>1. p.at = "link" /\ p.at # "idle" /\ p.at # "open"
  BY DEF Link
<1>2. p \in ThreadWork /\ Fits(p)
  BY <1>1, Stands
<1>3. /\ x \in Threads /\ thread[x].made /\ p.op \in Archives
      /\ n \in Threads /\ thread[n].made /\ thread[n].supersedes = x
  BY <1>1, <1>2 DEF Fits
<1>4. thread[x] \in StoredThreads
  BY <1>3, Shapes DEF TInv, TypeOKThreads
<1>5. /\ e \in StoredThreads /\ e.supersedes = thread[x].supersedes
      /\ e.replacedBy = n /\ e.active = thread[x].active
  <2> HIDE DEF n
  <2>. QED  BY <1>3, <1>4 DEF StoredThreads
<1>6. e.active => thread[x].active
  BY <1>5
<1>7. e.active \/ ~thread[x].active
  <2> HIDE DEF e
  <2>. QED  BY <1>5, Zenon
<1>7a. Goes(treq, r, [p EXCEPT !.at = a])
  BY DEF Link
<1>8. a \in ThreadSteps
  BY DEF ThreadSteps
<1>9. PICK q \in ThreadWork :
        /\ Goes(treq, r, q)
        /\ q.at = a /\ q.op = p.op /\ q.new = p.new /\ q.on = p.on
  BY <1>2, <1>7a, <1>8, Advance
<1>10. q \in ThreadRequests /\ Fits(q)
  <2>1. q \in ThreadRequests
    BY Shapes
  <2>2. q.op \in Archives
    BY <1>3, <1>9
  <2>3. q.at = "greet" \/ (q.at = "tell old" /\ q.op = "accept contact")
    BY <1>9, <2>2 DEF Archives
  <2>. QED  BY <2>1, <2>3 DEF Fits
<1>11. Goes(treq, r, q)
  BY <1>9
<1>12. /\ thread' = [thread EXCEPT ![x] = e] /\ faults' = faults
       /\ told' \in [Threads -> Tells \cup {"nothing"}]
       /\ tmoves' \in 0 .. ThreadMoves
  BY DEF Link, TInv, TypeOKThreads
<1> HIDE DEF e, a
<1>. QED  BY <1>1, <1>3, <1>5, <1>6, <1>7, <1>10, <1>11, <1>12, Writes

(* The new thread: the only active one, and nothing is linked to it yet.   *)
LEMMA OpenKeeps ==
    ASSUME TInv, NEW r \in Requests, Open(r)
    PROVE  TInv'
<1> DEFINE p == treq[r]
<1>1. p.at = "open" /\ p.at # "idle"
  BY DEF Open
<1>2. p \in ThreadWork /\ Fits(p)
  BY <1>1, Stands
<1>3. /\ faults' = faults /\ told' \in [Threads -> Tells \cup {"nothing"}]
      /\ tmoves' \in 0 .. ThreadMoves
  BY DEF Open, TInv, TypeOKThreads
<1>4. CASE (\E t \in Threads : Active(t)) /\ Ends(treq, r) /\ thread' = thread
  BY <1>3, <1>4, IdleFits, Moves DEF Ends
<1>5. ASSUME NEW x \in Threads \ Made, \A s \in Threads : ~Active(s),
             thread' = [thread EXCEPT ![x] = NewThread(p.on)],
             Goes(treq, r, [p EXCEPT !.new = x,
                                     !.at = IF p.on = NoThread
                                              THEN "greet" ELSE "link"])
      PROVE  TInv'
  <2> DEFINE a == IF p.on = NoThread THEN "greet" ELSE "link"
             q == [p EXCEPT !.new = x, !.at = a]
  <2>0. a = "greet" \/ (a = "link" /\ p.on # NoThread)
    OBVIOUS
  <2> HIDE DEF a
  <2>a. a \in ThreadSteps
    BY <2>0 DEF ThreadSteps
  <2>b. q \in ThreadWork
    BY <1>2, <1>5, <2>a DEF ThreadWork
  <2>c. q.at = a /\ q.op = p.op /\ q.new = x /\ q.on = p.on
    BY <1>2 DEF ThreadWork
  <2>d. Goes(treq, r, q)
    BY <1>5 DEF a
  <2> HIDE DEF q
  <2>1. /\ q \in ThreadWork /\ Goes(treq, r, q)
        /\ q.at = a /\ q.op = p.op /\ q.new = x /\ q.on = p.on
    BY <2>b, <2>c, <2>d
  <2>2. /\ treq' \in [Requests -> ThreadRequests] /\ treq'[r] = q
        /\ \A s \in Requests \ {r} : treq'[s] = treq[s]
    BY <1>5, <2>1, Shapes DEF TInv, TypeOKThreads, Goes
  <2>3. p.on \in Threads \cup {NoThread}
    BY <1>2 DEF ThreadWork
  <2>4. NewThread(p.on) \in StoredThreads
    BY <2>3 DEF NewThread, StoredThreads
  <2>5. /\ thread' \in [Threads -> ThreadDocs] /\ thread'[x] = NewThread(p.on)
        /\ \A t \in Threads \ {x} : thread'[t] = thread[t]
    BY <1>5, <2>4, Shapes DEF TInv, TypeOKThreads
  <2>6. /\ thread'[x].made /\ thread'[x].active
        /\ thread'[x].supersedes = p.on /\ thread'[x].replacedBy = NoThread
    BY <2>5 DEF NewThread
  <2>7. \A t \in Threads :
          thread[t].made => /\ thread'[t].made
                            /\ thread'[t].supersedes = thread[t].supersedes
    BY <1>5, <2>5 DEF Made
  <2>8. TypeOKThreads'
    BY <1>3, <2>2, <2>5 DEF TInv, TypeOKThreads, Open
  <2>9. AllFit'
    <3> SUFFICES ASSUME NEW s \in Requests PROVE Fits(treq[s])'
      BY DEF AllFit
    <3>1. CASE s # r
      <4>1. Fits(treq'[s])
        BY <2>2, <3>1 DEF TInv, AllFit
      <4>. QED  BY <4>1, <2>7 DEF Fits
    <3>2. CASE s = r
      <4>1. treq'[s] = q /\ q.op \in Archives
        BY <1>1, <1>2, <2>1, <2>2, <3>2 DEF Fits
      <4>2. q.at = "greet" \/ (q.at = "link" /\ p.on # NoThread)
        BY <2>0, <2>1
      <4>3. p.on # NoThread => p.on \in Threads /\ thread[p.on].made
        BY <1>1, <1>2 DEF Fits
      <4>4. p.on # NoThread => thread'[p.on].made
        BY <2>7, <4>3
      <4>. QED  BY <2>1, <2>6, <4>1, <4>2, <4>3, <4>4 DEF Fits
    <3>. QED  BY <3>1, <3>2
  <2>10. OneActive'
    BY <1>5, <2>5 DEF OneActive, Active
  <2>11. Links'
    <3> SUFFICES ASSUME NEW s \in Threads, NEW t \in Threads,
                        thread'[s].made, thread'[s].replacedBy = t
                 PROVE  thread'[t].made /\ thread'[t].supersedes = s
      BY DEF Links
    <3>1. s # x
      BY <2>6, ThreadsAssumption DEF NoThread
    <3>2. thread[t].made /\ thread[t].supersedes = s
      BY <2>5, <3>1 DEF TInv, Links
    <3>. QED  BY <3>2, <2>7
  <2>12. Heir'
    BY <2>6 DEF Heir, Active
  <2>. QED  BY <2>8, <2>9, <2>10, <2>11, <2>12 DEF TInv
<1>. QED  BY <1>4, <1>5 DEF Open

LEMMA RaisesKeep ==
    ASSUME TInv, NEW r \in Requests, ThreadRaises(r)
    PROVE  TInv'
<1>1. /\ faults /\ Goes(treq, r, Idle) /\ thread' = thread /\ faults' = faults
      /\ told' \in [Threads -> Tells \cup {"nothing"}]
      /\ tmoves' \in 0 .. ThreadMoves
  BY DEF ThreadRaises, Raises, Ends, TInv, TypeOKThreads
<1>. QED  BY <1>1, IdleFits, Moves

(* Every step keeps the invariant.                                         *)
LEMMA TInvKept == TInv /\ [ThreadsNext]_tvars => TInv'
<1> SUFFICES ASSUME TInv, [ThreadsNext]_tvars PROVE TInv'
  OBVIOUS
<1>1. CASE UNCHANGED tvars
  <2>1. /\ thread' = thread /\ faults' = faults /\ treq' = treq /\ told' = told
        /\ tmoves' = tmoves
    BY <1>1 DEF tvars
  <2>. QED  BY <2>1 DEF TInv, TypeOKThreads, AllFit, Fits, OneActive, Active,
                       Heir, Opening, Made, Links
<1>2. ASSUME NEW r \in Requests, ThreadStep(r) PROVE TInv'
  <2>1. ASSUME NEW u \in Users, NEW t \in Threads,
               \/ CloseConversation(r, u, t) \/ ReopenConversation(r, u, t)
               \/ RequestReopen(r, u, t)     \/ RespondReopen(r, u, t)
               \/ RequestNewContact(r, u, t) \/ RespondNewContact(r, u, t)
               \/ AddUserMessage(r, u, t)
        PROVE  TInv'
    <3>1. \/ \E op \in Stores : ReadThread(r, op, u, t, "store")
          \/ ReadThread(r, "accept contact", u, t, "archive")
          \/ ReadThread(r, "accept reopen", u, t, "accept reopen")
      BY <2>1 DEF CloseConversation, ReopenConversation, RequestReopen,
                  RespondReopen, RequestNewContact, RespondNewContact,
                  AddUserMessage, Stores, Tells
    <3>2. "accept contact" \in Archives
      BY DEF Archives
    <3>. QED  BY <3>1, <3>2, ReadsKeep
  <2>. QED  BY <1>2, <2>1, StoresKeep, AcceptReopenKeeps, TellsKeep,
               FindThreadKeeps, LinkKeeps, OpenKeeps, RaisesKeep DEF ThreadStep
<1>. QED  BY <1>1, <1>2 DEF ThreadsNext

LEMMA TInvHolds == ThreadsSpec => []TInv
BY ThreadsStart, TInvKept, PTL DEF ThreadsSpec

-----------------------------------------------------------------------------
(* The history, one request at a time                                      *)

Alone ==
    \A r, s \in Requests : treq[r] # Idle /\ treq[s] # Idle => r = s

(* Who archives a thread found it active, so that none is when he opens.   *)
Ready ==
    \A r \in Requests :
        /\ treq[r].at = "archive" => thread[treq[r].on].active
        /\ treq[r].at = "open" => \A t \in Threads : ~Active(t)

(* An archived thread names its replacement, or is about to.               *)
Carries(q, t) == q.at \in {"open", "link"} /\ q.on = t

Carried ==
    ~faults => \A t \in Made :
        \/ thread[t].active
        \/ thread[t].replacedBy # NoThread
        \/ \E r \in Requests : Carries(treq[r], t)

HInv == ~overlap => Alone /\ Ready /\ Carried

(* While requests do not overlap, whoever takes a step is the only one.    *)
LEMMA OnlyOne ==
    ASSUME TInv, HInv, ~overlap, NEW r \in Requests,
           treq[r] # Idle \/ AllIdle(treq)
    PROVE  /\ \A s \in Requests \ {r} : treq[s] = Idle
           /\ treq[r].at = "archive" => thread[treq[r].on].active
           /\ treq[r].at = "open" => \A t \in Threads : ~Active(t)
           /\ ~faults => \A t \in Made : \/ thread[t].active
                                         \/ thread[t].replacedBy # NoThread
                                         \/ Carries(treq[r], t)
<1>1. \A s \in Requests \ {r} : treq[s] = Idle
  BY DEF HInv, Alone, AllIdle
<1>2. Idle.at = "idle"
  BY DEF Idle
<1>3. \A s \in Requests \ {r} : treq[s].at = "idle"
  BY <1>1, <1>2
<1>. QED  BY <1>1, <1>3 DEF HInv, Ready, Carried, Carries

(* A step of the only request, which goes on to q.                         *)
LEMMA OneMoves ==
    ASSUME TInv, HInv, NEW r \in Requests, NEW q \in ThreadRequests,
           Goes(treq, r, q), overlap' = overlap, faults' = faults,
           ~overlap => treq[r] # Idle \/ AllIdle(treq),
           ~overlap => (q.at = "archive" => thread'[q.on].active),
           ~overlap => (q.at = "open" => \A t \in Threads : ~Active(t)'),
           ~overlap /\ ~faults =>
               \A t \in Threads : thread'[t].made => \/ thread'[t].active
                                                    \/ thread'[t].replacedBy # NoThread
                                                    \/ Carries(q, t)
    PROVE  HInv'
<1> SUFFICES ASSUME ~overlap
             PROVE  (Alone /\ Ready /\ Carried)'
  BY DEF HInv
<1>1. treq'[r] = q /\ \A s \in Requests \ {r} : treq'[s] = treq[s]
  BY DEF TInv, TypeOKThreads, Goes
<1>2. \A s \in Requests \ {r} : treq'[s] = Idle
  BY <1>1, OnlyOne
<1>3. Idle.at = "idle"
  BY DEF Idle
<1>4. \A s \in Requests \ {r} : treq'[s].at = "idle"
  BY <1>2, <1>3
<1>5. Alone'
  BY <1>2 DEF Alone
<1>6. Ready'
  BY <1>1, <1>4 DEF Ready
<1>7. Carried'
  <2>1. faults' = faults
    OBVIOUS
  <2>. QED  BY <1>1, <2>1 DEF Carried, Made, Carries
<1>. QED  BY <1>5, <1>6, <1>7

(* A step that leaves the threads alone, and a request that carries none.  *)
LEMMA OneKeeps ==
    ASSUME TInv, HInv, NEW r \in Requests, NEW q \in ThreadRequests,
           Goes(treq, r, q), overlap' = overlap, faults' = faults,
           ~overlap => treq[r] # Idle \/ AllIdle(treq),
           thread' = thread, faults \/ treq[r].at \notin {"open", "link"},
           q.at = "archive" => thread[q.on].active,
           q.at = "open" => \A t \in Threads : ~Active(t)
    PROVE  HInv'
<1>1. ~overlap => (q.at = "open" => \A t \in Threads : ~Active(t)')
  BY DEF Active
<1>2. ~overlap /\ ~faults =>
         \A t \in Threads : thread'[t].made => \/ thread'[t].active
                                              \/ thread'[t].replacedBy # NoThread
                                              \/ Carries(q, t)
  BY OnlyOne DEF Made, Carries
<1>. QED  BY <1>1, <1>2, OneMoves

LEMMA ReadsCarry ==
    ASSUME TInv, HInv, NEW r \in Requests, NEW u \in Users, NEW t \in Threads,
           NEW op \in Tells \cup {"accept reopen"},
           NEW at \in {"store", "accept reopen", "archive"},
           ReadThread(r, op, u, t, at), at = "archive" => thread[t].active
    PROVE  HInv'
<1>1. PICK q : q = [at |-> at, op |-> op, who |-> u, on |-> t, new |-> NoThread]
  OBVIOUS
<1>2. q \in ThreadRequests
  BY <1>1 DEF ThreadRequests, ThreadWork, ThreadSteps
<1>3. Goes(treq, r, q) /\ thread' = thread /\ overlap' = overlap /\ faults' = faults
  BY <1>1 DEF ReadThread
<1>4. /\ treq[r].at = "idle"
      /\ ~overlap => treq[r] # Idle \/ AllIdle(treq)
  <2>1. MayStart(treq, r)
    BY DEF ReadThread, StartThread
  <2>2. treq[r] = Idle /\ (overlap \/ AllIdle(treq))
    BY <2>1, Zenon DEF MayStart
  <2>3. Idle.at = "idle"
    BY DEF Idle
  <2>. QED  BY <2>2, <2>3
<1>5. q.at = at /\ q.on = t
  BY <1>1
<1>. QED  BY <1>2, <1>3, <1>4, <1>5, OneKeeps

LEMMA FindThreadCarries ==
    ASSUME TInv, HInv, NEW r \in Requests, FindThread(r)
    PROVE  HInv'
<1>1. /\ treq[r].at = "idle"
      /\ ~overlap => treq[r] # Idle \/ AllIdle(treq)
      /\ thread' = thread /\ overlap' = overlap /\ faults' = faults
  BY DEF FindThread, StartThread, MayStart, Idle
<1>2. PICK a \in {"open", "archive"}, x \in Threads \cup {NoThread} :
        /\ Goes(treq, r, [at |-> a, op |-> "create", who |-> "interested",
                          on |-> x, new |-> NoThread])
        /\ \/ x = NoThread /\ a = "open" /\ \A t \in Threads : ~Active(t)
           \/ x \in Threads /\ thread[x].active /\ a = "archive"
  BY DEF FindThread, Active
<1>3. PICK q : q = [at |-> a, op |-> "create", who |-> "interested",
                    on |-> x, new |-> NoThread]
  OBVIOUS
<1>4. q \in ThreadRequests /\ q.at = a /\ q.on = x
  BY <1>2, <1>3 DEF ThreadRequests, ThreadWork, ThreadSteps, Users
<1>5. Goes(treq, r, q)
  BY <1>2, <1>3
<1>. QED  BY <1>1, <1>2, <1>4, <1>5, OneKeeps

(* Every step of a request that is under way.                              *)
LEMMA WorkCarries ==
    ASSUME TInv, HInv, NEW r \in Requests, treq[r].at # "idle",
           overlap' = overlap, faults' = faults,
           NEW q \in ThreadRequests, Goes(treq, r, q),
           thread' = thread, treq[r].at \notin {"open", "link"},
           q.at \notin {"archive", "open"}
    PROVE  HInv'
<1>1. treq[r] # Idle
  BY DEF Idle
<1>. QED  BY <1>1, OneKeeps

LEMMA AcceptReopenCarries ==
    ASSUME TInv, HInv, NEW r \in Requests, AcceptReopen(r)
    PROVE  HInv'
<1>1. /\ treq[r].at = "accept reopen" /\ treq[r] \in ThreadWork
      /\ thread' = thread /\ overlap' = overlap /\ faults' = faults
  <2>1. treq[r].at = "accept reopen"
    BY DEF AcceptReopen
  <2>. QED  BY <2>1, Stands DEF AcceptReopen
<1>2. PICK q : /\ q = Idle \/ q = [treq[r] EXCEPT !.at = "store", !.op = "reopen"]
               /\ Goes(treq, r, q)
  BY DEF AcceptReopen, Ends
<1>3. q \in ThreadRequests /\ q.at \in {"idle", "store"}
  <2>1. CASE q = Idle
    BY <2>1, IdleFits
  <2>2. CASE q = [treq[r] EXCEPT !.at = "store", !.op = "reopen"]
    <3>1. q \in ThreadWork /\ q.at = "store"
      BY <1>1, <2>2 DEF ThreadWork, ThreadSteps, Tells
    <3>. QED  BY <3>1, Shapes
  <2>. QED  BY <1>2, <2>1, <2>2
<1>. QED  BY <1>1, <1>2, <1>3, WorkCarries

LEMMA TellsCarry ==
    ASSUME TInv, HInv, NEW r \in Requests,
           Tell(r) \/ Greet(r) \/ TellOld(r) \/ TellNew(r)
    PROVE  HInv'
<1>1. /\ treq[r].at \in {"tell", "greet", "tell old", "tell new"}
      /\ thread' = thread /\ overlap' = overlap /\ faults' = faults
  BY DEF Tell, Greet, TellOld, TellNew
<1>2. treq[r] \in ThreadWork
  BY <1>1, Stands
<1>3. PICK q : /\ q = Idle \/ q = [treq[r] EXCEPT !.at = "tell new"]
               /\ Goes(treq, r, q)
  BY DEF Tell, Greet, TellOld, TellNew, Ends
<1>4. q \in ThreadRequests /\ q.at \in {"idle", "tell new"}
  <2>1. CASE q = Idle
    BY <2>1, IdleFits
  <2>2. CASE q = [treq[r] EXCEPT !.at = "tell new"]
    <3>1. q \in ThreadWork /\ q.at = "tell new"
      BY <1>2, <2>2 DEF ThreadWork, ThreadSteps
    <3>. QED  BY <3>1, Shapes
  <2>. QED  BY <1>3, <2>1, <2>2
<1>. QED  BY <1>1, <1>3, <1>4, WorkCarries

(* Store changes no link and archives nothing.                             *)
LEMMA StoreCarries ==
    ASSUME TInv, HInv, NEW r \in Requests, Store(r)
    PROVE  HInv'
<1> DEFINE p == treq[r]
           x == p.on
           e == Updated(p.op, thread[x], p.who)
<1>1. p.at = "store" /\ p \in ThreadWork /\ Fits(p)
  <2>1. p.at = "store"
    BY DEF Store
  <2>. QED  BY <2>1, Stands
<1>2. x \in Threads /\ thread[x].made /\ p.op \in Stores /\ p.who \in Users
  BY <1>1 DEF Fits, ThreadWork
<1>3. thread[x] \in StoredThreads
  BY <1>2, Shapes DEF TInv, TypeOKThreads
<1>4. e.active = thread[x].active /\ e.replacedBy = thread[x].replacedBy
  <2> HIDE DEF p
  <2>. QED  BY <1>2, <1>3, UpdatedDoc
<1>5. \A t \in Threads : thread'[t].made =>
         /\ thread[t].made
         /\ thread'[t].active = thread[t].active
         /\ thread'[t].replacedBy = thread[t].replacedBy
  <2>1. thread' = [thread EXCEPT ![x] = e]
    BY DEF Store
  <2> HIDE DEF e
  <2>. QED  BY <1>2, <1>4, <2>1 DEF TInv, TypeOKThreads
<1>6. PICK q : q = [p EXCEPT !.at = "tell"]
  OBVIOUS
<1>7. q \in ThreadRequests /\ q.at = "tell"
  <2>1. q \in ThreadWork /\ q.at = "tell"
    BY <1>1, <1>6 DEF ThreadWork, ThreadSteps
  <2>. QED  BY <2>1, Shapes
<1>8. Goes(treq, r, q) /\ overlap' = overlap /\ faults' = faults
  BY <1>6 DEF Store
<1>9. treq[r] # Idle
  BY <1>1 DEF Idle
<1>10. ~overlap /\ ~faults =>
         \A t \in Threads : thread'[t].made => \/ thread'[t].active
                                              \/ thread'[t].replacedBy # NoThread
                                              \/ Carries(q, t)
  BY <1>1, <1>5, <1>9, OnlyOne DEF Made, Carries
<1>. QED  BY <1>7, <1>8, <1>9, <1>10, OneMoves

(* The archived thread was the active one, and its request goes on.        *)
LEMMA ArchiveCarries ==
    ASSUME TInv, HInv, NEW r \in Requests, Archive(r)
    PROVE  HInv'
<1> DEFINE p == treq[r]
           x == p.on
           e == Updated(p.op, thread[x], p.who)
<1>1. p.at = "archive" /\ p \in ThreadWork /\ Fits(p)
  <2>1. p.at = "archive"
    BY DEF Archive
  <2>. QED  BY <2>1, Stands
<1>2. x \in Threads /\ thread[x].made /\ p.op \in Archives /\ p.who \in Users
  BY <1>1 DEF Fits, ThreadWork
<1>3. thread[x] \in StoredThreads
  BY <1>2, Shapes DEF TInv, TypeOKThreads
<1>4. ~e.active
  <2> HIDE DEF p
  <2>. QED  BY <1>2, <1>3, UpdatedDoc
<1>5. /\ thread'[x] = e
      /\ \A t \in Threads \ {x} : thread'[t] = thread[t]
  <2>1. thread' = [thread EXCEPT ![x] = e]
    BY DEF Archive
  <2> HIDE DEF e
  <2>. QED  BY <1>2, <2>1 DEF TInv, TypeOKThreads
<1>6. PICK q : q = [p EXCEPT !.at = "open"]
  OBVIOUS
<1>7. q \in ThreadRequests /\ q.at = "open" /\ q.on = x
  <2>1. q \in ThreadWork /\ q.at = "open" /\ q.on = x
    BY <1>1, <1>6 DEF ThreadWork, ThreadSteps
  <2>. QED  BY <2>1, Shapes
<1>8. Goes(treq, r, q) /\ overlap' = overlap /\ faults' = faults
  BY <1>6 DEF Archive
<1>9. treq[r] # Idle
  BY <1>1 DEF Idle
<1>10. ~overlap => \A t \in Threads : ~Active(t)'
  <2> SUFFICES ASSUME ~overlap, NEW t \in Threads
               PROVE  ~Active(t)'
    OBVIOUS
  <2>1. Active(x)
    BY <1>1, <1>2, <1>9, OnlyOne DEF Active
  <2>2. CASE t = x
    BY <1>4, <1>5, <2>2 DEF Active
  <2>3. CASE t # x
    <3>1. ~Active(t)
      BY <1>2, <2>1, <2>3 DEF TInv, OneActive
    <3>. QED  BY <1>5, <2>3, <3>1 DEF Active
  <2>. QED  BY <2>2, <2>3
<1>11. ~overlap /\ ~faults =>
         \A t \in Threads : thread'[t].made => \/ thread'[t].active
                                              \/ thread'[t].replacedBy # NoThread
                                              \/ Carries(q, t)
  <2> SUFFICES ASSUME ~overlap, ~faults, NEW t \in Threads, thread'[t].made
               PROVE  \/ thread'[t].active
                      \/ thread'[t].replacedBy # NoThread
                      \/ Carries(q, t)
    OBVIOUS
  <2>1. CASE t = x
    BY <1>7, <2>1 DEF Carries
  <2>2. CASE t # x
    BY <1>1, <1>5, <1>9, <2>2, OnlyOne DEF Made, Carries
  <2>. QED  BY <2>1, <2>2
<1>. QED  BY <1>7, <1>8, <1>9, <1>10, <1>11, OneMoves

(* Who opens finds no active thread, and goes on to link the old one.      *)
LEMMA OpenCarries ==
    ASSUME TInv, HInv, NEW r \in Requests, Open(r)
    PROVE  HInv'
<1>1. treq[r].at = "open" /\ treq[r] \in ThreadWork /\ treq[r] # Idle
  <2>1. treq[r].at = "open"
    BY DEF Open
  <2>. QED  BY <2>1, Stands DEF Idle
<1>2. overlap' = overlap /\ faults' = faults
  BY DEF Open
<1>3. CASE (\E t \in Threads : Active(t)) /\ Ends(treq, r)
  <2>1. overlap
    BY <1>1, <1>3, OnlyOne
  <2>. QED  BY <1>2, <2>1 DEF HInv
<1>4. ASSUME NEW x \in Threads \ Made,
             thread' = [thread EXCEPT ![x] = NewThread(treq[r].on)],
             Goes(treq, r, [treq[r] EXCEPT !.new = x,
                                           !.at = IF treq[r].on = NoThread
                                                    THEN "greet" ELSE "link"])
      PROVE  HInv'
  <2>1. PICK q : q = [treq[r] EXCEPT !.new = x,
                                     !.at = IF treq[r].on = NoThread
                                              THEN "greet" ELSE "link"]
    OBVIOUS
  <2>2. /\ q \in ThreadRequests /\ q.on = treq[r].on
        /\ q.at = IF treq[r].on = NoThread THEN "greet" ELSE "link"
    <3>1. /\ q \in ThreadWork /\ q.on = treq[r].on
          /\ q.at = IF treq[r].on = NoThread THEN "greet" ELSE "link"
      BY <1>1, <2>1 DEF ThreadWork, ThreadSteps
    <3>. QED  BY <3>1, Shapes
  <2>3. Goes(treq, r, q)
    BY <1>4, <2>1
  <2>4. /\ thread'[x].active
        /\ \A t \in Threads \ {x} : thread'[t] = thread[t]
    BY <1>4 DEF TInv, TypeOKThreads, NewThread
  <2>5. ~overlap /\ ~faults =>
          \A t \in Threads : thread'[t].made => \/ thread'[t].active
                                               \/ thread'[t].replacedBy # NoThread
                                               \/ Carries(q, t)
    <3> SUFFICES ASSUME ~overlap, ~faults, NEW t \in Threads \ {x}, thread'[t].made
                 PROVE  \/ thread'[t].active
                        \/ thread'[t].replacedBy # NoThread
                        \/ Carries(q, t)
      BY <2>4
    <3>1. thread'[t] = thread[t] /\ t \in Made
      BY <2>4 DEF Made
    <3>2. \/ thread[t].active
          \/ thread[t].replacedBy # NoThread
          \/ Carries(treq[r], t)
      BY <1>1, <3>1, OnlyOne
    <3>3. Carries(treq[r], t) => Carries(q, t)
      BY <2>2, ThreadsAssumption DEF Carries, NoThread
    <3>. QED  BY <3>1, <3>2, <3>3
  <2>. QED  BY <1>1, <1>2, <2>2, <2>3, <2>5, OneMoves
<1>. QED  BY <1>3, <1>4 DEF Open

(* The old thread names the new one.                                       *)
LEMMA LinkCarries ==
    ASSUME TInv, HInv, NEW r \in Requests, Link(r)
    PROVE  HInv'
<1>1. treq[r].at = "link" /\ treq[r] \in ThreadWork /\ Fits(treq[r]) /\ treq[r] # Idle
  <2>1. treq[r].at = "link"
    BY DEF Link
  <2>. QED  BY <2>1, Stands DEF Idle
<1>2. /\ treq[r].on \in Threads /\ thread[treq[r].on].made
      /\ treq[r].new \in Threads
  BY <1>1 DEF Fits
<1>3. thread[treq[r].on] \in StoredThreads
  BY <1>2, Shapes DEF TInv, TypeOKThreads
<1>4. /\ overlap' = overlap /\ faults' = faults
      /\ thread'[treq[r].on].replacedBy = treq[r].new
      /\ \A t \in Threads \ {treq[r].on} : thread'[t] = thread[t]
  <2>1. thread' = [thread EXCEPT ![treq[r].on].replacedBy = treq[r].new]
    BY DEF Link
  <2>2. /\ thread'[treq[r].on] = [thread[treq[r].on] EXCEPT !.replacedBy = treq[r].new]
        /\ \A t \in Threads \ {treq[r].on} : thread'[t] = thread[t]
    BY <1>2, <2>1 DEF TInv, TypeOKThreads
  <2>3. overlap' = overlap /\ faults' = faults
    BY DEF Link
  <2>. QED  BY <1>3, <2>2, <2>3 DEF StoredThreads
<1>5. PICK q : q = [treq[r] EXCEPT !.at = IF treq[r].op = "create"
                                            THEN "greet" ELSE "tell old"]
  OBVIOUS
<1>6. q \in ThreadRequests /\ q.at \in {"greet", "tell old"}
  <2>1. q \in ThreadWork /\ q.at \in {"greet", "tell old"}
    BY <1>1, <1>5 DEF ThreadWork, ThreadSteps
  <2>. QED  BY <2>1, Shapes
<1>7. Goes(treq, r, q)
  BY <1>5 DEF Link
<1>8. ~overlap /\ ~faults =>
         \A t \in Threads : thread'[t].made => \/ thread'[t].active
                                              \/ thread'[t].replacedBy # NoThread
                                              \/ Carries(q, t)
  <2> SUFFICES ASSUME ~overlap, ~faults, NEW t \in Threads, thread'[t].made
               PROVE  \/ thread'[t].active
                      \/ thread'[t].replacedBy # NoThread
    OBVIOUS
  <2>1. CASE t = treq[r].on
    BY <1>2, <1>4, <2>1, ThreadsAssumption DEF NoThread
  <2>2. CASE t # treq[r].on
    BY <1>1, <1>4, <2>2, OnlyOne DEF Made, Carries
  <2>. QED  BY <2>1, <2>2
<1>. QED  BY <1>1, <1>4, <1>6, <1>7, <1>8, OneMoves

LEMMA RaisesCarry ==
    ASSUME TInv, HInv, NEW r \in Requests, ThreadRaises(r)
    PROVE  HInv'
<1>1. /\ faults /\ Goes(treq, r, Idle) /\ thread' = thread /\ faults' = faults
      /\ overlap' = overlap /\ treq[r] # Idle
  BY DEF ThreadRaises, Raises, Ends
<1>. QED  BY <1>1, IdleFits, OneKeeps

LEMMA HInvKept == TInv /\ HInv /\ [ThreadsNext]_tvars => HInv'
<1> SUFFICES ASSUME TInv, HInv, [ThreadsNext]_tvars PROVE HInv'
  OBVIOUS
<1>1. CASE UNCHANGED tvars
  <2>1. /\ thread' = thread /\ faults' = faults /\ treq' = treq
        /\ overlap' = overlap
    BY <1>1 DEF tvars
  <2>. QED  BY <2>1 DEF HInv, Alone, Ready, Active, Carried, Made, Carries
<1>2. ASSUME NEW r \in Requests, ThreadStep(r) PROVE HInv'
  <2>1. ASSUME NEW u \in Users, NEW t \in Threads,
               \/ CloseConversation(r, u, t) \/ ReopenConversation(r, u, t)
               \/ RequestReopen(r, u, t)     \/ RespondReopen(r, u, t)
               \/ RequestNewContact(r, u, t) \/ RespondNewContact(r, u, t)
               \/ AddUserMessage(r, u, t)
        PROVE  HInv'
    <3>1. \/ \E op \in Tells : ReadThread(r, op, u, t, "store")
          \/ ReadThread(r, "accept contact", u, t, "archive") /\ thread[t].active
          \/ ReadThread(r, "accept reopen", u, t, "accept reopen")
      BY <2>1 DEF CloseConversation, ReopenConversation, RequestReopen,
                  RespondReopen, RequestNewContact, RespondNewContact,
                  AddUserMessage, MayReopen, Waiting, Tells
    <3>2. "accept contact" \in Tells
      BY DEF Tells
    <3>. QED  BY <3>1, <3>2, ReadsCarry
  <2>. QED  BY <1>2, <2>1, StoreCarries, ArchiveCarries, AcceptReopenCarries,
               TellsCarry, FindThreadCarries, LinkCarries, OpenCarries,
               RaisesCarry DEF ThreadStep
<1>. QED  BY <1>1, <1>2 DEF ThreadsNext

LEMMA HInvHolds == ThreadsSpec => []HInv
<1>1. ThreadsInit => HInv
  <2> SUFFICES ASSUME ThreadsInit PROVE HInv
    OBVIOUS
  <2>1. /\ \A r \in Requests : treq[r] = Idle
        /\ \A t \in Threads : thread[t] = Absent
    BY DEF ThreadsInit
  <2>2. Idle.at = "idle" /\ ~Absent.made
    BY DEF Idle, Absent
  <2>. QED  BY <2>1, <2>2 DEF HInv, Alone, Ready, Carried, Made
<1>. QED  BY <1>1, HInvKept, TInvHolds, PTL DEF ThreadsSpec

-----------------------------------------------------------------------------
(* The answers, one request at a time                                      *)

(* A thread that is not closed is active, and nobody waits on it; nobody   *)
(* waits for his own answer.                                               *)
Tidy(t) ==
    LET d == thread[t] IN
    /\ d.closedBy = Nobody => d.active /\ d.reopen = Nobody
                                       /\ d.contact = Nobody
    /\ d.reopen # Nobody => d.reopen # d.closedBy
    /\ d.contact # Nobody => d.contact # d.closedBy

(* What a message that tells of op says of thread t is so.                 *)
Truly(op, t) ==
    LET d == thread[t] IN
    /\ op \in {"close", "reject reopen", "reject contact"} => Closed(t)
    /\ op \in {"reopen", "say", "nothing"} => ~Closed(t)
    /\ op = "ask reopen"     => d.reopen # Nobody
    /\ op = "ask contact"    => d.contact # Nobody
    /\ op = "reject reopen"  => d.reopen = Nobody
    /\ op = "reject contact" => d.contact = Nobody
    /\ op = "accept contact" => ~Closed(t) \/ ~d.active

(* The tests that a handler of user u made of thread t before it stores.   *)
Tested(op, u, t) ==
    /\ op \in {"close", "say"} => ~Closed(t)
    /\ op \notin {"close", "say"} => Waiting(t)
    /\ op \in {"ask reopen", "ask contact"} => thread[t].closedBy # u

(* What the only request knows of the threads it is about.                 *)
Sure(q) ==
    /\ q.at = "store" => Tested(q.op, q.who, q.on)
    /\ q.at = "archive" => Waiting(q.on)
    /\ q.at = "tell" => q.on \in Made /\ Truly(q.op, q.on)
    /\ q.at \in {"open", "link", "tell old"} /\ q.op = "accept contact" =>
           q.on \in Made /\ ~thread[q.on].active
    /\ q.at \in {"link", "greet", "tell old", "tell new"} =>
           q.new \in Made /\ ~Closed(q.new)

(* q has changed t and is to tell of it.                                   *)
Owes(q, t) ==
    /\ \/ q.at = "tell"
       \/ q.at \in {"open", "link", "tell old"} /\ q.op = "accept contact"
    /\ q.on = t

Good(q) ==
    /\ Sure(q)
    /\ \A t \in Made : Tidy(t)
    /\ \A t \in Threads \ Made : told[t] = "nothing"
    /\ ~faults => \A t \in Made : Truly(told[t], t) \/ Owes(q, t)

RInv ==
    ~overlap => /\ AllIdle(treq) => Good(Idle)
                /\ \A r \in Requests : treq[r] # Idle => Good(treq[r])

LEMMA IdleGood ==
    Idle.at = "idle" /\ Sure(Idle) /\ \A t : ~Owes(Idle, t)
<1>1. Idle.at = "idle"
  BY DEF Idle
<1>. QED  BY <1>1 DEF Sure, Owes

(* A step of the only request, which goes on to q.                         *)
LEMMA OneAnswers ==
    ASSUME TInv, HInv, RInv, NEW r \in Requests, NEW q, Goes(treq, r, q),
           overlap' = overlap, ~overlap => treq[r] # Idle \/ AllIdle(treq),
           ~overlap /\ Good(treq[r]) => Good(q)'
    PROVE  RInv'
<1> SUFFICES ASSUME ~overlap
             PROVE  /\ AllIdle(treq)' => Good(Idle)'
                    /\ \A s \in Requests : treq'[s] # Idle => Good(treq[s])'
  BY DEF RInv
<1>1. treq'[r] = q /\ \A s \in Requests \ {r} : treq'[s] = treq[s]
  BY DEF TInv, TypeOKThreads, Goes
<1>2. \A s \in Requests \ {r} : treq[s] = Idle
  BY OnlyOne
<1>3. Good(treq[r])
  <2>1. CASE treq[r] # Idle
    BY <2>1 DEF RInv
  <2>2. CASE AllIdle(treq)
    <3>1. treq[r] = Idle /\ Good(Idle)
      BY <2>2 DEF RInv, AllIdle
    <3>. QED  BY <3>1
  <2>. QED  BY <2>1, <2>2
<1>4. Good(q)'
  BY <1>3
<1>5. AllIdle(treq)' => Good(Idle)'
  <2>1. AllIdle(treq)' => q = Idle
    BY <1>1 DEF AllIdle
  <2>. QED  BY <1>4, <2>1 DEF Good, Sure, Owes, Tested
<1>6. ASSUME NEW s \in Requests, treq'[s] # Idle
      PROVE  Good(treq[s])'
  <2>1. treq'[s] = q
    BY <1>1, <1>2, <1>6
  <2>. QED  BY <1>4, <2>1 DEF Good, Sure, Owes, Tested
<1>. QED  BY <1>5, <1>6

(* A step that changes nothing but the request.                            *)
LEMMA SameGood ==
    ASSUME NEW p, NEW q, Good(p), Sure(q),
           thread' = thread, told' = told, faults' = faults,
           faults \/ \A t : Owes(p, t) => Owes(q, t)
    PROVE  Good(q)'
<1>1. Sure(q)'
  BY DEF Sure, Tested, Waiting, Closed, Made, Truly
<1>2. Made' = Made /\ \A t \in Threads : Tidy(t)' = Tidy(t)
  BY DEF Made, Tidy
<1>3. \A t \in Threads : Truly(told[t], t)' = Truly(told[t], t)
  BY DEF Truly, Closed
<1>4. Made \subseteq Threads
  BY DEF Made
<1>5. \A t \in Made' : Tidy(t)'
  BY <1>2, <1>4 DEF Good
<1>6. \A t \in Threads \ Made' : told'[t] = "nothing"
  BY <1>2 DEF Good
<1>7. ASSUME ~faults', NEW t \in Made' PROVE Truly(told[t], t)' \/ Owes(q, t)
  BY <1>2, <1>3, <1>4, <1>7 DEF Good
<1>. QED  BY <1>1, <1>5, <1>6, <1>7 DEF Good, Owes

(* A message about thread x that is so.                                    *)
LEMMA SpokenGood ==
    ASSUME TInv, NEW p, NEW q, Good(p), Sure(q), thread' = thread,
           faults' = faults, NEW x \in Made, NEW op,
           told' = [told EXCEPT ![x] = op], Truly(op, x),
           \A t \in Threads \ {x} : Owes(p, t) => Owes(q, t)
    PROVE  Good(q)'
<1>1. Sure(q)'
  BY DEF Sure, Tested, Waiting, Closed, Made, Truly
<1>2. Made' = Made /\ Made \subseteq Threads
      /\ \A t \in Threads : Tidy(t)' = Tidy(t)
  BY DEF Made, Tidy
<1>3. told'[x] = op /\ \A t \in Threads \ {x} : told'[t] = told[t]
  BY DEF TInv, TypeOKThreads, Made
<1>4. Truly(told[x], x)'
  BY <1>3 DEF Truly, Closed
<1>5. \A t \in Threads \ {x} : Truly(told[t], t)' = Truly(told[t], t)
  BY <1>3 DEF Truly, Closed
<1>6. \A t \in Made' : Tidy(t)'
  BY <1>2 DEF Good
<1>7. \A t \in Threads \ Made' : told'[t] = "nothing"
  BY <1>2, <1>3 DEF Good
<1>8. ASSUME ~faults', NEW t \in Made' PROVE Truly(told[t], t)' \/ Owes(q, t)
  <2>1. CASE t = x
    BY <1>4, <2>1
  <2>2. CASE t # x
    <3>1. t \in Threads \ {x} /\ t \in Made /\ ~faults
      BY <1>2, <1>8, <2>2
    <3>2. Truly(told[t], t) \/ Owes(p, t)
      BY <3>1 DEF Good
    <3>. QED  BY <1>5, <3>1, <3>2
  <2>. QED  BY <2>1, <2>2
<1>. QED  BY <1>1, <1>6, <1>7, <1>8 DEF Good, Owes

(* A stored thread that changes.                                           *)
LEMMA StoredGood ==
    ASSUME TInv, NEW p, NEW q, Good(p), Sure(q)',
           NEW x \in Made, NEW e \in StoredThreads,
           thread' = [thread EXCEPT ![x] = e], told' = told, faults' = faults,
           Tidy(x)', ~faults => Truly(told[x], x)' \/ Owes(q, x),
           \A t \in Threads \ {x} : Owes(p, t) => Owes(q, t)
    PROVE  Good(q)'
<1>1. /\ x \in Threads /\ thread'[x] = e /\ e.made /\ thread[x].made
      /\ \A t \in Threads \ {x} : thread'[t] = thread[t]
  BY Shapes DEF TInv, TypeOKThreads, Made
<1>2. Made' = Made /\ Made \subseteq Threads
  BY <1>1 DEF Made
<1>3. \A t \in Threads \ {x} : /\ Tidy(t)' = Tidy(t)
                               /\ Truly(told[t], t)' = Truly(told[t], t)
  BY <1>1 DEF Tidy, Truly, Closed
<1>4. \A t \in Made' : Tidy(t)'
  BY <1>2, <1>3 DEF Good
<1>5. \A t \in Threads \ Made' : told'[t] = "nothing"
  BY <1>2 DEF Good
<1>6. ASSUME ~faults', NEW t \in Made' PROVE Truly(told[t], t)' \/ Owes(q, t)
  <2>1. CASE t = x
    BY <1>6, <2>1
  <2>2. CASE t # x
    <3>1. t \in Threads \ {x} /\ t \in Made /\ ~faults
      BY <1>2, <1>6, <2>2
    <3>2. Truly(told[t], t) \/ Owes(p, t)
      BY <3>1 DEF Good
    <3>. QED  BY <1>3, <3>1, <3>2
  <2>. QED  BY <2>1, <2>2
<1>. QED  BY <1>4, <1>5, <1>6 DEF Good, Owes

(* A request starts, with the tests that it makes.                         *)
LEMMA StartAnswers ==
    ASSUME TInv, HInv, RInv, NEW r \in Requests, StartThread(r),
           NEW q, Goes(treq, r, q), Sure(q),
           UNCHANGED <<overlap, faults, thread, told>>
    PROVE  RInv'
<1>1. MayStart(treq, r)
  BY DEF StartThread
<1>2. treq[r] = Idle /\ (overlap \/ AllIdle(treq))
  BY <1>1, Zenon DEF MayStart
<1>3. Good(Idle) => Good(q)'
  BY IdleGood, SameGood
<1>. QED  BY <1>2, <1>3, OneAnswers

LEMMA ReadsAnswer ==
    ASSUME TInv, HInv, RInv, NEW r \in Requests, NEW op, NEW u, NEW t,
           NEW at \in {"store", "archive", "accept reopen"},
           ReadThread(r, op, u, t, at),
           at = "store" => Tested(op, u, t), at = "archive" => Waiting(t)
    PROVE  RInv'
<1>1. PICK q : q = [at |-> at, op |-> op, who |-> u, on |-> t, new |-> NoThread]
  OBVIOUS
<1>2. /\ StartThread(r) /\ Goes(treq, r, q)
      /\ UNCHANGED <<overlap, faults, thread, told>>
  BY <1>1 DEF ReadThread
<1>3. Sure(q)
  BY <1>1 DEF Sure
<1>. QED  BY <1>2, <1>3, StartAnswers

LEMMA HandlersAnswer ==
    ASSUME TInv, HInv, RInv, NEW r \in Requests, NEW u \in Users, NEW t \in Threads,
           \/ CloseConversation(r, u, t) \/ ReopenConversation(r, u, t)
           \/ RequestReopen(r, u, t)     \/ RespondReopen(r, u, t)
           \/ RequestNewContact(r, u, t) \/ RespondNewContact(r, u, t)
           \/ AddUserMessage(r, u, t)
    PROVE  RInv'
<1>1. \/ \E op : ReadThread(r, op, u, t, "store") /\ Tested(op, u, t)
      \/ \E op : ReadThread(r, op, u, t, "archive") /\ Waiting(t)
      \/ \E op : ReadThread(r, op, u, t, "accept reopen")
  <2>1. CloseConversation(r, u, t) =>
            ReadThread(r, "close", u, t, "store") /\ Tested("close", u, t)
    BY DEF CloseConversation, Tested
  <2>2. ReopenConversation(r, u, t) =>
            ReadThread(r, "reopen", u, t, "store") /\ Tested("reopen", u, t)
    BY DEF ReopenConversation, MayReopen, Tested
  <2>3. RequestReopen(r, u, t) =>
            ReadThread(r, "ask reopen", u, t, "store") /\ Tested("ask reopen", u, t)
    BY DEF RequestReopen, MayAsk, Tested
  <2>4. RespondReopen(r, u, t) =>
            \/ /\ ReadThread(r, "reject reopen", u, t, "store")
               /\ Tested("reject reopen", u, t)
            \/ ReadThread(r, "accept reopen", u, t, "accept reopen")
    BY DEF RespondReopen, MayReopen, Tested
  <2>5. RequestNewContact(r, u, t) =>
            ReadThread(r, "ask contact", u, t, "store") /\ Tested("ask contact", u, t)
    BY DEF RequestNewContact, MayAsk, Tested
  <2>6. RespondNewContact(r, u, t) =>
            \/ /\ ReadThread(r, "reject contact", u, t, "store")
               /\ Tested("reject contact", u, t)
            \/ ReadThread(r, "accept contact", u, t, "archive") /\ Waiting(t)
    BY DEF RespondNewContact, MayReopen, Tested
  <2>7. AddUserMessage(r, u, t) =>
            ReadThread(r, "say", u, t, "store") /\ Tested("say", u, t)
    BY DEF AddUserMessage, Tested
  <2>. QED  BY <2>1, <2>2, <2>3, <2>4, <2>5, <2>6, <2>7
<1>. QED  BY <1>1, ReadsAnswer

LEMMA FindThreadAnswers ==
    ASSUME TInv, HInv, RInv, NEW r \in Requests, FindThread(r)
    PROVE  RInv'
<1>1. PICK a \in {"open", "archive"}, x \in Threads \cup {NoThread} :
        /\ Goes(treq, r, [at |-> a, op |-> "create", who |-> "interested",
                          on |-> x, new |-> NoThread])
        /\ a = "archive" => Waiting(x)
  BY DEF FindThread, Active, Waiting
<1>2. PICK q : q = [at |-> a, op |-> "create", who |-> "interested", on |-> x,
                    new |-> NoThread]
  OBVIOUS
<1>3. Sure(q)
  BY <1>1, <1>2 DEF Sure
<1>4. /\ StartThread(r) /\ Goes(treq, r, q)
      /\ UNCHANGED <<overlap, faults, thread, told>>
  BY <1>1, <1>2 DEF FindThread
<1>. QED  BY <1>3, <1>4, StartAnswers

LEMMA AcceptReopenAnswers ==
    ASSUME TInv, HInv, RInv, NEW r \in Requests, AcceptReopen(r)
    PROVE  RInv'
<1>1. /\ treq[r].at = "accept reopen" /\ treq[r] \in ThreadWork
      /\ thread' = thread /\ overlap' = overlap /\ faults' = faults /\ told' = told
  <2>1. treq[r].at = "accept reopen"
    BY DEF AcceptReopen
  <2>. QED  BY <2>1, Stands DEF AcceptReopen
<1>2. PICK q : /\ \/ q = Idle
                  \/ /\ q = [treq[r] EXCEPT !.at = "store", !.op = "reopen"]
                     /\ Waiting(treq[r].on)
               /\ Goes(treq, r, q)
  BY DEF AcceptReopen, Ends, MayReopen
<1>3. Sure(q)
  <2>1. CASE q = Idle
    BY <2>1, IdleGood
  <2>2. CASE /\ q = [treq[r] EXCEPT !.at = "store", !.op = "reopen"]
             /\ Waiting(treq[r].on)
    <3>1. q.at = "store" /\ q.op = "reopen" /\ q.on = treq[r].on
      BY <1>1, <2>2 DEF ThreadWork
    <3>. QED  BY <2>2, <3>1 DEF Sure, Tested
  <2>. QED  BY <1>2, <2>1, <2>2
<1>4. PICK p : p = treq[r]
  OBVIOUS
<1>5. p # Idle /\ \A t : ~Owes(p, t)
  BY <1>1, <1>4, IdleGood DEF Owes
<1>6. Good(p) => Good(q)'
  BY <1>1, <1>3, <1>5, SameGood
<1>. QED  BY <1>1, <1>2, <1>4, <1>5, <1>6, OneAnswers

(* The fields that an operation sets, in a thread d that becomes e.        *)
Sets(op, d, u, e) ==
    /\ e.made /\ u # Nobody
    /\ e.active = IF op \in Archives THEN FALSE ELSE d.active
    /\ e.closedBy = IF op = "close" THEN u
                    ELSE IF op = "reopen" THEN Nobody ELSE d.closedBy
    /\ e.reopen = IF op = "ask reopen" THEN u
                  ELSE IF op \in {"close", "reopen", "reject reopen"}
                    THEN Nobody ELSE d.reopen
    /\ e.contact = IF op = "ask contact" THEN u
                   ELSE IF op \in {"close", "reopen", "reject contact",
                                   "accept contact"}
                     THEN Nobody ELSE d.contact

LEMMA UpdatedFields ==
    ASSUME NEW d \in StoredThreads, NEW u \in Users, NEW op
    PROVE  Sets(op, d, u, Updated(op, d, u))
BY DEF Sets, Updated, StoredThreads, Archives, Users, Nobody

(* The stored fields are what the message that follows tells.              *)
LEMMA StoreAnswers ==
    ASSUME TInv, HInv, RInv, NEW r \in Requests, Store(r)
    PROVE  RInv'
<1>1. PICK p : p = treq[r]
  OBVIOUS
<1>2. p.at = "store" /\ p \in ThreadWork /\ Fits(p)
  <2>1. treq[r].at = "store"
    BY DEF Store
  <2>. QED  BY <1>1, <2>1, Stands
<1>3. PICK x, u, op : x = p.on /\ u = p.who /\ op = p.op
  OBVIOUS
<1>4. /\ x \in Threads /\ x \in Made /\ thread[x].made /\ op \in Stores
      /\ u \in Users
  BY <1>2, <1>3 DEF Fits, ThreadWork, Made
<1>5. thread[x] \in StoredThreads
  BY <1>4, Shapes DEF TInv, TypeOKThreads
<1>6. PICK e : e = Updated(op, thread[x], u)
  OBVIOUS
<1>7. e \in StoredThreads
  BY <1>4, <1>5, <1>6, UpdatedDoc
<1>8. PICK q : q = [p EXCEPT !.at = "tell"]
  OBVIOUS
<1>9. q.at = "tell" /\ q.on = x /\ q.op = op
  BY <1>2, <1>3, <1>8 DEF ThreadWork
<1>10. /\ Goes(treq, r, q) /\ thread' = [thread EXCEPT ![x] = e]
       /\ told' = told /\ overlap' = overlap /\ faults' = faults
  BY <1>1, <1>3, <1>6, <1>8 DEF Store
<1>11. thread'[x] = e
  BY <1>4, <1>10 DEF TInv, TypeOKThreads
<1>12. Good(p) => Good(q)'
  <2> SUFFICES ASSUME Good(p) PROVE Good(q)'
    OBVIOUS
  <2>1. Tested(op, u, x) /\ Tidy(x)
    BY <1>2, <1>3, <1>4 DEF Good, Sure
  <2>2. /\ e.active = thread[x].active
        /\ e.closedBy = IF op = "close" THEN u
                        ELSE IF op = "reopen" THEN Nobody ELSE thread[x].closedBy
        /\ e.reopen = IF op = "ask reopen" THEN u
                      ELSE IF op \in {"close", "reopen", "reject reopen"}
                        THEN Nobody ELSE thread[x].reopen
        /\ e.contact = IF op = "ask contact" THEN u
                       ELSE IF op \in {"close", "reopen", "reject contact"}
                         THEN Nobody ELSE thread[x].contact
        /\ u # Nobody /\ e.made
    <3>1. op \notin Archives /\ op # "accept contact"
      BY <1>4 DEF Stores, Archives, Tells
    <3>2. Sets(op, thread[x], u, e)
      BY <1>4, <1>5, <1>6, UpdatedFields
    <3>3. op \in {"close", "reopen", "reject contact", "accept contact"}
            <=> op \in {"close", "reopen", "reject contact"}
      BY <3>1
    <3>. QED  BY <3>1, <3>2, <3>3 DEF Sets
  <2>3. Tidy(x)'
    BY <1>11, <2>1, <2>2 DEF Tidy, Tested, Waiting, Closed
  <2>4. Truly(op, x)'
    <3>1. op \in {"close", "reopen", "ask reopen", "reject reopen", "ask contact",
                  "reject contact", "say"}
      BY <1>4 DEF Stores, Tells
    <3>2. CASE op \in {"close", "say"}
      BY <1>11, <2>1, <2>2, <3>2 DEF Truly, Tested, Closed
    <3>3. CASE op \notin {"close", "say"}
      <4>1. thread[x].closedBy # Nobody
        BY <2>1, <3>3 DEF Tested, Waiting, Closed
      <4>. QED  BY <1>11, <2>2, <3>1, <3>3, <4>1 DEF Truly, Closed
    <3>. QED  BY <3>2, <3>3
  <2>5. Sure(q)'
    BY <1>4, <1>9, <1>11, <2>2, <2>4 DEF Sure, Made
  <2>6. Owes(q, x) /\ \A t : ~Owes(p, t)
    BY <1>2, <1>9 DEF Owes
  <2>. QED  BY <1>4, <1>7, <1>10, <2>3, <2>5, <2>6, StoredGood
<1>13. treq[r] # Idle
  BY <1>1, <1>2, IdleGood
<1>. QED  BY <1>1, <1>10, <1>12, <1>13, OneAnswers

(* An archived thread stays closed.                                        *)
LEMMA ArchiveAnswers ==
    ASSUME TInv, HInv, RInv, NEW r \in Requests, Archive(r)
    PROVE  RInv'
<1>1. PICK p : p = treq[r]
  OBVIOUS
<1>2. p.at = "archive" /\ p \in ThreadWork /\ Fits(p)
  <2>1. treq[r].at = "archive"
    BY DEF Archive
  <2>. QED  BY <1>1, <2>1, Stands
<1>3. PICK x, u, op : x = p.on /\ u = p.who /\ op = p.op
  OBVIOUS
<1>4. /\ x \in Threads /\ x \in Made /\ thread[x].made /\ op \in Archives
      /\ u \in Users
  BY <1>2, <1>3 DEF Fits, ThreadWork, Made
<1>5. thread[x] \in StoredThreads
  BY <1>4, Shapes DEF TInv, TypeOKThreads
<1>6. PICK e : e = Updated(op, thread[x], u)
  OBVIOUS
<1>7. e \in StoredThreads
  BY <1>4, <1>5, <1>6, UpdatedDoc
<1>8. PICK q : q = [p EXCEPT !.at = "open"]
  OBVIOUS
<1>9. q.at = "open" /\ q.on = x /\ q.op = op
  BY <1>2, <1>3, <1>8 DEF ThreadWork
<1>10. /\ Goes(treq, r, q) /\ thread' = [thread EXCEPT ![x] = e]
       /\ told' = told /\ overlap' = overlap /\ faults' = faults
  BY <1>1, <1>3, <1>6, <1>8 DEF Archive
<1>11. thread'[x] = e
  BY <1>4, <1>10 DEF TInv, TypeOKThreads
<1>12. Good(p) => Good(q)'
  <2> SUFFICES ASSUME Good(p) PROVE Good(q)'
    OBVIOUS
  <2>1. Waiting(x) /\ Tidy(x)
    BY <1>2, <1>3, <1>4 DEF Good, Sure
  <2>2. /\ ~e.active /\ e.closedBy = thread[x].closedBy
        /\ e.reopen = thread[x].reopen
        /\ e.contact = IF op = "accept contact" THEN Nobody ELSE thread[x].contact
        /\ e.made
    <3>1. op \in {"accept contact", "create"}
      BY <1>4 DEF Archives
    <3>2. Sets(op, thread[x], u, e)
      BY <1>4, <1>5, <1>6, UpdatedFields
    <3>. QED  BY <3>1, <3>2 DEF Sets, Archives
  <2>3. Tidy(x)'
    BY <1>11, <2>1, <2>2 DEF Tidy, Waiting, Closed
  <2>4. Sure(q)'
    BY <1>4, <1>9, <1>11, <2>2 DEF Sure, Made
  <2>5. ~Owes(p, x) /\ \A t : ~Owes(p, t)
    BY <1>2 DEF Owes
  <2>6. op = "accept contact" => Owes(q, x)
    BY <1>9 DEF Owes
  <2>7. ~faults /\ op = "create" => Truly(told[x], x)'
    <3>1. ~faults => Truly(told[x], x)
      BY <1>4, <2>5 DEF Good
    <3>. QED  BY <1>10, <1>11, <2>2, <3>1 DEF Truly, Closed
  <2>8. ~faults => Truly(told[x], x)' \/ Owes(q, x)
    BY <1>4, <2>6, <2>7 DEF Archives
  <2>. QED  BY <1>4, <1>7, <1>10, <2>3, <2>4, <2>5, <2>8, StoredGood
<1>13. treq[r] # Idle
  BY <1>1, <1>2, IdleGood
<1>. QED  BY <1>1, <1>10, <1>12, <1>13, OneAnswers

(* The old thread names the new one.                                       *)
LEMMA LinkAnswers ==
    ASSUME TInv, HInv, RInv, NEW r \in Requests, Link(r)
    PROVE  RInv'
<1>1. PICK p : p = treq[r]
  OBVIOUS
<1>2. p.at = "link" /\ p \in ThreadWork /\ Fits(p)
  <2>1. treq[r].at = "link"
    BY DEF Link
  <2>. QED  BY <1>1, <2>1, Stands
<1>3. PICK x, n : x = p.on /\ n = p.new
  OBVIOUS
<1>4. /\ x \in Threads /\ x \in Made /\ thread[x].made /\ n \in Threads
      /\ p.op \in Archives
  BY <1>2, <1>3 DEF Fits, Made
<1>5. thread[x] \in StoredThreads
  BY <1>4, Shapes DEF TInv, TypeOKThreads
<1>6. PICK e : e = [thread[x] EXCEPT !.replacedBy = n]
  OBVIOUS
<1>7. /\ e \in StoredThreads /\ e.active = thread[x].active
      /\ e.closedBy = thread[x].closedBy /\ e.reopen = thread[x].reopen
      /\ e.contact = thread[x].contact /\ e.made
  BY <1>4, <1>5, <1>6 DEF StoredThreads
<1>8. PICK q : q = [p EXCEPT !.at = IF p.op = "create" THEN "greet" ELSE "tell old"]
  OBVIOUS
<1>9. /\ q.at = IF p.op = "create" THEN "greet" ELSE "tell old"
      /\ q.on = x /\ q.op = p.op /\ q.new = n
  BY <1>2, <1>3, <1>8 DEF ThreadWork
<1>10. /\ Goes(treq, r, q) /\ thread' = [thread EXCEPT ![x] = e]
       /\ told' = told /\ overlap' = overlap /\ faults' = faults
  <2>1. thread' = [thread EXCEPT ![x].replacedBy = n]
    BY <1>1, <1>3 DEF Link
  <2>2. thread' = [thread EXCEPT ![x] = e]
    BY <1>6, <2>1
  <2>. QED  BY <1>1, <1>8, <2>2 DEF Link
<1>11. thread'[x] = e /\ \A t \in Threads \ {x} : thread'[t] = thread[t]
  BY <1>4, <1>10 DEF TInv, TypeOKThreads
<1>12. Good(p) => Good(q)'
  <2> SUFFICES ASSUME Good(p) PROVE Good(q)'
    OBVIOUS
  <2>1. Tidy(x) /\ n \in Made /\ ~Closed(n)
        /\ (p.op = "accept contact" => ~thread[x].active)
    BY <1>2, <1>3, <1>4 DEF Good, Sure
  <2>2. Tidy(x)'
    BY <1>7, <1>11, <2>1 DEF Tidy
  <2>3. n \in Made' /\ ~Closed(n)' /\ x \in Made'
    BY <1>4, <1>7, <1>11, <2>1 DEF Made, Closed
  <2>4. Sure(q)'
    BY <1>4, <1>7, <1>9, <1>11, <2>1, <2>3 DEF Sure, Archives
  <2>5. \A t : Owes(p, t) => t = x
    BY <1>3 DEF Owes
  <2>6. Owes(p, x) => Owes(q, x)
    BY <1>2, <1>9 DEF Owes
  <2>7. Truly(told[x], x) => Truly(told[x], x)'
    BY <1>7, <1>10, <1>11 DEF Truly, Closed
  <2>8. ~faults => Truly(told[x], x)' \/ Owes(q, x)
    BY <1>4, <2>6, <2>7 DEF Good
  <2>. QED  BY <1>4, <1>7, <1>10, <2>2, <2>4, <2>5, <2>8, StoredGood
<1>13. treq[r] # Idle
  BY <1>1, <1>2, IdleGood
<1>. QED  BY <1>1, <1>10, <1>12, <1>13, OneAnswers

(* A new thread is open, and nothing was told of it.                       *)
LEMMA OpenAnswers ==
    ASSUME TInv, HInv, RInv, NEW r \in Requests, Open(r)
    PROVE  RInv'
<1>1. treq[r].at = "open" /\ treq[r] \in ThreadWork /\ treq[r] # Idle
      /\ Fits(treq[r])
  <2>1. treq[r].at = "open"
    BY DEF Open
  <2>. QED  BY <2>1, Stands, IdleGood
<1>2. overlap' = overlap /\ faults' = faults /\ told' = told
  BY DEF Open
<1>3. CASE (\E t \in Threads : Active(t)) /\ Ends(treq, r)
  <2>1. overlap
    BY <1>1, <1>3, OnlyOne
  <2>. QED  BY <1>2, <2>1 DEF RInv
<1>4. ASSUME NEW x \in Threads \ Made,
             thread' = [thread EXCEPT ![x] = NewThread(treq[r].on)],
             Goes(treq, r, [treq[r] EXCEPT !.new = x,
                                           !.at = IF treq[r].on = NoThread
                                                    THEN "greet" ELSE "link"])
      PROVE  RInv'
  <2>1. PICK p : p = treq[r]
    OBVIOUS
  <2>2. PICK q : q = [p EXCEPT !.new = x,
                               !.at = IF p.on = NoThread THEN "greet" ELSE "link"]
    OBVIOUS
  <2>3. /\ q.on = p.on /\ q.op = p.op /\ q.new = x
        /\ q.at = IF p.on = NoThread THEN "greet" ELSE "link"
    BY <1>1, <2>1, <2>2 DEF ThreadWork
  <2>4. Goes(treq, r, q)
    BY <1>4, <2>1, <2>2
  <2>5. /\ thread'[x].made /\ thread'[x].active /\ thread'[x].closedBy = Nobody
        /\ thread'[x].reopen = Nobody /\ thread'[x].contact = Nobody
        /\ \A t \in Threads \ {x} : thread'[t] = thread[t]
    BY <1>4 DEF TInv, TypeOKThreads, NewThread
  <2>6. Made' = Made \cup {x} /\ x \notin Made /\ Made \subseteq Threads
    BY <1>4, <2>5 DEF Made
  <2>7. Good(p) => Good(q)'
    <3> SUFFICES ASSUME Good(p) PROVE Good(q)'
      OBVIOUS
    <3>1. p.op = "accept contact" =>
              p.on \in Made /\ ~thread[p.on].active
      BY <1>1, <2>1 DEF Good, Sure
    <3>2. p.op = "accept contact" =>
              p.on # NoThread /\ p.on \in Made' /\ ~thread'[p.on].active
      BY <2>5, <2>6, <3>1, ThreadsAssumption DEF NoThread
    <3>3. Sure(q)'
      BY <2>3, <2>5, <2>6, <3>2 DEF Sure, Closed
    <3>4. \A t \in Made : Tidy(t)' = Tidy(t) /\ Truly(told[t], t)' = Truly(told[t], t)
      <4>1. \A t \in Made : thread'[t] = thread[t]
        BY <2>5, <2>6
      <4>. QED  BY <1>2, <4>1 DEF Tidy, Truly, Closed
    <3>5. Tidy(x)'
      BY <2>5 DEF Tidy, Nobody
    <3>6. \A t \in Made' : Tidy(t)'
      BY <2>6, <3>4, <3>5 DEF Good
    <3>7. told[x] = "nothing" /\ \A t \in Threads \ Made' : told'[t] = "nothing"
      BY <1>2, <1>4, <2>6 DEF Good
    <3>8. Truly(told[x], x)'
      BY <1>2, <2>5, <3>7 DEF Truly, Closed
    <3>9. \A t : Owes(p, t) => Owes(q, t)
      BY <1>1, <2>1, <2>3, <3>2 DEF Owes
    <3>10. ASSUME ~faults', NEW t \in Made' PROVE Truly(told[t], t)' \/ Owes(q, t)
      BY <1>2, <2>6, <3>4, <3>8, <3>9, <3>10 DEF Good
    <3>. QED  BY <3>3, <3>6, <3>7, <3>10 DEF Good, Owes
  <2>. QED  BY <1>1, <1>2, <2>1, <2>4, <2>7, OneAnswers
<1>. QED  BY <1>3, <1>4 DEF Open

(* Every message tells what has become of its thread.                      *)
LEMMA TellsAnswer ==
    ASSUME TInv, HInv, RInv, NEW r \in Requests,
           Tell(r) \/ Greet(r) \/ TellOld(r) \/ TellNew(r)
    PROVE  RInv'
<1>1. PICK p : p = treq[r]
  OBVIOUS
<1>2. /\ p.at \in {"tell", "greet", "tell old", "tell new"} /\ p \in ThreadWork
      /\ Fits(p)
  <2>1. treq[r].at \in {"tell", "greet", "tell old", "tell new"}
    BY DEF Tell, Greet, TellOld, TellNew
  <2>. QED  BY <1>1, <2>1, Stands
<1>3. thread' = thread /\ overlap' = overlap /\ faults' = faults
  BY DEF Tell, Greet, TellOld, TellNew
<1>4. PICK q : /\ q = IF p.at = "tell old" THEN [p EXCEPT !.at = "tell new"] ELSE Idle
               /\ Goes(treq, r, q)
  BY <1>1 DEF Tell, Greet, TellOld, TellNew, Ends
<1>5. Good(p) => Sure(q)
  <2>1. CASE p.at = "tell old"
    <3>1. q.at = "tell new" /\ q.new = p.new
      BY <1>2, <1>4, <2>1 DEF ThreadWork
    <3>. QED  BY <2>1, <3>1 DEF Good, Sure
  <2>2. CASE p.at # "tell old"
    BY <1>4, <2>2, IdleGood
  <2>. QED  BY <2>1, <2>2
<1>6. PICK x, op :
        /\ x = IF p.at \in {"tell", "tell old"} THEN p.on ELSE p.new
        /\ op = IF p.at = "greet" THEN "say" ELSE p.op
  OBVIOUS
<1>7. \/ told' = [told EXCEPT ![x] = op]
      \/ told' = told /\ p.at = "greet"
  BY <1>1, <1>6 DEF Tell, Greet, TellOld, TellNew
<1>8. Good(p) => Good(q)'
  <2> SUFFICES ASSUME Good(p) PROVE Good(q)'
    OBVIOUS
  <2>1. x \in Made /\ Truly(op, x)
    <3>1. CASE p.at = "tell"
      BY <1>6, <3>1 DEF Good, Sure
    <3>2. CASE p.at = "tell old"
      BY <1>2, <1>6, <3>2 DEF Good, Sure, Fits, Truly
    <3>3. CASE p.at = "greet"
      BY <1>6, <3>3 DEF Good, Sure, Truly
    <3>4. CASE p.at = "tell new"
      BY <1>2, <1>6, <3>4 DEF Good, Sure, Fits, Truly
    <3>. QED  BY <1>2, <3>1, <3>2, <3>3, <3>4
  <2>2. \A t : Owes(p, t) => t = x
    BY <1>2, <1>6 DEF Owes
  <2>3. CASE told' = [told EXCEPT ![x] = op]
    BY <1>3, <1>5, <2>1, <2>2, <2>3, SpokenGood
  <2>4. CASE told' = told /\ p.at = "greet"
    <3>1. \A t : ~Owes(p, t)
      BY <2>4 DEF Owes
    <3>. QED  BY <1>3, <1>5, <2>4, <3>1, SameGood
  <2>. QED  BY <1>7, <2>3, <2>4
<1>9. treq[r] # Idle
  BY <1>1, <1>2, IdleGood
<1>. QED  BY <1>1, <1>3, <1>4, <1>8, <1>9, OneAnswers

LEMMA RaisesAnswer ==
    ASSUME TInv, HInv, RInv, NEW r \in Requests, ThreadRaises(r)
    PROVE  RInv'
<1>1. /\ faults /\ Goes(treq, r, Idle) /\ thread' = thread /\ told' = told
      /\ overlap' = overlap /\ faults' = faults /\ treq[r] # Idle
  BY DEF ThreadRaises, Raises, Ends
<1>2. PICK p : p = treq[r]
  OBVIOUS
<1>3. Good(p) => Good(Idle)'
  BY <1>1, IdleGood, SameGood
<1>. QED  BY <1>1, <1>2, <1>3, OneAnswers

LEMMA RInvKept == TInv /\ HInv /\ RInv /\ [ThreadsNext]_tvars => RInv'
<1> SUFFICES ASSUME TInv, HInv, RInv, [ThreadsNext]_tvars PROVE RInv'
  OBVIOUS
<1>1. CASE UNCHANGED tvars
  <2>1. /\ thread' = thread /\ told' = told /\ treq' = treq
        /\ overlap' = overlap /\ faults' = faults
    BY <1>1 DEF tvars
  <2>2. \A q : Good(q) => Good(q)'
    <3>1. \A q : Good(q) => Sure(q)
      BY DEF Good
    <3>. QED  BY <2>1, <3>1, SameGood
  <2>3. \A r \in Requests : Good(treq[r]) => Good(treq[r])'
    <3> SUFFICES ASSUME NEW r \in Requests, Good(treq[r]) PROVE Good(treq[r])'
      OBVIOUS
    <3>1. PICK p : p = treq[r]
      OBVIOUS
    <3>2. p = treq'[r] /\ Good(p)'
      BY <2>1, <2>2, <3>1
    <3>. QED  BY <3>2 DEF Good, Sure, Owes, Tested
  <2>. QED  BY <2>1, <2>2, <2>3 DEF RInv, AllIdle
<1>2. ASSUME NEW r \in Requests, ThreadStep(r) PROVE RInv'
  BY <1>2, HandlersAnswer, StoreAnswers, ArchiveAnswers, AcceptReopenAnswers,
     TellsAnswer, FindThreadAnswers, LinkAnswers, OpenAnswers, RaisesAnswer
     DEF ThreadStep
<1>. QED  BY <1>1, <1>2 DEF ThreadsNext

LEMMA RInvHolds == ThreadsSpec => []RInv
<1>1. ThreadsInit => RInv
  <2> SUFFICES ASSUME ThreadsInit PROVE RInv
    OBVIOUS
  <2>1. /\ \A r \in Requests : treq[r] = Idle
        /\ \A t \in Threads : thread[t] = Absent
        /\ \A t \in Threads : told[t] = "nothing"
    BY DEF ThreadsInit
  <2>2. ~Absent.made
    BY DEF Absent
  <2>3. Made = {}
    BY <2>1, <2>2 DEF Made
  <2>4. Good(Idle)
    BY <2>1, <2>3, IdleGood DEF Good
  <2>. QED  BY <2>1, <2>4 DEF RInv
<1>. QED  BY <1>1, RInvKept, HInvHolds, TInvHolds, PTL DEF ThreadsSpec

-----------------------------------------------------------------------------
(* Theorems                                                                *)

(* The collections and the handlers' progress keep to their types.         *)
THEOREM ThreadsTypeCorrect == ThreadsSpec => []TypeOKThreads
<1>1. TInv => TypeOKThreads
  BY DEF TInv
<1>. QED  BY <1>1, TInvHolds, PTL

(* At most one thread of the pair is active, whatever overlaps or raises.  *)
THEOREM ThreadsOneActive == ThreadsSpec => []OneActive
<1>1. TInv => OneActive
  BY DEF TInv
<1>. QED  BY <1>1, TInvHolds, PTL

(* Whoever archives a thread opens the next one, or finds another's: when  *)
(* all requests are done and none raised, the two sides can talk.          *)
THEOREM ThreadsNeverLockedOut == ThreadsSpec => []NeverLockedOut
<1>1. TInv => NeverLockedOut
  BY DEF TInv, Heir, NeverLockedOut, Opening, AllIdle, Idle
<1>. QED  BY <1>1, TInvHolds, PTL

(* A thread that names its replacement is superseded by that thread,       *)
(* whatever overlaps or raises: the first half of HistoryLinked.           *)
THEOREM ThreadsLinked == ThreadsSpec => []Links
<1>1. TInv => Links
  BY DEF TInv
<1>. QED  BY <1>1, TInvHolds, PTL

(* The history of the pair can be walked both ways: a link back always     *)
(* answers a link forth, and while requests neither overlap nor raise an   *)
(* archived thread names its replacement once all of them are done: who    *)
(* archives the one active thread meets no other when he opens the next.   *)
THEOREM ThreadsHistory == ThreadsSpec => []HistoryLinked
<1>1. TInv /\ HInv => HistoryLinked
  <2> SUFFICES ASSUME TInv, HInv PROVE HistoryLinked
    OBVIOUS
  <2>1. ASSUME ~overlap, ~faults, AllIdle(treq), NEW t \in Made, ~thread[t].active
        PROVE  thread[t].replacedBy # NoThread
    <3>1. \A r \in Requests : treq[r].at = "idle"
      <4>1. Idle.at = "idle"
        BY DEF Idle
      <4>. QED  BY <2>1, <4>1 DEF AllIdle
    <3>. QED  BY <2>1, <3>1 DEF HInv, Carried, Carries
  <2>. QED  BY <2>1 DEF HistoryLinked, TInv, Links
<1>. QED  BY <1>1, TInvHolds, HInvHolds, PTL

(* While requests do not overlap nobody waits for an answer on an open     *)
(* thread or from himself; and if none raises, the last message of every   *)
(* thread tells what has become of it: the tests a handler made still hold *)
(* when it stores, and what it stored still stands when it tells.          *)
THEOREM ThreadsRepliesFit == ThreadsSpec => []RepliesFit
<1>1. TInv /\ RInv => RepliesFit
  <2> SUFFICES ASSUME TInv, RInv, ~overlap PROVE RepliesFit
    BY DEF RepliesFit
  <2>1. PICK q : Good(q) /\ (AllIdle(treq) => q = Idle)
    BY Zenon DEF RInv, AllIdle
  <2>2. ASSUME NEW t \in Made, ~faults, AllIdle(treq)
        PROVE  LET d == thread[t] IN
               CASE told[t] = "close"       -> Closed(t)
                 [] told[t] = "reopen"      -> ~Closed(t)
                 [] told[t] = "ask reopen"  -> d.reopen # Nobody
                 [] told[t] = "ask contact" -> d.contact # Nobody
                 [] told[t] = "reject reopen"  -> Closed(t) /\ d.reopen = Nobody
                 [] told[t] = "reject contact" -> Closed(t) /\ d.contact = Nobody
                 [] told[t] = "accept contact" -> ~Closed(t) \/ ~d.active
                 [] OTHER                   -> ~Closed(t)
    <3>1. Truly(told[t], t)
      BY <2>1, <2>2, IdleGood DEF Good
    <3>2. told[t] \in Tells \cup {"nothing"}
      BY DEF TInv, TypeOKThreads, Made
    <3>. QED  BY <3>1, <3>2 DEF Truly, Tells
  <2>3. \A t \in Made : Tidy(t)
    BY <2>1 DEF Good
  <2>. QED  BY <2>2, <2>3 DEF RepliesFit, Tidy
<1>. QED  BY <1>1, TInvHolds, RInvHolds, PTL

=============================================================================
