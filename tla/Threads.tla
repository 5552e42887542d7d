------------------------------ MODULE Threads ------------------------------
(***************************************************************************)
(* Conversations (src/modules/conversations/service.py): the threads of    *)
(* one interested company about one opportunity of an offerer.             *)
(*                                                                         *)
(* A partial unique index allows one active thread.  The one who closed a  *)
(* thread may reopen it; the other may ask for that, or for a new thread,  *)
(* which archives the old one first.  Every handler tests a copy, stores   *)
(* fields without a condition, and then appends a message that tells both  *)
(* what happened.                                                          *)
(***************************************************************************)
EXTENDS Handlers, Naturals

CONSTANTS
    Threads,       \* the ids that new threads get
    ThreadMoves    \* bound on the requests made

ASSUME ThreadsAssumption == ThreadMoves \in Nat /\ "no thread" \notin Threads

VARIABLES
    thread,  \* the opportunity_conversations collection
    told,    \* what the last message of each thread tells
    treq,    \* where each request is
    tmoves   \* requests made so far

tvars == <<overlap, faults, thread, told, treq, tmoves>>

Users    == {"offerer", "interested"}
Nobody   == "nobody"
NoThread == "no thread"
Absent   == [made |-> FALSE]

(* The fields of a stored thread that decisions are made on.               *)
StoredThreads ==
    [made       : {TRUE},
     active     : BOOLEAN,
     closedBy   : Users \cup {Nobody},   \* status is CLOSED unless Nobody
     reopen     : Users \cup {Nobody},   \* reopen_requested_by_user_id
     contact    : Users \cup {Nobody},   \* new_contact_requested_by_user_id
     supersedes : Threads \cup {NoThread},
     replacedBy : Threads \cup {NoThread}]

ThreadDocs == {Absent} \cup StoredThreads

Made      == {t \in Threads : thread[t].made}
Active(t) == thread[t].made /\ thread[t].active
Closed(t) == thread[t].closedBy # Nobody

(* The fields an operation stores, given who asked for it.                 *)
Updated(op, d, u) ==
    [d EXCEPT !.active   = IF op \in {"accept contact", "create"} THEN FALSE
                           ELSE @,
              !.closedBy = IF op = "close" THEN u
                           ELSE IF op = "reopen" THEN Nobody ELSE @,
              !.reopen   = IF op = "ask reopen" THEN u
                           ELSE IF op \in {"close", "reopen", "reject reopen"}
                                  THEN Nobody ELSE @,
              !.contact  = IF op = "ask contact" THEN u
                           ELSE IF op \in {"close", "reopen", "reject contact",
                                           "accept contact"}
                                  THEN Nobody ELSE @]

(* What the message of an operation tells.                                 *)
Tells == {"close", "reopen", "ask reopen", "reject reopen", "ask contact",
          "reject contact", "accept contact", "say"}

(* Tests that handlers make on the copy of thread t that user u has read.  *)
Waiting(t)      == Closed(t) /\ thread[t].active
MayReopen(t, u) == Waiting(t) /\ thread[t].closedBy = u
MayAsk(t, u)    == Waiting(t) /\ thread[t].closedBy # u

ThreadSteps == {"accept reopen", "store", "tell", "archive", "open", "link",
                "tell old", "tell new", "greet"}

ThreadWork ==
    [at : ThreadSteps, op : Tells \cup {"create", "accept reopen"},
     who : Users,
     on  : Threads \cup {NoThread},    \* the thread it read, if any
     new : Threads \cup {NoThread}]    \* the thread it created

ThreadRequests == {Idle} \cup ThreadWork

TypeOKThreads ==
    /\ thread \in [Threads -> ThreadDocs]
    /\ told \in [Threads -> Tells \cup {"nothing"}]
    /\ treq \in [Requests -> ThreadRequests]
    /\ tmoves \in 0 .. ThreadMoves

ThreadsInit ==
    /\ HandlersInit
    /\ thread = [t \in Threads |-> Absent]
    /\ told = [t \in Threads |-> "nothing"]
    /\ treq = [r \in Requests |-> Idle]
    /\ tmoves = 0

(***************************************************************************)
(* The handlers                                                            *)
(***************************************************************************)

StartThread(r) ==
    /\ MayStart(treq, r)
    /\ tmoves < ThreadMoves
    /\ tmoves' = tmoves + 1

(* _ensure_participant: user u reads thread t, for an operation that goes  *)
(* on at the given step.  A request that fails the tests made on this copy *)
(* is answered with an error and changes nothing.                          *)
ReadThread(r, op, u, t, at) ==
    /\ StartThread(r)
    /\ thread[t].made
    /\ Goes(treq, r, [at |-> at, op |-> op, who |-> u, on |-> t,
                      new |-> NoThread])
    /\ UNCHANGED <<overlap, faults, thread, told>>

CloseConversation(r, u, t) ==
    ReadThread(r, "close", u, t, "store") /\ ~Closed(t) /\ thread[t].active

ReopenConversation(r, u, t) ==
    ReadThread(r, "reopen", u, t, "store") /\ MayReopen(t, u)

RequestReopen(r, u, t) ==
    /\ ReadThread(r, "ask reopen", u, t, "store")
    /\ MayAsk(t, u) /\ thread[t].reopen = Nobody

RespondReopen(r, u, t) ==
    /\ \/ ReadThread(r, "reject reopen", u, t, "store")
       \/ ReadThread(r, "accept reopen", u, t, "accept reopen")
    /\ MayReopen(t, u) /\ thread[t].reopen # Nobody

RequestNewContact(r, u, t) ==
    /\ ReadThread(r, "ask contact", u, t, "store")
    /\ MayAsk(t, u) /\ thread[t].contact = Nobody

RespondNewContact(r, u, t) ==
    /\ \/ ReadThread(r, "reject contact", u, t, "store")
       \/ ReadThread(r, "accept contact", u, t, "archive")
    /\ MayReopen(t, u) /\ thread[t].contact # Nobody

AddUserMessage(r, u, t) == ReadThread(r, "say", u, t, "store") /\ ~Closed(t)

(* respond_reopen accepts by calling reopen_conversation, which reads the  *)
(* thread again and makes its own tests.                                   *)
AcceptReopen(r) ==
    LET q == treq[r] IN
    /\ q.at = "accept reopen"
    /\ IF MayReopen(q.on, q.who)
         THEN Goes(treq, r, [q EXCEPT !.at = "store", !.op = "reopen"])
         ELSE Ends(treq, r)
    /\ UNCHANGED <<overlap, faults, thread, told, tmoves>>

Store_Silent(r) ==
    LET q == treq[r] IN
    /\ q.at = "store"
    /\ thread' = [thread EXCEPT ![q.on] = Updated(q.op, @, q.who)]
    /\ Ends(treq, r)
    /\ UNCHANGED <<overlap, faults, told, tmoves>>

(* The update of the stored thread, whatever it has become.                *)
Store(r) ==
    LET q == treq[r] IN
    /\ q.at = "store"
    /\ thread' = [thread EXCEPT ![q.on] = Updated(q.op, @, q.who)]
    /\ Goes(treq, r, [q EXCEPT !.at = "tell"])
    /\ UNCHANGED <<overlap, faults, told, tmoves>>

(* _append_system_event, or the participant's message.                     *)
Tell(r) ==
    LET q == treq[r] IN
    /\ q.at = "tell"
    /\ told' = [told EXCEPT ![q.on] = q.op]
    /\ Ends(treq, r)
    /\ UNCHANGED <<overlap, faults, thread, tmoves>>

(* create_or_get, for the interested company's owner: an active thread     *)
(* that is open is the answer; a closed one is archived first.             *)
FindThread(r) ==
    /\ StartThread(r)
    /\ \/ /\ \A t \in Threads : ~Active(t)
          /\ Goes(treq, r, [at |-> "open", op |-> "create",
                            who |-> "interested", on |-> NoThread,
                            new |-> NoThread])
       \/ \E t \in Threads :
            /\ Active(t)
            /\ Closed(t)
            /\ Goes(treq, r, [at |-> "archive", op |-> "create",
                              who |-> "interested", on |-> t,
                              new |-> NoThread])
    /\ UNCHANGED <<overlap, faults, thread, told>>

Archive(r) ==
    LET q == treq[r] IN
    /\ q.at = "archive"
    /\ thread' = [thread EXCEPT ![q.on] = Updated(q.op, @, q.who)]
    /\ Goes(treq, r, [q EXCEPT !.at = "open"])
    /\ UNCHANGED <<overlap, faults, told, tmoves>>

NewThread_Shelved(on) ==
    [made |-> TRUE, active |-> on = NoThread, closedBy |-> Nobody,
     reopen |-> Nobody, contact |-> Nobody, supersedes |-> on,
     replacedBy |-> NoThread]
NewThread_Unlinked(on) ==
    [made |-> TRUE, active |-> TRUE, closedBy |-> Nobody, reopen |-> Nobody,
     contact |-> Nobody, supersedes |-> NoThread, replacedBy |-> NoThread]

NewThread(on) ==
    [made |-> TRUE, active |-> TRUE, closedBy |-> Nobody, reopen |-> Nobody,
     contact |-> Nobody, supersedes |-> on, replacedBy |-> NoThread]

(* ConversationsRepository.create under the partial unique index: a second *)
(* active thread is a DuplicateKeyError, which nothing catches.            *)
Open(r) ==
    LET q == treq[r] IN
    /\ q.at = "open"
    /\ \/ /\ \E t \in Threads : Active(t)
          /\ Ends(treq, r)
          /\ UNCHANGED thread
       \/ \E t \in Threads \ Made :
            /\ \A s \in Threads : ~Active(s)
            /\ thread' = [thread EXCEPT ![t] = NewThread(q.on)]
            /\ Goes(treq, r, [q EXCEPT !.new = t,
                                       !.at = IF q.on = NoThread
                                                THEN "greet" ELSE "link"])
    /\ UNCHANGED <<overlap, faults, told, tmoves>>

Link(r) ==
    LET q == treq[r] IN
    /\ q.at = "link"
    /\ thread' = [thread EXCEPT ![q.on].replacedBy = q.new]
    /\ Goes(treq, r, [q EXCEPT !.at = IF q.op = "create"
                                        THEN "greet" ELSE "tell old"])
    /\ UNCHANGED <<overlap, faults, told, tmoves>>

(* The optional initial message of create_or_get.                          *)
Greet(r) ==
    LET q == treq[r] IN
    /\ q.at = "greet"
    /\ \/ told' = [told EXCEPT ![q.new] = "say"]
       \/ UNCHANGED told
    /\ Ends(treq, r)
    /\ UNCHANGED <<overlap, faults, thread, tmoves>>

(* The two events of an accepted new contact, on the old and the new.      *)
TellOld(r) ==
    LET q == treq[r] IN
    /\ q.at = "tell old"
    /\ told' = [told EXCEPT ![q.on] = q.op]
    /\ Goes(treq, r, [q EXCEPT !.at = "tell new"])
    /\ UNCHANGED <<overlap, faults, thread, tmoves>>

TellNew(r) ==
    LET q == treq[r] IN
    /\ q.at = "tell new"
    /\ told' = [told EXCEPT ![q.new] = q.op]
    /\ Ends(treq, r)
    /\ UNCHANGED <<overlap, faults, thread, tmoves>>

ThreadRaises(r) ==
    Raises(treq, r) /\ UNCHANGED <<overlap, faults, thread, told, tmoves>>

ThreadStep(r) ==
    \/ \E u \in Users, t \in Threads :
         \/ CloseConversation(r, u, t) \/ ReopenConversation(r, u, t)
         \/ RequestReopen(r, u, t)     \/ RespondReopen(r, u, t)
         \/ RequestNewContact(r, u, t) \/ RespondNewContact(r, u, t)
         \/ AddUserMessage(r, u, t)
    \/ AcceptReopen(r) \/ Store(r) \/ Tell(r)
    \/ FindThread(r) \/ Archive(r) \/ Open(r) \/ Link(r) \/ Greet(r)
    \/ TellOld(r) \/ TellNew(r)
    \/ ThreadRaises(r)

ThreadsNext == \E r \in Requests : ThreadStep(r)

ThreadsSpec == ThreadsInit /\ [][ThreadsNext]_tvars

(***************************************************************************)
(* Properties                                                              *)
(***************************************************************************)

(* At most one thread of the pair is active, however creations, acceptances*)
(* and archivings overlap (the partial unique index, repository.py:47-52). *)
OneActive ==
    \A s, t \in Threads : Active(s) /\ Active(t) => s = t

(* As long as no await raises, two sides that ever had a thread have an    *)
(* active one when all requests are done: whoever archives a thread opens  *)
(* the next one, or finds that another request has.                        *)
NeverLockedOut ==
    ~faults /\ AllIdle(treq) /\ Made # {} => \E t \in Threads : Active(t)

(* A thread that names its replacement is superseded by it, whatever       *)
(* overlaps or raises; and if nothing does, every archived thread names    *)
(* one, so that the history of the pair can be walked both ways.           *)
HistoryLinked ==
    /\ \A s, t \in Threads :
         thread[s].made /\ thread[s].replacedBy = t =>
             thread[t].made /\ thread[t].supersedes = s
    /\ ~overlap /\ ~faults /\ AllIdle(treq) =>
         \A t \in Made : ~thread[t].active => thread[t].replacedBy # NoThread

(* One request at a time: nobody waits for an answer on an open thread, or *)
(* from oneself, and the last message tells what the thread has come to    *)
(* (unless the request that should have appended one raised).              *)
RepliesFit ==
    ~overlap =>
      \A t \in Made :
        LET d == thread[t] IN
        /\ d.closedBy = Nobody => d.active /\ d.reopen = Nobody
                                           /\ d.contact = Nobody
        /\ d.reopen # Nobody => d.reopen # d.closedBy
        /\ d.contact # Nobody => d.contact # d.closedBy
        /\ ~faults /\ AllIdle(treq) =>
             CASE told[t] = "close"       -> Closed(t)
               [] told[t] = "reopen"      -> ~Closed(t)
               [] told[t] = "ask reopen"  -> d.reopen # Nobody
               [] told[t] = "ask contact" -> d.contact # Nobody
               [] told[t] = "reject reopen"  -> Closed(t) /\ d.reopen = Nobody
               [] told[t] = "reject contact" -> Closed(t) /\ d.contact = Nobody
               [] told[t] = "accept contact" -> ~Closed(t) \/ ~d.active
               [] OTHER                   -> ~Closed(t)

=============================================================================
