-------------------------------- MODULE Desk --------------------------------
(***************************************************************************)
(* Support tickets (src/modules/support/service.py) and the review of a    *)
(* company's documents, which has a ticket of its own                      *)
(* (src/modules/companies/service.py and compliance_review.py).            *)
(*                                                                         *)
(* Every update sets fields without a condition, after tests on a copy.  A *)
(* ticket's number is the count of those of its source plus one; a unique  *)
(* index refuses a number that was taken meanwhile.  Left out: the events  *)
(* and notifications that end a handler, and internal notes, which nothing *)
(* here reads back.                                                        *)
(***************************************************************************)
EXTENDS Handlers, Naturals, Sequences, FiniteSets

CONSTANTS
    Kinds,      \* the documents a company may upload
    Required,   \* those the review's end waits for even if absent
    DeskMoves   \* bound on the requests made

ASSUME DeskAssumption == Required \subseteq Kinds /\ DeskMoves \in Nat

VARIABLES
    tickets,   \* the support_tickets collection, oldest first
    messages,  \* the support_messages collection, oldest first
    file,      \* the documents of one company
    vetted,    \* history: uploads an administrator approved
    dreq,      \* where each request is
    dmoves     \* requests made so far

dvars == <<overlap, faults, tickets, messages, file, vetted, dreq, dmoves>>

(* Tickets of one user, of visitors, and of the reviews of companies.      *)
Visits  == {"external", "contact request"}
Sources == Visits \cup {"internal", "review"}

(* USER_MESSAGE or ADMIN_REPLY, and whether read_at is set.                *)
Messages == [of : Nat, by : {"user", "admin"}, read : BOOLEAN]

Tickets == [source : Sources, ours : BOOLEAN, number : Nat,
            status : {"open", "in progress", "closed"},
            closer : BOOLEAN,      \* closed_by is set
            closedAt : BOOLEAN,    \* closed_at is set
            assigned : BOOLEAN]

NoFile == [status |-> "absent"]
Files  == [key : 1 .. DeskMoves, status : {"pending", "approved", "rejected"}]

DeskOps == {"message", "reply", "close", "reopen", "assign"}

NumberWork == [at : {"number", "insert"}, source : Sources, ours : BOOLEAN,
               number : Nat]
TicketWork == [at : {"write", "update"}, op : DeskOps, i : Nat, ticket : Tickets]
MarkWork   == [at : {"mark"}, ids : SUBSET Nat]
DecideWork == [at : {"decide"}, kind : Kinds, seen : Files,
               verdict : {"approved", "rejected"}]
FindWork   == [at : {"find open", "find latest", "find to close"}]
ReviewWork == [at : {"revive", "conclude"}, i : Nat]

DeskRequests == {Idle} \cup NumberWork \cup TicketWork \cup MarkWork
                       \cup DecideWork \cup FindWork \cup ReviewWork

TypeOKDesk ==
    /\ tickets \in Seq(Tickets)
    /\ messages \in Seq(Messages)
    /\ file \in [Kinds -> Files \cup {NoFile}]
    /\ vetted \subseteq 1 .. DeskMoves
    /\ dreq \in [Requests -> DeskRequests]
    /\ dmoves \in 0 .. DeskMoves

DeskInit ==
    /\ HandlersInit
    /\ tickets = <<>>
    /\ messages = <<>>
    /\ file = [k \in Kinds |-> NoFile]
    /\ vetted = {}
    /\ dreq = [r \in Requests |-> Idle]
    /\ dmoves = 0

Reviews   == {i \in DOMAIN tickets : tickets[i].ours}
OpenOnes  == {i \in Reviews : tickets[i].status # "closed"}
IsLatest(i) == i \in Reviews /\ \A j \in Reviews : j <= i
OfSource(s) == {i \in DOMAIN tickets : tickets[i].source = s}

StartDesk(r) ==
    /\ MayStart(dreq, r)
    /\ dmoves < DeskMoves
    /\ dmoves' = dmoves + 1

(***************************************************************************)
(* Tickets                                                                 *)
(***************************************************************************)

AskTicket(r, s) ==
    /\ StartDesk(r)
    /\ Goes(dreq, r, [at |-> "number", source |-> s, ours |-> FALSE, number |-> 0])
    /\ UNCHANGED <<overlap, faults, tickets, messages, file, vetted>>

CreateTicket(r)          == AskTicket(r, "internal")
CreateExternalContact(r) == AskTicket(r, "external")
CreateContactRequest(r)  == AskTicket(r, "contact request")

(* enqueue, for the first document of another company.                     *)
ReviewElsewhere(r) == AskTicket(r, "review")

(* next_ticket_number and its siblings.                                    *)
NumberTicket(r) ==
    LET q == dreq[r] IN
    /\ q.at = "number"
    /\ Goes(dreq, r, [q EXCEPT !.at = "insert",
                               !.number = Cardinality(OfSource(q.source)) + 1])
    /\ UNCHANGED <<overlap, faults, tickets, messages, file, vetted, dmoves>>

NewTicket(q) ==
    [source |-> q.source, ours |-> q.ours, number |-> q.number,
     status |-> "open", closer |-> FALSE, closedAt |-> FALSE,
     assigned |-> FALSE]

(* A request that goes on to write to ticket i, which it has read as t.    *)
Writing(at, op, i, t) == [at |-> at, op |-> op, i |-> i, ticket |-> t]

(* insert_one: a number of the source that is taken by now raises; enqueue *)
(* failures are logged and dropped by _enqueue_document_review.            *)
InsertTicket(r) ==
    LET q == dreq[r]
        taken == \E i \in OfSource(q.source) : tickets[i].number = q.number
        i == Len(tickets) + 1
    IN /\ q.at = "insert"
       /\ IF taken
            THEN Ends(dreq, r) /\ UNCHANGED tickets
            ELSE /\ tickets' = Append(tickets, NewTicket(q))
                 /\ Goes(dreq, r, Writing("write", "message", i, NewTicket(q)))
       /\ UNCHANGED <<overlap, faults, messages, file, vetted, dmoves>>

(* The message of a user, or an administrator's reply, which goes on.      *)
WriteMessage(r) ==
    LET q == dreq[r] IN
    /\ q.at = "write"
    /\ messages' = Append(messages,
         [of |-> q.i, by |-> IF q.op = "reply" THEN "admin" ELSE "user",
          read |-> FALSE])
    /\ IF q.op = "reply" THEN Goes(dreq, r, [q EXCEPT !.at = "update"])
                         ELSE Ends(dreq, r)
    /\ UNCHANGED <<overlap, faults, tickets, file, vetted, dmoves>>

ReadTicket(r, i, at, op) ==
    /\ StartDesk(r)
    /\ Goes(dreq, r, Writing(at, op, i, tickets[i]))
    /\ UNCHANGED <<overlap, faults, tickets, messages, file, vetted>>

(* Only a ticket with an owner has one who may add to it.                  *)
AddTicketMessage(r, i) ==
    /\ tickets[i].source \notin Visits
    /\ tickets[i].status # "closed"
    /\ ReadTicket(r, i, "write", "message")

AddAdminReply(r, i) ==
    tickets[i].status # "closed" /\ ReadTicket(r, i, "write", "reply")

CloseTicket(r, i) ==
    tickets[i].status # "closed" /\ ReadTicket(r, i, "update", "close")

ReopenTicket(r, i) ==
    tickets[i].status = "closed" /\ ReadTicket(r, i, "update", "reopen")

AssignTicket(r, i) == ReadTicket(r, i, "update", "assign")

(* mark_read lists the unread messages of one side, and marks the list.    *)
ListUnread(r, i, by) ==
    LET ids == {k \in DOMAIN messages :
                  messages[k] = [of |-> i, by |-> by, read |-> FALSE]}
    IN /\ StartDesk(r)
       /\ ids # {}
       /\ Goes(dreq, r, [at |-> "mark", ids |-> ids])
       /\ UNCHANGED <<overlap, faults, tickets, messages, file, vetted>>

MarkUserMessagesRead(r, i) ==
    tickets[i].source \notin Visits /\ ListUnread(r, i, "admin")

MarkAdminMessagesRead(r, i) == ListUnread(r, i, "user")

MarkRead(r) ==
    LET q == dreq[r] IN
    /\ q.at = "mark"
    /\ messages' = [k \in DOMAIN messages |->
                       [messages[k] EXCEPT !.read = IF k \in q.ids THEN TRUE
                                                    ELSE @]]
    /\ Ends(dreq, r)
    /\ UNCHANGED <<overlap, faults, tickets, file, vetted, dmoves>>

Handled_Unassigned(t, op, copy) ==
    [t EXCEPT !.status   = IF op = "close" THEN "closed"
                           ELSE IF op = "reopen" \/ (op = "reply" /\ copy.status = "open")
                             THEN "in progress" ELSE @,
              !.closer   = op = "close" \/ (@ /\ op # "reopen"),
              !.closedAt = op = "close" \/ (@ /\ op # "reopen"),
              !.assigned = @ \/ op = "assign"]

(* The fields each of them sets; a reply looks at the copy to choose them. *)
Handled(t, op, copy) ==
    [t EXCEPT !.status   = IF op = "close" THEN "closed"
                           ELSE IF op = "reopen" THEN "in progress"
                           ELSE IF op = "reply" /\ copy.status = "open"
                             THEN "in progress" ELSE @,
              !.closer   = IF op = "close" THEN TRUE
                           ELSE IF op = "reopen" THEN FALSE ELSE @,
              !.closedAt = IF op = "close" THEN TRUE
                           ELSE IF op = "reopen" THEN FALSE ELSE @,
              !.assigned = IF op = "assign" \/ (op = "reply" /\ ~copy.assigned)
                             THEN TRUE ELSE @]

UpdateTicket(r) ==
    LET q == dreq[r] IN
    /\ q.at = "update"
    /\ tickets' = [tickets EXCEPT ![q.i] = Handled(@, q.op, q.ticket)]
    /\ Ends(dreq, r)
    /\ UNCHANGED <<overlap, faults, messages, file, vetted, dmoves>>

(***************************************************************************)
(* Documents                                                               *)
(***************************************************************************)

Upload(r, k, status) ==
    /\ StartDesk(r)
    /\ file' = [file EXCEPT ![k] = [key |-> dmoves + 1, status |-> status]]
    /\ UNCHANGED <<overlap, faults, tickets, messages>>

(* upload_document: the new document is pending, and enqueued for review.  *)
UploadDocument(r, k) ==
    /\ Upload(r, k, "pending")
    /\ Goes(dreq, r, [at |-> "find open"])
    /\ UNCHANGED vetted

(* An administrator's may be stored as approved, without a review.         *)
UploadApproved(r, k) ==
    /\ Upload(r, k, "approved")
    /\ vetted' = vetted \cup {dmoves + 1}
    /\ UNCHANGED dreq

(* enqueue: an open review gets a message, the latest one is opened again, *)
(* or a new one is created.                                                *)
FindOpen(r) ==
    /\ dreq[r].at = "find open"
    /\ \/ \E i \in OpenOnes :
            Goes(dreq, r, Writing("write", "message", i, tickets[i]))
       \/ OpenOnes = {} /\ Goes(dreq, r, [at |-> "find latest"])
    /\ UNCHANGED <<overlap, faults, tickets, messages, file, vetted, dmoves>>

FindLatest(r) ==
    /\ dreq[r].at = "find latest"
    /\ \/ \E i \in Reviews :
            /\ IsLatest(i) /\ tickets[i].status = "closed"
            /\ Goes(dreq, r, [at |-> "revive", i |-> i])
       \/ /\ \A i \in Reviews : IsLatest(i) => tickets[i].status # "closed"
          /\ Goes(dreq, r, [at |-> "number", source |-> "review",
                            ours |-> TRUE, number |-> 0])
    /\ UNCHANGED <<overlap, faults, tickets, messages, file, vetted, dmoves>>

Revive(r) ==
    LET q == dreq[r] IN
    /\ q.at = "revive"
    /\ tickets' = [tickets EXCEPT ![q.i].status = "open", ![q.i].closer = FALSE,
                                  ![q.i].closedAt = FALSE]
    /\ Goes(dreq, r, Writing("write", "message", q.i, tickets'[q.i]))
    /\ UNCHANGED <<overlap, faults, messages, file, vetted, dmoves>>

(* _review tests a copy of the company, and stores the whole file of that  *)
(* copy with the verdict.                                                  *)
ReviewFile(r, k, verdict) ==
    /\ StartDesk(r)
    /\ file[k].status = "pending"
    /\ Goes(dreq, r, [at |-> "decide", kind |-> k, seen |-> file[k],
                      verdict |-> verdict])
    /\ UNCHANGED <<overlap, faults, tickets, messages, file, vetted>>

ApproveDocument(r, k) == ReviewFile(r, k, "approved")
RejectDocument(r, k)  == ReviewFile(r, k, "rejected")

(* What _maybe_close_ticket finds in the updated company.                  *)
StillPending(files) ==
    \/ \E k \in Required : files[k] = NoFile
    \/ \E k \in Kinds : files[k].status = "pending"

Decide_OnStored(r) ==
    LET q == dreq[r]
        files == [file EXCEPT ![q.kind].status = q.verdict]
    IN /\ q.at = "decide"
       /\ file' = files
       /\ vetted' = IF q.verdict = "approved" THEN vetted \cup {q.seen.key}
                                              ELSE vetted
       /\ IF StillPending(files) THEN Ends(dreq, r)
                                 ELSE Goes(dreq, r, [at |-> "find to close"])
       /\ UNCHANGED <<overlap, faults, tickets, messages, dmoves>>

Decide(r) ==
    LET q == dreq[r]
        files == [file EXCEPT ![q.kind] = [q.seen EXCEPT !.status = q.verdict]]
    IN /\ q.at = "decide"
       /\ file' = files
       /\ vetted' = IF q.verdict = "approved" THEN vetted \cup {q.seen.key}
                                              ELSE vetted
       /\ IF StillPending(files) THEN Ends(dreq, r)
                                 ELSE Goes(dreq, r, [at |-> "find to close"])
       /\ UNCHANGED <<overlap, faults, tickets, messages, dmoves>>

FindToClose(r) ==
    /\ dreq[r].at = "find to close"
    /\ \/ OpenOnes = {} /\ Ends(dreq, r)
       \/ \E i \in OpenOnes : Goes(dreq, r, [at |-> "conclude", i |-> i])
    /\ UNCHANGED <<overlap, faults, tickets, messages, file, vetted, dmoves>>

Conclude(r) ==
    LET q == dreq[r] IN
    /\ q.at = "conclude"
    /\ tickets' = [tickets EXCEPT ![q.i].status = "closed",
                                  ![q.i].closedAt = TRUE]
    /\ Ends(dreq, r)
    /\ UNCHANGED <<overlap, faults, messages, file, vetted, dmoves>>

DeskRaises(r) ==
    Raises(dreq, r) /\ UNCHANGED <<overlap, faults, tickets, messages, file, vetted, dmoves>>

DeskStep(r) ==
    \/ CreateTicket(r) \/ CreateExternalContact(r) \/ CreateContactRequest(r)
    \/ ReviewElsewhere(r)
    \/ NumberTicket(r) \/ InsertTicket(r) \/ WriteMessage(r)
    \/ \E i \in DOMAIN tickets :
         \/ AddTicketMessage(r, i) \/ AddAdminReply(r, i)
         \/ CloseTicket(r, i) \/ ReopenTicket(r, i) \/ AssignTicket(r, i)
         \/ MarkUserMessagesRead(r, i) \/ MarkAdminMessagesRead(r, i)
    \/ UpdateTicket(r) \/ MarkRead(r)
    \/ \E k \in Kinds :
         \/ UploadDocument(r, k) \/ UploadApproved(r, k)
         \/ ApproveDocument(r, k) \/ RejectDocument(r, k)
    \/ FindOpen(r) \/ FindLatest(r) \/ Revive(r)
    \/ Decide(r) \/ FindToClose(r) \/ Conclude(r)
    \/ DeskRaises(r)

DeskNext == \E r \in Requests : DeskStep(r)

DeskSpec == DeskInit /\ [][DeskNext]_dvars

(***************************************************************************)
(* Properties                                                              *)
(***************************************************************************)

(* An approved document is the very upload an administrator approved,      *)
(* whatever uploads and decisions overlap: _review stores the whole file   *)
(* it tested (compliance_review.py:219), not a status beside a new upload. *)
ApprovedWasReviewed ==
    \A k \in Kinds : file[k].status = "approved" => file[k].key \in vetted

(* One request at a time and no failure: a document that waits for review  *)
(* has a ticket in the administrators' queue, unless one of them closed    *)
(* it by hand; the last decision closes it only when nothing waits.        *)
PendingHasTicket ==
    ~overlap /\ ~faults /\ AllIdle(dreq) =>
        \A k \in Kinds :
            file[k].status = "pending" =>
                \E i \in Reviews : tickets[i].status # "closed" \/ tickets[i].closer

(* The numbers of a source are 1 to their count, in the order of creation, *)
(* though a number is chosen before it is taken: none is given twice, and  *)
(* none is left out, whatever overlaps or raises.                          *)
NumbersDense ==
    \A s \in Sources : \A i \in DOMAIN tickets :
        tickets[i].source = s =>
            {tickets[j].number : j \in {k \in 1 .. i : tickets[k].source = s}}
                = 1 .. tickets[i].number

(* While requests do not overlap, closing data is there exactly when a     *)
(* ticket is closed, and a company has one review.                         *)
ClosedIsDated ==
    ~overlap => \A i, j \in DOMAIN tickets :
         /\ tickets[i].closedAt <=> tickets[i].status = "closed"
         /\ tickets[i].closer => tickets[i].closedAt
         /\ tickets[i].ours /\ tickets[j].ours => i = j

(* If none raises either, a ticket with a reply is assigned and no longer  *)
(* open but for a review that new documents opened again.                  *)
RepliedIsAssigned ==
    ~overlap /\ ~faults /\ AllIdle(dreq) =>
         \A k \in DOMAIN messages :
             LET t == tickets[messages[k].of]
             IN messages[k].by = "admin" =>
                  t.assigned /\ (t.status = "open" => t.source = "review")

(* What the fields of tickets say of one another and of their messages.    *)
TicketsFit == NumbersDense /\ ClosedIsDated /\ RepliedIsAssigned

(* Tickets, and the documents that they are about, fit each other.         *)
DeskFits == PendingHasTicket /\ TicketsFit

=============================================================================
