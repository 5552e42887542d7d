----------------------------- MODULE Agreements -----------------------------
(***************************************************************************)
(* One electronic agreement (src/modules/agreements/service.py): the       *)
(* document stored in MongoDB, the append-only collection of its events,   *)
(* and the HTTP requests that work on them at the same time.               *)
(*                                                                         *)
(* Every handler has the same shape: it reads the whole document, checks   *)
(* its guards on that copy, changes the copy in memory, awaits other       *)
(* services, and stores the WHOLE copy back with replace_one, which tests  *)
(* neither a version nor the status.  The event is inserted afterwards.    *)
(* Requests interleave at each of those awaits, and each await may raise   *)
(* (the database, Storage or Redis fails, the worker is killed), leaving   *)
(* the steps already done in place.                                        *)
(***************************************************************************)
EXTENDS Naturals, Sequences, FiniteSets

CONSTANTS
    Users,      \* the people with an account
    Owner,      \* the user who created the agreement
    NoUser,     \* the actor of the entries the system writes by itself
    Lists,      \* participant lists the owner may submit
    Minutas,    \* participant lists of agreements born from a minuta
    Pdfs,       \* PDF files the owner may upload
    NoFile,     \* no file yet
    Deadlines,  \* deadlines the owner may choose; 0 is "no deadline"
    Horizon,    \* bound on the clock
    Requests,   \* slots for requests in flight
    Ops,        \* the operations that requests ask for
    Logged,     \* the types of entry an instance keeps in the trail
    MayFail     \* can an await raise?

Statuses == {"draft", "awaiting_send", "awaiting_signatures",
             "partially_signed", "signed", "rejected", "cancelled", "expired"}
Editable == {"draft", "awaiting_send"}
Open     == {"awaiting_signatures", "partially_signed"}
Modes    == {"unordered", "ordered"}

PStatuses == {"pending", "viewed", "completed", "rejected"}
Waiting   == {"pending", "viewed"}

EventTypes == {"updated", "cancelled", "participants_updated", "fields_updated",
               "sent", "viewed", "signed", "rejected", "expired", "downloaded",
               "completed"}

EditOps == {"update", "upload", "participants", "fields"}
AllOps  == EditOps \cup {"get", "look", "download", "cancel", "send", "view",
                         "sign", "reject"}

(* An entry of AgreementDocument.participants: the account its e-mail      *)
(* belongs to, its order_index, and whether user_id was already known when *)
(* the list was stored.                                                    *)
Participant == [who: Users, order: Nat, linked: BOOLEAN]

PeopleLists == Lists \cup Minutas \cup {<<>>}

ASSUME UsersAssumption  == Owner \in Users /\ NoUser \notin Users
ASSUME ListsAssumption  == \A l \in Lists \cup Minutas :
                              l \in Seq(Participant) /\ l # <<>>
ASSUME FilesAssumption  == NoFile \notin Pdfs
ASSUME ClockAssumption  == Deadlines \subseteq Nat /\ Horizon \in Nat
ASSUME OpsAssumption    == /\ Ops \subseteq AllOps
                           /\ Logged \subseteq EventTypes
                           /\ MayFail \in BOOLEAN

VARIABLES
    doc,    \* the stored AgreementDocument
    trail,  \* the agreement_events collection
    req,    \* the requests in flight
    now     \* the clock

vars == <<doc, trail, req, now>>

(***************************************************************************)
(* Documents                                                               *)
(***************************************************************************)

(* signed_file: the PDF that was stamped and the participants whose stamps *)
(* it carries.  A file exists only once it carries a stamp.                *)
NoSigned == [pdf |-> NoFile, by |-> {}]

(* certificate_file and audit_report_file: the signed file they describe   *)
(* and the users whose signature the printed audit trail shows.            *)
NoCert == [of |-> NoSigned, trail |-> {}]

Index(d) == DOMAIN d.people

SignedFiles(l) == [pdf: Pdfs \cup {NoFile}, by: SUBSET DOMAIN l]

(* The documents whose participant list is l.                              *)
DocsOver(l) ==
    [status   : Statuses,
     mode     : Modes,
     deadline : Nat,
     people   : {l},
     st       : [DOMAIN l -> PStatuses],
     unlinked : SUBSET DOMAIN l,
     orig     : Pdfs \cup {NoFile},
     placed   : BOOLEAN,
     signed   : SignedFiles(l),
     cert     : [of: SignedFiles(l), trail: SUBSET Users]]

IsDoc(d) == d.people \in PeopleLists /\ d \in DocsOver(d.people)

TrailEntries == [type: EventTypes, by: Users \cup {NoUser}]

(* create: a draft with neither a PDF nor participants.                    *)
Created(m, dl) ==
    [status |-> "draft", mode |-> m, deadline |-> dl, people |-> <<>>,
     st |-> <<>>, unlinked |-> {}, orig |-> NoFile, placed |-> FALSE,
     signed |-> NoSigned, cert |-> NoCert]

(* create_from_contract_proposal: both parties, the minuta's PDF, no field *)
(* placed yet, no deadline.                                                *)
FromMinuta(l, p) ==
    [status |-> "awaiting_send", mode |-> "unordered", deadline |-> 0,
     people |-> l, st |-> [i \in DOMAIN l |-> "pending"], unlinked |-> {},
     orig |-> p, placed |-> FALSE, signed |-> NoSigned, cert |-> NoCert]

Blank == Created("unordered", 0)

IsParticipant(d, u) == \E i \in Index(d) : d.people[i].who = u

(* _find_participant_for_user: the first entry of the user, in list order. *)
Find(d, u) ==
    CHOOSE i \in Index(d) :
        /\ d.people[i].who = u
        /\ \A j \in Index(d) : d.people[j].who = u => i <= j

CanAccess(d, u) == u = Owner \/ IsParticipant(d, u)

(* The order of sorted(participants, key=order_index), which is stable.    *)
Precedes(d, j, i) ==
    \/ d.people[j].order < d.people[i].order
    \/ d.people[j].order = d.people[i].order /\ j < i

(* _next_ordered_participant returns entry i.                              *)
InTurn_NoOrder(d, i) == d.st[i] \in Waiting
InTurn(d, i) ==
    /\ d.st[i] \in Waiting
    /\ \A j \in Index(d) : Precedes(d, j, i) => d.st[j] \notin Waiting

Lapsed(d) == d.deadline # 0 /\ d.status \in Open /\ d.deadline < now

(***************************************************************************)
(* What each operation does to the copy it read                            *)
(***************************************************************************)

Expired(d) == [d EXCEPT !.status = "expired"]

Updated(d, m, dl) == [d EXCEPT !.mode = m, !.deadline = dl]

Cancelled(d) == [d EXCEPT !.status = "cancelled"]

Uploaded(d, p) ==
    [d EXCEPT !.orig = p, !.signed = NoSigned,
              !.status = IF d.people = <<>> THEN @ ELSE "awaiting_send"]

(* The new entries have fresh ids, so every placed field is dropped.       *)
WithPeople_KeepsStatuses(d, l, m) ==
    [d EXCEPT !.people = l,
              !.unlinked = {i \in DOMAIN l : ~l[i].linked}, !.mode = m,
              !.placed = FALSE,
              !.status = IF d.orig = NoFile THEN @ ELSE "awaiting_send"]
WithPeople(d, l, m) ==
    [d EXCEPT !.people = l, !.st = [i \in DOMAIN l |-> "pending"],
              !.unlinked = {i \in DOMAIN l : ~l[i].linked}, !.mode = m,
              !.placed = FALSE,
              !.status = IF d.orig = NoFile THEN @ ELSE "awaiting_send"]

WithFields(d, some) == [d EXCEPT !.placed = some]

Sent_Restarts(d) ==
    [d EXCEPT !.status = "awaiting_signatures",
              !.st = [i \in DOMAIN @ |-> "pending"]]
Sent(d) == [d EXCEPT !.status = "awaiting_signatures"]

Viewed(d, i) == [d EXCEPT !.st[i] = "viewed", !.unlinked = @ \ {i}]

Linked(d, u) ==
    [d EXCEPT !.unlinked = {i \in @ : d.people[i].who # u}]

(* The PDF that is stamped is the signed file if there is one, else the    *)
(* original.                                                               *)
Stamped_FromOriginal(d, i) == [pdf |-> d.orig, by |-> {i}]
Stamped(d, i) ==
    [pdf |-> IF d.signed.by = {} THEN d.orig ELSE d.signed.pdf,
     by  |-> d.signed.by \cup {i}]

SignedBy_AnyCompletes(d, i) ==
    [d EXCEPT !.st[i] = "completed", !.unlinked = @ \ {i},
              !.signed = Stamped(d, i), !.status = "signed"]
SignedBy(d, i) ==
    [d EXCEPT !.st[i] = "completed", !.unlinked = @ \ {i},
              !.signed = Stamped(d, i),
              !.status = IF \A j \in Index(d) \ {i} : d.st[j] = "completed"
                         THEN "signed" ELSE "partially_signed"]

RejectedBy(d, i) ==
    [d EXCEPT !.st[i] = "rejected", !.unlinked = @ \ {i},
              !.status = "rejected"]

(* _finalize: the certificate describes the signed file in hand, and the   *)
(* audit report prints the entries listed at this moment.                  *)
Certified(d, entries) ==
    [d EXCEPT !.cert = [of    |-> d.signed,
                        trail |-> {u \in Users :
                                     [type |-> "signed", by |-> u] \in entries}]]

(***************************************************************************)
(* Guards: an operation is refused unless they hold of the copy it read    *)
(***************************************************************************)

CanSign(d, u) ==
    /\ d.status \in Open
    /\ IsParticipant(d, u)
    /\ d.st[Find(d, u)] \in Waiting
    /\ d.mode = "ordered" => InTurn(d, Find(d, u))

CanReject(d, u) == d.status \in Open /\ IsParticipant(d, u)

CanSend_NoFields(d, u) == u = Owner /\ d.orig # NoFile /\ d.people # <<>>
CanSend(d, u) ==
    /\ u = Owner
    /\ d.orig # NoFile
    /\ d.people # <<>>
    /\ d.placed

CanEdit_WhileOpen(d, u) == u = Owner /\ d.status \in Editable \cup Open
CanEdit(d, u) == u = Owner /\ d.status \in Editable

CanCancel(d, u) == u = Owner /\ d.status \notin {"signed", "cancelled", "expired"}

Allowed(op, d, u) ==
    \/ op \in EditOps /\ CanEdit(d, u)
    \/ op = "cancel" /\ CanCancel(d, u)
    \/ op = "send" /\ CanSend(d, u)
    \/ op = "sign" /\ CanSign(d, u)
    \/ op = "reject" /\ CanReject(d, u)
    \/ op = "download" /\ d.orig # NoFile
    \/ op \in {"get", "view"}

(***************************************************************************)
(* Requests                                                                *)
(***************************************************************************)

(* Where a handler is: about to store the expired copy ("expire"), to log  *)
(* that ("expired"), to read the document again ("read"), to log a view    *)
(* before storing it ("viewing"), to store its copy ("write"), to log the  *)
(* event ("log"), to list the events for the audit report ("finalize"), to *)
(* store the certificate ("seal"), to log completion ("sealed").           *)
Phases == {"idle", "expire", "expired", "read", "viewing", "write", "log",
           "finalize", "seal", "sealed"}

IsSlot(q) ==
    /\ IsDoc(q.new)
    /\ q \in [op: AllOps, by: Users \cup {NoUser}, pc: Phases, new: {q.new}]

Idle == [op |-> "look", by |-> NoUser, pc |-> "idle", new |-> Blank]

At(r, pc, op) == req[r].pc = pc /\ req[r].op = op

Goto(r, pc, d) == req' = [req EXCEPT ![r].pc = pc, ![r].new = d]

Finish(r) == req' = [req EXCEPT ![r] = Idle]

(* The trail is only ever read by _finalize, for its signatures; the other *)
(* types are kept where a property or a reader wants to see them.          *)
Enter(type, u) ==
    trail' = trail \cup {e \in {[type |-> type, by |-> u]} : type \in Logged}

EventOf(op) ==
    CASE op = "update"       -> "updated"
      [] op = "cancel"       -> "cancelled"
      [] op = "participants" -> "participants_updated"
      [] op = "fields"       -> "fields_updated"
      [] op = "send"         -> "sent"
      [] op = "view"         -> "viewed"
      [] op = "sign"         -> "signed"
      [] op = "reject"       -> "rejected"
      [] OTHER               -> "downloaded"

(* _get_accessible, first read: access, and _maybe_expire's test.          *)
Arrive(r, op, u) ==
    /\ req[r].pc = "idle"
    /\ CanAccess(doc, u)
    /\ req' = [req EXCEPT ![r] =
                 [op |-> op, by |-> u,
                  pc  |-> IF Lapsed(doc) THEN "expire" ELSE "read",
                  new |-> IF Lapsed(doc) THEN Expired(doc) ELSE Blank]]
    /\ UNCHANGED <<doc, trail, now>>

(* _maybe_expire stores the copy it tested and logs the expiry.            *)
ExpireWrite(r) ==
    /\ req[r].pc = "expire"
    /\ doc' = req[r].new
    /\ Goto(r, "expired", Blank)
    /\ UNCHANGED <<trail, now>>

ExpireLog(r) ==
    /\ req[r].pc = "expired"
    /\ Enter("expired", NoUser)
    /\ Goto(r, "read", Blank)
    /\ UNCHANGED <<doc, now>>

(* The second read: the guards, and the change made to the copy.           *)
Proceed(r, pc, d) == Goto(r, pc, d) /\ UNCHANGED <<doc, trail, now>>

ReadUpdate(r) ==
    /\ At(r, "read", "update")
    /\ CanEdit(doc, req[r].by)
    /\ \E m \in Modes, dl \in Deadlines : Proceed(r, "write", Updated(doc, m, dl))

ReadCancel(r) ==
    /\ At(r, "read", "cancel")
    /\ CanCancel(doc, req[r].by)
    /\ Proceed(r, "write", Cancelled(doc))

ReadUpload(r) ==
    /\ At(r, "read", "upload")
    /\ CanEdit(doc, req[r].by)
    /\ \E p \in Pdfs : Proceed(r, "write", Uploaded(doc, p))

ReadParticipants(r) ==
    /\ At(r, "read", "participants")
    /\ CanEdit(doc, req[r].by)
    /\ \E l \in Lists, m \in Modes : Proceed(r, "write", WithPeople(doc, l, m))

ReadFields(r) ==
    /\ At(r, "read", "fields")
    /\ CanEdit(doc, req[r].by)
    /\ \E some \in BOOLEAN :
         /\ some => doc.people # <<>>
         /\ Proceed(r, "write", WithFields(doc, some))

ReadSend(r) ==
    /\ At(r, "read", "send")
    /\ CanSend(doc, req[r].by)
    /\ Proceed(r, "write", Sent(doc))

(* mark_viewed logs first, whatever the status, and stores only a first    *)
(* view.                                                                   *)
ReadView(r) ==
    /\ At(r, "read", "view")
    /\ LET u == req[r].by
       IN IF IsParticipant(doc, u) /\ doc.st[Find(doc, u)] = "pending"
          THEN Proceed(r, "viewing", Viewed(doc, Find(doc, u)))
          ELSE Proceed(r, "log", Blank)

ReadSign(r) ==
    /\ At(r, "read", "sign")
    /\ CanSign(doc, req[r].by)
    /\ Proceed(r, "write", SignedBy(doc, Find(doc, req[r].by)))

ReadReject(r) ==
    /\ At(r, "read", "reject")
    /\ CanReject(doc, req[r].by)
    /\ Proceed(r, "write", RejectedBy(doc, Find(doc, req[r].by)))

(* get stores the whole copy when it links an account to an entry.         *)
ReadGet(r) ==
    /\ At(r, "read", "get")
    /\ Linked(doc, req[r].by) # doc
    /\ Proceed(r, "write", Linked(doc, req[r].by))

(* download_url logs once it has found the file asked for.                 *)
ReadDownload(r) ==
    /\ At(r, "read", "download")
    /\ doc.orig # NoFile
    /\ Proceed(r, "log", Blank)

(* A read-only operation, a get that links nothing, or a guard that fails. *)
ReadOnly(r) ==
    /\ req[r].pc = "read"
    /\ \/ ~Allowed(req[r].op, doc, req[r].by)
       \/ req[r].op = "get" /\ Linked(doc, req[r].by) = doc
    /\ Finish(r)
    /\ UNCHANGED <<doc, trail, now>>

LogView(r) ==
    /\ req[r].pc = "viewing"
    /\ Enter("viewed", req[r].by)
    /\ req' = [req EXCEPT ![r].pc = "write"]
    /\ UNCHANGED <<doc, now>>

(* replace(doc): the stored document becomes the request's copy.           *)
Write(r) ==
    /\ req[r].pc = "write"
    /\ doc' = req[r].new
    /\ IF req[r].op \in {"upload", "view", "get"}
       THEN Finish(r)
       ELSE req' = [req EXCEPT ![r].pc = "log"]
    /\ UNCHANGED <<trail, now>>

AfterLog_NeverFinalize(r) == "idle"
AfterLog(r) ==
    IF req[r].op = "sign" /\ req[r].new.status = "signed" THEN "finalize" ELSE "idle"

Log(r) ==
    /\ req[r].pc = "log"
    /\ Enter(EventOf(req[r].op), req[r].by)
    /\ IF AfterLog(r) = "idle" THEN Finish(r)
                               ELSE req' = [req EXCEPT ![r].pc = AfterLog(r)]
    /\ UNCHANGED <<doc, now>>

(* _finalize: list the events, build the reports, store the copy, log.     *)
Finalize(r) ==
    /\ req[r].pc = "finalize"
    /\ Goto(r, "seal", Certified(req[r].new, trail))
    /\ UNCHANGED <<doc, trail, now>>

Seal(r) ==
    /\ req[r].pc = "seal"
    /\ doc' = req[r].new
    /\ req' = [req EXCEPT ![r].pc = "sealed"]
    /\ UNCHANGED <<trail, now>>

LogCompleted(r) ==
    /\ req[r].pc = "sealed"
    /\ Enter("completed", NoUser)
    /\ Finish(r)
    /\ UNCHANGED <<doc, now>>

(* An await raises, or the worker dies: what was done stays done.          *)
Fail(r) ==
    /\ MayFail
    /\ req[r].pc # "idle"
    /\ Finish(r)
    /\ UNCHANGED <<doc, trail, now>>

Tick ==
    /\ now < Horizon
    /\ now' = now + 1
    /\ UNCHANGED <<doc, trail, req>>

Read(r) ==
    \/ ReadUpdate(r) \/ ReadCancel(r) \/ ReadUpload(r) \/ ReadParticipants(r)
    \/ ReadFields(r) \/ ReadSend(r) \/ ReadView(r) \/ ReadSign(r)
    \/ ReadReject(r) \/ ReadGet(r) \/ ReadDownload(r) \/ ReadOnly(r)

Handle(r) ==
    \/ ExpireWrite(r) \/ ExpireLog(r) \/ Read(r) \/ LogView(r) \/ Write(r)
    \/ Log(r) \/ Finalize(r) \/ Seal(r) \/ LogCompleted(r)

Init ==
    /\ \/ \E m \in Modes, dl \in Deadlines : doc = Created(m, dl)
       \/ \E l \in Minutas, p \in Pdfs : doc = FromMinuta(l, p)
    /\ trail = {}
    /\ req = [r \in Requests |-> Idle]
    /\ now = 0

Next ==
    \/ Tick
    \/ \E r \in Requests :
         \/ \E op \in Ops, u \in Users : Arrive(r, op, u)
         \/ Handle(r)
         \/ Fail(r)

Spec == Init /\ [][Next]_vars

(***************************************************************************)
(* Properties                                                              *)
(***************************************************************************)

(* Every variable keeps its type, and so does the copy in each request.    *)
TypeOK ==
    /\ IsDoc(doc)
    /\ trail \subseteq TrailEntries
    /\ DOMAIN req = Requests /\ \A r \in Requests : IsSlot(req[r])
    /\ now \in Nat

(* A participant recorded as completed has a stamp on the signed PDF, and  *)
(* that PDF is a stamping of the document's present original: no order of  *)
(* uploads, edits and signatures keeps a signature without its stamp or    *)
(* moves it to another file (upload_pdf clears signed_file only; sign      *)
(* stamps signed_file or original_file).                                   *)
StampsKept(d) ==
    /\ \A i \in Index(d) : d.st[i] = "completed" => i \in d.signed.by
    /\ d.signed.by # {} => d.signed.pdf = d.orig /\ d.orig # NoFile
SignaturesStamped == StampsKept(doc)

(* An agreement that says "signed" was completed by every participant in   *)
(* the very document that says so, however the requests overlapped.        *)
AllCompleted(d) ==
    d.status = "signed" => \A i \in Index(d) : d.st[i] = "completed"
SignedByAll == AllCompleted(doc)

(* With ordered signing nobody completes while an earlier participant has  *)
(* not acted, whatever resends and rejections come between                 *)
(* (_next_ordered_participant).                                            *)
InOrder(d) ==
    d.mode = "ordered" =>
        \A i, j \in Index(d) :
            d.st[i] = "completed" /\ Precedes(d, j, i) => d.st[j] \notin Waiting
OrderKept == InOrder(doc)

(* A certificate describes exactly the signed file the agreement carries,  *)
(* with the stamp of every participant on it: resends, rejections and      *)
(* cancellations after _finalize never leave a certificate for another     *)
(* file.                                                                   *)
CertFits(d) ==
    d.cert.of.by # {} =>
        /\ d.cert.of = d.signed
        /\ d.signed.by = Index(d)
        /\ \A i \in Index(d) : d.st[i] \notin Waiting
CertifiesFile == CertFits(doc)

(* Whatever left the editable statuses by being sent has a PDF,            *)
(* participants and fields: no overlapping edit empties an agreement that  *)
(* people are signing (send, update_participants, update_fields).          *)
Complete(d) ==
    d.status \in Open \cup {"signed", "rejected", "expired"} =>
        d.orig # NoFile /\ d.people # <<>> /\ d.placed
SentComplete == Complete(doc)

(* The request in slot q is on its way to certify the copy it stored.      *)
WillSeal(q) ==
    /\ q.op = "sign"
    /\ q.pc \in {"log", "finalize", "seal"}
    /\ q.new.status = "signed"

(* If no await raises, an agreement never rests as "signed" without its    *)
(* certificate: some request is still on its way to _finalize, even when   *)
(* other requests overwrite the document meanwhile.                        *)
SignedGetsSealed ==
    ~MayFail /\ doc.status = "signed" /\ doc.cert.of.by = {} =>
        \E r \in Requests : WillSeal(req[r])

(* One request at a time: an entry "signed" in the trail is backed by a    *)
(* stored signature (sign stores the document before it logs), even when   *)
(* requests are cut short.                                                 *)
TrailHonest ==
    \A u \in Users : [type |-> "signed", by |-> u] \in trail =>
        \E i \in Index(doc) :
            doc.people[i].who = u /\ doc.st[i] \in {"completed", "rejected"}

(* One request at a time: once certified, neither the signed file nor its  *)
(* certificate changes any more, though the status still may.              *)
SealKept ==
    [][doc.cert.of.by # {} =>
         doc'.cert = doc.cert /\ doc'.signed = doc.signed]_vars

(* The audit report issued with a certificate shows the signature of every *)
(* participant the certificate lists.                                      *)
CertifiedTrail ==
    doc.cert.of.by # {} =>
        \A i \in Index(doc) : doc.people[i].who \in doc.cert.trail

=============================================================================
