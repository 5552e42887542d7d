------------------------------ MODULE Minutas ------------------------------
(***************************************************************************)
(* Contract proposals (src/modules/contract_proposals/service.py): the     *)
(* minutas of one conversation, and the administrators' section templates  *)
(* that are copied into them (src/modules/contract_sections/service.py).   *)
(*                                                                         *)
(* A handler reads a whole document, tests its copy, and replaces the      *)
(* stored document at the end.  Reading a minuta may store it too, when    *)
(* templates came or went; a change of a template stores every minuta      *)
(* under negotiation from one list it read.                                *)
(*                                                                         *)
(* The text of a minuta is what the parties wrote, as the number of the    *)
(* edit, and the revision of each template; MinutaSections orders them.    *)
(* Left out: the party and foro fields, which are edited as the sections   *)
(* are, and the event each handler ends with.                              *)
(***************************************************************************)
EXTENDS Handlers, Naturals

CONSTANTS
    Minutas,       \* the ids that new minutas get
    Agreed,        \* the ids that agreements made from them get
    Templates,     \* the administrators' section templates
    Unlocked,      \* those whose is_company_editable is set
    MaxRevision,   \* bound on the revisions of a template
    MinutaMoves    \* bound on the requests made

ASSUME MinutasAssumption == /\ Unlocked \subseteq Templates
                            /\ MaxRevision \in Nat \ {0} /\ MinutaMoves \in Nat
                            /\ "no agreement" \notin Minutas

VARIABLES
    minuta,     \* the contract_proposals collection
    template,   \* the contract_section_templates collection
    agreement,  \* the agreements made by approvals
    mreq,       \* where each request is
    mmoves      \* requests made so far

mvars == <<overlap, faults, minuta, template, agreement, mreq, mmoves>>

NoMinuta    == [status |-> "absent"]
NoAgreement == "no agreement"
Unwritten   == [of |-> NoAgreement]

(* What a minuta holds of a template: nothing, a revision, or the text the *)
(* offerer gave an unlocked section instead.                               *)
Missing  == 0
OwnText  == MaxRevision + 1
Contents == 0 .. OwnText

Texts == [admin : [Templates -> Contents], own : 0 .. MinutaMoves]

NoPdf == [made |-> FALSE]
Pdfs  == {NoPdf} \cup [made : {TRUE}, text : Texts]

Editable    == {"draft", "changes requested"}
Negotiating == Editable \cup {"pending approval"}
Statuses    == Negotiating \cup {"sent to agreements", "rejected"}

MinutaDocs == [status : Statuses, text : Texts, pdf : Pdfs,
               agreement : Agreed \cup {NoAgreement}]

TemplateDocs == [rev : 0 .. MaxRevision, active : BOOLEAN]

AgreementDocs == {Unwritten} \cup [of : Minutas, text : Texts, pdf : Pdfs]

PartyOps == {"get", "update", "generate", "approve", "request changes",
             "reject"}

CreateWork   == [at : {"list templates", "insert"}, text : Texts,
                 edit : 0 .. MinutaMoves]
PartyWork    == [at : {"sync", "resave", "agree", "replace"}, op : PartyOps,
                 m : Minutas, doc : MinutaDocs, edit : 0 .. MinutaMoves]
TemplateWork == [at : {"list minutas"}, t : Templates, tmpl : TemplateDocs]
PushWork     == [at : {"push"}, docs : [Minutas -> MinutaDocs \cup {NoMinuta}]]

MinutaRequests == {Idle} \cup CreateWork \cup PartyWork \cup TemplateWork
                         \cup PushWork

TypeOKMinutas ==
    /\ minuta \in [Minutas -> MinutaDocs \cup {NoMinuta}]
    /\ template \in [Templates -> TemplateDocs]
    /\ agreement \in [Agreed -> AgreementDocs]
    /\ mreq \in [Requests -> MinutaRequests]
    /\ mmoves \in 0 .. MinutaMoves

(* A template that is not there yet has revision 0; some may be at first.  *)
MinutasInit ==
    /\ HandlersInit
    /\ minuta = [m \in Minutas |-> NoMinuta]
    /\ template \in [Templates -> {[rev |-> 0, active |-> FALSE],
                                   [rev |-> 1, active |-> TRUE]}]
    /\ agreement = [a \in Agreed |-> Unwritten]
    /\ mreq = [r \in Requests |-> Idle]
    /\ mmoves = 0

(* find_active_for_conversation: neither rejected nor absent.              *)
Live == {m \in Minutas :
           minuta[m].status \in Negotiating \cup {"sent to agreements"}}

(* What add_missing_admin_sections and the filter before it leave of the   *)
(* templates' sections: contents that are there already are kept.          *)
SyncedAdmin(admin) ==
    [t \in Templates |->
        IF ~template[t].active THEN Missing
        ELSE IF admin[t] = Missing THEN template[t].rev ELSE admin[t]]

Synced(d) == [d EXCEPT !.text.admin = SyncedAdmin(@)]

Upserted_OnlyAdds(d, t, tmpl) == [d EXCEPT !.text.admin[t] = tmpl.rev]

(* upsert_template_section or remove_template_section for template t.      *)
Upserted(d, t, tmpl) ==
    [d EXCEPT !.text.admin[t] = IF tmpl.active THEN tmpl.rev ELSE Missing]

StartMinuta(r) ==
    /\ MayStart(mreq, r)
    /\ mmoves < MinutaMoves
    /\ mmoves' = mmoves + 1

(***************************************************************************)
(* create                                                                  *)
(***************************************************************************)

FindNone(r) ==
    /\ StartMinuta(r)
    /\ Live = {}
    /\ Goes(mreq, r, [at   |-> "list templates", edit |-> mmoves + 1,
                      text |-> [admin |-> [t \in Templates |-> Missing],
                                own   |-> 0]])
    /\ UNCHANGED <<overlap, faults, minuta, template, agreement>>

ListTemplates(r) ==
    LET q == mreq[r] IN
    /\ q.at = "list templates"
    /\ Goes(mreq, r, [q EXCEPT !.at = "insert",
                               !.text = [admin |-> SyncedAdmin(@.admin),
                                         own   |-> q.edit]])
    /\ UNCHANGED <<overlap, faults, minuta, template, agreement, mmoves>>

InsertMinuta(r) ==
    LET q == mreq[r] IN
    /\ q.at = "insert"
    /\ \E m \in Minutas :
         /\ minuta[m] = NoMinuta
         /\ minuta' = [minuta EXCEPT ![m] =
                        [status |-> "draft", text |-> q.text, pdf |-> NoPdf,
                         agreement |-> NoAgreement]]
    /\ Ends(mreq, r)
    /\ UNCHANGED <<overlap, faults, template, agreement, mmoves>>

(***************************************************************************)
(* The operations on a stored minuta                                       *)
(***************************************************************************)

(* The handler of op has read minuta m, and goes on at a given step.       *)
ReadMinuta(r, op, m, at) ==
    /\ StartMinuta(r)
    /\ minuta[m] # NoMinuta
    /\ Goes(mreq, r, [at |-> at, op |-> op, m |-> m, doc |-> minuta[m],
                      edit |-> mmoves + 1])
    /\ UNCHANGED <<overlap, faults, minuta, template, agreement>>

GetProposal(r, m) ==
    /\ minuta[m].status \in Negotiating
    /\ ReadMinuta(r, "get", m, "sync")

UpdateProposal(r, m) ==
    /\ minuta[m].status \in Editable
    /\ ReadMinuta(r, "update", m, "sync")

GeneratePdf(r, m) ==
    /\ minuta[m].status \in Editable
    /\ ReadMinuta(r, "generate", m, "sync")

ApproveProposal_AnyStatus(r, m) ==
    /\ minuta[m] # NoMinuta
    /\ minuta[m].pdf # NoPdf
    /\ ReadMinuta(r, "approve", m, "agree")

ApproveProposal(r, m) ==
    /\ minuta[m].status = "pending approval"
    /\ minuta[m].pdf # NoPdf
    /\ ReadMinuta(r, "approve", m, "agree")

RequestChanges(r, m) ==
    /\ minuta[m].status = "pending approval"
    /\ ReadMinuta(r, "request changes", m, "replace")

RejectProposal(r, m) ==
    /\ minuta[m].status = "pending approval"
    /\ ReadMinuta(r, "reject", m, "replace")

AfterSync(q) == IF q.op = "get" THEN Idle ELSE [q EXCEPT !.at = "replace"]

(* _sync_missing_admin_sections: lists the active templates, and stores    *)
(* the document if sections came or went.                                  *)
Sync(r) ==
    LET q == mreq[r] IN
    /\ q.at = "sync"
    /\ IF Synced(q.doc) # q.doc
         THEN Goes(mreq, r, [q EXCEPT !.at = "resave", !.doc = Synced(@)])
         ELSE Goes(mreq, r, AfterSync(q))
    /\ UNCHANGED <<overlap, faults, minuta, template, agreement, mmoves>>

Resave(r) ==
    LET q == mreq[r] IN
    /\ q.at = "resave"
    /\ minuta' = [minuta EXCEPT ![q.m] = q.doc]
    /\ Goes(mreq, r, AfterSync(q))
    /\ UNCHANGED <<overlap, faults, template, agreement, mmoves>>

Agree_Fresh(r) ==
    LET q == mreq[r] IN
    /\ q.at = "agree"
    /\ \E a \in Agreed :
         /\ agreement[a] = Unwritten
         /\ agreement' = [agreement EXCEPT ![a] =
                            [of |-> q.m, text |-> minuta[q.m].text,
                             pdf |-> q.doc.pdf]]
         /\ Goes(mreq, r, [q EXCEPT !.at = "replace", !.doc.agreement = a])
    /\ UNCHANGED <<overlap, faults, minuta, template, mmoves>>

(* approve renders the contract again from the copy, uploads it, and has   *)
(* the agreement created before the minuta says so.                        *)
Agree(r) ==
    LET q == mreq[r] IN
    /\ q.at = "agree"
    /\ \E a \in Agreed :
         /\ agreement[a] = Unwritten
         /\ agreement' = [agreement EXCEPT ![a] =
                            [of |-> q.m, text |-> q.doc.text, pdf |-> q.doc.pdf]]
         /\ Goes(mreq, r, [q EXCEPT !.at = "replace", !.doc.agreement = a])
    /\ UNCHANGED <<overlap, faults, minuta, template, mmoves>>

(* _normalize_sections: the offerer writes, and edits or drops unlocked    *)
(* sections of templates; the locked ones stay as the copy has them.       *)
Edited(admin) ==
    {b \in [Templates -> Contents] :
        \A t \in Templates :
            \/ b[t] = admin[t]
            \/ /\ t \in Unlocked
               /\ admin[t] # Missing
               /\ b[t] \in {Missing, OwnText}}

(* ContractProposalsRepository.replace, whatever is stored by now: what    *)
(* each operation has made of its copy.                                    *)
Replace(r) ==
    LET q == mreq[r]
        stores(d) == minuta' = [minuta EXCEPT ![q.m] = d]
        moves(s)  == stores([q.doc EXCEPT !.status = s])
    IN /\ q.at = "replace"
       /\ \/ /\ q.op = "update"
             /\ \E b \in Edited(q.doc.text.admin) :
                  stores([q.doc EXCEPT !.text = [admin |-> b, own |-> q.edit],
                                       !.status = "draft"])
          \/ /\ q.op = "generate"
             /\ stores([q.doc EXCEPT !.pdf = [made |-> TRUE, text |-> q.doc.text],
                                     !.status = "pending approval"])
          \/ q.op = "approve" /\ moves("sent to agreements")
          \/ q.op = "request changes" /\ moves("changes requested")
          \/ q.op = "reject" /\ moves("rejected")
       /\ Ends(mreq, r)
       /\ UNCHANGED <<overlap, faults, template, agreement, mmoves>>

(***************************************************************************)
(* The administrators' templates                                           *)
(***************************************************************************)

StoreTemplate(r, t, d) ==
    /\ StartMinuta(r)
    /\ template' = [template EXCEPT ![t] = d]
    /\ Goes(mreq, r, [at |-> "list minutas", t |-> t, tmpl |-> d])
    /\ UNCHANGED <<overlap, faults, minuta, agreement>>

CreateTemplate(r, t) ==
    /\ template[t].rev = 0
    /\ \E b \in BOOLEAN : StoreTemplate(r, t, [rev |-> 1, active |-> b])

(* update: a new revision, and is_active as the patch may say.             *)
UpdateTemplate(r, t) ==
    /\ template[t].rev \in 1 .. MaxRevision - 1
    /\ \E b \in BOOLEAN :
         StoreTemplate(r, t, [rev |-> template[t].rev + 1, active |-> b])

DeleteTemplate(r, t) ==
    /\ template[t].active
    /\ StoreTemplate(r, t, [template[t] EXCEPT !.active = FALSE])

Nothing == [m \in Minutas |-> NoMinuta]

Pushing(docs) == IF docs = Nothing THEN Idle ELSE [at |-> "push", docs |-> docs]

(* list_negotiating, and the minutas in that list that the change alters.  *)
ListMinutas(r) ==
    LET q == mreq[r]
        alters(m) == /\ minuta[m].status \in Negotiating
                     /\ Upserted(minuta[m], q.t, q.tmpl) # minuta[m]
    IN /\ q.at = "list minutas"
       /\ Goes(mreq, r, Pushing([m \in Minutas |->
                 IF alters(m) THEN Upserted(minuta[m], q.t, q.tmpl)
                              ELSE NoMinuta]))
       /\ UNCHANGED <<overlap, faults, minuta, template, agreement, mmoves>>

(* reorder, from its call of _resync_negotiating_orders: the minutas whose *)
(* order changes are stored again as they were read.                       *)
Reorder(r) ==
    /\ StartMinuta(r)
    /\ \E ms \in SUBSET {m \in Minutas : minuta[m].status \in Negotiating} :
         /\ ms # {}
         /\ Goes(mreq, r, Pushing([m \in Minutas |->
                   IF m \in ms THEN minuta[m] ELSE NoMinuta]))
    /\ UNCHANGED <<overlap, faults, minuta, template, agreement>>

Push(r) ==
    LET q == mreq[r] IN
    /\ q.at = "push"
    /\ \E m \in Minutas :
         /\ q.docs[m] # NoMinuta
         /\ minuta' = [minuta EXCEPT ![m] = q.docs[m]]
         /\ Goes(mreq, r, Pushing([q.docs EXCEPT ![m] = NoMinuta]))
    /\ UNCHANGED <<overlap, faults, template, agreement, mmoves>>

MinutaRaises(r) ==
    Raises(mreq, r)
    /\ UNCHANGED <<overlap, faults, minuta, template, agreement, mmoves>>

MinutaStep(r) ==
    \/ FindNone(r) \/ ListTemplates(r) \/ InsertMinuta(r)
    \/ \E m \in Minutas :
         \/ GetProposal(r, m) \/ UpdateProposal(r, m) \/ GeneratePdf(r, m)
         \/ ApproveProposal(r, m) \/ RequestChanges(r, m) \/ RejectProposal(r, m)
    \/ Sync(r) \/ Resave(r) \/ Agree(r) \/ Replace(r)
    \/ \E t \in Templates :
         CreateTemplate(r, t) \/ UpdateTemplate(r, t) \/ DeleteTemplate(r, t)
    \/ ListMinutas(r) \/ Reorder(r) \/ Push(r)
    \/ MinutaRaises(r)

MinutasNext == \E r \in Requests : MinutaStep(r)

MinutasSpec == MinutasInit /\ [][MinutasNext]_mvars

(***************************************************************************)
(* Properties                                                              *)
(***************************************************************************)

(* What the offerer wrote when it submitted a minuta is what stands for    *)
(* approval and what is agreed, and a minuta sent to agreements names an   *)
(* agreement with its very text: an edit, an approval or a change of a     *)
(* template that overlaps generate_pdf or approve cannot slip in behind    *)
(* the PDF (approve stores the copy it had the agreement made from,        *)
(* service.py:908).  Templates' sections may: see the README.              *)
SubmittedText ==
    \A m \in Minutas :
        minuta[m].status = "pending approval" =>
            minuta[m].pdf.made /\ minuta[m].pdf.text.own = minuta[m].text.own

AgreedText ==
    \A a \in Agreed :
        agreement[a] # Unwritten =>
            /\ agreement[a].pdf.made
            /\ agreement[a].pdf.text.own = agreement[a].text.own

SentText ==
    \A m \in Minutas :
        minuta[m].status = "sent to agreements" =>
            /\ minuta[m].agreement \in Agreed
            /\ agreement[minuta[m].agreement].of = m
            /\ agreement[minuta[m].agreement].text = minuta[m].text

(* One request at a time and no failure: the conversation has one minuta   *)
(* that counts, and a minuta becomes one agreement and then says so.       *)
AgreedOnce ==
    ~overlap /\ ~faults =>
        /\ \A m, n \in Live : m = n
        /\ \A a, b \in Agreed :
             agreement[a] # Unwritten /\ agreement[a].of = agreement[b].of
                 => a = b
        /\ AllIdle(mreq) =>
             \A a \in Agreed : agreement[a] # Unwritten =>
                 minuta[agreement[a].of].status = "sent to agreements"

(* Both: what is submitted is what is agreed, and it is agreed once.       *)
AgreedAsSubmitted == SubmittedText /\ AgreedText /\ SentText /\ AgreedOnce

(* One request at a time and no failure: a minuta under negotiation has    *)
(* the current revision of every active locked template, and no section of *)
(* an inactive one, although only changes are pushed and reads add and     *)
(* drop but never update.                                                  *)
TemplatesReach ==
    ~overlap /\ ~faults /\ AllIdle(mreq) =>
        \A m \in Minutas, t \in Templates :
            minuta[m].status \in Negotiating =>
                /\ ~template[t].active => minuta[m].text.admin[t] = Missing
                /\ template[t].active /\ t \notin Unlocked =>
                       minuta[m].text.admin[t] = template[t].rev

=============================================================================
