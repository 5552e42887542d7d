---------------------------- MODULE MinutasProofs ----------------------------
(***************************************************************************)
(* Theorems about Minutas, for any number of minutas, templates, agreements*)
(* and requests, and then about MinutaSections, the order of the sections  *)
(* of one of them.                                                         *)
(*                                                                         *)
(* The argument, whatever overlaps: a document that stands for approval    *)
(* has a PDF of the very text its offerer wrote (Submitted), wherever it   *)
(* is - stored, or in the copy of a request that may store it again        *)
(* (Fits).  Templates' sections change neither.  A copy that is about to   *)
(* say that it was sent to agreements names an agreement made from it      *)
(* (Backed), and an agreement is written once.                             *)
(*                                                                         *)
(* One request at a time and without failures (SInv), what a request has   *)
(* read stays so (Sure): none is created while a minuta counts, a minuta   *)
(* whose agreement was made is on its way to say so (SentBy), and one that *)
(* lacks what a template says is still to be listed or stored (ReachedBy), *)
(* for what is not listed has it already.                                  *)
(***************************************************************************)
EXTENDS Minutas, MinutaSections, FiniteSetTheorems,
        WellFoundedInduction, TLAPS

Submitted(d) ==
    d.status = "pending approval" => d.pdf.made /\ d.pdf.text.own = d.text.own

Backed(d, m) ==
    /\ d.agreement \in Agreed
    /\ agreement[d.agreement] # Unwritten
    /\ agreement[d.agreement].of = m
    /\ agreement[d.agreement].text = d.text

Stands(d, m) ==
    Submitted(d) /\ (d.status = "sent to agreements" => Backed(d, m))

Fits(q) ==
    /\ q.at \in {"sync", "resave"} =>
           /\ q.op \in {"get", "update", "generate"}
           /\ q.doc.status \in Negotiating /\ Submitted(q.doc)
    /\ q.at = "agree" =>
           /\ q.op = "approve"
           /\ q.doc.status = "pending approval" /\ Submitted(q.doc)
    /\ q.at = "replace" /\ q.op = "approve" => Backed(q.doc, q.m)
    /\ q.at = "push" =>
           \A m \in Minutas : q.docs[m] # NoMinuta =>
               q.docs[m].status \in Negotiating /\ Submitted(q.docs[m])

AllFit == \A r \in Requests : Fits(mreq[r])

Standing == \A m \in Minutas : Stands(minuta[m], m)

MInv == TypeOKMinutas /\ AllFit /\ Standing /\ AgreedText

-----------------------------------------------------------------------------
(* Lemmas                                                                  *)

(* The step a request is at tells which fields it has.                     *)
LEMMA Shapes ==
    \A q \in MinutaRequests :
        /\ q.at \in {"list templates", "insert"} => q \in CreateWork
        /\ q.at \in {"sync", "resave", "agree", "replace"} => q \in PartyWork
        /\ q.at = "list minutas" => q \in TemplateWork
        /\ q.at = "push" => q \in PushWork
<1>1. Idle.at = "idle"
  BY DEF Idle
<1>2. \A q \in CreateWork : q.at \in {"list templates", "insert"}
  BY DEF CreateWork
<1>3. \A q \in PartyWork : q.at \in {"sync", "resave", "agree", "replace"}
  BY DEF PartyWork
<1>4. \A q \in TemplateWork : q.at = "list minutas"
  BY DEF TemplateWork
<1>5. \A q \in PushWork : q.at = "push"
  BY DEF PushWork
<1>. QED  BY <1>1, <1>2, <1>3, <1>4, <1>5 DEF MinutaRequests

(* A minuta that is not absent is a document.                              *)
LEMMA Documents ==
    /\ \A d \in MinutaDocs \cup {NoMinuta} : d # NoMinuta => d \in MinutaDocs
    /\ NoMinuta.status = "absent"
    /\ \A d \in MinutaDocs : d.status \in Statuses /\ d # NoMinuta
<1>1. NoMinuta.status = "absent"
  BY DEF NoMinuta
<1>2. \A d \in MinutaDocs : d.status \in Statuses
  BY DEF MinutaDocs
<1>3. "absent" \notin Statuses
  BY DEF Statuses, Negotiating, Editable
<1>. QED  BY <1>1, <1>2, <1>3

(* A request moves, and at most stores documents that stand; what          *)
(* agreements are written stay.                                            *)
LEMMA Keeps ==
    ASSUME MInv, NEW r \in Requests, NEW q \in MinutaRequests,
           Goes(mreq, r, q), Fits(q)',
           minuta' \in [Minutas -> MinutaDocs \cup {NoMinuta}],
           \A m \in Minutas :
               minuta'[m] = minuta[m] \/ Stands(minuta[m], m)',
           template' \in [Templates -> TemplateDocs],
           agreement' \in [Agreed -> AgreementDocs],
           \A a \in Agreed :
               agreement[a] # Unwritten => agreement'[a] = agreement[a],
           AgreedText',
           mmoves' \in 0 .. MinutaMoves
    PROVE  MInv'
<1>1. /\ mreq' \in [Requests -> MinutaRequests] /\ mreq'[r] = q
      /\ \A s \in Requests \ {r} : mreq'[s] = mreq[s]
  BY DEF MInv, TypeOKMinutas, Goes
<1>2. TypeOKMinutas'
  BY <1>1 DEF TypeOKMinutas
<1>3. \A d, m : Backed(d, m) => Backed(d, m)'
  BY DEF Backed
<1>4. AllFit'
  <2> SUFFICES ASSUME NEW s \in Requests PROVE Fits(mreq[s])'
    BY DEF AllFit
  <2>1. CASE s = r
    BY <1>1, <2>1 DEF Fits, Backed
  <2>2. CASE s # r
    <3>1. Fits(mreq'[s])
      BY <1>1, <2>2 DEF MInv, AllFit
    <3>2. Backed(mreq'[s].doc, mreq'[s].m) => Backed(mreq[s].doc, mreq[s].m)'
      BY DEF Backed
    <3>. QED  BY <3>1, <3>2 DEF Fits
  <2>. QED  BY <2>1, <2>2
<1>5. Standing'
  <2> SUFFICES ASSUME NEW m \in Minutas PROVE Stands(minuta[m], m)'
    BY DEF Standing
  <2>1. CASE minuta'[m] = minuta[m]
    <3>1. Stands(minuta'[m], m)
      BY <2>1 DEF MInv, Standing
    <3>. QED  BY <3>1 DEF Stands, Submitted, Backed
  <2>. QED  BY <2>1
<1>. QED  BY <1>2, <1>4, <1>5 DEF MInv

(* The same, for a request that leaves all collections alone.              *)
LEMMA Moves ==
    ASSUME MInv, NEW r \in Requests, NEW q \in MinutaRequests,
           Goes(mreq, r, q), Fits(q),
           UNCHANGED <<minuta, template, agreement>>,
           mmoves' \in 0 .. MinutaMoves
    PROVE  MInv'
<1>1. Fits(q)'
  BY DEF Fits, Backed
<1>2. AgreedText'
  BY DEF MInv, AgreedText
<1>3. /\ minuta' \in [Minutas -> MinutaDocs \cup {NoMinuta}]
      /\ template' \in [Templates -> TemplateDocs]
      /\ agreement' \in [Agreed -> AgreementDocs]
  BY DEF MInv, TypeOKMinutas
<1>. QED  BY <1>1, <1>2, <1>3, Keeps

(* And for one that stores one document.                                   *)
LEMMA Stores ==
    ASSUME MInv, NEW r \in Requests, NEW q \in MinutaRequests,
           Goes(mreq, r, q), Fits(q),
           NEW m \in Minutas, NEW d \in MinutaDocs, Stands(d, m),
           minuta' = [minuta EXCEPT ![m] = d],
           UNCHANGED <<template, agreement, mmoves>>
    PROVE  MInv'
<1>1. Fits(q)'
  BY DEF Fits, Backed
<1>2. AgreedText'
  BY DEF MInv, AgreedText
<1>3. /\ minuta' \in [Minutas -> MinutaDocs \cup {NoMinuta}]
      /\ template' \in [Templates -> TemplateDocs]
      /\ agreement' \in [Agreed -> AgreementDocs]
      /\ mmoves' \in 0 .. MinutaMoves
  BY DEF MInv, TypeOKMinutas
<1>4. \A n \in Minutas : minuta'[n] = minuta[n] \/ Stands(minuta[n], n)'
  <2> SUFFICES ASSUME NEW n \in Minutas, n = m PROVE Stands(minuta[n], n)'
    BY DEF MInv, TypeOKMinutas
  <2>1. minuta'[n] = d
    BY DEF MInv, TypeOKMinutas
  <2>2. Stands(minuta'[n], n)
    BY <2>1
  <2>. QED  BY <2>2 DEF Stands, Submitted, Backed
<1>. QED  BY <1>1, <1>2, <1>3, <1>4, Keeps

LEMMA Typed ==
    ASSUME MInv
    PROVE  /\ minuta \in [Minutas -> MinutaDocs \cup {NoMinuta}]
           /\ template \in [Templates -> TemplateDocs]
           /\ agreement \in [Agreed -> AgreementDocs]
           /\ mreq \in [Requests -> MinutaRequests]
           /\ mmoves \in 0 .. MinutaMoves
           /\ \A r \in Requests : Fits(mreq[r])
           /\ \A m \in Minutas : Stands(minuta[m], m)
BY DEF MInv, TypeOKMinutas, AllFit, Standing

LEMMA IdleFits == Idle \in MinutaRequests /\ Fits(Idle)
BY DEF Idle, MinutaRequests, Fits

(* A request that starts counts.                                           *)
LEMMA Counts ==
    ASSUME MInv, NEW r \in Requests, StartMinuta(r)
    PROVE  mmoves + 1 \in 0 .. MinutaMoves /\ mmoves' \in 0 .. MinutaMoves
<1>1. mmoves \in 0 .. MinutaMoves /\ mmoves < MinutaMoves /\ mmoves' = mmoves + 1
  BY Typed DEF StartMinuta
<1>2. MinutaMoves \in Nat
  BY MinutasAssumption
<1>. QED  BY <1>1, <1>2

LEMMA Revisions ==
    /\ Missing \in Contents /\ OwnText \in Contents
    /\ \A d \in TemplateDocs : d.rev \in Contents
<1>1. MaxRevision \in Nat
  BY MinutasAssumption
<1>2. \A d \in TemplateDocs : d.rev \in 0 .. MaxRevision
  BY DEF TemplateDocs
<1>. QED  BY <1>1, <1>2 DEF Missing, OwnText, Contents

(* What templates do to a document is to its templates' sections.          *)
LEMMA OnlySections ==
    ASSUME NEW d \in MinutaDocs, NEW b \in [Templates -> Contents]
    PROVE  /\ [d EXCEPT !.text.admin = b] \in MinutaDocs
           /\ [d EXCEPT !.text.admin = b].status = d.status
           /\ Submitted(d) => Submitted([d EXCEPT !.text.admin = b])
<1> DEFINE x == [d.text EXCEPT !.admin = b]
           e == [d EXCEPT !.text = x]
<1>1. d.text \in Texts
  BY DEF MinutaDocs
<1>2. x \in Texts /\ x.own = d.text.own
  BY <1>1 DEF Texts
<1>3. e = [d EXCEPT !.text.admin = b]
  OBVIOUS
<1> HIDE DEF x
<1>4. e \in MinutaDocs /\ e.status = d.status /\ e.pdf = d.pdf /\ e.text = x
  BY <1>2 DEF MinutaDocs
<1> HIDE DEF e
<1>5. Submitted(d) => Submitted(e)
  BY <1>2, <1>4 DEF Submitted
<1>. QED  BY <1>3, <1>4, <1>5

LEMMA SyncedDoc ==
    ASSUME MInv, NEW d \in MinutaDocs
    PROVE  /\ Synced(d) \in MinutaDocs /\ Synced(d).status = d.status
           /\ Submitted(d) => Submitted(Synced(d))
<1>1. d.text.admin \in [Templates -> Contents]
  BY DEF MinutaDocs, Texts
<1>2. SyncedAdmin(d.text.admin) \in [Templates -> Contents]
  BY <1>1, Typed, Revisions DEF SyncedAdmin
<1>3. Synced(d) = [d EXCEPT !.text.admin = SyncedAdmin(d.text.admin)]
  BY DEF Synced
<1>. QED  BY <1>2, <1>3, OnlySections

LEMMA UpsertedDoc ==
    ASSUME NEW d \in MinutaDocs, NEW t \in Templates, NEW tmpl \in TemplateDocs
    PROVE  /\ Upserted(d, t, tmpl) \in MinutaDocs
           /\ Upserted(d, t, tmpl).status = d.status
           /\ Submitted(d) => Submitted(Upserted(d, t, tmpl))
<1> DEFINE c == IF tmpl.active THEN tmpl.rev ELSE Missing
           b == [d.text.admin EXCEPT ![t] = c]
<1>1. d.text.admin \in [Templates -> Contents]
  BY DEF MinutaDocs, Texts
<1>2. c \in Contents
  BY Revisions
<1>3. Upserted(d, t, tmpl) = [d EXCEPT !.text.admin = b]
  BY DEF Upserted
<1> HIDE DEF c
<1>4. b \in [Templates -> Contents]
  BY <1>1, <1>2
<1> HIDE DEF b
<1>. QED  BY <1>3, <1>4, OnlySections

-----------------------------------------------------------------------------
(* The steps                                                               *)

LEMMA MinutasStart == MinutasInit => MInv
<1> SUFFICES ASSUME MinutasInit PROVE MInv
  OBVIOUS
<1>1. /\ minuta = [m \in Minutas |-> NoMinuta]
      /\ agreement = [a \in Agreed |-> Unwritten]
      /\ mreq = [r \in Requests |-> Idle] /\ mmoves = 0
      /\ template \in [Templates -> {[rev |-> 0, active |-> FALSE],
                                     [rev |-> 1, active |-> TRUE]}]
  BY DEF MinutasInit
<1>2. TypeOKMinutas
  <2>1. MaxRevision \in Nat \ {0} /\ MinutaMoves \in Nat
    BY MinutasAssumption
  <2>2. mmoves \in 0 .. MinutaMoves
    BY <1>1, <2>1
  <2>3. 0 \in 0 .. MaxRevision /\ 1 \in 0 .. MaxRevision
    BY <2>1
  <2>4. /\ [rev |-> 0, active |-> FALSE] \in TemplateDocs
        /\ [rev |-> 1, active |-> TRUE] \in TemplateDocs
    BY <2>3 DEF TemplateDocs
  <2>5. template \in [Templates -> TemplateDocs]
    BY <1>1, <2>4
  <2>6. /\ minuta \in [Minutas -> MinutaDocs \cup {NoMinuta}]
        /\ agreement \in [Agreed -> AgreementDocs]
        /\ mreq \in [Requests -> MinutaRequests]
    BY <1>1, IdleFits DEF AgreementDocs
  <2>. QED  BY <2>2, <2>5, <2>6 DEF TypeOKMinutas
<1>3. AllFit
  BY <1>1, IdleFits DEF AllFit
<1>4. Standing
  BY <1>1, Documents DEF Standing, Stands, Submitted
<1>5. AgreedText
  BY <1>1 DEF AgreedText
<1>. QED  BY <1>2, <1>3, <1>4, <1>5 DEF MInv

LEMMA CreatesKeep ==
    ASSUME MInv, NEW r \in Requests,
           FindNone(r) \/ ListTemplates(r) \/ InsertMinuta(r)
    PROVE  MInv'
<1>1. CASE FindNone(r)
  <2> DEFINE q == [at |-> "list templates", edit |-> mmoves + 1,
                   text |-> [admin |-> [t \in Templates |-> Missing], own |-> 0]]
  <2>1. mmoves + 1 \in 0 .. MinutaMoves /\ mmoves' \in 0 .. MinutaMoves
    BY <1>1, Counts DEF FindNone
  <2>2. 0 \in 0 .. MinutaMoves
    <3>1. MinutaMoves \in Nat
      BY MinutasAssumption
    <3>. QED  BY <3>1
  <2>3. q \in CreateWork
    BY <2>1, <2>2, Revisions DEF CreateWork, Texts
  <2>4. q \in MinutaRequests /\ Fits(q)
    BY <2>3 DEF MinutaRequests, Fits
  <2>5. Goes(mreq, r, q) /\ UNCHANGED <<minuta, template, agreement>>
    BY <1>1 DEF FindNone
  <2> HIDE DEF q
  <2>. QED  BY <2>1, <2>4, <2>5, Moves
<1>2. CASE ListTemplates(r)
  <2> DEFINE p == mreq[r]
             x == [admin |-> SyncedAdmin(p.text.admin), own |-> p.edit]
             q == [p EXCEPT !.at = "insert", !.text = x]
  <2>1. p.at = "list templates"
    BY <1>2 DEF ListTemplates
  <2>2. p \in CreateWork
    BY <2>1, Typed, Shapes
  <2>3. p.text.admin \in [Templates -> Contents] /\ p.edit \in 0 .. MinutaMoves
    BY <2>2 DEF CreateWork, Texts
  <2>4. SyncedAdmin(p.text.admin) \in [Templates -> Contents]
    BY <2>3, Typed, Revisions DEF SyncedAdmin
  <2>5. x \in Texts
    BY <2>3, <2>4 DEF Texts
  <2>6. Goes(mreq, r, q) /\ UNCHANGED <<minuta, template, agreement, mmoves>>
    BY <1>2 DEF ListTemplates
  <2> HIDE DEF x
  <2>7. q \in CreateWork /\ q.at = "insert"
    BY <2>2, <2>5 DEF CreateWork
  <2> HIDE DEF q
  <2>8. q \in MinutaRequests /\ Fits(q)
    BY <2>7 DEF MinutaRequests, Fits
  <2>9. mmoves' \in 0 .. MinutaMoves
    BY <2>6, Typed
  <2>. QED  BY <2>6, <2>8, <2>9, Moves
<1>3. CASE InsertMinuta(r)
  <2> DEFINE d == [status |-> "draft", text |-> mreq[r].text, pdf |-> NoPdf,
                   agreement |-> NoAgreement]
  <2>1. mreq[r].at = "insert"
    BY <1>3 DEF InsertMinuta
  <2>a. mreq[r] \in CreateWork
    BY <2>1, Typed, Shapes
  <2>2. mreq[r].text \in Texts
    BY <2>a DEF CreateWork
  <2>3. d \in MinutaDocs
    BY <2>2 DEF MinutaDocs, Statuses, Negotiating, Editable, Pdfs
  <2>4. \A m \in Minutas : Stands(d, m)
    BY DEF Stands, Submitted
  <2>5. PICK m \in Minutas : minuta' = [minuta EXCEPT ![m] = d]
    BY <1>3 DEF InsertMinuta
  <2>6. Goes(mreq, r, Idle) /\ UNCHANGED <<template, agreement, mmoves>>
    BY <1>3 DEF InsertMinuta, Ends
  <2> HIDE DEF d
  <2>. QED  BY <2>3, <2>4, <2>5, <2>6, IdleFits, Stores
<1>. QED  BY <1>1, <1>2, <1>3

(* The handlers that read a minuta, and where each goes on.                *)
LEMMA ReadsKeep ==
    ASSUME MInv, NEW r \in Requests, NEW m \in Minutas,
           NEW op \in PartyOps, NEW at \in {"sync", "agree", "replace"},
           ReadMinuta(r, op, m, at),
           at = "sync" => /\ op \in {"get", "update", "generate"}
                          /\ minuta[m].status \in Negotiating,
           at = "agree" => /\ op = "approve"
                           /\ minuta[m].status = "pending approval",
           at = "replace" => op # "approve"
    PROVE  MInv'
<1> DEFINE q == [at |-> at, op |-> op, m |-> m, doc |-> minuta[m],
                 edit |-> mmoves + 1]
<1>1. mmoves + 1 \in 0 .. MinutaMoves /\ mmoves' \in 0 .. MinutaMoves
  BY Counts DEF ReadMinuta
<1>2. minuta[m] \in MinutaDocs /\ Submitted(minuta[m])
  BY Typed, Documents DEF ReadMinuta, Stands
<1>3. q \in PartyWork
  BY <1>1, <1>2 DEF PartyWork
<1>4. q \in MinutaRequests
  BY <1>3 DEF MinutaRequests
<1>5. Fits(q)
  BY <1>2 DEF Fits
<1>6. Goes(mreq, r, q) /\ UNCHANGED <<minuta, template, agreement>>
  BY DEF ReadMinuta
<1> HIDE DEF q
<1>. QED  BY <1>1, <1>4, <1>5, <1>6, Moves

LEMMA PartiesRead ==
    ASSUME MInv, NEW r \in Requests, NEW m \in Minutas,
           \/ GetProposal(r, m) \/ UpdateProposal(r, m) \/ GeneratePdf(r, m)
           \/ ApproveProposal(r, m) \/ RequestChanges(r, m)
           \/ RejectProposal(r, m)
    PROVE  MInv'
<1>1. {"get", "update", "generate", "approve", "request changes", "reject"}
          \subseteq PartyOps
  BY DEF PartyOps
<1>2. Editable \subseteq Negotiating
  BY DEF Negotiating
<1>3. CASE GetProposal(r, m)
  BY <1>1, <1>3, ReadsKeep DEF GetProposal
<1>4. CASE UpdateProposal(r, m)
  BY <1>1, <1>2, <1>4, ReadsKeep DEF UpdateProposal
<1>5. CASE GeneratePdf(r, m)
  BY <1>1, <1>2, <1>5, ReadsKeep DEF GeneratePdf
<1>6. CASE ApproveProposal(r, m)
  BY <1>1, <1>6, ReadsKeep DEF ApproveProposal
<1>7. CASE RequestChanges(r, m)
  BY <1>1, <1>7, ReadsKeep DEF RequestChanges
<1>8. CASE RejectProposal(r, m)
  BY <1>1, <1>8, ReadsKeep DEF RejectProposal
<1>. QED  BY <1>3, <1>4, <1>5, <1>6, <1>7, <1>8

(* A request of a party that goes on with another copy.                    *)
LEMMA Advance ==
    ASSUME NEW p \in PartyWork, NEW at \in {"sync", "resave", "agree", "replace"},
           NEW d \in MinutaDocs
    PROVE  /\ [p EXCEPT !.at = at, !.doc = d] \in PartyWork
           /\ [p EXCEPT !.at = at, !.doc = d].at = at
           /\ [p EXCEPT !.at = at, !.doc = d].doc = d
           /\ [p EXCEPT !.at = at, !.doc = d].op = p.op
           /\ [p EXCEPT !.at = at, !.doc = d].m = p.m
           /\ [p EXCEPT !.at = at, !.doc = d] \in MinutaRequests
<1>1. [p EXCEPT !.at = at, !.doc = d] \in PartyWork
  BY DEF PartyWork
<1>2. /\ [p EXCEPT !.at = at, !.doc = d].at = at
      /\ [p EXCEPT !.at = at, !.doc = d].doc = d
      /\ [p EXCEPT !.at = at, !.doc = d].op = p.op
      /\ [p EXCEPT !.at = at, !.doc = d].m = p.m
  BY DEF PartyWork
<1>. QED  BY <1>1, <1>2 DEF MinutaRequests

(* After the sync a party's request has nothing left, or replaces.         *)
LEMMA AfterSyncFits ==
    ASSUME NEW p \in PartyWork, p.op \in {"get", "update", "generate"}
    PROVE  AfterSync(p) \in MinutaRequests /\ Fits(AfterSync(p))
<1>1. CASE p.op = "get"
  BY <1>1, IdleFits DEF AfterSync
<1>2. CASE p.op # "get"
  <2> DEFINE q == [p EXCEPT !.at = "replace"]
  <2>1. q \in PartyWork
    BY DEF PartyWork
  <2>2. q.at = "replace" /\ q.op = p.op
    BY DEF PartyWork
  <2>3. AfterSync(p) = q
    BY <1>2 DEF AfterSync
  <2> HIDE DEF q
  <2>4. q \in MinutaRequests
    BY <2>1 DEF MinutaRequests
  <2>5. Fits(q)
    BY <2>2 DEF Fits
  <2>. QED  BY <2>3, <2>4, <2>5
<1>. QED  BY <1>1, <1>2

LEMMA SyncKeeps ==
    ASSUME MInv, NEW r \in Requests, Sync(r)
    PROVE  MInv'
<1> DEFINE p == mreq[r]
           d == Synced(p.doc)
           q == [p EXCEPT !.at = "resave", !.doc = d]
<1>1. p.at = "sync"
  BY DEF Sync
<1>2. p \in PartyWork /\ Fits(p)
  BY <1>1, Typed, Shapes
<1>3. p.doc \in MinutaDocs
  BY <1>2 DEF PartyWork
<1>4. /\ p.op \in {"get", "update", "generate"}
      /\ p.doc.status \in Negotiating /\ Submitted(p.doc)
  BY <1>1, <1>2 DEF Fits
<1>5. d \in MinutaDocs /\ d.status \in Negotiating /\ Submitted(d)
  BY <1>3, <1>4, SyncedDoc
<1>7. /\ Goes(mreq, r, q) \/ Goes(mreq, r, AfterSync(p))
      /\ UNCHANGED <<minuta, template, agreement>>
      /\ mmoves' \in 0 .. MinutaMoves
  BY Typed DEF Sync
<1> HIDE DEF d
<1>6. q \in MinutaRequests /\ q.at = "resave" /\ q.doc = d /\ q.op = p.op
  BY <1>2, <1>5, Advance
<1> HIDE DEF q
<1>8. Fits(q)
  BY <1>4, <1>5, <1>6 DEF Fits
<1>9. AfterSync(p) \in MinutaRequests /\ Fits(AfterSync(p))
  BY <1>2, <1>4, AfterSyncFits
<1>. QED  BY <1>6, <1>7, <1>8, <1>9, Moves

LEMMA ResaveKeeps ==
    ASSUME MInv, NEW r \in Requests, Resave(r)
    PROVE  MInv'
<1> DEFINE p == mreq[r]
<1>1. p.at = "resave"
  BY DEF Resave
<1>2. p \in PartyWork /\ Fits(p)
  BY <1>1, Typed, Shapes
<1>3. p.doc \in MinutaDocs /\ p.m \in Minutas
  BY <1>2 DEF PartyWork
<1>4. /\ p.op \in {"get", "update", "generate"}
      /\ p.doc.status \in Negotiating /\ Submitted(p.doc)
  BY <1>1, <1>2 DEF Fits
<1>5. Stands(p.doc, p.m)
  BY <1>4 DEF Stands, Negotiating, Editable
<1>6. AfterSync(p) \in MinutaRequests /\ Fits(AfterSync(p))
  BY <1>2, <1>4, AfterSyncFits
<1>7. /\ Goes(mreq, r, AfterSync(p)) /\ minuta' = [minuta EXCEPT ![p.m] = p.doc]
      /\ UNCHANGED <<template, agreement, mmoves>>
  BY DEF Resave
<1> HIDE DEF p
<1>. QED  BY <1>3, <1>5, <1>6, <1>7, Stores

(* The agreement is made from the copy, which then names it.               *)
LEMMA AgreeKeeps ==
    ASSUME MInv, NEW r \in Requests, Agree(r)
    PROVE  MInv'
<1> DEFINE p == mreq[r]
           g == [of |-> p.m, text |-> p.doc.text, pdf |-> p.doc.pdf]
<1>1. p.at = "agree"
  BY DEF Agree
<1>2. p \in PartyWork /\ Fits(p)
  BY <1>1, Typed, Shapes
<1>3. p.doc \in MinutaDocs /\ p.m \in Minutas
  BY <1>2 DEF PartyWork
<1>4. /\ p.op = "approve" /\ p.doc.pdf.made
      /\ p.doc.pdf.text.own = p.doc.text.own
  BY <1>1, <1>2 DEF Fits, Submitted
<1>5. PICK a \in Agreed :
        /\ agreement[a] = Unwritten /\ agreement' = [agreement EXCEPT ![a] = g]
        /\ Goes(mreq, r, [p EXCEPT !.at = "replace", !.doc.agreement = a])
  BY DEF Agree
<1> DEFINE d == [p.doc EXCEPT !.agreement = a]
           q == [p EXCEPT !.at = "replace", !.doc = d]
<1>6. d \in MinutaDocs /\ d.agreement = a /\ d.text = p.doc.text
  BY <1>3 DEF MinutaDocs
<1>7. Goes(mreq, r, q)
  BY <1>5
<1> HIDE DEF d
<1>8. /\ q \in MinutaRequests /\ q.at = "replace" /\ q.doc = d
      /\ q.op = p.op /\ q.m = p.m
  <2>1. q \in PartyWork
    BY <1>2, <1>6, Advance
  <2>2. q.at = "replace" /\ q.doc = d /\ q.op = p.op /\ q.m = p.m
    BY <1>2 DEF PartyWork
  <2>. QED  BY <2>1, <2>2 DEF MinutaRequests
<1> HIDE DEF q
<1>9. g.of = p.m /\ g.text = p.doc.text /\ g.pdf = p.doc.pdf
  OBVIOUS
<1>10. g \in AgreementDocs
  BY <1>3 DEF AgreementDocs, MinutaDocs
<1>11. g # Unwritten
  BY <1>3, <1>9, MinutasAssumption DEF Unwritten, NoAgreement
<1> HIDE DEF g
<1>12. /\ agreement' \in [Agreed -> AgreementDocs] /\ agreement'[a] = g
       /\ \A b \in Agreed \ {a} : agreement'[b] = agreement[b]
  BY <1>5, <1>10, Typed
<1>. PICK c \in MinutaRequests :
       /\ Goes(mreq, r, c) /\ c.at = "replace"
       /\ c.doc.agreement = a /\ c.doc.text = g.text /\ c.m = g.of
  BY <1>6, <1>7, <1>8, <1>9
<1>13. Fits(c)'
  BY <1>11, <1>12 DEF Fits, Backed
<1>14. AgreedText'
  BY <1>4, <1>9, <1>12 DEF MInv, AgreedText
<1>15. /\ minuta' = minuta /\ template' \in [Templates -> TemplateDocs]
       /\ mmoves' \in 0 .. MinutaMoves
       /\ minuta' \in [Minutas -> MinutaDocs \cup {NoMinuta}]
  BY Typed DEF Agree
<1>16. \A b \in Agreed : agreement[b] # Unwritten => agreement'[b] = agreement[b]
  BY <1>5, <1>12
<1>. QED  BY <1>12, <1>13, <1>14, <1>15, <1>16, Keeps

(* Replace: what each operation makes of its copy stands.                  *)
LEMMA ReplaceKeeps ==
    ASSUME MInv, NEW r \in Requests, Replace(r)
    PROVE  MInv'
<1> DEFINE p == mreq[r]
<1>1. p.at = "replace"
  BY DEF Replace
<1>2. p \in PartyWork /\ Fits(p)
  BY <1>1, Typed, Shapes
<1>3. p.doc \in MinutaDocs /\ p.m \in Minutas /\ p.edit \in 0 .. MinutaMoves
  BY <1>2 DEF PartyWork
<1>4. Goes(mreq, r, Idle) /\ UNCHANGED <<template, agreement, mmoves>>
  BY DEF Replace, Ends
<1>5. ASSUME NEW d \in MinutaDocs, Stands(d, p.m),
             minuta' = [minuta EXCEPT ![p.m] = d]
      PROVE  MInv'
  BY <1>3, <1>4, <1>5, IdleFits, Stores
<1>6. \A s \in Statuses :
        LET d == [p.doc EXCEPT !.status = s]
        IN d \in MinutaDocs /\ d.status = s
           /\ d.agreement = p.doc.agreement /\ d.text = p.doc.text
  BY <1>3 DEF MinutaDocs
<1>7. CASE p.op = "update" /\
           \E b \in Edited(p.doc.text.admin) :
               minuta' = [minuta EXCEPT ![p.m] =
                   [p.doc EXCEPT !.text = [admin |-> b, own |-> p.edit],
                                 !.status = "draft"]]
  <2> PICK b \in Edited(p.doc.text.admin) :
             minuta' = [minuta EXCEPT ![p.m] =
                 [p.doc EXCEPT !.text = [admin |-> b, own |-> p.edit],
                               !.status = "draft"]]
    BY <1>7
  <2> DEFINE x == [admin |-> b, own |-> p.edit]
             d == [p.doc EXCEPT !.text = x, !.status = "draft"]
  <2>1. x \in Texts
    BY <1>3 DEF Texts, Edited
  <2> HIDE DEF x
  <2>2. d \in MinutaDocs /\ d.status = "draft"
    BY <1>3, <2>1 DEF MinutaDocs, Statuses, Negotiating, Editable
  <2>3. minuta' = [minuta EXCEPT ![p.m] = d]
    BY DEF x
  <2> HIDE DEF d
  <2>4. Stands(d, p.m)
    BY <2>2 DEF Stands, Submitted
  <2>. QED  BY <1>5, <2>2, <2>3, <2>4
<1>8. CASE p.op = "generate" /\
           minuta' = [minuta EXCEPT ![p.m] =
               [p.doc EXCEPT !.pdf = [made |-> TRUE, text |-> p.doc.text],
                             !.status = "pending approval"]]
  <2> DEFINE x == [made |-> TRUE, text |-> p.doc.text]
             d == [p.doc EXCEPT !.pdf = x, !.status = "pending approval"]
  <2>1. x \in Pdfs /\ x.made /\ x.text = p.doc.text
    BY <1>3 DEF Pdfs, MinutaDocs
  <2>2. minuta' = [minuta EXCEPT ![p.m] = d]
    BY <1>8
  <2> HIDE DEF x
  <2>3. d \in MinutaDocs /\ d.status = "pending approval"
        /\ d.pdf = x /\ d.text = p.doc.text
    BY <1>3, <2>1 DEF MinutaDocs, Statuses, Negotiating
  <2> HIDE DEF d
  <2>4. Stands(d, p.m)
    BY <2>1, <2>3 DEF Stands, Submitted
  <2>. QED  BY <1>5, <2>2, <2>3, <2>4
<1>9. CASE p.op = "approve" /\
           minuta' = [minuta EXCEPT ![p.m] =
               [p.doc EXCEPT !.status = "sent to agreements"]]
  <2> DEFINE d == [p.doc EXCEPT !.status = "sent to agreements"]
  <2>1. Backed(p.doc, p.m)
    BY <1>1, <1>2, <1>9 DEF Fits
  <2>2. "sent to agreements" \in Statuses
    BY DEF Statuses
  <2>3. /\ d \in MinutaDocs /\ d.status = "sent to agreements"
        /\ d.agreement = p.doc.agreement /\ d.text = p.doc.text
    BY <1>6, <2>2
  <2>4. minuta' = [minuta EXCEPT ![p.m] = d]
    BY <1>9
  <2> HIDE DEF d
  <2>5. Stands(d, p.m)
    BY <2>1, <2>3 DEF Stands, Submitted, Backed
  <2>. QED  BY <1>5, <2>3, <2>4, <2>5
<1>10. ASSUME NEW s \in {"changes requested", "rejected"},
              minuta' = [minuta EXCEPT ![p.m] = [p.doc EXCEPT !.status = s]]
       PROVE  MInv'
  <2> DEFINE d == [p.doc EXCEPT !.status = s]
  <2>1. s \in Statuses
    BY DEF Statuses, Negotiating, Editable
  <2>2. d \in MinutaDocs /\ d.status = s
    BY <1>6, <2>1
  <2>3. minuta' = [minuta EXCEPT ![p.m] = d]
    BY <1>10
  <2> HIDE DEF d
  <2>4. Stands(d, p.m)
    BY <2>2 DEF Stands, Submitted
  <2>. QED  BY <1>5, <2>2, <2>3, <2>4
<1>. QED  BY <1>7, <1>8, <1>9, <1>10 DEF Replace

(* What a change of a template stores, and goes on to do.                  *)
LEMMA TemplateStored ==
    ASSUME MInv, NEW r \in Requests, NEW t \in Templates,
           CreateTemplate(r, t) \/ UpdateTemplate(r, t) \/ DeleteTemplate(r, t)
    PROVE  \E d \in TemplateDocs :
               /\ StartMinuta(r) /\ template' = [template EXCEPT ![t] = d]
               /\ Goes(mreq, r, [at |-> "list minutas", t |-> t, tmpl |-> d])
               /\ UNCHANGED <<overlap, faults, minuta, agreement>>
<1>1. template[t] \in TemplateDocs
  BY Typed
<1>2. MaxRevision \in Nat \ {0}
  BY MinutasAssumption
<1>3. CASE CreateTemplate(r, t)
  <2>1. \A b \in BOOLEAN : [rev |-> 1, active |-> b] \in TemplateDocs
    BY <1>2 DEF TemplateDocs
  <2>. QED  BY <1>3, <2>1 DEF CreateTemplate, StoreTemplate
<1>4. CASE UpdateTemplate(r, t)
  <2>1. template[t].rev + 1 \in 0 .. MaxRevision
    BY <1>2, <1>4 DEF UpdateTemplate
  <2>2. PICK b \in BOOLEAN :
          StoreTemplate(r, t, [rev |-> template[t].rev + 1, active |-> b])
    BY <1>4 DEF UpdateTemplate
  <2> DEFINE d == [rev |-> template[t].rev + 1, active |-> b]
  <2>3. d \in TemplateDocs
    BY <2>1 DEF TemplateDocs
  <2>4. /\ StartMinuta(r) /\ template' = [template EXCEPT ![t] = d]
        /\ Goes(mreq, r, [at |-> "list minutas", t |-> t, tmpl |-> d])
        /\ UNCHANGED <<overlap, faults, minuta, agreement>>
    BY <2>2 DEF StoreTemplate
  <2> HIDE DEF d
  <2>. QED  BY <2>3, <2>4
<1>5. CASE DeleteTemplate(r, t)
  <2> DEFINE d == [template[t] EXCEPT !.active = FALSE]
  <2>1. d \in TemplateDocs
    BY <1>1 DEF TemplateDocs
  <2>2. /\ StartMinuta(r) /\ template' = [template EXCEPT ![t] = d]
        /\ Goes(mreq, r, [at |-> "list minutas", t |-> t, tmpl |-> d])
        /\ UNCHANGED <<overlap, faults, minuta, agreement>>
    BY <1>5 DEF DeleteTemplate, StoreTemplate
  <2> HIDE DEF d
  <2>. QED  BY <2>1, <2>2
<1>. QED  BY <1>3, <1>4, <1>5

(* The templates' own collection is nobody's copy.                         *)
LEMMA TemplatesKeep ==
    ASSUME MInv, NEW r \in Requests, NEW t \in Templates,
           CreateTemplate(r, t) \/ UpdateTemplate(r, t) \/ DeleteTemplate(r, t)
    PROVE  MInv'
<1>1. PICK d \in TemplateDocs :
        /\ StartMinuta(r) /\ template' = [template EXCEPT ![t] = d]
        /\ Goes(mreq, r, [at |-> "list minutas", t |-> t, tmpl |-> d])
        /\ UNCHANGED <<minuta, agreement>>
  BY TemplateStored
<1> DEFINE q == [at |-> "list minutas", t |-> t, tmpl |-> d]
<1>2. q \in TemplateWork
  BY DEF TemplateWork
<1>3. q \in MinutaRequests /\ Fits(q)'
  BY <1>2 DEF MinutaRequests, Fits
<1>4. /\ Goes(mreq, r, q) /\ template' = [template EXCEPT ![t] = d]
      /\ UNCHANGED <<minuta, agreement>>
  BY <1>1
<1>5. mmoves' \in 0 .. MinutaMoves
  BY <1>1, Counts
<1>6. template' \in [Templates -> TemplateDocs]
  BY <1>4, Typed
<1>7. AgreedText'
  BY <1>4 DEF MInv, AgreedText
<1>8. /\ minuta' \in [Minutas -> MinutaDocs \cup {NoMinuta}]
      /\ agreement' \in [Agreed -> AgreementDocs]
  BY <1>4, Typed
<1> HIDE DEF q
<1>. QED  BY <1>3, <1>4, <1>5, <1>6, <1>7, <1>8, Keeps

(* A list of changed minutas fits, and what is left of it.                 *)
LEMMA PushingFits ==
    ASSUME NEW docs \in [Minutas -> MinutaDocs \cup {NoMinuta}],
           \A m \in Minutas : docs[m] # NoMinuta =>
               docs[m].status \in Negotiating /\ Submitted(docs[m])
    PROVE  Pushing(docs) \in MinutaRequests /\ Fits(Pushing(docs))
<1>1. CASE docs = Nothing
  BY <1>1, IdleFits DEF Pushing
<1>2. CASE docs # Nothing
  <2> DEFINE q == [at |-> "push", docs |-> docs]
  <2>1. q \in PushWork
    BY DEF PushWork
  <2>2. q \in MinutaRequests /\ Fits(q)
    BY <2>1 DEF MinutaRequests, Fits
  <2>3. Pushing(docs) = q
    BY <1>2 DEF Pushing
  <2>. QED  BY <2>2, <2>3
<1>. QED  BY <1>1, <1>2

LEMMA ListsKeep ==
    ASSUME MInv, NEW r \in Requests, ListMinutas(r) \/ Reorder(r)
    PROVE  MInv'
<1>1. \A m \in Minutas : minuta[m].status \in Negotiating =>
          minuta[m] \in MinutaDocs /\ Submitted(minuta[m])
  <2>1. "absent" \notin Negotiating
    BY DEF Negotiating, Editable
  <2>. QED  BY <2>1, Typed, Documents DEF Stands
<1>2. PICK docs \in [Minutas -> MinutaDocs \cup {NoMinuta}] :
        /\ Goes(mreq, r, Pushing(docs))
        /\ \A m \in Minutas : docs[m] # NoMinuta =>
             docs[m].status \in Negotiating /\ Submitted(docs[m])
  <2>1. CASE ListMinutas(r)
    <3> DEFINE q == mreq[r]
               alters(m) == /\ minuta[m].status \in Negotiating
                            /\ Upserted(minuta[m], q.t, q.tmpl) # minuta[m]
               docs == [m \in Minutas |->
                          IF alters(m) THEN Upserted(minuta[m], q.t, q.tmpl)
                                       ELSE NoMinuta]
    <3>1. q.at = "list minutas"
      BY <2>1 DEF ListMinutas
    <3>2. q \in TemplateWork
      BY <3>1, Typed, Shapes
    <3>3. q.t \in Templates /\ q.tmpl \in TemplateDocs
      BY <3>2 DEF TemplateWork
    <3>4. \A m \in Minutas : alters(m) =>
            /\ Upserted(minuta[m], q.t, q.tmpl) \in MinutaDocs
            /\ Upserted(minuta[m], q.t, q.tmpl).status \in Negotiating
            /\ Submitted(Upserted(minuta[m], q.t, q.tmpl))
      BY <1>1, <3>3, UpsertedDoc
    <3>5. Goes(mreq, r, Pushing(docs))
      BY <2>1 DEF ListMinutas
    <3> HIDE DEF alters, q
    <3>6. docs \in [Minutas -> MinutaDocs \cup {NoMinuta}]
      BY <3>4
    <3>. QED  BY <3>4, <3>5, <3>6
  <2>2. CASE Reorder(r)
    <3>1. PICK ms \in SUBSET {m \in Minutas : minuta[m].status \in Negotiating} :
            Goes(mreq, r, Pushing([m \in Minutas |->
                   IF m \in ms THEN minuta[m] ELSE NoMinuta]))
      BY <2>2 DEF Reorder
    <3> DEFINE docs == [m \in Minutas |-> IF m \in ms THEN minuta[m] ELSE NoMinuta]
    <3>2. docs \in [Minutas -> MinutaDocs \cup {NoMinuta}]
      BY <1>1
    <3>. QED  BY <1>1, <3>1, <3>2
  <2>. QED  BY <2>1, <2>2
<1>3. Pushing(docs) \in MinutaRequests /\ Fits(Pushing(docs))
  BY <1>2, PushingFits
<1>4. UNCHANGED <<minuta, template, agreement>>
  BY DEF ListMinutas, Reorder
<1>5. mmoves' \in 0 .. MinutaMoves
  BY Typed, Counts DEF ListMinutas, Reorder
<1>. QED  BY <1>2, <1>3, <1>4, <1>5, Moves

LEMMA PushKeeps ==
    ASSUME MInv, NEW r \in Requests, Push(r)
    PROVE  MInv'
<1> DEFINE p == mreq[r]
<1>1. p.at = "push"
  BY DEF Push
<1>2. p \in PushWork /\ Fits(p)
  BY <1>1, Typed, Shapes
<1>3. p.docs \in [Minutas -> MinutaDocs \cup {NoMinuta}]
  BY <1>2 DEF PushWork
<1>4. \A m \in Minutas : p.docs[m] # NoMinuta =>
          p.docs[m].status \in Negotiating /\ Submitted(p.docs[m])
  BY <1>1, <1>2 DEF Fits
<1>5. PICK m \in Minutas :
        /\ p.docs[m] # NoMinuta /\ minuta' = [minuta EXCEPT ![m] = p.docs[m]]
        /\ Goes(mreq, r, Pushing([p.docs EXCEPT ![m] = NoMinuta]))
  BY DEF Push
<1> DEFINE d == p.docs[m]
           rest == [p.docs EXCEPT ![m] = NoMinuta]
<1>6. d \in MinutaDocs
  BY <1>3, <1>5, Documents
<1>7. d.status # "sent to agreements" /\ Submitted(d)
  BY <1>4, <1>5 DEF Negotiating, Editable
<1>8. Stands(d, m)
  BY <1>7 DEF Stands
<1>9. rest \in [Minutas -> MinutaDocs \cup {NoMinuta}]
  BY <1>3
<1>10. \A n \in Minutas : rest[n] # NoMinuta =>
           rest[n].status \in Negotiating /\ Submitted(rest[n])
  BY <1>3, <1>4
<1> HIDE DEF rest
<1>11. Pushing(rest) \in MinutaRequests /\ Fits(Pushing(rest))
  BY <1>9, <1>10, PushingFits
<1>12. /\ Goes(mreq, r, Pushing(rest)) /\ minuta' = [minuta EXCEPT ![m] = d]
       /\ UNCHANGED <<template, agreement, mmoves>>
  BY <1>5 DEF Push, rest
<1> HIDE DEF d
<1>. QED  BY <1>6, <1>8, <1>11, <1>12, Stores

(* A step that changes nothing.                                            *)
LEMMA SameMInv ==
    MInv /\ minuta' = minuta /\ template' = template /\ agreement' = agreement
         /\ mreq' = mreq /\ mmoves' = mmoves => MInv'
<1> SUFFICES ASSUME MInv, minuta' = minuta, template' = template,
                    agreement' = agreement, mreq' = mreq, mmoves' = mmoves
             PROVE  MInv'
  OBVIOUS
<1>1. TypeOKMinutas'
  BY DEF MInv, TypeOKMinutas
<1>0. \A d, m : Backed(d, m) => Backed(d, m)'
  BY DEF Backed
<1>2. AllFit'
  <2> SUFFICES ASSUME NEW r \in Requests PROVE Fits(mreq[r])'
    BY DEF AllFit
  <2> DEFINE q == mreq[r]
  <2>2. Fits(q)
    BY DEF MInv, AllFit
  <2>3. q' = q
    OBVIOUS
  <2> HIDE DEF q
  <2>4. /\ q.at = "replace" /\ q.op = "approve" => Backed(q.doc, q.m)
        /\ q.at = "replace" /\ q.op = "approve" => Backed(q.doc, q.m)'
    BY <1>0, <2>2, <2>3 DEF Fits
  <2>5. Fits(q)'
    BY <2>2, <2>3, <2>4 DEF Fits
  <2>. QED  BY <2>5 DEF q
<1>3. Standing'
  <2>1. \A m \in Minutas : Stands(minuta[m], m)
    BY DEF MInv, Standing
  <2>. QED  BY <1>0, <2>1 DEF Standing, Stands
<1>4. AgreedText'
  BY DEF MInv, AgreedText
<1>. QED  BY <1>1, <1>2, <1>3, <1>4 DEF MInv

LEMMA MInvKept == MInv /\ [MinutasNext]_mvars => MInv'
<1> SUFFICES ASSUME MInv, [MinutasNext]_mvars PROVE MInv'
  OBVIOUS
<1>1. CASE UNCHANGED mvars
  <2>1. /\ minuta' = minuta /\ template' = template /\ agreement' = agreement
        /\ mreq' = mreq /\ mmoves' = mmoves
    BY <1>1 DEF mvars
  <2>. QED  BY <2>1, SameMInv
<1>2. ASSUME NEW r \in Requests, MinutaStep(r) PROVE MInv'
  <2>1. CASE MinutaRaises(r)
    <3>1. /\ Goes(mreq, r, Idle) /\ UNCHANGED <<minuta, template, agreement>>
          /\ mmoves' \in 0 .. MinutaMoves
      BY <2>1, Typed DEF MinutaRaises, Raises, Ends
    <3>. QED  BY <3>1, IdleFits, Moves
  <2>. QED  BY <1>2, <2>1, CreatesKeep, PartiesRead, SyncKeeps, ResaveKeeps,
               AgreeKeeps, ReplaceKeeps, TemplatesKeep, ListsKeep, PushKeeps
            DEF MinutaStep
<1>. QED  BY <1>1, <1>2 DEF MinutasNext

LEMMA MInvHolds == MinutasSpec => []MInv
BY MinutasStart, MInvKept, PTL DEF MinutasSpec

-----------------------------------------------------------------------------
(* One request at a time and no failure                                    *)

(* What sections x hold of template t is what it says now.                 *)
Current(x, t) ==
    /\ ~template[t].active => x[t] = Missing
    /\ template[t].active /\ t \notin Unlocked => x[t] = template[t].rev

(* What the only request knows of the minuta it is about, and what it is   *)
(* about to store.                                                         *)
Sure(q) ==
    /\ q.at \in {"list templates", "insert"} => Live = {}
    /\ q.at = "list templates" => \A t \in Templates : q.text.admin[t] = Missing
    /\ q.at = "insert" => \A t \in Templates : Current(q.text.admin, t)
    /\ q.at \in {"sync", "resave", "agree", "replace"} =>
           /\ minuta[q.m].status \in Negotiating
           /\ \A t \in Templates : Current(q.doc.text.admin, t)
    /\ q.at = "list minutas" => q.tmpl = template[q.t]
    /\ q.at = "push" =>
           \A m \in Minutas : q.docs[m] # NoMinuta =>
               /\ minuta[m].status \in Negotiating
               /\ \A t \in Templates : Current(q.docs[m].text.admin, t)

OneLive == \A m, n \in Live : m = n

OneEach ==
    \A a, b \in Agreed :
        agreement[a] # Unwritten /\ agreement[a].of = agreement[b].of => a = b

(* The minuta of an agreement says so, or q is about to make it.           *)
Sends(q, m) == q.at = "replace" /\ q.op = "approve" /\ q.m = m

SentBy(q) ==
    \A a \in Agreed : agreement[a] # Unwritten =>
        \/ minuta[agreement[a].of].status = "sent to agreements"
        \/ Sends(q, agreement[a].of)

(* A minuta under negotiation has what template t says, or q is to see to  *)
(* it.                                                                     *)
Brings(q, m, t) ==
    \/ q.at = "list minutas" /\ q.t = t
    \/ q.at = "push" /\ q.docs[m] # NoMinuta

ReachedBy(q) ==
    \A m \in Minutas, t \in Templates :
        minuta[m].status \in Negotiating =>
            Current(minuta[m].text.admin, t) \/ Brings(q, m, t)

Good(q) == Sure(q) /\ OneLive /\ OneEach /\ SentBy(q) /\ ReachedBy(q)

(* Requests that are not idle are q.                                       *)
Alone(q) ==
    /\ \A r \in Requests : mreq[r] \in {Idle, q}
    /\ \A r, s \in Requests : mreq[r] # Idle /\ mreq[s] # Idle => r = s
    /\ AllIdle(mreq) => q = Idle

SInv ==
    ~overlap /\ ~faults =>
        \E q \in {Idle} \cup {mreq[r] : r \in Requests} : Alone(q) /\ Good(q)

LEMMA IdleGood ==
    /\ Idle.at = "idle" /\ Sure(Idle) /\ \A m : ~Sends(Idle, m)
    /\ \A m, t : ~Brings(Idle, m, t)
<1>1. Idle.at = "idle"
  BY DEF Idle
<1>. QED  BY <1>1 DEF Sure, Sends, Brings

(* A step of the only request, which goes on to q.                         *)
LEMMA OneMoves ==
    ASSUME MInv, SInv, NEW r \in Requests, NEW q, Goes(mreq, r, q),
           overlap' = overlap, faults' = faults,
           ~overlap => mreq[r] # Idle \/ AllIdle(mreq),
           ~faults /\ Good(mreq[r]) => Good(q)'
    PROVE  SInv'
<1> SUFFICES ASSUME ~overlap, ~faults
             PROVE  \E x \in {Idle} \cup {mreq'[s] : s \in Requests} :
                        Alone(x)' /\ Good(x)'
  BY DEF SInv
<1>1. mreq'[r] = q /\ \A s \in Requests \ {r} : mreq'[s] = mreq[s]
  BY Typed DEF Goes
<1>2. PICK p : Alone(p) /\ Good(p)
  BY DEF SInv
<1>3. mreq[r] = p /\ \A s \in Requests \ {r} : mreq[s] = Idle
  BY <1>2 DEF Alone, AllIdle
<1>4. Good(q)'
  BY <1>2, <1>3
<1>5. Alone(q)'
  BY <1>1, <1>3 DEF Alone, AllIdle
<1>6. q \in {Idle} \cup {mreq'[s] : s \in Requests}
  BY <1>1
<1>. QED  BY <1>4, <1>5, <1>6

LEMMA StartsIdle ==
    ASSUME NEW r \in Requests, StartMinuta(r)
    PROVE  mreq[r] = Idle /\ (~overlap => mreq[r] # Idle \/ AllIdle(mreq))
<1>1. MayStart(mreq, r)
  BY DEF StartMinuta
<1>. QED  BY <1>1, Zenon DEF MayStart

(* The agreements, and so which minuta each is of, have not changed.       *)
LEMMA SameOneEach == OneEach /\ agreement' = agreement => OneEach'
BY DEF OneEach

(* A step that changes no collection.                                      *)
LEMMA SameGood ==
    ASSUME NEW p, NEW q, Good(p), Sure(q), UNCHANGED <<minuta, template, agreement>>,
           \A m : Sends(p, m) => Sends(q, m),
           \A m \in Minutas, t \in Templates :
               minuta[m].status \in Negotiating /\ Brings(p, m, t) =>
                   Brings(q, m, t) \/ Current(minuta[m].text.admin, t)
    PROVE  Good(q)'
<1>1. minuta' = minuta /\ template' = template /\ agreement' = agreement
  OBVIOUS
<1>2. Sure(q)'
  <2>1. Live' = Live /\ \A x, t : Current(x, t)' <=> Current(x, t)
    BY <1>1 DEF Live, Current
  <2>2. /\ q.at \in {"list templates", "insert"} => Live' = {}
        /\ q.at = "list templates" => \A t \in Templates : q.text.admin[t] = Missing
    BY <2>1 DEF Sure
  <2>3. q.at = "insert" => \A t \in Templates : Current(q.text.admin, t)'
    BY <2>1, Zenon DEF Sure
  <2>4. q.at \in {"sync", "resave", "agree", "replace"} =>
            /\ minuta'[q.m].status \in Negotiating
            /\ \A t \in Templates : Current(q.doc.text.admin, t)'
    BY <1>1, <2>1, Zenon DEF Sure
  <2>5. q.at = "list minutas" => q.tmpl = template'[q.t]
    BY <1>1 DEF Sure
  <2>6. q.at = "push" =>
            \A m \in Minutas : q.docs[m] # NoMinuta =>
                /\ minuta'[m].status \in Negotiating
                /\ \A t \in Templates : Current(q.docs[m].text.admin, t)'
    BY <1>1, <2>1, Zenon DEF Sure
  <2>. QED  BY <2>2, <2>3, <2>4, <2>5, <2>6, Zenon DEF Sure
<1>3. OneLive' /\ OneEach'
  BY <1>1 DEF Good, OneLive, Live, OneEach
<1>4. SentBy(q)
  BY DEF Good, SentBy
<1>5. SentBy(q)'
  BY <1>1, <1>4 DEF SentBy, Sends
<1>6. ReachedBy(q)
  BY DEF Good, ReachedBy
<1>7. ReachedBy(q)'
  BY <1>1, <1>6 DEF ReachedBy, Current, Brings
<1>. QED  BY <1>2, <1>3, <1>5, <1>7 DEF Good

(* One minuta is stored, with what the templates say unless it is no       *)
(* longer under negotiation; if it has an agreement, it says so.           *)
LEMMA StoredGood ==
    ASSUME MInv, NEW p, NEW q, Good(p), Sure(q)',
           NEW m \in Minutas, NEW d \in MinutaDocs,
           minuta' = [minuta EXCEPT ![m] = d], UNCHANGED <<template, agreement>>,
           m \in Live \/ Live = {},
           (\E a \in Agreed : agreement[a] # Unwritten /\ agreement[a].of = m) =>
               d.status = "sent to agreements",
           \A n \in Minutas \ {m} : Sends(p, n) => Sends(q, n),
           \A t \in Templates : Current(d.text.admin, t),
           \A n \in Minutas \ {m}, t \in Templates :
               Brings(p, n, t) => Brings(q, n, t)
    PROVE  Good(q)'
<1>1. /\ minuta'[m] = d /\ \A n \in Minutas \ {m} : minuta'[n] = minuta[n]
      /\ template' = template /\ agreement' = agreement
  BY Typed
<1>2. OneLive'
  <2>1. Live' \subseteq Live \cup {m}
    BY <1>1 DEF Live
  <2>. QED  BY <2>1 DEF Good, OneLive
<1>3. OneEach'
  BY <1>1, SameOneEach DEF Good
<1>4. SentBy(q)'
  <2> SUFFICES ASSUME NEW a \in Agreed, agreement[a] # Unwritten
               PROVE  \/ minuta'[agreement[a].of].status = "sent to agreements"
                      \/ Sends(q, agreement[a].of)
    BY <1>1 DEF SentBy, Sends
  <2>1. agreement[a].of \in Minutas
    BY Typed DEF AgreementDocs
  <2>2. CASE agreement[a].of = m
    BY <1>1, <2>2
  <2>3. CASE agreement[a].of # m
    BY <1>1, <2>1, <2>3 DEF Good, SentBy
  <2>. QED  BY <2>2, <2>3
<1>5. ReachedBy(q)'
  <2> SUFFICES ASSUME NEW n \in Minutas, NEW t \in Templates,
                      minuta'[n].status \in Negotiating
               PROVE  Current(minuta[n].text.admin, t)' \/ Brings(q, n, t)
    BY <1>1 DEF ReachedBy, Brings
  <2>1. CASE n = m
    <3>1. Current(d.text.admin, t) /\ minuta'[n] = d
      BY <1>1, <2>1
    <3>. QED  BY <1>1, <3>1 DEF Current
  <2>2. CASE n # m
    <3>1. minuta'[n] = minuta[n] /\ n \in Minutas \ {m}
      BY <1>1, <2>2
    <3>2. Current(minuta[n].text.admin, t) \/ Brings(p, n, t)
      BY <3>1 DEF Good, ReachedBy
    <3>3. Current(minuta[n].text.admin, t) => Current(minuta[n].text.admin, t)'
      BY <1>1, <3>1 DEF Current
    <3>. QED  BY <3>1, <3>2, <3>3
  <2>. QED  BY <2>1, <2>2
<1>. QED  BY <1>2, <1>3, <1>4, <1>5 DEF Good

(* A request starts.                                                       *)
LEMMA StartSolo ==
    ASSUME MInv, SInv, NEW r \in Requests, StartMinuta(r), NEW q, Goes(mreq, r, q),
           Good(Idle) => Sure(q),
           UNCHANGED <<overlap, faults, minuta, template, agreement>>
    PROVE  SInv'
<1>1. Good(Idle) => Good(q)'
  BY IdleGood, SameGood
<1>. QED  BY <1>1, StartsIdle, OneMoves

(* A request at work.                                                      *)
LEMMA WorkSolo ==
    ASSUME MInv, SInv, NEW r \in Requests, mreq[r].at # "idle", NEW q,
           Goes(mreq, r, q), UNCHANGED <<overlap, faults>>,
           Good(mreq[r]) => Good(q)'
    PROVE  SInv'
BY IdleGood, OneMoves

LEMMA FindNoneSolo ==
    ASSUME MInv, SInv, NEW r \in Requests, FindNone(r)
    PROVE  SInv'
<1>1. PICK q : q = [at |-> "list templates", edit |-> mmoves + 1,
                    text |-> [admin |-> [t \in Templates |-> Missing], own |-> 0]]
  OBVIOUS
<1>2. /\ StartMinuta(r) /\ Live = {} /\ Goes(mreq, r, q)
      /\ UNCHANGED <<overlap, faults, minuta, template, agreement>>
  BY <1>1 DEF FindNone
<1>3. q.at = "list templates" /\ q.text.admin = [t \in Templates |-> Missing]
  BY <1>1
<1>4. Sure(q)
  BY <1>2, <1>3 DEF Sure
<1>. QED  BY <1>2, <1>4, StartSolo

(* Sections taken from the templates, or synced with them, are current.    *)
LEMMA SyncedCurrent ==
    ASSUME NEW x, NEW t \in Templates, x[t] = Missing \/ Current(x, t)
    PROVE  Current(SyncedAdmin(x), t)
BY DEF Current, SyncedAdmin

LEMMA ListTemplatesSolo ==
    ASSUME MInv, SInv, NEW r \in Requests, ListTemplates(r)
    PROVE  SInv'
<1>1. PICK p : p = mreq[r]
  OBVIOUS
<1>2. p.at = "list templates" /\ p \in CreateWork
  <2>1. mreq[r].at = "list templates"
    BY DEF ListTemplates
  <2>. QED  BY <1>1, <2>1, Typed, Shapes
<1>3. PICK x : x = [admin |-> SyncedAdmin(p.text.admin), own |-> p.edit]
  OBVIOUS
<1>4. PICK q : q = [p EXCEPT !.at = "insert", !.text = x]
  OBVIOUS
<1>5. q.at = "insert" /\ q.text = x
  BY <1>2, <1>4 DEF CreateWork
<1>6. Goes(mreq, r, q) /\ UNCHANGED <<overlap, faults, minuta, template, agreement>>
  BY <1>1, <1>3, <1>4 DEF ListTemplates
<1>7. Good(p) => Good(q)'
  <2> SUFFICES ASSUME Good(p) PROVE Good(q)'
    OBVIOUS
  <2>1. Live = {} /\ \A t \in Templates : p.text.admin[t] = Missing
    BY <1>2 DEF Good, Sure
  <2>2. \A t \in Templates : Current(SyncedAdmin(p.text.admin), t)
    BY <2>1, SyncedCurrent
  <2>3. q.text.admin = SyncedAdmin(p.text.admin)
    BY <1>3, <1>5
  <2>4. Sure(q)
    BY <1>5, <2>1, <2>2, <2>3 DEF Sure
  <2>5. \A m, t : ~Sends(p, m) /\ ~Brings(p, m, t)
    BY <1>2 DEF Sends, Brings
  <2>. QED  BY <1>6, <2>4, <2>5, SameGood
<1>8. mreq[r].at # "idle" /\ (Good(mreq[r]) => Good(q)')
  BY <1>1, <1>2, <1>7
<1>. QED  BY <1>6, <1>8, WorkSolo

(* The new minuta is the only one that counts, and has no agreement yet.   *)
LEMMA InsertSolo ==
    ASSUME MInv, SInv, NEW r \in Requests, InsertMinuta(r)
    PROVE  SInv'
<1>1. PICK p : p = mreq[r]
  OBVIOUS
<1>2. p.at = "insert" /\ p \in CreateWork
  <2>1. mreq[r].at = "insert"
    BY DEF InsertMinuta
  <2>. QED  BY <1>1, <2>1, Typed, Shapes
<1>3. PICK d : d = [status |-> "draft", text |-> p.text, pdf |-> NoPdf,
                    agreement |-> NoAgreement]
  OBVIOUS
<1>4. d \in MinutaDocs /\ d.text = p.text
  <2>1. p.text \in Texts
    BY <1>2 DEF CreateWork
  <2>. QED  BY <1>3, <2>1 DEF MinutaDocs, Statuses, Negotiating, Editable, Pdfs
<1>5. PICK m \in Minutas :
        minuta[m] = NoMinuta /\ minuta' = [minuta EXCEPT ![m] = d]
  BY <1>1, <1>3 DEF InsertMinuta
<1>6. /\ Goes(mreq, r, Idle)
      /\ UNCHANGED <<overlap, faults, template, agreement>>
  BY DEF InsertMinuta, Ends
<1>7. Good(p) => Good(Idle)'
  <2> SUFFICES ASSUME Good(p) PROVE Good(Idle)'
    OBVIOUS
  <2>1. Live = {} /\ \A t \in Templates : Current(p.text.admin, t)
    BY <1>2 DEF Good, Sure
  <2>2. \A n, t : ~Sends(p, n) /\ ~Brings(p, n, t)
    BY <1>2 DEF Sends, Brings
  <2>3. ~\E a \in Agreed : agreement[a] # Unwritten /\ agreement[a].of = m
    <3>1. minuta[m].status # "sent to agreements"
      BY <1>5 DEF NoMinuta
    <3>. QED  BY <2>2, <3>1 DEF Good, SentBy
  <2>4. Sure(Idle)'
    BY IdleGood DEF Sure
  <2>5. \A t \in Templates : Current(d.text.admin, t)
    BY <1>4, <2>1
  <2>. QED  BY <1>4, <1>5, <1>6, <2>1, <2>2, <2>3, <2>4, <2>5, StoredGood
<1>8. mreq[r].at # "idle" /\ (Good(mreq[r]) => Good(Idle)')
  BY <1>1, <1>2, <1>7
<1>. QED  BY <1>6, <1>8, WorkSolo

LEMMA ReadsSolo ==
    ASSUME MInv, SInv, NEW r \in Requests, NEW m \in Minutas, NEW op,
           NEW at \in {"sync", "agree", "replace"}, ReadMinuta(r, op, m, at),
           minuta[m].status \in Negotiating
    PROVE  SInv'
<1>1. PICK q : q = [at |-> at, op |-> op, m |-> m, doc |-> minuta[m],
                    edit |-> mmoves + 1]
  OBVIOUS
<1>2. /\ StartMinuta(r) /\ Goes(mreq, r, q)
      /\ UNCHANGED <<overlap, faults, minuta, template, agreement>>
  BY <1>1 DEF ReadMinuta
<1>3. q.at = at /\ q.m = m /\ q.doc = minuta[m]
  BY <1>1
<1>4. Good(Idle) => Sure(q)
  BY <1>3, IdleGood DEF Good, ReachedBy, Sure
<1>. QED  BY <1>2, <1>4, StartSolo

LEMMA PartiesSolo ==
    ASSUME MInv, SInv, NEW r \in Requests, NEW m \in Minutas,
           \/ GetProposal(r, m) \/ UpdateProposal(r, m) \/ GeneratePdf(r, m)
           \/ ApproveProposal(r, m) \/ RequestChanges(r, m)
           \/ RejectProposal(r, m)
    PROVE  SInv'
<1>1. \E op, at : /\ at \in {"sync", "agree", "replace"}
                  /\ ReadMinuta(r, op, m, at)
                  /\ minuta[m].status \in Negotiating
  BY DEF GetProposal, UpdateProposal, GeneratePdf, ApproveProposal,
     RequestChanges, RejectProposal, Negotiating
<1>. QED  BY <1>1, ReadsSolo


(* No agreement is made yet of a minuta under negotiation, unless p is     *)
(* about to say so.                                                        *)
LEMMA Unsent ==
    ASSUME NEW p, SentBy(p), NEW m, minuta[m].status \in Negotiating,
           ~Sends(p, m)
    PROVE  \A a \in Agreed : agreement[a] # Unwritten => agreement[a].of # m
BY DEF SentBy, Negotiating, Editable

LEMMA SectionsAre ==
    ASSUME NEW d \in MinutaDocs, NEW b
    PROVE  [d EXCEPT !.text.admin = b].text.admin = b
<1> DEFINE x == [d.text EXCEPT !.admin = b]
<1>1. x.admin = b
  BY DEF MinutaDocs, Texts
<1>2. [d EXCEPT !.text.admin = b] = [d EXCEPT !.text = x]
  OBVIOUS
<1> HIDE DEF x
<1>3. [d EXCEPT !.text = x].text = x
  BY DEF MinutaDocs
<1>. QED  BY <1>1, <1>2, <1>3

(* A party's request between its read and its replace.                     *)
LEMMA PartySure ==
    ASSUME NEW q, q.at \in {"sync", "resave", "agree", "replace"},
           minuta[q.m].status \in Negotiating,
           \A t \in Templates : Current(q.doc.text.admin, t)
    PROVE  Sure(q)
BY DEF Sure

LEMMA AfterSyncIs ==
    ASSUME NEW p \in PartyWork, p.op \in {"get", "update", "generate"},
           NEW q, q = AfterSync(p)
    PROVE  \/ q = Idle
           \/ q.at = "replace" /\ q.op # "approve" /\ q.m = p.m /\ q.doc = p.doc
<1>1. CASE p.op = "get"
  BY <1>1 DEF AfterSync
<1>2. CASE p.op # "get"
  <2>1. q = [p EXCEPT !.at = "replace"]
    BY <1>2 DEF AfterSync
  <2>2. q.at = "replace" /\ q.op = p.op /\ q.m = p.m /\ q.doc = p.doc
    BY <2>1 DEF PartyWork
  <2>. QED  BY <2>2
<1>. QED  BY <1>1, <1>2

LEMMA SyncSolo ==
    ASSUME MInv, SInv, NEW r \in Requests, Sync(r)
    PROVE  SInv'
<1>1. PICK p : p = mreq[r]
  OBVIOUS
<1>2. p.at = "sync" /\ p \in PartyWork /\ Fits(p)
  <2>1. mreq[r].at = "sync"
    BY DEF Sync
  <2>. QED  BY <1>1, <2>1, Typed, Shapes
<1>3. p.doc \in MinutaDocs /\ p.op \in {"get", "update", "generate"}
  BY <1>2 DEF PartyWork, Fits
<1>4. PICK d : d = Synced(p.doc)
  OBVIOUS
<1>5. PICK q : q = IF d # p.doc THEN [p EXCEPT !.at = "resave", !.doc = d]
                                ELSE AfterSync(p)
  OBVIOUS
<1>6. Goes(mreq, r, q) /\ UNCHANGED <<overlap, faults, minuta, template, agreement>>
  BY <1>1, <1>4, <1>5 DEF Sync
<1>7. \/ q.at = "resave" /\ q.m = p.m /\ q.doc = d
      \/ q = Idle
      \/ q.at = "replace" /\ q.m = p.m /\ q.doc = p.doc
  <2>1. CASE d # p.doc
    <3>1. q = [p EXCEPT !.at = "resave", !.doc = d]
      BY <1>5, <2>1
    <3>. QED  BY <1>2, <3>1 DEF PartyWork
  <2>2. CASE d = p.doc
    <3>1. q = AfterSync(p)
      BY <1>5, <2>2
    <3>. QED  BY <1>2, <1>3, <3>1, AfterSyncIs
  <2>. QED  BY <2>1, <2>2
<1>8. Good(p) => Good(q)'
  <2> SUFFICES ASSUME Good(p) PROVE Good(q)'
    OBVIOUS
  <2>1. /\ minuta[p.m].status \in Negotiating
        /\ \A t \in Templates : Current(p.doc.text.admin, t)
    BY <1>2 DEF Good, Sure
  <2>2. d.text.admin = SyncedAdmin(p.doc.text.admin)
    <3>1. d = [p.doc EXCEPT !.text.admin = SyncedAdmin(p.doc.text.admin)]
      BY <1>4 DEF Synced
    <3>. QED  BY <1>3, <3>1, SectionsAre
  <2>3. \A t \in Templates : Current(d.text.admin, t)
    BY <2>1, <2>2, SyncedCurrent
  <2>4. Sure(q)
    BY <1>7, <2>1, <2>3, PartySure, IdleGood
  <2>5. \A m, t : ~Sends(p, m) /\ ~Brings(p, m, t)
    BY <1>2 DEF Sends, Brings
  <2>. QED  BY <1>6, <2>4, <2>5, SameGood
<1>9. mreq[r].at # "idle" /\ (Good(mreq[r]) => Good(q)')
  BY <1>1, <1>2, <1>8
<1>. QED  BY <1>6, <1>9, WorkSolo

LEMMA ResaveSolo ==
    ASSUME MInv, SInv, NEW r \in Requests, Resave(r)
    PROVE  SInv'
<1>1. PICK p : p = mreq[r]
  OBVIOUS
<1>2. p.at = "resave" /\ p \in PartyWork /\ Fits(p)
  <2>1. mreq[r].at = "resave"
    BY DEF Resave
  <2>. QED  BY <1>1, <2>1, Typed, Shapes
<1>3. /\ p.doc \in MinutaDocs /\ p.m \in Minutas
      /\ p.op \in {"get", "update", "generate"} /\ p.doc.status \in Negotiating
  BY <1>2 DEF PartyWork, Fits
<1>4. PICK q : q = AfterSync(p)
  OBVIOUS
<1>5. /\ Goes(mreq, r, q) /\ UNCHANGED <<overlap, faults, template, agreement>>
      /\ minuta' = [minuta EXCEPT ![p.m] = p.doc]
  BY <1>1, <1>4 DEF Resave
<1>6. \/ q = Idle
      \/ q.at = "replace" /\ q.op # "approve" /\ q.m = p.m /\ q.doc = p.doc
  BY <1>2, <1>3, <1>4, AfterSyncIs
<1>7. Good(p) => Good(q)'
  <2> SUFFICES ASSUME Good(p) PROVE Good(q)'
    OBVIOUS
  <2>1. /\ minuta[p.m].status \in Negotiating
        /\ \A t \in Templates : Current(p.doc.text.admin, t)
    BY <1>2 DEF Good, Sure
  <2>2. \A m, t : ~Sends(p, m) /\ ~Brings(p, m, t)
    BY <1>2 DEF Sends, Brings
  <2>3. \A a \in Agreed : agreement[a] # Unwritten => agreement[a].of # p.m
    BY <2>1, <2>2, Unsent DEF Good
  <2>4. minuta'[p.m] = p.doc
    BY <1>3, <1>5, Typed
  <2>5. \A t \in Templates : Current(p.doc.text.admin, t)'
    BY <1>5, <2>1 DEF Current
  <2>6. Sure(q)'
    <3>1. CASE q = Idle
      BY <3>1, IdleGood DEF Sure
    <3>2. CASE q.at = "replace" /\ q.m = p.m /\ q.doc = p.doc
      <4>1. /\ minuta'[q.m].status \in Negotiating
            /\ \A t \in Templates : Current(q.doc.text.admin, t)'
        BY <1>3, <2>4, <2>5, <3>2
      <4>. QED  BY <3>2, <4>1 DEF Sure
    <3>. QED  BY <1>6, <3>1, <3>2
  <2>7. p.m \in Live
    BY <1>3, <2>1 DEF Live
  <2>. QED  BY <1>3, <1>5, <2>1, <2>2, <2>3, <2>6, <2>7, StoredGood
<1>8. mreq[r].at # "idle" /\ (Good(mreq[r]) => Good(q)')
  BY <1>1, <1>2, <1>7
<1>. QED  BY <1>5, <1>8, WorkSolo

(* A minuta under negotiation gets its one agreement.                      *)
LEMMA AgreeSolo ==
    ASSUME MInv, SInv, NEW r \in Requests, Agree(r)
    PROVE  SInv'
<1>1. PICK p : p = mreq[r]
  OBVIOUS
<1>2. p.at = "agree" /\ p \in PartyWork /\ Fits(p)
  <2>1. mreq[r].at = "agree"
    BY DEF Agree
  <2>. QED  BY <1>1, <2>1, Typed, Shapes
<1>3. p.doc \in MinutaDocs /\ p.m \in Minutas /\ p.op = "approve"
  BY <1>2 DEF PartyWork, Fits
<1>4. PICK g : g = [of |-> p.m, text |-> p.doc.text, pdf |-> p.doc.pdf]
  OBVIOUS
<1>5. PICK a \in Agreed :
        /\ agreement[a] = Unwritten /\ agreement' = [agreement EXCEPT ![a] = g]
        /\ Goes(mreq, r, [p EXCEPT !.at = "replace", !.doc.agreement = a])
  BY <1>1, <1>4 DEF Agree
<1>6. PICK d : d = [p.doc EXCEPT !.agreement = a]
  OBVIOUS
<1>7. PICK q : q = [p EXCEPT !.at = "replace", !.doc = d]
  OBVIOUS
<1>8. Goes(mreq, r, q) /\ UNCHANGED <<overlap, faults, minuta, template>>
  BY <1>5, <1>6, <1>7 DEF Agree
<1>9. /\ q.at = "replace" /\ q.op = "approve" /\ q.m = p.m
      /\ q.doc.text = p.doc.text
  <2>1. d.text = p.doc.text
    BY <1>3, <1>6 DEF MinutaDocs
  <2>2. q.at = "replace" /\ q.op = p.op /\ q.m = p.m /\ q.doc = d
    BY <1>2, <1>7 DEF PartyWork
  <2>. QED  BY <1>3, <2>1, <2>2
<1>10. agreement'[a] = g /\ \A b \in Agreed \ {a} : agreement'[b] = agreement[b]
  BY <1>5, Typed
<1>11. g.of = p.m /\ Unwritten.of # p.m
  BY <1>3, <1>4, MinutasAssumption DEF Unwritten, NoAgreement
<1>12. Good(p) => Good(q)'
  <2> SUFFICES ASSUME Good(p) PROVE Good(q)'
    OBVIOUS
  <2>1. /\ minuta[p.m].status \in Negotiating
        /\ \A t \in Templates : Current(p.doc.text.admin, t)
    BY <1>2 DEF Good, Sure
  <2>2. \A m, t : ~Sends(p, m) /\ ~Brings(p, m, t)
    BY <1>2 DEF Sends, Brings
  <2>3. \A b \in Agreed \ {a} : agreement'[b].of # p.m
    <3>1. \A b \in Agreed : agreement[b] # Unwritten => agreement[b].of # p.m
      BY <2>1, <2>2, Unsent DEF Good
    <3>. QED  BY <1>10, <1>11, <3>1
  <2>4. Sure(q)'
    BY <1>8, <1>9, <2>1 DEF Sure, Current
  <2>5. OneLive'
    BY <1>8 DEF Good, OneLive, Live
  <2>6. OneEach'
    <3> SUFFICES ASSUME NEW x \in Agreed, NEW y \in Agreed,
                        agreement'[x] # Unwritten,
                        agreement'[x].of = agreement'[y].of
                 PROVE  x = y
      BY DEF OneEach
    <3>1. CASE x = a \/ y = a
      BY <1>10, <1>11, <2>3, <3>1
    <3>2. CASE x # a /\ y # a
      <4>1. agreement'[x] = agreement[x] /\ agreement'[y] = agreement[y]
        BY <1>10, <3>2
      <4>. QED  BY <4>1 DEF Good, OneEach
    <3>. QED  BY <3>1, <3>2
  <2>7. SentBy(q)'
    <3> SUFFICES ASSUME NEW x \in Agreed, agreement'[x] # Unwritten
                 PROVE  \/ minuta[agreement'[x].of].status = "sent to agreements"
                        \/ Sends(q, agreement'[x].of)
      BY <1>8 DEF SentBy, Sends
    <3>1. CASE x = a
      BY <1>9, <1>10, <1>11, <3>1 DEF Sends
    <3>2. CASE x # a
      <4>1. agreement'[x] = agreement[x]
        BY <1>10, <3>2
      <4>. QED  BY <2>2, <4>1 DEF Good, SentBy
    <3>. QED  BY <3>1, <3>2
  <2>8. ReachedBy(q)'
    BY <1>8, <2>2 DEF Good, ReachedBy, Current
  <2>. QED  BY <2>4, <2>5, <2>6, <2>7, <2>8 DEF Good
<1>13. mreq[r].at # "idle" /\ (Good(mreq[r]) => Good(q)')
  BY <1>1, <1>2, <1>12
<1>. QED  BY <1>8, <1>13, WorkSolo

(* What an operation makes of its copy has the sections that the copy has, *)
(* but for unlocked ones of active templates.                              *)
LEMMA Replaced ==
    ASSUME MInv, NEW r \in Requests, Replace(r), NEW p, p = mreq[r],
           \A t \in Templates : Current(p.doc.text.admin, t)
    PROVE  \E d \in MinutaDocs :
               /\ minuta' = [minuta EXCEPT ![p.m] = d]
               /\ \A t \in Templates : Current(d.text.admin, t)
               /\ p.op = "approve" => d.status = "sent to agreements"
<1>1. p.at = "replace"
  BY DEF Replace
<1>2. p \in PartyWork
  BY <1>1, Typed, Shapes
<1>3. p.doc \in MinutaDocs /\ p.edit \in 0 .. MinutaMoves
  BY <1>2 DEF PartyWork
<1>4. CASE p.op = "update" /\
           \E b \in Edited(p.doc.text.admin) :
               minuta' = [minuta EXCEPT ![p.m] =
                   [p.doc EXCEPT !.text = [admin |-> b, own |-> p.edit],
                                 !.status = "draft"]]
  <2>1. PICK b \in Edited(p.doc.text.admin) :
          minuta' = [minuta EXCEPT ![p.m] =
              [p.doc EXCEPT !.text = [admin |-> b, own |-> p.edit],
                            !.status = "draft"]]
    BY <1>4
  <2>2. PICK x : x = [admin |-> b, own |-> p.edit]
    OBVIOUS
  <2>3. PICK d : d = [p.doc EXCEPT !.text = x, !.status = "draft"]
    OBVIOUS
  <2>4. minuta' = [minuta EXCEPT ![p.m] = d]
    BY <2>1, <2>2, <2>3
  <2>5. x \in Texts /\ x.admin = b
    BY <1>3, <2>2 DEF Texts, Edited
  <2>6. d \in MinutaDocs /\ d.text = x
    BY <1>3, <2>3, <2>5 DEF MinutaDocs, Statuses, Negotiating, Editable
  <2>7. \A t \in Templates : Current(b, t)
    BY <2>1 DEF Edited, Current
  <2>. QED  BY <1>4, <2>4, <2>5, <2>6, <2>7
<1>5. CASE p.op = "generate" /\
           minuta' = [minuta EXCEPT ![p.m] =
               [p.doc EXCEPT !.pdf = [made |-> TRUE, text |-> p.doc.text],
                             !.status = "pending approval"]]
  <2>1. PICK x : x = [made |-> TRUE, text |-> p.doc.text]
    OBVIOUS
  <2>2. PICK d : d = [p.doc EXCEPT !.pdf = x, !.status = "pending approval"]
    OBVIOUS
  <2>3. minuta' = [minuta EXCEPT ![p.m] = d]
    BY <1>5, <2>1, <2>2
  <2>4. x \in Pdfs
    BY <1>3, <2>1 DEF Pdfs, MinutaDocs
  <2>5. d \in MinutaDocs /\ d.text = p.doc.text
    BY <1>3, <2>2, <2>4 DEF MinutaDocs, Statuses, Negotiating
  <2>. QED  BY <1>5, <2>3, <2>5
<1>6. ASSUME NEW s \in {"sent to agreements", "changes requested", "rejected"},
             minuta' = [minuta EXCEPT ![p.m] = [p.doc EXCEPT !.status = s]],
             p.op = "approve" => s = "sent to agreements"
      PROVE  \E d \in MinutaDocs :
               /\ minuta' = [minuta EXCEPT ![p.m] = d]
               /\ \A t \in Templates : Current(d.text.admin, t)
               /\ p.op = "approve" => d.status = "sent to agreements"
  <2>1. PICK d : d = [p.doc EXCEPT !.status = s]
    OBVIOUS
  <2>2. s \in Statuses
    BY DEF Statuses, Negotiating, Editable
  <2>3. d \in MinutaDocs /\ d.status = s /\ d.text = p.doc.text
    BY <1>3, <2>1, <2>2 DEF MinutaDocs
  <2>4. minuta' = [minuta EXCEPT ![p.m] = d]
    BY <1>6, <2>1
  <2>. QED  BY <1>6, <2>3, <2>4
<1>. QED  BY <1>4, <1>5, <1>6 DEF Replace

LEMMA ReplaceSolo ==
    ASSUME MInv, SInv, NEW r \in Requests, Replace(r)
    PROVE  SInv'
<1>1. PICK p : p = mreq[r]
  OBVIOUS
<1>2. p.at = "replace" /\ p \in PartyWork /\ Fits(p)
  <2>1. mreq[r].at = "replace"
    BY DEF Replace
  <2>. QED  BY <1>1, <2>1, Typed, Shapes
<1>3. p.m \in Minutas
  BY <1>2 DEF PartyWork
<1>4. Goes(mreq, r, Idle) /\ UNCHANGED <<overlap, faults, template, agreement>>
  BY DEF Replace, Ends
<1>5. Good(p) => Good(Idle)'
  <2> SUFFICES ASSUME Good(p) PROVE Good(Idle)'
    OBVIOUS
  <2>1. /\ minuta[p.m].status \in Negotiating
        /\ \A t \in Templates : Current(p.doc.text.admin, t)
    BY <1>2 DEF Good, Sure
  <2>2. PICK d \in MinutaDocs :
          /\ minuta' = [minuta EXCEPT ![p.m] = d]
          /\ \A t \in Templates : Current(d.text.admin, t)
          /\ p.op = "approve" => d.status = "sent to agreements"
    BY <1>1, <2>1, Replaced
  <2>3. (\E a \in Agreed : agreement[a] # Unwritten /\ agreement[a].of = p.m)
            => d.status = "sent to agreements"
    <3>1. CASE p.op = "approve"
      BY <2>2, <3>1
    <3>2. CASE p.op # "approve"
      <4>1. ~Sends(p, p.m)
        BY <3>2 DEF Sends
      <4>. QED  BY <2>1, <4>1, Unsent DEF Good
    <3>. QED  BY <3>1, <3>2
  <2>4. Sure(Idle)'
    BY IdleGood DEF Sure
  <2>5. p.m \in Live
    BY <1>3, <2>1 DEF Live
  <2>6. \A n \in Minutas \ {p.m} : ~Sends(p, n)
    BY DEF Sends
  <2>7. \A n, t : ~Brings(p, n, t)
    BY <1>2 DEF Brings
  <2>. QED  BY <1>3, <1>4, <2>2, <2>3, <2>4, <2>5, <2>6, <2>7, StoredGood
<1>6. mreq[r].at # "idle" /\ (Good(mreq[r]) => Good(Idle)')
  BY <1>1, <1>2, <1>5
<1>. QED  BY <1>4, <1>6, WorkSolo

(* A template changes: its request is to list the minutas.                 *)
LEMMA TemplatesSolo ==
    ASSUME MInv, SInv, NEW r \in Requests, NEW t \in Templates,
           CreateTemplate(r, t) \/ UpdateTemplate(r, t) \/ DeleteTemplate(r, t)
    PROVE  SInv'
<1>1. PICK d \in TemplateDocs :
        /\ StartMinuta(r) /\ template' = [template EXCEPT ![t] = d]
        /\ Goes(mreq, r, [at |-> "list minutas", t |-> t, tmpl |-> d])
        /\ UNCHANGED <<overlap, faults, minuta, agreement>>
  BY TemplateStored
<1>2. PICK q : q = [at |-> "list minutas", t |-> t, tmpl |-> d]
  OBVIOUS
<1>3. Goes(mreq, r, q) /\ q.at = "list minutas" /\ q.t = t /\ q.tmpl = d
  BY <1>1, <1>2
<1>4. template'[t] = d /\ \A u \in Templates \ {t} : template'[u] = template[u]
  BY <1>1, Typed
<1>5. Good(Idle) => Good(q)'
  <2> SUFFICES ASSUME Good(Idle) PROVE Good(q)'
    OBVIOUS
  <2>1. Sure(q)'
    BY <1>3, <1>4 DEF Sure
  <2>2. OneLive' /\ OneEach'
    BY <1>1 DEF Good, OneLive, Live, OneEach
  <2>3. SentBy(q)'
    BY <1>1, IdleGood DEF Good, SentBy
  <2>4. ReachedBy(q)'
    <3> SUFFICES ASSUME NEW m \in Minutas, NEW u \in Templates, u # t,
                        minuta[m].status \in Negotiating
                 PROVE  Current(minuta[m].text.admin, u)'
      BY <1>1, <1>3 DEF ReachedBy, Brings
    <3>1. Current(minuta[m].text.admin, u)
      BY IdleGood DEF Good, ReachedBy
    <3>. QED  BY <1>1, <1>4, <3>1 DEF Current
  <2>. QED  BY <2>1, <2>2, <2>3, <2>4 DEF Good
<1>. QED  BY <1>1, <1>3, <1>5, StartsIdle, OneMoves

LEMMA PushingIs ==
    ASSUME NEW docs, NEW q, q = Pushing(docs)
    PROVE  \/ q = Idle /\ docs = Nothing
           \/ q.at = "push" /\ q.docs = docs
BY DEF Pushing

(* What a change of template t makes of a document.                        *)
LEMMA UpsertedCurrent ==
    ASSUME NEW d \in MinutaDocs, NEW t \in Templates,
           NEW x, x = Upserted(d, t, template[t])
    PROVE  /\ Current(x.text.admin, t)
           /\ \A u \in Templates \ {t} :
                  Current(d.text.admin, u) => Current(x.text.admin, u)
<1>1. PICK c : c = IF template[t].active THEN template[t].rev ELSE Missing
  OBVIOUS
<1>2. PICK b : b = [d.text.admin EXCEPT ![t] = c]
  OBVIOUS
<1>3. x = [d EXCEPT !.text.admin = b]
  BY <1>1, <1>2 DEF Upserted
<1>4. x.text.admin = b
  BY <1>3, SectionsAre
<1>5. d.text.admin \in [Templates -> Contents]
  BY DEF MinutaDocs, Texts
<1>6. b[t] = c /\ \A u \in Templates \ {t} : b[u] = d.text.admin[u]
  BY <1>2, <1>5
<1>. QED  BY <1>1, <1>4, <1>6 DEF Current

(* The list of the minutas that the change of a template alters: what is   *)
(* not on it has what the template says already.                           *)
LEMMA ListMinutasSolo ==
    ASSUME MInv, SInv, NEW r \in Requests, ListMinutas(r)
    PROVE  SInv'
<1>1. PICK p : p = mreq[r]
  OBVIOUS
<1>2. p.at = "list minutas" /\ p \in TemplateWork
  <2>1. mreq[r].at = "list minutas"
    BY DEF ListMinutas
  <2>. QED  BY <1>1, <2>1, Typed, Shapes
<1>3. p.t \in Templates
  BY <1>2 DEF TemplateWork
<1> DEFINE u(m) == Upserted(minuta[m], p.t, p.tmpl)
           alters(m) == minuta[m].status \in Negotiating /\ u(m) # minuta[m]
<1>4. PICK docs : docs = [m \in Minutas |-> IF alters(m) THEN u(m) ELSE NoMinuta]
  OBVIOUS
<1>5. PICK q : q = Pushing(docs)
  OBVIOUS
<1>6. Goes(mreq, r, q) /\ UNCHANGED <<overlap, faults, minuta, template, agreement>>
  BY <1>1, <1>4, <1>5 DEF ListMinutas
<1> HIDE DEF alters
<1>7. \A m \in Minutas : docs[m] = IF alters(m) THEN u(m) ELSE NoMinuta
  BY <1>4
<1>8. \/ q = Idle /\ docs = Nothing
      \/ q.at = "push" /\ q.docs = docs
  BY <1>5, PushingIs
<1>9. \A m \in Minutas : minuta[m].status \in Negotiating => minuta[m] \in MinutaDocs
  <2>1. "absent" \notin Negotiating
    BY DEF Negotiating, Editable
  <2>. QED  BY <2>1, Typed, Documents
<1>10. Good(p) => Good(q)'
  <2> SUFFICES ASSUME Good(p) PROVE Good(q)'
    OBVIOUS
  <2>1. p.tmpl = template[p.t]
    BY <1>2 DEF Good, Sure
  <2>2. ASSUME NEW m \in Minutas, minuta[m].status \in Negotiating
        PROVE  \A t \in Templates : Current(u(m).text.admin, t)
    <3>1. \A t \in Templates \ {p.t} : Current(minuta[m].text.admin, t)
      BY <1>2, <2>2 DEF Good, ReachedBy, Brings
    <3>2. PICK x : x = u(m)
      OBVIOUS
    <3>3. x = Upserted(minuta[m], p.t, template[p.t])
      BY <2>1, <3>2
    <3>4. /\ Current(x.text.admin, p.t)
          /\ \A t \in Templates \ {p.t} : Current(x.text.admin, t)
      BY <1>3, <1>9, <2>2, <3>1, <3>3, UpsertedCurrent
    <3>. QED  BY <3>2, <3>4
  <2>3. Sure(q)
    <3>1. CASE q = Idle
      BY <3>1, IdleGood
    <3>2. CASE q.at = "push" /\ q.docs = docs
      <4>1. ASSUME NEW m \in Minutas, docs[m] # NoMinuta
            PROVE  /\ minuta[m].status \in Negotiating
                   /\ \A t \in Templates : Current(docs[m].text.admin, t)
        <5>1. alters(m) /\ docs[m] = u(m)
          BY <1>7, <4>1
        <5>2. minuta[m].status \in Negotiating
          BY <5>1 DEF alters
        <5> HIDE DEF u
        <5>. QED  BY <2>2, <5>1, <5>2
      <4>. QED  BY <3>2, <4>1 DEF Sure
    <3>. QED  BY <1>8, <3>1, <3>2
  <2>4. \A m : ~Sends(p, m)
    BY <1>2 DEF Sends
  <2>5. ASSUME NEW m \in Minutas, NEW t \in Templates,
               minuta[m].status \in Negotiating
        PROVE  Brings(q, m, t) \/ Current(minuta[m].text.admin, t)
    <3>1. CASE alters(m)
      <4>1. docs[m] = u(m) /\ docs[m] # NoMinuta
        <5>1. u(m) \in MinutaDocs
          BY <1>2, <1>9, <2>5, UpsertedDoc DEF TemplateWork
        <5>. QED  BY <1>7, <3>1, <5>1, Documents
      <4>2. docs # Nothing
        BY <4>1 DEF Nothing
      <4>. QED  BY <1>8, <4>1, <4>2 DEF Brings
    <3>2. CASE ~alters(m)
      <4>1. minuta[m] = u(m)
        BY <2>5, <3>2 DEF alters
      <4> HIDE DEF u
      <4>. QED  BY <2>2, <2>5, <4>1
    <3>. QED  BY <3>1, <3>2
  <2>. QED  BY <1>6, <2>3, <2>4, <2>5, SameGood
<1>11. mreq[r].at # "idle" /\ (Good(mreq[r]) => Good(q)')
  BY <1>1, <1>2, <1>10
<1>. QED  BY <1>6, <1>11, WorkSolo

LEMMA ReorderSolo ==
    ASSUME MInv, SInv, NEW r \in Requests, Reorder(r)
    PROVE  SInv'
<1>1. PICK ms \in SUBSET {m \in Minutas : minuta[m].status \in Negotiating} :
        Goes(mreq, r, Pushing([m \in Minutas |->
               IF m \in ms THEN minuta[m] ELSE NoMinuta]))
  BY DEF Reorder
<1>2. PICK docs : docs = [m \in Minutas |-> IF m \in ms THEN minuta[m] ELSE NoMinuta]
  OBVIOUS
<1>3. PICK q : q = Pushing(docs)
  OBVIOUS
<1>4. /\ StartMinuta(r) /\ Goes(mreq, r, q)
      /\ UNCHANGED <<overlap, faults, minuta, template, agreement>>
  BY <1>1, <1>2, <1>3 DEF Reorder
<1>5. \/ q = Idle
      \/ q.at = "push" /\ q.docs = docs
  BY <1>3, PushingIs
<1>6. \A m \in Minutas : docs[m] # NoMinuta =>
          minuta[m].status \in Negotiating /\ docs[m] = minuta[m]
  BY <1>1, <1>2
<1>7. Good(Idle) => Sure(q)
  <2> SUFFICES ASSUME Good(Idle) PROVE Sure(q)
    OBVIOUS
  <2>1. CASE q = Idle
    BY <2>1, IdleGood
  <2>2. CASE q.at = "push" /\ q.docs = docs
    <3>1. \A m \in Minutas, t \in Templates : docs[m] # NoMinuta =>
              Current(docs[m].text.admin, t)
      BY <1>6, IdleGood DEF Good, ReachedBy
    <3>. QED  BY <1>6, <2>2, <3>1 DEF Sure
  <2>. QED  BY <1>5, <2>1, <2>2
<1>. QED  BY <1>4, <1>7, StartSolo

LEMMA PushSolo ==
    ASSUME MInv, SInv, NEW r \in Requests, Push(r)
    PROVE  SInv'
<1>1. PICK p : p = mreq[r]
  OBVIOUS
<1>2. p.at = "push" /\ p \in PushWork
  <2>1. mreq[r].at = "push"
    BY DEF Push
  <2>. QED  BY <1>1, <2>1, Typed, Shapes
<1>3. p.docs \in [Minutas -> MinutaDocs \cup {NoMinuta}]
  BY <1>2 DEF PushWork
<1>4. PICK m \in Minutas :
        /\ p.docs[m] # NoMinuta /\ minuta' = [minuta EXCEPT ![m] = p.docs[m]]
        /\ Goes(mreq, r, Pushing([p.docs EXCEPT ![m] = NoMinuta]))
  BY <1>1 DEF Push
<1>5. PICK d : d = p.docs[m]
  OBVIOUS
<1>6. PICK rest : rest = [p.docs EXCEPT ![m] = NoMinuta]
  OBVIOUS
<1>7. PICK q : q = Pushing(rest)
  OBVIOUS
<1>8. /\ Goes(mreq, r, q) /\ minuta' = [minuta EXCEPT ![m] = d]
      /\ UNCHANGED <<overlap, faults, template, agreement>>
  BY <1>4, <1>5, <1>6, <1>7 DEF Push
<1>9. d \in MinutaDocs
  BY <1>3, <1>4, <1>5, Documents
<1>10. rest[m] = NoMinuta /\ \A n \in Minutas \ {m} : rest[n] = p.docs[n]
  BY <1>3, <1>6
<1>11. \/ q = Idle /\ rest = Nothing
       \/ q.at = "push" /\ q.docs = rest
  BY <1>7, PushingIs
<1>12. minuta'[m] = d /\ \A n \in Minutas \ {m} : minuta'[n] = minuta[n]
  BY <1>8, Typed
<1>13. Good(p) => Good(q)'
  <2> SUFFICES ASSUME Good(p) PROVE Good(q)'
    OBVIOUS
  <2>1. \A n \in Minutas : p.docs[n] # NoMinuta =>
            /\ minuta[n].status \in Negotiating
            /\ \A t \in Templates : Current(p.docs[n].text.admin, t)
    BY <1>2 DEF Good, Sure
  <2>2. Sure(q)'
    <3>1. CASE q = Idle
      BY <3>1, IdleGood DEF Sure
    <3>2. CASE q.at = "push" /\ q.docs = rest
      <4>1. ASSUME NEW n \in Minutas, rest[n] # NoMinuta
            PROVE  /\ minuta'[n].status \in Negotiating
                   /\ \A t \in Templates : Current(rest[n].text.admin, t)
        BY <1>10, <1>12, <2>1, <4>1
      <4>2. \A n \in Minutas : rest[n] # NoMinuta =>
                \A t \in Templates : Current(rest[n].text.admin, t)'
        BY <1>8, <4>1 DEF Current
      <4>. QED  BY <3>2, <4>1, <4>2 DEF Sure
    <3>. QED  BY <1>11, <3>1, <3>2
  <2>3. \A n : ~Sends(p, n)
    BY <1>2 DEF Sends
  <2>4. \A a \in Agreed : agreement[a] # Unwritten => agreement[a].of # m
    BY <1>4, <2>1, <2>3, Unsent DEF Good
  <2>5. m \in Live
    BY <1>4, <2>1 DEF Live
  <2>6. \A n \in Minutas \ {m}, t \in Templates :
            Brings(p, n, t) => Brings(q, n, t)
    <3>1. \A n \in Minutas \ {m} : p.docs[n] # NoMinuta => rest # Nothing
      BY <1>10 DEF Nothing
    <3>. QED  BY <1>2, <1>10, <1>11, <3>1 DEF Brings
  <2>7. \A t \in Templates : Current(d.text.admin, t)
    BY <1>4, <1>5, <2>1
  <2>. QED  BY <1>8, <1>9, <2>2, <2>3, <2>4, <2>5, <2>6, <2>7, StoredGood
<1>14. mreq[r].at # "idle" /\ (Good(mreq[r]) => Good(q)')
  BY <1>1, <1>2, <1>13
<1>. QED  BY <1>8, <1>14, WorkSolo

LEMMA SInvStarts == MinutasInit => SInv
<1> SUFFICES ASSUME MinutasInit PROVE SInv
  OBVIOUS
<1>1. /\ minuta = [m \in Minutas |-> NoMinuta]
      /\ agreement = [a \in Agreed |-> Unwritten]
      /\ mreq = [r \in Requests |-> Idle]
  BY DEF MinutasInit
<1>2. Alone(Idle)
  BY <1>1 DEF Alone
<1>3. \A m \in Minutas : minuta[m].status = "absent"
  BY <1>1 DEF NoMinuta
<1>4. Live = {}
  BY <1>3 DEF Live, Negotiating, Editable
<1>5. OneLive /\ OneEach /\ SentBy(Idle)
  BY <1>1, <1>4 DEF OneLive, OneEach, SentBy
<1>6. ReachedBy(Idle)
  BY <1>3 DEF ReachedBy, Negotiating, Editable
<1>. QED  BY <1>2, <1>5, <1>6, IdleGood DEF SInv, Good

LEMMA SInvKept == MInv /\ SInv /\ [MinutasNext]_mvars => SInv'
<1> SUFFICES ASSUME MInv, SInv, [MinutasNext]_mvars PROVE SInv'
  OBVIOUS
<1>1. CASE UNCHANGED mvars
  <2>1. /\ minuta' = minuta /\ template' = template /\ agreement' = agreement
        /\ mreq' = mreq /\ overlap' = overlap /\ faults' = faults
    BY <1>1 DEF mvars
  <2>2. Live' = Live /\ \A f, t : Current(f, t)' <=> Current(f, t)
    BY <2>1 DEF Live, Current
  <2>3. \A q : Sure(q) => Sure(q)'
    <3> SUFFICES ASSUME NEW q, Sure(q) PROVE Sure(q)'
      OBVIOUS
    <3>. QED  BY <2>1, <2>2 DEF Sure
  <2>4. \A q : Good(q) => Good(q)'
    <3> SUFFICES ASSUME NEW q, Good(q) PROVE Good(q)'
      OBVIOUS
    <3>1. Sure(q)'
      BY <2>3 DEF Good
    <3>2. OneLive' /\ OneEach'
      BY <2>1, <2>2 DEF Good, OneLive, OneEach
    <3>3. SentBy(q)'
      BY <2>1 DEF Good, SentBy, Sends
    <3>4. ReachedBy(q)'
      BY <2>1, <2>2 DEF Good, ReachedBy, Brings
    <3>. QED  BY <3>1, <3>2, <3>3, <3>4 DEF Good
  <2>5. \A q : Alone(q) => Alone(q)'
    BY <2>1 DEF Alone, AllIdle
  <2>. QED  BY <2>1, <2>4, <2>5 DEF SInv
<1>2. ASSUME NEW r \in Requests, MinutaStep(r) PROVE SInv'
  <2>1. CASE MinutaRaises(r)
    BY <2>1 DEF MinutaRaises, Raises, SInv
  <2>. QED  BY <1>2, <2>1, FindNoneSolo, ListTemplatesSolo, InsertSolo,
               PartiesSolo, SyncSolo, ResaveSolo, AgreeSolo, ReplaceSolo,
               TemplatesSolo, ListMinutasSolo, ReorderSolo, PushSolo
            DEF MinutaStep
<1>. QED  BY <1>1, <1>2 DEF MinutasNext

LEMMA SInvHolds == MinutasSpec => []SInv
<1>1. MInv /\ SInv /\ [MinutasNext]_mvars => (MInv /\ SInv)'
  BY MInvKept, SInvKept
<1>. QED  BY <1>1, MinutasStart, SInvStarts, PTL DEF MinutasSpec

-----------------------------------------------------------------------------
(* Theorems                                                                *)

(* The collections and the handlers' copies keep to their types.           *)
THEOREM MinutasTypeCorrect == MinutasSpec => []TypeOKMinutas
<1>1. MInv => TypeOKMinutas
  BY DEF MInv
<1>. QED  BY <1>1, MInvHolds, PTL

(* What the offerer wrote when it submitted a minuta is what stands for    *)
(* approval and what is agreed, and a minuta sent to agreements names an   *)
(* agreement with its very text, whatever overlaps or raises; one request  *)
(* at a time and no failure, one minuta counts and it is agreed once.      *)
THEOREM MinutasAgreedAsSubmitted == MinutasSpec => []AgreedAsSubmitted
<1>1. MInv => SubmittedText
  BY Typed DEF SubmittedText, Stands, Submitted
<1>2. MInv => SentText
  BY Typed DEF SentText, Stands, Backed
<1>3. SInv => AgreedOnce
  <2> SUFFICES ASSUME SInv, ~overlap, ~faults PROVE AgreedOnce
    BY DEF AgreedOnce
  <2>1. PICK q : Good(q) /\ (AllIdle(mreq) => q = Idle)
    BY DEF SInv, Alone
  <2>2. OneLive /\ OneEach
    BY <2>1 DEF Good
  <2>3. AllIdle(mreq) =>
          \A a \in Agreed : agreement[a] # Unwritten =>
              minuta[agreement[a].of].status = "sent to agreements"
    <3>1. AllIdle(mreq) => SentBy(Idle)
      BY <2>1 DEF Good
    <3>. QED  BY <3>1, IdleGood DEF SentBy
  <2>. QED  BY <2>2, <2>3 DEF AgreedOnce, OneLive, OneEach
<1>4. MInv /\ SInv => AgreedAsSubmitted
  BY <1>1, <1>2, <1>3 DEF MInv, AgreedAsSubmitted
<1>. QED  BY <1>4, MInvHolds, SInvHolds, PTL

(* One request at a time and no failure, what the templates say reaches    *)
(* every minuta under negotiation: only changes are pushed, and reads add  *)
(* and drop sections but never update one.                                 *)
THEOREM MinutasTemplatesReach == MinutasSpec => []TemplatesReach
<1>1. SInv => TemplatesReach
  <2> SUFFICES ASSUME SInv, ~overlap, ~faults, AllIdle(mreq)
               PROVE  TemplatesReach
    BY DEF TemplatesReach
  <2>1. Good(Idle)
    BY DEF SInv, Alone
  <2>. QED  BY <2>1, IdleGood DEF Good, ReachedBy, Current, TemplatesReach
<1>. QED  BY <1>1, SInvHolds, PTL

-----------------------------------------------------------------------------
(***************************************************************************)
(* The sections of a minuta (MinutaSections), for any number of core       *)
(* sections, templates, edits and changes of templates.                    *)
(*                                                                         *)
(* InOrder ranks what it orders by how many come before it; by a strict    *)
(* total order, as Before is, the ranks are 0 .. n - 1, each once          *)
(* (InOrderSorts).  So what reorder_proposal_sections returns holds the    *)
(* sections it keeps, each in the place of its rank (Arranges).  Put in    *)
(* order again, a core section has as many before it as it had (CoreRank), *)
(* every section is in its part and the parts in their order: nothing      *)
(* moves (ReorderedAgain).                                                 *)
(*                                                                         *)
(* Every operation keeps Whole: each core title on a section that is core  *)
(* and no template's, a foro, and no template's section titled as it.      *)
(***************************************************************************)

(* before is a strict total order of I.                                    *)
Linear(I, before) ==
    \A i, j \in I : /\ <<i, i>> \notin before
                    /\ i # j => <<i, j>> \in before \/ <<j, i>> \in before
                    /\ \A k \in I : <<i, j>> \in before /\ <<j, k>> \in before
                                      => <<i, k>> \in before

(* at lists the members of I, each once, in the order before.              *)
Sorts(at, I, before) ==
    /\ at \in [1 .. Cardinality(I) -> I]
    /\ \A i \in I : \E k \in 1 .. Cardinality(I) : at[k] = i
    /\ \A k, l \in 1 .. Cardinality(I) : k < l => <<at[k], at[l]>> \in before

LEMMA InOrderSorts ==
    ASSUME NEW I, IsFiniteSet(I), NEW before, Linear(I, before)
    PROVE  Sorts(InOrder(I, before), I, before)
<1> DEFINE n == Cardinality(I)
           pred(i) == {j \in I : <<j, i>> \in before}
           rank == [i \in I |-> Cardinality(pred(i))]
<1>1. n \in Nat
  BY FS_CardinalityType
<1>2. ASSUME NEW i \in I PROVE IsFiniteSet(pred(i)) /\ rank[i] \in 0 .. n - 1
  <2>1. pred(i) \in SUBSET I /\ i \notin pred(i)
    BY DEF Linear
  <2>2. IsFiniteSet(pred(i)) /\ Cardinality(pred(i)) <= n
          /\ (n = Cardinality(pred(i)) => I = pred(i))
    BY <2>1, FS_Subset
  <2>3. Cardinality(pred(i)) \in Nat
    BY <2>2, FS_CardinalityType
  <2>. QED  BY <1>1, <2>1, <2>2, <2>3
<1>3. ASSUME NEW i \in I, NEW j \in I, <<i, j>> \in before
      PROVE  rank[i] < rank[j]
  <2>1. pred(i) \in SUBSET pred(j) /\ i \in pred(j) /\ i \notin pred(i)
    BY <1>3 DEF Linear
  <2>2. IsFiniteSet(pred(j)) /\ rank[i] \in Nat /\ rank[j] \in Nat
    BY <1>1, <1>2
  <2>3. Cardinality(pred(i)) <= Cardinality(pred(j))
          /\ (Cardinality(pred(j)) = Cardinality(pred(i)) => pred(j) = pred(i))
    BY <2>1, <2>2, FS_Subset
  <2>. QED  BY <2>1, <2>2, <2>3
<1> HIDE DEF pred
<1>4. ASSUME NEW i \in I, NEW j \in I, rank[i] = rank[j] PROVE i = j
  <2>1. rank[i] \in 0 .. n - 1 /\ rank[j] \in 0 .. n - 1
    BY <1>2
  <2>2. i # j => <<i, j>> \in before \/ <<j, i>> \in before
    BY DEF Linear
  <2>. QED  BY <1>1, <1>3, <1>4, <2>1, <2>2
<1>5. rank \in Injection(I, 0 .. n - 1)
  <2>1. rank \in [I -> 0 .. n - 1]
    BY <1>2
  <2>. QED  BY <2>1, <1>4 DEF Injection, IsInjective
<1>6. ASSUME NEW k \in 1 .. n PROVE \E i \in I : rank[i] = k - 1
  <2>1. IsFiniteSet(0 .. n - 1) /\ Cardinality(0 .. n - 1) = n
    <3>1. PICK m \in Int : m = n - 1
      BY <1>1
    <3>2. IsFiniteSet(0 .. m)
            /\ Cardinality(0 .. m) = IF 0 > m THEN 0 ELSE m - 0 + 1
      BY FS_Interval
    <3>. QED  BY <1>1, <3>1, <3>2
  <2>2. Cardinality(I) = Cardinality(0 .. n - 1)
          <=> rank \in Surjection(I, 0 .. n - 1)
    BY <1>5, <2>1, FS_Injection
  <2>3. rank \in Surjection(I, 0 .. n - 1)
    BY <2>1, <2>2
  <2>4. \A t \in 0 .. n - 1 : \E i \in I : rank[i] = t
    BY <2>3 DEF Surjection
  <2>5. k - 1 \in 0 .. n - 1
    BY <1>1
  <2>. QED  BY <2>4, <2>5
<1> DEFINE at == [k \in 1 .. n |-> CHOOSE i \in I : rank[i] = k - 1]
<1>7. InOrder(I, before) = at
  BY DEF InOrder, pred
<1>8. ASSUME NEW k \in 1 .. n PROVE at[k] \in I /\ rank[at[k]] = k - 1
  BY <1>6
<1> HIDE DEF rank
<1>9. at \in [1 .. n -> I]
  BY <1>8
<1>10. ASSUME NEW i \in I PROVE \E k \in 1 .. n : at[k] = i
  <2>1. rank[i] \in 0 .. n - 1
    BY <1>2
  <2>2. PICK k \in 1 .. n : rank[i] = k - 1
    <3>1. rank[i] + 1 \in 1 .. n /\ rank[i] = (rank[i] + 1) - 1
      BY <1>1, <2>1
    <3>. QED  BY <3>1
  <2>. QED  BY <1>4, <1>8, <2>2
<1>11. ASSUME NEW k \in 1 .. n, NEW l \in 1 .. n, k < l
       PROVE  <<at[k], at[l]>> \in before
  <2>1. /\ at[k] \in I /\ at[l] \in I
        /\ rank[at[k]] = k - 1 /\ rank[at[l]] = l - 1
    BY <1>8
  <2>2. PICK a \in I, b \in I : a = at[k] /\ b = at[l]
    BY <2>1
  <2>3. rank[a] < rank[b]
    BY <1>1, <1>11, <2>1, <2>2
  <2>4. a # b /\ ~ (rank[b] < rank[a])
    BY <1>2, <2>3
  <2>5. <<a, b>> \in before \/ <<b, a>> \in before
    BY <2>4 DEF Linear
  <2>6. <<a, b>> \in before
    BY <1>3, <2>4, <2>5
  <2>. QED  BY <2>2, <2>6
<1>. QED  BY <1>7, <1>9, <1>10, <1>11 DEF Sorts

(* What lies in order is put in the order in which it lies.                *)
LEMMA AlreadyInOrder ==
    ASSUME NEW n \in Nat, NEW before,
           \A i, j \in 1 .. n : <<i, j>> \in before <=> i < j
    PROVE  InOrder(1 .. n, before) = [k \in 1 .. n |-> k]
<1> DEFINE rank == [i \in 1 .. n |-> Cardinality({j \in 1 .. n : <<j, i>> \in before})]
<1>1. Cardinality(1 .. n) = n
  BY FS_Interval
<1>2. ASSUME NEW i \in 1 .. n PROVE rank[i] = i - 1
  <2>1. {j \in 1 .. n : <<j, i>> \in before} = 1 .. i - 1
    OBVIOUS
  <2>2. Cardinality(1 .. i - 1) = i - 1
    <3>1. 1 \in Int /\ i - 1 \in Int /\ ~ (1 > i)
      OBVIOUS
    <3>. QED  BY <3>1, FS_Interval
  <2>. QED  BY <2>1, <2>2
<1>3. InOrder(1 .. n, before) = [k \in 1 .. n |-> CHOOSE i \in 1 .. n : rank[i] = k - 1]
  BY <1>1 DEF InOrder
<1> HIDE DEF rank
<1>4. ASSUME NEW k \in 1 .. n PROVE (CHOOSE i \in 1 .. n : rank[i] = k - 1) = k
  <2>1. rank[k] = k - 1 /\ \A i \in 1 .. n : rank[i] = k - 1 => i = k
    BY <1>2
  <2>. QED  BY <2>1
<1>. QED  BY <1>3, <1>4

LEMMA LeastNumber ==
    ASSUME NEW T, T \subseteq Nat, T # {}
    PROVE  \E n \in T : \A m \in T : n <= m
<1> DEFINE R == OpToRel(<, Nat)
<1>1. IsWellFoundedOn(R, Nat)
  BY NatLessThanWellFounded
<1>2. \A m, n \in Nat : <<m, n>> \in R <=> m < n
  BY DEF OpToRel
<1>3. PICK n \in T : \A m \in T : ~ (<<m, n>> \in R)
  <2> HIDE DEF R
  <2>. QED  BY <1>1, WFMin
<1>4. ASSUME NEW m \in T PROVE n <= m
  <2>1. m \in Nat /\ n \in Nat
    OBVIOUS
  <2>2. ~ (m < n)
    BY <1>2, <1>3, <2>1
  <2>. QED  BY <2>1, <2>2
<1>. QED  BY <1>4

(* e has the entries of d at the places I and no others.                   *)
Picks(e, d, I) ==
    /\ \A k \in DOMAIN e : \E i \in I : e[k] = d[i]
    /\ \A i \in I : \E k \in DOMAIN e : e[k] = d[i]

LEMMA ThosePick ==
    ASSUME NEW S, NEW d \in Seq(S), NEW I \in SUBSET DOMAIN d
    PROVE  Those(d, I) \in Seq(S) /\ Picks(Those(d, I), d, I)
<1> DEFINE before == {p \in I \X I : p[1] < p[2]}
           at == InOrder(I, before)
<1>1. IsFiniteSet(I) /\ I \subseteq Nat
  <2>1. DOMAIN d = 1 .. Len(d) /\ Len(d) \in Nat
    OBVIOUS
  <2>2. PICK n \in Nat : DOMAIN d = 1 .. n
    BY <2>1
  <2>3. IsFiniteSet(1 .. n)
    BY FS_Interval
  <2>. QED  BY <2>2, <2>3, FS_Subset
<1>2. \A i, j \in I : <<i, j>> \in before <=> i < j
  OBVIOUS
<1> HIDE DEF before
<1>3. Linear(I, before)
  <2>1. ASSUME NEW i \in I, NEW j \in I
        PROVE  /\ <<i, i>> \notin before
               /\ i # j => <<i, j>> \in before \/ <<j, i>> \in before
    BY <1>1, <1>2
  <2>2. ASSUME NEW i \in I, NEW j \in I, NEW k \in I,
               <<i, j>> \in before, <<j, k>> \in before
        PROVE  <<i, k>> \in before
    <3>1. i < j /\ j < k
      BY <1>2, <2>2
    <3>2. i < k
      BY <1>1, <3>1
    <3>. QED  BY <1>2, <3>2
  <2>. QED  BY <2>1, <2>2 DEF Linear
<1>4. Sorts(at, I, before)
  BY <1>1, <1>3, InOrderSorts
<1>5. Those(d, I) = [k \in DOMAIN at |-> d[at[k]]]
  BY DEF Those, before
<1>6. PICK n \in Nat : n = Cardinality(I)
  BY <1>1, FS_CardinalityType
<1>7. /\ at \in [1 .. n -> I]
      /\ \A i \in I : \E k \in 1 .. n : at[k] = i
  BY <1>4, <1>6 DEF Sorts
<1> HIDE DEF at
<1>8. DOMAIN Those(d, I) = 1 .. n
  BY <1>5, <1>7
<1>9. \A k \in 1 .. n : Those(d, I)[k] = d[at[k]] /\ at[k] \in I /\ d[at[k]] \in S
  BY <1>5, <1>7
<1>10. Those(d, I) \in [1 .. n -> S]
  BY <1>5, <1>7, <1>9
<1>11. Those(d, I) \in Seq(S)
  BY <1>10
<1>12. Picks(Those(d, I), d, I)
  <2> DEFINE e == Those(d, I)
  <2>1. DOMAIN e = 1 .. n /\ \A k \in 1 .. n : e[k] = d[at[k]] /\ at[k] \in I
    BY <1>8, <1>9
  <2> HIDE DEF e
  <2>2. ASSUME NEW i \in I PROVE \E k \in DOMAIN e : e[k] = d[i]
    <3>1. PICK k \in 1 .. n : at[k] = i
      BY <1>7
    <3>. QED  BY <2>1, <3>1
  <2>3. Picks(e, d, I)
    BY <2>1, <2>2 DEF Picks
  <2>. QED  BY <2>3 DEF e
<1>. QED  BY <1>11, <1>12

LEMMA ThoseAll ==
    ASSUME NEW S, NEW d \in Seq(S)
    PROVE  Those(d, DOMAIN d) = d
<1>1. PICK n \in Nat : n = Len(d) /\ DOMAIN d = 1 .. n
  OBVIOUS
<1> DEFINE before == {p \in (1 .. n) \X (1 .. n) : p[1] < p[2]}
<1>2. \A i, j \in 1 .. n : <<i, j>> \in before <=> i < j
  OBVIOUS
<1>3. InOrder(1 .. n, before) = [k \in 1 .. n |-> k]
  <2> HIDE DEF before
  <2>. QED  BY <1>2, AlreadyInOrder
<1>4. Those(d, DOMAIN d) = [k \in 1 .. n |-> d[k]]
  <2>1. Those(d, 1 .. n) = [k \in DOMAIN InOrder(1 .. n, before) |-> d[InOrder(1 .. n, before)[k]]]
    BY DEF Those
  <2>. QED  BY <1>1, <1>3, <2>1
<1>. QED  BY <1>1, <1>4

-----------------------------------------------------------------------------

(* Before, without the ranks it is written with.                           *)
Ahead(d, list, i, j) ==
    \/ Part(d, list, i) < Part(d, list, j)
    \/ Part(d, list, i) = Part(d, list, j)
         /\ SortKey(d, list, i) < SortKey(d, list, j)
    \/ /\ Part(d, list, i) = Part(d, list, j)
       /\ SortKey(d, list, i) = SortKey(d, list, j)
       /\ i < j

LEMMA BeforeIsAhead ==
    ASSUME NEW d, NEW list, NEW i, NEW j
    PROVE  <<i, j>> \in Before(d, list)
              <=> i \in Survivors(d) /\ j \in Survivors(d) /\ Ahead(d, list, i, j)
<1> DEFINE rank(x) == <<Part(d, list, x), SortKey(d, list, x), x>>
           ranks == {rank(x) : x \in Survivors(d)}
           precedes(a, b) ==
               \/ a[1] < b[1]
               \/ a[1] = b[1] /\ a[2] < b[2]
               \/ a[1] = b[1] /\ a[2] = b[2] /\ a[3] < b[3]
           pairs == {q \in ranks \X ranks : precedes(q[1], q[2])}
<1>1. Before(d, list) = {<<p[1][3], p[2][3]>> : p \in pairs}
  BY DEF Before
<1>2. \A x, y : precedes(rank(x), rank(y)) <=> Ahead(d, list, x, y)
  BY DEF Ahead
<1>3. \A x : rank(x)[3] = x
  OBVIOUS
<1>4. ASSUME i \in Survivors(d), j \in Survivors(d), Ahead(d, list, i, j)
      PROVE  <<i, j>> \in Before(d, list)
  <2>1. rank(i) \in ranks /\ rank(j) \in ranks
    BY <1>4
  <2>2. precedes(rank(i), rank(j))
    BY <1>2, <1>4
  <2>3. PICK p : p = <<rank(i), rank(j)>>
    OBVIOUS
  <2> HIDE DEF rank, precedes, ranks
  <2>4. p \in ranks \X ranks /\ p[1] = rank(i) /\ p[2] = rank(j)
    BY <2>1, <2>3
  <2>5. p \in pairs
    BY <2>2, <2>4
  <2>6. <<p[1][3], p[2][3]>> = <<i, j>>
    BY <1>3, <2>4
  <2> HIDE DEF pairs
  <2>. QED  BY <1>1, <2>5, <2>6
<1>5. ASSUME <<i, j>> \in Before(d, list)
      PROVE  i \in Survivors(d) /\ j \in Survivors(d) /\ Ahead(d, list, i, j)
  <2> HIDE DEF rank, precedes
  <2>1. PICK p \in pairs : <<i, j>> = <<p[1][3], p[2][3]>>
    <3> HIDE DEF pairs
    <3>. QED  BY <1>1, <1>5
  <2>2. p[1] \in ranks /\ p[2] \in ranks /\ precedes(p[1], p[2])
    BY <2>1
  <2>3. PICK x \in Survivors(d) : p[1] = rank(x)
    BY <2>2
  <2>4. PICK y \in Survivors(d) : p[2] = rank(y)
    BY <2>2
  <2>5. i = x /\ j = y
    BY <1>3, <2>1, <2>3, <2>4
  <2>. QED  BY <1>2, <2>2, <2>3, <2>4, <2>5
<1>. QED  BY <1>4, <1>5

KindsOf == {"core", "admin", "custom", "foro"}

LEMMA SectionKinds ==
    ASSUME NEW s
    PROVE  /\ Kind(s) \in KindsOf
           /\ Kind(s) = "foro" <=> s.title = ForoTitle
           /\ Kind(s) = "core"
                <=> s.title # ForoTitle /\ (s.core \/ s.title < CoreCount)
           /\ Kind(s) = "admin" => s.clause # NoClause
<1>1. CASE s.title = ForoTitle
  <2>1. Kind(s) = "foro"
    BY <1>1 DEF Kind
  <2>. QED  BY <1>1, <2>1 DEF KindsOf
<1>2. CASE s.title # ForoTitle /\ (s.core \/ s.title < CoreCount)
  <2>1. Kind(s) = "core"
    BY <1>2 DEF Kind
  <2>. QED  BY <1>2, <2>1 DEF KindsOf
<1>3. CASE s.title # ForoTitle /\ ~ (s.core \/ s.title < CoreCount)
  <2>1. Kind(s) = IF s.clause # NoClause THEN "admin" ELSE "custom"
    BY <1>3 DEF Kind
  <2>. QED  BY <1>3, <2>1 DEF KindsOf
<1>. QED  BY <1>1, <1>2, <1>3

LEMMA Positions ==
    ASSUME NEW S, NEW list \in Seq(S), NEW c \in ToSet(list)
    PROVE  Position(list, c) \in DOMAIN list /\ list[Position(list, c)] = c
BY DEF Position, ToSet

LEMMA RankTypes ==
    ASSUME NEW d \in Seq(Sections), NEW list \in Seq(Clauses), NEW i \in DOMAIN d
    PROVE  /\ Part(d, list, i) \in 1 .. 6
           /\ SortKey(d, list, i) \in Nat
<1>1. d[i] \in Sections
  OBVIOUS
<1>2. d[i].title \in Nat /\ d[i].order \in Nat
  BY <1>1, LayoutAssumption DEF Sections, Titles, OtherTitle
<1>3. Kind(d[i]) \in KindsOf
  BY SectionKinds
<1>4. Part(d, list, i) \in 1 .. 6
  BY <1>3 DEF Part, KindsOf
<1>5. Part(d, list, i) = 2 => d[i].clause \in ToSet(list)
  BY <1>3 DEF Part, KindsOf
<1>6. Part(d, list, i) = 2 => Position(list, d[i].clause) \in Nat
  <2>1. \A c \in ToSet(list) : Position(list, c) \in DOMAIN list
    BY Positions
  <2>. QED  BY <1>5, <2>1
<1>7. SortKey(d, list, i) \in Nat
  BY <1>2, <1>4, <1>6 DEF SortKey
<1>. QED  BY <1>4, <1>7

LEMMA BeforeLinear ==
    ASSUME NEW d \in Seq(Sections), NEW list \in Seq(Clauses)
    PROVE  Linear(Survivors(d), Before(d, list))
<1> DEFINE ahead(i, j) == Ahead(d, list, i, j)
<1>1. Survivors(d) \subseteq DOMAIN d /\ DOMAIN d \subseteq Nat
  BY DEF Survivors
<1>2. \A i \in Survivors(d) : Part(d, list, i) \in Nat /\ SortKey(d, list, i) \in Nat
  BY <1>1, RankTypes
<1>3. \A i, j \in Survivors(d) : <<i, j>> \in Before(d, list) <=> ahead(i, j)
  BY BeforeIsAhead
<1>4. \A i, j \in Survivors(d) : ~ ahead(i, i) /\ (i # j => ahead(i, j) \/ ahead(j, i))
  BY <1>1, <1>2 DEF Ahead
<1>5. \A i, j, k \in Survivors(d) : ahead(i, j) /\ ahead(j, k) => ahead(i, k)
  BY <1>1, <1>2 DEF Ahead
<1> HIDE DEF ahead
<1>. QED  BY <1>3, <1>4, <1>5 DEF Linear

(* A section as reorder_proposal_sections leaves it at place o.            *)
Put(s, o) == [Settled(s) EXCEPT !.order = o]

(* t is s but for what makes it core, and its order.                       *)
SettledAs(t, s, o) ==
    /\ t \in Sections
    /\ Kind(t) = Kind(s) /\ t.title = s.title /\ t.order = o
    /\ Kind(s) \in {"core", "foro"} => t.core
    /\ Kind(s) = "foro" => t.clause = NoClause
    /\ Kind(s) # "foro" => t.clause = s.clause

(* e is d put in order: the section at k is the one that was at at[k].     *)
Arranges(e, d, list, at, n) ==
    /\ n \in Nat
    /\ at \in [1 .. n -> Survivors(d)]
    /\ \A i \in Survivors(d) : \E k \in 1 .. n : at[k] = i
    /\ \A k, l \in 1 .. n : k < l => Ahead(d, list, at[k], at[l])
    /\ e \in Seq(Sections) /\ Len(e) = n
    /\ \A k \in 1 .. n : e[k] = Put(d[at[k]], k - 1)

InOrderOf(e, d, list) == \E n, at : Arranges(e, d, list, at, n)

LEMMA SettledSection ==
    ASSUME NEW s \in Sections, NEW o \in Nat, NEW t, t = Put(s, o)
    PROVE  SettledAs(t, s, o)
<1>1. Kind(s) \in KindsOf
  BY SectionKinds
<1>2. CASE Kind(s) = "foro"
  <2>1. t = [[s EXCEPT !.core = TRUE, !.clause = NoClause] EXCEPT !.order = o]
    BY <1>2 DEF Settled, Put
  <2>2. /\ t \in Sections /\ t.title = s.title /\ t.order = o /\ t.core
        /\ t.clause = NoClause
    BY <2>1 DEF Sections
  <2>3. Kind(t) = "foro"
    BY <1>2, <2>2, SectionKinds
  <2>. QED  BY <1>2, <2>2, <2>3 DEF SettledAs
<1>3. CASE Kind(s) = "core"
  <2>1. t = [[s EXCEPT !.core = TRUE] EXCEPT !.order = o]
    BY <1>3 DEF Settled, Put
  <2>2. /\ t \in Sections /\ t.title = s.title /\ t.order = o /\ t.core
        /\ t.clause = s.clause
    BY <2>1 DEF Sections
  <2>3. Kind(t) = "core"
    BY <1>3, <2>2, SectionKinds
  <2>. QED  BY <1>3, <2>2, <2>3 DEF SettledAs
<1>4. CASE Kind(s) \notin {"core", "foro"}
  <2>1. t = [s EXCEPT !.order = o]
    BY <1>4 DEF Settled, Put
  <2>2. /\ t \in Sections /\ t.title = s.title /\ t.order = o /\ t.core = s.core
        /\ t.clause = s.clause
    BY <2>1 DEF Sections
  <2>3. Kind(t) = Kind(s)
    BY <2>2 DEF Kind
  <2>. QED  BY <1>4, <2>2, <2>3 DEF SettledAs
<1>. QED  BY <1>2, <1>3, <1>4

LEMMA ReorderedArranges ==
    ASSUME NEW d \in Seq(Sections), NEW list \in Seq(Clauses)
    PROVE  InOrderOf(Reordered(d, list), d, list)
<1>1. IsFiniteSet(Survivors(d)) /\ Survivors(d) \subseteq DOMAIN d
  <2>1. PICK n \in Nat : DOMAIN d = 1 .. n
    OBVIOUS
  <2>2. IsFiniteSet(1 .. n)
    BY FS_Interval
  <2>3. Survivors(d) \in SUBSET (DOMAIN d)
    BY DEF Survivors
  <2>. QED  BY <2>1, <2>2, <2>3, FS_Subset
<1>2. PICK at : at = InOrder(Survivors(d), Before(d, list))
  OBVIOUS
<1>3. PICK n \in Nat : n = Cardinality(Survivors(d))
  BY <1>1, FS_CardinalityType
<1>4. PICK e : e = Reordered(d, list)
  OBVIOUS
<1>5. Sorts(at, Survivors(d), Before(d, list))
  BY <1>1, <1>2, BeforeLinear, InOrderSorts
<1>6. /\ at \in [1 .. n -> Survivors(d)]
      /\ \A i \in Survivors(d) : \E k \in 1 .. n : at[k] = i
      /\ \A k, l \in 1 .. n : k < l => <<at[k], at[l]>> \in Before(d, list)
  BY <1>3, <1>5 DEF Sorts
<1>7. ASSUME NEW k \in 1 .. n, NEW l \in 1 .. n, k < l
      PROVE  Ahead(d, list, at[k], at[l])
  <2>1. PICK i, j : i = at[k] /\ j = at[l]
    OBVIOUS
  <2>2. <<i, j>> \in Before(d, list)
    BY <1>6, <1>7, <2>1
  <2>3. Ahead(d, list, i, j)
    BY <2>2, BeforeIsAhead
  <2>. QED  BY <2>1, <2>3
<1>8. e = [k \in 1 .. n |-> Put(d[at[k]], k - 1)]
  <2>1. DOMAIN at = 1 .. n
    BY <1>6
  <2>. QED  BY <1>2, <1>4, <2>1 DEF Reordered, Put
<1>9. ASSUME NEW k \in 1 .. n PROVE e[k] \in Sections
  <2>1. d[at[k]] \in Sections
    BY <1>1, <1>6
  <2>2. e[k] = Put(d[at[k]], k - 1)
    BY <1>8
  <2>3. k - 1 \in Nat
    BY <1>3
  <2>4. SettledAs(e[k], d[at[k]], k - 1)
    BY <2>1, <2>2, <2>3, SettledSection
  <2>. QED  BY <2>4 DEF SettledAs
<1>10. e \in [1 .. n -> Sections]
  BY <1>8, <1>9
<1>11. e \in Seq(Sections) /\ Len(e) = n
  BY <1>10
<1>12. \A k \in 1 .. n : e[k] = Put(d[at[k]], k - 1)
  BY <1>8
<1>13. Arranges(e, d, list, at, n)
  BY <1>6, <1>7, <1>11, <1>12 DEF Arranges
<1>. QED  BY <1>4, <1>13 DEF InOrderOf

(* What an arranged section is, by the one that it was.                    *)
LEMMA ArrangedSection ==
    ASSUME NEW d \in Seq(Sections), NEW list, NEW n, NEW at, NEW e,
           Arranges(e, d, list, at, n), NEW k \in 1 .. n
    PROVE  /\ at[k] \in Survivors(d) /\ at[k] \in DOMAIN d /\ d[at[k]] \in Sections
           /\ e[k] \in Sections
           /\ Kind(e[k]) = Kind(d[at[k]]) /\ e[k].title = d[at[k]].title
           /\ e[k].order = k - 1
           /\ Kind(e[k]) \in {"core", "foro"} => e[k].core
           /\ Kind(e[k]) = "foro" => e[k].clause = NoClause
           /\ Kind(e[k]) # "foro" => e[k].clause = d[at[k]].clause
<1>1. at[k] \in Survivors(d) /\ Survivors(d) \subseteq DOMAIN d /\ n \in Nat
  BY DEF Arranges, Survivors
<1>2. d[at[k]] \in Sections
  BY <1>1
<1>3. e[k] = Put(d[at[k]], k - 1)
  BY DEF Arranges
<1>4. k - 1 \in Nat
  BY <1>1
<1>5. /\ e[k] \in Sections
      /\ Kind(e[k]) = Kind(d[at[k]]) /\ e[k].title = d[at[k]].title
           /\ e[k].order = k - 1
      /\ Kind(d[at[k]]) \in {"core", "foro"} => e[k].core
      /\ Kind(d[at[k]]) = "foro" => e[k].clause = NoClause
      /\ Kind(d[at[k]]) # "foro" => e[k].clause = d[at[k]].clause
  <2>1. PICK s, o, t : s = d[at[k]] /\ o = k - 1 /\ t = e[k]
    OBVIOUS
  <2>2. s \in Sections /\ o \in Nat /\ t = Put(s, o)
    BY <1>2, <1>3, <1>4, <2>1
  <2>3. SettledAs(t, s, o)
    BY <2>2, SettledSection
  <2>. QED  BY <2>1, <2>3 DEF SettledAs
<1>. QED  BY <1>1, <1>2, <1>5

LEMMA PlacesIn ==
    ASSUME NEW d, NEW kind, NEW i
    PROVE  i \in Places(d, kind) <=> i \in DOMAIN d /\ Kind(d[i]) = kind
BY DEF Places

LEMMA AheadIrreflexive ==
    ASSUME NEW d \in Seq(Sections), NEW list \in Seq(Clauses), NEW i \in DOMAIN d
    PROVE  ~ Ahead(d, list, i, i)
<1>1. Part(d, list, i) \in Nat /\ SortKey(d, list, i) \in Nat /\ i \in Nat
  BY RankTypes
<1>. QED  BY <1>1 DEF Ahead

(* No section is at two places.                                            *)
LEMMA ArrangedOnce ==
    ASSUME NEW d \in Seq(Sections), NEW list \in Seq(Clauses), NEW n, NEW at,
           NEW e, Arranges(e, d, list, at, n),
           NEW k \in 1 .. n, NEW l \in 1 .. n, at[k] = at[l]
    PROVE  k = l
<1>1. at[k] \in DOMAIN d /\ at[l] \in DOMAIN d
  BY ArrangedSection
<1>2. ~ Ahead(d, list, at[k], at[k]) /\ ~ Ahead(d, list, at[l], at[l])
  BY <1>1, AheadIrreflexive
<1>3. ~ (k < l) /\ ~ (l < k)
  BY <1>2 DEF Arranges
<1>4. n \in Nat
  BY DEF Arranges
<1>. QED  BY <1>3, <1>4

LEMMA KeptOnce ==
    ASSUME NEW d \in Seq(Sections), NEW i \in Survivors(d), NEW j \in Survivors(d),
           \/ Kind(d[i]) = "admin" /\ Kind(d[j]) = "admin"
                /\ d[i].clause = d[j].clause
           \/ Kind(d[i]) = "foro" /\ Kind(d[j]) = "foro"
    PROVE  i = j
<1>1. i \in DOMAIN d /\ j \in DOMAIN d /\ i \in Nat /\ j \in Nat
  BY DEF Survivors
<1>. QED  BY <1>1 DEF Survivors, Places

(* Nothing more is dropped.                                                *)
LEMMA KeptAgain ==
    ASSUME NEW d \in Seq(Sections), NEW list \in Seq(Clauses), NEW n, NEW at,
           NEW e, Arranges(e, d, list, at, n)
    PROVE  Survivors(e) = 1 .. n
<1>1. n \in Nat /\ DOMAIN e = 1 .. n
  BY DEF Arranges
<1>2. ASSUME NEW k \in 1 .. n, NEW l \in 1 .. n,
             \/ Kind(e[k]) = "admin" /\ Kind(e[l]) = "admin"
                  /\ e[k].clause = e[l].clause
             \/ Kind(e[k]) = "foro" /\ Kind(e[l]) = "foro"
      PROVE  k = l
  <2>1. /\ at[k] \in Survivors(d) /\ Kind(e[k]) = Kind(d[at[k]])
        /\ Kind(e[k]) # "foro" => e[k].clause = d[at[k]].clause
    BY ArrangedSection
  <2>2. /\ at[l] \in Survivors(d) /\ Kind(e[l]) = Kind(d[at[l]])
        /\ Kind(e[l]) # "foro" => e[l].clause = d[at[l]].clause
    BY ArrangedSection
  <2>3. PICK i \in Survivors(d), j \in Survivors(d) : i = at[k] /\ j = at[l]
    BY <2>1, <2>2
  <2>4. \/ Kind(d[i]) = "admin" /\ Kind(d[j]) = "admin"
             /\ d[i].clause = d[j].clause
        \/ Kind(d[i]) = "foro" /\ Kind(d[j]) = "foro"
    BY <1>2, <2>1, <2>2, <2>3
  <2>5. i = j
    BY <2>4, KeptOnce
  <2>6. at[k] = at[l]
    BY <2>3, <2>5
  <2>. QED  BY <2>6, ArrangedOnce
<1>3. ASSUME NEW k \in 1 .. n PROVE k \in Survivors(e)
  <2>1. Kind(e[k]) = "admin" =>
           \A j \in Places(e, "admin") : e[j].clause = e[k].clause => j <= k
    BY <1>1, <1>2 DEF Places
  <2>2. Kind(e[k]) = "foro" => \A j \in Places(e, "foro") : k <= j
    BY <1>1, <1>2 DEF Places
  <2>. QED  BY <1>1, <2>1, <2>2 DEF Survivors
<1>. QED  BY <1>1, <1>3 DEF Survivors

(* How many core sections come before the one at i.                        *)
CoreRank(d, i) == Cardinality(CoresBefore(d, i))

LEMMA CoresFinite ==
    ASSUME NEW d \in Seq(Sections), NEW i
    PROVE  /\ IsFiniteSet(CoresBefore(d, i)) /\ CoreRank(d, i) \in Nat
           /\ CoresBefore(d, i) \subseteq DOMAIN d
<1>1. PICK n \in Nat : DOMAIN d = 1 .. n
  OBVIOUS
<1>2. IsFiniteSet(1 .. n)
  BY FS_Interval
<1>3. CoresBefore(d, i) \in SUBSET (DOMAIN d)
  BY DEF CoresBefore, Places
<1>4. IsFiniteSet(CoresBefore(d, i))
  BY <1>1, <1>2, <1>3, FS_Subset
<1>. QED  BY <1>3, <1>4, FS_CardinalityType DEF CoreRank

LEMMA CoreRankGrows ==
    ASSUME NEW d \in Seq(Sections),
           NEW i \in Places(d, "core"), NEW j \in Places(d, "core"),
           d[i].title = d[j].title, i < j
    PROVE  CoreRank(d, i) <= CoreRank(d, j)
<1>1. CoresBefore(d, i) \in SUBSET CoresBefore(d, j)
  <2>1. i \in Nat /\ j \in Nat /\ Places(d, "core") \subseteq Nat
    BY DEF Places
  <2>. QED  BY <2>1 DEF CoresBefore
<1>. QED  BY <1>1, CoresFinite, FS_Subset DEF CoreRank

LEMMA CorePart ==
    ASSUME NEW d, NEW list, NEW i, Kind(d[i]) = "core"
    PROVE  /\ Part(d, list, i) = IF CoreRank(d, i) < CoreCount THEN 1 ELSE 5
           /\ SortKey(d, list, i) = d[i].title
<1>1. Part(d, list, i) = IF CoreRank(d, i) < CoreCount THEN 1 ELSE 5
  BY DEF Part, CoreRank
<1>2. Part(d, list, i) \in {1, 5}
  BY <1>1
<1>3. SortKey(d, list, i) = d[i].title
  BY <1>2 DEF SortKey
<1>. QED  BY <1>1, <1>3

(* Core sections with one title stay in the order they are in.             *)
LEMMA SameTitle ==
    ASSUME NEW d \in Seq(Sections), NEW list \in Seq(Clauses),
           NEW i \in Places(d, "core"), NEW j \in Places(d, "core"),
           d[i].title = d[j].title, Ahead(d, list, i, j)
    PROVE  i < j
<1>1. i \in DOMAIN d /\ j \in DOMAIN d /\ i \in Nat /\ j \in Nat
  BY DEF Places
<1>2. Kind(d[i]) = "core" /\ Kind(d[j]) = "core"
  BY DEF Places
<1>3. i # j
  BY <1>1, AheadIrreflexive
<1>4. SUFFICES ASSUME j < i PROVE FALSE
  BY <1>1, <1>3
<1>5. CoreRank(d, j) <= CoreRank(d, i) /\ CoreRank(d, i) \in Nat
        /\ CoreRank(d, j) \in Nat
  BY <1>4, CoreRankGrows, CoresFinite
<1>6. /\ Part(d, list, i) = IF CoreRank(d, i) < CoreCount THEN 1 ELSE 5
      /\ SortKey(d, list, i) = d[i].title
  BY <1>2, CorePart
<1>7. /\ Part(d, list, j) = IF CoreRank(d, j) < CoreCount THEN 1 ELSE 5
      /\ SortKey(d, list, j) = d[j].title
  BY <1>2, CorePart
<1>8. ~ (Part(d, list, i) < Part(d, list, j))
  BY <1>5, <1>6, <1>7, LayoutAssumption
<1>9. d[i].title \in Nat
  <2>1. d[i] \in Sections
    BY <1>1
  <2>. QED  BY <2>1, LayoutAssumption DEF Sections, Titles, OtherTitle
<1>. QED  BY <1>1, <1>4, <1>6, <1>7, <1>8, <1>9 DEF Ahead

(* Sorting again, a core section has as many before it.                    *)
LEMMA CoreRankAgain ==
    ASSUME NEW d \in Seq(Sections), NEW list \in Seq(Clauses), NEW n, NEW at,
           NEW e, Arranges(e, d, list, at, n),
           NEW k \in 1 .. n, Kind(e[k]) = "core"
    PROVE  CoreRank(e, k) = CoreRank(d, at[k])
<1> DEFINE S == CoresBefore(e, k)
           T == CoresBefore(d, at[k])
           f == [j \in S |-> at[j]]
<1>1. n \in Nat /\ DOMAIN e = 1 .. n /\ e \in Seq(Sections)
  BY DEF Arranges
<1>2. ASSUME NEW j \in 1 .. n, Kind(e[j]) = "core"
      PROVE  at[j] \in Places(d, "core") /\ e[j].title = d[at[j]].title
  BY <1>2, ArrangedSection DEF Places
<1>3. ASSUME NEW i \in Places(d, "core")
      PROVE  \E j \in 1 .. n : at[j] = i /\ Kind(e[j]) = "core"
  <2>1. i \in Survivors(d)
    BY DEF Places, Survivors
  <2>2. PICK j \in 1 .. n : at[j] = i
    BY <2>1 DEF Arranges
  <2>3. Kind(e[j]) = Kind(d[at[j]])
    BY ArrangedSection
  <2>. QED  BY <2>2, <2>3 DEF Places
<1>4. ASSUME NEW j \in 1 .. n,
             NEW l \in 1 .. n, Kind(e[j]) = "core", Kind(e[l]) = "core",
             e[j].title = e[l].title, j < l
      PROVE  at[j] < at[l]
  <2>1. Ahead(d, list, at[j], at[l])
    BY <1>4 DEF Arranges
  <2>2. PICK x \in Places(d, "core"), y \in Places(d, "core") :
          x = at[j] /\ y = at[l]
    BY <1>2, <1>4
  <2>3. d[x].title = d[y].title
    BY <1>2, <1>4, <2>2
  <2>4. x < y
    BY <2>1, <2>2, <2>3, SameTitle
  <2>. QED  BY <2>2, <2>4
<1>5. \A j \in S : j \in 1 .. n /\ Kind(e[j]) = "core"
  BY <1>1 DEF CoresBefore, Places
<1>6. ASSUME NEW j \in S PROVE at[j] \in T
  <2>1. j \in 1 .. n /\ Kind(e[j]) = "core"
    BY <1>5
  <2>2. e[j].title < e[k].title \/ (e[j].title = e[k].title /\ j < k)
    BY DEF CoresBefore
  <2>3. at[j] \in Places(d, "core") /\ e[j].title = d[at[j]].title
          /\ e[k].title = d[at[k]].title
    BY <1>2, <2>1
  <2>4. e[j].title = e[k].title /\ j < k => at[j] < at[k]
    BY <1>4, <2>1
  <2>. QED  BY <2>2, <2>3, <2>4 DEF CoresBefore
<1>7. ASSUME NEW i \in T PROVE \E j \in S : at[j] = i
  <2>1. i \in Places(d, "core") /\ i \in Nat
    BY DEF CoresBefore, Places
  <2>2. PICK j \in 1 .. n : at[j] = i /\ Kind(e[j]) = "core"
    BY <1>3, <2>1
  <2>3. d[i].title < d[at[k]].title \/ (d[i].title = d[at[k]].title /\ i < at[k])
    BY DEF CoresBefore
  <2>4. e[j].title = d[i].title /\ e[k].title = d[at[k]].title
    BY <1>2, <2>2
  <2>5. at[k] \in Nat
    BY <1>2 DEF Places
  <2>6. e[j].title = e[k].title /\ i < at[k] => j < k
    <3> SUFFICES ASSUME e[j].title = e[k].title, i < at[k], ~ (j < k) PROVE FALSE
      OBVIOUS
    <3>1. j # k
      BY <2>1, <2>2, <2>5
    <3>2. k < j
      BY <1>1, <3>1
    <3>3. at[k] < at[j]
      BY <1>4, <2>2, <3>2
    <3>. QED  BY <2>1, <2>2, <2>5, <3>3
  <2>7. j \in CoresBefore(e, k)
    BY <1>1, <2>2, <2>3, <2>4, <2>6 DEF CoresBefore, Places
  <2>. QED  BY <2>2, <2>7
<1> HIDE DEF S, T
<1>8. f \in [S -> T]
  BY <1>6
<1>9. \A i, j \in S : f[i] = f[j] => i = j
  <2> SUFFICES ASSUME NEW i \in S, NEW j \in S, f[i] = f[j] PROVE i = j
    OBVIOUS
  <2>1. i \in 1 .. n /\ j \in 1 .. n /\ at[i] = at[j]
    BY <1>5
  <2>. QED  BY <2>1, ArrangedOnce
<1>10. \A i \in T : \E j \in S : f[j] = i
  BY <1>7
<1> HIDE DEF f
<1>11. f \in Bijection(S, T)
  BY <1>8, <1>9, <1>10 DEF Bijection, Injection, Surjection, IsInjective
<1>12. ExistsBijection(S, T)
  BY <1>11 DEF ExistsBijection
<1>13. IsFiniteSet(S)
  BY <1>1, CoresFinite DEF S
<1>14. Cardinality(T) = Cardinality(S)
  BY <1>12, <1>13, FS_Bijection
<1>. QED  BY <1>14 DEF CoreRank, S, T

LEMMA PartAgain ==
    ASSUME NEW d \in Seq(Sections), NEW list \in Seq(Clauses), NEW n, NEW at,
           NEW e, Arranges(e, d, list, at, n), NEW k \in 1 .. n
    PROVE  /\ Part(e, list, k) = Part(d, list, at[k])
           /\ Part(e, list, k) \in {1, 2, 5}
                => SortKey(e, list, k) = SortKey(d, list, at[k])
           /\ Part(e, list, k) \in {3, 4} => SortKey(e, list, k) = k - 1
<1>1. /\ Kind(e[k]) = Kind(d[at[k]]) /\ e[k].title = d[at[k]].title
      /\ e[k].order = k - 1
      /\ Kind(e[k]) # "foro" => e[k].clause = d[at[k]].clause
  BY ArrangedSection
<1>2. Kind(e[k]) \in KindsOf
  BY SectionKinds
<1>3. CASE Kind(e[k]) = "core"
  <2>1. CoreRank(e, k) = CoreRank(d, at[k])
    BY <1>3, CoreRankAgain
  <2>2. /\ Part(e, list, k) = IF CoreRank(e, k) < CoreCount THEN 1 ELSE 5
        /\ SortKey(e, list, k) = e[k].title
    BY <1>3, CorePart
  <2>3. /\ Part(d, list, at[k]) = IF CoreRank(d, at[k]) < CoreCount THEN 1 ELSE 5
        /\ SortKey(d, list, at[k]) = d[at[k]].title
    <3>1. PICK i : i = at[k]
      OBVIOUS
    <3>2. Kind(d[i]) = "core"
      BY <1>1, <1>3, <3>1
    <3>3. /\ Part(d, list, i) = IF CoreRank(d, i) < CoreCount THEN 1 ELSE 5
          /\ SortKey(d, list, i) = d[i].title
      BY <3>2, CorePart
    <3>. QED  BY <3>1, <3>3
  <2>. QED  BY <1>1, <2>1, <2>2, <2>3
<1>4. CASE Kind(e[k]) # "core"
  <2>1. Part(e, list, k) = Part(d, list, at[k])
          /\ Part(e, list, k) \in {2, 3, 4, 6}
    BY <1>1, <1>2, <1>4 DEF Part, KindsOf
  <2>2. Part(e, list, k) = 2 => Kind(e[k]) = "admin"
    BY <1>2, <1>4 DEF Part, KindsOf
  <2>3. Part(e, list, k) = 2 => SortKey(e, list, k) = SortKey(d, list, at[k])
    BY <1>1, <2>1, <2>2 DEF SortKey
  <2>4. Part(e, list, k) \in {3, 4} => SortKey(e, list, k) = k - 1
    BY <1>1 DEF SortKey
  <2>. QED  BY <2>1, <2>3, <2>4
<1>. QED  BY <1>3, <1>4

LEMMA AheadAgain ==
    ASSUME NEW d \in Seq(Sections), NEW list \in Seq(Clauses), NEW n, NEW at,
           NEW e, Arranges(e, d, list, at, n), NEW k \in 1 .. n,
           NEW l \in 1 .. n, k < l
    PROVE  Ahead(e, list, k, l)
<1>1. Ahead(d, list, at[k], at[l])
  BY DEF Arranges
<1>2. n \in Nat /\ at[k] \in DOMAIN d /\ at[l] \in DOMAIN d
        /\ e \in Seq(Sections) /\ DOMAIN e = 1 .. n
  <2>1. n \in Nat /\ e \in Seq(Sections) /\ DOMAIN e = 1 .. n
    BY DEF Arranges
  <2>2. at[k] \in DOMAIN d /\ at[l] \in DOMAIN d
    BY ArrangedSection
  <2>. QED  BY <2>1, <2>2
<1>3. PICK i \in DOMAIN d, j \in DOMAIN d : i = at[k] /\ j = at[l]
  BY <1>2
<1>4. /\ Part(e, list, k) = Part(d, list, i)
      /\ Part(e, list, k) \in {1, 2, 5}
           => SortKey(e, list, k) = SortKey(d, list, i)
      /\ Part(e, list, k) \in {3, 4} => SortKey(e, list, k) = k - 1
  BY <1>3, PartAgain
<1>5. /\ Part(e, list, l) = Part(d, list, j)
      /\ Part(e, list, l) \in {1, 2, 5}
           => SortKey(e, list, l) = SortKey(d, list, j)
      /\ Part(e, list, l) \in {3, 4} => SortKey(e, list, l) = l - 1
  BY <1>3, PartAgain
<1>6. Part(d, list, i) \in 1 .. 6 /\ SortKey(d, list, i) \in Nat
  BY RankTypes
<1>7. Part(d, list, j) \in 1 .. 6 /\ SortKey(d, list, j) \in Nat
  BY RankTypes
<1>8. CASE Part(d, list, i) < Part(d, list, j)
  BY <1>4, <1>5, <1>8 DEF Ahead
<1>9. CASE Part(d, list, i) = Part(d, list, j)
  <2>1. \/ SortKey(d, list, i) < SortKey(d, list, j)
        \/ SortKey(d, list, i) = SortKey(d, list, j) /\ i < j
    BY <1>1, <1>3, <1>6, <1>7, <1>9 DEF Ahead
  <2>2. CASE Part(d, list, i) \in {1, 2, 5}
    BY <1>4, <1>5, <1>9, <2>1, <2>2 DEF Ahead
  <2>3. CASE Part(d, list, i) \in {3, 4}
    <3>1. SortKey(e, list, k) < SortKey(e, list, l)
      BY <1>2, <1>4, <1>5, <1>9, <2>3
    <3>. QED  BY <1>4, <1>5, <1>9, <3>1 DEF Ahead
  <2>4. CASE Part(d, list, i) = 6
    <3>1. SortKey(e, list, k) = 0 /\ SortKey(e, list, l) = 0
      BY <1>4, <1>5, <1>9, <2>4 DEF SortKey
    <3>. QED  BY <1>4, <1>5, <1>9, <3>1 DEF Ahead
  <2>. QED  BY <1>6, <2>2, <2>3, <2>4
<1>. QED  BY <1>1, <1>3, <1>6, <1>7, <1>8, <1>9 DEF Ahead

(* What is in order stays as it is.                                        *)
LEMMA ReorderedAgain ==
    ASSUME NEW d \in Seq(Sections), NEW list \in Seq(Clauses),
           NEW e, InOrderOf(e, d, list)
    PROVE  Reordered(e, list) = e
<1>1. PICK n, at : Arranges(e, d, list, at, n)
  BY DEF InOrderOf
<1>2. n \in Nat /\ e \in Seq(Sections) /\ DOMAIN e = 1 .. n
  BY <1>1 DEF Arranges
<1>3. Survivors(e) = 1 .. n
  BY <1>1, KeptAgain
<1>4. ASSUME NEW k \in 1 .. n, NEW l \in 1 .. n
      PROVE  <<k, l>> \in Before(e, list) <=> k < l
  <2>1. <<k, l>> \in Before(e, list) <=> Ahead(e, list, k, l)
    BY <1>3, BeforeIsAhead
  <2>2. k < l => Ahead(e, list, k, l)
    BY <1>1, AheadAgain
  <2>3. l < k => Ahead(e, list, l, k)
    BY <1>1, AheadAgain
  <2>4. /\ Part(e, list, k) \in Nat /\ SortKey(e, list, k) \in Nat
        /\ Part(e, list, l) \in Nat /\ SortKey(e, list, l) \in Nat
    <3>1. k \in DOMAIN e /\ l \in DOMAIN e
      BY <1>2
    <3>2. Part(e, list, k) \in 1 .. 6 /\ SortKey(e, list, k) \in Nat
      BY <1>2, <3>1, RankTypes
    <3>3. Part(e, list, l) \in 1 .. 6 /\ SortKey(e, list, l) \in Nat
      BY <1>2, <3>1, RankTypes
    <3>. QED  BY <3>2, <3>3
  <2>5. k \in Nat /\ l \in Nat
    BY <1>2
  <2>6. ~ (k < l) => ~ Ahead(e, list, k, l)
    BY <2>3, <2>4, <2>5 DEF Ahead
  <2>. QED  BY <2>1, <2>2, <2>6
<1>5. InOrder(1 .. n, Before(e, list)) = [k \in 1 .. n |-> k]
  BY <1>2, <1>4, AlreadyInOrder
<1>6. Reordered(e, list) = [k \in 1 .. n |-> Put(e[k], k - 1)]
  <2>1. PICK id : id = [k \in 1 .. n |-> k]
    OBVIOUS
  <2>2. Reordered(e, list) = [k \in DOMAIN id |-> Put(e[id[k]], k - 1)]
    BY <1>3, <1>5, <2>1 DEF Reordered, Put
  <2>. QED  BY <2>1, <2>2
<1>7. ASSUME NEW k \in 1 .. n PROVE Put(e[k], k - 1) = e[k]
  <2>1. /\ e[k] \in Sections /\ e[k].order = k - 1
        /\ Kind(e[k]) \in {"core", "foro"} => e[k].core
        /\ Kind(e[k]) = "foro" => e[k].clause = NoClause
    BY <1>1, ArrangedSection
  <2>2. PICK s \in Sections : s = e[k]
    BY <2>1
  <2>3. Settled(s) = s
    BY <2>1, <2>2 DEF Settled, Sections
  <2>4. Put(s, k - 1) = s
    BY <2>1, <2>2, <2>3 DEF Put, Sections
  <2>. QED  BY <2>2, <2>4
<1>8. Reordered(e, list) = [k \in 1 .. n |-> e[k]]
  BY <1>6, <1>7
<1>. QED  BY <1>2, <1>8

(* Every core title has a section that is nobody's but the system's.       *)
CoreThere(d) ==
    \A t \in 0 .. CoreCount - 1 :
        \E i \in DOMAIN d : d[i].title = t /\ d[i].core /\ d[i].clause = NoClause

(* No template brings the foro.                                            *)
ClausesFit(d) ==
    \A i \in DOMAIN d : d[i].clause # NoClause => d[i].title # ForoTitle

(* What every operation on a minuta keeps.                                 *)
Whole(d) == d \in Seq(Sections) /\ CoreThere(d) /\ ClausesFit(d) /\ HasForo(d)

LEMMA ReorderedKeeps ==
    ASSUME NEW d \in Seq(Sections), NEW list \in Seq(Clauses),
           NEW e, InOrderOf(e, d, list)
    PROVE  /\ e \in Seq(Sections)
           /\ ClausesFit(e)
           /\ CoreThere(d) => CoreThere(e)
           /\ HasForo(d) => HasForo(e)
<1>1. PICK n, at : Arranges(e, d, list, at, n)
  BY DEF InOrderOf
<1>2. e \in Seq(Sections) /\ DOMAIN e = 1 .. n
  BY <1>1 DEF Arranges
<1>3. ClausesFit(e)
  <2>1. ASSUME NEW k \in 1 .. n, e[k].clause # NoClause
        PROVE  e[k].title # ForoTitle
    <3>1. Kind(e[k]) # "foro"
      BY <1>1, <2>1, ArrangedSection
    <3>. QED  BY <3>1, SectionKinds
  <2>. QED  BY <1>2, <2>1 DEF ClausesFit
<1>4. ASSUME NEW i \in Survivors(d)
      PROVE  \E k \in 1 .. n : at[k] = i
  BY <1>1 DEF Arranges
<1>5. ASSUME CoreThere(d) PROVE CoreThere(e)
  <2>1. ASSUME NEW t \in 0 .. CoreCount - 1
        PROVE  \E k \in 1 .. n : e[k].title = t /\ e[k].core
                 /\ e[k].clause = NoClause
    <3>1. PICK i \in DOMAIN d : d[i].title = t /\ d[i].core
            /\ d[i].clause = NoClause
      BY <1>5 DEF CoreThere
    <3>2. Kind(d[i]) = "core"
      <4>1. d[i].title # ForoTitle
        BY <3>1, LayoutAssumption DEF ForoTitle
      <4>. QED  BY <3>1, <4>1 DEF Kind
    <3>3. i \in Survivors(d)
      BY <3>2 DEF Survivors
    <3>4. PICK k \in 1 .. n : at[k] = i
      BY <1>4, <3>3
    <3>5. /\ Kind(e[k]) = Kind(d[at[k]]) /\ e[k].title = d[at[k]].title
          /\ Kind(e[k]) \in {"core", "foro"} => e[k].core
          /\ Kind(e[k]) # "foro" => e[k].clause = d[at[k]].clause
      BY <1>1, ArrangedSection
    <3>6. e[k].title = t /\ e[k].core /\ e[k].clause = NoClause
      BY <3>1, <3>2, <3>4, <3>5
    <3>. QED  BY <3>6
  <2>. QED  BY <1>2, <2>1 DEF CoreThere
<1>6. ASSUME HasForo(d) PROVE HasForo(e)
  <2>1. Places(d, "foro") \subseteq Nat /\ Places(d, "foro") # {}
    BY <1>6 DEF HasForo, Places
  <2>2. PICK i \in Places(d, "foro") : \A j \in Places(d, "foro") : i <= j
    BY <2>1, LeastNumber
  <2>3. i \in Survivors(d)
    BY <2>2 DEF Survivors, Places
  <2>4. PICK k \in 1 .. n : at[k] = i
    BY <1>4, <2>3
  <2>5. Kind(e[k]) = Kind(d[at[k]])
    BY <1>1, ArrangedSection
  <2>6. k \in Places(e, "foro")
    BY <1>2, <2>4, <2>5 DEF Places
  <2>. QED  BY <2>6 DEF HasForo
<1>. QED  BY <1>2, <1>3, <1>5, <1>6

LEMMA ReorderedWhole ==
    ASSUME NEW d \in Seq(Sections),
           NEW list \in Seq(Clauses), CoreThere(d), HasForo(d)
    PROVE  Whole(Reordered(d, list))
<1>1. PICK e : e = Reordered(d, list)
  OBVIOUS
<1>2. InOrderOf(e, d, list)
  BY <1>1, ReorderedArranges
<1>. QED  BY <1>1, <1>2, ReorderedKeeps DEF Whole

-----------------------------------------------------------------------------
(* Sections that are added at the end.                                     *)

LEMMA NextOrderType ==
    ASSUME NEW d \in Seq(Sections)
    PROVE  NextOrder(d) \in Nat
<1> DEFINE I == DOMAIN d
           before == {p \in I \X I : \/ d[p[1]].order < d[p[2]].order
                                     \/ d[p[1]].order = d[p[2]].order
                                          /\ p[1] < p[2]}
           orders == {d[i].order : i \in I}
<1>1. CASE I = {}
  BY <1>1 DEF NextOrder
<1>2. CASE I # {}
  <2>1. PICK m \in Nat : I = 1 .. m
    OBVIOUS
  <2>2. IsFiniteSet(I)
    BY <2>1, FS_Interval
  <2>3. \A i \in I : i \in Nat /\ d[i].order \in Nat
    <3>1. \A i \in I : d[i] \in Sections
      OBVIOUS
    <3>. QED  BY <3>1 DEF Sections
  <2>4. \A i, j \in I : <<i, j>> \in before
           <=> d[i].order < d[j].order \/ (d[i].order = d[j].order /\ i < j)
    OBVIOUS
  <2> HIDE DEF before
  <2>5. Linear(I, before)
    <3>1. ASSUME NEW i \in I, NEW j \in I
          PROVE  /\ <<i, i>> \notin before
                 /\ i # j => <<i, j>> \in before \/ <<j, i>> \in before
      <4>1. /\ d[i].order \in Nat /\ d[j].order \in Nat /\ i \in Nat /\ j \in Nat
            /\ d[i].order < d[j].order \/ d[i].order = d[j].order \/ d[j].order < d[i].order
        BY <2>3
      <4>2. <<i, i>> \notin before
        BY <2>4, <4>1
      <4>3. i # j => <<i, j>> \in before \/ <<j, i>> \in before
        BY <2>4, <4>1
      <4>. QED  BY <4>2, <4>3
    <3>2. ASSUME NEW i \in I, NEW j \in I, NEW k \in I,
                 <<i, j>> \in before, <<j, k>> \in before
          PROVE  <<i, k>> \in before
      <4>1. /\ d[i].order < d[j].order \/ (d[i].order = d[j].order /\ i < j)
            /\ d[j].order < d[k].order \/ (d[j].order = d[k].order /\ j < k)
        BY <2>4, <3>2
      <4>2. d[i].order < d[k].order \/ (d[i].order = d[k].order /\ i < k)
        BY <2>3, <4>1
      <4>. QED  BY <2>4, <4>2
    <3>. QED  BY <3>1, <3>2 DEF Linear
  <2>6. PICK at : Sorts(at, I, before)
    BY <2>2, <2>5, InOrderSorts
  <2>7. PICK n \in Nat : n = Cardinality(I)
    BY <2>2, FS_CardinalityType
  <2>8. /\ at \in [1 .. n -> I]
        /\ \A i \in I : \E k \in 1 .. n : at[k] = i
        /\ \A k, l \in 1 .. n : k < l => <<at[k], at[l]>> \in before
    BY <2>6, <2>7 DEF Sorts
  <2>9. n # 0
    BY <1>2, <2>8
  <2>10. PICK last \in I : last = at[n]
    BY <2>8, <2>9
  <2>11. ASSUME NEW i \in I PROVE d[i].order <= d[last].order
    <3>1. PICK k \in 1 .. n : at[k] = i
      BY <2>8
    <3>2. CASE k = n
      BY <2>3, <2>10, <3>1, <3>2
    <3>3. CASE k # n
      <4>1. k < n /\ n \in 1 .. n
        BY <2>9, <3>3
      <4>2. <<i, last>> \in before
        BY <2>8, <2>10, <3>1, <4>1
      <4>. QED  BY <2>3, <2>4, <4>2
    <3>. QED  BY <3>2, <3>3
  <2>12. d[last].order \in orders /\ \A k \in orders : k <= d[last].order
    BY <2>11
  <2>13. orders \subseteq Nat /\ orders # {}
    BY <2>3, <2>12
  <2> HIDE DEF orders
  <2>14. (CHOOSE o \in orders : \A k \in orders : k <= o) \in Nat
    BY <2>12, <2>13
  <2>. QED  BY <2>13, <2>14 DEF NextOrder, orders
<1>. QED  BY <1>1, <1>2

(* e starts as d does.                                                     *)
Extends(e, d) == DOMAIN d \subseteq DOMAIN e /\ \A i \in DOMAIN d : e[i] = d[i]

LEMMA ExtendedKeeps ==
    ASSUME NEW d, NEW e, Extends(e, d)
    PROVE  /\ CoreThere(d) => CoreThere(e)
           /\ HasForo(d) => HasForo(e)
<1>1. ASSUME CoreThere(d) PROVE CoreThere(e)
  <2>1. ASSUME NEW t \in 0 .. CoreCount - 1
        PROVE  \E i \in DOMAIN e : e[i].title = t /\ e[i].core
                 /\ e[i].clause = NoClause
    <3>1. PICK i \in DOMAIN d : d[i].title = t /\ d[i].core
            /\ d[i].clause = NoClause
      BY <1>1 DEF CoreThere
    <3>2. i \in DOMAIN e /\ e[i] = d[i]
      BY DEF Extends
    <3>. QED  BY <3>1, <3>2
  <2>. QED  BY <2>1 DEF CoreThere
<1>2. ASSUME HasForo(d) PROVE HasForo(e)
  BY <1>2 DEF HasForo, Places, Extends
<1>. QED  BY <1>1, <1>2

LEMMA ConcatExtends ==
    ASSUME NEW d \in Seq(Sections), NEW new \in Seq(Sections)
    PROVE  d \o new \in Seq(Sections) /\ Extends(d \o new, d)
BY DEF Extends

LEMMA AppendedType ==
    ASSUME NEW d \in Seq(Sections), NEW s \in Sections, NEW e, e = Appended(d, s)
    PROVE  e \in Seq(Sections) /\ Extends(e, d) /\ e[Len(e)].title = s.title
             /\ Len(e) \in DOMAIN e
<1>1. PICK s2 : s2 = [s EXCEPT !.order = NextOrder(d)]
  OBVIOUS
<1>2. s2 \in Sections /\ s2.title = s.title
  BY <1>1, NextOrderType DEF Sections
<1>3. e = Append(d, s2)
  BY <1>1 DEF Appended
<1>. QED  BY <1>2, <1>3 DEF Extends

LEMMA WithForoHas ==
    ASSUME NEW d \in Seq(Sections)
    PROVE  /\ WithForo(d) \in Seq(Sections) /\ HasForo(WithForo(d))
           /\ CoreThere(d) => CoreThere(WithForo(d))
<1>1. CASE HasForo(d)
  BY <1>1 DEF WithForo
<1>2. CASE ~ HasForo(d)
  <2>1. PICK e : e = Appended(d, Foro)
    OBVIOUS
  <2>2. WithForo(d) = e
    BY <1>2, <2>1 DEF WithForo
  <2>3. Foro \in Sections
    BY LayoutAssumption DEF Foro, Sections, Titles, ForoTitle, OtherTitle
  <2>4. e \in Seq(Sections) /\ Extends(e, d) /\ e[Len(e)].title = Foro.title
          /\ Len(e) \in DOMAIN e
    BY <2>1, <2>3, AppendedType
  <2>5. Kind(e[Len(e)]) = "foro"
    BY <2>4 DEF Foro, Kind
  <2>6. HasForo(e)
    BY <2>4, <2>5 DEF HasForo, Places
  <2>. QED  BY <2>2, <2>4, <2>6, ExtendedKeeps
<1>. QED  BY <1>1, <1>2

LEMMA PicksKeep ==
    ASSUME NEW d, NEW e, NEW I, Picks(e, d, I)
    PROVE  /\ /\ CoreThere(d)
              /\ \A i \in DOMAIN d : d[i].core /\ d[i].clause = NoClause
                   => i \in I
              => CoreThere(e)
           /\ /\ HasForo(d)
              /\ \A i \in Places(d, "foro") : i \in I
              => HasForo(e)
<1>1. ASSUME CoreThere(d),
             \A i \in DOMAIN d : d[i].core /\ d[i].clause = NoClause => i \in I
      PROVE  CoreThere(e)
  <2>1. ASSUME NEW t \in 0 .. CoreCount - 1
        PROVE  \E k \in DOMAIN e : e[k].title = t /\ e[k].core
                 /\ e[k].clause = NoClause
    <3>1. PICK i \in DOMAIN d : d[i].title = t /\ d[i].core
            /\ d[i].clause = NoClause
      BY <1>1 DEF CoreThere
    <3>2. i \in I
      BY <1>1, <3>1
    <3>3. PICK k \in DOMAIN e : e[k] = d[i]
      BY <3>2 DEF Picks
    <3>. QED  BY <3>1, <3>3
  <2>. QED  BY <2>1 DEF CoreThere
<1>2. ASSUME HasForo(d), \A i \in Places(d, "foro") : i \in I
      PROVE  HasForo(e)
  <2>1. PICK i \in Places(d, "foro") : i \in I
    BY <1>2 DEF HasForo
  <2>2. PICK k \in DOMAIN e : e[k] = d[i]
    BY <2>1 DEF Picks
  <2>3. k \in Places(e, "foro")
    BY <2>1, <2>2 DEF Places
  <2>. QED  BY <2>3 DEF HasForo
<1>. QED  BY <1>1, <1>2

(* The section that a template brings, at the end of the minuta.           *)
Brought(c, o) == [FromClause(c) EXCEPT !.order = o]

LEMMA ClauseSection ==
    ASSUME NEW c \in Clauses, NEW o \in Nat, NEW s, s = Brought(c, o)
    PROVE  s \in Sections /\ s.title # ForoTitle /\ s.clause = c
<1>1. ClauseTitle[c] \in Titles /\ ClauseTitle[c] # ForoTitle
  BY LayoutAssumption
<1>2. 0 \in 0 .. MaxEdits
  BY LayoutAssumption
<1>. QED  BY <1>1, <1>2 DEF Brought, FromClause, Sections

(* What a read puts in order: the sections whose templates are listed, and *)
(* a new one for each listed template that has none.                       *)
ReadFrom(b, d) ==
    /\ b \in Seq(Sections) /\ CoreThere(b) /\ HasForo(b) /\ ClausesFit(b)
    /\ Read(d) = Reordered(b, listed)
    /\ \A i \in DOMAIN b : b[i].clause \in ToSet(listed) \cup {NoClause}
    /\ \A c \in ToSet(listed) : \E i \in DOMAIN b : b[i].clause = c

LEMMA ReadPutsInOrder ==
    ASSUME listed \in Seq(Clauses), NEW d, Whole(d)
    PROVE  \E b : ReadFrom(b, d)
<1> DEFINE I == {i \in DOMAIN d : d[i].clause = NoClause \/ d[i].clause \in ToSet(listed)}
<1>1. d \in Seq(Sections) /\ CoreThere(d) /\ ClausesFit(d) /\ HasForo(d)
  BY DEF Whole
<1>2. PICK d1 : d1 = Those(d, I)
  OBVIOUS
<1>3. d1 \in Seq(Sections) /\ Picks(d1, d, I)
  <2>1. I \in SUBSET DOMAIN d
    OBVIOUS
  <2> HIDE DEF I
  <2>. QED  BY <1>1, <1>2, <2>1, ThosePick
<1>4. CoreThere(d1) /\ HasForo(d1)
  <2>1. \A i \in DOMAIN d : d[i].core /\ d[i].clause = NoClause => i \in I
    OBVIOUS
  <2>2. \A i \in Places(d, "foro") : i \in I
    <3>1. \A i \in Places(d, "foro") : i \in DOMAIN d /\ d[i].title = ForoTitle
      BY SectionKinds DEF Places
    <3>. QED  BY <1>1, <3>1 DEF ClausesFit
  <2> HIDE DEF I
  <2>. QED  BY <1>1, <1>3, <2>1, <2>2, PicksKeep
<1> DEFINE present == {d1[i].clause : i \in DOMAIN d1}
           J == {i \in DOMAIN listed : listed[i] \notin present}
<1>5. PICK add : add = Those(listed, J)
  OBVIOUS
<1>6. add \in Seq(Clauses) /\ Picks(add, listed, J)
  <2>1. J \in SUBSET DOMAIN listed
    OBVIOUS
  <2> HIDE DEF J
  <2>. QED  BY <1>5, <2>1, ThosePick
<1>7. PICK new : new = [i \in DOMAIN add |->
                           [FromClause(add[i]) EXCEPT !.order = NextOrder(d1) + i - 1]]
  OBVIOUS
<1>8. ASSUME NEW i \in DOMAIN add
      PROVE  new[i] \in Sections /\ new[i].title # ForoTitle
               /\ new[i].clause = add[i]
  <2>1. PICK o : o = NextOrder(d1) + i - 1
    OBVIOUS
  <2>2. o \in Nat
    <3>1. NextOrder(d1) \in Nat
      BY <1>3, NextOrderType
    <3>2. i \in 1 .. Len(add) /\ Len(add) \in Nat
      BY <1>6
    <3>. QED  BY <2>1, <3>1, <3>2
  <2>3. PICK s : s = Brought(add[i], o)
    OBVIOUS
  <2>4. new[i] = s
    BY <1>7, <2>1, <2>3 DEF Brought
  <2>5. PICK c \in Clauses : c = add[i]
    BY <1>6
  <2>6. s = Brought(c, o)
    BY <2>3, <2>5
  <2>7. s \in Sections /\ s.title # ForoTitle /\ s.clause = c
    BY <2>2, <2>6, ClauseSection
  <2>. QED  BY <2>4, <2>5, <2>7
<1>9. new \in Seq(Sections) /\ DOMAIN new = DOMAIN add
  <2>1. DOMAIN add = 1 .. Len(add) /\ Len(add) \in Nat
    BY <1>6
  <2>2. new \in [1 .. Len(add) -> Sections]
    BY <1>7, <1>8, <2>1
  <2>. QED  BY <2>1, <2>2
<1>10. PICK b : b = d1 \o new
  OBVIOUS
<1>11. b \in Seq(Sections) /\ Extends(b, d1)
  BY <1>3, <1>9, <1>10, ConcatExtends
<1>12. CoreThere(b) /\ HasForo(b)
  BY <1>4, <1>11, ExtendedKeeps
<1>13. ASSUME NEW i \in DOMAIN b
       PROVE  \/ \E j \in I : b[i] = d[j]
              \/ \E j \in DOMAIN add : b[i] = new[j]
  <2>1. CASE i \in DOMAIN d1
    <3>1. b[i] = d1[i]
      BY <1>11, <2>1 DEF Extends
    <3>. QED  BY <1>3, <2>1, <3>1 DEF Picks
  <2>2. CASE i \notin DOMAIN d1
    <3>1. i - Len(d1) \in DOMAIN new /\ b[i] = new[i - Len(d1)]
      BY <1>3, <1>9, <1>10, <2>2
    <3>. QED  BY <1>9, <3>1
  <2>. QED  BY <2>1, <2>2
<1>14. ASSUME NEW j \in DOMAIN add PROVE add[j] \in ToSet(listed)
  <2>1. PICK i \in J : add[j] = listed[i]
    BY <1>6 DEF Picks
  <2>. QED  BY <2>1 DEF ToSet
<1>15. \A i \in DOMAIN b : b[i].clause \in ToSet(listed) \cup {NoClause}
  BY <1>8, <1>13, <1>14
<1>16. ClausesFit(b)
  <2>1. ASSUME NEW i \in DOMAIN b, b[i].clause # NoClause
        PROVE  b[i].title # ForoTitle
    BY <1>1, <1>8, <1>13, <2>1 DEF ClausesFit
  <2>. QED  BY <2>1 DEF ClausesFit
<1>17. ASSUME NEW c \in ToSet(listed) PROVE \E i \in DOMAIN b : b[i].clause = c
  <2>1. CASE c \in present
    <3>1. PICK i \in DOMAIN d1 : d1[i].clause = c
      BY <2>1
    <3>. QED  BY <1>11, <3>1 DEF Extends
  <2>2. CASE c \notin present
    <3>1. PICK i \in DOMAIN listed : listed[i] = c
      BY DEF ToSet
    <3>2. i \in J
      BY <2>2, <3>1
    <3>3. PICK j \in DOMAIN add : add[j] = c
      BY <1>6, <3>1, <3>2 DEF Picks
    <3>4. j \in DOMAIN new /\ new[j].clause = c
      BY <1>8, <1>9, <3>3
    <3>5. Len(d1) + j \in DOMAIN b /\ b[Len(d1) + j] = new[j]
      BY <1>3, <1>9, <1>10, <3>4
    <3>. QED  BY <3>4, <3>5
  <2>. QED  BY <2>1, <2>2
<1>18. Read(d) = Reordered(b, listed)
  <2>1. HasForo(Reordered(b, listed))
    BY <1>11, <1>12, ReorderedWhole DEF Whole
  <2>2. WithMissing(d1) = Reordered(b, listed)
    BY <1>5, <1>7, <1>10, <2>1 DEF WithMissing
  <2>. QED  BY <1>2, <2>2 DEF Read
<1>. QED  BY <1>11, <1>12, <1>15, <1>16, <1>17, <1>18 DEF ReadFrom

LEMMA GreatestPlace ==
    ASSUME NEW n \in Nat, NEW T, T \subseteq 1 .. n, T # {}
    PROVE  \E m \in T : \A j \in T : j <= m
<1> DEFINE U == {n - j : j \in T}
<1>1. U \subseteq Nat /\ U # {}
  <2>1. \A j \in T : n - j \in Nat
    OBVIOUS
  <2>2. PICK j \in T : TRUE
    OBVIOUS
  <2>3. n - j \in U
    BY <2>2
  <2>. QED  BY <2>1, <2>3
<1>2. PICK u \in U : \A v \in U : u <= v
  <2> HIDE DEF U
  <2>. QED  BY <1>1, LeastNumber
<1>3. PICK m \in T : u = n - m
  OBVIOUS
<1>4. ASSUME NEW j \in T PROVE j <= m
  <2>1. n - m <= n - j
    BY <1>2, <1>3
  <2>2. j \in Nat /\ m \in Nat
    OBVIOUS
  <2>. QED  BY <2>1, <2>2
<1>. QED  BY <1>4

LEMMA Parts ==
    ASSUME NEW d, NEW list, NEW i
    PROVE  /\ Part(d, list, i) \in 1 .. 6
           /\ Part(d, list, i) \in {1, 5} <=> Kind(d[i]) = "core"
           /\ Part(d, list, i) \in {2, 3} <=> Kind(d[i]) = "admin"
           /\ Part(d, list, i) = 2
                <=> Kind(d[i]) = "admin" /\ d[i].clause \in ToSet(list)
           /\ Part(d, list, i) = 4 <=> Kind(d[i]) = "custom"
           /\ Part(d, list, i) = 6 <=> Kind(d[i]) = "foro"
<1>1. Kind(d[i]) \in KindsOf
  BY SectionKinds
<1>. QED  BY <1>1 DEF Part, KindsOf

(* A core section before another has fewer before it.                      *)
LEMMA CoreRankLess ==
    ASSUME NEW d \in Seq(Sections), NEW i \in Places(d, "core"),
           NEW j \in CoresBefore(d, i)
    PROVE  CoreRank(d, j) < CoreRank(d, i)
<1>1. i \in DOMAIN d /\ j \in DOMAIN d /\ Places(d, "core") \subseteq DOMAIN d
  BY DEF Places, CoresBefore
<1>2. \A k \in DOMAIN d : k \in Nat /\ d[k].title \in Nat
  <2>1. \A k \in DOMAIN d : d[k] \in Sections /\ k \in Nat
    OBVIOUS
  <2>. QED  BY <2>1, LayoutAssumption DEF Sections, Titles, OtherTitle
<1>3. CoresBefore(d, j) \in SUBSET CoresBefore(d, i)
  BY <1>1, <1>2 DEF CoresBefore
<1>4. j \notin CoresBefore(d, j)
  BY <1>1, <1>2 DEF CoresBefore
<1>5. /\ Cardinality(CoresBefore(d, j)) <= Cardinality(CoresBefore(d, i))
      /\ Cardinality(CoresBefore(d, i)) = Cardinality(CoresBefore(d, j))
            => CoresBefore(d, i) = CoresBefore(d, j)
  BY <1>3, CoresFinite, FS_Subset
<1>6. CoreRank(d, j) \in Nat /\ CoreRank(d, i) \in Nat
  BY CoresFinite
<1>. QED  BY <1>4, <1>5, <1>6 DEF CoreRank

LEMMA EnoughCores ==
    ASSUME NEW d \in Seq(Sections), NEW list, CoreThere(d)
    PROVE  LET first == {k \in DOMAIN d : Part(d, list, k) = 1}
           IN  IsFiniteSet(first) /\ Cardinality(first) \in Nat
             /\ CoreCount <= Cardinality(first)
<1> DEFINE M == {k \in DOMAIN d : Part(d, list, k) = 1}
           N == {k \in Places(d, "core") : CoreRank(d, k) >= CoreCount}
<1>1. IsFiniteSet(DOMAIN d)
  <2>1. PICK n \in Nat : DOMAIN d = 1 .. n
    OBVIOUS
  <2>. QED  BY <2>1, FS_Interval
<1>2. M \in SUBSET (DOMAIN d)
  OBVIOUS
<1>3. \A k \in Places(d, "core") : CoreRank(d, k) < CoreCount => k \in M
  <2>1. ASSUME NEW k \in Places(d, "core"), CoreRank(d, k) < CoreCount
        PROVE  k \in M
    <3>1. k \in DOMAIN d /\ Kind(d[k]) = "core"
      BY DEF Places
    <3>2. Part(d, list, k) = IF CoreRank(d, k) < CoreCount THEN 1 ELSE 5
      BY <3>1, CorePart
    <3>. QED  BY <2>1, <3>1, <3>2
  <2>. QED  BY <2>1
<1> HIDE DEF M
<1>4. IsFiniteSet(M) /\ Cardinality(M) \in Nat
  BY <1>1, <1>2, FS_Subset, FS_CardinalityType
<1>5. \A k : CoreRank(d, k) \in Nat
  BY CoresFinite
<1>6. CASE N # {}
  <2> DEFINE R == {CoreRank(d, k) : k \in N}
  <2>1. R \subseteq Nat /\ R # {}
    BY <1>5, <1>6
  <2>2. PICK r \in R : \A s \in R : r <= s
    <3> HIDE DEF R
    <3>. QED  BY <2>1, LeastNumber
  <2>3. PICK x \in N : r = CoreRank(d, x)
    OBVIOUS
  <2>4. ASSUME NEW j \in CoresBefore(d, x) PROVE j \in M
    <3>1. CoreRank(d, j) < CoreRank(d, x) /\ j \in Places(d, "core")
      BY <2>3, CoreRankLess DEF CoresBefore
    <3>2. CoreRank(d, j) < CoreCount
      <4> SUFFICES ASSUME ~ (CoreRank(d, j) < CoreCount) PROVE FALSE
        OBVIOUS
      <4>1. j \in N
        BY <1>5, <3>1, LayoutAssumption
      <4>2. CoreRank(d, j) \in R
        BY <4>1
      <4>3. r <= CoreRank(d, j)
        BY <2>2, <4>2
      <4>. QED  BY <1>5, <2>3, <3>1, <4>3
    <3>. QED  BY <1>3, <3>1, <3>2
  <2>5. CoresBefore(d, x) \in SUBSET M
    BY <2>4
  <2>6. CoreRank(d, x) <= Cardinality(M)
    BY <1>4, <2>5, FS_Subset DEF CoreRank
  <2>7. CoreCount <= CoreRank(d, x)
    BY <1>5, <2>3, LayoutAssumption
  <2>. QED  BY <1>4, <1>5, <2>6, <2>7, LayoutAssumption DEF M
<1>7. CASE N = {}
  <2>1. \A k \in Places(d, "core") : k \in M
    BY <1>3, <1>5, <1>7, LayoutAssumption
  <2>2. ASSUME NEW t \in 0 .. CoreCount - 1 PROVE \E k \in M : d[k].title = t
    <3>1. PICK k \in DOMAIN d : d[k].title = t /\ d[k].core
      BY DEF CoreThere
    <3>2. d[k].title # ForoTitle
      BY <3>1, LayoutAssumption DEF ForoTitle
    <3>3. k \in Places(d, "core")
      BY <3>1, <3>2 DEF Places, Kind
    <3>. QED  BY <2>1, <3>1, <3>3
  <2> DEFINE f == [t \in 0 .. CoreCount - 1 |-> CHOOSE k \in M : d[k].title = t]
  <2>3. \A t \in 0 .. CoreCount - 1 : f[t] \in M /\ d[f[t]].title = t
    BY <2>2
  <2> HIDE DEF f
  <2>4. f \in Injection(0 .. CoreCount - 1, M)
    <3>1. f \in [0 .. CoreCount - 1 -> M]
      BY <2>3 DEF f
    <3>2. \A s, t \in 0 .. CoreCount - 1 : f[s] = f[t] => s = t
      BY <2>3
    <3>. QED  BY <3>1, <3>2 DEF Injection, IsInjective
  <2>5. Cardinality(0 .. CoreCount - 1) <= Cardinality(M)
    BY <1>4, <2>4, FS_Injection
  <2>6. Cardinality(0 .. CoreCount - 1) = CoreCount
    <3>1. PICK m \in Nat : m = CoreCount - 1
      BY LayoutAssumption
    <3>2. Cardinality(0 .. m) = IF 0 > m THEN 0 ELSE m - 0 + 1
      BY FS_Interval
    <3>. QED  BY <3>1, <3>2, LayoutAssumption
  <2>. QED  BY <1>4, <2>5, <2>6 DEF M
<1>. QED  BY <1>6, <1>7

-----------------------------------------------------------------------------
(* A minuta that has been put in order (e, from b).                        *)

LEMMA PartsAscend ==
    ASSUME NEW b \in Seq(Sections), NEW list \in Seq(Clauses), NEW n, NEW at,
           NEW e, Arranges(e, b, list, at, n), NEW i \in 1 .. n,
           NEW j \in 1 .. n, i < j
    PROVE  Part(e, list, i) <= Part(e, list, j)
<1>1. Ahead(e, list, i, j)
  BY AheadAgain
<1>2. Part(e, list, i) \in 1 .. 6
  BY Parts
<1>3. Part(e, list, j) \in 1 .. 6
  BY Parts
<1>. QED  BY <1>1, <1>2, <1>3 DEF Ahead

LEMMA CoresFirst ==
    ASSUME NEW b \in Seq(Sections), NEW list \in Seq(Clauses), NEW n, NEW at,
           NEW e, Arranges(e, b, list, at, n), CoreThere(e),
           NEW i \in 1 .. n, i <= CoreCount
    PROVE  Kind(e[i]) = "core"
<1>1. n \in Nat /\ e \in Seq(Sections) /\ DOMAIN e = 1 .. n
  BY DEF Arranges
<1> SUFFICES ASSUME Kind(e[i]) # "core" PROVE FALSE
  OBVIOUS
<1> DEFINE M == {k \in DOMAIN e : Part(e, list, k) = 1}
<1>2. Part(e, list, i) \in 1 .. 6 /\ Part(e, list, i) # 1
  BY Parts
<1>3. ASSUME NEW k \in M PROVE k \in 1 .. i - 1
  <2>1. k \in 1 .. n /\ Part(e, list, k) = 1
    BY <1>1
  <2>2. ~ (i < k)
    <3>1. i < k => Part(e, list, i) <= Part(e, list, k)
      BY <2>1, PartsAscend
    <3>. QED  BY <1>2, <2>1, <3>1
  <2>3. k # i
    BY <1>2, <2>1
  <2>. QED  BY <1>1, <2>1, <2>2, <2>3
<1>4. IsFiniteSet(M) /\ Cardinality(M) \in Nat /\ CoreCount <= Cardinality(M)
  BY <1>1, EnoughCores
<1> HIDE DEF M
<1>5. PICK m \in Nat : m = i - 1
  BY <1>1
<1>6. IsFiniteSet(1 .. m) /\ Cardinality(1 .. m) = m
  <2>1. IsFiniteSet(1 .. m)
          /\ Cardinality(1 .. m) = IF 1 > m THEN 0 ELSE m - 1 + 1
    BY FS_Interval
  <2>. QED  BY <2>1
<1>7. M \in SUBSET (1 .. m)
  BY <1>3, <1>5
<1>8. Cardinality(M) <= m
  BY <1>6, <1>7, FS_Subset
<1>. QED  BY <1>1, <1>4, <1>5, <1>8, LayoutAssumption

LEMMA ForoLast ==
    ASSUME NEW b \in Seq(Sections), NEW list \in Seq(Clauses), NEW n, NEW at,
           NEW e, Arranges(e, b, list, at, n), HasForo(e), NEW i \in 1 .. n
    PROVE  Kind(e[i]) = "foro" <=> i = n
<1>1. n \in Nat /\ e \in Seq(Sections) /\ DOMAIN e = 1 .. n
  BY DEF Arranges
<1>2. Survivors(e) = 1 .. n
  BY KeptAgain
<1>3. ASSUME NEW j \in 1 .. n,
             NEW k \in 1 .. n, Kind(e[j]) = "foro", Kind(e[k]) = "foro"
      PROVE  j = k
  BY <1>1, <1>2, <1>3, KeptOnce
<1>4. PICK k \in 1 .. n : Kind(e[k]) = "foro"
  BY <1>1 DEF HasForo, Places
<1>5. k = n
  <2> SUFFICES ASSUME k # n PROVE FALSE
    OBVIOUS
  <2>1. k < n /\ n \in 1 .. n
    BY <1>1
  <2>2. Part(e, list, k) <= Part(e, list, n)
    BY <2>1, PartsAscend
  <2>3. Part(e, list, k) = 6
    BY <1>4, Parts
  <2>4. Part(e, list, n) \in 1 .. 6
    BY Parts
  <2>5. Part(e, list, n) = 6
    BY <2>2, <2>3, <2>4
  <2>6. Kind(e[n]) = "foro"
    BY <2>5, Parts
  <2>. QED  BY <1>3, <1>4, <2>1, <2>6
<1>. QED  BY <1>3, <1>4, <1>5

LEMMA TemplatesInOrder ==
    ASSUME NEW b \in Seq(Sections), NEW list \in Seq(Clauses), NEW n, NEW at,
           NEW e, Arranges(e, b, list, at, n), NEW i \in 1 .. n,
           NEW j \in 1 .. n, i < j,
           \A k \in 1 .. n : e[k].clause \in ToSet(list) \cup {NoClause},
           Kind(e[j]) = "admin"
    PROVE  /\ Kind(e[i]) # "custom"
           /\ Kind(e[i]) = "admin"
                 => Position(list, e[i].clause) < Position(list, e[j].clause)
<1>1. n \in Nat /\ e \in Seq(Sections) /\ DOMAIN e = 1 .. n
  BY DEF Arranges
<1>2. \A k \in 1 .. n : Kind(e[k]) = "admin" => e[k].clause \in ToSet(list)
  BY SectionKinds
<1>3. Part(e, list, j) = 2
  BY <1>2, Parts
<1>4. Part(e, list, i) <= Part(e, list, j)
  BY PartsAscend
<1>5. Kind(e[i]) # "custom"
  <2>1. Part(e, list, i) # 4
    BY <1>3, <1>4
  <2>. QED  BY <2>1, Parts
<1>6. ASSUME Kind(e[i]) = "admin"
      PROVE  Position(list, e[i].clause) < Position(list, e[j].clause)
  <2>1. Part(e, list, i) = 2
    BY <1>2, <1>6, Parts
  <2>2. /\ SortKey(e, list, i) = Position(list, e[i].clause)
        /\ SortKey(e, list, j) = Position(list, e[j].clause)
    BY <1>3, <2>1 DEF SortKey
  <2>3. Ahead(e, list, i, j)
    BY AheadAgain
  <2>4. SortKey(e, list, i) < SortKey(e, list, j) \/ SortKey(e, list, i) = SortKey(e, list, j)
    BY <1>3, <2>1, <2>3 DEF Ahead
  <2>5. e[i].clause # e[j].clause
    <3>1. Survivors(e) = 1 .. n
      BY KeptAgain
    <3>2. e[i].clause = e[j].clause => i = j
      BY <1>1, <1>6, <3>1, KeptOnce
    <3>. QED  BY <1>1, <3>2
  <2>6. Position(list, e[i].clause) # Position(list, e[j].clause)
    <3>1. list[Position(list, e[i].clause)] = e[i].clause
      BY <1>2, <1>6, Positions
    <3>2. list[Position(list, e[j].clause)] = e[j].clause
      BY <1>2, Positions
    <3>. QED  BY <2>5, <3>1, <3>2
  <2>. QED  BY <2>2, <2>4, <2>6
<1>. QED  BY <1>5, <1>6

LEMMA ReadClauses ==
    ASSUME listed \in Seq(Clauses), NEW d, NEW b, ReadFrom(b, d),
           NEW n, NEW at, NEW e, Arranges(e, b, listed, at, n)
    PROVE  /\ \A k \in 1 .. n : e[k].clause \in ToSet(listed) \cup {NoClause}
           /\ \A c \in ToSet(listed) : \E k \in 1 .. n : e[k].clause = c
<1>1. b \in Seq(Sections) /\ ClausesFit(b)
  BY DEF ReadFrom
<1>2. ASSUME NEW k \in 1 .. n
      PROVE  e[k].clause \in ToSet(listed) \cup {NoClause}
  <2>1. /\ at[k] \in DOMAIN b
        /\ Kind(e[k]) = "foro" => e[k].clause = NoClause
        /\ Kind(e[k]) # "foro" => e[k].clause = b[at[k]].clause
    BY <1>1, ArrangedSection
  <2>. QED  BY <2>1 DEF ReadFrom
<1>3. ASSUME NEW c \in ToSet(listed)
      PROVE  \E k \in 1 .. n : e[k].clause = c
  <2>1. c # NoClause
    BY LayoutAssumption DEF ToSet
  <2>2. PICK i \in DOMAIN b : b[i].clause = c
    BY DEF ReadFrom
  <2>3. Kind(b[i]) \in {"core", "admin"}
    <3>1. Kind(b[i]) # "foro"
      BY <1>1, <2>1, <2>2, SectionKinds DEF ClausesFit
    <3>2. Kind(b[i]) # "custom"
      BY <2>1, <2>2 DEF Kind
    <3>3. Kind(b[i]) \in KindsOf
      BY SectionKinds
    <3>. QED  BY <3>1, <3>2, <3>3 DEF KindsOf
  <2>4. PICK j \in Survivors(b) : b[j].clause = c /\ Kind(b[j]) # "foro"
    <3>1. CASE Kind(b[i]) = "core"
      <4>1. i \in Survivors(b)
        BY <3>1 DEF Survivors
      <4>. QED  BY <2>2, <3>1, <4>1
    <3>2. CASE Kind(b[i]) = "admin"
      <4> DEFINE T == {j \in Places(b, "admin") : b[j].clause = c}
      <4>1. PICK m \in Nat : DOMAIN b = 1 .. m
        BY <1>1
      <4>2. T \subseteq 1 .. m /\ T # {}
        BY <2>2, <3>2, <4>1 DEF Places
      <4>3. PICK j \in T : \A l \in T : l <= j
        <5> HIDE DEF T
        <5>. QED  BY <4>2, GreatestPlace
      <4>4. j \in Survivors(b)
        BY <4>3 DEF Survivors, Places
      <4>. QED  BY <4>3, <4>4 DEF Places
    <3>. QED  BY <2>3, <3>1, <3>2
  <2>5. PICK k \in 1 .. n : at[k] = j
    BY DEF Arranges
  <2>6. Kind(e[k]) = Kind(b[at[k]])
          /\ (Kind(e[k]) # "foro" => e[k].clause = b[at[k]].clause)
    BY <1>1, ArrangedSection
  <2>. QED  BY <2>4, <2>5, <2>6
<1>. QED  BY <1>2, <1>3

(* A minuta in which nothing is missing and nothing out of date is read as *)
(* it is.                                                                  *)
LEMMA ReadAgain ==
    ASSUME listed \in Seq(Clauses), NEW d \in Seq(Sections),
           NEW e, InOrderOf(e, d, listed),
           HasForo(e),
           \A k \in DOMAIN e : e[k].clause \in ToSet(listed) \cup {NoClause},
           \A c \in ToSet(listed) : \E k \in DOMAIN e : e[k].clause = c
    PROVE  Read(e) = e
<1> DEFINE I == {i \in DOMAIN e : e[i].clause = NoClause \/ e[i].clause \in ToSet(listed)}
           present == {e[i].clause : i \in DOMAIN e}
           J == {i \in DOMAIN listed : listed[i] \notin present}
<1>1. e \in Seq(Sections)
  BY ReorderedKeeps
<1>2. I = DOMAIN e
  OBVIOUS
<1>3. Those(e, I) = e
  BY <1>1, <1>2, ThoseAll
<1>4. J = {}
  BY DEF ToSet
<1>5. PICK add : add = Those(listed, J)
  OBVIOUS
<1>6. add \in Seq(Clauses) /\ Picks(add, listed, J)
  <2>1. J \in SUBSET DOMAIN listed
    OBVIOUS
  <2> HIDE DEF J
  <2>. QED  BY <1>5, <2>1, ThosePick
<1>7. DOMAIN add = {}
  BY <1>4, <1>6 DEF Picks
<1>8. PICK new : new = [i \in DOMAIN add |->
                           [FromClause(add[i]) EXCEPT !.order = NextOrder(e) + i - 1]]
  OBVIOUS
<1>9. e \o new = e
  <2>1. DOMAIN new = {}
    BY <1>7, <1>8
  <2>2. new = << >>
    BY <2>1, <1>8
  <2>. QED  BY <1>1, <2>2
<1>10. Reordered(e, listed) = e
  BY ReorderedAgain
<1>11. WithMissing(e) = e
  <2>1. WithMissing(e) = IF HasForo(Reordered(e \o new, listed)) THEN Reordered(e \o new, listed)
                         ELSE Reordered(WithForo(Reordered(e \o new, listed)), listed)
    BY <1>5, <1>8 DEF WithMissing
  <2>. QED  BY <1>9, <1>10, <2>1
<1>. QED  BY <1>3, <1>11 DEF Read

LEMMA WholeSettles ==
    ASSUME listed \in Seq(Clauses), NEW d, Whole(d), NEW e, e = Read(d)
    PROVE  /\ Whole(e)
           /\ Read(e) = e
           /\ \A i \in DOMAIN e : /\ e[i].order = i - 1
                                  /\ Kind(e[i]) = "foro" <=> i = Len(e)
                                  /\ i <= CoreCount => Kind(e[i]) = "core"
           /\ \A i, j \in DOMAIN e :
                i < j /\ Kind(e[j]) = "admin" =>
                   /\ Kind(e[i]) # "custom"
                   /\ Kind(e[i]) = "admin" =>
                        Position(listed, e[i].clause) < Position(listed, e[j].clause)
           /\ ToSet(listed) = {e[i].clause : i \in DOMAIN e} \ {NoClause}
<1>1. PICK b : ReadFrom(b, d)
  BY ReadPutsInOrder
<1>2. b \in Seq(Sections) /\ CoreThere(b) /\ HasForo(b)
        /\ e = Reordered(b, listed)
  BY <1>1 DEF ReadFrom
<1>3. InOrderOf(e, b, listed)
  BY <1>2, ReorderedArranges
<1>4. PICK n, at : Arranges(e, b, listed, at, n)
  BY <1>3 DEF InOrderOf
<1>5. n \in Nat /\ DOMAIN e = 1 .. n /\ Len(e) = n
  BY <1>4 DEF Arranges
<1>6. Whole(e)
  BY <1>2, ReorderedWhole
<1>7. CoreThere(e) /\ HasForo(e)
  BY <1>6 DEF Whole
<1>8. /\ \A k \in 1 .. n : e[k].clause \in ToSet(listed) \cup {NoClause}
      /\ \A c \in ToSet(listed) : \E k \in 1 .. n : e[k].clause = c
  BY <1>1, <1>4, ReadClauses
<1>9. Read(e) = e
  <2>1. /\ \A k \in DOMAIN e : e[k].clause \in ToSet(listed) \cup {NoClause}
        /\ \A c \in ToSet(listed) : \E k \in DOMAIN e : e[k].clause = c
    BY <1>5, <1>8
  <2>. QED  BY <1>2, <1>3, <1>7, <2>1, ReadAgain
<1>10. ASSUME NEW i \in 1 .. n
       PROVE  /\ e[i].order = i - 1
              /\ Kind(e[i]) = "foro" <=> i = n
              /\ i <= CoreCount => Kind(e[i]) = "core"
  <2>1. e[i].order = i - 1
    BY <1>2, <1>4, ArrangedSection
  <2>2. Kind(e[i]) = "foro" <=> i = n
    BY <1>2, <1>4, <1>7, ForoLast
  <2>3. i <= CoreCount => Kind(e[i]) = "core"
    BY <1>2, <1>4, <1>7, CoresFirst
  <2>. QED  BY <2>1, <2>2, <2>3
<1>11. ASSUME NEW i \in 1 .. n, NEW j \in 1 .. n, i < j, Kind(e[j]) = "admin"
       PROVE  /\ Kind(e[i]) # "custom"
              /\ Kind(e[i]) = "admin" =>
                   Position(listed, e[i].clause) < Position(listed, e[j].clause)
  BY <1>2, <1>4, <1>8, <1>11, TemplatesInOrder
<1>12. ToSet(listed) = {e[i].clause : i \in DOMAIN e} \ {NoClause}
  <2>1. NoClause \notin ToSet(listed)
    BY LayoutAssumption DEF ToSet
  <2>. QED  BY <1>5, <1>8, <2>1
<1>. QED  BY <1>5, <1>6, <1>9, <1>10, <1>11, <1>12

LEMMA SettlesWhenWhole ==
    ASSUME listed \in Seq(Clauses), IsCreated => Whole(sections)
    PROVE  ReadSettles
<1> SUFFICES ASSUME IsCreated PROVE ReadSettles
  BY DEF ReadSettles
<1>1. PICK e : e = Read(sections)
  OBVIOUS
<1>2. /\ Whole(e)
      /\ Read(e) = e
      /\ \A i \in DOMAIN e : /\ e[i].order = i - 1
                             /\ Kind(e[i]) = "foro" <=> i = Len(e)
                             /\ i <= CoreCount => Kind(e[i]) = "core"
      /\ \A i, j \in DOMAIN e :
           i < j /\ Kind(e[j]) = "admin" =>
              /\ Kind(e[i]) # "custom"
              /\ Kind(e[i]) = "admin" =>
                   Position(listed, e[i].clause) < Position(listed, e[j].clause)
      /\ ToSet(listed) = {e[i].clause : i \in DOMAIN e} \ {NoClause}
  BY <1>1, WholeSettles
<1>3. \A t \in 0 .. CoreCount - 1 : \E i \in DOMAIN e : e[i].title = t
  BY <1>2 DEF Whole, CoreThere
<1>4. \A i, j \in DOMAIN e :
        i < j => /\ <<Kind(e[i]), Kind(e[j])>> # <<"custom", "admin">>
                 /\ <<Kind(e[i]), Kind(e[j])>> = <<"admin", "admin">> =>
                      Position(listed, e[i].clause) < Position(listed, e[j].clause)
  BY <1>2
<1>5. WellOrdered(e)
  BY <1>2, <1>3, <1>4 DEF WellOrdered
<1>. QED  BY <1>1, <1>2, <1>5 DEF ReadSettles

(* The inductive invariant.  ReadSettles is not one: it speaks of what is  *)
(* read, while edits and templates change what is stored.                  *)
LayoutInv == TypeOKLayout /\ (IsCreated => Whole(sections))

LEMMA OrderingType ==
    ASSUME NEW cs \in SUBSET Clauses, NEW l \in Orderings(cs)
    PROVE  l \in Seq(Clauses)
<1>1. IsFiniteSet(cs)
  BY LayoutAssumption, FS_Subset
<1>2. PICK n \in Nat : n = Cardinality(cs)
  BY <1>1, FS_CardinalityType
<1>3. l \in [1 .. n -> cs]
  BY <1>2 DEF Orderings
<1>4. l \in [1 .. n -> Clauses]
  BY <1>3
<1>. QED  BY <1>4

LEMMA CreatedWhole ==
    ASSUME listed \in Seq(Clauses)
    PROVE  Whole(Created)
<1> DEFINE core == [i \in 1 .. CoreCount |->
                      [title |-> i - 1, core |-> TRUE, clause |-> NoClause,
                       id |-> 0, order |-> i - 1]]
           own == [i \in DOMAIN listed |->
                      [FromClause(listed[i]) EXCEPT !.order = CoreCount + i - 1]]
<1>1. CoreCount \in Nat /\ 0 \in 0 .. MaxEdits
  BY LayoutAssumption
<1>2. \A i \in 1 .. CoreCount : core[i] \in Sections
  BY <1>1 DEF Sections, Titles, OtherTitle
<1>3. core \in [1 .. CoreCount -> Sections]
  BY <1>2
<1>4. core \in Seq(Sections) /\ DOMAIN core = 1 .. CoreCount
  BY <1>1, <1>3
<1>5. CoreThere(core)
  <2>1. ASSUME NEW t \in 0 .. CoreCount - 1
        PROVE  \E i \in DOMAIN core :
                 core[i].title = t /\ core[i].core /\ core[i].clause = NoClause
    <3>1. PICK i \in 1 .. CoreCount : t = i - 1
      <4>1. t + 1 \in 1 .. CoreCount /\ t = (t + 1) - 1
        BY <1>1
      <4>. QED  BY <4>1
    <3>2. core[i].title = t /\ core[i].core /\ core[i].clause = NoClause
      BY <3>1
    <3>. QED  BY <1>4, <3>2
  <2> HIDE DEF core
  <2>. QED  BY <2>1 DEF CoreThere
<1>6. own \in Seq(Sections)
  <2>1. ASSUME NEW i \in DOMAIN listed PROVE own[i] \in Sections
    <3>1. PICK c \in Clauses, o \in Nat : c = listed[i] /\ o = CoreCount + i - 1
      BY <1>1
    <3>2. PICK s : s = Brought(c, o)
      OBVIOUS
    <3>3. s \in Sections /\ s.title # ForoTitle /\ s.clause = c
      BY <3>2, ClauseSection
    <3>4. own[i] = s
      BY <3>1, <3>2 DEF Brought
    <3>. QED  BY <3>3, <3>4
  <2>2. own \in [1 .. Len(listed) -> Sections]
    BY <2>1
  <2>. QED  BY <2>2
<1> HIDE DEF core, own
<1>7. core \o own \in Seq(Sections) /\ Extends(core \o own, core)
  BY <1>4, <1>6, ConcatExtends
<1>8. PICK d : d = core \o own
  OBVIOUS
<1>9. d \in Seq(Sections) /\ CoreThere(d)
  BY <1>5, <1>7, <1>8, ExtendedKeeps
<1>10. WithForo(d) \in Seq(Sections) /\ HasForo(WithForo(d))
         /\ CoreThere(WithForo(d))
  BY <1>9, WithForoHas
<1>11. Created = Reordered(WithForo(d), listed)
  BY <1>8 DEF Created, core, own
<1>. QED  BY <1>10, <1>11, ReorderedWhole

-----------------------------------------------------------------------------
(* What an offerer sends, and what changes of templates do.                *)

LEMMA NormalizedKeeps ==
    ASSUME NEW d \in Seq(Sections), CoreThere(d)
    PROVE  Normalized(d) \in Seq(Sections) /\ CoreThere(Normalized(d))
<1>1. PICK e : e = Normalized(d)
  OBVIOUS
<1>2. e = [i \in DOMAIN d |-> IF d[i].core THEN [d[i] EXCEPT !.clause = NoClause] ELSE d[i]]
  BY <1>1 DEF Normalized
<1>3. ASSUME NEW i \in DOMAIN d
      PROVE  /\ e[i] \in Sections /\ e[i].title = d[i].title
                  /\ (d[i].core => e[i].core)
             /\ (d[i].clause = NoClause => e[i].clause = NoClause)
  <2>1. PICK s \in Sections : s = d[i]
    OBVIOUS
  <2>2. e[i] = IF s.core THEN [s EXCEPT !.clause = NoClause] ELSE s
    BY <1>2, <2>1
  <2>3. CASE s.core
    <3>1. e[i] = [s EXCEPT !.clause = NoClause]
      BY <2>2, <2>3
    <3>. QED  BY <2>1, <3>1 DEF Sections
  <2>4. CASE ~ s.core
    BY <2>1, <2>2, <2>4
  <2>. QED  BY <2>3, <2>4
<1>4. DOMAIN e = DOMAIN d
  BY <1>2
<1>5. e \in Seq(Sections)
  <2>1. e \in [1 .. Len(d) -> Sections]
    BY <1>2, <1>3
  <2>. QED  BY <2>1
<1>6. CoreThere(e)
  BY <1>3, <1>4 DEF CoreThere
<1>. QED  BY <1>1, <1>5, <1>6

LEMMA SentKeeps ==
    ASSUME NEW d \in Seq(Sections), CoreThere(d), edits \in 0 .. MaxEdits,
           edits < MaxEdits,
           NEW e \in Sent(d)
    PROVE  e \in Seq(Sections) /\ CoreThere(e)
<1>1. ASSUME NEW i \in DOMAIN d, Loose(d[i]), e = Those(d, (DOMAIN d) \ {i})
      PROVE  e \in Seq(Sections) /\ CoreThere(e)
  <2>1. PICK I \in SUBSET DOMAIN d : I = (DOMAIN d) \ {i}
    OBVIOUS
  <2>2. e = Those(d, I)
    BY <1>1, <2>1
  <2>3. e \in Seq(Sections) /\ Picks(e, d, I)
    BY <2>2, ThosePick
  <2>4. \A j \in DOMAIN d : d[j].core /\ d[j].clause = NoClause => j \in I
    BY <1>1, <2>1 DEF Loose
  <2>. QED  BY <2>3, <2>4, PicksKeep
<1>2. ASSUME NEW i \in DOMAIN d, NEW j \in DOMAIN d,
             e = [d EXCEPT ![i].order = d[j].order, ![j].order = d[i].order]
      PROVE  e \in Seq(Sections) /\ CoreThere(e)
  <2>1. \A k \in DOMAIN d : d[k] \in Sections
    OBVIOUS
  <2>2. DOMAIN e = DOMAIN d
    BY <1>2
  <2>3. d[i].order \in Nat /\ d[j].order \in Nat
    BY <2>1 DEF Sections
  <2>4. ASSUME NEW k \in DOMAIN d
        PROVE  /\ e[k] \in Sections /\ e[k].title = d[k].title
                    /\ e[k].core = d[k].core
               /\ e[k].clause = d[k].clause
    <3>1. PICK o \in Nat : e[k] = [d[k] EXCEPT !.order = o]
      <4>1. CASE k = j
        BY <1>2, <2>1, <2>3, <4>1 DEF Sections
      <4>2. CASE k # j /\ k = i
        BY <1>2, <2>1, <2>3, <4>2 DEF Sections
      <4>3. CASE k # j /\ k # i
        BY <1>2, <2>1, <4>3 DEF Sections
      <4>. QED  BY <4>1, <4>2, <4>3
    <3>. QED  BY <2>1, <3>1 DEF Sections
  <2>5. e \in Seq(Sections)
    <3>1. PICK f : f = [d EXCEPT ![i].order = d[j].order]
      OBVIOUS
    <3>2. e = [f EXCEPT ![j].order = d[i].order]
      BY <1>2, <3>1
    <3>3. f = [k \in DOMAIN d |-> f[k]]
      BY <3>1
    <3>4. e = [k \in DOMAIN d |-> e[k]]
      BY <3>2, <3>3
    <3>5. DOMAIN d = 1 .. Len(d)
      OBVIOUS
    <3>6. e \in [1 .. Len(d) -> Sections]
      BY <2>4, <3>4, <3>5
    <3>. QED  BY <3>6
  <2>6. CoreThere(e)
    BY <2>2, <2>4 DEF CoreThere
  <2>. QED  BY <2>5, <2>6
<1>3. ASSUME NEW title \in Titles,
             e = Append(d, [title |-> title, core |-> FALSE, clause |-> NoClause,
                            id |-> edits + 1, order |-> Len(d)])
      PROVE  e \in Seq(Sections) /\ CoreThere(e)
  <2>1. PICK s : s = [title |-> title, core |-> FALSE, clause |-> NoClause,
                      id |-> edits + 1, order |-> Len(d)]
    OBVIOUS
  <2>2. s \in Sections
    BY <2>1, LayoutAssumption DEF Sections
  <2>3. e = Append(d, s)
    BY <1>3, <2>1
  <2>4. e \in Seq(Sections) /\ Extends(e, d)
    BY <2>2, <2>3 DEF Extends
  <2>. QED  BY <2>4, ExtendedKeeps
<1>4. \/ \E i \in DOMAIN d : Loose(d[i]) /\ e = Those(d, (DOMAIN d) \ {i})
      \/ \E i, j \in DOMAIN d :
           e = [d EXCEPT ![i].order = d[j].order, ![j].order = d[i].order]
      \/ \E title \in Titles :
           e = Append(d, [title |-> title, core |-> FALSE, clause |-> NoClause,
                          id |-> edits + 1, order |-> Len(d)])
  BY DEF Sent
<1>. QED  BY <1>1, <1>2, <1>3, <1>4

LEMMA WithClauseWhole ==
    ASSUME NEW d, Whole(d), NEW c \in Clauses, NEW l \in Seq(Clauses)
    PROVE  Whole(WithClause(d, c, l))
<1> DEFINE here == {i \in DOMAIN d : d[i].clause = c}
           first == CHOOSE i \in here : \A j \in here : i <= j
<1>1. d \in Seq(Sections) /\ CoreThere(d) /\ ClausesFit(d) /\ HasForo(d)
  BY DEF Whole
<1>2. c # NoClause /\ ClauseTitle[c] \in Titles /\ ClauseTitle[c] # ForoTitle
  BY LayoutAssumption
<1>3. CASE here = {}
  <2>1. PICK s : s = FromClause(c)
    OBVIOUS
  <2>2. s \in Sections
    <3>1. 0 \in 0 .. MaxEdits
      BY LayoutAssumption
    <3>. QED  BY <1>2, <2>1, <3>1 DEF FromClause, Sections
  <2>3. PICK e : e = Appended(d, s)
    OBVIOUS
  <2>4. e \in Seq(Sections) /\ Extends(e, d)
    BY <1>1, <2>2, <2>3, AppendedType
  <2>5. CoreThere(e) /\ HasForo(e)
    BY <1>1, <2>4, ExtendedKeeps
  <2>6. WithClause(d, c, l) = Reordered(e, l)
    BY <1>3, <2>1, <2>3 DEF WithClause
  <2>. QED  BY <2>4, <2>5, <2>6, ReorderedWhole
<1>4. CASE here # {}
  <2>1. here \subseteq Nat
    BY <1>1
  <2>2. \E i \in here : \A j \in here : i <= j
    <3> HIDE DEF here
    <3>. QED  BY <1>4, <2>1, LeastNumber
  <2>3. PICK p \in here : p = first
    <3> HIDE DEF here
    <3>. QED  BY <2>2
  <2>4. p \in DOMAIN d /\ d[p].clause = c
    OBVIOUS
  <2>5. PICK e : e = [d EXCEPT ![p].title = ClauseTitle[c]]
    OBVIOUS
  <2>6. WithClause(d, c, l) = Reordered(e, l)
    BY <1>4, <2>3, <2>5 DEF WithClause
  <2>7. DOMAIN e = DOMAIN d /\ \A i \in DOMAIN d : i # p => e[i] = d[i]
    BY <2>5
  <2>8. e[p] \in Sections
    <3>1. d[p] \in Sections /\ e[p] = [d[p] EXCEPT !.title = ClauseTitle[c]]
      BY <1>1, <2>4, <2>5
    <3>. QED  BY <1>2, <3>1 DEF Sections
  <2>9. e \in Seq(Sections)
    <3>1. e \in [1 .. Len(d) -> Sections]
      BY <1>1, <2>5, <2>7, <2>8
    <3>. QED  BY <1>1, <3>1
  <2>10. CoreThere(e)
    <3>1. ASSUME NEW t \in 0 .. CoreCount - 1
          PROVE  \E i \in DOMAIN e : e[i].title = t /\ e[i].core
                   /\ e[i].clause = NoClause
      <4>1. PICK i \in DOMAIN d : d[i].title = t /\ d[i].core
              /\ d[i].clause = NoClause
        BY <1>1 DEF CoreThere
      <4>2. i # p
        BY <1>2, <2>4, <4>1
      <4>. QED  BY <2>7, <4>1, <4>2
    <3>. QED  BY <3>1 DEF CoreThere
  <2>11. HasForo(e)
    <3>1. PICK i \in DOMAIN d : Kind(d[i]) = "foro"
      BY <1>1 DEF HasForo, Places
    <3>2. d[i].title = ForoTitle
      BY <3>1, SectionKinds
    <3>3. i # p
      BY <1>1, <1>2, <2>4, <3>2 DEF ClausesFit
    <3>. QED  BY <2>7, <3>1, <3>3 DEF HasForo, Places
  <2>. QED  BY <2>6, <2>9, <2>10, <2>11, ReorderedWhole
<1>. QED  BY <1>3, <1>4

LEMMA WithoutClauseWhole ==
    ASSUME NEW d, Whole(d), NEW c \in Clauses
    PROVE  Whole(WithoutClause(d, c))
<1>1. d \in Seq(Sections) /\ CoreThere(d) /\ ClausesFit(d) /\ HasForo(d)
  BY DEF Whole
<1>2. PICK I \in SUBSET DOMAIN d : I = {i \in DOMAIN d : d[i].clause # c}
  OBVIOUS
<1>3. PICK e : e = WithoutClause(d, c)
  OBVIOUS
<1>4. e = Those(d, I)
  BY <1>2, <1>3 DEF WithoutClause
<1>5. e \in Seq(Sections) /\ Picks(e, d, I)
  BY <1>1, <1>4, ThosePick
<1>6. c # NoClause
  BY LayoutAssumption
<1>7. \A i \in DOMAIN d : d[i].core /\ d[i].clause = NoClause => i \in I
  BY <1>2, <1>6
<1>8. \A i \in Places(d, "foro") : i \in I
  <2>1. \A i \in Places(d, "foro") : i \in DOMAIN d /\ d[i].title = ForoTitle
    BY SectionKinds DEF Places
  <2>. QED  BY <1>1, <1>2, <1>6, <2>1 DEF ClausesFit
<1>9. CoreThere(e) /\ HasForo(e)
  BY <1>1, <1>5, <1>7, <1>8, PicksKeep
<1>10. ClausesFit(e)
  BY <1>1, <1>2, <1>5 DEF ClausesFit, Picks
<1>. QED  BY <1>3, <1>5, <1>9, <1>10 DEF Whole

LEMMA ButForType ==
    ASSUME NEW l \in Seq(Clauses), NEW c
    PROVE  ButFor(l, c) \in Seq(Clauses)
<1>1. PICK I \in SUBSET DOMAIN l : I = {i \in DOMAIN l : l[i] # c}
  OBVIOUS
<1>2. Those(l, I) \in Seq(Clauses)
  BY ThosePick
<1>. QED  BY <1>1, <1>2 DEF ButFor

-----------------------------------------------------------------------------

LEMMA LayoutInvariant == LayoutSpec => []LayoutInv
<1>1. LayoutInit => LayoutInv
  <2> SUFFICES ASSUME LayoutInit PROVE LayoutInv
    OBVIOUS
  <2>1. PICK cs \in SUBSET Clauses : listed \in Orderings(cs)
    BY DEF LayoutInit
  <2>2. listed \in Seq(Clauses)
    BY <2>1, OrderingType
  <2>. QED  BY <2>2, LayoutAssumption DEF LayoutInit, LayoutInv,
       TypeOKLayout, IsCreated
<1>2. LayoutInv /\ [LayoutNext]_lvars => LayoutInv'
  <2> SUFFICES ASSUME LayoutInv, [LayoutNext]_lvars PROVE LayoutInv'
    OBVIOUS
  <2>1. /\ listed \in Seq(Clauses)
        /\ sections \in Seq(Sections) /\ (IsCreated => Whole(sections))
        /\ edits \in 0 .. MaxEdits /\ lmoves \in 0 .. LayoutMoves
    BY DEF LayoutInv, TypeOKLayout
  <2>2. ToSet(listed) \subseteq Clauses
    BY <2>1 DEF ToSet
  <2>3. ASSUME Whole(sections'), listed' \in Seq(Clauses),
               edits' \in 0 .. MaxEdits, lmoves' \in 0 .. LayoutMoves
        PROVE  LayoutInv'
    BY <2>3 DEF LayoutInv, TypeOKLayout, Whole
  <2>4. PICK e : e = Read(sections)
    OBVIOUS
  <2>5. IsCreated => Whole(e)
    BY <2>1, <2>4, WholeSettles
  <2>6. CASE CreateMinuta
    <3>1. Whole(sections')
      BY <2>1, <2>6, CreatedWhole DEF CreateMinuta
    <3>. QED  BY <2>1, <2>3, <2>6, <3>1 DEF CreateMinuta
  <2>7. CASE GetMinuta
    <3>1. Whole(sections')
      BY <2>4, <2>5, <2>7 DEF GetMinuta
    <3>. QED  BY <2>1, <2>3, <2>7, <3>1 DEF GetMinuta
  <2>8. CASE EditSections
    <3>1. PICK d \in Sent(e) : sections' = Reordered(WithForo(Normalized(d)), listed)
      BY <2>4, <2>8 DEF EditSections
    <3>2. edits < MaxEdits /\ edits' = edits + 1 /\ UNCHANGED <<listed, lmoves>>
      BY <2>8 DEF EditSections
    <3>3. e \in Seq(Sections) /\ CoreThere(e)
      BY <2>5, <2>8 DEF EditSections, Whole
    <3>4. d \in Seq(Sections) /\ CoreThere(d)
      BY <2>1, <3>2, <3>3, SentKeeps
    <3>5. Normalized(d) \in Seq(Sections) /\ CoreThere(Normalized(d))
      BY <3>4, NormalizedKeeps
    <3>6. PICK f : f = WithForo(Normalized(d))
      OBVIOUS
    <3>7. f \in Seq(Sections) /\ HasForo(f) /\ CoreThere(f)
      BY <3>5, <3>6, WithForoHas
    <3>8. Whole(sections')
      BY <2>1, <3>1, <3>6, <3>7, ReorderedWhole
    <3>9. edits' \in 0 .. MaxEdits
      BY <2>1, <3>2, LayoutAssumption
    <3>. QED  BY <2>1, <2>3, <3>2, <3>8, <3>9
  <2>9. ASSUME NEW c \in Clauses, ListClause(c) PROVE LayoutInv'
    <3>1. PICK l \in Orderings(ToSet(listed) \cup {c}) :
            listed' = l /\ sections' = WithClause(sections, c, l)
      BY <2>9 DEF ListClause
    <3>2. PICK cs \in SUBSET Clauses : cs = ToSet(listed) \cup {c}
      BY <2>2
    <3>3. l \in Seq(Clauses)
      BY <3>1, <3>2, OrderingType
    <3>4. Whole(sections')
      BY <2>1, <2>9, <3>1, <3>3, WithClauseWhole DEF ListClause
    <3>5. edits' = edits /\ lmoves' = lmoves + 1 /\ lmoves < LayoutMoves
      BY <2>9 DEF ListClause
    <3>6. lmoves' \in 0 .. LayoutMoves
      BY <2>1, <3>5, LayoutAssumption
    <3>. QED  BY <2>1, <2>3, <3>1, <3>3, <3>4, <3>5, <3>6
  <2>10. ASSUME NEW c \in Clauses, UnlistClause(c) PROVE LayoutInv'
    <3>1. /\ listed' = ButFor(listed, c) /\ sections' = WithoutClause(sections, c)
          /\ edits' = edits /\ lmoves' = lmoves + 1 /\ lmoves < LayoutMoves
      BY <2>10 DEF UnlistClause
    <3>2. listed' \in Seq(Clauses)
      BY <2>1, <3>1, ButForType
    <3>3. Whole(sections')
      BY <2>1, <2>10, <3>1, WithoutClauseWhole DEF UnlistClause
    <3>4. lmoves' \in 0 .. LayoutMoves
      BY <2>1, <3>1, LayoutAssumption
    <3>. QED  BY <2>1, <2>3, <3>1, <3>2, <3>3, <3>4
  <2>11. CASE ReorderClauses
    <3>1. PICK l \in Orderings(ToSet(listed)) :
            listed' = l /\ sections' = Reordered(sections, l)
      BY <2>11 DEF ReorderClauses
    <3>2. PICK cs \in SUBSET Clauses : cs = ToSet(listed)
      BY <2>2
    <3>3. l \in Seq(Clauses)
      BY <3>1, <3>2, OrderingType
    <3>4. CoreThere(sections) /\ HasForo(sections)
      BY <2>1, <2>11 DEF ReorderClauses, Whole
    <3>5. Whole(sections')
      BY <2>1, <3>1, <3>3, <3>4, ReorderedWhole
    <3>6. edits' = edits /\ lmoves' = lmoves + 1 /\ lmoves < LayoutMoves
      BY <2>11 DEF ReorderClauses
    <3>7. lmoves' \in 0 .. LayoutMoves
      BY <2>1, <3>6, LayoutAssumption
    <3>. QED  BY <2>1, <2>3, <3>1, <3>3, <3>5, <3>6, <3>7
  <2>12. CASE UNCHANGED lvars
    BY <2>1, <2>12 DEF lvars, LayoutInv, TypeOKLayout, IsCreated
  <2>. QED  BY <2>6, <2>7, <2>8, <2>9, <2>10, <2>11, <2>12 DEF LayoutNext
<1>. QED  BY <1>1, <1>2, PTL DEF LayoutSpec

(* The sections of a minuta, the listed templates and the counters keep    *)
(* their types, whatever reorder_proposal_sections and its callers do.     *)
THEOREM LayoutTypeCorrect == LayoutSpec => []TypeOKLayout
<1>1. LayoutInv => TypeOKLayout
  BY DEF LayoutInv
<1>. QED  BY <1>1, LayoutInvariant, PTL

(* ReadSettles, for any number of core sections and templates, any titles  *)
(* and any number of edits: whoever reads a minuta after any edits and     *)
(* template changes (_sync_missing_admin_sections) has every core section  *)
(* first, the active templates' in their order before the offerer's own,   *)
(* one foro at the end, and reading it again would store nothing.          *)
THEOREM SectionsSettle == LayoutSpec => []ReadSettles
<1>1. LayoutInv => ReadSettles
  BY SettlesWhenWhole DEF LayoutInv, TypeOKLayout
<1>. QED  BY <1>1, LayoutInvariant, PTL
==============================================================================
