-------------------------- MODULE AgreementsProofs --------------------------
(***************************************************************************)
(* Theorems about Agreements, for every set of users, participant lists,   *)
(* files, deadlines and request slots.                                     *)
(*                                                                         *)
(* The argument: a handler only ever stores a copy it derived from a       *)
(* document that was once the stored one.  So if every effect preserves    *)
(* GoodDoc, every document in memory and in the database satisfies it, and *)
(* overwriting one with another cannot break it.  IInv says this of the    *)
(* stored document and of the copy in each request.                        *)
(***************************************************************************)
EXTENDS Agreements, SequenceTheorems, WellFoundedInduction, TLAPS

(* Nothing signed, rejected or certified goes back to being editable.      *)
Untouched(d) ==
    d.status \in Editable =>
        /\ d.signed = NoSigned
        /\ d.cert = NoCert
        /\ \A i \in Index(d) : d.st[i] \in Waiting

(* A completed entry has its account linked: no later get stores a copy.   *)
LinkedOnceDone(d) ==
    \A i \in Index(d) : d.st[i] = "completed" => i \notin d.unlinked

GoodDoc(d) ==
    /\ IsDoc(d)
    /\ StampsKept(d)
    /\ AllCompleted(d)
    /\ InOrder(d)
    /\ CertFits(d)
    /\ Complete(d)
    /\ Untouched(d)
    /\ LinkedOnceDone(d)

(* Only a signing request holds a copy that says "signed", and the copy it *)
(* takes to _finalize does.                                                *)
HoldsSigned(q) ==
    /\ q.pc \in {"expire", "viewing", "write"} /\ q.new.status = "signed"
         => q.op = "sign" /\ q.pc = "write"
    /\ q.pc \in {"finalize", "seal"}
         => q.op = "sign" /\ q.new.status = "signed"
    /\ q.pc = "seal" => q.new.cert.of.by # {}

IInv ==
    /\ TypeOK
    /\ GoodDoc(doc)
    /\ \A r \in Requests : GoodDoc(req[r].new) /\ HoldsSigned(req[r])
    /\ SignedGetsSealed

-----------------------------------------------------------------------------
(* Documents                                                               *)

(* Indices of a participant list are natural numbers.                      *)
LEMMA IndexNat ==
    ASSUME NEW l \in PeopleLists
    PROVE  DOMAIN l \subseteq Nat
BY ListsAssumption DEF PeopleLists

(* _find_participant_for_user returns an entry of the user, the first.     *)
LEMMA FindFinds ==
    ASSUME NEW d, IsDoc(d), NEW u, IsParticipant(d, u)
    PROVE  /\ Find(d, u) \in Index(d)
           /\ d.people[Find(d, u)].who = u
<1> DEFINE S == {i \in Index(d) : d.people[i].who = u}
           R == OpToRel(<, Nat)
<1>1. S \subseteq Nat /\ S # {}
  BY IndexNat DEF IsDoc, DocsOver, Index, IsParticipant
<1>2. IsWellFoundedOn(R, Nat)
  BY NatLessThanWellFounded
<1>3. PICK i \in S : \A j \in S : ~(<<j, i>> \in R)
  <2> HIDE DEF S, R
  <2>. QED  BY <1>1, <1>2, WFMin, Zenon
<1>4. \A j \in S : i <= j
  <2>1. SUFFICES ASSUME NEW j \in S, j < i PROVE FALSE
    BY <1>1
  <2>2. <<j, i>> \in R
    BY <1>1, <2>1 DEF OpToRel
  <2>. QED  BY <1>3, <2>2
<1>5. /\ i \in Index(d) /\ d.people[i].who = u
      /\ \A j \in Index(d) : d.people[j].who = u => i <= j
  BY <1>4
<1>. QED  BY <1>5, Zenon DEF Find

(* A document that create or create_from_contract_proposal stores.         *)
LEMMA CreatedGood ==
    ASSUME NEW m \in Modes, NEW dl \in Nat
    PROVE  GoodDoc(Created(m, dl))
BY DEF GoodDoc, IsDoc, DocsOver, Created, StampsKept, AllCompleted, InOrder, CertFits,
       Complete, Untouched, LinkedOnceDone, Index, NoSigned, NoCert, SignedFiles,
       PeopleLists, Statuses, Editable, Open, PStatuses, Waiting

LEMMA FromMinutaGood ==
    ASSUME NEW l \in Minutas, NEW p \in Pdfs
    PROVE  GoodDoc(FromMinuta(l, p))
BY DEF GoodDoc, IsDoc, DocsOver, FromMinuta, StampsKept, AllCompleted, InOrder,
       CertFits, Complete, Untouched, LinkedOnceDone, Index, NoSigned, NoCert,
       SignedFiles, PeopleLists, Statuses, Editable, Open, PStatuses, Waiting, Modes

LEMMA ExpiredGood ==
    ASSUME NEW d, GoodDoc(d), Lapsed(d)
    PROVE  GoodDoc(Expired(d)) /\ Expired(d).status = "expired"
<1> DEFINE w == Expired(d)
<1>1. /\ w = [d EXCEPT !.status = "expired"]
      /\ Index(w) = Index(d)
  BY DEF Expired, GoodDoc, IsDoc, DocsOver, Index
<1> HIDE DEF w
<1>2. IsDoc(w)
  BY <1>1 DEF GoodDoc, IsDoc, DocsOver, Statuses
<1>3. /\ w.people = d.people /\ w.st = d.st /\ w.signed = d.signed /\ w.cert = d.cert
      /\ w.orig = d.orig /\ w.unlinked = d.unlinked
  BY <1>1 DEF GoodDoc, IsDoc, DocsOver
<1>4. /\ StampsKept(w) /\ AllCompleted(w) /\ InOrder(w) /\ CertFits(w)
      /\ Complete(w) /\ Untouched(w) /\ LinkedOnceDone(w)
  BY <1>1, <1>3
     DEF GoodDoc, IsDoc, DocsOver, StampsKept, AllCompleted, InOrder, CertFits,
         Complete, Untouched, LinkedOnceDone, Index, Precedes, Editable, Open, Lapsed
<1>. QED  BY <1>1, <1>2, <1>4 DEF GoodDoc, IsDoc, DocsOver, w

LEMMA CancelledGood ==
    ASSUME NEW d, GoodDoc(d)
    PROVE  GoodDoc(Cancelled(d)) /\ Cancelled(d).status = "cancelled"
<1> DEFINE w == Cancelled(d)
<1>1. /\ w = [d EXCEPT !.status = "cancelled"]
      /\ Index(w) = Index(d)
  BY DEF Cancelled, GoodDoc, IsDoc, DocsOver, Index
<1> HIDE DEF w
<1>2. IsDoc(w)
  BY <1>1 DEF GoodDoc, IsDoc, DocsOver, Statuses
<1>3. /\ w.people = d.people /\ w.st = d.st /\ w.signed = d.signed /\ w.cert = d.cert
      /\ w.orig = d.orig /\ w.unlinked = d.unlinked
  BY <1>1 DEF GoodDoc, IsDoc, DocsOver
<1>4. /\ StampsKept(w) /\ AllCompleted(w) /\ InOrder(w) /\ CertFits(w)
      /\ Complete(w) /\ Untouched(w) /\ LinkedOnceDone(w)
  BY <1>1, <1>3
     DEF GoodDoc, IsDoc, DocsOver, StampsKept, AllCompleted, InOrder, CertFits,
         Complete, Untouched, LinkedOnceDone, Index, Precedes, Editable, Open
<1>. QED  BY <1>1, <1>2, <1>4 DEF GoodDoc, IsDoc, DocsOver, w

LEMMA SentGood ==
    ASSUME NEW d, GoodDoc(d), d.orig # NoFile, d.people # <<>>, d.placed
    PROVE  GoodDoc(Sent(d)) /\ Sent(d).status = "awaiting_signatures"
<1> DEFINE w == Sent(d)
<1>1. /\ w = [d EXCEPT !.status = "awaiting_signatures"]
      /\ Index(w) = Index(d)
  BY DEF Sent, GoodDoc, IsDoc, DocsOver, Index
<1> HIDE DEF w
<1>2. IsDoc(w)
  BY <1>1 DEF GoodDoc, IsDoc, DocsOver, Statuses
<1>3. /\ w.people = d.people /\ w.st = d.st /\ w.signed = d.signed /\ w.cert = d.cert
      /\ w.orig = d.orig /\ w.unlinked = d.unlinked
  BY <1>1 DEF GoodDoc, IsDoc, DocsOver
<1>4. /\ StampsKept(w) /\ AllCompleted(w) /\ InOrder(w) /\ CertFits(w)
      /\ Complete(w) /\ Untouched(w) /\ LinkedOnceDone(w)
  BY <1>1, <1>3
     DEF GoodDoc, IsDoc, DocsOver, StampsKept, AllCompleted, InOrder, CertFits,
         Complete, Untouched, LinkedOnceDone, Index, Precedes, Editable, Open
<1>. QED  BY <1>1, <1>2, <1>4 DEF GoodDoc, IsDoc, DocsOver, w

LEMMA UpdatedGood ==
    ASSUME NEW d, GoodDoc(d), d.status \in Editable, NEW m \in Modes, NEW dl \in Nat
    PROVE  GoodDoc(Updated(d, m, dl)) /\ Updated(d, m, dl).status = d.status
<1> DEFINE w == Updated(d, m, dl)
<1>1. /\ w = [d EXCEPT !.mode = m, !.deadline = dl]
      /\ Index(w) = Index(d)
  BY DEF Updated, GoodDoc, IsDoc, DocsOver, Index
<1> HIDE DEF w
<1>2. IsDoc(w)
  BY <1>1 DEF GoodDoc, IsDoc, DocsOver
<1>3. /\ w.people = d.people /\ w.st = d.st /\ w.signed = d.signed /\ w.cert = d.cert
      /\ w.orig = d.orig /\ w.unlinked = d.unlinked
  BY <1>1 DEF GoodDoc, IsDoc, DocsOver
<1>4. /\ StampsKept(w) /\ AllCompleted(w) /\ InOrder(w) /\ CertFits(w)
      /\ Complete(w) /\ Untouched(w) /\ LinkedOnceDone(w)
  BY <1>1, <1>3
     DEF GoodDoc, IsDoc, DocsOver, StampsKept, AllCompleted, InOrder, CertFits,
         Complete, Untouched, LinkedOnceDone, Index, Precedes, Editable, Open, Waiting
<1>. QED  BY <1>1, <1>2, <1>4 DEF GoodDoc, IsDoc, DocsOver, w

LEMMA UploadedGood ==
    ASSUME NEW d, GoodDoc(d), d.status \in Editable, NEW p \in Pdfs
    PROVE  GoodDoc(Uploaded(d, p)) /\ Uploaded(d, p).status \in Editable
<1> DEFINE w == Uploaded(d, p)
           s == IF d.people = <<>> THEN d.status ELSE "awaiting_send"
<1>1. /\ w = [d EXCEPT !.orig = p, !.signed = NoSigned, !.status = s]
      /\ s \in Editable
  BY DEF Uploaded, GoodDoc, IsDoc, DocsOver, Editable
<1>2. d.signed = NoSigned /\ d.cert = NoCert /\ NoSigned \in SignedFiles(d.people)
  BY DEF GoodDoc, Untouched, NoSigned, SignedFiles
<1>3. \A i \in Index(d) : d.st[i] # "completed"
  BY DEF GoodDoc, Untouched, Waiting
<1> HIDE DEF w, s
<1>4. IsDoc(w) /\ w.status = s
  BY <1>1, <1>2 DEF GoodDoc, IsDoc, DocsOver, Statuses, Editable
<1>5. /\ StampsKept(w) /\ AllCompleted(w) /\ InOrder(w) /\ CertFits(w)
      /\ Complete(w) /\ Untouched(w) /\ LinkedOnceDone(w)
  BY <1>1, <1>2, <1>3
     DEF GoodDoc, IsDoc, DocsOver, StampsKept, AllCompleted, InOrder, CertFits,
         Complete, Untouched, LinkedOnceDone, Index, Editable, Open, NoSigned, NoCert
<1>. QED  BY <1>1, <1>4, <1>5 DEF GoodDoc, w

LEMMA WithPeopleGood ==
    ASSUME NEW d, GoodDoc(d), d.status \in Editable,
           NEW l \in Lists, NEW m \in Modes
    PROVE  GoodDoc(WithPeople(d, l, m)) /\ WithPeople(d, l, m).status \in Editable
<1> DEFINE w == WithPeople(d, l, m)
           s == IF d.orig = NoFile THEN d.status ELSE "awaiting_send"
           st == [i \in DOMAIN l |-> "pending"]
           un == {i \in DOMAIN l : ~l[i].linked}
<1>1. IsDoc(w) /\ w.status \in Editable
  <2>1. /\ w = [d EXCEPT !.people = l, !.st = st, !.unlinked = un, !.mode = m,
                         !.placed = FALSE, !.status = s]
        /\ s \in Editable
    BY DEF WithPeople, GoodDoc, IsDoc, DocsOver, Editable
  <2>2. st \in [DOMAIN l -> PStatuses] /\ un \subseteq DOMAIN l /\ l \in PeopleLists
    BY DEF PStatuses, PeopleLists
  <2>3. /\ d.signed = NoSigned /\ d.cert = NoCert
        /\ NoSigned \in SignedFiles(l) /\ {} \subseteq Users
    BY DEF GoodDoc, Untouched, NoSigned, SignedFiles
  <2> HIDE DEF w, s, st, un
  <2>4. d \in DocsOver(d.people) /\ d.cert \in [of: SignedFiles(l), trail: SUBSET Users]
    BY <2>3 DEF GoodDoc, IsDoc, NoCert
  <2>. QED  BY <2>1, <2>2, <2>3, <2>4 DEF IsDoc, DocsOver, Statuses, Editable
<1>2. /\ StampsKept(w) /\ AllCompleted(w) /\ InOrder(w) /\ CertFits(w)
      /\ Complete(w) /\ Untouched(w) /\ LinkedOnceDone(w)
  BY DEF GoodDoc, IsDoc, DocsOver, WithPeople, StampsKept, AllCompleted, InOrder, CertFits,
         Complete, Untouched, LinkedOnceDone, Index, Editable, Open, Waiting,
         NoSigned, NoCert
<1>. QED  BY <1>1, <1>2 DEF GoodDoc

LEMMA WithFieldsGood ==
    ASSUME NEW d, GoodDoc(d), d.status \in Editable, NEW some \in BOOLEAN
    PROVE  GoodDoc(WithFields(d, some)) /\ WithFields(d, some).status \in Editable
<1> DEFINE w == WithFields(d, some)
<1>1. /\ w = [d EXCEPT !.placed = some]
      /\ Index(w) = Index(d)
  BY DEF WithFields, GoodDoc, IsDoc, DocsOver, Index
<1> HIDE DEF w
<1>2. IsDoc(w)
  BY <1>1 DEF GoodDoc, IsDoc, DocsOver
<1>3. /\ w.people = d.people /\ w.st = d.st /\ w.signed = d.signed /\ w.cert = d.cert
      /\ w.orig = d.orig /\ w.unlinked = d.unlinked
  BY <1>1 DEF GoodDoc, IsDoc, DocsOver
<1>4. /\ StampsKept(w) /\ AllCompleted(w) /\ InOrder(w) /\ CertFits(w)
      /\ Complete(w) /\ Untouched(w) /\ LinkedOnceDone(w)
  BY <1>1, <1>3
     DEF GoodDoc, IsDoc, DocsOver, StampsKept, AllCompleted, InOrder, CertFits,
         Complete, Untouched, LinkedOnceDone, Index, Precedes, Editable, Open, Waiting
<1>. QED  BY <1>1, <1>2, <1>4 DEF GoodDoc, IsDoc, DocsOver, w, Editable

(* A first view changes no signature, so it cannot make a copy "signed".   *)
LEMMA ViewedGood ==
    ASSUME NEW d, GoodDoc(d), NEW i \in Index(d), d.st[i] = "pending"
    PROVE  GoodDoc(Viewed(d, i)) /\ Viewed(d, i).status # "signed"
<1> DEFINE w == Viewed(d, i)
<1>1. /\ w = [d EXCEPT !.st = [d.st EXCEPT ![i] = "viewed"],
                       !.unlinked = d.unlinked \ {i}]
      /\ w.st \in [Index(d) -> PStatuses]
      /\ Index(w) = Index(d)
  BY DEF GoodDoc, IsDoc, DocsOver, Viewed, Index, PStatuses
<1>2. IsDoc(w)
  <2> HIDE DEF w
  <2>. QED  BY <1>1 DEF GoodDoc, IsDoc, DocsOver, Index
<1>3. \A j \in Index(d) : /\ w.st[j] = "completed" <=> d.st[j] = "completed"
                          /\ w.st[j] \in Waiting <=> d.st[j] \in Waiting
  BY <1>1 DEF GoodDoc, IsDoc, DocsOver, Waiting
<1>4. \A j, k \in Index(d) : Precedes(w, j, k) <=> Precedes(d, j, k)
  BY <1>1 DEF Precedes, GoodDoc, IsDoc, DocsOver
<1>5. d.status # "signed"
  BY DEF GoodDoc, AllCompleted
<1>6. /\ StampsKept(w) /\ AllCompleted(w) /\ InOrder(w) /\ CertFits(w)
      /\ Complete(w) /\ Untouched(w) /\ LinkedOnceDone(w)
  BY <1>1, <1>3, <1>4, <1>5
     DEF GoodDoc, IsDoc, DocsOver, StampsKept, AllCompleted, InOrder, CertFits, Complete,
         Untouched, LinkedOnceDone, Index
<1>. QED  BY <1>1, <1>2, <1>5, <1>6 DEF GoodDoc, IsDoc, DocsOver

(* A get that has something to link finds an entry not yet completed.      *)
LEMMA LinkedGood ==
    ASSUME NEW d, GoodDoc(d), NEW u, Linked(d, u) # d
    PROVE  GoodDoc(Linked(d, u)) /\ Linked(d, u).status # "signed"
<1> DEFINE w == Linked(d, u)
<1>1. /\ w = [d EXCEPT !.unlinked = w.unlinked]
      /\ w.unlinked \subseteq d.unlinked
      /\ Index(w) = Index(d)
  BY DEF GoodDoc, IsDoc, DocsOver, Linked, Index
<1>2. d.unlinked # {}
  <2>1. SUFFICES ASSUME d.unlinked = {} PROVE w = d
    OBVIOUS
  <2>. QED  BY <2>1, <1>1 DEF GoodDoc, IsDoc, DocsOver
<1>3. d.status # "signed"
  BY <1>2 DEF GoodDoc, IsDoc, DocsOver, AllCompleted, LinkedOnceDone, Index
<1>4. GoodDoc(w)
  <2> HIDE DEF w
  <2>1. IsDoc(w)
    BY <1>1 DEF GoodDoc, IsDoc, DocsOver, Index
  <2>2. /\ StampsKept(w) /\ AllCompleted(w) /\ InOrder(w) /\ CertFits(w)
        /\ Complete(w) /\ Untouched(w) /\ LinkedOnceDone(w)
    BY <1>1 DEF GoodDoc, IsDoc, DocsOver, StampsKept, AllCompleted, InOrder, CertFits,
         Complete, Untouched, LinkedOnceDone, Index, Precedes
  <2>. QED  BY <2>1, <2>2 DEF GoodDoc
<1>. QED  BY <1>1, <1>3, <1>4 DEF GoodDoc, IsDoc, DocsOver

(* A participant signs: the stamp goes on the file that carries the others *)
(* and, with ordered signing, everyone before has acted.                   *)
LEMMA SignedByGood ==
    ASSUME NEW d, GoodDoc(d), d.status \in Open, NEW i \in Index(d),
           d.st[i] \in Waiting, d.mode = "ordered" => InTurn(d, i)
    PROVE  GoodDoc(SignedBy(d, i)) /\ SignedBy(d, i).cert.of.by = {}
<1> DEFINE w == SignedBy(d, i)
           s == IF \A j \in Index(d) \ {i} : d.st[j] = "completed"
                THEN "signed" ELSE "partially_signed"
           st == [d.st EXCEPT ![i] = "completed"]
<1>1. w = [d EXCEPT !.st = st, !.unlinked = d.unlinked \ {i},
                    !.signed = Stamped(d, i), !.status = s]
  BY DEF SignedBy, GoodDoc, IsDoc, DocsOver
<1>2. /\ st \in [Index(d) -> PStatuses] /\ st[i] = "completed"
      /\ \A j \in Index(d) \ {i} : st[j] = d.st[j]
  BY DEF GoodDoc, IsDoc, DocsOver, Index, PStatuses
<1>3. /\ s \in {"signed", "partially_signed"}
      /\ s = "signed" => \A j \in Index(d) : st[j] = "completed"
  BY <1>2
<1>4. /\ Stamped(d, i) \in SignedFiles(d.people)
      /\ Stamped(d, i).by = d.signed.by \cup {i}
      /\ Stamped(d, i).pdf = d.orig /\ d.orig # NoFile
  BY DEF GoodDoc, IsDoc, DocsOver, Stamped, SignedFiles, Index, StampsKept, Complete
<1>5. d.cert.of.by = {}
  BY DEF GoodDoc, CertFits
<1> HIDE DEF w, s, st
<1>6. IsDoc(w) /\ Index(w) = Index(d)
  BY <1>1, <1>2, <1>3, <1>4 DEF GoodDoc, IsDoc, DocsOver, Index, Statuses
<1>7. /\ w.st = st /\ w.status = s /\ w.signed = Stamped(d, i) /\ w.cert = d.cert
      /\ w.mode = d.mode /\ w.people = d.people /\ w.orig = d.orig
      /\ w.placed = d.placed /\ w.unlinked = d.unlinked \ {i}
  BY <1>1 DEF GoodDoc, IsDoc, DocsOver
<1>8. StampsKept(w) /\ AllCompleted(w) /\ CertFits(w)
  BY <1>2, <1>3, <1>4, <1>5, <1>6, <1>7
     DEF GoodDoc, StampsKept, AllCompleted, CertFits
<1>9. InOrder(w)
  <2>1. SUFFICES ASSUME d.mode = "ordered", NEW k \in Index(d), NEW j \in Index(d),
                        st[k] = "completed", Precedes(d, j, k)
                 PROVE  st[j] \notin Waiting
    BY <1>6, <1>7 DEF InOrder, Precedes
  <2>2. d.st[j] \notin Waiting
    <3>1. CASE k = i
      BY <2>1, <3>1 DEF InTurn
    <3>2. CASE k # i
      BY <2>1, <3>2, <1>2 DEF GoodDoc, InOrder
    <3>. QED  BY <3>1, <3>2
  <2>. QED  BY <2>2, <1>2 DEF Waiting
<1>10. Complete(w) /\ Untouched(w) /\ LinkedOnceDone(w)
  BY <1>2, <1>3, <1>6, <1>7
     DEF GoodDoc, Complete, Untouched, LinkedOnceDone, Open, Editable
<1>. QED  BY <1>5, <1>6, <1>7, <1>8, <1>9, <1>10 DEF GoodDoc, w

LEMMA RejectedByGood ==
    ASSUME NEW d, GoodDoc(d), d.status \in Open, NEW i \in Index(d)
    PROVE  GoodDoc(RejectedBy(d, i)) /\ RejectedBy(d, i).status = "rejected"
<1> DEFINE w == RejectedBy(d, i)
           st == [d.st EXCEPT ![i] = "rejected"]
<1>1. w = [d EXCEPT !.st = st, !.unlinked = d.unlinked \ {i}, !.status = "rejected"]
  BY DEF RejectedBy, GoodDoc, IsDoc, DocsOver
<1>2. /\ st \in [Index(d) -> PStatuses] /\ st[i] = "rejected"
      /\ \A j \in Index(d) \ {i} : st[j] = d.st[j]
  BY DEF GoodDoc, IsDoc, DocsOver, Index, PStatuses
<1> HIDE DEF w, st
<1>3. IsDoc(w) /\ Index(w) = Index(d)
  BY <1>1, <1>2 DEF GoodDoc, IsDoc, DocsOver, Index, Statuses
<1>4. /\ w.st = st /\ w.status = "rejected" /\ w.signed = d.signed /\ w.cert = d.cert
      /\ w.mode = d.mode /\ w.people = d.people /\ w.orig = d.orig
      /\ w.placed = d.placed /\ w.unlinked = d.unlinked \ {i}
  BY <1>1 DEF GoodDoc, IsDoc, DocsOver
<1>5. StampsKept(w) /\ AllCompleted(w) /\ CertFits(w)
  BY <1>2, <1>3, <1>4 DEF GoodDoc, StampsKept, AllCompleted, CertFits, Waiting
<1>6. InOrder(w)
  BY <1>2, <1>3, <1>4 DEF GoodDoc, InOrder, Precedes, Waiting
<1>7. Complete(w) /\ Untouched(w) /\ LinkedOnceDone(w)
  BY <1>2, <1>3, <1>4
     DEF GoodDoc, Complete, Untouched, LinkedOnceDone, Open, Editable
<1>. QED  BY <1>3, <1>4, <1>5, <1>6, <1>7 DEF GoodDoc, w

(* _finalize of a signed copy: every participant's stamp is on the file.   *)
LEMMA CertifiedGood ==
    ASSUME NEW d, GoodDoc(d), d.status = "signed", NEW entries
    PROVE  /\ GoodDoc(Certified(d, entries))
           /\ Certified(d, entries).status = "signed"
           /\ Certified(d, entries).cert.of.by # {}
<1> DEFINE w == Certified(d, entries)
           t == {u \in Users : [type |-> "signed", by |-> u] \in entries}
           c == [of |-> d.signed, trail |-> t]
<1>1. w = [d EXCEPT !.cert = c] /\ t \subseteq Users
  BY DEF Certified
<1>2. d.signed.by = Index(d)
  BY DEF GoodDoc, IsDoc, DocsOver, SignedFiles, Index, AllCompleted, StampsKept
<1>3. Index(d) # {}
  <2>1. d.people \in Seq(Participant) /\ d.people # <<>>
    BY ListsAssumption DEF GoodDoc, Complete, IsDoc, PeopleLists
  <2>2. Len(d.people) \in Nat /\ Len(d.people) # 0 /\ DOMAIN d.people = 1 .. Len(d.people)
    BY <2>1, EmptySeq, LenProperties
  <2>3. 1 \in DOMAIN d.people
    BY <2>2
  <2>. QED  BY <2>3 DEF Index
<1> HIDE DEF w, t
<1>4. /\ IsDoc(w) /\ w.cert = c /\ w.st = d.st /\ w.status = d.status
      /\ w.signed = d.signed /\ w.mode = d.mode /\ w.people = d.people
      /\ w.orig = d.orig /\ w.placed = d.placed /\ w.unlinked = d.unlinked
  BY <1>1 DEF GoodDoc, IsDoc, DocsOver
<1>5. /\ StampsKept(w) /\ AllCompleted(w) /\ InOrder(w)
      /\ Complete(w) /\ Untouched(w) /\ LinkedOnceDone(w)
  BY <1>4 DEF GoodDoc, StampsKept, AllCompleted, InOrder, Precedes, Complete,
              Untouched, LinkedOnceDone, Index, Editable
<1>6. CertFits(w)
  BY <1>2, <1>4 DEF GoodDoc, AllCompleted, CertFits, Index, Waiting
<1>. QED  BY <1>2, <1>3, <1>4, <1>5, <1>6 DEF GoodDoc, w

-----------------------------------------------------------------------------
(* The steps                                                               *)

(* Entries of the trail have their type.                                   *)
LEMMA EnterTyped ==
    ASSUME trail \subseteq TrailEntries, NEW type \in EventTypes,
           NEW u \in Users \cup {NoUser}, Enter(type, u)
    PROVE  trail' \subseteq TrailEntries
BY DEF Enter, TrailEntries

(* The initial state.                                                      *)
LEMMA Starts == Init => IInv
<1> SUFFICES ASSUME Init PROVE IInv
  OBVIOUS
<1>1. GoodDoc(doc) /\ doc.status # "signed"
  <2>1. CASE \E m \in Modes, dl \in Deadlines : doc = Created(m, dl)
    BY <2>1, CreatedGood, ClockAssumption DEF Created
  <2>2. CASE \E l \in Minutas, p \in Pdfs : doc = FromMinuta(l, p)
    BY <2>2, FromMinutaGood DEF FromMinuta
  <2>. QED  BY <2>1, <2>2 DEF Init
<1>2. GoodDoc(Blank)
  BY CreatedGood DEF Blank, Modes
<1>3. \A r \in Requests : req[r] = Idle
  BY DEF Init
<1>4. IsSlot(Idle) /\ HoldsSigned(Idle) /\ Idle.new = Blank
  BY <1>2 DEF Idle, IsSlot, GoodDoc, AllOps, Phases, HoldsSigned
<1>5. TypeOK
  BY <1>1, <1>3, <1>4 DEF TypeOK, GoodDoc, Init
<1>. QED  BY <1>1, <1>2, <1>3, <1>4, <1>5 DEF IInv, SignedGetsSealed

(* A step that changes one slot preserves the invariant if what it stores  *)
(* and what it holds are good, and if it either leaves an agreement that   *)
(* needs no certificate, or is on its way to _finalize, or leaves that to  *)
(* whoever was already.                                                    *)
LEMMA OneSlot ==
    ASSUME IInv, NEW r \in Requests, NEW q,
           req' = [req EXCEPT ![r] = q],
           IsSlot(q), GoodDoc(q.new), HoldsSigned(q),
           GoodDoc(doc'), trail' \subseteq TrailEntries, now' \in Nat,
           \/ MayFail
           \/ doc'.status # "signed"
           \/ doc'.cert.of.by # {}
           \/ WillSeal(q)
           \/ doc' = doc /\ ~WillSeal(req[r])
    PROVE  IInv'
<1>1. /\ DOMAIN req' = Requests /\ req'[r] = q
      /\ \A s \in Requests \ {r} : req'[s] = req[s]
  BY DEF IInv, TypeOK
<1>2. TypeOK'
  BY <1>1 DEF IInv, TypeOK, GoodDoc, IsSlot
<1>3. \A s \in Requests : GoodDoc(req'[s].new) /\ HoldsSigned(req'[s])
  BY <1>1 DEF IInv
<1>4. SignedGetsSealed'
  <2>1. CASE WillSeal(q)
    BY <2>1, <1>1 DEF SignedGetsSealed
  <2>2. CASE doc' = doc /\ ~WillSeal(req[r])
    BY <2>2, <1>1 DEF IInv, SignedGetsSealed
  <2>. QED  BY <2>1, <2>2 DEF SignedGetsSealed
<1>. QED  BY <1>2, <1>3, <1>4 DEF IInv, GoodDoc

(* The slot a handler leaves behind.                                       *)
LEMMA IdleSlot == IsSlot(Idle) /\ GoodDoc(Idle.new) /\ HoldsSigned(Idle)
BY CreatedGood DEF Idle, IsSlot, GoodDoc, AllOps, Phases, HoldsSigned, Blank, Modes

(* Holding a good copy: what is read, or is about to be stored.            *)
LEMMA Proceeds ==
    ASSUME IInv, NEW r \in Requests, req[r].pc = "read",
           NEW pc \in {"viewing", "write", "log"}, NEW d, GoodDoc(d),
           Proceed(r, pc, d),
           d.status = "signed" => req[r].op = "sign" /\ pc = "write"
    PROVE  IInv'
<1> DEFINE q == [req[r] EXCEPT !.pc = pc, !.new = d]
<1>1. req' = [req EXCEPT ![r] = q] /\ UNCHANGED <<doc, trail, now>>
  BY DEF Proceed, Goto, IInv, TypeOK
<1>2. /\ IsSlot(q) /\ q.op = req[r].op /\ q.pc = pc /\ q.new = d
  BY DEF IInv, TypeOK, IsSlot, Phases, GoodDoc
<1> HIDE DEF q
<1>3. HoldsSigned(q) /\ ~WillSeal(req[r])
  BY <1>2 DEF HoldsSigned, WillSeal
<1>. QED  BY <1>1, <1>2, <1>3, OneSlot DEF IInv, TypeOK

(* A request that ends without having stored or certified a signature.     *)
LEMMA Finishes ==
    ASSUME IInv, NEW r \in Requests, Finish(r), UNCHANGED <<doc, now>>,
           trail' \subseteq TrailEntries, ~WillSeal(req[r]) \/ MayFail
    PROVE  IInv'
<1>1. req' = [req EXCEPT ![r] = Idle]
  BY DEF Finish
<1>. QED  BY <1>1, IdleSlot, OneSlot DEF IInv, TypeOK

(* Every step of Next, and stuttering, preserves the invariant.            *)
LEMMA Steps == IInv /\ [Next]_vars => IInv'
<1> SUFFICES ASSUME IInv, [Next]_vars PROVE IInv'
  OBVIOUS
<1> USE DEF GoodDoc
<1>1. CASE UNCHANGED vars
  BY <1>1 DEF vars, IInv, TypeOK, IsSlot, HoldsSigned, SignedGetsSealed, WillSeal
<1>2. CASE Tick
  BY <1>2, ClockAssumption
     DEF Tick, IInv, TypeOK, IsSlot, HoldsSigned, SignedGetsSealed, WillSeal
<1> HIDE DEF GoodDoc
<1>3. ASSUME NEW r \in Requests, NEW op \in Ops, NEW u \in Users, Arrive(r, op, u)
      PROVE  IInv'
  <2> DEFINE q == [op |-> op, by |-> u,
                   pc  |-> IF Lapsed(doc) THEN "expire" ELSE "read",
                   new |-> IF Lapsed(doc) THEN Expired(doc) ELSE Blank]
  <2>1. GoodDoc(q.new) /\ q.new.status # "signed"
    BY ExpiredGood, CreatedGood DEF IInv, Blank, Created, Modes
  <2>2. q.pc \in {"expire", "read"} /\ IsSlot(q)
    BY <2>1, OpsAssumption DEF GoodDoc, IsSlot, Phases
  <2>3. req' = [req EXCEPT ![r] = q] /\ UNCHANGED <<doc, trail, now>> /\ req[r].pc = "idle"
    BY <1>3 DEF Arrive
  <2> HIDE DEF q
  <2>4. HoldsSigned(q) /\ ~WillSeal(req[r])
    BY <2>1, <2>2, <2>3 DEF HoldsSigned, WillSeal
  <2>. QED  BY <2>1, <2>2, <2>3, <2>4, OneSlot DEF IInv, TypeOK
<1>4. ASSUME NEW r \in Requests, ExpireWrite(r)
      PROVE  IInv'
  <2> DEFINE q == [req[r] EXCEPT !.pc = "expired", !.new = Blank]
  <2>1. GoodDoc(q.new) /\ IsSlot(q) /\ q.pc = "expired"
    BY CreatedGood DEF IInv, TypeOK, IsSlot, GoodDoc, Blank, Modes, Phases
  <2>2. /\ req' = [req EXCEPT ![r] = q] /\ UNCHANGED <<trail, now>>
        /\ GoodDoc(doc') /\ doc'.status # "signed"
    BY <1>4 DEF ExpireWrite, Goto, IInv, HoldsSigned
  <2> HIDE DEF q
  <2>3. HoldsSigned(q)
    BY <2>1 DEF HoldsSigned
  <2>. QED  BY <2>1, <2>2, <2>3, OneSlot DEF IInv, TypeOK
<1>5. ASSUME NEW r \in Requests, ExpireLog(r)
      PROVE  IInv'
  <2> DEFINE q == [req[r] EXCEPT !.pc = "read", !.new = Blank]
  <2>1. GoodDoc(q.new) /\ IsSlot(q) /\ q.pc = "read"
    BY CreatedGood DEF IInv, TypeOK, IsSlot, GoodDoc, Blank, Modes, Phases
  <2>2. req' = [req EXCEPT ![r] = q] /\ UNCHANGED <<doc, now>> /\ req[r].pc = "expired"
    BY <1>5 DEF ExpireLog, Goto
  <2>3. trail' \subseteq TrailEntries
    BY <1>5, EnterTyped DEF ExpireLog, EventTypes, IInv, TypeOK
  <2> HIDE DEF q
  <2>4. HoldsSigned(q) /\ ~WillSeal(req[r])
    BY <2>1, <2>2 DEF HoldsSigned, WillSeal
  <2>. QED  BY <2>1, <2>2, <2>3, <2>4, OneSlot DEF IInv, TypeOK
<1>6. ASSUME NEW r \in Requests, Read(r)
      PROVE  IInv'
  <2>0. /\ GoodDoc(doc) /\ IsDoc(doc) /\ req[r].pc = "read" /\ ~WillSeal(req[r])
        /\ GoodDoc(Blank) /\ Blank.status = "draft"
    BY <1>6, CreatedGood
       DEF IInv, GoodDoc, Read, ReadUpdate, ReadCancel, ReadUpload, ReadParticipants,
           ReadFields, ReadSend, ReadView, ReadSign, ReadReject, ReadGet, ReadDownload,
           ReadOnly, At, WillSeal, Blank, Created, Modes
  <2>1. CASE ReadUpdate(r)
    BY <2>0, <2>1, Proceeds, UpdatedGood, ClockAssumption
       DEF ReadUpdate, CanEdit, Editable
  <2>2. CASE ReadCancel(r)
    BY <2>0, <2>2, Proceeds, CancelledGood DEF ReadCancel
  <2>3. CASE ReadUpload(r)
    BY <2>0, <2>3, Proceeds, UploadedGood DEF ReadUpload, CanEdit, Editable
  <2>4. CASE ReadParticipants(r)
    BY <2>0, <2>4, Proceeds, WithPeopleGood DEF ReadParticipants, CanEdit, Editable
  <2>5. CASE ReadFields(r)
    BY <2>0, <2>5, Proceeds, WithFieldsGood DEF ReadFields, CanEdit, Editable
  <2>6. CASE ReadSend(r)
    BY <2>0, <2>6, Proceeds, SentGood DEF ReadSend, CanSend
  <2>7. CASE ReadView(r)
    <3>1. CASE IsParticipant(doc, req[r].by) /\ doc.st[Find(doc, req[r].by)] = "pending"
      BY <2>0, <2>7, <3>1, Proceeds, ViewedGood, FindFinds DEF ReadView
    <3>2. CASE ~(IsParticipant(doc, req[r].by) /\ doc.st[Find(doc, req[r].by)] = "pending")
      BY <2>0, <2>7, <3>2, Proceeds DEF ReadView
    <3>. QED  BY <3>1, <3>2
  <2>8. CASE ReadSign(r)
    <3>1. GoodDoc(SignedBy(doc, Find(doc, req[r].by)))
      BY <2>0, <2>8, SignedByGood, FindFinds DEF ReadSign, CanSign
    <3>. QED  BY <2>0, <2>8, <3>1, Proceeds DEF ReadSign, At
  <2>9. CASE ReadReject(r)
    <3>1. /\ GoodDoc(RejectedBy(doc, Find(doc, req[r].by)))
          /\ RejectedBy(doc, Find(doc, req[r].by)).status = "rejected"
      BY <2>0, <2>9, RejectedByGood, FindFinds DEF ReadReject, CanReject
    <3>. QED  BY <2>0, <2>9, <3>1, Proceeds DEF ReadReject
  <2>10. CASE ReadGet(r)
    BY <2>0, <2>10, Proceeds, LinkedGood DEF ReadGet
  <2>11. CASE ReadDownload(r)
    BY <2>0, <2>11, Proceeds DEF ReadDownload
  <2>12. CASE ReadOnly(r)
    BY <2>0, <2>12, Finishes DEF ReadOnly, IInv, TypeOK
  <2>. QED  BY <1>6, <2>1, <2>2, <2>3, <2>4, <2>5, <2>6, <2>7, <2>8, <2>9, <2>10,
               <2>11, <2>12 DEF Read
<1>7. ASSUME NEW r \in Requests, LogView(r)
      PROVE  IInv'
  <2> DEFINE q == [req[r] EXCEPT !.pc = "write"]
  <2>1. /\ IsSlot(req[r]) /\ GoodDoc(req[r].new) /\ HoldsSigned(req[r])
        /\ req[r].pc = "viewing"
    BY <1>7 DEF IInv, TypeOK, LogView
  <2>2. /\ IsSlot(q) /\ q.pc = "write" /\ q.op = req[r].op /\ q.new = req[r].new
    BY <2>1 DEF IsSlot, Phases
  <2>3. req' = [req EXCEPT ![r] = q] /\ UNCHANGED <<doc, now>>
    BY <1>7 DEF LogView
  <2>4. trail' \subseteq TrailEntries
    BY <1>7, <2>1, EnterTyped DEF LogView, EventTypes, IInv, TypeOK, IsSlot
  <2> HIDE DEF q
  <2>5. HoldsSigned(q) /\ ~WillSeal(req[r])
    BY <2>1, <2>2 DEF HoldsSigned, WillSeal
  <2>. QED  BY <2>1, <2>2, <2>3, <2>4, <2>5, OneSlot DEF IInv, TypeOK
<1>8. ASSUME NEW r \in Requests, Write(r)
      PROVE  IInv'
  <2>1. /\ IsSlot(req[r]) /\ GoodDoc(req[r].new) /\ HoldsSigned(req[r])
        /\ req[r].pc = "write" /\ doc' = req[r].new /\ UNCHANGED <<trail, now>>
        /\ ~WillSeal(req[r]) /\ trail' \subseteq TrailEntries /\ now' \in Nat
    BY <1>8 DEF IInv, TypeOK, Write, WillSeal
  <2>2. CASE req[r].op \in {"upload", "view", "get"}
    <3>1. doc'.status # "signed" /\ req' = [req EXCEPT ![r] = Idle]
      BY <1>8, <2>1, <2>2 DEF Write, Finish, HoldsSigned
    <3>. QED  BY <2>1, <3>1, IdleSlot, OneSlot
  <2>3. CASE req[r].op \notin {"upload", "view", "get"}
    <3> DEFINE q == [req[r] EXCEPT !.pc = "log"]
    <3>1. req' = [req EXCEPT ![r] = q]
      BY <1>8, <2>3 DEF Write
    <3>2. IsSlot(q) /\ q.pc = "log" /\ q.op = req[r].op /\ q.new = req[r].new
      BY <2>1 DEF IsSlot, Phases
    <3> HIDE DEF q
    <3>3. HoldsSigned(q) /\ (doc'.status = "signed" => WillSeal(q))
      BY <2>1, <3>2 DEF HoldsSigned, WillSeal
    <3>. QED  BY <2>1, <3>1, <3>2, <3>3, OneSlot
  <2>. QED  BY <2>2, <2>3
<1>9. ASSUME NEW r \in Requests, Log(r)
      PROVE  IInv'
  <2>1. /\ IsSlot(req[r]) /\ GoodDoc(req[r].new) /\ req[r].pc = "log"
        /\ UNCHANGED <<doc, now>>
    BY <1>9 DEF IInv, TypeOK, Log
  <2>2. EventOf(req[r].op) \in EventTypes
    BY DEF EventOf, EventTypes
  <2>3. trail' \subseteq TrailEntries
    BY <1>9, <2>1, <2>2, EnterTyped DEF Log, IInv, TypeOK, IsSlot
  <2>4. CASE AfterLog(r) = "idle"
    <3>1. Finish(r) /\ ~WillSeal(req[r])
      BY <1>9, <2>4 DEF Log, AfterLog, WillSeal
    <3>. QED  BY <2>1, <2>3, <3>1, Finishes
  <2>5. CASE AfterLog(r) # "idle"
    <3> DEFINE q == [req[r] EXCEPT !.pc = "finalize"]
    <3>1. /\ req' = [req EXCEPT ![r] = q]
          /\ req[r].op = "sign" /\ req[r].new.status = "signed"
      BY <1>9, <2>5 DEF Log, AfterLog
    <3>2. IsSlot(q) /\ q.pc = "finalize" /\ q.op = req[r].op /\ q.new = req[r].new
      BY <2>1 DEF IsSlot, Phases
    <3> HIDE DEF q
    <3>3. HoldsSigned(q) /\ WillSeal(q)
      BY <3>1, <3>2 DEF HoldsSigned, WillSeal
    <3>. QED  BY <2>1, <2>3, <3>1, <3>2, <3>3, OneSlot DEF IInv, TypeOK
  <2>. QED  BY <2>4, <2>5
<1>10. ASSUME NEW r \in Requests, Finalize(r)
       PROVE  IInv'
  <2> DEFINE c == Certified(req[r].new, trail)
             q == [req[r] EXCEPT !.pc = "seal", !.new = c]
  <2>1. /\ IsSlot(req[r]) /\ req[r].op = "sign" /\ UNCHANGED <<doc, trail, now>>
        /\ req' = [req EXCEPT ![r] = q]
        /\ GoodDoc(req[r].new) /\ req[r].new.status = "signed"
    BY <1>10 DEF IInv, TypeOK, Finalize, Goto, HoldsSigned
  <2>2. GoodDoc(c) /\ c.status = "signed" /\ c.cert.of.by # {}
    BY <2>1, CertifiedGood
  <2> HIDE DEF c
  <2>3. IsSlot(q) /\ q.pc = "seal" /\ q.op = "sign" /\ q.new = c
    BY <2>1, <2>2 DEF IsSlot, Phases, GoodDoc
  <2> HIDE DEF q
  <2>4. HoldsSigned(q) /\ WillSeal(q)
    BY <2>2, <2>3 DEF HoldsSigned, WillSeal
  <2>. QED  BY <2>1, <2>2, <2>3, <2>4, OneSlot DEF IInv, TypeOK
<1>11. ASSUME NEW r \in Requests, Seal(r)
       PROVE  IInv'
  <2> DEFINE q == [req[r] EXCEPT !.pc = "sealed"]
  <2>1. /\ IsSlot(req[r]) /\ req' = [req EXCEPT ![r] = q] /\ UNCHANGED <<trail, now>>
        /\ GoodDoc(req[r].new) /\ doc' = req[r].new /\ doc'.cert.of.by # {}
    BY <1>11 DEF IInv, TypeOK, Seal, HoldsSigned
  <2>2. IsSlot(q) /\ q.pc = "sealed" /\ q.new = req[r].new
    BY <2>1 DEF IsSlot, Phases
  <2> HIDE DEF q
  <2>3. HoldsSigned(q)
    BY <2>2 DEF HoldsSigned
  <2>. QED  BY <2>1, <2>2, <2>3, OneSlot DEF IInv, TypeOK
<1>12. ASSUME NEW r \in Requests, LogCompleted(r)
       PROVE  IInv'
  <2>1. trail' \subseteq TrailEntries
    BY <1>12, EnterTyped DEF LogCompleted, EventTypes, IInv, TypeOK
  <2>. QED  BY <1>12, <2>1, Finishes DEF LogCompleted, WillSeal
<1>13. ASSUME NEW r \in Requests, Fail(r)
       PROVE  IInv'
  BY <1>13, Finishes DEF Fail, IInv, TypeOK
<1>. QED  BY <1>1, <1>2, <1>3, <1>4, <1>5, <1>6, <1>7, <1>8, <1>9, <1>10, <1>11,
             <1>12, <1>13 DEF Next, Handle

-----------------------------------------------------------------------------
(* Theorems                                                                *)

(* The inductive invariant, for any number of overlapping requests, any    *)
(* lists, files and deadlines, and awaits that may raise.                  *)
THEOREM Invariance == Spec => []IInv
BY Starts, Steps, PTL DEF Spec

(* Stored documents and the copies in memory keep their types.             *)
THEOREM TypeCorrect == Spec => []TypeOK
<1>1. IInv => TypeOK
  BY DEF IInv
<1>. QED  BY <1>1, Invariance, PTL

(* A completed participant's stamp is on a stamping of the present PDF.    *)
THEOREM Stamps == Spec => []SignaturesStamped
<1>1. IInv => SignaturesStamped
  BY DEF IInv, GoodDoc, SignaturesStamped
<1>. QED  BY <1>1, Invariance, PTL

(* "signed" only when every participant of that document completed.        *)
THEOREM AllSigned == Spec => []SignedByAll
<1>1. IInv => SignedByAll
  BY DEF IInv, GoodDoc, SignedByAll
<1>. QED  BY <1>1, Invariance, PTL

(* Ordered signing is in order, across resends and rejections.             *)
THEOREM Ordered == Spec => []OrderKept
<1>1. IInv => OrderKept
  BY DEF IInv, GoodDoc, OrderKept
<1>. QED  BY <1>1, Invariance, PTL

(* The certificate describes the signed file, with everyone's stamp.       *)
THEOREM Certifies == Spec => []CertifiesFile
<1>1. IInv => CertifiesFile
  BY DEF IInv, GoodDoc, CertifiesFile
<1>. QED  BY <1>1, Invariance, PTL

(* What was sent has a PDF, participants and fields.                       *)
THEOREM CompleteWhenSent == Spec => []SentComplete
<1>1. IInv => SentComplete
  BY DEF IInv, GoodDoc, SentComplete
<1>. QED  BY <1>1, Invariance, PTL

(* While no await raises, "signed" means certified or about to be.         *)
THEOREM Sealed == Spec => []SignedGetsSealed
<1>1. IInv => SignedGetsSealed
  BY DEF IInv
<1>. QED  BY <1>1, Invariance, PTL

-----------------------------------------------------------------------------
(* One request at a time                                                   *)

(* What a lone request does to the certificate: it holds the one that is   *)
(* stored, or nothing is certified yet.                                    *)
HoldsCert(q) ==
    /\ q.pc \in {"expire", "viewing", "write"} /\ doc.cert.of.by # {}
         => q.new.cert = doc.cert /\ q.new.signed = doc.signed
    /\ q.pc \in {"viewing", "write"} /\ q.op = "sign"
         => doc.cert.of.by = {} /\ q.new.cert.of.by = {}
    /\ WillSeal(q) => doc.cert.of.by = {}

Alone == \A r \in Requests : HoldsCert(req[r])

(* What a read leaves in the slot keeps the certificate, unless none is    *)
(* stored.                                                                 *)
LEMMA KeepsCert ==
    ASSUME IInv, NEW r \in Requests, NEW pc \in {"viewing", "write", "log"},
           NEW d, Proceed(r, pc, d), req[r].pc = "read",
           pc # "log" /\ doc.cert.of.by # {} => d.cert = doc.cert /\ d.signed = doc.signed,
           pc # "log" /\ req[r].op = "sign" => doc.cert.of.by = {} /\ d.cert.of.by = {},
           pc = "log" => req[r].op # "sign"
    PROVE  HoldsCert(req[r])' /\ doc' = doc
<1>1. /\ req'[r].pc = pc /\ req'[r].new = d /\ req'[r].op = req[r].op
      /\ doc' = doc
  BY DEF Proceed, Goto, IInv, TypeOK, IsSlot
<1>. QED  BY <1>1 DEF HoldsCert, WillSeal

LEMMA AloneSteps ==
    ASSUME \A r, s \in Requests : r = s
    PROVE  IInv /\ Alone /\ [Next]_vars
             => Alone' /\ (doc.cert.of.by # {} =>
                             doc'.cert = doc.cert /\ doc'.signed = doc.signed)
<1> SUFFICES ASSUME IInv, Alone, [Next]_vars
             PROVE  Alone' /\ (doc.cert.of.by # {} =>
                                 doc'.cert = doc.cert /\ doc'.signed = doc.signed)
  OBVIOUS
<1> DEFINE Kept == doc.cert.of.by # {} => doc'.cert = doc.cert /\ doc'.signed = doc.signed
<1>1. CASE UNCHANGED vars \/ Tick
  BY <1>1 DEF vars, Tick, Alone, HoldsCert, WillSeal
<1>2. ASSUME NEW r \in Requests, NEW op \in Ops, NEW u \in Users, Arrive(r, op, u)
      PROVE  HoldsCert(req[r])' /\ Kept
  <2>1. /\ req'[r].pc \in {"expire", "read"} /\ doc' = doc
        /\ req'[r].pc = "expire" => req'[r].new = Expired(doc)
    BY <1>2 DEF Arrive, IInv, TypeOK
  <2>2. Expired(doc).cert = doc.cert /\ Expired(doc).signed = doc.signed
    BY DEF Expired, IInv, TypeOK, IsDoc, DocsOver
  <2>. QED  BY <2>1, <2>2 DEF HoldsCert, WillSeal
<1>3. ASSUME NEW r \in Requests,
             ExpireWrite(r) \/ ExpireLog(r) \/ LogView(r)
      PROVE  HoldsCert(req[r])' /\ Kept
  <2>1. HoldsCert(req[r]) /\ IsSlot(req[r]) /\ HoldsSigned(req[r])
    BY DEF Alone, IInv, TypeOK
  <2>2. CASE ExpireWrite(r) \/ ExpireLog(r)
    <3>1. req'[r].pc \in {"expired", "read"}
      BY <2>2 DEF ExpireWrite, ExpireLog, Goto, IInv, TypeOK, IsSlot
    <3>2. Kept
      BY <2>1, <2>2 DEF ExpireWrite, ExpireLog, HoldsCert
    <3>. QED  BY <3>1, <3>2 DEF HoldsCert, WillSeal
  <2>3. CASE LogView(r)
    <3>1. /\ req'[r].pc = "write" /\ req'[r].op = req[r].op
          /\ req'[r].new = req[r].new /\ doc' = doc /\ req[r].pc = "viewing"
      BY <2>1, <2>3 DEF LogView, IInv, TypeOK, IsSlot
    <3>. QED  BY <2>1, <3>1 DEF HoldsCert, WillSeal, HoldsSigned
  <2>. QED  BY <1>3, <2>2, <2>3
<1>4. ASSUME NEW r \in Requests, Read(r)
      PROVE  HoldsCert(req[r])' /\ Kept
  <2>1. GoodDoc(doc) /\ IsDoc(doc) /\ doc \in DocsOver(doc.people)
    BY DEF IInv, GoodDoc, IsDoc
  <2>2. doc.status \in Editable => doc.cert.of.by = {}
    BY <2>1 DEF GoodDoc, Untouched, NoCert, NoSigned
  <2>3. \A d :
          Proceed(r, "write", d) /\ req[r].pc = "read" /\ req[r].op # "sign"
            /\ (doc.cert.of.by # {} => d.cert = doc.cert /\ d.signed = doc.signed)
            => HoldsCert(req[r])' /\ Kept
    BY KeepsCert
  <2>4. CASE \/ ReadUpdate(r) \/ ReadUpload(r) \/ ReadParticipants(r) \/ ReadFields(r)
    <3>1. doc.cert.of.by = {} /\ req[r].pc = "read" /\ req[r].op # "sign"
      BY <2>2, <2>4
         DEF ReadUpdate, ReadUpload, ReadParticipants, ReadFields, CanEdit, At
    <3>2. PICK d : Proceed(r, "write", d)
      BY <2>4, Zenon DEF ReadUpdate, ReadUpload, ReadParticipants, ReadFields
    <3>3. HoldsCert(req[r])' /\ doc' = doc
      BY <3>1, <3>2, KeepsCert
    <3>. QED  BY <3>3
  <2>5. CASE ReadCancel(r)
    BY <2>1, <2>3, <2>5 DEF ReadCancel, Cancelled, DocsOver, At
  <2>6. CASE ReadSend(r)
    BY <2>1, <2>3, <2>6 DEF ReadSend, Sent, DocsOver, At
  <2>7. CASE ReadReject(r)
    <3>1. /\ RejectedBy(doc, Find(doc, req[r].by)).cert = doc.cert
          /\ RejectedBy(doc, Find(doc, req[r].by)).signed = doc.signed
      BY <2>1 DEF RejectedBy, DocsOver
    <3>. QED  BY <2>3, <2>7, <3>1 DEF ReadReject, At
  <2>8. CASE ReadGet(r)
    <3>1. /\ Linked(doc, req[r].by).cert = doc.cert
          /\ Linked(doc, req[r].by).signed = doc.signed
      BY <2>1 DEF Linked, DocsOver
    <3>. QED  BY <2>3, <2>8, <3>1 DEF ReadGet, At
  <2>9. CASE ReadView(r)
    <3>1. /\ Viewed(doc, Find(doc, req[r].by)).cert = doc.cert
          /\ Viewed(doc, Find(doc, req[r].by)).signed = doc.signed
      BY <2>1 DEF Viewed, DocsOver
    <3>2. req[r].op = "view" /\ req[r].pc = "read"
      BY <2>9 DEF ReadView, At
    <3>3. CASE Proceed(r, "viewing", Viewed(doc, Find(doc, req[r].by)))
      BY <3>1, <3>2, <3>3, KeepsCert
    <3>4. CASE Proceed(r, "log", Blank)
      BY <3>2, <3>4, KeepsCert
    <3>. QED  BY <2>9, <3>3, <3>4 DEF ReadView
  <2>10. CASE ReadSign(r)
    <3> DEFINE i == Find(doc, req[r].by)
    <3>1. GoodDoc(SignedBy(doc, i)) /\ SignedBy(doc, i).cert.of.by = {}
      BY <2>1, <2>10, SignedByGood, FindFinds DEF ReadSign, CanSign
    <3>2. i \in Index(doc) /\ doc.st[i] \in Waiting
      BY <2>1, <2>10, FindFinds DEF ReadSign, CanSign
    <3>3. doc.cert.of.by = {}
      BY <2>1, <3>2 DEF GoodDoc, CertFits
    <3>. QED  BY <2>10, <3>1, <3>3, KeepsCert DEF ReadSign, At
  <2>11. CASE ReadDownload(r)
    BY <2>11, KeepsCert DEF ReadDownload, At
  <2>12. CASE ReadOnly(r)
    BY <2>12 DEF ReadOnly, Finish, Idle, HoldsCert, WillSeal, IInv, TypeOK
  <2>. QED  BY <1>4, <2>4, <2>5, <2>6, <2>7, <2>8, <2>9, <2>10, <2>11, <2>12 DEF Read
<1>5. ASSUME NEW r \in Requests, Write(r)
      PROVE  HoldsCert(req[r])' /\ Kept
  <2>1. /\ HoldsCert(req[r]) /\ IsSlot(req[r]) /\ req[r].pc = "write"
        /\ doc' = req[r].new
    BY <1>5 DEF Alone, IInv, TypeOK, Write
  <2>2. CASE req[r].op \in {"upload", "view", "get"}
    BY <1>5, <2>1, <2>2 DEF Write, Finish, Idle, HoldsCert, WillSeal, IInv, TypeOK
  <2>3. CASE req[r].op \notin {"upload", "view", "get"}
    <3>1. req'[r].pc = "log" /\ req'[r].op = req[r].op
      BY <1>5, <2>1, <2>3 DEF Write, IInv, TypeOK, IsSlot
    <3>. QED  BY <2>1, <3>1 DEF HoldsCert, WillSeal
  <2>. QED  BY <2>2, <2>3
<1>6. ASSUME NEW r \in Requests, Log(r) \/ Finalize(r)
      PROVE  HoldsCert(req[r])' /\ Kept
  <2>1. HoldsCert(req[r]) /\ HoldsSigned(req[r]) /\ IsSlot(req[r]) /\ doc' = doc
    BY <1>6 DEF Alone, IInv, TypeOK, Log, Finalize
  <2>2. CASE Log(r) /\ AfterLog(r) = "idle"
    BY <2>1, <2>2 DEF Log, Finish, Idle, HoldsCert, WillSeal, IInv, TypeOK
  <2>3. CASE Log(r) /\ AfterLog(r) # "idle"
    <3>1. req'[r].pc = "finalize" /\ WillSeal(req[r])
      BY <2>1, <2>3 DEF Log, AfterLog, WillSeal, IInv, TypeOK, IsSlot
    <3>. QED  BY <2>1, <3>1 DEF HoldsCert
  <2>4. CASE Finalize(r)
    <3>1. req'[r].pc = "seal" /\ WillSeal(req[r])
      BY <2>1, <2>4 DEF Finalize, Goto, HoldsSigned, WillSeal, IInv, TypeOK, IsSlot
    <3>. QED  BY <2>1, <3>1 DEF HoldsCert
  <2>. QED  BY <1>6, <2>2, <2>3, <2>4
<1>7. ASSUME NEW r \in Requests, Seal(r)
      PROVE  HoldsCert(req[r])' /\ Kept
  <2>1. /\ HoldsCert(req[r]) /\ HoldsSigned(req[r]) /\ IsSlot(req[r])
        /\ req[r].pc = "seal" /\ req'[r].pc = "sealed"
    BY <1>7 DEF Alone, IInv, TypeOK, IsSlot, Seal
  <2>. QED  BY <2>1 DEF HoldsCert, HoldsSigned, WillSeal
<1>8. ASSUME NEW r \in Requests, LogCompleted(r) \/ Fail(r)
      PROVE  HoldsCert(req[r])' /\ Kept
  BY <1>8 DEF LogCompleted, Fail, Finish, Idle, HoldsCert, WillSeal, IInv, TypeOK
<1>9. ASSUME NEW r \in Requests, HoldsCert(req[r])' /\ Kept
      PROVE  Alone' /\ Kept
  BY <1>9 DEF Alone
<1>. QED  BY <1>1, <1>2, <1>3, <1>4, <1>5, <1>6, <1>7, <1>8, <1>9 DEF Next, Handle

(* With one request at a time, even when awaits raise, a certified         *)
(* agreement keeps its signed file and its certificate for good.           *)
THEOREM SealStays ==
    ASSUME \A r, s \in Requests : r = s
    PROVE  Spec => SealKept
<1>1. Init => Alone
  BY DEF Init, Alone, Idle, HoldsCert, WillSeal
<1>2. IInv /\ Alone /\ [Next]_vars
        => Alone' /\ [doc.cert.of.by # {} =>
                        doc'.cert = doc.cert /\ doc'.signed = doc.signed]_vars
  BY AloneSteps
<1>. QED  BY <1>1, <1>2, Invariance, PTL DEF Spec, SealKept

-----------------------------------------------------------------------------
(* The trail, one request at a time                                        *)

(* User u acted on d: an entry of u is completed or rejected.              *)
Acted == {"completed", "rejected"}

Backs(d, u) == \E i \in Index(d) : d.people[i].who = u /\ d.st[i] \in Acted

(* What a lone request will store forgets nobody who acted, and a signing  *)
(* request logs only once its signature is stored.                         *)
HoldsActs(q) ==
    /\ \/ q.pc \in {"expire", "viewing", "write", "finalize", "seal"}
       \/ q.pc = "log" /\ q.op = "sign"
       => \A u \in Users : Backs(doc, u) => Backs(q.new, u)
    /\ q.pc = "write" /\ q.op = "sign" => Backs(q.new, q.by)
    /\ q.pc = "log" /\ q.op = "sign" => Backs(doc, q.by)
    /\ q.pc = "viewing" => q.op # "sign"

TInv == TrailHonest /\ \A r \in Requests : HoldsActs(req[r])

(* A change of a document that keeps its people and whoever acted.         *)
LEMMA KeepsActs ==
    ASSUME NEW d, NEW e, e.people = d.people,
           \A j \in Index(d) : d.st[j] \in Acted => e.st[j] \in Acted
    PROVE  \A u \in Users : Backs(d, u) => Backs(e, u)
BY DEF Backs, Index

(* The changes that touch no entry's status.                               *)
LEMMA StatusesKept ==
    ASSUME NEW d, IsDoc(d), NEW m, NEW dl, NEW p, NEW u, NEW entries, NEW some,
           NEW e \in {Expired(d), Updated(d, m, dl), Cancelled(d), Uploaded(d, p),
                      WithFields(d, some), Sent(d), Linked(d, u),
                      Certified(d, entries)}
    PROVE  \A v \in Users : Backs(d, v) => Backs(e, v)
<1>1. e.people = d.people /\ e.st = d.st
  BY DEF IsDoc, DocsOver, Expired, Updated, Cancelled, Uploaded, WithFields, Sent,
         Linked, Certified
<1>. QED  BY <1>1, KeepsActs

(* The changes of one entry, none of which lets one who acted wait again.  *)
LEMMA EntryChanged ==
    ASSUME NEW d, IsDoc(d), NEW i \in Index(d)
    PROVE  /\ d.st[i] \in Waiting =>
                \A v \in Users : Backs(d, v) => Backs(Viewed(d, i), v)
           /\ \A v \in Users : Backs(d, v) => Backs(SignedBy(d, i), v)
           /\ \A v \in Users : Backs(d, v) => Backs(RejectedBy(d, i), v)
           /\ Backs(SignedBy(d, i), d.people[i].who)
<1>1. /\ Viewed(d, i).people = d.people /\ Viewed(d, i).st = [d.st EXCEPT ![i] = "viewed"]
      /\ SignedBy(d, i).people = d.people
      /\ SignedBy(d, i).st = [d.st EXCEPT ![i] = "completed"]
      /\ RejectedBy(d, i).people = d.people
      /\ RejectedBy(d, i).st = [d.st EXCEPT ![i] = "rejected"]
  BY DEF IsDoc, DocsOver, Viewed, SignedBy, RejectedBy
<1>2. d.st \in [Index(d) -> PStatuses]
  BY DEF IsDoc, DocsOver, Index
<1>3. ASSUME d.st[i] \in Waiting
      PROVE  \A j \in Index(d) : d.st[j] \in Acted => Viewed(d, i).st[j] \in Acted
  BY <1>1, <1>2, <1>3 DEF Acted, Waiting
<1>4. \A j \in Index(d) : d.st[j] \in Acted => SignedBy(d, i).st[j] \in Acted
  BY <1>1, <1>2 DEF Acted
<1>5. \A j \in Index(d) : d.st[j] \in Acted => RejectedBy(d, i).st[j] \in Acted
  BY <1>1, <1>2 DEF Acted
<1>6. Backs(SignedBy(d, i), d.people[i].who)
  BY <1>1, <1>2 DEF Backs, Index, Acted
<1>. QED  BY <1>1, <1>3, <1>4, <1>5, <1>6, KeepsActs

(* In an editable document nobody acted.                                   *)
LEMMA NobodyActed ==
    ASSUME NEW d, GoodDoc(d), d.status \in Editable
    PROVE  \A u : ~Backs(d, u)
BY DEF GoodDoc, Untouched, Backs, Acted, Waiting

(* A lone request goes on, and neither the document nor the trail's        *)
(* signatures change.                                                      *)
LEMMA ActsKept ==
    ASSUME IInv, TInv, NEW r \in Requests, \A s \in Requests : s = r,
           doc' = doc, HoldsActs(req[r])',
           \A u \in Users : [type |-> "signed", by |-> u] \in trail'
             => [type |-> "signed", by |-> u] \in trail \/ Backs(doc, u)
    PROVE  TInv'
BY DEF TInv, TrailHonest, Backs, Acted, Index

(* It reads, and holds a copy that forgets nobody.                         *)
LEMMA ReadsActs ==
    ASSUME IInv, TInv, NEW r \in Requests, \A s \in Requests : s = r,
           NEW pc \in {"viewing", "write", "log"}, NEW d,
           Proceed(r, pc, d),
           pc # "write" => req[r].op # "sign",
           pc # "log" => \A u \in Users : Backs(doc, u) => Backs(d, u),
           pc = "write" /\ req[r].op = "sign" => Backs(d, req[r].by)
    PROVE  TInv'
<1>1. /\ req'[r].pc = pc /\ req'[r].new = d /\ req'[r].op = req[r].op
      /\ req'[r].by = req[r].by /\ doc' = doc /\ trail' = trail
  BY DEF Proceed, Goto, IInv, TypeOK, IsSlot
<1>2. HoldsActs(req[r])'
  BY <1>1 DEF HoldsActs, Backs, Index
<1>. QED  BY <1>1, <1>2, ActsKept

(* Only a signing request enters a signature in the trail.                 *)
LEMMA EnterOther ==
    ASSUME NEW type, NEW by, Enter(type, by), type # "signed", NEW u,
           [type |-> "signed", by |-> u] \in trail'
    PROVE  [type |-> "signed", by |-> u] \in trail
BY DEF Enter

LEMMA EnterSigned ==
    ASSUME NEW by, Enter("signed", by), NEW u,
           [type |-> "signed", by |-> u] \in trail'
    PROVE  [type |-> "signed", by |-> u] \in trail \/ u = by
BY DEF Enter

LEMMA ActsRead ==
    ASSUME IInv, TInv, NEW r \in Requests, \A s \in Requests : s = r, Read(r)
    PROVE  TInv'
<1>1. GoodDoc(doc) /\ IsDoc(doc)
  BY DEF IInv, GoodDoc
<1>2. ASSUME NEW d, Proceed(r, "write", d), req[r].op # "sign",
             \A u \in Users : Backs(doc, u) => Backs(d, u)
      PROVE  TInv'
  BY <1>2, ReadsActs
<1>3. CASE \/ ReadUpdate(r) \/ ReadUpload(r) \/ ReadParticipants(r) \/ ReadFields(r)
  <2>1. doc.status \in Editable /\ req[r].op # "sign"
    BY <1>3 DEF ReadUpdate, ReadUpload, ReadParticipants, ReadFields, CanEdit, At
  <2>2. PICK d : Proceed(r, "write", d)
    BY <1>3, Zenon DEF ReadUpdate, ReadUpload, ReadParticipants, ReadFields
  <2>3. \A u \in Users : Backs(doc, u) => Backs(d, u)
    BY <1>1, <2>1, NobodyActed
  <2>. QED  BY <1>2, <2>1, <2>2, <2>3
<1>4. CASE ReadCancel(r)
  <2>1. \A u \in Users : Backs(doc, u) => Backs(Cancelled(doc), u)
    BY <1>1, StatusesKept
  <2>. QED  BY <1>2, <1>4, <2>1 DEF ReadCancel, At
<1>5. CASE ReadSend(r)
  <2>1. \A u \in Users : Backs(doc, u) => Backs(Sent(doc), u)
    BY <1>1, StatusesKept
  <2>. QED  BY <1>2, <1>5, <2>1 DEF ReadSend, At
<1>6. CASE ReadGet(r)
  <2>1. \A u \in Users : Backs(doc, u) => Backs(Linked(doc, req[r].by), u)
    BY <1>1, StatusesKept
  <2>. QED  BY <1>2, <1>6, <2>1 DEF ReadGet, At
<1>7. CASE ReadReject(r)
  <2>1. \A u \in Users : Backs(doc, u) => Backs(RejectedBy(doc, Find(doc, req[r].by)), u)
    BY <1>1, <1>7, FindFinds, EntryChanged DEF ReadReject, CanReject
  <2>. QED  BY <1>2, <1>7, <2>1 DEF ReadReject, At
<1>8. CASE ReadSign(r)
  <2> DEFINE d == SignedBy(doc, Find(doc, req[r].by))
  <2>1. /\ \A u \in Users : Backs(doc, u) => Backs(d, u)
        /\ Backs(d, req[r].by)
    BY <1>1, <1>8, FindFinds, EntryChanged DEF ReadSign, CanSign
  <2>2. Proceed(r, "write", d)
    BY <1>8 DEF ReadSign
  <2> HIDE DEF d
  <2>. QED  BY <2>1, <2>2, ReadsActs
<1>9. CASE ReadView(r)
  <2>1. req[r].op = "view"
    BY <1>9 DEF ReadView, At
  <2>2. CASE IsParticipant(doc, req[r].by) /\ doc.st[Find(doc, req[r].by)] = "pending"
    <3> DEFINE d == Viewed(doc, Find(doc, req[r].by))
    <3>1. \A u \in Users : Backs(doc, u) => Backs(d, u)
      BY <1>1, <2>2, FindFinds, EntryChanged DEF Waiting
    <3>2. Proceed(r, "viewing", d)
      BY <1>9, <2>2 DEF ReadView
    <3> HIDE DEF d
    <3>. QED  BY <2>1, <3>1, <3>2, ReadsActs
  <2>3. CASE Proceed(r, "log", Blank)
    BY <2>1, <2>3, ReadsActs
  <2>. QED  BY <1>9, <2>2, <2>3 DEF ReadView
<1>10. CASE ReadDownload(r)
  BY <1>10, ReadsActs DEF ReadDownload, At
<1>11. CASE ReadOnly(r)
  <2>1. doc' = doc /\ trail' = trail /\ HoldsActs(req[r])'
    BY <1>11 DEF ReadOnly, Finish, Idle, HoldsActs, IInv, TypeOK
  <2>. QED  BY <2>1, ActsKept
<1>. QED  BY <1>3, <1>4, <1>5, <1>6, <1>7, <1>8, <1>9, <1>10, <1>11 DEF Read

(* It stores its copy, which forgets nobody.                               *)
LEMMA ActsStored ==
    ASSUME IInv, TInv, NEW r \in Requests, \A s \in Requests : s = r,
           doc' = req[r].new, trail' = trail,
           \A u \in Users : Backs(doc, u) => Backs(req[r].new, u),
           HoldsActs(req[r])'
    PROVE  TInv'
BY DEF TInv, TrailHonest, Backs, Acted, Index

LEMMA ActsSteps ==
    ASSUME \A r, s \in Requests : r = s
    PROVE  IInv /\ TInv /\ [Next]_vars => TInv'
<1> SUFFICES ASSUME IInv, TInv, [Next]_vars
             PROVE  TInv'
  OBVIOUS
<1>1. CASE UNCHANGED vars \/ Tick
  BY <1>1 DEF vars, Tick, TInv, TrailHonest, HoldsActs, Backs, Index
<1>2. ASSUME NEW r \in Requests, NEW op \in Ops, NEW u \in Users, Arrive(r, op, u)
      PROVE  TInv'
  <2>1. /\ req'[r].pc \in {"expire", "read"} /\ doc' = doc /\ trail' = trail
        /\ req'[r].pc = "expire" => req'[r].new = Expired(doc)
    BY <1>2 DEF Arrive, IInv, TypeOK
  <2>2. \A v \in Users : Backs(doc, v) => Backs(Expired(doc), v)
    BY StatusesKept DEF IInv, TypeOK
  <2>3. HoldsActs(req[r])'
    BY <2>1, <2>2 DEF HoldsActs, Backs, Index
  <2>. QED  BY <2>1, <2>3, ActsKept
<1>3. ASSUME NEW r \in Requests, ExpireWrite(r)
      PROVE  TInv'
  <2>1. /\ req'[r].pc = "expired" /\ doc' = req[r].new /\ trail' = trail
        /\ \A u \in Users : Backs(doc, u) => Backs(req[r].new, u)
    BY <1>3 DEF ExpireWrite, Goto, IInv, TypeOK, IsSlot, TInv, HoldsActs
  <2>2. HoldsActs(req[r])'
    BY <2>1 DEF HoldsActs
  <2>. QED  BY <2>1, <2>2, ActsStored
<1>4. ASSUME NEW r \in Requests, ExpireLog(r) \/ LogView(r)
      PROVE  TInv'
  <2>1. doc' = doc /\ IsSlot(req[r]) /\ HoldsActs(req[r]) /\ HoldsSigned(req[r])
    BY <1>4 DEF ExpireLog, LogView, IInv, TypeOK, TInv
  <2>2. \A u : [type |-> "signed", by |-> u] \in trail'
                => [type |-> "signed", by |-> u] \in trail
    BY <1>4, EnterOther DEF ExpireLog, LogView
  <2>3. CASE ExpireLog(r)
    <3>1. req'[r].pc = "read"
      BY <2>1, <2>3 DEF ExpireLog, Goto, IInv, TypeOK, IsSlot
    <3>2. HoldsActs(req[r])'
      BY <3>1 DEF HoldsActs
    <3>. QED  BY <2>1, <2>2, <3>2, ActsKept
  <2>4. CASE LogView(r)
    <3>1. /\ req'[r].pc = "write" /\ req'[r].op = req[r].op
          /\ req'[r].new = req[r].new /\ req[r].pc = "viewing"
      BY <2>1, <2>4 DEF LogView, IInv, TypeOK, IsSlot
    <3>2. req[r].op # "sign"
      BY <2>1, <3>1 DEF HoldsActs
    <3>3. HoldsActs(req[r])'
      BY <2>1, <3>1, <3>2 DEF HoldsActs, Backs, Index
    <3>. QED  BY <2>1, <2>2, <3>3, ActsKept
  <2>. QED  BY <1>4, <2>3, <2>4
<1>5. ASSUME NEW r \in Requests, Write(r)
      PROVE  TInv'
  <2>1. /\ IsSlot(req[r]) /\ HoldsActs(req[r]) /\ req[r].pc = "write"
        /\ doc' = req[r].new /\ trail' = trail
        /\ \A u \in Users : Backs(doc, u) => Backs(req[r].new, u)
    BY <1>5 DEF Write, IInv, TypeOK, TInv, HoldsActs
  <2>2. CASE req[r].op \in {"upload", "view", "get"}
    <3>1. HoldsActs(req[r])'
      BY <1>5, <2>2 DEF Write, Finish, Idle, HoldsActs, IInv, TypeOK
    <3>. QED  BY <2>1, <3>1, ActsStored
  <2>3. CASE req[r].op \notin {"upload", "view", "get"}
    <3>1. /\ req'[r].pc = "log" /\ req'[r].op = req[r].op
          /\ req'[r].new = doc' /\ req'[r].by = req[r].by
      BY <1>5, <2>1, <2>3 DEF Write, IInv, TypeOK, IsSlot
    <3>2. req[r].op = "sign" => Backs(doc', req[r].by)
      BY <2>1 DEF HoldsActs
    <3>3. HoldsActs(req[r])'
      BY <3>1, <3>2 DEF HoldsActs, Backs, Index
    <3>. QED  BY <2>1, <3>3, ActsStored
  <2>. QED  BY <2>2, <2>3
<1>6. ASSUME NEW r \in Requests, Log(r)
      PROVE  TInv'
  <2>1. /\ IsSlot(req[r]) /\ HoldsActs(req[r]) /\ req[r].pc = "log" /\ doc' = doc
        /\ Enter(EventOf(req[r].op), req[r].by)
    BY <1>6 DEF Log, IInv, TypeOK, TInv
  <2>2. \A u \in Users : [type |-> "signed", by |-> u] \in trail'
          => [type |-> "signed", by |-> u] \in trail \/ Backs(doc, u)
    <3>1. CASE req[r].op = "sign"
      <4>1. Enter("signed", req[r].by) /\ Backs(doc, req[r].by)
        BY <2>1, <3>1 DEF EventOf, HoldsActs
      <4>. QED  BY <4>1, EnterSigned
    <3>2. CASE req[r].op # "sign"
      <4>1. EventOf(req[r].op) # "signed"
        BY <3>2 DEF EventOf
      <4>. QED  BY <2>1, <4>1, EnterOther
    <3>. QED  BY <3>1, <3>2
  <2>3. CASE AfterLog(r) = "idle"
    <3>1. HoldsActs(req[r])'
      BY <1>6, <2>3 DEF Log, Finish, Idle, HoldsActs, IInv, TypeOK
    <3>. QED  BY <2>1, <2>2, <3>1, ActsKept
  <2>4. CASE AfterLog(r) # "idle"
    <3>1. /\ req'[r].pc = "finalize" /\ req'[r].new = req[r].new
          /\ req[r].op = "sign"
      BY <1>6, <2>1, <2>4 DEF Log, AfterLog, IInv, TypeOK, IsSlot
    <3>2. HoldsActs(req[r])'
      BY <2>1, <3>1 DEF HoldsActs, Backs, Index
    <3>. QED  BY <2>1, <2>2, <3>2, ActsKept
  <2>. QED  BY <2>3, <2>4
<1>7. ASSUME NEW r \in Requests, Finalize(r)
      PROVE  TInv'
  <2>1. /\ IsSlot(req[r]) /\ HoldsActs(req[r]) /\ req[r].pc = "finalize"
        /\ doc' = doc /\ trail' = trail
        /\ req'[r].pc = "seal" /\ req'[r].new = Certified(req[r].new, trail)
    BY <1>7 DEF Finalize, Goto, IInv, TypeOK, IsSlot, TInv
  <2>2. IsDoc(req[r].new)
    BY <2>1 DEF IsSlot
  <2>3. \A u \in Users : Backs(req[r].new, u) => Backs(Certified(req[r].new, trail), u)
    BY <2>2, StatusesKept
  <2>4. \A u \in Users : Backs(doc, u) => Backs(req[r].new, u)
    BY <2>1 DEF HoldsActs
  <2>5. HoldsActs(req[r])'
    BY <2>1, <2>3, <2>4 DEF HoldsActs, Backs, Index
  <2>. QED  BY <2>1, <2>5, ActsKept
<1>8. ASSUME NEW r \in Requests, Seal(r)
      PROVE  TInv'
  <2>1. /\ req'[r].pc = "sealed" /\ doc' = req[r].new /\ trail' = trail
        /\ \A u \in Users : Backs(doc, u) => Backs(req[r].new, u)
    BY <1>8 DEF Seal, IInv, TypeOK, IsSlot, TInv, HoldsActs
  <2>2. HoldsActs(req[r])'
    BY <2>1 DEF HoldsActs
  <2>. QED  BY <2>1, <2>2, ActsStored
<1>9. ASSUME NEW r \in Requests, LogCompleted(r) \/ Fail(r)
      PROVE  TInv'
  <2>1. doc' = doc /\ HoldsActs(req[r])'
    BY <1>9 DEF LogCompleted, Fail, Finish, Idle, HoldsActs, IInv, TypeOK
  <2>2. \A u : [type |-> "signed", by |-> u] \in trail'
                => [type |-> "signed", by |-> u] \in trail
    BY <1>9, EnterOther DEF LogCompleted, Fail
  <2>. QED  BY <2>1, <2>2, ActsKept
<1>10. ASSUME NEW r \in Requests, Read(r)
       PROVE  TInv'
  BY <1>10, ActsRead
<1>. QED  BY <1>1, <1>2, <1>3, <1>4, <1>5, <1>6, <1>7, <1>8, <1>9, <1>10 DEF Next, Handle

(* With one request at a time, even when awaits raise, a signature in the  *)
(* trail is backed by a stored one: sign stores before it logs, and no     *)
(* later request takes back that the participant acted.                    *)
THEOREM TrailStaysHonest ==
    ASSUME \A r, s \in Requests : r = s
    PROVE  Spec => []TrailHonest
<1>1. Init => TInv
  BY DEF Init, TInv, TrailHonest, Idle, HoldsActs
<1>2. TInv => TrailHonest
  BY DEF TInv
<1>. QED  BY <1>1, <1>2, ActsSteps, Invariance, PTL DEF Spec

=============================================================================
