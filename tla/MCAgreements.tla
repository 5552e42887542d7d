---------------------------- MODULE MCAgreements ----------------------------
(* Small instances of Agreements for TLC.                                  *)
EXTENDS Agreements, TLC

CONSTANTS o, a, b       \* the owner and two signatories
CONSTANTS r1, r2        \* request slots

Entry(u, k, known) == [who |-> u, order |-> k, linked |-> known]

(* Submitted with the second signatory first: list order and order_index   *)
(* disagree.                                                               *)
TwoLists    == {<<Entry(b, 1, TRUE), Entry(a, 0, TRUE)>>}
(* b has no account when the list is stored.                               *)
UnlinkedLists == {<<Entry(a, 0, TRUE), Entry(b, 1, FALSE)>>}
(* The owner is a party of the minuta.                                     *)
TwoMinutas  == {<<Entry(o, 0, TRUE), Entry(a, 1, TRUE)>>}
NoMinutas   == {}

RequestSymmetry == Permutations(Requests)

(***************************************************************************)
(* Signing under fairness                                                  *)
(***************************************************************************)

(* The document the owner's calls create, upload_pdf, update_participants, *)
(* update_fields and send leave behind when nobody interferes.             *)
SentAgreement(m, l, p) ==
    Sent(WithFields(WithPeople(Uploaded(Created(m, 0), p), l, m), TRUE))

(* The event loop runs every started handler to its end, and a signatory   *)
(* whose signature is still due tries again until it is there.             *)
SigningSpec ==
    /\ \E m \in Modes, l \in Lists, p \in Pdfs : doc = SentAgreement(m, l, p)
    /\ trail = {}
    /\ req = [r \in Requests |-> Idle]
    /\ now = 0
    /\ [][Next]_vars
    /\ \A r \in Requests : WF_vars(Handle(r))
    /\ \A u \in Users :
         SF_vars(CanSign(doc, u) /\ \E r \in Requests : Arrive(r, "sign", u))

(* When every signatory keeps trying and no await raises, the agreement    *)
(* ends signed and certified and stays so, although overlapping requests   *)
(* of the signatories overwrite each other's signatures on the way.        *)
EndsSealed == <>[](doc.status = "signed" /\ doc.cert.of.by # {})

=============================================================================
