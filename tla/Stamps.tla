-------------------------------- MODULE Stamps --------------------------------
(***************************************************************************)
(* The visual signatures and rubrics of the members, which their agreements*)
(* carry (src/modules/visual_signatures): drawn by hand or made from the   *)
(* name and a font, each confirmed once and never changed, with the trail  *)
(* of what became of it.                                                   *)
(*                                                                         *)
(* A drawing is what its file holds: intact, or altered in the storage.    *)
(* Drawing itself, and the encryption of the text, are left out.           *)
(***************************************************************************)
EXTENDS Handlers, Naturals, Sequences

CONSTANTS
    Signers,     \* the members
    Fonts,       \* the fonts of what is made from a name
    StampMoves   \* bound on the requests made

ASSUME StampMovesAssumption == StampMoves \in Nat

VARIABLES
    stamps,  \* the collection of visual signatures
    files,   \* the stored images, in the order of their upload
    trail,   \* the collection of their events, in the order of insertion
    met,     \* history: the altered images that somebody was refused
    sreq,    \* where each request is
    smoves   \* requests made so far

svars == <<overlap, faults, stamps, files, trail, met, sreq, smoves>>
skept == <<overlap, faults, smoves>>

StampKinds == {"signature", "initials"}
ByHand     == <<>>     \* no combination: drawn by hand

(***************************************************************************)
(* Names and what is made of them (initials.py, uniqueness.py)             *)
(***************************************************************************)

Word(text, letter)     == [text |-> text, letter |-> letter, particle |-> FALSE]
Particle(text, letter) == [text |-> text, letter |-> letter, particle |-> TRUE]

(* Two full names that share the initials of one and those of the other    *)
(* without its particle, and one that is nothing but a particle.           *)
Names == {<<Word("Ana", "A"), Particle("da", "D"), Word("Silva", "S")>>,
          <<Word("Alan", "A"), Word("Souza", "S")>>,
          <<Particle("Do", "D")>>}

Variants == {"all_initials", "significant_initials", "first_name"}

Letters(words) == [i \in DOMAIN words |-> words[i].letter]

(* resolve_initials_text: a variant that leaves nothing is refused.        *)
InitialsText(name, variant) ==
    CASE variant = "all_initials"         -> Letters(name)
      [] variant = "significant_initials" ->
            Letters(SelectSeq(name, LAMBDA w : ~w.particle))
      [] variant = "first_name"           -> <<name[1].text>>

SourceText(name, kind, variant) ==
    IF kind = "signature" THEN [i \in DOMAIN name |-> name[i].text]
                          ELSE InitialsText(name, variant)

(* uniqueness_hmac, as what it is made of.                                 *)
Combo(kind, text, font) == <<kind, text, font>>

Combos == {Combo(k, SourceText(n, k, v), f) :
             k \in StampKinds, n \in Names, v \in Variants, f \in Fonts}

Keys      == Nat \ {0}
StampDocs == [user : Signers, kind : StampKinds, combo : Combos \cup {ByHand}, key : Keys]
Happened  == {"created", "used_in_agreement", "integrity_failed"}

ConfirmWork == [at : {"check kind", "check combo", "upload"}, user : Signers,
                kind : StampKinds, combo : Combos \cup {ByHand}]
PersistWork == [at : {"insert", "tell creation"}, doc : StampDocs]
UseWork     == [at : {"load", "tell use"}, doc : StampDocs, agreement : BOOLEAN]
FailureWork == [at : {"tell failure"}, doc : StampDocs]

StampRequests ==
    {Idle} \cup ConfirmWork \cup PersistWork \cup UseWork \cup FailureWork

TypeOKStamps ==
    /\ stamps \subseteq StampDocs
    /\ files \in Seq({"intact", "altered"})
    /\ trail \in Seq([key : Keys, what : Happened])
    /\ met \subseteq Keys
    /\ sreq \in [Requests -> StampRequests]
    /\ smoves \in 0 .. StampMoves

StampsInit ==
    /\ HandlersInit
    /\ stamps = {}
    /\ files = <<>>
    /\ trail = <<>>
    /\ met = {}
    /\ sreq = [r \in Requests |-> Idle]
    /\ smoves = 0

StartStamp(r) ==
    /\ MayStart(sreq, r)
    /\ smoves < StampMoves
    /\ smoves' = smoves + 1

StampGoes(r, q, at) == Goes(sreq, r, [q EXCEPT !.at = at])

Log(r, what) ==
    trail' = Append(trail, [key |-> sreq[r].doc.key, what |-> what])

InTrail(key, what) == \E i \in DOMAIN trail : trail[i] = [key |-> key, what |-> what]

(***************************************************************************)
(* Confirmation                                                            *)
(***************************************************************************)

(* confirm_automatic, for the name that the member has at that moment.     *)
ConfirmAutomatic(r, u) ==
    /\ StartStamp(r)
    /\ \E k \in StampKinds, n \in Names, v \in Variants, f \in Fonts :
         /\ SourceText(n, k, v) # <<>>
         /\ Goes(sreq, r, [at |-> "check kind", user |-> u, kind |-> k,
                           combo |-> Combo(k, SourceText(n, k, v), f)])
    /\ UNCHANGED <<overlap, faults, stamps, files, trail, met>>

ConfirmManual(r, u) ==
    /\ StartStamp(r)
    /\ \E k \in StampKinds :
         Goes(sreq, r, [at |-> "check kind", user |-> u, kind |-> k, combo |-> ByHand])
    /\ UNCHANGED <<overlap, faults, stamps, files, trail, met>>

HasKind(u, k) == \E s \in stamps : s.user = u /\ s.kind = k
Taken(combo)  == combo # ByHand /\ \E s \in stamps : s.combo = combo

(* _ensure_kind_available.                                                 *)
CheckKind(r) ==
    LET q == sreq[r] IN
    /\ q.at = "check kind"
    /\ IF HasKind(q.user, q.kind) THEN Ends(sreq, r)
       ELSE StampGoes(r, q, IF q.combo = ByHand THEN "upload" ELSE "check combo")
    /\ UNCHANGED <<skept, stamps, files, trail, met>>

CheckCombo(r) ==
    LET q == sreq[r] IN
    /\ q.at = "check combo"
    /\ IF Taken(q.combo) THEN Ends(sreq, r) ELSE StampGoes(r, q, "upload")
    /\ UNCHANGED <<skept, stamps, files, trail, met>>

(* _persist: the image under a key of its own, the document, its event.    *)
UploadImage(r) ==
    LET q == sreq[r] IN
    /\ q.at = "upload"
    /\ files' = Append(files, "intact")
    /\ Goes(sreq, r, [at |-> "insert",
                      doc |-> [user |-> q.user, kind |-> q.kind, combo |-> q.combo,
                               key |-> Len(files) + 1]])
    /\ UNCHANGED <<skept, stamps, trail, met>>

InsertStamp_OneIndex(r) ==
    LET d == sreq[r].doc IN
    /\ sreq[r].at = "insert"
    /\ IF HasKind(d.user, d.kind)
         THEN Ends(sreq, r) /\ UNCHANGED stamps
         ELSE /\ stamps' = stamps \cup {d}
              /\ StampGoes(r, sreq[r], "tell creation")
    /\ UNCHANGED <<skept, files, trail, met>>

(* Two unique indexes: one of each kind for a member, and one of each      *)
(* combination that was made and not drawn.                                *)
InsertStamp(r) ==
    LET d == sreq[r].doc IN
    /\ sreq[r].at = "insert"
    /\ IF HasKind(d.user, d.kind) \/ Taken(d.combo)
         THEN Ends(sreq, r) /\ UNCHANGED stamps
         ELSE /\ stamps' = stamps \cup {d}
              /\ StampGoes(r, sreq[r], "tell creation")
    /\ UNCHANGED <<skept, files, trail, met>>

TellCreation(r) ==
    /\ sreq[r].at = "tell creation"
    /\ Log(r, "created")
    /\ Ends(sreq, r)
    /\ UNCHANGED <<skept, stamps, files, met>>

(***************************************************************************)
(* Use                                                                     *)
(***************************************************************************)

(* load_png_for_user, to sign an agreement, and image_bytes, to look at it.*)
UseStamp(r, s) ==
    /\ StartStamp(r)
    /\ \E agreement \in BOOLEAN :
         Goes(sreq, r, [at |-> "load", doc |-> s, agreement |-> agreement])
    /\ UNCHANGED <<overlap, faults, stamps, files, trail, met>>

(* _load_and_verify: the digest of the file is compared with the document's*)
LoadImage(r) ==
    LET q == sreq[r] IN
    /\ q.at = "load"
    /\ IF files[q.doc.key] = "altered"
         THEN /\ Goes(sreq, r, [at |-> "tell failure", doc |-> q.doc])
              /\ met' = met \cup {q.doc.key}
         ELSE /\ IF q.agreement THEN StampGoes(r, q, "tell use") ELSE Ends(sreq, r)
              /\ UNCHANGED met
    /\ UNCHANGED <<skept, stamps, files, trail>>

TellFailure(r) ==
    /\ sreq[r].at = "tell failure"
    /\ Log(r, "integrity_failed")
    /\ Ends(sreq, r)
    /\ UNCHANGED <<skept, stamps, files, met>>

TellUse(r) ==
    /\ sreq[r].at = "tell use"
    /\ Log(r, "used_in_agreement")
    /\ Ends(sreq, r)
    /\ UNCHANGED <<skept, stamps, files, met>>

StampRaises(r) == Raises(sreq, r) /\ UNCHANGED <<skept, stamps, files, trail, met>>

(* The storage loses or changes an image.                                  *)
Alter(key) ==
    /\ files[key] = "intact"
    /\ files' = [files EXCEPT ![key] = "altered"]
    /\ UNCHANGED <<skept, stamps, trail, met, sreq>>

StampStep(r) ==
    \/ \E u \in Signers : ConfirmAutomatic(r, u) \/ ConfirmManual(r, u)
    \/ \E s \in stamps : UseStamp(r, s)
    \/ CheckKind(r) \/ CheckCombo(r) \/ UploadImage(r)
    \/ InsertStamp(r) \/ TellCreation(r)
    \/ LoadImage(r) \/ TellFailure(r) \/ TellUse(r)
    \/ StampRaises(r)

StampsNext == \/ \E r \in Requests : StampStep(r)
              \/ \E key \in DOMAIN files : Alter(key)

StampsSpec == StampsInit /\ [][StampsNext]_svars

(***************************************************************************)
(* Properties                                                              *)
(***************************************************************************)

(* A member never has two signatures, nor two rubrics, and no two members  *)
(* have the same letters in the same font, however their confirmations     *)
(* overlap between the checks and the insertion.                           *)
StampsDiffer ==
    \A s, t \in stamps :
        (s.user = t.user /\ s.kind = t.kind) \/ (s.combo = t.combo /\ s.combo # ByHand)
            => s = t

(* Every visual signature has its own image.                               *)
ImagesStored ==
    /\ \A s \in stamps : s.key \in DOMAIN files
    /\ \A s, t \in stamps : s.key = t.key => s = t

(* The trail is about visual signatures that were stored, and tells the    *)
(* creation of each at most once.  If nothing raises it has, when all      *)
(* requests are done, the creation of each, and a failure for each altered *)
(* image that anybody met.  One request at a time, there is no use after a *)
(* failure, and if none raises, nothing before the creation.               *)
TrailsTrue ==
    /\ \A i \in DOMAIN trail : \E s \in stamps : s.key = trail[i].key
    /\ \A i, j \in DOMAIN trail :
         trail[i] = trail[j] /\ trail[i].what = "created" => i = j
    /\ ~faults /\ AllIdle(sreq) =>
         /\ \A s \in stamps : InTrail(s.key, "created")
         /\ \A key \in met : InTrail(key, "integrity_failed")
    /\ ~overlap =>
         \A i, j \in DOMAIN trail :
            i < j /\ trail[i].key = trail[j].key =>
               /\ trail[i].what = "integrity_failed"
                    => trail[j].what # "used_in_agreement"
               /\ ~faults => trail[j].what # "created"

StampsTrue == StampsDiffer /\ ImagesStored /\ TrailsTrue

=============================================================================
