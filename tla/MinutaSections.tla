--------------------------- MODULE MinutaSections ---------------------------
(***************************************************************************)
(* The order of a minuta's sections                                        *)
(* (src/modules/contract_proposals/section_sync.py): the system's core     *)
(* sections, those of the administrators' templates, the parties' own, and *)
(* the closing foro.                                                       *)
(*                                                                         *)
(* One minuta under negotiation.  Each step applies the functions that an  *)
(* operation applies to its copy: how operations overlap is in Minutas.    *)
(* Titles decide what a section is, and both sides may give a section the  *)
(* title of a core one.                                                    *)
(***************************************************************************)
EXTENDS Naturals, FiniteSets, Sequences, SequencesExt

CONSTANTS
    CoreCount,      \* CORE_SECTION_COUNT: titles 0 .. CoreCount - 1 are core
    Clauses,        \* the administrators' templates
    ClauseTitle,    \* the title of each
    LooseClauses,   \* those a company may edit or drop
    MaxEdits,       \* bound on the offerer's edits
    LayoutMoves     \* bound on the changes of templates

ForoTitle  == CoreCount
OtherTitle == CoreCount + 1
Titles     == 0 .. OtherTitle
NoClause   == "no template"

ASSUME LayoutAssumption == /\ CoreCount \in Nat \ {0}
                           /\ MaxEdits \in Nat /\ LayoutMoves \in Nat
                           /\ IsFiniteSet(Clauses) /\ NoClause \notin Clauses
                           /\ ClauseTitle \in [Clauses -> Titles \ {ForoTitle}]
                           /\ LooseClauses \subseteq Clauses

VARIABLES
    sections,  \* the sections of the minuta, none before it is created
    listed,    \* the active templates by sort_order
    edits,     \* edits by the offerer so far
    lmoves     \* changes of templates so far

lvars == <<sections, listed, edits, lmoves>>

(* A ProposalSection; id is the edit that added it, or 0.                  *)
Sections == [title : Titles, core : BOOLEAN, clause : Clauses \cup {NoClause},
             id : 0 .. MaxEdits, order : Nat]

TypeOKLayout ==
    /\ sections \in Seq(Sections)
    /\ listed \in Seq(Clauses)
    /\ edits \in 0 .. MaxEdits
    /\ lmoves \in 0 .. LayoutMoves

Foro == [title |-> ForoTitle, core |-> TRUE, clause |-> NoClause, id |-> 0,
         order |-> 0]

FromClause(c) == [title |-> ClauseTitle[c], core |-> FALSE, clause |-> c,
                  id |-> 0, order |-> 0]

(* How reorder_proposal_sections tells the sections apart.                 *)
Kind(s) ==
    IF s.title = ForoTitle THEN "foro"
    ELSE IF s.core \/ s.title < CoreCount THEN "core"
    ELSE IF s.clause # NoClause THEN "admin" ELSE "custom"

Places(d, kind) == {i \in DOMAIN d : Kind(d[i]) = kind}

(* The places I by the relation before.                                    *)
InOrder(I, before) ==
    LET rank == [i \in I |-> Cardinality({j \in I : <<j, i>> \in before})]
    IN [k \in 1 .. Cardinality(I) |-> CHOOSE i \in I : rank[i] = k - 1]

(* The entries of d at the places I, as they lie.                          *)
Those(d, I) ==
    LET at == InOrder(I, {p \in I \X I : p[1] < p[2]})
    IN [k \in DOMAIN at |-> d[at[k]]]

(* admin_by_id keeps a template's last section, foro[:1] the first foro.   *)
Survivors(d) ==
    {i \in DOMAIN d :
        /\ Kind(d[i]) = "admin" =>
             \A j \in Places(d, "admin") : d[j].clause = d[i].clause => j <= i
        /\ Kind(d[i]) = "foro" => \A j \in Places(d, "foro") : i <= j}

CoresBefore(d, i) ==
    {j \in Places(d, "core") : \/ d[j].title < d[i].title
                               \/ d[j].title = d[i].title /\ j < i}

(* The first core sections, the listed templates', the others', the        *)
(* offerer's, the surplus core ones and the foro.                          *)
Part(d, list, i) ==
    LET kind == Kind(d[i]) IN
    CASE kind = "core"   ->
            IF Cardinality(CoresBefore(d, i)) < CoreCount THEN 1 ELSE 5
      [] kind = "admin"  -> IF d[i].clause \in ToSet(list) THEN 2 ELSE 3
      [] kind = "custom" -> 4
      [] kind = "foro"   -> 6

Position(list, c) == CHOOSE i \in DOMAIN list : list[i] = c

SortKey_AsStored(d, list, i) ==
    IF Part(d, list, i) \in {1, 5} THEN d[i].title ELSE d[i].order

(* What the sections of a part are sorted by.                              *)
SortKey(d, list, i) ==
    LET group == Part(d, list, i) IN
    CASE group \in {1, 5} -> d[i].title
      [] group = 2        -> Position(list, d[i].clause)
      [] group \in {3, 4} -> d[i].order
      [] OTHER            -> 0

(* Python's sort is stable.                                                *)
Before(d, list) ==
    LET ranks == {<<Part(d, list, i), SortKey(d, list, i), i>> : i \in Survivors(d)}
        precedes(a, b) ==
            \/ a[1] < b[1]
            \/ a[1] = b[1] /\ a[2] < b[2]
            \/ a[1] = b[1] /\ a[2] = b[2] /\ a[3] < b[3]
    IN {<<p[1][3], p[2][3]>> : p \in {q \in ranks \X ranks : precedes(q[1], q[2])}}

Settled(s) ==
    CASE Kind(s) = "foro" -> [s EXCEPT !.core = TRUE, !.clause = NoClause]
      [] Kind(s) = "core" -> [s EXCEPT !.core = TRUE]
      [] OTHER            -> s

(* reorder_proposal_sections.                                              *)
Reordered(d, list) ==
    LET at == InOrder(Survivors(d), Before(d, list))
    IN [k \in DOMAIN at |-> [Settled(d[at[k]]) EXCEPT !.order = k - 1]]

(* The order a section appended to d gets.                                 *)
NextOrder(d) ==
    LET orders == {d[i].order : i \in DOMAIN d} IN
    IF orders = {} THEN 0 ELSE 1 + CHOOSE n \in orders : \A k \in orders : k <= n

Appended(d, s) == Append(d, [s EXCEPT !.order = NextOrder(d)])

HasForo(d) == Places(d, "foro") # {}

(* ensure_foro_section.                                                    *)
WithForo(d) == IF HasForo(d) THEN d ELSE Appended(d, Foro)

(* add_missing_admin_sections.                                             *)
WithMissing(d) ==
    LET present == {d[i].clause : i \in DOMAIN d}
        add     == Those(listed, {i \in DOMAIN listed : listed[i] \notin present})
        new     == [i \in DOMAIN add |->
                       [FromClause(add[i]) EXCEPT !.order = NextOrder(d) + i - 1]]
        all     == Reordered(d \o new, listed)
    IN IF HasForo(all) THEN all ELSE Reordered(WithForo(all), listed)

(* _sync_missing_admin_sections: what a party that reads the minuta sees.  *)
Read(d) ==
    WithMissing(Those(d, {i \in DOMAIN d : \/ d[i].clause = NoClause
                                           \/ d[i].clause \in ToSet(listed)}))

(* upsert_template_section for an active template, among those listed.     *)
WithClause(d, c, list) ==
    LET here == {i \in DOMAIN d : d[i].clause = c}
        first == CHOOSE i \in here : \A j \in here : i <= j
    IN Reordered(IF here = {} THEN Appended(d, FromClause(c))
                 ELSE [d EXCEPT ![first].title = ClauseTitle[c]], list)

(* remove_template_section.                                                *)
WithoutClause(d, c) == Those(d, {i \in DOMAIN d : d[i].clause # c})

(* What create builds from the templates active by then.                   *)
Created ==
    LET core == [i \in 1 .. CoreCount |->
                    [title |-> i - 1, core |-> TRUE, clause |-> NoClause,
                     id |-> 0, order |-> i - 1]]
    IN Reordered(WithForo(core \o [i \in DOMAIN listed |->
                    [FromClause(listed[i]) EXCEPT !.order = CoreCount + i - 1]]),
                 listed)

(* The orders administrators may give a set of templates.                  *)
Orderings(cs) == {l \in [1 .. Cardinality(cs) -> cs] : ToSet(l) = cs}

(* What the administrators did before the creation is in the choice of the *)
(* templates listed.                                                       *)
LayoutInit ==
    /\ \E cs \in SUBSET Clauses : listed \in Orderings(cs)
    /\ sections = <<>>
    /\ edits = 0
    /\ lmoves = 0

IsCreated == sections # <<>>

CreateMinuta ==
    /\ ~IsCreated
    /\ sections' = Created
    /\ UNCHANGED <<listed, edits, lmoves>>

GetMinuta ==
    /\ IsCreated
    /\ sections' = Read(sections)
    /\ UNCHANGED <<listed, edits, lmoves>>

(* _normalize_sections: a section that is core is no template's, even if   *)
(* a template with its title brought it in.                                *)
Normalized(d) ==
    [i \in DOMAIN d |->
        IF d[i].core THEN [d[i] EXCEPT !.clause = NoClause] ELSE d[i]]

(* What the offerer may send: without a section that is not locked, with   *)
(* two of its own swapped, or with a new one.                              *)
Loose(s) == ~s.core /\ (s.clause = NoClause \/ s.clause \in LooseClauses)

Sent(d) ==
    {Those(d, (DOMAIN d) \ {i}) : i \in {k \in DOMAIN d : Loose(d[k])}}
    \cup {[d EXCEPT ![p[1]].order = d[p[2]].order, ![p[2]].order = d[p[1]].order] :
            p \in {q \in (DOMAIN d) \X (DOMAIN d) :
                     q[1] < q[2] /\ \A k \in {q[1], q[2]} : Kind(d[k]) = "custom"}}
    \cup {Append(d, [title |-> title, core |-> FALSE, clause |-> NoClause,
                     id |-> edits + 1, order |-> Len(d)]) : title \in Titles}

(* update.                                                                 *)
EditSections ==
    /\ IsCreated
    /\ edits < MaxEdits
    /\ edits' = edits + 1
    /\ \E d \in Sent(Read(sections)) :
         sections' = Reordered(WithForo(Normalized(d)), listed)
    /\ UNCHANGED <<listed, lmoves>>

ButFor(list, c) == Those(list, {i \in DOMAIN list : list[i] # c})

(* create or update of an active template, anywhere in the order; the      *)
(* change is pushed into the minuta.                                       *)
ListClause(c) ==
    /\ IsCreated
    /\ lmoves < LayoutMoves
    /\ lmoves' = lmoves + 1
    /\ \E l \in Orderings(ToSet(listed) \cup {c}) :
         /\ ButFor(l, c) = ButFor(listed, c)
         /\ listed' = l
         /\ sections' = WithClause(sections, c, l)
    /\ UNCHANGED edits

(* delete, or update to inactive.                                          *)
UnlistClause(c) ==
    /\ IsCreated
    /\ lmoves < LayoutMoves
    /\ lmoves' = lmoves + 1
    /\ c \in ToSet(listed)
    /\ listed' = ButFor(listed, c)
    /\ sections' = WithoutClause(sections, c)
    /\ UNCHANGED edits

(* reorder: the new order reaches the minuta by _resync_negotiating_orders.*)
ReorderClauses ==
    /\ IsCreated
    /\ lmoves < LayoutMoves
    /\ lmoves' = lmoves + 1
    /\ \E l \in Orderings(ToSet(listed)) :
         /\ listed' = l
         /\ sections' = Reordered(sections, l)
    /\ UNCHANGED edits

LayoutNext ==
    \/ CreateMinuta
    \/ GetMinuta
    \/ EditSections
    \/ \E c \in Clauses : ListClause(c) \/ UnlistClause(c)
    \/ ReorderClauses

LayoutSpec == LayoutInit /\ [][LayoutNext]_lvars

(***************************************************************************)
(* Properties                                                              *)
(***************************************************************************)

(* How the sections of a minuta are to lie.                                *)
WellOrdered(d) ==
    LET kinds(i, j) == <<Kind(d[i]), Kind(d[j])>>
    IN /\ \A t \in 0 .. CoreCount - 1 : \E i \in DOMAIN d : d[i].title = t
       /\ \A i \in DOMAIN d : /\ d[i].order = i - 1
                              /\ Kind(d[i]) = "foro" <=> i = Len(d)
                              /\ i <= CoreCount => Kind(d[i]) = "core"
       /\ \A i, j \in DOMAIN d :
            i < j => /\ kinds(i, j) # <<"custom", "admin">>
                     /\ kinds(i, j) = <<"admin", "admin">> =>
                          Position(listed, d[i].clause) < Position(listed, d[j].clause)
       /\ ToSet(listed) = {d[i].clause : i \in DOMAIN d} \ {NoClause}

(* However titles, orders and templates changed, the minuta that is read   *)
(* (and submitted) has every core section, the active templates in their   *)
(* order before the offerer's sections, one foro as the last section, and  *)
(* sort orders as it lies; and reading it again would store nothing.       *)
ReadSettles ==
    IsCreated => LET d == Read(sections) IN Read(d) = d /\ WellOrdered(d)

=============================================================================
