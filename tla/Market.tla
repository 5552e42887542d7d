------------------------------- MODULE Market -------------------------------
(***************************************************************************)
(* The marketplace: the life of an opportunity (src/modules/opportunities/ *)
(* service.py, and src/modules/admin/service.py for administrators), and   *)
(* the score that ranks a member's own demands against each offer of       *)
(* others (matching_service.py).                                           *)
(*                                                                         *)
(* The texts that the score compares are members of small sets, with the   *)
(* ratio SequenceMatcher would give to two that differ.  A score is counted*)
(* in hundredths, where the code has floats, and the difference of two     *)
(* quantities is rounded down.  An update sends no explicit null for a     *)
(* field that every opportunity has: the code would store it, and no later *)
(* read of the document validate.                                          *)
(***************************************************************************)
EXTENDS Handlers, Integers, Sequences

CONSTANTS
    Owners,       \* members with a company
    MarketMoves   \* bound on the requests made

ASSUME MarketMovesAssumption == MarketMoves \in Nat

VARIABLES
    market,   \* the opportunities collection, in the order of creation
    removed,  \* history: opportunities whose deletion was answered
    oreq,     \* where each request is
    omoves    \* requests made so far

ovars == <<overlap, faults, market, removed, oreq, omoves>>

okept == <<overlap, faults, omoves>>

NoPrice == -1

(* What is compared besides category, detail and price: two descriptions   *)
(* that agree in nothing, though their states share a border.              *)
Plain == [purity |-> 90, form |-> "solid", city |-> "Belem", uf |-> "PA",
          quantity |-> 2, unit |-> "t"]
Odd   == [purity |-> 20, form |-> "liquid", city |-> "Cuiaba", uf |-> "MT",
          quantity |-> 1, unit |-> "kg"]

Categories == {"plastic", "metal"}
Details    == {"PET flakes", "PET flake", "sludge"}

(* Descriptions that differ in one thing, and one that differs in all.     *)
Wares == [category : {"plastic"}, detail : Details, rest : {Plain}]
         \cup [category : Categories, detail : {"PET flakes"}, rest : {Odd}]
         \cup [category : {"metal"}, detail : {"PET flakes"}, rest : {Plain}]

Prices == {NoPrice, 0, 100}

Opps    == 1 .. MarketMoves
OppDocs == [owner : Owners, live : BOOLEAN, side : {"gerador", "receptor"}, ware : Wares,
            negotiable : BOOLEAN, price : Prices]

(* The patches that OpportunityUpdate lets through.  Without a price, one  *)
(* that makes the price negotiable leaves the stored one: the validator    *)
(* clears it in the model and does not mark it as set.                     *)
OppPatches ==
    [ware : Wares]
    \cup [side : {"gerador", "receptor"}]
    \cup [price : Prices]
    \cup [negotiable : {FALSE}, price : Prices \ {NoPrice}]
    \cup [negotiable : {TRUE}, price : {NoPrice}]
    \cup [negotiable : {TRUE}]

OppRequests ==
    {Idle}
    \cup [at : {"insert"}, owner : Owners]
    \cup [at : {"patch", "remove"}, opp : Opps]

TypeOKMarket ==
    /\ market \in Seq(OppDocs) /\ Len(market) <= MarketMoves
    /\ removed \subseteq Opps
    /\ oreq \in [Requests -> OppRequests]
    /\ omoves \in 0 .. MarketMoves

MarketInit ==
    /\ HandlersInit
    /\ market = <<>>
    /\ removed = {}
    /\ oreq = [r \in Requests |-> Idle]
    /\ omoves = 0

StartMarket(r) ==
    /\ MayStart(oreq, r)
    /\ omoves < MarketMoves
    /\ omoves' = omoves + 1

ListedOpps == {o \in DOMAIN market : market[o].live}

(***************************************************************************)
(* The life of an opportunity.  What a request carries is chosen where it  *)
(* is written: no test depends on it.                                      *)
(***************************************************************************)

(* create, for a company of one's own.                                     *)
CreateOpp(r, u) ==
    /\ StartMarket(r)
    /\ Goes(oreq, r, [at |-> "insert", owner |-> u])
    /\ UNCHANGED <<overlap, faults, market, removed>>

InsertOpp(r) ==
    LET q == oreq[r] IN
    /\ q.at = "insert"
    /\ \E side \in {"gerador", "receptor"}, w \in Wares, open \in BOOLEAN :
         market' = Append(market,
                          [owner |-> q.owner, live |-> TRUE, side |-> side, ware |-> w,
                           negotiable |-> open, price |-> IF open THEN NoPrice ELSE 100])
    /\ Ends(oreq, r)
    /\ UNCHANGED <<okept, removed>>

(* get and the tests of update and delete: an owner's or an                *)
(* administrator's request for an opportunity that is active.              *)
AskUpdate(r) ==
    /\ StartMarket(r)
    /\ \E o \in ListedOpps : Goes(oreq, r, [at |-> "patch", opp |-> o])
    /\ UNCHANGED <<overlap, faults, market, removed>>

AskRemoval(r) ==
    /\ StartMarket(r)
    /\ \E o \in ListedOpps : Goes(oreq, r, [at |-> "remove", opp |-> o])
    /\ UNCHANGED <<overlap, faults, market, removed>>

(* The fields that a patch carries are set, the others stay.               *)
WithPatch(d, p) == [f \in DOMAIN d |-> IF f \in DOMAIN p THEN p[f] ELSE d[f]]

(* The patch is set whatever became of the opportunity meanwhile.          *)
PatchOpp(r) ==
    LET q == oreq[r] IN
    /\ q.at = "patch"
    /\ \E p \in OppPatches : market' = [market EXCEPT ![q.opp] = WithPatch(@, p)]
    /\ Ends(oreq, r)
    /\ UNCHANGED <<okept, removed>>

RemoveOpp(r) ==
    LET q == oreq[r] IN
    /\ q.at = "remove"
    /\ market' = [market EXCEPT ![q.opp].live = FALSE]
    /\ removed' = removed \cup {q.opp}
    /\ Ends(oreq, r)
    /\ UNCHANGED okept

OppRaises(r) == Raises(oreq, r) /\ UNCHANGED <<okept, market, removed>>

MarketStep(r) ==
    \/ \E u \in Owners : CreateOpp(r, u)
    \/ AskUpdate(r) \/ AskRemoval(r)
    \/ InsertOpp(r) \/ PatchOpp(r) \/ RemoveOpp(r)
    \/ OppRaises(r)

MarketNext == \E r \in Requests : MarketStep(r)

MarketSpec == MarketInit /\ [][MarketNext]_ovars

(***************************************************************************)
(* The score of an offer and a demand, in hundredths of a point            *)
(***************************************************************************)

AtLeast0(n) == IF n < 0 THEN 0 ELSE n
Gap(a, b)   == IF a < b THEN b - a ELSE a - b

(* SequenceMatcher's ratio, in percent, for two texts that differ.         *)
Ratio(a, b) == IF {a, b} = {"PET flakes", "PET flake"} THEN 94 ELSE 12

TextScore(a, b) == IF a = b THEN 100
                   ELSE IF Ratio(a, b) >= 80 THEN 80
                   ELSE IF Ratio(a, b) >= 50 THEN 60 ELSE Ratio(a, b)

PurityScore(a, b) == AtLeast0(100 - 2 * Gap(a, b))

(* STATE_NEIGHBORS, of which MT lists PA and PA does not list MT.          *)
Borders == {<<"MT", "PA">>}

LocationScore(a, b) ==
    IF a.city = b.city /\ a.uf = b.uf THEN 100
    ELSE IF a.uf = b.uf THEN 80
    ELSE IF <<a.uf, b.uf>> \in Borders THEN 60 ELSE 30

QuantityScore(a, b) ==
    IF a.unit # b.unit THEN 40
    ELSE LET most == IF a.quantity > b.quantity THEN a.quantity ELSE b.quantity IN
         AtLeast0(100 - (100 * Gap(a.quantity, b.quantity)) \div most)

Priced(doc) == doc.price # NoPrice /\ ~doc.negotiable

PriceScore(offer, demand) ==
    IF ~Priced(offer) /\ ~Priced(demand) THEN 70
    ELSE IF ~Priced(offer) \/ ~Priced(demand) THEN 50
    ELSE IF demand.price = 0 THEN 50
    ELSE LET off == 100 * Gap(offer.price, demand.price)
             Within(percent) == off <= percent * demand.price IN
         IF Within(5) THEN 100 ELSE IF Within(10) THEN 90
         ELSE IF Within(20) THEN 70 ELSE IF Within(30) THEN 40 ELSE 0

BaseScore(offer, demand) ==
    LET a == offer.ware
        b == demand.ware IN
    40 * (IF a.category = b.category THEN 100 ELSE 0)
      + 30 * TextScore(a.detail, b.detail)
      + 5 * PurityScore(a.rest.purity, b.rest.purity)
      + 5 * TextScore(a.rest.form, b.rest.form)
      + 10 * LocationScore(a.rest, b.rest)
      + 5 * QuantityScore(a.rest, b.rest)
      + 5 * PriceScore(offer, demand)

Capped(n, most) == IF n > most THEN most ELSE n

Penalised_OnlyCategory(offer, demand) ==
    LET base == BaseScore(offer, demand) IN
    IF offer.ware.category # demand.ware.category
      THEN Capped((25 * base) \div 100, 3000)
    ELSE base

(* _apply_compatibility_penalty.                                           *)
Penalised(offer, demand) ==
    LET base == BaseScore(offer, demand) IN
    IF offer.ware.category # demand.ware.category
      THEN Capped((25 * base) \div 100, 3000)
    ELSE IF offer.ware.detail # demand.ware.detail
      THEN Capped((60 * base) \div 100, 6000)
    ELSE base

(* round, to the even of two that are as near.                             *)
Score(offer, demand) ==
    LET n == Penalised(offer, demand) IN
    IF n % 100 = 50 /\ (n \div 100) % 2 = 0 THEN n \div 100
                                            ELSE (n + 50) \div 100

Potential(score) ==
    IF score >= 80 THEN "HIGH" ELSE IF score >= 40 THEN "MEDIUM" ELSE "LOW"

(* list_demands_for_owner.                                                 *)
DemandsOf(u) == {o \in ListedOpps : market[o].owner = u
                                    /\ market[o].side = "receptor"}

NoMatch == 0

(* find_best_match: the demands are tried newest first (shown[n] is what   *)
(* the n newest opportunities leave), and only a higher score replaces the *)
(* match found so far.                                                     *)
BestMatch(offer, u) ==
    LET shown[n \in 0 .. Len(market)] ==
            IF n = 0 THEN NoMatch
            ELSE LET found == shown[n - 1]
                     d     == Len(market) + 1 - n IN
                 IF /\ d \in DemandsOf(u)
                    /\ \/ found = NoMatch
                       \/ Score(market[offer], market[d])
                             > Score(market[offer], market[found])
                   THEN d ELSE found
    IN shown[Len(market)]

(* The offers that list shows with a match to a member with access.        *)
MatchedOffers(u) ==
    {o \in ListedOpps : /\ market[o].side = "gerador"
                        /\ market[o].owner # u
                        /\ DemandsOf(u) # {}}

(***************************************************************************)
(* Properties                                                              *)
(***************************************************************************)

(* A match is a demand of the member's own that is listed, none of them    *)
(* scores higher, and the newest of those that score the same is shown.    *)
(* However the other criteria fall out, a match of two categories is LOW   *)
(* and one of two details is never HIGH, while the same of both is never   *)
(* LOW; and a score is one out of 100.                                     *)
MatchRanks ==
    \A u \in Owners : \A o \in MatchedOffers(u) :
        LET offer == market[o]
            match == BestMatch(o, u)
            best  == market[match]
            won   == Score(offer, best) IN
        /\ best.live /\ best.owner = u
        /\ \A d \in DemandsOf(u) :
             \/ Score(offer, market[d]) < won
             \/ Score(offer, market[d]) = won /\ d <= match
        /\ won \in 0 .. 100
        /\ offer.ware.category # best.ware.category => Potential(won) = "LOW"
        /\ offer.ware.detail # best.ware.detail => Potential(won) # "HIGH"
        /\ (/\ offer.ware.category = best.ware.category
            /\ offer.ware.detail = best.ware.detail) => Potential(won) # "LOW"

(* An opportunity whose deletion was answered stays out of every list, and *)
(* of every member's demands, whatever updates were on their way.          *)
RemovedStays == removed \cap ListedOpps = {}

MarketFair == MatchRanks /\ RemovedStays

=============================================================================
