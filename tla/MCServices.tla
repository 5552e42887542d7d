----------------------------- MODULE MCServices -----------------------------
(* Small instances of the services around the contracts, for TLC.  They    *)
(* share no stored state, so a behaviour runs one of them (part) and the   *)
(* others stay in their initial state: they are explored side by side      *)
(* and not in every combination of their states.  Overlapping requests at  *)
(* the desk are one fewer than those that follow each other.               *)
EXTENDS Threads, Minutas, MinutaSections, Desk, Accounts, Posts,
        Members, Market, Paywall, Stamps, News

VARIABLE part

Parts == {"threads", "minutas", "sections", "desk", "accounts", "posts",
          "members", "market", "paywall", "stamps", "news"}

ServicesInit ==
    /\ part \in Parts
    /\ ThreadsInit /\ MinutasInit /\ LayoutInit /\ DeskInit /\ AccountsInit
    /\ PostsInit /\ MembersInit /\ MarketInit /\ PaywallInit /\ StampsInit
    /\ NewsInit
    /\ part # "minutas"  => template = [t \in Templates |->
                                          [rev |-> 0, active |-> FALSE]]
    /\ part # "sections" => listed = <<>>
    /\ part = "sections" => ~overlap /\ ~faults
    /\ part # "members"  => appointed = Persons
    /\ part # "news"     => active = Readers /\ online = {}

(* The parts but one.                                                      *)
Others(own) ==
    /\ own # "threads"  => UNCHANGED tvars
    /\ own # "minutas"  => UNCHANGED mvars
    /\ own # "sections" => UNCHANGED lvars
    /\ own # "desk"     => UNCHANGED dvars
    /\ own # "accounts" => UNCHANGED avars
    /\ own # "posts"    => UNCHANGED pvars
    /\ own # "members"  => UNCHANGED bvars
    /\ own # "market"   => UNCHANGED ovars
    /\ own # "paywall"  => UNCHANGED wvars
    /\ own # "stamps"   => UNCHANGED svars
    /\ own # "news"     => UNCHANGED nvars

(* One request fewer where they overlap or raise.                          *)
Fewer(moves, bound) == overlap \/ faults => moves < bound

ServicesNext ==
    /\ UNCHANGED part
    /\ \/ part = "threads" /\ ThreadsNext
       \/ part = "minutas" /\ MinutasNext
       \/ part = "sections" /\ LayoutNext
       \/ part = "desk" /\ DeskNext /\ Fewer(dmoves', DeskMoves)
       \/ part = "accounts" /\ AccountsNext
       \/ part = "posts" /\ PostsNext
       \/ part = "members" /\ MembersNext /\ Fewer(bmoves', MemberMoves)
       \/ part = "market" /\ MarketNext /\ Fewer(omoves', MarketMoves)
       \/ part = "paywall" /\ PaywallNext /\ Fewer(wmoves', PaywallMoves)
       \/ part = "stamps" /\ StampsNext /\ Fewer(smoves', StampMoves)
       \/ part = "news" /\ NewsNext /\ Fewer(nmoves', NewsMoves)
    /\ Others(part)

ServicesSpec ==
    ServicesInit /\ [][ServicesNext]_<<part, tvars, mvars, lvars, dvars, avars, pvars,
                                       bvars, ovars, wvars, svars, nvars>>

(* Ids are interchangeable, and so are the slots of requests.  One set of  *)
(* two values stands for the ids of all services but the threads', which   *)
(* keeps the group small: what is sound is to permute it as a whole.       *)
ServicesSymmetry ==
    Permutations(Requests) \cup Permutations(Minutas)

ClauseTitles == [c \in Clauses |-> IF c = "core twin" THEN 0 ELSE OtherTitle]

=============================================================================
