---------------------------- MODULE ClaimLedger ----------------------------
(***************************************************************************)
(* What the claim of a notification campaign promises                      *)
(* (claim_for_processing): an administrator's decision to send opens the   *)
(* campaign once, and a decision is used by at most one delivery run,      *)
(* whoever races for it.                                                   *)
(***************************************************************************)
EXTENDS Naturals

CONSTANT Campaigns

VARIABLES
    open,    \* the campaigns a delivery run may still take
    grants,  \* decisions to send made so far
    takes    \* delivery runs started so far

ledgerVars == <<open, grants, takes>>

(* An administrator creates the campaign, or asks to send it now.          *)
Grant(c) ==
    /\ open' = open \cup {c}
    /\ grants' = [grants EXCEPT ![c] = @ + 1]
    /\ UNCHANGED takes

(* A delivery run takes an open campaign, which closes it.                 *)
Take(c) ==
    /\ c \in open
    /\ open' = open \ {c}
    /\ takes' = [takes EXCEPT ![c] = @ + 1]
    /\ UNCHANGED grants

(* A cancellation, or the end of an earlier run, closes it.                *)
Close(c) ==
    /\ c \in open
    /\ open' = open \ {c}
    /\ UNCHANGED <<grants, takes>>

LedgerInit ==
    /\ open = {}
    /\ grants = [c \in Campaigns |-> 0]
    /\ takes = [c \in Campaigns |-> 0]

LedgerNext == \E c \in Campaigns : Grant(c) \/ Take(c) \/ Close(c)

LedgerSpec == LedgerInit /\ [][LedgerNext]_ledgerVars

(* No more delivery runs than decisions to send.                           *)
Balanced == \A c \in Campaigns : takes[c] <= grants[c]

=============================================================================
