----------------------------- MODULE EventInbox -----------------------------
(***************************************************************************)
(* What the webhook handler promises about an event of the payment         *)
(* provider, however often and however concurrently it is delivered: one   *)
(* delivery at a time holds it, and it is carried through at most once.    *)
(* try_record takes it, delete_by_event_id gives it back.                  *)
(***************************************************************************)
EXTENDS Naturals

CONSTANT Events

VARIABLES
    recorded,  \* events with a row in billing_webhook_events
    held,      \* events a delivery is carrying out
    done       \* how often each event was carried through

inboxVars == <<recorded, held, done>>

(* A delivery finds the event unknown, and takes it.                       *)
Accept(e) ==
    /\ e \notin recorded
    /\ recorded' = recorded \cup {e}
    /\ held' = held \cup {e}
    /\ UNCHANGED done

(* It carries the event through: the event stays recorded for good.        *)
Complete(e) ==
    /\ e \in held
    /\ held' = held \ {e}
    /\ done' = [done EXCEPT ![e] = @ + 1]
    /\ UNCHANGED recorded

(* It fails, and gives the event back for another delivery.                *)
Release(e) ==
    /\ e \in held
    /\ held' = held \ {e}
    /\ recorded' = recorded \ {e}
    /\ UNCHANGED done

(* It dies: nobody holds the event, and nobody will take it again.         *)
Abandon(e) ==
    /\ e \in held
    /\ held' = held \ {e}
    /\ UNCHANGED <<recorded, done>>

InboxInit ==
    /\ recorded = {}
    /\ held = {}
    /\ done = [e \in Events |-> 0]

InboxNext == \E e \in Events : Accept(e) \/ Complete(e) \/ Release(e) \/ Abandon(e)

InboxSpec == InboxInit /\ [][InboxNext]_inboxVars

(* No event is carried through twice.                                      *)
AtMostOnce == \A e \in Events : done[e] <= 1

=============================================================================
