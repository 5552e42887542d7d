------------------------------ MODULE Handlers ------------------------------
(***************************************************************************)
(* The request handlers of the API, as the modules that extend this one    *)
(* use them.                                                               *)
(*                                                                         *)
(* A handler is a coroutine: other handlers run wherever it awaits, and an *)
(* await may raise (a driver error, or the CancelledError of the timeout   *)
(* middleware, src/shared/middleware/timeout.py), which ends the request   *)
(* between two of its writes.  Each of Requests is a slot for one request  *)
(* at a time; an idle slot takes the next one.                             *)
(*                                                                         *)
(* Some properties hold only while requests do not overlap, or while no    *)
(* await raises, so both are chosen in the initial state and kept.         *)
(***************************************************************************)
CONSTANT Requests

VARIABLES
    overlap,  \* whether requests may be in flight together
    faults    \* whether an await may raise

HandlersInit == overlap \in BOOLEAN /\ faults \in BOOLEAN

Idle == [at |-> "idle"]

AllIdle(req) == \A r \in Requests : req[r] = Idle

(* A request may start in slot r.                                          *)
MayStart(req, r) == req[r] = Idle /\ (overlap \/ AllIdle(req))

(* Slot r goes on to the step q of its handler.                            *)
Goes(req, r, q) == req' = [req EXCEPT ![r] = q]

Ends(req, r) == Goes(req, r, Idle)

(* Raise: the request in slot r ends where it awaits.                      *)
Raises(req, r) == faults /\ req[r] # Idle /\ Ends(req, r)

=============================================================================
