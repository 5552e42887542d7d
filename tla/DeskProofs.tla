----------------------------- MODULE DeskProofs -----------------------------
(***************************************************************************)
(* Theorems about Desk, for any number of documents and requests.          *)
(*                                                                         *)
(* The argument for the numbers: those of a source are 1 to their count    *)
(* (Counted), a request has one that is at most the next (Fits), and the   *)
(* unique index refuses all but the next.  For the documents: a decision   *)
(* stores the upload it was made on, and what was vetted stays vetted.     *)
(*                                                                         *)
(* One request at a time (SInv): what the only request in flight has read  *)
(* is still so when it writes (Solo), and a reply without an assignment,   *)
(* or a document without a ticket, is what it is about to mend (AnsweredBy *)
(* and QueuedBy).                                                          *)
(***************************************************************************)
EXTENDS Desk, FiniteSetTheorems, SequenceTheorems, TLAPS

Count(s)   == Cardinality(OfSource(s))
Numbers(s) == {tickets[i].number : i \in OfSource(s)}

Counted == \A s \in Sources : Numbers(s) = 1 .. Count(s)

Fits(q) ==
    /\ q.at = "insert" => q.number \in 1 .. Count(q.source) + 1
    /\ q.at \in {"write", "update", "revive", "conclude"} =>
           q.i \in DOMAIN tickets

AllFit == \A r \in Requests : Fits(dreq[r])

DInv == TypeOKDesk /\ AllFit /\ Counted /\ NumbersDense /\ ApprovedWasReviewed

-----------------------------------------------------------------------------
(* Lemmas                                                                  *)

LEMMA Shapes ==
    \A q \in DeskRequests :
        /\ q.at \in {"number", "insert"} => q \in NumberWork
        /\ q.at \in {"write", "update"} => q \in TicketWork
        /\ q.at = "mark" => q \in MarkWork
        /\ q.at = "decide" => q \in DecideWork
        /\ q.at \in {"revive", "conclude"} => q \in ReviewWork
<1>1. Idle.at = "idle"
  BY DEF Idle
<1>2. \A q \in NumberWork : q.at \in {"number", "insert"}
  BY DEF NumberWork
<1>3. \A q \in TicketWork : q.at \in {"write", "update"}
  BY DEF TicketWork
<1>4. \A q \in MarkWork : q.at = "mark"
  BY DEF MarkWork
<1>5. \A q \in DecideWork : q.at = "decide"
  BY DEF DecideWork
<1>6. \A q \in FindWork : q.at \in {"find open", "find latest", "find to close"}
  BY DEF FindWork
<1>7. \A q \in ReviewWork : q.at \in {"revive", "conclude"}
  BY DEF ReviewWork
<1>. QED
  BY <1>1, <1>2, <1>3, <1>4, <1>5, <1>6, <1>7 DEF DeskRequests

LEMMA Typed ==
    ASSUME DInv
    PROVE  /\ tickets \in Seq(Tickets) /\ messages \in Seq(Messages)
           /\ file \in [Kinds -> Files \cup {NoFile}]
           /\ vetted \subseteq 1 .. DeskMoves
           /\ dreq \in [Requests -> DeskRequests]
           /\ dmoves \in 0 .. DeskMoves
           /\ \A r \in Requests : Fits(dreq[r])
           /\ Counted /\ NumbersDense /\ ApprovedWasReviewed
BY DEF DInv, TypeOKDesk, AllFit

(* The tickets of a source are finitely many, and counted by a number.     *)
LEMMA Counts ==
    ASSUME tickets \in Seq(Tickets), NEW s
    PROVE  /\ OfSource(s) \subseteq 1 .. Len(tickets)
           /\ IsFiniteSet(OfSource(s)) /\ Count(s) \in Nat
<1>1. Len(tickets) \in Nat /\ DOMAIN tickets = 1 .. Len(tickets)
  OBVIOUS
<1>2. IsFiniteSet(1 .. Len(tickets))
  BY <1>1, FS_Interval
<1>3. OfSource(s) \subseteq 1 .. Len(tickets)
  BY <1>1 DEF OfSource
<1>4. IsFiniteSet(OfSource(s))
  BY <1>2, <1>3, FS_Subset
<1>. QED  BY <1>3, <1>4, FS_CardinalityType DEF Count

(* Tickets that keep their sources and numbers, and gain one at most.      *)
LEMMA SameTickets ==
    ASSUME tickets \in Seq(Tickets), tickets' \in Seq(Tickets),
           Len(tickets') = Len(tickets),
           \A i \in DOMAIN tickets :
               /\ tickets'[i].source = tickets[i].source
               /\ tickets'[i].number = tickets[i].number
    PROVE  /\ \A s : OfSource(s)' = OfSource(s) /\ Count(s)' = Count(s)
           /\ DOMAIN tickets' = DOMAIN tickets
           /\ Counted => Counted'
           /\ NumbersDense => NumbersDense'
<1>1. DOMAIN tickets' = DOMAIN tickets /\ DOMAIN tickets = 1 .. Len(tickets)
  OBVIOUS
<1>2. \A s : OfSource(s)' = OfSource(s)
  BY <1>1 DEF OfSource
<1>3. \A s : Count(s)' = Count(s)
  BY <1>2 DEF Count
<1>4. \A s : Numbers(s)' = Numbers(s)
  <2> TAKE s
  <2>1. OfSource(s) \subseteq DOMAIN tickets
    BY DEF OfSource
  <2>. QED  BY <1>2, <2>1 DEF Numbers
<1>5. Counted => Counted'
  BY <1>3, <1>4 DEF Counted
<1>6. NumbersDense => NumbersDense'
  <2> SUFFICES ASSUME NumbersDense PROVE NumbersDense'
    OBVIOUS
  <2> SUFFICES ASSUME NEW s \in Sources, NEW i \in DOMAIN tickets',
                      tickets'[i].source = s
               PROVE  {tickets'[j].number : j \in {k \in 1 .. i : tickets'[k].source = s}}
                          = 1 .. tickets'[i].number
    BY Zenon DEF NumbersDense
  <2>0. i \in DOMAIN tickets /\ tickets[i].source = s
    BY <1>1
  <2>1. i \in Nat /\ i <= Len(tickets) /\ Len(tickets) \in Nat
    BY <1>1
  <2>2. 1 .. i \subseteq DOMAIN tickets
    BY <1>1, <2>1
  <2>3. {k \in 1 .. i : tickets'[k].source = s} = {k \in 1 .. i : tickets[k].source = s}
    BY <2>2
  <2>4. {tickets'[j].number : j \in {k \in 1 .. i : tickets[k].source = s}}
          = {tickets[j].number : j \in {k \in 1 .. i : tickets[k].source = s}}
    BY <2>2
  <2>5. {tickets[j].number : j \in {k \in 1 .. i : tickets[k].source = s}}
          = 1 .. tickets[i].number
    BY <2>0 DEF NumbersDense
  <2>. QED  BY <2>0, <2>3, <2>4, <2>5
<1>. QED  BY <1>1, <1>2, <1>3, <1>5, <1>6

(* A request that moves, and may change tickets' other fields, messages    *)
(* and documents.                                                          *)
LEMMA Keeps ==
    ASSUME DInv, NEW r \in Requests, NEW q \in DeskRequests,
           Goes(dreq, r, q), Fits(q),
           tickets' \in Seq(Tickets), Len(tickets') = Len(tickets),
           \A i \in DOMAIN tickets :
               /\ tickets'[i].source = tickets[i].source
               /\ tickets'[i].number = tickets[i].number,
           messages' \in Seq(Messages),
           file' \in [Kinds -> Files \cup {NoFile}],
           vetted' \subseteq 1 .. DeskMoves,
           ApprovedWasReviewed',
           dmoves' \in 0 .. DeskMoves
    PROVE  DInv'
<1>1. /\ dreq' \in [Requests -> DeskRequests] /\ dreq'[r] = q
      /\ \A s \in Requests \ {r} : dreq'[s] = dreq[s]
  BY Typed DEF Goes
<1>2. TypeOKDesk'
  BY <1>1 DEF TypeOKDesk
<1>3. /\ \A s : Count(s)' = Count(s)
      /\ DOMAIN tickets' = DOMAIN tickets /\ Counted' /\ NumbersDense'
  BY Typed, SameTickets
<1>4. AllFit'
  <2> SUFFICES ASSUME NEW s \in Requests PROVE Fits(dreq[s])'
    BY DEF AllFit
  <2>1. Fits(dreq'[s])
    BY <1>1, Typed
  <2>2. Count(dreq[s].source)' = Count(dreq'[s].source)
    <3>1. \A x : Count(x)' = Count(x)
      BY <1>3
    <3>. QED  BY <3>1 DEF Count, OfSource
  <2>. QED  BY <1>3, <2>1, <2>2 DEF Fits
<1>. QED  BY <1>2, <1>3, <1>4 DEF DInv

(* The same, for one that leaves all collections alone.                    *)
LEMMA Moves ==
    ASSUME DInv, NEW r \in Requests, NEW q \in DeskRequests,
           Goes(dreq, r, q), Fits(q),
           UNCHANGED <<tickets, messages, file, vetted>>,
           dmoves' \in 0 .. DeskMoves
    PROVE  DInv'
<1>1. ApprovedWasReviewed'
  BY Typed DEF ApprovedWasReviewed
<1>2. /\ tickets' = tickets /\ messages' = messages /\ file' = file
      /\ vetted' = vetted
  OBVIOUS
<1>3. /\ tickets' \in Seq(Tickets) /\ Len(tickets') = Len(tickets)
      /\ \A i \in DOMAIN tickets :
           /\ tickets'[i].source = tickets[i].source
           /\ tickets'[i].number = tickets[i].number
      /\ messages' \in Seq(Messages)
      /\ file' \in [Kinds -> Files \cup {NoFile}]
      /\ vetted' \subseteq 1 .. DeskMoves
  BY <1>2, Typed
<1>. QED  BY <1>1, <1>3, Keeps

(* The same, for one that updates one ticket.                              *)
LEMMA Updates ==
    ASSUME DInv, NEW r \in Requests, NEW q \in DeskRequests,
           Goes(dreq, r, q), Fits(q),
           NEW i \in DOMAIN tickets, NEW t \in Tickets,
           t.source = tickets[i].source, t.number = tickets[i].number,
           tickets' = [tickets EXCEPT ![i] = t],
           UNCHANGED <<messages, file, vetted, dmoves>>
    PROVE  DInv'
<1>1. ApprovedWasReviewed'
  BY Typed DEF ApprovedWasReviewed
<1>2. tickets \in Seq(Tickets)
  BY Typed
<1>3. /\ tickets' \in Seq(Tickets) /\ Len(tickets') = Len(tickets)
      /\ \A j \in DOMAIN tickets :
           /\ tickets'[j].source = tickets[j].source
           /\ tickets'[j].number = tickets[j].number
  BY <1>2
<1>4. /\ messages' \in Seq(Messages)
      /\ file' \in [Kinds -> Files \cup {NoFile}]
      /\ vetted' \subseteq 1 .. DeskMoves
      /\ dmoves' \in 0 .. DeskMoves
  BY Typed
<1>. QED  BY <1>1, <1>3, <1>4, Keeps

LEMMA IdleFits == Idle \in DeskRequests /\ Fits(Idle)
BY DEF Idle, DeskRequests, Fits

LEMMA Starts ==
    ASSUME DInv, NEW r \in Requests, StartDesk(r)
    PROVE  dmoves + 1 \in 1 .. DeskMoves /\ dmoves' \in 0 .. DeskMoves
<1>1. dmoves \in 0 .. DeskMoves /\ dmoves < DeskMoves /\ dmoves' = dmoves + 1
  BY Typed DEF StartDesk
<1>2. DeskMoves \in Nat
  BY DeskAssumption
<1>. QED  BY <1>1, <1>2

-----------------------------------------------------------------------------
(* The steps                                                               *)

LEMMA DeskStart == DeskInit => DInv
<1> SUFFICES ASSUME DeskInit PROVE DInv
  OBVIOUS
<1>1. /\ tickets = <<>> /\ messages = <<>> /\ vetted = {} /\ dmoves = 0
      /\ file = [k \in Kinds |-> NoFile] /\ dreq = [r \in Requests |-> Idle]
  BY DEF DeskInit
<1>2. TypeOKDesk
  <2>1. DeskMoves \in Nat
    BY DeskAssumption
  <2>2. dmoves \in 0 .. DeskMoves
    BY <1>1, <2>1
  <2>3. dreq \in [Requests -> DeskRequests]
    BY <1>1, IdleFits
  <2>4. tickets \in Seq(Tickets) /\ messages \in Seq(Messages)
    BY <1>1
  <2>5. file \in [Kinds -> Files \cup {NoFile}] /\ vetted \subseteq 1 .. DeskMoves
    BY <1>1
  <2>. QED  BY <2>2, <2>3, <2>4, <2>5 DEF TypeOKDesk
<1>3. AllFit
  BY <1>1, IdleFits DEF AllFit
<1>4. Counted
  <2>1. \A s : OfSource(s) = {}
    BY <1>1 DEF OfSource
  <2>2. \A s : Count(s) = 0
    BY <2>1, FS_EmptySet DEF Count
  <2>3. \A s : Numbers(s) = {}
    BY <2>1 DEF Numbers
  <2>. QED  BY <2>2, <2>3 DEF Counted
<1>5. NumbersDense
  BY <1>1 DEF NumbersDense
<1>6. ApprovedWasReviewed
  BY <1>1 DEF ApprovedWasReviewed, NoFile
<1>. QED  BY <1>2, <1>3, <1>4, <1>5, <1>6 DEF DInv

(* A request for a new ticket of a source.                                 *)
LEMMA AsksKeep ==
    ASSUME DInv, NEW r \in Requests, NEW s \in Sources, AskTicket(r, s)
    PROVE  DInv'
<1> DEFINE q == [at |-> "number", source |-> s, ours |-> FALSE, number |-> 0]
<1>1. q \in NumberWork
  BY DEF NumberWork
<1>2. q \in DeskRequests /\ Fits(q)
  BY <1>1 DEF DeskRequests, Fits
<1>3. Goes(dreq, r, q) /\ UNCHANGED <<tickets, messages, file, vetted>>
  BY DEF AskTicket
<1>4. dmoves' \in 0 .. DeskMoves
  BY Starts DEF AskTicket
<1> HIDE DEF q
<1>. QED  BY <1>2, <1>3, <1>4, Moves

LEMMA NumberKeeps ==
    ASSUME DInv, NEW r \in Requests, NumberTicket(r)
    PROVE  DInv'
<1> DEFINE p == dreq[r]
           n == Count(p.source) + 1
           q == [p EXCEPT !.at = "insert", !.number = n]
<1>1. p.at = "number"
  BY DEF NumberTicket
<1>2. p \in NumberWork
  BY <1>1, Typed, Shapes
<1>3. Count(p.source) \in Nat
  BY Typed, Counts
<1>4. n \in Nat /\ n \in 1 .. Count(p.source) + 1
  BY <1>3
<1>5. Goes(dreq, r, q) /\ UNCHANGED <<tickets, messages, file, vetted, dmoves>>
  BY DEF NumberTicket, Count
<1> HIDE DEF n
<1>6. /\ q \in NumberWork /\ q.at = "insert" /\ q.number = n
      /\ q.source = p.source
  BY <1>2, <1>4 DEF NumberWork
<1> HIDE DEF q
<1>7. q \in DeskRequests /\ Fits(q)
  BY <1>4, <1>6 DEF DeskRequests, Fits
<1>8. dmoves' \in 0 .. DeskMoves
  BY <1>5, Typed
<1>. QED  BY <1>5, <1>7, <1>8, Moves

(* The new ticket: its number is the next of its source, since all before  *)
(* are taken.                                                              *)
LEMMA InsertKeeps ==
    ASSUME DInv, NEW r \in Requests, InsertTicket(r)
    PROVE  DInv'
<1> DEFINE p == dreq[r]
           t == NewTicket(p)
           L == Len(tickets) + 1
           q == Writing("write", "message", L, t)
<1>1. p.at = "insert"
  BY DEF InsertTicket
<1>2. p \in NumberWork /\ Fits(p)
  BY <1>1, Typed, Shapes
<1>3. /\ p.source \in Sources /\ p.ours \in BOOLEAN /\ p.number \in Nat
      /\ p.number \in 1 .. Count(p.source) + 1
  BY <1>1, <1>2 DEF NumberWork, Fits
<1>4. UNCHANGED <<messages, file, vetted, dmoves>>
  BY DEF InsertTicket
<1>5. CASE Ends(dreq, r) /\ UNCHANGED tickets
  <2>1. dmoves' \in 0 .. DeskMoves
    BY <1>4, Typed
  <2>. QED  BY <1>4, <1>5, <2>1, IdleFits, Moves DEF Ends
<1>6. CASE /\ ~\E i \in OfSource(p.source) : tickets[i].number = p.number
           /\ tickets' = Append(tickets, t)
           /\ Goes(dreq, r, q)
  <2> PICK S \in Sources, N \in Nat : S = p.source /\ N = p.number
    BY <1>3
  <2>0. N \in 1 .. Count(S) + 1 /\ ~\E i \in OfSource(S) : tickets[i].number = N
    BY <1>3, <1>6
  <2>1. /\ t \in Tickets /\ t.source = S /\ t.number = N
    BY <1>3 DEF NewTicket, Tickets
  <2> HIDE DEF t
  <2>2. tickets \in Seq(Tickets) /\ Len(tickets) \in Nat /\ L \in Nat
    BY Typed
  <2>3. /\ tickets' \in Seq(Tickets) /\ DOMAIN tickets' = 1 .. L
        /\ tickets'[L] = t
        /\ \A i \in 1 .. Len(tickets) : tickets'[i] = tickets[i]
        /\ DOMAIN tickets = 1 .. Len(tickets)
    BY <1>6, <2>1, <2>2
  <2>4. q \in TicketWork /\ q.at = "write" /\ q.i = L
    BY <2>1, <2>2 DEF Writing, TicketWork, DeskOps
  <2> HIDE DEF q
  <2>5. q \in DeskRequests
    BY <2>4 DEF DeskRequests
  <2>6. /\ dreq' \in [Requests -> DeskRequests] /\ dreq'[r] = q
        /\ \A s \in Requests \ {r} : dreq'[s] = dreq[s]
    BY <1>6, <2>5, Typed DEF Goes
  <2>7. OfSource(S)' = OfSource(S) \cup {L}
    BY <2>1, <2>2, <2>3 DEF OfSource
  <2>8. \A s : s # S => OfSource(s)' = OfSource(s)
    BY <2>1, <2>2, <2>3 DEF OfSource
  <2>9. L \notin OfSource(S) /\ L \notin DOMAIN tickets
    BY <2>2, <2>3 DEF OfSource
  <2>10. Count(S)' = Count(S) + 1
    <3>1. IsFiniteSet(OfSource(S))
      BY <2>2, Counts
    <3>2. Cardinality(OfSource(S) \cup {L}) = Cardinality(OfSource(S)) + 1
      BY <2>9, <3>1, FS_AddElement
    <3>. QED  BY <2>7, <3>2 DEF Count
  <2>11. \A s : s # S => Count(s)' = Count(s)
    BY <2>8 DEF Count
  <2>12. Numbers(S) = 1 .. Count(S) /\ Count(S) \in Nat
    BY <2>2, Typed, Counts DEF Counted
  <2>13. N = Count(S) + 1
    <3>1. N \notin Numbers(S)
      BY <2>0 DEF Numbers
    <3>. QED  BY <2>0, <2>12, <3>1
  <2>14. Numbers(S)' = Numbers(S) \cup {N}
    <3>1. OfSource(S) \subseteq 1 .. Len(tickets)
      BY <2>3 DEF OfSource
    <3>. QED  BY <2>1, <2>3, <2>7, <3>1 DEF Numbers
  <2>15. \A s : s # S => Numbers(s)' = Numbers(s)
    <3>1. \A s : OfSource(s) \subseteq 1 .. Len(tickets)
      BY <2>3 DEF OfSource
    <3>. QED  BY <2>3, <2>8, <3>1 DEF Numbers
  <2>16. Counted'
    <3>1. Numbers(S)' = 1 .. Count(S)'
      BY <2>10, <2>12, <2>13, <2>14
    <3>2. \A s \in Sources : s # S => Numbers(s)' = 1 .. Count(s)'
      BY <2>11, <2>15, Typed DEF Counted
    <3>. QED  BY <3>1, <3>2 DEF Counted
  <2>17. NumbersDense'
    <3> SUFFICES ASSUME NEW s \in Sources, NEW i \in 1 .. L, tickets'[i].source = s
                 PROVE  {tickets'[j].number : j \in {k \in 1 .. i : tickets'[k].source = s}}
                            = 1 .. tickets'[i].number
      BY <2>3 DEF NumbersDense
    <3>1. CASE i = L
      <4>1. s = S /\ tickets'[i].number = N
        BY <2>1, <2>3, <3>1
      <4>2. {k \in 1 .. i : tickets'[k].source = s} = OfSource(S)'
        BY <2>3, <3>1, <4>1 DEF OfSource
      <4>3. {tickets'[j].number : j \in OfSource(S)'} = Numbers(S)'
        BY DEF Numbers
      <4>4. Numbers(S)' = 1 .. N
        BY <2>12, <2>13, <2>14
      <4>. QED  BY <4>1, <4>2, <4>3, <4>4
    <3>2. CASE i # L
      <4>1. i \in DOMAIN tickets /\ 1 .. i \subseteq 1 .. Len(tickets)
        BY <2>2, <2>3, <3>2
      <4>2. tickets'[i] = tickets[i]
        BY <2>3, <4>1
      <4>3. {k \in 1 .. i : tickets'[k].source = s} = {k \in 1 .. i : tickets[k].source = s}
        BY <2>3, <4>1
      <4>4. {tickets'[j].number : j \in {k \in 1 .. i : tickets[k].source = s}}
              = {tickets[j].number : j \in {k \in 1 .. i : tickets[k].source = s}}
        BY <2>3, <4>1
      <4>. QED  BY <4>1, <4>2, <4>3, <4>4, Typed DEF NumbersDense
    <3>. QED  BY <3>1, <3>2
  <2>18. AllFit'
    <3> SUFFICES ASSUME NEW s \in Requests PROVE Fits(dreq[s])'
      BY DEF AllFit
    <3>1. \A x : Count(x) \in Nat /\ (Count(x)' = Count(x) \/ Count(x)' = Count(x) + 1)
      BY <2>2, <2>10, <2>11, Counts
    <3>2. CASE s = r
      BY <2>2, <2>3, <2>4, <2>6, <3>2 DEF Fits
    <3>3. CASE s # r
      <4>1. Fits(dreq'[s])
        BY <2>6, <3>3, Typed
      <4>2. DOMAIN tickets \subseteq DOMAIN tickets'
        BY <2>2, <2>3
      <4>3. dreq'[s].number \in 1 .. Count(dreq'[s].source) + 1 =>
                dreq'[s].number \in 1 .. Count(dreq[s].source)' + 1
        <5> DEFINE x == dreq'[s].source
        <5>1. /\ Count(x) \in Nat
              /\ Count(dreq[s].source)' = Count(x) \/ Count(dreq[s].source)' = Count(x) + 1
          BY <3>1 DEF Count, OfSource
        <5>. QED  BY <5>1
      <4>. QED  BY <4>1, <4>2, <4>3 DEF Fits
    <3>. QED  BY <3>2, <3>3
  <2>19. TypeOKDesk'
    BY <1>4, <2>3, <2>6, Typed DEF TypeOKDesk
  <2>20. ApprovedWasReviewed'
    BY <1>4, Typed DEF ApprovedWasReviewed
  <2>. QED  BY <2>16, <2>17, <2>18, <2>19, <2>20 DEF DInv
<1>. QED  BY <1>5, <1>6 DEF InsertTicket

(* A message is appended, and a reply goes on to the ticket.               *)
LEMMA WriteKeeps ==
    ASSUME DInv, NEW r \in Requests, WriteMessage(r)
    PROVE  DInv'
<1> DEFINE p == dreq[r]
           q == [p EXCEPT !.at = "update"]
           m == [of |-> p.i, by |-> IF p.op = "reply" THEN "admin" ELSE "user",
                 read |-> FALSE]
<1>1. p.at = "write"
  BY DEF WriteMessage
<1>2. p \in TicketWork /\ Fits(p)
  BY <1>1, Typed, Shapes
<1>3. p.i \in Nat /\ p.i \in DOMAIN tickets
  BY <1>1, <1>2 DEF TicketWork, Fits
<1>4. m \in Messages
  BY <1>3 DEF Messages
<1>5. /\ messages' = Append(messages, m)
      /\ Goes(dreq, r, q) \/ Goes(dreq, r, Idle)
      /\ UNCHANGED <<tickets, file, vetted, dmoves>>
  BY DEF WriteMessage, Ends
<1> HIDE DEF m
<1>6. messages' \in Seq(Messages)
  BY <1>4, <1>5, Typed
<1>7. q \in TicketWork /\ q.at = "update" /\ q.i = p.i
  BY <1>2 DEF TicketWork
<1> HIDE DEF q
<1>8. q \in DeskRequests /\ Fits(q)
  BY <1>3, <1>7 DEF DeskRequests, Fits
<1>9. ApprovedWasReviewed'
  BY <1>5, Typed DEF ApprovedWasReviewed
<1>10. /\ tickets' \in Seq(Tickets) /\ Len(tickets') = Len(tickets)
       /\ \A i \in DOMAIN tickets :
            /\ tickets'[i].source = tickets[i].source
            /\ tickets'[i].number = tickets[i].number
       /\ file' \in [Kinds -> Files \cup {NoFile}]
       /\ vetted' \subseteq 1 .. DeskMoves
       /\ dmoves' \in 0 .. DeskMoves
  BY <1>5, Typed
<1>. QED  BY <1>5, <1>6, <1>8, <1>9, <1>10, IdleFits, Keeps

(* A request that goes on to write to a ticket that is there.              *)
LEMMA WritingFits ==
    ASSUME DInv, NEW at \in {"write", "update"}, NEW op \in DeskOps,
           NEW i \in DOMAIN tickets, NEW t \in Tickets
    PROVE  Writing(at, op, i, t) \in DeskRequests /\ Fits(Writing(at, op, i, t))
<1>1. i \in Nat
  BY Typed
<1>2. Writing(at, op, i, t) \in TicketWork
  BY <1>1 DEF Writing, TicketWork
<1>3. Fits(Writing(at, op, i, t))
  BY DEF Writing, Fits
<1>. QED  BY <1>2, <1>3 DEF DeskRequests

LEMMA Ticket ==
    ASSUME DInv, NEW i \in DOMAIN tickets
    PROVE  tickets[i] \in Tickets /\ i \in Nat
BY Typed

LEMMA ReadsKeep ==
    ASSUME DInv, NEW r \in Requests, NEW i \in DOMAIN tickets,
           NEW at \in {"write", "update"}, NEW op \in DeskOps,
           ReadTicket(r, i, at, op)
    PROVE  DInv'
<1> DEFINE q == Writing(at, op, i, tickets[i])
<1>1. q \in DeskRequests /\ Fits(q)
  BY Ticket, WritingFits
<1>2. Goes(dreq, r, q) /\ UNCHANGED <<tickets, messages, file, vetted>>
  BY DEF ReadTicket
<1>3. dmoves' \in 0 .. DeskMoves
  BY Starts DEF ReadTicket
<1> HIDE DEF q
<1>. QED  BY <1>1, <1>2, <1>3, Moves

LEMMA UpdateKeeps ==
    ASSUME DInv, NEW r \in Requests, UpdateTicket(r)
    PROVE  DInv'
<1> DEFINE p == dreq[r]
           t == Handled(tickets[p.i], p.op, p.ticket)
<1>1. p.at = "update"
  BY DEF UpdateTicket
<1>2. p.i \in DOMAIN tickets
  BY <1>1, Typed DEF Fits
<1>3. tickets[p.i] \in Tickets
  BY <1>2, Ticket
<1>4. \A d \in Tickets : \A op, c :
        /\ Handled(d, op, c) \in Tickets
        /\ Handled(d, op, c).source = d.source
        /\ Handled(d, op, c).number = d.number
  <2> TAKE d \in Tickets
  <2> TAKE op, c
  <2> DEFINE s == Handled(d, op, c).status
             e == Handled(d, op, c).closer
             f == Handled(d, op, c).closedAt
             g == Handled(d, op, c).assigned
  <2>1. /\ s \in {"open", "in progress", "closed"} /\ e \in BOOLEAN
        /\ f \in BOOLEAN /\ g \in BOOLEAN
    BY DEF Handled, Tickets
  <2>2. Handled(d, op, c) = [d EXCEPT !.status = s, !.closer = e, !.closedAt = f,
                                      !.assigned = g]
    BY DEF Handled, Tickets
  <2>3. Handled(d, op, c).source = d.source /\ Handled(d, op, c).number = d.number
    BY DEF Handled, Tickets
  <2> HIDE DEF s, e, f, g
  <2>4. [d EXCEPT !.status = s, !.closer = e, !.closedAt = f, !.assigned = g]
          \in Tickets
    BY <2>1 DEF Tickets
  <2>. QED  BY <2>2, <2>3, <2>4
<1>5. /\ Goes(dreq, r, Idle) /\ tickets' = [tickets EXCEPT ![p.i] = t]
      /\ UNCHANGED <<messages, file, vetted, dmoves>>
  BY DEF UpdateTicket, Ends
<1>6. t \in Tickets /\ t.source = tickets[p.i].source
      /\ t.number = tickets[p.i].number
  BY <1>3, <1>4
<1> HIDE DEF t
<1>. QED  BY <1>2, <1>5, <1>6, IdleFits, Updates

(* Messages are listed, and marked read.                                   *)
LEMMA MarksKeep ==
    ASSUME DInv, NEW r \in Requests,
           \/ \E i, by : ListUnread(r, i, by)
           \/ MarkRead(r)
    PROVE  DInv'
<1>1. ASSUME NEW i, NEW by, ListUnread(r, i, by) PROVE DInv'
  <2> DEFINE ids == {k \in DOMAIN messages :
                       messages[k] = [of |-> i, by |-> by, read |-> FALSE]}
             q == [at |-> "mark", ids |-> ids]
  <2>1. ids \subseteq Nat
    BY Typed
  <2>2. Goes(dreq, r, q) /\ UNCHANGED <<tickets, messages, file, vetted>>
    BY <1>1 DEF ListUnread
  <2>3. dmoves' \in 0 .. DeskMoves
    BY <1>1, Starts DEF ListUnread
  <2> HIDE DEF ids
  <2>4. q \in MarkWork
    BY <2>1 DEF MarkWork
  <2>5. q \in DeskRequests /\ Fits(q)
    BY <2>4 DEF DeskRequests, Fits
  <2> HIDE DEF q
  <2>. QED  BY <2>2, <2>3, <2>5, Moves
<1>2. CASE MarkRead(r)
  <2>1. messages \in Seq(Messages)
    BY Typed
  <2>2. \A k \in DOMAIN messages :
          [messages[k] EXCEPT !.read = IF k \in dreq[r].ids THEN TRUE ELSE @]
              \in Messages
    <3> TAKE k \in DOMAIN messages
    <3> DEFINE b == IF k \in dreq[r].ids THEN TRUE ELSE messages[k].read
    <3>1. messages[k] \in Messages
      BY <2>1
    <3>2. b \in BOOLEAN
      BY <3>1 DEF Messages
    <3> HIDE DEF b
    <3>3. [messages[k] EXCEPT !.read = b] \in Messages
      BY <3>1, <3>2 DEF Messages
    <3>. QED  BY <3>3 DEF b
  <2>3. messages' = [k \in DOMAIN messages |->
          [messages[k] EXCEPT !.read = IF k \in dreq[r].ids THEN TRUE ELSE @]]
    BY <1>2 DEF MarkRead
  <2>4. messages' \in [1 .. Len(messages) -> Messages] /\ Len(messages) \in Nat
    <3>1. DOMAIN messages = 1 .. Len(messages) /\ Len(messages) \in Nat
      BY <2>1
    <3>. QED  BY <2>2, <2>3, <3>1, Zenon
  <2>5. messages' \in Seq(Messages)
    BY <2>4, SeqDef
  <2>6. Goes(dreq, r, Idle) /\ UNCHANGED <<tickets, file, vetted, dmoves>>
    BY <1>2 DEF MarkRead, Ends
  <2>7. ApprovedWasReviewed'
    BY <2>6, Typed DEF ApprovedWasReviewed
  <2>8. /\ tickets' \in Seq(Tickets) /\ Len(tickets') = Len(tickets)
        /\ \A i \in DOMAIN tickets :
             /\ tickets'[i].source = tickets[i].source
             /\ tickets'[i].number = tickets[i].number
        /\ file' \in [Kinds -> Files \cup {NoFile}]
        /\ vetted' \subseteq 1 .. DeskMoves
        /\ dmoves' \in 0 .. DeskMoves
    BY <2>6, Typed
  <2>. QED  BY <2>5, <2>6, <2>7, <2>8, IdleFits, Keeps
<1>. QED  BY <1>1, <1>2

(* An upload is new; an administrator's own counts as vetted.              *)
LEMMA UploadsKeep ==
    ASSUME DInv, NEW r \in Requests, NEW k \in Kinds,
           UploadDocument(r, k) \/ UploadApproved(r, k)
    PROVE  DInv'
<1>1. PICK d \in Files :
        /\ file' = [file EXCEPT ![k] = d]
        /\ vetted \subseteq vetted'
        /\ vetted' \subseteq 1 .. DeskMoves
        /\ d.status = "approved" => d.key \in vetted'
  <2> DEFINE st == IF UploadDocument(r, k) THEN "pending" ELSE "approved"
             d == [key |-> dmoves + 1, status |-> st]
  <2>1. dmoves + 1 \in 1 .. DeskMoves
    BY Starts DEF UploadDocument, UploadApproved, Upload
  <2>2. d \in Files
    BY <2>1 DEF Files
  <2>3. file' = [file EXCEPT ![k] = d]
    BY DEF UploadDocument, UploadApproved, Upload
  <2>4. vetted \subseteq vetted' /\ vetted' \subseteq 1 .. DeskMoves
    BY <2>1, Typed DEF UploadDocument, UploadApproved
  <2>5. d.status = "approved" => d.key \in vetted'
    BY DEF UploadDocument, UploadApproved
  <2> HIDE DEF d
  <2>. QED  BY <2>2, <2>3, <2>4, <2>5
<1>2. PICK q \in DeskRequests : Goes(dreq, r, q) /\ Fits(q)
  <2>1. CASE UploadDocument(r, k)
    <3> DEFINE q == [at |-> "find open"]
    <3>1. q \in FindWork
      BY DEF FindWork
    <3>2. q \in DeskRequests /\ Fits(q)
      BY <3>1 DEF DeskRequests, Fits
    <3>. QED  BY <2>1, <3>2 DEF UploadDocument
  <2>2. CASE UploadApproved(r, k)
    <3>1. dreq[r] \in DeskRequests /\ Fits(dreq[r])
      BY Typed
    <3>2. dreq' = [dreq EXCEPT ![r] = dreq[r]]
      BY <2>2, Typed DEF UploadApproved
    <3>. QED  BY <3>1, <3>2 DEF Goes
  <2>. QED  BY <2>1, <2>2
<1>3. file' \in [Kinds -> Files \cup {NoFile}]
  BY <1>1, Typed
<1>4. ApprovedWasReviewed'
  BY <1>1, Typed DEF ApprovedWasReviewed
<1>5. tickets' = tickets /\ messages' = messages /\ dmoves' \in 0 .. DeskMoves
  BY Starts DEF UploadDocument, UploadApproved, Upload
<1>6. /\ tickets' \in Seq(Tickets) /\ Len(tickets') = Len(tickets)
      /\ \A i \in DOMAIN tickets :
           /\ tickets'[i].source = tickets[i].source
           /\ tickets'[i].number = tickets[i].number
      /\ messages' \in Seq(Messages)
  BY <1>5, Typed
<1>. QED  BY <1>1, <1>2, <1>3, <1>4, <1>5, <1>6, Keeps

(* enqueue finds a review, opens one again, or asks for a new one; and the *)
(* end of a review finds the tickets to close.                             *)
LEMMA FindsKeep ==
    ASSUME DInv, NEW r \in Requests,
           FindOpen(r) \/ FindLatest(r) \/ FindToClose(r)
    PROVE  DInv'
<1>1. /\ UNCHANGED <<tickets, messages, file, vetted>>
      /\ dmoves' \in 0 .. DeskMoves
  BY Typed DEF FindOpen, FindLatest, FindToClose
<1>2. ASSUME NEW i \in DOMAIN tickets,
             Goes(dreq, r, Writing("write", "message", i, tickets[i]))
      PROVE  DInv'
  <2> DEFINE q == Writing("write", "message", i, tickets[i])
  <2>1. q \in DeskRequests /\ Fits(q)
    BY Ticket, WritingFits DEF DeskOps
  <2>2. Goes(dreq, r, q)
    BY <1>2
  <2> HIDE DEF q
  <2>. QED  BY <1>1, <2>1, <2>2, Moves
<1>3. ASSUME NEW i \in DOMAIN tickets, NEW at \in {"revive", "conclude"},
             Goes(dreq, r, [at |-> at, i |-> i])
      PROVE  DInv'
  <2> DEFINE q == [at |-> at, i |-> i]
  <2>1. q \in ReviewWork
    BY Ticket DEF ReviewWork
  <2>2. q \in DeskRequests /\ Fits(q)
    BY <2>1 DEF DeskRequests, Fits
  <2>3. Goes(dreq, r, q)
    BY <1>3
  <2> HIDE DEF q
  <2>. QED  BY <1>1, <2>2, <2>3, Moves
<1>4. CASE Goes(dreq, r, [at |-> "find latest"])
  <2> DEFINE q == [at |-> "find latest"]
  <2>1. q \in FindWork
    BY DEF FindWork
  <2>2. q \in DeskRequests /\ Fits(q)
    BY <2>1 DEF DeskRequests, Fits
  <2>. QED  BY <1>1, <1>4, <2>2, Moves
<1>5. CASE Goes(dreq, r, [at |-> "number", source |-> "review", ours |-> TRUE,
                          number |-> 0])
  <2> DEFINE q == [at |-> "number", source |-> "review", ours |-> TRUE,
                   number |-> 0]
  <2>1. q \in NumberWork
    BY DEF NumberWork, Sources
  <2>2. q \in DeskRequests /\ Fits(q)
    BY <2>1 DEF DeskRequests, Fits
  <2>. QED  BY <1>1, <1>5, <2>2, Moves
<1>6. CASE Goes(dreq, r, Idle)
  BY <1>1, <1>6, IdleFits, Moves
<1>7. Reviews \subseteq DOMAIN tickets /\ OpenOnes \subseteq DOMAIN tickets
  BY DEF Reviews, OpenOnes
<1>8. CASE FindOpen(r)
  BY <1>2, <1>4, <1>7, <1>8 DEF FindOpen
<1>9. CASE FindLatest(r)
  BY <1>3, <1>5, <1>7, <1>9 DEF FindLatest
<1>10. CASE FindToClose(r)
  BY <1>3, <1>6, <1>7, <1>10 DEF FindToClose, Ends
<1>. QED  BY <1>8, <1>9, <1>10

LEMMA ReviveKeeps ==
    ASSUME DInv, NEW r \in Requests, Revive(r)
    PROVE  DInv'
<1> DEFINE i == dreq[r].i
           t == [tickets[i] EXCEPT !.status = "open", !.closer = FALSE,
                                   !.closedAt = FALSE]
           q == Writing("write", "message", i, t)
<1>1. dreq[r].at = "revive"
  BY DEF Revive
<1>2. i \in DOMAIN tickets
  BY <1>1, Typed DEF Fits
<1>3. tickets[i] \in Tickets /\ tickets \in Seq(Tickets)
  BY <1>2, Typed, Ticket
<1>4. t \in Tickets /\ t.source = tickets[i].source /\ t.number = tickets[i].number
  BY <1>3 DEF Tickets
<1>5. /\ tickets' = [tickets EXCEPT ![i] = t]
      /\ Goes(dreq, r, Writing("write", "message", i, tickets'[i]))
      /\ UNCHANGED <<messages, file, vetted, dmoves>>
  BY DEF Revive
<1> HIDE DEF t
<1>6. tickets'[i] = t
  BY <1>2, <1>3, <1>5
<1>7. Goes(dreq, r, q)
  BY <1>5, <1>6
<1>8. q \in DeskRequests /\ Fits(q)
  BY <1>2, <1>4, WritingFits DEF DeskOps
<1> HIDE DEF q
<1>. QED  BY <1>2, <1>4, <1>5, <1>7, <1>8, Updates

LEMMA ConcludeKeeps ==
    ASSUME DInv, NEW r \in Requests, Conclude(r)
    PROVE  DInv'
<1> DEFINE i == dreq[r].i
           t == [tickets[i] EXCEPT !.status = "closed", !.closedAt = TRUE]
<1>1. dreq[r].at = "conclude"
  BY DEF Conclude
<1>2. i \in DOMAIN tickets
  BY <1>1, Typed DEF Fits
<1>3. tickets[i] \in Tickets
  BY <1>2, Ticket
<1>4. t \in Tickets /\ t.source = tickets[i].source /\ t.number = tickets[i].number
  BY <1>3 DEF Tickets
<1>5. /\ tickets' = [tickets EXCEPT ![i] = t] /\ Goes(dreq, r, Idle)
      /\ UNCHANGED <<messages, file, vetted, dmoves>>
  BY DEF Conclude, Ends
<1> HIDE DEF t
<1>. QED  BY <1>2, <1>4, <1>5, IdleFits, Updates

LEMMA ReviewsKeep ==
    ASSUME DInv, NEW r \in Requests, NEW k \in Kinds,
           ApproveDocument(r, k) \/ RejectDocument(r, k)
    PROVE  DInv'
<1>1. PICK v \in {"approved", "rejected"} : ReviewFile(r, k, v)
  BY DEF ApproveDocument, RejectDocument
<1> DEFINE q == [at |-> "decide", kind |-> k, seen |-> file[k], verdict |-> v]
<1>2. file[k] \in Files
  <2>1. file[k] \in Files \cup {NoFile} /\ file[k].status = "pending"
    BY <1>1, Typed DEF ReviewFile
  <2>2. NoFile.status = "absent"
    BY DEF NoFile
  <2>. QED  BY <2>1, <2>2
<1>3. q \in DecideWork
  BY <1>2 DEF DecideWork
<1>4. q \in DeskRequests /\ Fits(q)
  BY <1>3 DEF DeskRequests, Fits
<1>5. Goes(dreq, r, q) /\ UNCHANGED <<tickets, messages, file, vetted>>
  BY <1>1 DEF ReviewFile
<1>6. dmoves' \in 0 .. DeskMoves
  BY <1>1, Starts DEF ReviewFile
<1> HIDE DEF q
<1>. QED  BY <1>4, <1>5, <1>6, Moves

(* The verdict is stored with the upload it is about.                      *)
LEMMA DecideKeeps ==
    ASSUME DInv, NEW r \in Requests, Decide(r)
    PROVE  DInv'
<1> DEFINE p == dreq[r]
           d == [p.seen EXCEPT !.status = p.verdict]
<1>1. p.at = "decide"
  BY DEF Decide
<1>2. p \in DecideWork
  BY <1>1, Typed, Shapes
<1>3. p.kind \in Kinds /\ p.seen \in Files /\ p.verdict \in {"approved", "rejected"}
  BY <1>2 DEF DecideWork
<1>4. d \in Files /\ d.status = p.verdict /\ d.key = p.seen.key
      /\ p.seen.key \in 1 .. DeskMoves
  BY <1>3 DEF Files
<1>5. /\ file' = [file EXCEPT ![p.kind] = d]
      /\ vetted' = IF p.verdict = "approved" THEN vetted \cup {p.seen.key}
                                             ELSE vetted
      /\ UNCHANGED <<tickets, messages, dmoves>>
      /\ Goes(dreq, r, Idle) \/ Goes(dreq, r, [at |-> "find to close"])
  BY DEF Decide, Ends
<1>6. PICK q \in DeskRequests : Goes(dreq, r, q) /\ Fits(q)
  <2> DEFINE f == [at |-> "find to close"]
  <2>1. f \in FindWork
    BY DEF FindWork
  <2>2. f \in DeskRequests /\ Fits(f)
    BY <2>1 DEF DeskRequests, Fits
  <2>. QED  BY <1>5, <2>2, IdleFits
<1> HIDE DEF d
<1>7. /\ file' \in [Kinds -> Files \cup {NoFile}]
      /\ vetted' \subseteq 1 .. DeskMoves /\ vetted \subseteq vetted'
  BY <1>3, <1>4, <1>5, Typed
<1>8. ApprovedWasReviewed'
  BY <1>3, <1>4, <1>5, <1>7, Typed DEF ApprovedWasReviewed
<1>9. /\ tickets' \in Seq(Tickets) /\ Len(tickets') = Len(tickets)
      /\ \A i \in DOMAIN tickets :
           /\ tickets'[i].source = tickets[i].source
           /\ tickets'[i].number = tickets[i].number
      /\ messages' \in Seq(Messages)
      /\ dmoves' \in 0 .. DeskMoves
  BY <1>5, Typed
<1>. QED  BY <1>6, <1>7, <1>8, <1>9, Keeps

LEMMA DInvKept == DInv /\ [DeskNext]_dvars => DInv'
<1> SUFFICES ASSUME DInv, [DeskNext]_dvars PROVE DInv'
  OBVIOUS
<1>1. CASE UNCHANGED dvars
  <2>1. /\ tickets' = tickets /\ messages' = messages /\ file' = file
        /\ vetted' = vetted /\ dreq' = dreq /\ dmoves' = dmoves
    BY <1>1 DEF dvars
  <2>2. TypeOKDesk' /\ ApprovedWasReviewed'
    BY <2>1, Typed DEF TypeOKDesk, ApprovedWasReviewed
  <2>3. Counted' /\ NumbersDense'
    BY <2>1, Typed, SameTickets
  <2>4. AllFit'
    <3> SUFFICES ASSUME NEW s \in Requests PROVE Fits(dreq[s])'
      BY DEF AllFit
    <3>1. Fits(dreq[s])
      BY Typed
    <3>. QED  BY <2>1, <3>1 DEF Fits, Count, OfSource
  <2>. QED  BY <2>2, <2>3, <2>4 DEF DInv
<1>2. ASSUME NEW r \in Requests, DeskStep(r) PROVE DInv'
  <2>1. CASE DeskRaises(r)
    <3>1. /\ Goes(dreq, r, Idle) /\ UNCHANGED <<tickets, messages, file, vetted>>
          /\ dmoves' \in 0 .. DeskMoves
      BY <2>1, Typed DEF DeskRaises, Raises, Ends
    <3>. QED  BY <3>1, IdleFits, Moves
  <2>2. CASE \/ CreateTicket(r) \/ CreateExternalContact(r)
             \/ CreateContactRequest(r) \/ ReviewElsewhere(r)
    BY <2>2, AsksKeep DEF CreateTicket, CreateExternalContact,
       CreateContactRequest, ReviewElsewhere, Sources, Visits
  <2>3. ASSUME NEW i \in DOMAIN tickets,
               \/ AddTicketMessage(r, i) \/ AddAdminReply(r, i)
               \/ CloseTicket(r, i) \/ ReopenTicket(r, i) \/ AssignTicket(r, i)
        PROVE  DInv'
    BY <2>3, ReadsKeep DEF AddTicketMessage, AddAdminReply, CloseTicket,
       ReopenTicket, AssignTicket, DeskOps
  <2>4. ASSUME NEW i, MarkUserMessagesRead(r, i) \/ MarkAdminMessagesRead(r, i)
        PROVE  DInv'
    BY <2>4, MarksKeep DEF MarkUserMessagesRead, MarkAdminMessagesRead
  <2>. QED  BY <1>2, <2>1, <2>2, <2>3, <2>4, NumberKeeps, InsertKeeps, WriteKeeps,
               UpdateKeeps, MarksKeep, UploadsKeep, FindsKeep, ReviveKeeps,
               ReviewsKeep, DecideKeeps, ConcludeKeeps DEF DeskStep
<1>. QED  BY <1>1, <1>2 DEF DeskNext

LEMMA DInvHolds == DeskSpec => []DInv
BY DeskStart, DInvKept, PTL DEF DeskSpec

-----------------------------------------------------------------------------
(* One request at a time                                                   *)

(* What the only request knows: its copy of a ticket is fresh, the number  *)
(* it chose is free, and what it looked for has not come since.            *)
Solo(q) ==
    /\ q.at \in {"write", "update"} => q.ticket = tickets[q.i]
    /\ q.at = "find latest" => OpenOnes = {}
    /\ q.at \in {"number", "insert"} /\ q.ours =>
           q.source = "review" /\ Reviews = {}
    /\ q.at = "insert" => q.number = Count(q.source) + 1
    /\ q.at = "revive" => q.i \in Reviews
    /\ q.at \in {"find to close", "conclude"} =>
           \A k \in Kinds : file[k].status # "pending"

Dated ==
    \A i \in DOMAIN tickets :
        /\ tickets[i].closedAt <=> tickets[i].status = "closed"
        /\ tickets[i].closer => tickets[i].closedAt
        /\ tickets[i].ours => tickets[i].source = "review"

OneReview == \A i, j \in Reviews : i = j

(* A ticket with a reply has what the reply sets, or q is about to set it. *)
Answers(q, i) == q.at = "update" /\ q.op = "reply" /\ q.i = i

Answered(t) == t.assigned /\ (t.status = "open" => t.source = "review")

AnsweredBy(q) ==
    \A k \in DOMAIN messages :
        messages[k].by = "admin" =>
            Answered(tickets[messages[k].of]) \/ Answers(q, messages[k].of)

(* Documents that wait have a ticket, or q is about to queue one.          *)
Waiting == \E k \in Kinds : file[k].status = "pending"

Queues(q) ==
    \/ q.at \in {"find open", "find latest", "revive"}
    \/ q.at \in {"number", "insert"} /\ q.ours

Queued == \E i \in Reviews : tickets[i].status # "closed" \/ tickets[i].closer

QueuedBy(q) == Waiting => Queued \/ Queues(q)

Good(q) ==
    /\ Solo(q) /\ Dated /\ OneReview
    /\ ~faults => AnsweredBy(q) /\ QueuedBy(q)

Heard == \A k \in DOMAIN messages : messages[k].of \in DOMAIN tickets

Alone == \A r, s \in Requests : dreq[r] # Idle /\ dreq[s] # Idle => r = s

(* r takes the next step if requests do not overlap.                       *)
Next1(r) == dreq[r] # Idle \/ AllIdle(dreq)

SInv ==
    /\ Heard
    /\ ~overlap => /\ Alone
                   /\ AllIdle(dreq) => Good(Idle)
                   /\ \A r \in Requests : dreq[r] # Idle => Good(dreq[r])

(* A step of the only request, which goes on to q.                         *)
LEMMA OneMoves ==
    ASSUME DInv, SInv, Heard', NEW r \in Requests, NEW q, Goes(dreq, r, q),
           overlap' = overlap, ~overlap => Next1(r),
           Good(dreq[r]) => Good(q)'
    PROVE  SInv'
<1> SUFFICES ASSUME ~overlap
             PROVE  /\ Alone'
                    /\ AllIdle(dreq)' => Good(Idle)'
                    /\ \A s \in Requests : dreq'[s] # Idle => Good(dreq[s])'
  BY DEF SInv
<1>1. dreq'[r] = q /\ \A s \in Requests \ {r} : dreq'[s] = dreq[s]
  BY Typed DEF Goes
<1>2. \A s \in Requests \ {r} : dreq[s] = Idle
  BY DEF SInv, Alone, Next1, AllIdle
<1>3. Good(dreq[r])
  <2>1. CASE dreq[r] # Idle
    BY <2>1 DEF SInv
  <2>2. CASE AllIdle(dreq)
    <3>1. dreq[r] = Idle /\ Good(Idle)
      BY <2>2 DEF SInv, AllIdle
    <3>. QED  BY <3>1
  <2>. QED  BY <2>1, <2>2 DEF Next1
<1>4. Good(q)'
  BY <1>3
<1>5. Alone'
  BY <1>1, <1>2 DEF Alone
<1>6. AllIdle(dreq)' => Good(Idle)'
  <2>1. AllIdle(dreq)' => q = Idle
    BY <1>1 DEF AllIdle
  <2>. QED  BY <1>4, <2>1 DEF Good, Solo, AnsweredBy, Answers, QueuedBy, Queues
<1>7. ASSUME NEW s \in Requests, dreq'[s] # Idle
      PROVE  Good(dreq[s])'
  <2>1. dreq'[s] = q
    BY <1>1, <1>2, <1>7
  <2>. QED  BY <1>4, <2>1 DEF Good, Solo, AnsweredBy, Answers, QueuedBy, Queues
<1>. QED  BY <1>5, <1>6, <1>7

(* A step that changes no collection.                                      *)
LEMMA FrameGood ==
    ASSUME NEW p, NEW q, Good(p), Solo(q),
           UNCHANGED <<faults, tickets, messages, file>>,
           faults \/ p.at # "update",
           faults \/ (Queues(p) => Queues(q) \/ Queued)
    PROVE  Good(q)'
<1>1. /\ tickets' = tickets /\ messages' = messages /\ file' = file
      /\ faults' = faults
  OBVIOUS
<1>2. Solo(q)'
  BY <1>1 DEF Solo, OpenOnes, Reviews, Count, OfSource
<1>3. Dated' /\ OneReview'
  BY <1>1 DEF Good, Dated, OneReview, Reviews
<1>4. ASSUME ~faults
      PROVE  AnsweredBy(q)' /\ QueuedBy(q)'
  <2>1. AnsweredBy(q)'
    BY <1>1, <1>4 DEF Good, AnsweredBy, Answers
  <2>2. QueuedBy(q)
    BY <1>4 DEF Good, QueuedBy
  <2>3. QueuedBy(q)'
    BY <1>1, <2>2 DEF QueuedBy, Waiting, Queued, Queues, Reviews
  <2>. QED  BY <2>1, <2>3
<1>. QED  BY <1>1, <1>2, <1>3, <1>4 DEF Good

(* The same, for the invariant.                                            *)
LEMMA FrameKeeps ==
    ASSUME DInv, SInv, NEW r \in Requests, NEW q, Goes(dreq, r, q),
           ~overlap => Next1(r), Good(dreq[r]) => Solo(q),
           UNCHANGED <<overlap, faults, tickets, messages, file>>,
           faults \/ dreq[r].at # "update",
           Good(dreq[r]) => faults \/ (Queues(dreq[r]) => Queues(q) \/ Queued)
    PROVE  SInv'
<1>1. Heard'
  BY DEF SInv, Heard
<1>2. PICK p : p = dreq[r]
  OBVIOUS
<1>3. Good(p) => Good(q)'
  BY <1>2, FrameGood
<1>4. Good(dreq[r]) => Good(q)'
  BY <1>2, <1>3
<1>. QED  BY <1>1, <1>4, OneMoves

LEMMA IdleIs == /\ Idle.at = "idle" /\ Solo(Idle) /\ ~Queues(Idle)
                /\ \A i : ~Answers(Idle, i)
<1>1. Idle.at = "idle"
  BY DEF Idle
<1>. QED  BY <1>1 DEF Solo, Queues, Answers

LEMMA StartsIdle ==
    ASSUME NEW r \in Requests, StartDesk(r)
    PROVE  dreq[r].at = "idle" /\ ~Queues(dreq[r]) /\ (~overlap => Next1(r))
<1>1. MayStart(dreq, r)
  BY DEF StartDesk
<1>2. dreq[r] = Idle /\ (overlap \/ AllIdle(dreq))
  BY <1>1, Zenon DEF MayStart
<1>. QED  BY <1>2, IdleIs DEF Next1

(* A request starts, without a step on any collection.                     *)
LEMMA StartKeeps ==
    ASSUME DInv, SInv, NEW r \in Requests, StartDesk(r), NEW q, Goes(dreq, r, q),
           Good(dreq[r]) => Solo(q),
           UNCHANGED <<overlap, faults, tickets, messages, file>>
    PROVE  SInv'
BY StartsIdle, FrameKeeps

LEMMA AskSolo ==
    ASSUME DInv, SInv, NEW r \in Requests, NEW s \in Sources, AskTicket(r, s)
    PROVE  SInv'
<1>1. PICK q : q = [at |-> "number", source |-> s, ours |-> FALSE, number |-> 0]
  OBVIOUS
<1>2. Goes(dreq, r, q) /\ StartDesk(r)
      /\ UNCHANGED <<overlap, faults, tickets, messages, file>>
  BY <1>1 DEF AskTicket
<1>3. Solo(q)
  BY <1>1 DEF Solo
<1>. QED  BY <1>2, <1>3, StartKeeps

LEMMA NumberSolo ==
    ASSUME DInv, SInv, NEW r \in Requests, NumberTicket(r)
    PROVE  SInv'
<1>1. dreq[r].at = "number" /\ dreq[r] \in NumberWork /\ dreq[r] # Idle
  <2>1. dreq[r].at = "number"
    BY DEF NumberTicket
  <2>. QED  BY <2>1, Typed, Shapes, IdleIs
<1>2. PICK n : n = Count(dreq[r].source) + 1
  OBVIOUS
<1>3. PICK q : q = [dreq[r] EXCEPT !.at = "insert", !.number = n]
  OBVIOUS
<1>4. Goes(dreq, r, q)
  BY <1>2, <1>3 DEF NumberTicket, Count
<1>5. /\ q.at = "insert" /\ q.ours = dreq[r].ours /\ q.source = dreq[r].source
      /\ q.number = n
  BY <1>1, <1>3 DEF NumberWork
<1>6. Good(dreq[r]) => Solo(q)
  BY <1>1, <1>2, <1>5 DEF Good, Solo
<1>7. Queues(dreq[r]) => Queues(q)
  BY <1>1, <1>5 DEF Queues
<1>8. UNCHANGED <<overlap, faults, tickets, messages, file>>
  BY DEF NumberTicket
<1>9. ~overlap => Next1(r)
  BY <1>1 DEF Next1
<1>. QED  BY <1>1, <1>4, <1>6, <1>7, <1>8, <1>9, FrameKeeps

(* A request starts to write to a ticket, or finds the review to write to. *)
LEMMA WritingSolo ==
    ASSUME NEW at \in {"write", "update"}, NEW op, NEW i \in DOMAIN tickets
    PROVE  Solo(Writing(at, op, i, tickets[i]))
BY DEF Writing, Solo

LEMMA ReadSolo ==
    ASSUME DInv, SInv, NEW r \in Requests, NEW i \in DOMAIN tickets,
           NEW at \in {"write", "update"}, NEW op, ReadTicket(r, i, at, op)
    PROVE  SInv'
<1>1. PICK q : q = Writing(at, op, i, tickets[i])
  OBVIOUS
<1>2. Goes(dreq, r, q) /\ StartDesk(r)
      /\ UNCHANGED <<overlap, faults, tickets, messages, file>>
  BY <1>1 DEF ReadTicket
<1>3. Solo(q)
  BY <1>1, WritingSolo
<1>. QED  BY <1>2, <1>3, StartKeeps

LEMMA ListSolo ==
    ASSUME DInv, SInv, NEW r \in Requests, NEW i, NEW by, ListUnread(r, i, by)
    PROVE  SInv'
<1>1. PICK q : q.at = "mark" /\ Goes(dreq, r, q)
  BY DEF ListUnread
<1>2. StartDesk(r) /\ UNCHANGED <<overlap, faults, tickets, messages, file>>
  BY DEF ListUnread
<1>3. Solo(q)
  BY <1>1 DEF Solo
<1>. QED  BY <1>1, <1>2, <1>3, StartKeeps

LEMMA ReviewSolo ==
    ASSUME DInv, SInv, NEW r \in Requests, NEW k, NEW v, ReviewFile(r, k, v)
    PROVE  SInv'
<1>1. PICK q : q.at = "decide" /\ Goes(dreq, r, q)
  BY DEF ReviewFile
<1>2. StartDesk(r) /\ UNCHANGED <<overlap, faults, tickets, messages, file>>
  BY DEF ReviewFile
<1>3. Solo(q)
  BY <1>1 DEF Solo
<1>. QED  BY <1>1, <1>2, <1>3, StartKeeps

(* A request at work, none of whose steps changes a collection.            *)
LEMMA WorkKeeps ==
    ASSUME DInv, SInv, NEW r \in Requests, dreq[r].at \notin {"idle", "update"},
           NEW q, Goes(dreq, r, q), Good(dreq[r]) => Solo(q),
           UNCHANGED <<overlap, faults, tickets, messages, file>>,
           Queues(dreq[r]) => Queues(q) \/ Queued
    PROVE  SInv'
<1>1. ~overlap => Next1(r)
  BY IdleIs DEF Next1
<1>. QED  BY <1>1, FrameKeeps

LEMMA FindOpenSolo ==
    ASSUME DInv, SInv, NEW r \in Requests, FindOpen(r)
    PROVE  SInv'
<1>1. /\ UNCHANGED <<overlap, faults, tickets, messages, file>>
      /\ dreq[r].at \notin {"idle", "update"}
  BY DEF FindOpen
<1>2. ASSUME NEW i \in OpenOnes,
             Goes(dreq, r, Writing("write", "message", i, tickets[i]))
      PROVE  SInv'
  <2>1. PICK q : q = Writing("write", "message", i, tickets[i])
    OBVIOUS
  <2>2. Goes(dreq, r, q)
    BY <1>2, <2>1
  <2>3. i \in DOMAIN tickets
    BY DEF OpenOnes, Reviews
  <2>4. Solo(q)
    <3>1. q = Writing("write", "message", i, tickets[i])
      BY <2>1
    <3>. QED  BY <2>3, <3>1, WritingSolo
  <2>5. Queued
    BY DEF OpenOnes, Queued
  <2>. QED  BY <1>1, <2>2, <2>4, <2>5, WorkKeeps
<1>3. CASE OpenOnes = {} /\ Goes(dreq, r, [at |-> "find latest"])
  <2>1. PICK q : q = [at |-> "find latest"]
    OBVIOUS
  <2>2. Goes(dreq, r, q) /\ q.at = "find latest"
    BY <1>3, <2>1
  <2>3. Solo(q) /\ Queues(q)
    BY <1>3, <2>2 DEF Solo, Queues
  <2>. QED  BY <1>1, <2>2, <2>3, WorkKeeps
<1>. QED  BY <1>2, <1>3 DEF FindOpen

(* With no open review, the only one there may be is the latest.           *)
LEMMA FindLatestSolo ==
    ASSUME DInv, SInv, NEW r \in Requests, FindLatest(r)
    PROVE  SInv'
<1>1. /\ UNCHANGED <<overlap, faults, tickets, messages, file>>
      /\ dreq[r].at = "find latest"
  BY DEF FindLatest
<1>2. ASSUME NEW i \in Reviews, Goes(dreq, r, [at |-> "revive", i |-> i])
      PROVE  SInv'
  <2>1. PICK q : q = [at |-> "revive", i |-> i]
    OBVIOUS
  <2>2. Goes(dreq, r, q) /\ q.at = "revive" /\ q.i = i
    BY <1>2, <2>1
  <2>3. Solo(q) /\ Queues(q)
    BY <2>2 DEF Solo, Queues
  <2>. QED  BY <1>1, <2>2, <2>3, WorkKeeps
<1>3. CASE /\ \A i \in Reviews : IsLatest(i) => tickets[i].status # "closed"
           /\ Goes(dreq, r, [at |-> "number", source |-> "review", ours |-> TRUE,
                             number |-> 0])
  <2>1. PICK q : q = [at |-> "number", source |-> "review", ours |-> TRUE,
                      number |-> 0]
    OBVIOUS
  <2>2. Goes(dreq, r, q) /\ q.at = "number" /\ q.ours /\ q.source = "review"
    BY <1>3, <2>1
  <2>3. Good(dreq[r]) => Reviews = {}
    <3> SUFFICES ASSUME Good(dreq[r]), NEW i \in Reviews
                 PROVE  FALSE
      OBVIOUS
    <3>1. OpenOnes = {} /\ OneReview
      BY <1>1 DEF Good, Solo
    <3>2. tickets[i].status = "closed" /\ i \in Nat
      BY <3>1, Typed DEF OpenOnes, Reviews
    <3>3. IsLatest(i)
      BY <3>1, <3>2 DEF IsLatest, OneReview
    <3>. QED  BY <1>3, <3>2, <3>3
  <2>4. (Good(dreq[r]) => Solo(q)) /\ Queues(q)
    BY <2>2, <2>3 DEF Solo, Queues
  <2>. QED  BY <1>1, <2>2, <2>4, WorkKeeps
<1>. QED  BY <1>2, <1>3 DEF FindLatest

LEMMA FindToCloseSolo ==
    ASSUME DInv, SInv, NEW r \in Requests, FindToClose(r)
    PROVE  SInv'
<1>1. /\ UNCHANGED <<overlap, faults, tickets, messages, file>>
      /\ dreq[r].at = "find to close"
  BY DEF FindToClose
<1>2. ~Queues(dreq[r])
  BY <1>1 DEF Queues
<1>3. PICK q : /\ Goes(dreq, r, q)
               /\ q = Idle \/ q.at = "conclude"
  <2>1. CASE Goes(dreq, r, Idle)
    BY <2>1
  <2>2. ASSUME NEW i, Goes(dreq, r, [at |-> "conclude", i |-> i])
        PROVE  \E q : Goes(dreq, r, q) /\ q.at = "conclude"
    <3>1. [at |-> "conclude", i |-> i].at = "conclude"
      OBVIOUS
    <3>. QED  BY <2>2, <3>1
  <2>3. Goes(dreq, r, Idle) \/ \E i : Goes(dreq, r, [at |-> "conclude", i |-> i])
    BY DEF FindToClose, Ends
  <2>. QED  BY <2>1, <2>2, <2>3
<1>4. Good(dreq[r]) => Solo(q)
  <2>1. CASE q = Idle
    BY <2>1, IdleIs
  <2>2. CASE q.at = "conclude"
    BY <1>1, <2>2 DEF Good, Solo
  <2>. QED  BY <1>3, <2>1, <2>2
<1>. QED  BY <1>1, <1>2, <1>3, <1>4, WorkKeeps

LEMMA RaiseSolo ==
    ASSUME DInv, SInv, NEW r \in Requests, DeskRaises(r)
    PROVE  SInv'
<1>1. /\ faults /\ Goes(dreq, r, Idle) /\ dreq[r] # Idle
      /\ UNCHANGED <<overlap, faults, tickets, messages, file>>
  BY DEF DeskRaises, Raises, Ends
<1>. QED  BY <1>1, IdleIs, FrameKeeps DEF Next1

(* Messages gain a mark, or one message; tickets and documents stay.       *)
LEMMA MessagesGood ==
    ASSUME DInv, NEW p, NEW q, Good(p), Solo(q), Heard,
           UNCHANGED <<faults, tickets, file>>,
           \A k \in DOMAIN messages' :
               \/ /\ k \in DOMAIN messages
                  /\ messages'[k].of = messages[k].of
                  /\ messages'[k].by = messages[k].by
               \/ messages'[k].by = "admin" => Answers(q, messages'[k].of),
           p.at # "update", ~Queues(p)
    PROVE  Good(q)'
<1>1. tickets' = tickets /\ file' = file /\ faults' = faults
  OBVIOUS
<1>2. Solo(q)' /\ Dated' /\ OneReview'
  <2>1. Dated
    BY DEF Good
  <2>2. Dated'
    BY <1>1, <2>1 DEF Dated
  <2>3. Reviews' = Reviews /\ OpenOnes' = OpenOnes
    BY <1>1 DEF OpenOnes, Reviews
  <2>4. OneReview'
    BY <2>3 DEF Good, OneReview
  <2>5. Count(q.source)' = Count(q.source)
    BY <1>1 DEF Count, OfSource
  <2>6. Solo(q)'
    BY <1>1, <2>3, <2>5 DEF Solo
  <2>. QED  BY <2>2, <2>4, <2>6
<1>3. ASSUME ~faults
      PROVE  AnsweredBy(q)' /\ QueuedBy(q)'
  <2>1. AnsweredBy(q)'
    <3> SUFFICES ASSUME NEW k \in DOMAIN messages', messages'[k].by = "admin"
                 PROVE  \/ Answered(tickets[messages'[k].of])
                        \/ Answers(q, messages'[k].of)
      BY <1>1 DEF AnsweredBy, Answers, Answered
    <3>1. ~Answers(p, messages'[k].of)
      BY DEF Answers
    <3>. QED  BY <1>3, <3>1 DEF Good, AnsweredBy
  <2>2. Waiting => Queued
    BY <1>3 DEF Good, QueuedBy
  <2>3. QueuedBy(q)'
    BY <1>1, <2>2 DEF QueuedBy, Waiting, Queued, Reviews
  <2>. QED  BY <2>1, <2>3
<1>. QED  BY <1>1, <1>2, <1>3 DEF Good

LEMMA MarkSolo ==
    ASSUME DInv, SInv, NEW r \in Requests, MarkRead(r)
    PROVE  SInv'
<1>1. /\ dreq[r].at = "mark" /\ Goes(dreq, r, Idle)
      /\ UNCHANGED <<overlap, faults, tickets, file>>
  BY DEF MarkRead, Ends
<1>2. /\ DOMAIN messages' = DOMAIN messages
      /\ \A k \in DOMAIN messages : /\ messages'[k].of = messages[k].of
                                    /\ messages'[k].by = messages[k].by
  <2>1. messages' = [k \in DOMAIN messages |->
          [messages[k] EXCEPT !.read = IF k \in dreq[r].ids THEN TRUE ELSE @]]
    BY DEF MarkRead
  <2>2. \A k \in DOMAIN messages : messages[k] \in Messages
    BY Typed
  <2>. QED  BY <2>1, <2>2 DEF Messages
<1>3. Heard'
  BY <1>1, <1>2 DEF SInv, Heard
<1>4. PICK p : p = dreq[r]
  OBVIOUS
<1>5. p.at # "update" /\ ~Queues(p) /\ (~overlap => Next1(r))
  BY <1>1, <1>4, IdleIs DEF Queues, Next1
<1>6. Heard
  BY DEF SInv
<1>7. Good(p) => Good(Idle)'
  BY <1>1, <1>2, <1>5, <1>6, IdleIs, MessagesGood
<1>. QED  BY <1>1, <1>3, <1>4, <1>5, <1>7, OneMoves

LEMMA WriteSolo ==
    ASSUME DInv, SInv, NEW r \in Requests, WriteMessage(r)
    PROVE  SInv'
<1>1. dreq[r].at = "write" /\ dreq[r] \in TicketWork /\ dreq[r].i \in DOMAIN tickets
  <2>1. dreq[r].at = "write"
    BY DEF WriteMessage
  <2>. QED  BY <2>1, Typed, Shapes DEF Fits
<1>2. PICK q : q = IF dreq[r].op = "reply" THEN [dreq[r] EXCEPT !.at = "update"]
                                           ELSE Idle
  OBVIOUS
<1>3. Goes(dreq, r, q) /\ UNCHANGED <<overlap, faults, tickets, file>>
  BY <1>2 DEF WriteMessage, Ends
<1>4. PICK m : m = [of |-> dreq[r].i, read |-> FALSE,
                    by |-> IF dreq[r].op = "reply" THEN "admin" ELSE "user"]
  OBVIOUS
<1>5. messages' = Append(messages, m) /\ m \in Messages /\ m.of = dreq[r].i
      /\ (m.by = "admin" => dreq[r].op = "reply")
  BY <1>1, <1>4 DEF WriteMessage, Messages, TicketWork
<1>6. m.by = "admin" => Answers(q, m.of)
  <2> SUFFICES ASSUME m.by = "admin" PROVE Answers(q, m.of)
    OBVIOUS
  <2>1. q = [dreq[r] EXCEPT !.at = "update"] /\ dreq[r].op = "reply"
    BY <1>2, <1>5
  <2>2. q.at = "update" /\ q.op = "reply" /\ q.i = dreq[r].i
    BY <1>1, <2>1 DEF TicketWork
  <2>. QED  BY <1>5, <2>2 DEF Answers
<1>7. /\ DOMAIN messages' = DOMAIN messages \cup {Len(messages) + 1}
      /\ messages'[Len(messages) + 1] = m
      /\ \A k \in DOMAIN messages : messages'[k] = messages[k]
  BY <1>5, Typed
<1>8. Heard'
  <2>1. tickets' = tickets
    BY <1>3
  <2>. QED  BY <1>1, <1>5, <1>7, <2>1 DEF SInv, Heard
<1>9. Good(dreq[r]) => Solo(q)
  <2>1. CASE q = Idle
    BY <2>1, IdleIs
  <2>2. CASE q = [dreq[r] EXCEPT !.at = "update"]
    <3>1. q.at = "update" /\ q.ticket = dreq[r].ticket /\ q.i = dreq[r].i
      BY <1>1, <2>2 DEF TicketWork
    <3>. QED  BY <1>1, <3>1 DEF Good, Solo
  <2>. QED  BY <1>2, <2>1, <2>2
<1>10. PICK p : p = dreq[r]
  OBVIOUS
<1>11. p.at # "update" /\ ~Queues(p) /\ (~overlap => Next1(r))
  BY <1>1, <1>10, IdleIs DEF Queues, Next1
<1>12. Heard
  BY DEF SInv
<1>13. Good(p) => Good(q)'
  <2> SUFFICES ASSUME Good(p) PROVE Good(q)'
    OBVIOUS
  <2>1. Solo(q)
    BY <1>9, <1>10
  <2>. QED  BY <1>3, <1>6, <1>7, <1>11, <1>12, <2>1, MessagesGood
<1>. QED  BY <1>3, <1>8, <1>10, <1>11, <1>13, OneMoves

(* One ticket changes, and keeps its source, its owner and its number.     *)
LEMMA TicketGood ==
    ASSUME DInv, Heard, NEW p, NEW q, Good(p),
           NEW i \in DOMAIN tickets, NEW t \in Tickets,
           t.source = tickets[i].source, t.number = tickets[i].number,
           t.ours = tickets[i].ours,
           tickets' = [tickets EXCEPT ![i] = t],
           UNCHANGED <<faults, messages, file>>,
           t.closedAt <=> t.status = "closed", t.closer => t.closedAt,
           Solo(q)',
           ~faults => /\ Answers(p, i) => Answered(t)
                      /\ Answered(tickets[i]) => Answered(t),
           \A j \in DOMAIN tickets : Answers(p, j) => j = i,
           ~faults => \/ ~Waiting
                      \/ Queues(q)
                      \/ i \in Reviews /\ t.status # "closed"
                      \/ /\ ~Queues(p)
                         /\ tickets[i].status # "closed" \/ tickets[i].closer =>
                                t.status # "closed" \/ t.closer
    PROVE  Good(q)'
<1>1. /\ DOMAIN tickets' = DOMAIN tickets /\ tickets'[i] = t
      /\ \A j \in DOMAIN tickets \ {i} : tickets'[j] = tickets[j]
  BY Typed
<1>2. Reviews' = Reviews
  BY <1>1 DEF Reviews
<1>3. Dated' /\ OneReview'
  BY <1>1, <1>2 DEF Good, Dated, OneReview
<1>4. faults' = faults /\ messages' = messages /\ file' = file
  OBVIOUS
<1>5. ASSUME ~faults
      PROVE  AnsweredBy(q)' /\ QueuedBy(q)'
  <2>1. AnsweredBy(q)'
    <3> SUFFICES ASSUME NEW k \in DOMAIN messages, messages[k].by = "admin"
                 PROVE  Answered(tickets'[messages[k].of])
      BY <1>4 DEF AnsweredBy, Answered
    <3> DEFINE j == messages[k].of
    <3>1. j \in DOMAIN tickets /\ (Answered(tickets[j]) \/ Answers(p, j))
      BY <1>5 DEF Heard, Good, AnsweredBy
    <3>2. CASE j = i
      BY <1>1, <1>5, <3>1, <3>2
    <3>3. CASE j # i
      BY <1>1, <3>1, <3>3
    <3>. QED  BY <3>2, <3>3
  <2>2. QueuedBy(q)'
    <3>1. Waiting' = Waiting
      BY <1>4 DEF Waiting
    <3>2. CASE Queues(q)
      BY <3>2 DEF QueuedBy, Queues
    <3>3. CASE i \in Reviews /\ t.status # "closed"
      BY <1>1, <1>2, <3>3 DEF QueuedBy, Queued
    <3>4. CASE /\ ~Queues(p)
               /\ tickets[i].status # "closed" \/ tickets[i].closer =>
                      t.status # "closed" \/ t.closer
      <4>1. Waiting => Queued
        BY <1>5, <3>4 DEF Good, QueuedBy
      <4>2. Queued => Queued'
        BY <1>1, <1>2, <3>4 DEF Queued
      <4>. QED  BY <3>1, <4>1, <4>2 DEF QueuedBy
    <3>5. CASE ~Waiting
      BY <3>1, <3>5 DEF QueuedBy
    <3>. QED  BY <1>5, <3>2, <3>3, <3>4, <3>5
  <2>. QED  BY <2>1, <2>2
<1>. QED  BY <1>3, <1>4, <1>5 DEF Good

(* The fields a handler sets, on the ticket that it has read.              *)
LEMMA HandledTicket ==
    ASSUME NEW t \in Tickets, NEW op,
           t.closedAt <=> t.status = "closed", t.closer => t.closedAt
    PROVE  LET d == Handled(t, op, t) IN
           /\ d \in Tickets /\ d.source = t.source /\ d.number = t.number
           /\ d.ours = t.ours
           /\ d.closedAt <=> d.status = "closed"
           /\ d.closer => d.closedAt
           /\ op = "reply" => Answered(d)
           /\ Answered(t) => Answered(d)
           /\ t.status # "closed" \/ t.closer => d.status # "closed" \/ d.closer
<1> DEFINE d == Handled(t, op, t)
<1>1. /\ d.status = IF op = "close" THEN "closed"
                    ELSE IF op = "reopen" THEN "in progress"
                    ELSE IF op = "reply" /\ t.status = "open" THEN "in progress"
                    ELSE t.status
      /\ d.closer = IF op = "close" THEN TRUE
                    ELSE IF op = "reopen" THEN FALSE ELSE t.closer
      /\ d.closedAt = IF op = "close" THEN TRUE
                      ELSE IF op = "reopen" THEN FALSE ELSE t.closedAt
      /\ d.assigned = IF op = "assign" \/ (op = "reply" /\ ~t.assigned) THEN TRUE
                      ELSE t.assigned
      /\ d.source = t.source /\ d.number = t.number /\ d.ours = t.ours
      /\ t.closer \in BOOLEAN /\ t.closedAt \in BOOLEAN /\ t.assigned \in BOOLEAN
      /\ t.status \in {"open", "in progress", "closed"}
  BY DEF Handled, Tickets
<1>2. d = [t EXCEPT !.status = d.status, !.closer = d.closer,
                    !.closedAt = d.closedAt, !.assigned = d.assigned]
  BY DEF Handled, Tickets
<1> HIDE DEF d
<1>3. /\ d.status \in {"open", "in progress", "closed"} /\ d.closer \in BOOLEAN
      /\ d.closedAt \in BOOLEAN /\ d.assigned \in BOOLEAN
  BY <1>1
<1>4. d \in Tickets
  BY <1>2, <1>3 DEF Tickets
<1>5. (d.closedAt <=> d.status = "closed") /\ (d.closer => d.closedAt)
  BY <1>1
<1>6. (op = "reply" => Answered(d)) /\ (Answered(t) => Answered(d))
  BY <1>1 DEF Answered
<1>7. t.status # "closed" \/ t.closer => d.status # "closed" \/ d.closer
  BY <1>1
<1>. QED  BY <1>1, <1>4, <1>5, <1>6, <1>7 DEF d

LEMMA UpdateSolo ==
    ASSUME DInv, SInv, NEW r \in Requests, UpdateTicket(r)
    PROVE  SInv'
<1>1. PICK p : p = dreq[r]
  OBVIOUS
<1>2. p.at = "update" /\ p.i \in DOMAIN tickets
  <2>1. dreq[r].at = "update"
    BY DEF UpdateTicket
  <2>. QED  BY <1>1, <2>1, Typed DEF Fits
<1>3. /\ tickets' = [tickets EXCEPT ![p.i] = Handled(tickets[p.i], p.op, p.ticket)]
      /\ Goes(dreq, r, Idle) /\ UNCHANGED <<overlap, faults, messages, file>>
  BY <1>1 DEF UpdateTicket, Ends
<1>4. Heard /\ Heard'
  <2>1. DOMAIN tickets' = DOMAIN tickets
    BY <1>3
  <2>. QED  BY <1>3, <2>1 DEF SInv, Heard
<1>5. Good(p) => Good(Idle)'
  <2> SUFFICES ASSUME Good(p) PROVE Good(Idle)'
    OBVIOUS
  <2>1. PICK i \in DOMAIN tickets : i = p.i
    BY <1>2
  <2>2. PICK t : t = Handled(tickets[i], p.op, tickets[i])
    OBVIOUS
  <2>3. /\ tickets[i] \in Tickets
        /\ tickets[i].closedAt <=> tickets[i].status = "closed"
        /\ tickets[i].closer => tickets[i].closedAt
    BY Ticket DEF Good, Dated
  <2>4. /\ t \in Tickets /\ t.source = tickets[i].source
        /\ t.number = tickets[i].number /\ t.ours = tickets[i].ours
        /\ t.closedAt <=> t.status = "closed"
        /\ t.closer => t.closedAt
        /\ p.op = "reply" => Answered(t)
        /\ Answered(tickets[i]) => Answered(t)
        /\ tickets[i].status # "closed" \/ tickets[i].closer =>
               t.status # "closed" \/ t.closer
    BY <2>2, <2>3, HandledTicket
  <2>5. p.ticket = tickets[i]
    BY <1>2, <2>1 DEF Good, Solo
  <2>6. tickets' = [tickets EXCEPT ![i] = t]
    BY <1>3, <2>1, <2>2, <2>5
  <2>7. Answers(p, i) => Answered(t)
    BY <2>4 DEF Answers
  <2>8. \A j \in DOMAIN tickets : Answers(p, j) => j = i
    BY <2>1 DEF Answers
  <2>9. ~Queues(p)
    BY <1>2 DEF Queues
  <2>10. Solo(Idle)'
    BY IdleIs DEF Solo
  <2>. QED  BY <1>3, <1>4, <2>4, <2>6, <2>7, <2>8, <2>9, <2>10, TicketGood
<1>6. ~overlap => Next1(r)
  BY <1>1, <1>2, IdleIs DEF Next1
<1>. QED  BY <1>1, <1>3, <1>4, <1>5, <1>6, OneMoves

LEMMA ReviveSolo ==
    ASSUME DInv, SInv, NEW r \in Requests, Revive(r)
    PROVE  SInv'
<1>1. PICK p : p = dreq[r]
  OBVIOUS
<1>2. p.at = "revive" /\ p.i \in DOMAIN tickets
  <2>1. dreq[r].at = "revive"
    BY DEF Revive
  <2>. QED  BY <1>1, <2>1, Typed DEF Fits
<1>3. PICK i \in DOMAIN tickets : i = p.i
  BY <1>2
<1>4. PICK t : t = [tickets[i] EXCEPT !.status = "open", !.closer = FALSE,
                                      !.closedAt = FALSE]
  OBVIOUS
<1>5. /\ t \in Tickets /\ t.source = tickets[i].source
      /\ t.number = tickets[i].number /\ t.ours = tickets[i].ours
      /\ t.status = "open" /\ ~t.closer /\ ~t.closedAt
      /\ t.assigned = tickets[i].assigned
  BY <1>4, Ticket DEF Tickets
<1>6. /\ tickets' = [tickets EXCEPT ![i] = t]
      /\ UNCHANGED <<overlap, faults, messages, file>>
  BY <1>1, <1>3, <1>4 DEF Revive
<1>7. DOMAIN tickets' = DOMAIN tickets /\ tickets'[i] = t
  BY <1>6, Typed
<1>8. PICK q : q = Writing("write", "message", i, t)
  OBVIOUS
<1>9. Goes(dreq, r, q)
  BY <1>1, <1>3, <1>7, <1>8 DEF Revive
<1>10. Heard /\ Heard'
  BY <1>6, <1>7 DEF SInv, Heard
<1>11. Good(p) => Good(q)'
  <2> SUFFICES ASSUME Good(p) PROVE Good(q)'
    OBVIOUS
  <2>1. i \in Reviews
    BY <1>2, <1>3 DEF Good, Solo
  <2>2. t.source = "review"
    BY <1>5, <2>1 DEF Good, Dated, Reviews
  <2>3. \A j : ~Answers(p, j)
    BY <1>2 DEF Answers
  <2>4. Answered(tickets[i]) => Answered(t)
    BY <1>5, <2>2 DEF Answered
  <2>5. q.at = "write" /\ q.ticket = t /\ q.i = i
    BY <1>8 DEF Writing
  <2>6. Solo(q)'
    BY <1>7, <2>5 DEF Solo
  <2>7. (t.closedAt <=> t.status = "closed") /\ (t.closer => t.closedAt)
        /\ t.status # "closed"
    BY <1>5
  <2>8. Answers(p, i) => Answered(t)
    BY <2>3
  <2>9. \A j \in DOMAIN tickets : Answers(p, j) => j = i
    BY <2>3
  <2>. QED  BY <1>5, <1>6, <1>10, <2>1, <2>4, <2>6, <2>7, <2>8, <2>9, TicketGood
<1>12. ~overlap => Next1(r)
  BY <1>1, <1>2, IdleIs DEF Next1
<1>. QED  BY <1>1, <1>6, <1>9, <1>10, <1>11, <1>12, OneMoves

(* The review is closed when nothing waits.                                *)
LEMMA ConcludeSolo ==
    ASSUME DInv, SInv, NEW r \in Requests, Conclude(r)
    PROVE  SInv'
<1>1. PICK p : p = dreq[r]
  OBVIOUS
<1>2. p.at = "conclude" /\ p.i \in DOMAIN tickets
  <2>1. dreq[r].at = "conclude"
    BY DEF Conclude
  <2>. QED  BY <1>1, <2>1, Typed DEF Fits
<1>3. PICK i \in DOMAIN tickets : i = p.i
  BY <1>2
<1>4. PICK t : t = [tickets[i] EXCEPT !.status = "closed", !.closedAt = TRUE]
  OBVIOUS
<1>5. /\ t \in Tickets /\ t.source = tickets[i].source
      /\ t.number = tickets[i].number /\ t.ours = tickets[i].ours
      /\ t.status = "closed" /\ t.closedAt /\ t.assigned = tickets[i].assigned
  BY <1>4, Ticket DEF Tickets
<1>6. /\ tickets' = [tickets EXCEPT ![i] = t] /\ Goes(dreq, r, Idle)
      /\ UNCHANGED <<overlap, faults, messages, file>>
  BY <1>1, <1>3, <1>4 DEF Conclude, Ends
<1>7. DOMAIN tickets' = DOMAIN tickets
  BY <1>6, Typed
<1>8. Heard /\ Heard'
  BY <1>6, <1>7 DEF SInv, Heard
<1>9. Good(p) => Good(Idle)'
  <2> SUFFICES ASSUME Good(p) PROVE Good(Idle)'
    OBVIOUS
  <2>1. ~Waiting
    BY <1>2 DEF Good, Solo, Waiting
  <2>2. \A j : ~Answers(p, j)
    BY <1>2 DEF Answers
  <2>3. Answered(tickets[i]) => Answered(t)
    BY <1>5 DEF Answered
  <2>4. Solo(Idle)'
    BY IdleIs DEF Solo
  <2>5. (t.closedAt <=> t.status = "closed") /\ (t.closer => t.closedAt)
    BY <1>5
  <2>6. Answers(p, i) => Answered(t)
    BY <2>2
  <2>7. \A j \in DOMAIN tickets : Answers(p, j) => j = i
    BY <2>2
  <2>. QED  BY <1>5, <1>6, <1>8, <2>1, <2>3, <2>4, <2>5, <2>6, <2>7, TicketGood
<1>10. ~overlap => Next1(r)
  BY <1>1, <1>2, IdleIs DEF Next1
<1>. QED  BY <1>1, <1>6, <1>8, <1>9, <1>10, OneMoves

(* Documents change, tickets do not.                                       *)
LEMMA FilesGood ==
    ASSUME NEW p, NEW q, Good(p), UNCHANGED <<faults, tickets, messages>>,
           Solo(q)', p.at # "update", Waiting' => Queues(q) \/ (Waiting /\ ~Queues(p))
    PROVE  Good(q)'
<1>1. tickets' = tickets /\ messages' = messages /\ faults' = faults
  OBVIOUS
<1>2. Dated' /\ OneReview'
  BY <1>1 DEF Good, Dated, OneReview, Reviews
<1>3. ASSUME ~faults
      PROVE  AnsweredBy(q)' /\ QueuedBy(q)'
  <2>1. AnsweredBy(q)'
    BY <1>1, <1>3 DEF Good, AnsweredBy, Answers
  <2>2. QueuedBy(q)'
    BY <1>1, <1>3 DEF Good, QueuedBy, Queues, Queued, Reviews
  <2>. QED  BY <2>1, <2>2
<1>. QED  BY <1>1, <1>2, <1>3 DEF Good

LEMMA UploadSolo ==
    ASSUME DInv, SInv, NEW r \in Requests, NEW k \in Kinds,
           UploadDocument(r, k) \/ UploadApproved(r, k)
    PROVE  SInv'
<1>1. /\ StartDesk(r) /\ UNCHANGED <<overlap, faults, tickets, messages>>
      /\ \E s : file' = [file EXCEPT ![k] = [key |-> dmoves + 1, status |-> s]]
  BY DEF UploadDocument, UploadApproved, Upload
<1>2. Heard'
  BY <1>1 DEF SInv, Heard
<1>3. PICK p : p = dreq[r]
  OBVIOUS
<1>4. p.at = "idle" /\ ~Queues(p) /\ (~overlap => Next1(r))
  BY <1>1, <1>3, StartsIdle
<1>5. CASE UploadDocument(r, k)
  <2>1. PICK q : q = [at |-> "find open"]
    OBVIOUS
  <2>2. Goes(dreq, r, q) /\ q.at = "find open"
    BY <1>5, <2>1 DEF UploadDocument
  <2>3. Queues(q) /\ Solo(q)'
    BY <2>2 DEF Queues, Solo
  <2>4. Good(p) => Good(q)'
    BY <1>1, <1>4, <2>3, FilesGood
  <2>. QED  BY <1>1, <1>2, <1>3, <1>4, <2>2, <2>4, OneMoves
<1>6. CASE UploadApproved(r, k)
  <2>1. Goes(dreq, r, p)
    <3>1. dreq' = dreq
      BY <1>6 DEF UploadApproved
    <3>. QED  BY <1>3, <3>1, Typed DEF Goes
  <2>2. Waiting' => Waiting
    <3>1. file' = [file EXCEPT ![k] = [key |-> dmoves + 1, status |-> "approved"]]
      BY <1>6 DEF UploadApproved, Upload
    <3>. QED  BY <3>1, Typed DEF Waiting
  <2>3. Solo(p)'
    BY <1>4 DEF Solo
  <2>4. Good(p) => Good(p)'
    BY <1>1, <1>4, <2>2, <2>3, FilesGood
  <2>. QED  BY <1>1, <1>2, <1>3, <1>4, <2>1, <2>4, OneMoves
<1>. QED  BY <1>5, <1>6

LEMMA DecideSolo ==
    ASSUME DInv, SInv, NEW r \in Requests, Decide(r)
    PROVE  SInv'
<1>1. PICK p : p = dreq[r]
  OBVIOUS
<1>2. p.at = "decide" /\ p \in DecideWork
  <2>1. dreq[r].at = "decide"
    BY DEF Decide
  <2>. QED  BY <1>1, <2>1, Typed, Shapes
<1>3. PICK d : d = [p.seen EXCEPT !.status = p.verdict]
  OBVIOUS
<1>4. p.kind \in Kinds /\ d.status # "pending"
  BY <1>2, <1>3 DEF DecideWork, Files
<1>5. /\ file' = [file EXCEPT ![p.kind] = d]
      /\ UNCHANGED <<overlap, faults, tickets, messages>>
      /\ IF StillPending(file') THEN Goes(dreq, r, Idle)
                                ELSE Goes(dreq, r, [at |-> "find to close"])
  BY <1>1, <1>3 DEF Decide, Ends
<1>6. Heard'
  BY <1>5 DEF SInv, Heard
<1>7. Waiting' => Waiting
  BY <1>4, <1>5, Typed DEF Waiting
<1>8. ~Queues(p) /\ (~overlap => Next1(r))
  BY <1>1, <1>2, IdleIs DEF Queues, Next1
<1>9. PICK q : /\ Goes(dreq, r, q)
               /\ \/ q = Idle
                  \/ q = [at |-> "find to close"] /\ ~StillPending(file')
  BY <1>5
<1>10. Solo(q)'
  <2>1. CASE q = Idle
    BY <2>1, IdleIs DEF Solo
  <2>2. CASE q = [at |-> "find to close"] /\ ~StillPending(file')
    <3>1. q.at = "find to close" /\ \A k \in Kinds : file'[k].status # "pending"
      BY <2>2 DEF StillPending
    <3>. QED  BY <3>1 DEF Solo
  <2>. QED  BY <1>9, <2>1, <2>2
<1>11. Good(p) => Good(q)'
  BY <1>2, <1>5, <1>7, <1>8, <1>10, FilesGood
<1>. QED  BY <1>1, <1>5, <1>6, <1>8, <1>9, <1>11, OneMoves

(* The new ticket: a lone request's number is free, and so is the place of *)
(* the review.                                                             *)
LEMMA InsertSolo ==
    ASSUME DInv, SInv, NEW r \in Requests, InsertTicket(r)
    PROVE  SInv'
<1>1. PICK p : p = dreq[r]
  OBVIOUS
<1>2. p.at = "insert" /\ p \in NumberWork
  <2>1. dreq[r].at = "insert"
    BY DEF InsertTicket
  <2>. QED  BY <1>1, <2>1, Typed, Shapes
<1>3. PICK t, L : t = NewTicket(p) /\ L = Len(tickets) + 1
  OBVIOUS
<1>4. /\ t \in Tickets /\ t.source = p.source /\ t.ours = p.ours
      /\ t.status = "open" /\ ~t.closer /\ ~t.closedAt
  BY <1>2, <1>3 DEF NewTicket, Tickets, NumberWork
<1>5. PICK q : q = Writing("write", "message", L, t)
  OBVIOUS
<1>6. /\ UNCHANGED <<overlap, faults, messages, file>>
      /\ \/ /\ \E i \in OfSource(p.source) : tickets[i].number = p.number
            /\ Goes(dreq, r, Idle) /\ UNCHANGED tickets
         \/ tickets' = Append(tickets, t) /\ Goes(dreq, r, q)
  BY <1>1, <1>3, <1>5 DEF InsertTicket, Ends
<1>7. ~overlap => Next1(r)
  BY <1>1, <1>2, IdleIs DEF Next1
<1>8. CASE /\ \E i \in OfSource(p.source) : tickets[i].number = p.number
           /\ Goes(dreq, r, Idle) /\ UNCHANGED tickets
  <2>1. Heard'
    BY <1>6, <1>8 DEF SInv, Heard
  <2>2. ~Good(p)
    <3> SUFFICES ASSUME Good(p) PROVE FALSE
      OBVIOUS
    <3>1. p.number = Count(p.source) + 1
      BY <1>2 DEF Good, Solo
    <3>2. p.source \in Sources
      BY <1>2 DEF NumberWork
    <3>3. Numbers(p.source) = 1 .. Count(p.source) /\ Count(p.source) \in Nat
      BY <3>2, Typed, Counts DEF Counted
    <3>4. p.number \in Numbers(p.source)
      BY <1>8 DEF Numbers
    <3>. QED  BY <3>1, <3>3, <3>4
  <2>. QED  BY <1>1, <1>6, <1>7, <1>8, <2>1, <2>2, OneMoves
<1>9. CASE tickets' = Append(tickets, t) /\ Goes(dreq, r, q)
  <2>1. /\ DOMAIN tickets' = DOMAIN tickets \cup {L} /\ L \notin DOMAIN tickets
        /\ tickets'[L] = t
        /\ \A i \in DOMAIN tickets : tickets'[i] = tickets[i]
    BY <1>3, <1>4, <1>9, Typed
  <2>2. Heard'
    BY <1>6, <2>1 DEF SInv, Heard
  <2>3. Reviews' = IF p.ours THEN Reviews \cup {L} ELSE Reviews
    BY <1>4, <2>1 DEF Reviews
  <2>4. q.at = "write" /\ q.i = L /\ q.ticket = t
    BY <1>5 DEF Writing
  <2>5. Good(p) => Good(q)'
    <3> SUFFICES ASSUME Good(p) PROVE Good(q)'
      OBVIOUS
    <3>1. p.ours => p.source = "review" /\ Reviews = {}
      BY <1>2 DEF Good, Solo
    <3>2. Solo(q)'
      BY <2>1, <2>4 DEF Solo
    <3>3. Dated'
      BY <1>4, <2>1, <3>1 DEF Good, Dated
    <3>4. OneReview'
      BY <2>3, <3>1 DEF Good, OneReview
    <3>5. faults' = faults /\ messages' = messages /\ file' = file
      BY <1>6
    <3>6. ASSUME ~faults PROVE AnsweredBy(q)'
      <4> SUFFICES ASSUME NEW k \in DOMAIN messages, messages[k].by = "admin"
                   PROVE  Answered(tickets'[messages[k].of])
        BY <3>5 DEF AnsweredBy, Answered
      <4>1. ~Answers(p, messages[k].of)
        BY <1>2 DEF Answers
      <4>2. messages[k].of \in DOMAIN tickets /\ Answered(tickets[messages[k].of])
        BY <3>6, <4>1 DEF SInv, Heard, Good, AnsweredBy
      <4>. QED  BY <2>1, <4>2
    <3>7. ASSUME ~faults PROVE QueuedBy(q)'
      <4>1. Waiting' = Waiting
        BY <3>5 DEF Waiting
      <4>2. Queued => Queued'
        <5>1. Reviews \subseteq Reviews' /\ Reviews \subseteq DOMAIN tickets
          BY <2>3 DEF Reviews
        <5>. QED  BY <2>1, <5>1 DEF Queued
      <4>3. Queues(p) => Queued'
        <5>1. Queues(p) => L \in Reviews'
          BY <1>2, <2>3 DEF Queues
        <5>. QED  BY <1>4, <2>1, <5>1 DEF Queued
      <4>. QED  BY <3>7, <4>1, <4>2, <4>3 DEF Good, QueuedBy
    <3>. QED  BY <3>2, <3>3, <3>4, <3>5, <3>6, <3>7 DEF Good
  <2>. QED  BY <1>1, <1>6, <1>7, <1>9, <2>2, <2>5, OneMoves
<1>. QED  BY <1>6, <1>8, <1>9

LEMMA SInvKept == DInv /\ SInv /\ [DeskNext]_dvars => SInv'
<1> SUFFICES ASSUME DInv, SInv, [DeskNext]_dvars PROVE SInv'
  OBVIOUS
<1>1. CASE UNCHANGED dvars
  <2>1. /\ tickets' = tickets /\ messages' = messages /\ file' = file
        /\ dreq' = dreq /\ overlap' = overlap /\ faults' = faults
    BY <1>1 DEF dvars
  <2>2. \A q : Good(q)' <=> Good(q)
    BY <2>1 DEF Good, Solo, OpenOnes, Reviews, Count, OfSource, Dated, OneReview,
       AnsweredBy, Answers, QueuedBy, Waiting, Queued, Queues
  <2>3. \A r \in Requests : Good(dreq[r])' <=> Good(dreq[r])
    BY <2>1 DEF Good, Solo, OpenOnes, Reviews, Count, OfSource, Dated, OneReview,
       AnsweredBy, Answers, QueuedBy, Waiting, Queued, Queues
  <2>. QED  BY <2>1, <2>2, <2>3 DEF SInv, Heard, Alone, AllIdle
<1>2. ASSUME NEW r \in Requests, DeskStep(r) PROVE SInv'
  <2>1. CASE \/ CreateTicket(r) \/ CreateExternalContact(r)
             \/ CreateContactRequest(r) \/ ReviewElsewhere(r)
    BY <2>1, AskSolo DEF CreateTicket, CreateExternalContact,
       CreateContactRequest, ReviewElsewhere, Sources, Visits
  <2>2. ASSUME NEW i \in DOMAIN tickets,
               \/ AddTicketMessage(r, i) \/ AddAdminReply(r, i)
               \/ CloseTicket(r, i) \/ ReopenTicket(r, i) \/ AssignTicket(r, i)
        PROVE  SInv'
    BY <2>2, ReadSolo DEF AddTicketMessage, AddAdminReply, CloseTicket,
       ReopenTicket, AssignTicket
  <2>3. ASSUME NEW i, MarkUserMessagesRead(r, i) \/ MarkAdminMessagesRead(r, i)
        PROVE  SInv'
    BY <2>3, ListSolo DEF MarkUserMessagesRead, MarkAdminMessagesRead
  <2>4. ASSUME NEW k \in Kinds, ApproveDocument(r, k) \/ RejectDocument(r, k)
        PROVE  SInv'
    BY <2>4, ReviewSolo DEF ApproveDocument, RejectDocument
  <2>. QED  BY <1>2, <2>1, <2>2, <2>3, <2>4, NumberSolo, InsertSolo, WriteSolo,
               UpdateSolo, MarkSolo, UploadSolo, FindOpenSolo, FindLatestSolo,
               ReviveSolo, DecideSolo, FindToCloseSolo, ConcludeSolo, RaiseSolo
               DEF DeskStep
<1>. QED  BY <1>1, <1>2 DEF DeskNext

LEMMA SInvStarts == DeskInit => SInv
<1> SUFFICES ASSUME DeskInit PROVE SInv
  OBVIOUS
<1>1. /\ tickets = <<>> /\ messages = <<>>
      /\ file = [k \in Kinds |-> NoFile] /\ dreq = [r \in Requests |-> Idle]
  BY DEF DeskInit
<1>2. Heard /\ Dated
  BY <1>1 DEF Heard, Dated
<1>3. OneReview
  BY <1>1 DEF OneReview, Reviews
<1>4. AnsweredBy(Idle)
  BY <1>1 DEF AnsweredBy
<1>5. QueuedBy(Idle)
  <2>1. NoFile.status = "absent"
    BY DEF NoFile
  <2>. QED  BY <1>1, <2>1 DEF QueuedBy, Waiting
<1>6. Good(Idle)
  BY <1>2, <1>3, <1>4, <1>5, IdleIs DEF Good
<1>. QED  BY <1>1, <1>2, <1>6 DEF SInv, Alone

LEMMA SInvHolds == DeskSpec => []SInv
BY DInvHolds, SInvStarts, SInvKept, PTL DEF DeskSpec

-----------------------------------------------------------------------------
(* Theorems                                                                *)

(* The collections and the handlers' copies keep to their types, and every *)
(* ticket that a request writes to is there.                               *)
THEOREM DeskTypeCorrect == DeskSpec => []TypeOKDesk
<1>1. DInv => TypeOKDesk
  BY DEF DInv
<1>. QED  BY <1>1, DInvHolds, PTL

(* An approved document is the upload that an administrator approved.      *)
THEOREM DeskApprovedWasReviewed == DeskSpec => []ApprovedWasReviewed
<1>1. DInv => ApprovedWasReviewed
  BY DEF DInv
<1>. QED  BY <1>1, DInvHolds, PTL

(* The tickets of a source are numbered without gap or repetition, in the  *)
(* order of their creation: the first part of TicketsFit.                  *)
THEOREM DeskNumbersDense == DeskSpec => []NumbersDense
<1>1. DInv => NumbersDense
  BY DEF DInv
<1>. QED  BY <1>1, DInvHolds, PTL

(* While requests do not overlap, a document that waits has a ticket, a    *)
(* company has one review, and the fields of tickets agree with one        *)
(* another and with the replies.                                           *)
THEOREM DeskAllFits == DeskSpec => []DeskFits
<1>1. DInv /\ SInv => DeskFits
  <2> SUFFICES ASSUME DInv, SInv PROVE DeskFits
    OBVIOUS
  <2>1. ~overlap => Dated /\ OneReview
    BY Zenon DEF SInv, Good, AllIdle
  <2>2. ~overlap /\ ~faults /\ AllIdle(dreq) => AnsweredBy(Idle) /\ QueuedBy(Idle)
    BY Zenon DEF SInv, Good
  <2>3. PendingHasTicket
    BY <2>2, IdleIs DEF PendingHasTicket, QueuedBy, Waiting, Queued
  <2>4. ClosedIsDated
    BY <2>1 DEF ClosedIsDated, Dated, OneReview, Reviews
  <2>5. RepliedIsAssigned
    BY <2>2, IdleIs DEF RepliedIsAssigned, AnsweredBy, Answered
  <2>6. NumbersDense
    BY DEF DInv
  <2>. QED  BY <2>3, <2>4, <2>5, <2>6 DEF DeskFits, TicketsFit
<1>. QED  BY <1>1, DInvHolds, SInvHolds, PTL

=============================================================================
