--------------------------- MODULE EventDispatcher ---------------------------
(***************************************************************************)
(* The event dispatcher of MATS and its outbox, mats_delivery_events.  The *)
(* request that has changed an order or made a trade saves an event and    *)
(* delivers it at once; one background loop loads the events that are due  *)
(* and delivers them again.  Both work on a copy of the row and write it   *)
(* back whole, and nothing keeps them off the same event.                  *)
(***************************************************************************)
EXTENDS Sequences, FiniteSets, Naturals, SequencesExt

CONSTANTS
    Trades,       \* trade events, captured by BEI
    Reports,      \* order status and fill events, taken by SEKURITAS
    Closings,     \* events session_closed_finality, for BEI
    Drain,        \* the background loop
    MaxAttempts,  \* failed attempts after which an event is dead
    Limit,        \* events the loop loads at a time
    MaxFailures,  \* bound: lost calls and failed writes
    MaxRequeues,  \* bound: times the operator requeues an event
    MaxRestarts   \* bound: restarts of MATS

Events == Trades \cup Reports \cup Closings
Workers == Events \cup {Drain}

ASSUME DispatcherAssumption ==
    /\ MaxAttempts \in Nat \ {0} /\ Limit \in Nat \ {0}
    /\ MaxFailures \in Nat /\ MaxRequeues \in Nat /\ MaxRestarts \in Nat
    /\ Trades \cap Closings = {} /\ Reports \cap (Trades \cup Closings) = {}
    /\ Drain \notin Events /\ IsFiniteSet(Trades)

VARIABLES
    row,       \* the outbox; a row begins as an event to come or owed by a request
    seq,       \* the sequence generator
    expected,  \* the number of trades a closing names
    received,  \* events the receivers have handled
    wire,      \* events in calls the dispatcher has given up waiting for
    work,      \* what each worker has in hand: copies of rows
    failures, restarts,
    tries      \* failed deliveries of an event (history)

vars == <<row, seq, expected, received, wire, work, failures, restarts, tries>>

Free == [at |-> "idle", todo |-> <<>>, ok |-> FALSE]

Init ==
    /\ row = [e \in Events |-> [status |-> "none", number |-> 0, attempts |-> 0,
                              max |-> MaxAttempts, due |-> FALSE]]
    /\ seq = 0
    /\ expected = [c \in Closings |-> 0]
    /\ received = {} /\ wire = {}
    /\ work = [w \in Workers |-> Free]
    /\ failures = 0 /\ restarts = 0
    /\ tries = [e \in Events |-> 0]

Slip == failures < MaxFailures /\ failures' = failures + 1

Copy(e) == [event |-> e, attempts |-> row[e].attempts, max |-> row[e].max]
At(w, at) == work[w].at = at
InHand(w) == Head(work[w].todo)
Event(w) == InHand(w).event

(***************************************************************************)
(* Events arise: a trade or an order is written and a request owes the     *)
(* event, or the session closes.                                           *)
(***************************************************************************)
Arise(e) ==
    /\ row[e].status = "none"
    /\ row' = [row EXCEPT ![e].status = "owed"]
    /\ UNCHANGED <<seq, expected, received, wire, work, failures, restarts, tries>>

\* CountSessionTrades: the trades that are written, delivered or not.
TradesMade == {t \in Trades : row[t].status # "none"}

Publish(e) ==
    /\ row[e].status = "owed"
    /\ row' = [row EXCEPT ![e].status = "pending", ![e].due = TRUE, ![e].number = seq + 1]
    /\ seq' = seq + 1
    /\ expected' = IF e \in Closings THEN [expected EXCEPT ![e] = Cardinality(TradesMade)] ELSE expected
    /\ work' = [work EXCEPT ![e] = [at |-> "send", todo |-> <<Copy(e)>>, ok |-> FALSE]]
    /\ UNCHANGED <<received, wire, failures, restarts, tries>>

\* No sequence number, or the row cannot be saved: the event is gone.
Drop(e) ==
    /\ row[e].status = "owed"
    /\ row' = [row EXCEPT ![e].status = "dropped"]
    /\ UNCHANGED <<seq, expected, received, wire, work, failures, restarts, tries>>

(***************************************************************************)
(* The loop loads the events that are due, at most Limit, oldest first.    *)
(***************************************************************************)
\* Fault: only events that have failed before are loaded.
DueAgain(e) == row[e].status = "pending" /\ row[e].due /\ row[e].attempts > 0

Due(e) == row[e].status = "pending" /\ row[e].due

First == {e \in Events : Due(e) /\ Cardinality({f \in Events : Due(f) /\ row[f].number < row[e].number}) < Limit}

Load ==
    /\ At(Drain, "idle") /\ First # {}
    /\ \E batch \in SeqOf(First, Limit) :
         /\ ToSet(batch) = First
         /\ \A i, j \in DOMAIN batch : i < j => row[batch[i]].number < row[batch[j]].number
         /\ work' = [work EXCEPT ![Drain] = [at   |-> "send", ok |-> FALSE,
                                             todo |-> [i \in DOMAIN batch |-> Copy(batch[i])]]]
    /\ UNCHANGED <<row, seq, expected, received, wire, failures, restarts, tries>>

(***************************************************************************)
(* A delivery.  The receivers take an event twice without harm; BEI takes  *)
(* a closing when it has captured as many trades as the closing names.     *)
(***************************************************************************)
Accepts(e) == e \in Closings => Cardinality(received \cap Trades) >= expected[e]

Step(w, at, ok) == work' = [work EXCEPT ![w].at = at, ![w].ok = ok]

Answered(w) ==
    /\ At(w, "send")
    /\ \/ /\ Accepts(Event(w))
          /\ received' = received \cup {Event(w)}
          /\ Step(w, IF Event(w) \in Trades THEN "wake" ELSE "write", TRUE)
          /\ UNCHANGED tries
       \/ /\ ~Accepts(Event(w))
          /\ Step(w, "write", FALSE)
          /\ UNCHANGED <<received, tries>>
    /\ UNCHANGED <<row, seq, expected, wire, failures, restarts>>

\* No answer in time, or a refusal; the call may still arrive.
Unanswered(w) ==
    /\ At(w, "send") /\ Slip
    /\ Step(w, "write", FALSE)
    /\ wire' = wire \cup {Event(w)}
    /\ tries' = [tries EXCEPT ![Event(w)] = @ + 1]
    /\ UNCHANGED <<row, seq, expected, received, restarts>>

Arrive(e) ==
    /\ e \in wire
    /\ wire' = wire \ {e}
    /\ received' = IF Accepts(e) THEN received \cup {e} ELSE received
    /\ UNCHANGED <<row, seq, expected, work, failures, restarts, tries>>

\* WakeUpPendingSessionClosedFinality
WakeUp(w) ==
    /\ At(w, "wake")
    /\ row' = [e \in Events |->
                 IF e \in Closings /\ row[e].status \in {"pending", "dead"}
                 THEN [row[e] EXCEPT !.status = "pending", !.due = TRUE] ELSE row[e]]
    /\ Step(w, "write", TRUE)
    /\ UNCHANGED <<seq, expected, received, wire, failures, restarts, tries>>

WakeUpFails(w) ==
    /\ At(w, "wake") /\ Slip
    /\ Step(w, "write", TRUE)
    /\ UNCHANGED <<row, seq, expected, received, wire, restarts, tries>>

(***************************************************************************)
(* The worker writes the copy back, whatever the row says by now, and goes *)
(* on with the next.  The attempts of a closing decide nothing and are     *)
(* counted up to its maximum.                                              *)
(***************************************************************************)
\* Fault: the answer of the receiver is not looked at.
WrittenDelivered(copy, ok) == [row[copy.event] EXCEPT !.status = "delivered", !.due = TRUE]

\* Fault: the attempt is counted before and after the call.
WrittenCountsTwice(copy, ok) ==
    LET e == copy.event
    IN IF ok THEN [row[e] EXCEPT !.status = "delivered", !.attempts = copy.attempts, !.due = TRUE]
       ELSE [row[e] EXCEPT !.attempts = copy.attempts + 1, !.due = FALSE,
               !.status = IF e \notin Closings /\ copy.attempts + 2 >= copy.max THEN "dead" ELSE "pending"]

\* Fault: a closing is given up like the other events.
WrittenGivesUp(copy, ok) ==
    LET e == copy.event
    IN IF ok THEN [row[e] EXCEPT !.status = "delivered", !.attempts = copy.attempts, !.due = TRUE]
       ELSE [row[e] EXCEPT !.attempts = copy.attempts + 1, !.due = FALSE,
               !.status = IF copy.attempts + 1 >= copy.max THEN "dead" ELSE "pending"]

Written(copy, ok) ==
    LET e == copy.event
        attempts == IF e \in Closings /\ copy.attempts = copy.max THEN copy.max ELSE copy.attempts + 1
    IN IF ok THEN [row[e] EXCEPT !.status = "delivered", !.attempts = copy.attempts, !.due = TRUE]
       ELSE [row[e] EXCEPT !.attempts = attempts, !.due = FALSE,
               !.status = IF e \notin Closings /\ attempts >= copy.max THEN "dead" ELSE "pending"]

Rest(w) == IF Len(work[w].todo) = 1 THEN Free
           ELSE [at |-> "send", todo |-> Tail(work[w].todo), ok |-> FALSE]

Write(w) ==
    /\ At(w, "write")
    /\ row' = [row EXCEPT ![Event(w)] = Written(InHand(w), work[w].ok)]
    /\ work' = [work EXCEPT ![w] = Rest(w)]
    /\ UNCHANGED <<seq, expected, received, wire, failures, restarts, tries>>

WriteFails(w) ==
    /\ At(w, "write") /\ Slip
    /\ work' = [work EXCEPT ![w] = Rest(w)]
    /\ UNCHANGED <<row, seq, expected, received, wire, restarts, tries>>

\* The backoff of an event runs out.
Backoff(e) ==
    /\ row[e].status = "pending" /\ ~row[e].due
    /\ row' = [row EXCEPT ![e].due = TRUE]
    /\ UNCHANGED <<seq, expected, received, wire, work, failures, restarts, tries>>

\* The operator requeues a dead event.
Requeue(e) ==
    /\ row[e].status = "dead"
    /\ row[e].max < MaxAttempts + 3 * MaxRequeues
    /\ row' = [row EXCEPT ![e].status = "pending", ![e].due = TRUE, ![e].max = @ + 3]
    /\ UNCHANGED <<seq, expected, received, wire, work, failures, restarts, tries>>

\* MATS stops and starts again: what is saved stays, nothing looks for what is owed.
Restart ==
    /\ restarts < MaxRestarts /\ restarts' = restarts + 1
    /\ row' = [e \in Events |-> IF row[e].status = "owed" THEN [row[e] EXCEPT !.status = "dropped"] ELSE row[e]]
    /\ wire' = wire \cup {Event(w) : w \in {v \in Workers : At(v, "send")}}
    /\ work' = [w \in Workers |-> Free]
    /\ UNCHANGED <<seq, expected, received, failures, tries>>

Next ==
    \/ \E e \in Events : Arise(e) \/ Publish(e) \/ Drop(e) \/ Arrive(e) \/ Backoff(e) \/ Requeue(e)
    \/ Load
    \/ \E w \in Workers : \/ Answered(w) \/ Unanswered(w) \/ WakeUp(w)
                          \/ WakeUpFails(w) \/ Write(w) \/ WriteFails(w)
    \/ Restart

Spec == Init /\ [][Next]_vars

(***************************************************************************)
(* Requests and the loop go on, backoffs run out, and calls do not fail    *)
(* for ever (MaxFailures).  The backoff of an older event outlasts a turn  *)
(* of the loop, so that the loop comes to every event: hence SF.           *)
(***************************************************************************)
FairSpec ==
    /\ Spec
    /\ \A e \in Events : /\ WF_vars(Publish(e) \/ Drop(e))
                         /\ WF_vars(Backoff(e))
                         /\ SF_vars(Load /\ e \in First)
    /\ \A w \in Workers : WF_vars(Answered(w) \/ WakeUp(w) \/ Write(w))
-----------------------------------------------------------------------------
Saved == {"pending", "delivered", "dead"}

Rows == [status : {"none", "owed", "dropped"} \cup Saved, number : Nat,
         attempts : Nat, max : Nat, due : BOOLEAN]
Copies == [event : Events, attempts : Nat, max : Nat]
Works == [at : {"idle", "send", "wake", "write"}, todo : Seq(Copies), ok : BOOLEAN]

\* The type invariant.  A worker is idle exactly when it has nothing in hand.
TypeOK ==
    /\ row \in [Events -> Rows]
    /\ seq \in Nat
    /\ expected \in [Closings -> Nat]
    /\ received \subseteq Events /\ wire \subseteq Events
    /\ work \in [Workers -> Works]
    /\ \A w \in Workers : At(w, "idle") <=> work[w].todo = <<>>
    /\ failures \in 0..MaxFailures /\ restarts \in 0..MaxRestarts
    /\ tries \in [Events -> Nat]

(***************************************************************************)
(* An event that counts as delivered was received, although the request    *)
(* and the loop overwrite each other's rows.                               *)
(***************************************************************************)
DeliveredMeansReceived == \A e \in Events : row[e].status = "delivered" => e \in received

(***************************************************************************)
(* No event is given up before MaxAttempts deliveries of it have failed,   *)
(* whoever counted them, and a closing never is.                           *)
(***************************************************************************)
DeadAfterMaxAttempts ==
    \A e \in Events : row[e].status = "dead" => e \notin Closings /\ tries[e] >= MaxAttempts

\* What the outbox says of an event, in the words of DeliveryQueue.
QueueStatus == [e \in Events |-> CASE row[e].status = "pending"   -> "waiting"
                                   [] row[e].status = "delivered" -> "confirmed"
                                   [] row[e].status = "dead"      -> "dead"
                                   [] OTHER                       -> "none"]
Queue == INSTANCE DeliveryQueue WITH status <- QueueStatus, Permanent <- Closings

(***************************************************************************)
(* The outbox, with its two writers that know nothing of each other, is    *)
(* the queue DeliveryQueue promises: nothing is confirmed that was not     *)
(* received, and nothing given up too early.                               *)
(***************************************************************************)
ImplementsQueue == Queue!QueueSpec

\* A saved trade or report is received in the end, or dead.
EventuallyReceived ==
    \A e \in Trades \cup Reports :
      row[e].status = "pending" ~> e \in received \/ row[e].status = "dead"

(***************************************************************************)
(* BEI accepts every saved closing in the end unless the event of a trade  *)
(* was dropped or given up, however often the closing overtakes a trade.   *)
(***************************************************************************)
ClosingAccepted ==
    \A c \in Closings :
      row[c].status = "pending" ~>
        c \in received \/ \E t \in Trades \ received : row[t].status \in {"dropped", "dead"}
=============================================================================
