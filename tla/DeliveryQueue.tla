---------------------------- MODULE DeliveryQueue ----------------------------
(***************************************************************************)
(* What the event dispatcher of MATS promises: an event it has taken is    *)
(* received at least once or reported dead.  It counts as confirmed only   *)
(* after it was received, is given up only after MaxAttempts failed tries, *)
(* and some events are never given up.                                     *)
(***************************************************************************)
EXTENDS Naturals

CONSTANTS Events, Permanent, MaxAttempts

VARIABLES status, received, tries

queueVars == <<status, received, tries>>

QueueInit == /\ status = [e \in Events |-> "none"]
             /\ received = {}
             /\ tries = [e \in Events |-> 0]

Moves(e, to) == status' = [status EXCEPT ![e] = to] /\ UNCHANGED <<received, tries>>

Enqueue(e) == status[e] = "none" /\ Moves(e, "waiting")

Receive(e) == /\ status[e] # "none"
              /\ received' = received \cup {e}
              /\ UNCHANGED <<status, tries>>

Fail(e) == /\ status[e] # "none"
           /\ tries' = [tries EXCEPT ![e] = @ + 1]
           /\ UNCHANGED <<status, received>>

Confirm(e) == e \in received /\ Moves(e, "confirmed")

GiveUp(e) == e \notin Permanent /\ tries[e] >= MaxAttempts /\ Moves(e, "dead")

\* An event can wait again, even one that was confirmed: it may be received twice.
Again(e) == status[e] # "none" /\ Moves(e, "waiting")

QueueNext == \E e \in Events : \/ Enqueue(e) \/ Receive(e) \/ Fail(e)
                               \/ Confirm(e) \/ GiveUp(e) \/ Again(e)

QueueSpec == QueueInit /\ [][QueueNext]_queueVars
=============================================================================
