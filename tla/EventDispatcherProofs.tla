------------------------ MODULE EventDispatcherProofs ------------------------
(***************************************************************************)
(* The outbox is an at-least-once queue, for every set of events, limit    *)
(* and number of attempts.  A worker acts on a copy of a row that the row  *)
(* may have left behind, so the invariant says of the copies what it says  *)
(* of the rows: they never claim more failures than there were.            *)
(***************************************************************************)
EXTENDS EventDispatcher, FiniteSetTheorems, TLAPS

\* A copy in hand is of a saved event and counts no failure that was not.
CopyOK(copy) ==
    /\ row[copy.event].status \in Saved
    /\ copy.max >= MaxAttempts
    /\ copy.event \notin Closings => copy.attempts <= tries[copy.event]

\* What a worker is about to write is true.
HandOK(w) ==
    /\ \A i \in DOMAIN work[w].todo : CopyOK(work[w].todo[i])
    /\ At(w, "wake") => Event(w) \in received
    /\ At(w, "write") => IF work[w].ok THEN Event(w) \in received
                         ELSE Event(w) \notin Closings => InHand(w).attempts < tries[Event(w)]

RowOK(e) ==
    /\ row[e].max >= MaxAttempts
    /\ e \notin Closings => row[e].attempts <= tries[e]
    /\ row[e].status = "delivered" => e \in received
    /\ row[e].status = "dead" => e \notin Closings /\ tries[e] >= MaxAttempts
    /\ e \in wire => row[e].status \in Saved

IInv == /\ TypeOK
        /\ \A e \in Events : RowOK(e)
        /\ \A w \in Workers : HandOK(w)

\* What is saved stays saved, what is received stays so, failures only add up.
Grows == /\ \A e \in Events : row[e].status \in Saved => row'[e].status \in Saved
         /\ received \subseteq received'
         /\ \A e \in Events : tries[e] <= tries'[e]
-----------------------------------------------------------------------------
LEMMA HandFacts ==
    ASSUME TypeOK, NEW w \in Workers, ~At(w, "idle")
    PROVE  /\ InHand(w) \in Copies /\ Event(w) \in Events
           /\ InHand(w) = work[w].todo[1] /\ 1 \in DOMAIN work[w].todo
           /\ work[w].todo \in Seq(Copies) /\ work[w].todo # <<>>
  <1>1. work[w].todo \in Seq(Copies) /\ work[w].todo # <<>> BY DEF TypeOK, Works, At
  <1>2. Head(work[w].todo) \in Copies /\ 1 \in DOMAIN work[w].todo
        /\ Head(work[w].todo) = work[w].todo[1]
    BY <1>1
  <1> QED BY <1>1, <1>2 DEF InHand, Event, Copies

\* A copy that was true stays true.
LEMMA HandKept ==
    ASSUME IInv, NEW w \in Workers, Grows, TypeOK', work'[w] = work[w]
    PROVE  HandOK(w)'
  <1>1. \A i \in DOMAIN work[w].todo :
          work[w].todo[i] \in Copies /\ work[w].todo[i].event \in Events
    <2>1. work[w].todo \in Seq(Copies) BY DEF IInv, TypeOK, Works
    <2>2. \A i \in DOMAIN work[w].todo : work[w].todo[i] \in Copies BY <2>1
    <2> QED BY <2>2 DEF Copies
  <1>2. \A i \in DOMAIN work[w].todo : CopyOK(work[w].todo[i])'
    BY <1>1 DEF IInv, HandOK, CopyOK, Grows, TypeOK, Copies
  <1>3. At(w, "wake") => (Event(w) \in received)'
    BY DEF IInv, HandOK, Grows, Event, InHand
  <1>4. ASSUME At(w, "write")
        PROVE  (IF work[w].ok THEN Event(w) \in received
                ELSE Event(w) \notin Closings => InHand(w).attempts < tries[Event(w)])'
    <2>1. InHand(w) \in Copies /\ Event(w) \in Events
      BY <1>4, HandFacts DEF IInv, At
    <2>2. InHand(w)' = InHand(w) /\ Event(w)' = Event(w)
      BY DEF InHand, Event
    <2> QED BY <1>4, <2>1, <2>2 DEF IInv, HandOK, Grows, TypeOK, Copies
  <1> QED BY <1>2, <1>3, <1>4 DEF HandOK, At

\* The steps that leave the workers alone.
LEMMA HandsKept ==
    ASSUME IInv, Grows, TypeOK', UNCHANGED work
    PROVE  \A w \in Workers : HandOK(w)'
  BY HandKept

\* A worker takes up h and the others go on with what they have.
LEMMA OneHand ==
    ASSUME TypeOK, NEW w \in Workers, NEW h \in Works, work' = [work EXCEPT ![w] = h],
           h.at = "idle" <=> h.todo = <<>>
    PROVE  /\ work' \in [Workers -> Works]
           /\ \A v \in Workers : At(v, "idle")' <=> work'[v].todo = <<>>
           /\ work'[w] = h
           /\ \A v \in Workers \ {w} : work'[v] = work[v]
  <1>1. /\ work' \in [Workers -> Works] /\ work'[w] = h
        /\ \A v \in Workers \ {w} : work'[v] = work[v]
    BY DEF TypeOK
  <1>2. ASSUME NEW v \in Workers PROVE At(v, "idle")' <=> work'[v].todo = <<>>
    <2>1. CASE v = w BY <1>1, <2>1 DEF At
    <2>2. CASE v # w BY <1>1, <2>2 DEF At, TypeOK
    <2> QED BY <2>1, <2>2
  <1> QED BY <1>1, <1>2

\* A worker that has nothing in hand claims nothing.
LEMMA FreeHand == ASSUME NEW w \in Workers, work'[w] = Free PROVE HandOK(w)'
  BY DEF HandOK, Free, At

-----------------------------------------------------------------------------
LEMMA InitInv == Init => IInv
  <1> SUFFICES ASSUME Init PROVE IInv OBVIOUS
  <1>1. TypeOK BY DispatcherAssumption DEF Init, TypeOK, Rows, Works, Copies, Free, At
  <1>2. \A e \in Events : RowOK(e) BY DispatcherAssumption DEF Init, RowOK
  <1>3. \A w \in Workers : HandOK(w) BY DEF Init, HandOK, Free, At
  <1> QED BY <1>1, <1>2, <1>3 DEF IInv

\* A step that changes one row and nothing else the invariant speaks of.
LEMMA RowInv ==
    ASSUME IInv, NEW e \in Events,
           row' \in [Events -> Rows], \A x \in Events \ {e} : row'[x] = row[x],
           UNCHANGED <<seq, expected, received, wire, work, failures, restarts, tries>>,
           row'[e].max >= row[e].max, row'[e].attempts = row[e].attempts,
           row[e].status \in Saved => row'[e].status \in Saved,
           row'[e].status \notin {"delivered", "dead"}
    PROVE  IInv' /\ Grows
  <1>2. TypeOK' BY DEF IInv, TypeOK, At
  <1>3. Grows BY DEF IInv, TypeOK, Grows
  <1>4. ASSUME NEW x \in Events PROVE RowOK(x)'
    <2>1. CASE x = e
      <3>1. row[e].max \in Nat /\ row'[e].max \in Nat BY DEF IInv, TypeOK, Rows
      <3> QED BY <2>1, <3>1, DispatcherAssumption DEF IInv, RowOK
    <2>2. CASE x # e BY <2>2 DEF IInv, RowOK
    <2> QED BY <2>1, <2>2
  <1> QED BY <1>2, <1>3, <1>4, HandsKept DEF IInv

LEMMA AriseInv ==
    ASSUME IInv, NEW e \in Events, Arise(e) \/ Drop(e) \/ Backoff(e) \/ Requeue(e)
    PROVE  IInv' /\ Grows
  <1>1. row \in [Events -> Rows] BY DEF IInv, TypeOK
  <1>2. CASE Arise(e)
    <2>1. row' \in [Events -> Rows] BY <1>1, <1>2 DEF Arise, Rows
    <2> QED BY <1>1, <1>2, <2>1, RowInv DEF Arise, Rows, Saved
  <1>3. CASE Drop(e)
    <2>1. row' \in [Events -> Rows] BY <1>1, <1>3 DEF Drop, Rows
    <2> QED BY <1>1, <1>3, <2>1, RowInv DEF Drop, Rows, Saved
  <1>4. CASE Backoff(e)
    <2>1. row' \in [Events -> Rows] BY <1>1, <1>4 DEF Backoff, Rows
    <2>2. /\ \A x \in Events \ {e} : row'[x] = row[x]
          /\ row'[e].max >= row[e].max /\ row'[e].attempts = row[e].attempts
          /\ row'[e].status = "pending"
      BY <1>1, <1>4 DEF Backoff, Rows
    <2> QED BY <1>4, <2>1, <2>2, RowInv DEF Backoff, Saved
  <1>5. CASE Requeue(e)
    <2>1. row' \in [Events -> Rows] BY <1>1, <1>5 DEF Requeue, Rows, Saved
    <2>2. /\ \A x \in Events \ {e} : row'[x] = row[x]
          /\ row'[e].max >= row[e].max /\ row'[e].attempts = row[e].attempts
          /\ row'[e].status = "pending"
      BY <1>1, <1>5 DEF Requeue, Rows
    <2> QED BY <1>5, <2>1, <2>2, RowInv DEF Requeue, Saved
  <1> QED BY <1>2, <1>3, <1>4, <1>5

LEMMA ArriveInv == ASSUME IInv, NEW e \in Events, Arrive(e) PROVE IInv' /\ Grows
  <1> USE DEF IInv
  <1>1. TypeOK' BY DEF Arrive, TypeOK, At
  <1>2. Grows BY DEF Arrive, TypeOK, Grows
  <1>3. \A x \in Events : RowOK(x)' BY DEF Arrive, TypeOK, RowOK
  <1> QED BY <1>1, <1>2, <1>3, HandsKept DEF Arrive

LEMMA PublishInv == ASSUME IInv, NEW e \in Events, Publish(e) PROVE IInv' /\ Grows
  <1> DEFINE r == row'[e]
  <1>1. /\ row' \in [Events -> Rows] /\ \A x \in Events \ {e} : row'[x] = row[x]
        /\ r.status = "pending" /\ r.max = row[e].max /\ r.attempts = row[e].attempts
    <2>1. row[e] \in Rows /\ seq + 1 \in Nat BY DEF IInv, TypeOK
    <2>2. row' = [row EXCEPT ![e] = [row[e] EXCEPT !.status = "pending", !.due = TRUE, !.number = seq + 1]]
      BY DEF Publish
    <2>3. [row[e] EXCEPT !.status = "pending", !.due = TRUE, !.number = seq + 1] \in Rows
      BY <2>1 DEF Rows, Saved
    <2> QED BY <2>1, <2>2, <2>3 DEF IInv, TypeOK, Rows
  <1>2. expected' \in [Closings -> Nat]
    <2>1. Cardinality(TradesMade) \in Nat
      BY DispatcherAssumption, FS_Subset, FS_CardinalityType DEF TradesMade
    <2> QED BY <2>1 DEF IInv, TypeOK, Publish
  <1>3. Copy(e) \in Copies BY DEF IInv, TypeOK, Rows, Copy, Copies
  <1> DEFINE h == [at |-> "send", todo |-> <<Copy(e)>>, ok |-> FALSE]
  <1>4. h \in Works /\ h.todo # <<>> BY <1>3 DEF Works
  <1>5. /\ work' \in [Workers -> Works]
        /\ \A v \in Workers : At(v, "idle")' <=> work'[v].todo = <<>>
        /\ work'[e] = h /\ \A v \in Workers \ {e} : work'[v] = work[v]
    BY <1>4, OneHand DEF IInv, Publish, Workers
  <1>6. TypeOK' BY <1>1, <1>2, <1>5 DEF IInv, TypeOK, Publish
  <1>7. Grows BY <1>1 DEF IInv, TypeOK, Publish, Grows, Saved
  <1>8. ASSUME NEW x \in Events PROVE RowOK(x)'
    BY <1>1 DEF IInv, RowOK, Publish, Saved
  <1>9. ASSUME NEW w \in Workers PROVE HandOK(w)'
    <2>1. CASE w = e
      <3>1. ASSUME NEW c \in Copies, c = Copy(e) PROVE CopyOK(c)'
        BY <1>1, <3>1 DEF IInv, RowOK, Publish, CopyOK, Copy, Saved
      <3>2. DOMAIN <<Copy(e)>> = {1} /\ <<Copy(e)>>[1] = Copy(e) OBVIOUS
      <3>3. work'[w].todo = <<Copy(e)>> /\ work'[w].at = "send" BY <1>5, <2>1
      <3>4. \A i \in DOMAIN work'[w].todo : work'[w].todo[i] \in Copies /\ work'[w].todo[i] = Copy(e)
        BY <1>3, <3>2, <3>3
      <3>5. \A i \in DOMAIN work'[w].todo : CopyOK(work[w].todo[i])'
        BY <3>1, <3>4 DEF CopyOK
      <3> QED BY <3>3, <3>5 DEF HandOK, At
    <2>2. CASE w # e BY <1>5, <1>6, <1>7, <2>2, HandKept
    <2> QED BY <2>1, <2>2
  <1> QED BY <1>6, <1>7, <1>8, <1>9 DEF IInv

LEMMA LoadInv == ASSUME IInv, Load PROVE IInv' /\ Grows
  <1>1. PICK batch \in SeqOf(First, Limit) :
          /\ ToSet(batch) = First
          /\ work' = [work EXCEPT ![Drain] = [at   |-> "send", ok |-> FALSE,
                                              todo |-> [i \in DOMAIN batch |-> Copy(batch[i])]]]
    BY DEF Load
  <1> DEFINE todo == [i \in DOMAIN batch |-> Copy(batch[i])]
  <1>2. PICK n \in 0..Limit : batch \in [1..n -> First] BY DEF SeqOf
  <1>3. \A i \in 1..n : batch[i] \in Events /\ row[batch[i]].status = "pending"
    BY <1>2 DEF First, Due
  <1>4. n # 0
    BY <1>1, <1>2 DEF Load, ToSet
  <1>5. todo \in Seq(Copies) /\ todo # <<>>
    <2>1. \A i \in 1..n : todo[i] \in Copies
      BY <1>2, <1>3 DEF IInv, TypeOK, Rows, Copy, Copies
    <2>2. DOMAIN todo = 1..n BY <1>2
    <2> QED BY <1>4, <2>1, <2>2, DispatcherAssumption
  <1> DEFINE h == [at |-> "send", todo |-> todo, ok |-> FALSE]
  <1>6. h \in Works /\ h.todo # <<>> BY <1>5 DEF Works
  <1>7. /\ work' \in [Workers -> Works]
        /\ \A v \in Workers : At(v, "idle")' <=> work'[v].todo = <<>>
        /\ work'[Drain] = h /\ \A v \in Workers \ {Drain} : work'[v] = work[v]
    <2>1. work' = [work EXCEPT ![Drain] = h] BY <1>1
    <2>2. (h.at = "idle" <=> h.todo = <<>>) /\ Drain \in Workers BY <1>6 DEF Workers
    <2> HIDE DEF h
    <2> QED BY <1>6, <2>1, <2>2, OneHand DEF IInv
  <1>71. TypeOK' BY <1>7 DEF IInv, TypeOK, Load
  <1>8. Grows BY DEF IInv, TypeOK, Load, Grows
  <1>9. ASSUME NEW w \in Workers PROVE HandOK(w)'
    <2>1. CASE w = Drain
      <3>1. ASSUME NEW c \in Copies, NEW i \in 1..n, c = Copy(batch[i]) PROVE CopyOK(c)'
        BY <1>2, <1>3, <3>1 DEF IInv, RowOK, Load, CopyOK, Copy, Saved
      <3>2. work'[w].todo = todo /\ work'[w].at = "send" /\ DOMAIN todo = 1..n
        BY <1>2, <1>7, <2>1
      <3>3. \A i \in 1..n : work'[w].todo[i] \in Copies /\ work'[w].todo[i] = Copy(batch[i])
        BY <1>2, <1>5, <3>2
      <3>4. \A i \in DOMAIN work'[w].todo : CopyOK(work[w].todo[i])'
        BY <3>1, <3>2, <3>3 DEF CopyOK
      <3> QED BY <3>2, <3>4 DEF HandOK, At
    <2>2. CASE w # Drain BY <1>7, <1>71, <1>8, <2>2, HandKept
    <2> QED BY <2>1, <2>2
  <1>10. \A x \in Events : RowOK(x)' BY DEF IInv, RowOK, Load
  <1> QED BY <1>71, <1>8, <1>9, <1>10 DEF IInv

-----------------------------------------------------------------------------
\* A worker goes from one stage of a delivery to the next.
LEMMA StepHand ==
    ASSUME TypeOK, NEW w \in Workers, ~At(w, "idle"),
           NEW a \in {"wake", "write"}, NEW b \in BOOLEAN, Step(w, a, b)
    PROVE  /\ work' \in [Workers -> Works]
           /\ \A v \in Workers : At(v, "idle")' <=> work'[v].todo = <<>>
           /\ work'[w].at = a /\ work'[w].ok = b /\ work'[w].todo = work[w].todo
           /\ \A v \in Workers \ {w} : work'[v] = work[v]
  <1> DEFINE h == [work[w] EXCEPT !.at = a, !.ok = b]
  <1>1. h \in Works /\ h.at = a /\ h.ok = b /\ h.todo = work[w].todo
    BY DEF TypeOK, Works
  <1>2. (h.at = "idle" <=> h.todo = <<>>) BY <1>1, HandFacts
  <1>3. work' = [work EXCEPT ![w] = h] BY DEF Step, TypeOK
  <1> HIDE DEF h
  <1> QED BY <1>1, <1>2, <1>3, OneHand

LEMMA StepInv ==
    ASSUME IInv, NEW w \in Workers, ~At(w, "idle"),
           NEW a \in {"wake", "write"}, NEW b \in BOOLEAN, Step(w, a, b),
           TypeOK', Grows,
           a = "wake" \/ b => Event(w) \in received',
           a = "write" /\ ~b /\ Event(w) \notin Closings => InHand(w).attempts < tries'[Event(w)]
    PROVE  \A v \in Workers : HandOK(v)'
  <1>1. TypeOK BY DEF IInv
  <1>2. /\ work'[w].at = a /\ work'[w].ok = b /\ work'[w].todo = work[w].todo
        /\ \A v \in Workers \ {w} : work'[v] = work[v]
    BY <1>1, StepHand
  <1>3. Event(w)' = Event(w) /\ InHand(w)' = InHand(w) BY <1>2 DEF Event, InHand
  <1>4. \A i \in DOMAIN work[w].todo : CopyOK(work[w].todo[i])'
    <2>1. work[w].todo \in Seq(Copies) BY <1>1 DEF TypeOK, Works
    <2>2. \A i \in DOMAIN work[w].todo : work[w].todo[i] \in Copies BY <2>1
    <2>3. ASSUME NEW c \in Copies, CopyOK(c) PROVE CopyOK(c)'
      BY <2>3, <1>1 DEF CopyOK, Copies, Grows, TypeOK
    <2>4. \A i \in DOMAIN work[w].todo : CopyOK(work[w].todo[i]) BY DEF IInv, HandOK
    <2> QED BY <1>2, <2>2, <2>3, <2>4 DEF CopyOK
  <1>5. HandOK(w)' BY <1>2, <1>3, <1>4 DEF HandOK, At
  <1>6. ASSUME NEW v \in Workers \ {w} PROVE HandOK(v)' BY <1>2, HandKept
  <1> QED BY <1>5, <1>6

LEMMA AnsweredInv == ASSUME IInv, NEW w \in Workers, Answered(w) PROVE IInv' /\ Grows
  <1>1. TypeOK /\ ~At(w, "idle") BY DEF IInv, Answered, At
  <1>2. Event(w) \in Events BY <1>1, HandFacts
  <1>3. CASE /\ Accepts(Event(w))
             /\ received' = received \cup {Event(w)} /\ UNCHANGED tries
             /\ Step(w, IF Event(w) \in Trades THEN "wake" ELSE "write", TRUE)
    <2>1. PICK a \in {"wake", "write"} : Step(w, a, TRUE) BY <1>3
    <2>2. TypeOK' BY <1>1, <1>2, <1>3, <2>1, StepHand DEF TypeOK, Answered
    <2>3. Grows BY <1>1, <1>3 DEF Grows, TypeOK, Answered
    <2>4. \A v \in Workers : HandOK(v)' BY <1>1, <1>3, <2>1, <2>2, <2>3, StepInv
    <2>5. \A e \in Events : RowOK(e)' BY <1>3 DEF IInv, RowOK, Answered
    <2> QED BY <2>2, <2>3, <2>4, <2>5 DEF IInv
  <1>4. CASE ~Accepts(Event(w)) /\ Step(w, "write", FALSE) /\ UNCHANGED <<received, tries>>
    <2>1. TypeOK' BY <1>1, <1>4, StepHand DEF TypeOK, Answered
    <2>2. Grows BY <1>1, <1>4 DEF Grows, TypeOK, Answered
    <2>3. Event(w) \in Closings BY <1>4 DEF Accepts
    <2>4. \A v \in Workers : HandOK(v)' BY <1>1, <1>4, <2>1, <2>2, <2>3, StepInv
    <2>5. \A e \in Events : RowOK(e)' BY <1>4 DEF IInv, RowOK, Answered
    <2> QED BY <2>1, <2>2, <2>4, <2>5 DEF IInv
  <1> QED BY <1>3, <1>4 DEF Answered

LEMMA UnansweredInv == ASSUME IInv, NEW w \in Workers, Unanswered(w) PROVE IInv' /\ Grows
  <1>1. TypeOK /\ ~At(w, "idle") /\ Step(w, "write", FALSE) BY DEF IInv, Unanswered, At
  <1>2. Event(w) \in Events /\ InHand(w) \in Copies BY <1>1, HandFacts
  <1>3. /\ tries' \in [Events -> Nat] /\ tries'[Event(w)] = tries[Event(w)] + 1
        /\ \A e \in Events : tries[e] <= tries'[e]
    BY <1>1, <1>2 DEF TypeOK, Unanswered
  <1>4. TypeOK'
    <2>1. failures' \in 0..MaxFailures BY <1>1, DispatcherAssumption DEF TypeOK, Unanswered, Slip
    <2>2. /\ work' \in [Workers -> Works]
          /\ \A v \in Workers : At(v, "idle")' <=> work'[v].todo = <<>>
      BY <1>1, StepHand
    <2> QED BY <1>1, <1>2, <1>3, <2>1, <2>2 DEF TypeOK, Unanswered
  <1>5. Grows BY <1>3 DEF Grows, Unanswered
  <1>6. CopyOK(InHand(w)) BY <1>1, HandFacts DEF IInv, HandOK
  <1>7. \A v \in Workers : HandOK(v)'
    <2>1. Event(w) \notin Closings => InHand(w).attempts < tries'[Event(w)]
      BY <1>2, <1>3, <1>6 DEF CopyOK, Event, Copies, TypeOK, IInv
    <2> QED BY <1>1, <1>4, <1>5, <2>1, StepInv
  <1>8. ASSUME NEW e \in Events PROVE RowOK(e)'
    BY <1>1, <1>3, <1>6, DispatcherAssumption
       DEF IInv, RowOK, Unanswered, TypeOK, Rows, CopyOK, Event
  <1> QED BY <1>4, <1>5, <1>7, <1>8 DEF IInv

LEMMA WakeUpInv ==
    ASSUME IInv, NEW w \in Workers, WakeUp(w) \/ WakeUpFails(w)
    PROVE  IInv' /\ Grows
  <1>1. TypeOK /\ ~At(w, "idle") /\ Step(w, "write", TRUE)
    BY DEF IInv, WakeUp, WakeUpFails, At
  <1>2. /\ row' \in [Events -> Rows]
        /\ \A e \in Events : /\ row'[e].max = row[e].max /\ row'[e].attempts = row[e].attempts
                             /\ \/ row'[e].status = row[e].status
                                \/ row'[e].status = "pending" /\ row[e].status \in Saved
    <2>1. CASE WakeUp(w)
      <3>1. \A e \in Events : row[e] \in Rows BY <1>1 DEF TypeOK
      <3>2. \A e \in Events : [row[e] EXCEPT !.status = "pending", !.due = TRUE] \in Rows
        BY <3>1 DEF Rows, Saved
      <3>3. row' \in [Events -> Rows] BY <2>1, <3>1, <3>2 DEF WakeUp
      <3>4. ASSUME NEW e \in Events
            PROVE  /\ row'[e].max = row[e].max /\ row'[e].attempts = row[e].attempts
                   /\ \/ row'[e].status = row[e].status
                      \/ row'[e].status = "pending" /\ row[e].status \in Saved
        BY <2>1, <3>1 DEF WakeUp, Rows, Saved
      <3> QED BY <3>3, <3>4
    <2>2. CASE WakeUpFails(w) BY <1>1, <2>2 DEF WakeUpFails, TypeOK
    <2> QED BY <2>1, <2>2
  <1>3. TypeOK'
    <2>1. failures' \in 0..MaxFailures
      <3>1. failures' = failures \/ (failures < MaxFailures /\ failures' = failures + 1)
        BY DEF WakeUp, WakeUpFails, Slip
      <3>2. failures \in 0..MaxFailures BY <1>1 DEF TypeOK
      <3> QED BY <3>1, <3>2, DispatcherAssumption
    <2>2. /\ work' \in [Workers -> Works]
          /\ \A v \in Workers : At(v, "idle")' <=> work'[v].todo = <<>>
      BY <1>1, StepHand
    <2>3. UNCHANGED <<seq, expected, received, wire, restarts, tries>>
      BY DEF WakeUp, WakeUpFails
    <2> QED BY <1>1, <1>2, <2>1, <2>2, <2>3 DEF TypeOK
  <1>4. Grows
    <2>1. UNCHANGED <<received, tries>> BY DEF WakeUp, WakeUpFails
    <2>2. \A e \in Events : row[e].status \in Saved => row'[e].status \in Saved
      BY <1>2 DEF Saved
    <2>3. \A e \in Events : tries[e] \in Nat BY <1>1 DEF TypeOK
    <2> QED BY <2>1, <2>2, <2>3 DEF Grows
  <1>5. Event(w) \in received' BY DEF IInv, HandOK, WakeUp, WakeUpFails
  <1>6. \A v \in Workers : HandOK(v)' BY <1>1, <1>3, <1>4, <1>5, StepInv
  <1>7. ASSUME NEW e \in Events PROVE RowOK(e)'
    <2>1. UNCHANGED <<received, tries, wire>> BY DEF WakeUp, WakeUpFails
    <2> QED BY <1>2, <2>1 DEF IInv, RowOK, Saved
  <1> QED BY <1>3, <1>4, <1>6, <1>7 DEF IInv

\* A worker that has written a row goes on with the copies behind it.
LEMMA RestHand ==
    ASSUME IInv, NEW w \in Workers, At(w, "write"),
           work' = [work EXCEPT ![w] = Rest(w)]
    PROVE  /\ work' \in [Workers -> Works]
           /\ \A v \in Workers : At(v, "idle")' <=> work'[v].todo = <<>>
           /\ work'[w] = Rest(w) /\ \A v \in Workers \ {w} : work'[v] = work[v]
           /\ Rest(w).at \in {"idle", "send"}
           /\ \A i \in DOMAIN Rest(w).todo :
                Rest(w).todo[i] \in Copies /\ CopyOK(Rest(w).todo[i])
  <1>1. TypeOK /\ ~At(w, "idle") BY DEF IInv, At
  <1>2. work[w].todo \in Seq(Copies) /\ work[w].todo # <<>> BY <1>1, HandFacts
  <1>3. CASE Len(work[w].todo) = 1
    <2>1. Rest(w) = Free BY <1>3 DEF Rest
    <2>2. Free \in Works /\ Free.at = "idle" /\ Free.todo = <<>> BY DEF Free, Works
    <2>3. \A i \in DOMAIN <<>> : FALSE OBVIOUS
    <2> QED BY <1>1, <2>1, <2>2, <2>3, OneHand
  <1>4. CASE Len(work[w].todo) # 1
    <2> DEFINE tail == Tail(work[w].todo)
    <2>1. Rest(w) = [at |-> "send", todo |-> tail, ok |-> FALSE] BY <1>4 DEF Rest
    <2>2. tail \in Seq(Copies) /\ tail # <<>>
      <3>1. tail \in Seq(Copies) /\ Len(tail) = Len(work[w].todo) - 1 BY <1>2
      <3>2. Len(work[w].todo) \in Nat /\ Len(work[w].todo) # 0 BY <1>2
      <3>3. Len(tail) # 0 BY <1>4, <3>1, <3>2
      <3>4. Len(<<>>) = 0 OBVIOUS
      <3> HIDE DEF tail
      <3> QED BY <3>1, <3>3, <3>4
    <2>3. \A i \in DOMAIN tail : tail[i] = work[w].todo[i + 1] /\ i + 1 \in DOMAIN work[w].todo
      BY <1>2
    <2>4. \A i \in DOMAIN tail : tail[i] \in Copies /\ CopyOK(tail[i])
      BY <1>2, <2>3 DEF IInv, HandOK
    <2> HIDE DEF tail
    <2>5. Rest(w) \in Works /\ Rest(w).at = "send" /\ Rest(w).todo = tail BY <2>1, <2>2 DEF Works
    <2> QED BY <1>1, <2>2, <2>4, <2>5, OneHand
  <1> QED BY <1>3, <1>4

LEMMA WriteInv ==
    ASSUME IInv, NEW w \in Workers, Write(w) \/ WriteFails(w)
    PROVE  IInv' /\ Grows
  <1>1. TypeOK /\ At(w, "write") /\ ~At(w, "idle") /\ work' = [work EXCEPT ![w] = Rest(w)]
    BY DEF IInv, Write, WriteFails, At
  <1> DEFINE e == Event(w)
             new == Written(InHand(w), work[w].ok)
  <1>2. e \in Events /\ InHand(w) \in Copies /\ CopyOK(InHand(w)) /\ row[e] \in Rows
    <2>1. CopyOK(InHand(w)) BY <1>1, HandFacts DEF IInv, HandOK
    <2> QED BY <1>1, <2>1, HandFacts DEF TypeOK
  <1>3. /\ new \in Rows /\ new.max = row[e].max /\ new.status \in Saved
        /\ work[w].ok => new.status = "delivered" /\ new.attempts = InHand(w).attempts
        /\ ~work[w].ok /\ e \notin Closings =>
             /\ new.attempts = InHand(w).attempts + 1
             /\ new.status # "delivered"
             /\ new.status = "dead" => InHand(w).attempts + 1 >= InHand(w).max
        /\ ~work[w].ok /\ e \in Closings => new.status = "pending"
    <2>1. /\ InHand(w).attempts \in Nat /\ InHand(w).max \in Nat /\ InHand(w).event = e
          /\ InHand(w).attempts + 1 \in Nat
      BY <1>2 DEF Copies, Event
    <2>2. CASE work[w].ok
      <3>1. new = [row[e] EXCEPT !.status = "delivered", !.attempts = InHand(w).attempts, !.due = TRUE]
        BY <2>1, <2>2 DEF Written
      <3> HIDE DEF new
      <3> QED BY <1>2, <2>1, <2>2, <3>1 DEF Rows, Saved
    <2>3. CASE ~work[w].ok /\ e \in Closings
      <3>1. PICK n \in Nat : new = [row[e] EXCEPT !.attempts = n, !.due = FALSE, !.status = "pending"]
        BY <2>1, <2>3 DEF Written
      <3> HIDE DEF new
      <3> QED BY <1>2, <2>1, <2>3, <3>1 DEF Rows, Saved
    <2>4. CASE ~work[w].ok /\ e \notin Closings
      <3>1. new = [row[e] EXCEPT !.attempts = InHand(w).attempts + 1, !.due = FALSE,
                     !.status = IF InHand(w).attempts + 1 >= InHand(w).max THEN "dead" ELSE "pending"]
        BY <2>1, <2>4 DEF Written
      <3> HIDE DEF new
      <3> QED BY <1>2, <2>1, <2>4, <3>1 DEF Rows, Saved
    <2> QED BY <2>2, <2>3, <2>4
  <1> HIDE DEF new
  <1>4. /\ row' \in [Events -> Rows] /\ \A x \in Events \ {e} : row'[x] = row[x]
        /\ row'[e] = row[e] \/ row'[e] = new
    <2>1. row' = row \/ row' = [row EXCEPT ![e] = new] BY DEF Write, WriteFails, new
    <2> QED BY <1>1, <1>2, <1>3, <2>1 DEF TypeOK
  <1>5. UNCHANGED <<seq, expected, received, wire, restarts, tries>> BY DEF Write, WriteFails
  <1>6. TypeOK'
    <2>1. failures' \in 0..MaxFailures
      BY <1>1, DispatcherAssumption DEF TypeOK, Write, WriteFails, Slip
    <2> QED BY <1>1, <1>4, <1>5, <2>1, RestHand DEF TypeOK
  <1>7. Grows
    <2>1. \A x \in Events : row[x].status \in Saved => row'[x].status \in Saved
      BY <1>3, <1>4
    <2>2. \A x \in Events : tries[x] \in Nat BY <1>1 DEF TypeOK
    <2> QED BY <1>5, <2>1, <2>2 DEF Grows
  <1>8. ASSUME NEW x \in Events PROVE RowOK(x)'
    <2>1. CASE x = e /\ row'[e] = new
      <3>1. IF work[w].ok THEN e \in received
            ELSE e \notin Closings => InHand(w).attempts < tries[e]
        BY <1>1 DEF IInv, HandOK
      <3>2. tries[e] \in Nat /\ InHand(w).attempts \in Nat /\ InHand(w).max \in Nat
        BY <1>1, <1>2 DEF TypeOK, Copies
      <3>3. InHand(w).max >= MaxAttempts /\ (e \notin Closings => InHand(w).attempts <= tries[e])
        BY <1>2 DEF CopyOK, Event
      <3>4. row[e].max >= MaxAttempts /\ work[w].ok \in BOOLEAN
        BY <1>1, <1>2 DEF IInv, RowOK, TypeOK, Works
      <3>5. CASE work[w].ok
        BY <1>3, <1>5, <2>1, <3>1, <3>3, <3>4, <3>5 DEF RowOK
      <3>6. CASE ~work[w].ok /\ e \in Closings
        BY <1>3, <1>5, <2>1, <3>4, <3>6 DEF RowOK
      <3>7. CASE ~work[w].ok /\ e \notin Closings
        <4>1. new.attempts <= tries[e] BY <1>3, <3>1, <3>2, <3>7
        <4>2. new.status = "dead" => tries[e] >= MaxAttempts
          BY <1>3, <3>1, <3>2, <3>3, <3>7, DispatcherAssumption
        <4> QED BY <1>3, <1>5, <2>1, <3>4, <3>7, <4>1, <4>2 DEF RowOK
      <3> QED BY <3>4, <3>5, <3>6, <3>7
    <2>2. CASE ~(x = e /\ row'[e] = new)
      <3>1. row'[x] = row[x] BY <1>4, <2>2
      <3> QED BY <1>5, <3>1 DEF IInv, RowOK
    <2> QED BY <2>1, <2>2
  <1>9. ASSUME NEW v \in Workers PROVE HandOK(v)'
    <2>1. CASE v = w
      <3>1. ASSUME NEW c \in Copies, CopyOK(c) PROVE CopyOK(c)'
        <4>1. c.event \in Events /\ c.attempts \in Nat BY DEF Copies
        <4>2. tries[c.event] \in Nat /\ tries[c.event] <= tries'[c.event] /\ tries'[c.event] \in Nat
          BY <1>1, <1>5, <1>7, <4>1 DEF Grows, TypeOK
        <4> QED BY <1>7, <3>1, <4>1, <4>2 DEF CopyOK, Grows
      <3>2. /\ work'[v] = Rest(w) /\ Rest(w).at \in {"idle", "send"}
            /\ \A i \in DOMAIN Rest(w).todo :
                 Rest(w).todo[i] \in Copies /\ CopyOK(Rest(w).todo[i])
        BY <1>1, <2>1, RestHand
      <3>3. \A i \in DOMAIN work'[v].todo : CopyOK(work[v].todo[i])'
        BY <3>1, <3>2 DEF CopyOK
      <3> QED BY <3>2, <3>3 DEF HandOK, At
    <2>2. CASE v # w BY <1>1, <1>6, <1>7, <2>2, RestHand, HandKept
    <2> QED BY <2>1, <2>2
  <1> QED BY <1>6, <1>7, <1>8, <1>9 DEF IInv

LEMMA RestartInv == ASSUME IInv, Restart PROVE IInv' /\ Grows
  <1>1. TypeOK BY DEF IInv
  <1>2. /\ row' \in [Events -> Rows]
        /\ \A e \in Events : /\ row'[e].max = row[e].max /\ row'[e].attempts = row[e].attempts
                             /\ \/ row'[e].status = row[e].status
                                \/ row'[e].status = "dropped" /\ row[e].status = "owed"
    <2>1. \A e \in Events : row[e] \in Rows BY <1>1 DEF TypeOK
    <2>2. \A e \in Events : [row[e] EXCEPT !.status = "dropped"] \in Rows BY <2>1 DEF Rows
    <2>3. row' \in [Events -> Rows] BY <2>1, <2>2 DEF Restart
    <2>4. ASSUME NEW e \in Events
          PROVE  /\ row'[e].max = row[e].max /\ row'[e].attempts = row[e].attempts
                 /\ \/ row'[e].status = row[e].status
                    \/ row'[e].status = "dropped" /\ row[e].status = "owed"
      BY <2>1 DEF Restart, Rows
    <2> QED BY <2>3, <2>4
  <1>3. \A w \in Workers : At(w, "send") =>
           Event(w) \in Events /\ row[Event(w)].status \in Saved
    <2> SUFFICES ASSUME NEW w \in Workers, At(w, "send")
                 PROVE  Event(w) \in Events /\ row[Event(w)].status \in Saved
      OBVIOUS
    <2>1. ~At(w, "idle") BY DEF At
    <2>2. CopyOK(InHand(w)) BY <1>1, <2>1, HandFacts DEF IInv, HandOK
    <2> QED BY <1>1, <2>1, <2>2, HandFacts DEF CopyOK, Event
  <1>4. \A e \in wire' : e \in wire \/ (e \in Events /\ row[e].status \in Saved)
    BY <1>3 DEF Restart
  <1>5. \A w \in Workers : work'[w] = Free BY DEF Restart
  <1>6. TypeOK'
    <2>1. restarts' \in 0..MaxRestarts BY <1>1, DispatcherAssumption DEF TypeOK, Restart
    <2>2. work' \in [Workers -> Works] BY DEF Restart, Free, Works
    <2>3. \A w \in Workers : At(w, "idle")' <=> work'[w].todo = <<>> BY <1>5 DEF At, Free
    <2>4. wire' \subseteq Events BY <1>1, <1>4 DEF TypeOK
    <2> QED BY <1>1, <1>2, <2>1, <2>2, <2>3, <2>4 DEF TypeOK, Restart
  <1>7. Grows
    <2>1. \A e \in Events : tries[e] \in Nat BY <1>1 DEF TypeOK
    <2> QED BY <1>2, <2>1 DEF Grows, Restart, Saved
  <1>8. ASSUME NEW e \in Events PROVE RowOK(e)'
    BY <1>2, <1>4 DEF IInv, RowOK, Restart, Saved
  <1>9. \A w \in Workers : HandOK(w)' BY <1>5, FreeHand
  <1> QED BY <1>6, <1>7, <1>8, <1>9 DEF IInv

-----------------------------------------------------------------------------
LEMMA NextInv == IInv /\ [Next]_vars => IInv'
  <1> SUFFICES ASSUME IInv, [Next]_vars PROVE IInv' OBVIOUS
  <1>1. CASE UNCHANGED vars
    <2>1. TypeOK' /\ Grows BY <1>1 DEF IInv, TypeOK, vars, At, Grows
    <2>2. \A e \in Events : RowOK(e)' BY <1>1 DEF IInv, RowOK, vars
    <2>3. UNCHANGED work BY <1>1 DEF vars
    <2> QED BY <2>1, <2>2, <2>3, HandsKept DEF IInv
  <1>2. CASE Next
    BY <1>2, AriseInv, ArriveInv, PublishInv, LoadInv, AnsweredInv, UnansweredInv,
       WakeUpInv, WriteInv, RestartInv DEF Next
  <1> QED BY <1>1, <1>2

LEMMA Invariance == Spec => []IInv
  BY InitInv, NextInv, PTL DEF Spec

(***************************************************************************)
(* The outbox keeps its type: rows, copies and counters stay what the      *)
(* dispatcher and the store take them for.                                 *)
(***************************************************************************)
THEOREM DispatcherType == Spec => []TypeOK
  <1>1. IInv => TypeOK BY DEF IInv
  <1> QED BY <1>1, Invariance, PTL

(***************************************************************************)
(* An event that counts as delivered was received, although the request    *)
(* and the loop write stale copies over each other's rows.                 *)
(***************************************************************************)
THEOREM DeliveredWasReceived == Spec => []DeliveredMeansReceived
  <1>1. IInv => DeliveredMeansReceived BY DEF IInv, RowOK, DeliveredMeansReceived
  <1> QED BY <1>1, Invariance, PTL

(***************************************************************************)
(* An event is dead only after MaxAttempts failed deliveries, and the      *)
(* closing of a session never is.                                          *)
(***************************************************************************)
THEOREM DeadWasTried == Spec => []DeadAfterMaxAttempts
  <1>1. IInv => DeadAfterMaxAttempts BY DEF IInv, RowOK, DeadAfterMaxAttempts
  <1> QED BY <1>1, Invariance, PTL

-----------------------------------------------------------------------------
\* The queue sees a row by its status.
Seen(s) == CASE s = "pending"   -> "waiting"
             [] s = "delivered" -> "confirmed"
             [] s = "dead"      -> "dead"
             [] OTHER           -> "none"

LEMMA SeenStatus == \A e \in Events : QueueStatus[e] = Seen(row[e].status)
  BY DEF QueueStatus, Seen

LEMMA SeenSaved == \A e \in Events : QueueStatus[e] # "none" <=> row[e].status \in Saved
  BY DEF QueueStatus, Saved

\* The queue does not see a step that leaves every status as it was to it.
LEMMA SameStatus ==
    ASSUME \A e \in Events : row'[e].status = row[e].status \/
                             {row[e].status, row'[e].status} \cap Saved = {}
    PROVE  QueueStatus' = QueueStatus
  BY DEF QueueStatus, Saved

\* A step that changes how one row is seen.
LEMMA MovesStatus ==
    ASSUME NEW e \in Events, \A x \in Events \ {e} : row'[x] = row[x],
           UNCHANGED <<received, tries>>, NEW s, s = Seen(row'[e].status)
    PROVE  Queue!Moves(e, s)
  <1>1. QueueStatus' = [x \in Events |-> IF x = e THEN s ELSE QueueStatus[x]]
    BY DEF QueueStatus, Seen
  <1> QED BY <1>1 DEF Queue!Moves, QueueStatus

LEMMA InitQueue == Init => Queue!QueueInit
  BY DEF Init, Queue!QueueInit, QueueStatus

\* A step the queue takes no part in.
LEMMA NoQueue ==
    ASSUME UNCHANGED <<received, tries>>,
           \A e \in Events : row'[e].status = row[e].status \/
                            {row[e].status, row'[e].status} \cap Saved = {}
    PROVE  UNCHANGED Queue!queueVars
  BY SameStatus DEF Queue!queueVars

LEMMA WriteQueue ==
    ASSUME IInv, NEW w \in Workers, Write(w) PROVE Queue!QueueNext
  <1> DEFINE e == Event(w)
             new == Written(InHand(w), work[w].ok)
  <1>1. TypeOK /\ At(w, "write") /\ ~At(w, "idle") BY DEF IInv, Write, At
  <1>2. e \in Events /\ CopyOK(InHand(w)) /\ row[e].status \in Saved /\ row[e] \in Rows
    <2>1. CopyOK(InHand(w)) BY <1>1, HandFacts DEF IInv, HandOK
    <2> QED BY <1>1, <2>1, HandFacts DEF TypeOK, CopyOK, Event
  <1>3. /\ row'[e] = new /\ \A x \in Events \ {e} : row'[x] = row[x]
        /\ UNCHANGED <<received, tries>>
    BY <1>1, <1>2 DEF Write, TypeOK
  <1>4. /\ new.status \in {"delivered", "dead", "pending"}
        /\ new.status = "delivered" => work[w].ok
    BY <1>2 DEF Written, Rows, Event
  <1>5. /\ row'[e].status = "delivered" => e \in received'
        /\ row'[e].status = "dead" => e \notin Closings /\ tries'[e] >= MaxAttempts
    <2>1. \A x \in Events : RowOK(x)' BY WriteInv DEF IInv
    <2> QED BY <1>2, <2>1 DEF RowOK
  <1> HIDE DEF new
  <1>6. CASE new.status = "delivered"
    <2>1. Queue!Moves(e, "confirmed") BY <1>2, <1>3, <1>6, MovesStatus DEF Seen
    <2>2. e \in received BY <1>3, <1>5, <1>6
    <2> QED BY <1>2, <2>1, <2>2 DEF Queue!QueueNext, Queue!Confirm
  <1>7. CASE new.status = "dead"
    <2>1. Queue!Moves(e, "dead") BY <1>2, <1>3, <1>7, MovesStatus DEF Seen
    <2>2. e \notin Closings /\ tries[e] >= MaxAttempts BY <1>3, <1>5, <1>7
    <2> QED BY <1>2, <2>1, <2>2 DEF Queue!QueueNext, Queue!GiveUp
  <1>8. CASE new.status = "pending"
    <2>1. Queue!Moves(e, "waiting") BY <1>2, <1>3, <1>8, MovesStatus DEF Seen
    <2>2. QueueStatus[e] # "none" BY <1>2, SeenSaved
    <2> QED BY <1>2, <2>1, <2>2 DEF Queue!QueueNext, Queue!Again
  <1> QED BY <1>4, <1>6, <1>7, <1>8

LEMMA CallQueue ==
    ASSUME IInv, NEW w \in Workers, Answered(w) \/ Unanswered(w)
    PROVE  Queue!QueueNext \/ UNCHANGED Queue!queueVars
  <1> DEFINE e == Event(w)
  <1>1. TypeOK /\ ~At(w, "idle") BY DEF IInv, Answered, Unanswered, At
  <1>2. e \in Events /\ QueueStatus[e] # "none"
    <2>1. CopyOK(InHand(w)) BY <1>1, HandFacts DEF IInv, HandOK
    <2> QED BY <1>1, <2>1, HandFacts, SeenSaved DEF CopyOK, Event
  <1>3. UNCHANGED QueueStatus
    <2>1. UNCHANGED row BY DEF Answered, Unanswered
    <2> QED BY <2>1 DEF QueueStatus
  <1>4. CASE Answered(w)
    <2>1. \/ received' = received \cup {e} /\ UNCHANGED tries
          \/ UNCHANGED <<received, tries>>
      BY <1>4 DEF Answered
    <2> QED BY <1>2, <1>3, <2>1 DEF Queue!QueueNext, Queue!Receive, Queue!queueVars
  <1>5. CASE Unanswered(w)
    <2>1. tries' = [tries EXCEPT ![e] = @ + 1] /\ UNCHANGED received BY <1>5 DEF Unanswered
    <2> QED BY <1>2, <1>3, <2>1 DEF Queue!QueueNext, Queue!Fail
  <1> QED BY <1>4, <1>5

LEMMA EventQueue ==
    ASSUME IInv, NEW e \in Events,
           Arise(e) \/ Publish(e) \/ Drop(e) \/ Arrive(e) \/ Backoff(e) \/ Requeue(e)
    PROVE  Queue!QueueNext \/ UNCHANGED Queue!queueVars
  <1>1. row \in [Events -> Rows] /\ row[e] \in Rows BY DEF IInv, TypeOK
  <1>2. CASE Arise(e) \/ Drop(e) \/ Backoff(e)
    <2>1. UNCHANGED <<received, tries>> BY <1>2 DEF Arise, Drop, Backoff
    <2>2. \A x \in Events : row'[x].status = row[x].status \/
                            {row[x].status, row'[x].status} \cap Saved = {}
      BY <1>1, <1>2 DEF Arise, Drop, Backoff, Rows, Saved
    <2> QED BY <2>1, <2>2, NoQueue
  <1>3. CASE Publish(e)
    <2>1. /\ row'[e].status = "pending" /\ \A x \in Events \ {e} : row'[x] = row[x]
          /\ row[e].status = "owed" /\ UNCHANGED <<received, tries>>
      BY <1>1, <1>3 DEF Publish, Rows
    <2>2. Queue!Moves(e, "waiting") BY <2>1, MovesStatus DEF Seen
    <2>3. QueueStatus[e] = "none" BY <2>1, SeenSaved DEF Saved
    <2> QED BY <2>2, <2>3 DEF Queue!QueueNext, Queue!Enqueue
  <1>4. CASE Requeue(e)
    <2>1. /\ row'[e].status = "pending" /\ \A x \in Events \ {e} : row'[x] = row[x]
          /\ row[e].status = "dead" /\ UNCHANGED <<received, tries>>
      BY <1>1, <1>4 DEF Requeue, Rows
    <2>2. Queue!Moves(e, "waiting") BY <2>1, MovesStatus DEF Seen
    <2>3. QueueStatus[e] # "none" BY <2>1, SeenSaved DEF Saved
    <2> QED BY <2>2, <2>3 DEF Queue!QueueNext, Queue!Again
  <1>5. CASE Arrive(e)
    <2>1. QueueStatus[e] # "none" BY <1>5, SeenSaved DEF Arrive, IInv, RowOK
    <2>2. UNCHANGED <<row, tries>> BY <1>5 DEF Arrive
    <2>3. UNCHANGED QueueStatus BY <2>2 DEF QueueStatus
    <2>4. received' = received \cup {e} \/ UNCHANGED received BY <1>5 DEF Arrive
    <2> QED BY <2>1, <2>2, <2>3, <2>4 DEF Queue!QueueNext, Queue!Receive, Queue!queueVars
  <1> QED BY <1>2, <1>3, <1>4, <1>5

LEMMA NextQueue ==
    IInv /\ [Next]_vars => [Queue!QueueNext]_Queue!queueVars
  <1> SUFFICES ASSUME IInv, [Next]_vars
               PROVE  Queue!QueueNext \/ UNCHANGED Queue!queueVars
    OBVIOUS
  <1>1. CASE UNCHANGED vars BY <1>1, NoQueue DEF vars
  <1>2. CASE Load BY <1>2, NoQueue DEF Load
  <1>3. CASE Restart
    <2>1. \A e \in Events : row[e] \in Rows BY DEF IInv, TypeOK
    <2>2. \A e \in Events : row'[e].status = row[e].status \/
                            {row[e].status, row'[e].status} \cap Saved = {}
      BY <1>3, <2>1 DEF Restart, Rows, Saved
    <2> QED BY <1>3, <2>2, NoQueue DEF Restart
  <1>4. ASSUME NEW w \in Workers, WakeUp(w) \/ WakeUpFails(w) \/ WriteFails(w)
        PROVE  UNCHANGED Queue!queueVars
    <2>1. \A e \in Events : row[e] \in Rows /\ (e \in Closings => row[e].status # "dead")
      BY DEF IInv, TypeOK, RowOK
    <2>2. \A e \in Events : row'[e].status = row[e].status
      BY <1>4, <2>1 DEF WakeUp, WakeUpFails, WriteFails, Rows
    <2>3. UNCHANGED <<received, tries>> BY <1>4 DEF WakeUp, WakeUpFails, WriteFails
    <2> QED BY <2>2, <2>3, NoQueue
  <1> QED BY <1>1, <1>2, <1>3, <1>4, EventQueue, CallQueue, WriteQueue DEF Next

(***************************************************************************)
(* The outbox implements the queue: what is saved is received at least     *)
(* once, or waits, or is reported dead after MaxAttempts failures.         *)
(***************************************************************************)
THEOREM OutboxImplementsQueue == Spec => ImplementsQueue
  BY InitQueue, NextQueue, Invariance, PTL DEF Spec, ImplementsQueue, Queue!QueueSpec
-----------------------------------------------------------------------------
(***************************************************************************)
(* Closings and trades.  BEI counts, so what a closing waits for is that   *)
(* enough trades come; the count never asks for more than were made.       *)
(***************************************************************************)
KnowInv ==
    /\ \A e \in received : row[e].status \in Saved
    /\ \A c \in Closings : expected[c] <= Cardinality(TradesMade)
    /\ \A c \in Closings \cap received : Cardinality(received \cap Trades) >= expected[c]

\* BEI has taken a closing only with as many trades as the closing names.
ClosingKnowsTrades ==
    \A c \in Closings \cap received : Cardinality(received \cap Trades) >= expected[c]

\* A closing that BEI would refuse now waits for a trade that was made, and
\* whose event is still to come or was dropped or given up.
ClosingWaitsForTrade ==
    \A c \in Closings : ~Accepts(c) =>
      \E t \in Trades \ received : row[t].status \in {"owed", "pending", "dropped", "dead"}

\* No trade is unmade.
Remembers == \A e \in Events : row[e].status # "none" => row'[e].status # "none"

LEMMA MadeFinite ==
    /\ TradesMade \subseteq Trades /\ IsFiniteSet(TradesMade)
    /\ Cardinality(TradesMade) \in Nat
  <1>1. TradesMade \subseteq Trades BY DEF TradesMade
  <1> QED BY <1>1, DispatcherAssumption, FS_Subset, FS_CardinalityType

LEMMA ReceivedFinite ==
    IsFiniteSet(received \cap Trades) /\ Cardinality(received \cap Trades) \in Nat
  BY DispatcherAssumption, FS_Subset, FS_CardinalityType

LEMMA MadeGrows ==
    ASSUME Remembers
    PROVE  Cardinality(TradesMade) <= Cardinality(TradesMade')
  <1>1. PICK made : made = TradesMade' OBVIOUS
  <1>2. TradesMade \subseteq made BY <1>1 DEF TradesMade, Remembers, Events
  <1>3. made \subseteq Trades BY <1>1 DEF TradesMade
  <1>4. IsFiniteSet(made) BY <1>3, DispatcherAssumption, FS_Subset
  <1>5. Cardinality(TradesMade) <= Cardinality(made) BY <1>2, <1>4, FS_Subset
  <1> QED BY <1>1, <1>5

LEMMA ReceivedGrows ==
    ASSUME received \subseteq received'
    PROVE  Cardinality(received \cap Trades) <= Cardinality(received' \cap Trades)
  <1>1. PICK now : now = received' \cap Trades OBVIOUS
  <1>2. received \cap Trades \subseteq now BY <1>1
  <1>3. IsFiniteSet(now) BY <1>1, DispatcherAssumption, FS_Subset
  <1>4. Cardinality(received \cap Trades) <= Cardinality(now) BY <1>2, <1>3, FS_Subset
  <1> QED BY <1>1, <1>4

LEMMA CardinalityOfReceived ==
    Cardinality(received' \cap Trades) \in Nat
  BY DispatcherAssumption, FS_Subset, FS_CardinalityType

\* At most one event more is received, and only one that is accepted.
Takes == \/ received' = received
         \/ \E e \in Events : /\ row[e].status \in Saved /\ Accepts(e)
                              /\ received' = received \cup {e}

LEMMA KnowKept ==
    ASSUME IInv, KnowInv, Grows, Remembers, Takes, UNCHANGED expected
    PROVE  KnowInv'
  <1>1. \A c \in Closings : expected[c] \in Nat BY DEF IInv, TypeOK
  <1>2. \A e \in received' : e \in Events /\ row[e].status \in Saved
    BY DEF Takes, KnowInv, IInv, TypeOK
  <1>3. \A e \in received' : row'[e].status \in Saved BY <1>2 DEF Grows
  <1>4. /\ Cardinality(TradesMade) \in Nat /\ Cardinality(TradesMade') \in Nat
        /\ Cardinality(TradesMade) <= Cardinality(TradesMade')
    <2>1. PICK made : made = TradesMade' OBVIOUS
    <2>2. made \subseteq Trades BY <2>1 DEF TradesMade
    <2>3. Cardinality(made) \in Nat BY <2>2, DispatcherAssumption, FS_Subset, FS_CardinalityType
    <2> QED BY <2>1, <2>3, MadeFinite, MadeGrows
  <1>5. \A c \in Closings : expected'[c] <= Cardinality(TradesMade')
    BY <1>1, <1>4 DEF KnowInv
  <1>6. received \subseteq received' BY DEF Grows
  <1>7. /\ Cardinality(received \cap Trades) \in Nat /\ Cardinality(received' \cap Trades) \in Nat
        /\ Cardinality(received \cap Trades) <= Cardinality(received' \cap Trades)
    BY <1>6, ReceivedFinite, CardinalityOfReceived, ReceivedGrows
  <1>8. ASSUME NEW c \in Closings, c \in received'
        PROVE  Cardinality(received' \cap Trades) >= expected'[c]
    <2>1. Cardinality(received \cap Trades) >= expected[c]
      BY <1>8 DEF KnowInv, Takes, Accepts
    <2> QED BY <1>1, <1>7, <2>1
  <1> QED BY <1>3, <1>5, <1>8 DEF KnowInv

LEMMA PublishKnow ==
    ASSUME IInv, KnowInv, NEW e \in Events, Publish(e)
    PROVE  KnowInv'
  <1>1. /\ row[e].status = "owed" /\ UNCHANGED received
        /\ expected' = IF e \in Closings THEN [expected EXCEPT ![e] = Cardinality(TradesMade)]
                                         ELSE expected
    BY DEF Publish
  <1>2. Grows BY PublishInv
  <1>3. row \in [Events -> Rows] /\ expected \in [Closings -> Nat] BY DEF IInv, TypeOK
  <1>4. /\ row'[e].status # "none" /\ \A x \in Events \ {e} : row'[x] = row[x]
    BY <1>3 DEF Publish, Rows
  <1>5. Remembers BY <1>4 DEF Remembers
  <1>6. e \notin received BY <1>1 DEF KnowInv, Saved
  <1>7. \A x \in received' : row'[x].status \in Saved
    BY <1>1, <1>2 DEF KnowInv, Grows, IInv, TypeOK
  <1>8. /\ Cardinality(TradesMade) \in Nat /\ Cardinality(TradesMade') \in Nat
        /\ Cardinality(TradesMade) <= Cardinality(TradesMade')
    <2>1. PICK made : made = TradesMade' OBVIOUS
    <2>2. made \subseteq Trades BY <2>1 DEF TradesMade
    <2>3. Cardinality(made) \in Nat BY <2>2, DispatcherAssumption, FS_Subset, FS_CardinalityType
    <2> QED BY <1>5, <2>1, <2>3, MadeFinite, MadeGrows
  <1>9. \A c \in Closings : expected'[c] = expected[c] \/ expected'[c] = Cardinality(TradesMade)
    BY <1>1, <1>3
  <1>10. \A c \in Closings : expected'[c] <= Cardinality(TradesMade')
    BY <1>3, <1>8, <1>9 DEF KnowInv
  <1>11. \A c \in Closings \cap received : expected'[c] = expected[c] BY <1>1, <1>3, <1>6
  <1>12. \A c \in Closings \cap received' : Cardinality(received' \cap Trades) >= expected'[c]
    BY <1>1, <1>11 DEF KnowInv
  <1> QED BY <1>7, <1>10, <1>12 DEF KnowInv

LEMMA NextKnow == IInv /\ KnowInv /\ [Next]_vars => KnowInv'
  <1>0. SUFFICES ASSUME IInv, KnowInv, [Next]_vars PROVE KnowInv' OBVIOUS
  <1>1. TypeOK /\ row \in [Events -> Rows] BY <1>0 DEF IInv, TypeOK
  <1>2. ASSUME NEW e \in Events, Arise(e) \/ Drop(e) \/ Backoff(e) \/ Requeue(e) PROVE KnowInv'
    <2>1. Grows BY <1>0, <1>2, AriseInv
    <2>2. /\ Remembers
      BY <1>1, <1>2 DEF Arise, Drop, Backoff, Requeue, Remembers, Rows
    <2> QED BY <1>0, <1>2, <2>1, <2>2, KnowKept DEF Arise, Drop, Backoff, Requeue, Takes
  <1>3. ASSUME NEW e \in Events, Publish(e) PROVE KnowInv' BY <1>0, <1>3, PublishKnow
  <1>4. ASSUME NEW e \in Events, Arrive(e) PROVE KnowInv'
    <2>1. Grows BY <1>0, <1>4, ArriveInv
    <2>2. row[e].status \in Saved BY <1>0, <1>4 DEF Arrive, IInv, RowOK
    <2>3. Takes BY <1>4, <2>2 DEF Arrive, Takes
    <2> QED BY <1>0, <1>4, <2>1, <2>3, KnowKept DEF Arrive, Remembers
  <1>5. ASSUME Load PROVE KnowInv'
    <2>1. Grows BY <1>0, <1>5, LoadInv
    <2> QED BY <1>0, <1>5, <2>1, KnowKept DEF Load, Remembers, Takes
  <1>6. ASSUME NEW w \in Workers, Answered(w) PROVE KnowInv'
    <2>1. Grows BY <1>0, <1>6, AnsweredInv
    <2>2. ~At(w, "idle") BY <1>6 DEF Answered, At
    <2>3. Event(w) \in Events /\ row[Event(w)].status \in Saved
      BY <1>0, <1>1, <2>2, HandFacts DEF IInv, HandOK, CopyOK, Event
    <2>4. Takes BY <1>6, <2>3 DEF Answered, Takes
    <2> QED BY <1>0, <1>6, <2>1, <2>4, KnowKept DEF Answered, Remembers
  <1>7. ASSUME NEW w \in Workers, Unanswered(w) PROVE KnowInv'
    <2>1. Grows BY <1>0, <1>7, UnansweredInv
    <2> QED BY <1>0, <1>7, <2>1, KnowKept DEF Unanswered, Remembers, Takes
  <1>8. ASSUME NEW w \in Workers, WakeUp(w) \/ WakeUpFails(w) PROVE KnowInv'
    <2>1. Grows BY <1>0, <1>8, WakeUpInv
    <2>2. Remembers
      <3>1. CASE WakeUp(w)
        <4>1. \A e \in Events : row'[e] = row[e] \/ row'[e].status = "pending"
          BY <1>1, <3>1 DEF WakeUp, Rows
        <4> QED BY <4>1 DEF Remembers
      <3>2. CASE WakeUpFails(w) BY <3>2 DEF WakeUpFails, Remembers
      <3> QED BY <1>8, <3>1, <3>2
    <2> QED BY <1>0, <1>8, <2>1, <2>2, KnowKept DEF WakeUp, WakeUpFails, Takes
  <1>9. ASSUME NEW w \in Workers, Write(w) \/ WriteFails(w) PROVE KnowInv'
    <2>1. Grows BY <1>0, <1>9, WriteInv
    <2>2. Remembers
      <3>1. CASE Write(w)
        <4>1. Event(w) \in Events /\ InHand(w) \in Copies /\ InHand(w).event = Event(w)
          BY <1>1, <3>1, HandFacts DEF Write, At, Event
        <4>2. \A e \in Events \ {Event(w)} : row'[e] = row[e]
          BY <1>1, <3>1 DEF Write
        <4>3. row[Event(w)].status \in Saved
          BY <1>0, <1>1, <3>1, HandFacts DEF Write, At, IInv, HandOK, CopyOK, Event
        <4> QED BY <2>1, <4>1, <4>2, <4>3 DEF Remembers, Grows, Saved
      <3>2. CASE WriteFails(w) BY <3>2 DEF WriteFails, Remembers
      <3> QED BY <1>9, <3>1, <3>2
    <2> QED BY <1>0, <1>9, <2>1, <2>2, KnowKept DEF Write, WriteFails, Takes
  <1>10. ASSUME Restart PROVE KnowInv'
    <2>1. Grows BY <1>0, <1>10, RestartInv
    <2>2. \A e \in Events : row'[e] = row[e] \/ row'[e].status = "dropped"
      BY <1>1, <1>10 DEF Restart, Rows
    <2> QED BY <1>0, <1>10, <2>1, <2>2, KnowKept DEF Restart, Remembers, Takes
  <1>11. CASE UNCHANGED vars
    <2>1. TradesMade' = TradesMade BY <1>11 DEF vars, TradesMade
    <2> QED BY <1>0, <1>11, <2>1 DEF vars, KnowInv
  <1> QED BY <1>0, <1>2, <1>3, <1>4, <1>5, <1>6, <1>7, <1>8, <1>9, <1>10, <1>11 DEF Next

LEMMA InitKnow == Init => KnowInv
  <1> SUFFICES ASSUME Init PROVE KnowInv OBVIOUS
  <1>1. received = {} /\ \A c \in Closings : expected[c] = 0 BY DEF Init
  <1> QED BY <1>1, MadeFinite DEF KnowInv

LEMMA KnowInvariant == Spec => []KnowInv
  BY InitKnow, NextKnow, Invariance, PTL DEF Spec

(***************************************************************************)
(* BEI has taken no closing before as many trades as it names, however     *)
(* late, doubled or out of order its calls arrive.                         *)
(***************************************************************************)
THEOREM ClosingKnowsTradesHolds == Spec => []ClosingKnowsTrades
  <1>1. KnowInv => ClosingKnowsTrades BY DEF KnowInv, ClosingKnowsTrades
  <1> QED BY <1>1, KnowInvariant, PTL

(***************************************************************************)
(* The count of a closing asks for no trade that was not made: while BEI   *)
(* refuses it there is a trade whose event is on its way or was lost.      *)
(***************************************************************************)
THEOREM ClosingWaitsForTradeHolds == Spec => []ClosingWaitsForTrade
  <1>1. IInv /\ KnowInv => ClosingWaitsForTrade
    <2> SUFFICES ASSUME IInv, KnowInv, NEW c \in Closings, ~Accepts(c)
                 PROVE  \E t \in Trades \ received :
                          row[t].status \in {"owed", "pending", "dropped", "dead"}
      BY DEF ClosingWaitsForTrade
    <2>1. expected[c] \in Nat BY DEF IInv, TypeOK
    <2>2. /\ ~(Cardinality(received \cap Trades) >= expected[c])
          /\ expected[c] <= Cardinality(TradesMade)
      BY DEF Accepts, KnowInv
    <2>3. ~(TradesMade \subseteq received \cap Trades)
      <3>1. TradesMade \subseteq received \cap Trades =>
              Cardinality(TradesMade) <= Cardinality(received \cap Trades)
        BY ReceivedFinite, FS_Subset
      <3> QED BY <2>1, <2>2, <3>1, MadeFinite, ReceivedFinite
    <2>4. PICK t \in Trades : t \notin received /\ row[t].status # "none"
      BY <2>3, MadeFinite DEF TradesMade
    <2>5. t \in Events /\ row[t] \in Rows BY DEF Events, IInv, TypeOK
    <2>6. row[t].status # "delivered" BY <2>4, <2>5 DEF IInv, RowOK
    <2> QED BY <2>4, <2>5, <2>6 DEF Rows, Saved
  <1> QED BY <1>1, Invariance, KnowInvariant, PTL
=============================================================================
