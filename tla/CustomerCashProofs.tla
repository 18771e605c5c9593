------------------------- MODULE CustomerCashProofs -------------------------
(***************************************************************************)
(* What is reserved is backed, and what there is can be explained, for any *)
(* number of jobs, withdrawals, deposits and failures.  A job acts on a    *)
(* request it has seen long before; the invariant says that until it is    *)
(* done the request is as it was, and that no two jobs have the same one.  *)
(***************************************************************************)
EXTENDS CustomerCash, SumFacts

\* The job has reserved its request and is to end it.
Asking(j) == job[j].kind = "withdraw" /\ job[j].at \in {"call", "complete", "refused", "caught"}

Reserving == {j \in Jobs : At(j, "withdraw", "reserve")}

JobOK(j) ==
    /\ job[j].kind = "withdraw" => Rdn
    /\ job[j].kind \in {"deposit", "reconcile"} => Banked
    /\ job[j].kind \in {"take", "admin"} => Simulator
    /\ At(j, "withdraw", "reserve") => job[j].amount \in Amounts
    /\ Asking(j) => /\ job[j].ref \in Requests
                    /\ request[job[j].ref].status = "pending"
                    /\ request[job[j].ref].amount = job[j].amount
                    /\ job[j].amount \in Amounts
    /\ At(j, "withdraw", "complete") => decided[job[j].ref] = "debited"
    /\ At(j, "deposit", "credit") => job[j].ref \in received
    /\ At(j, "reconcile", "write") => job[j].amount >= 0

\* No two jobs end one request.
OneAsks == \A j, k \in Jobs : Asking(j) /\ Asking(k) /\ job[j].ref = job[k].ref => j = k

RequestOK(r) ==
    /\ request[r].status = "unused" => decided[r] = "open"
    /\ request[r].status = "completed" => decided[r] = "debited"
    /\ Rdn => request[r].status # "simulated"

\* Each job that is to write a request will find one.
Room == Rdn => Cardinality(Reserving) <= Cardinality(Unused)

TransfersOK == /\ received # {} => Banked
               /\ Rdn => \A t \in Transfers : credited[t] > 0 => t \in received

Pending == Total(InStatus("pending"))
Completed == Total(InStatus("completed"))
Debited == Total({r \in InStatus("pending") : decided[r] = "debited"})
OnTheWay == Cardinality({t \in received : credited[t] = 0})

\* The three properties, with their sums named.
Backed == cash.reserved = Pending + InOrder /\ (Rdn => cash.available >= 0)
Explained ==
    slips \cap {"corrected", "overwritten"} = {} => Books = Opening + posted - Completed
Matched == Rdn /\ slips = {} => Books + OnTheWay = bank + Debited

IInv == /\ TypeOK /\ Backed /\ Explained /\ Matched
        /\ \A j \in Jobs : JobOK(j)
        /\ OneAsks /\ Room /\ TransfersOK
        /\ \A r \in Requests : RequestOK(r)

THEOREM Implied == IInv => ReservationsBacked /\ LedgerExplainsCash /\ BankMatchesBooks
  BY DEF IInv, Backed, Explained, Matched, Pending, Completed, Debited, OnTheWay,
         ReservationsBacked, LedgerExplainsCash, BankMatchesBooks
-----------------------------------------------------------------------------

\* What the helpers of the actions leave of the types.
LEMMA MoveFields ==
    ASSUME cash \in CashRecords, NEW a \in Int, NEW b \in Int, NEW c \in Int, Move(a, b, c)
    PROVE  /\ cash' \in CashRecords
           /\ cash'.available = cash.available + a
           /\ cash'.reserved = cash.reserved + b
           /\ cash'.pending = cash.pending + c
  BY DEF Move, CashRecords

LEMMA SetFields ==
    ASSUME cash \in CashRecords, NEW a \in Int, cash' = [cash EXCEPT !.available = a]
    PROVE  /\ cash' \in CashRecords
           /\ cash'.available = a
           /\ cash'.reserved = cash.reserved
           /\ cash'.pending = cash.pending
  BY DEF CashRecords

LEMMA CashFields ==
    ASSUME cash \in CashRecords
    PROVE  cash.available \in Int /\ cash.reserved \in Int /\ cash.pending \in Int
  BY DEF CashRecords

LEMMA JobType ==
    ASSUME NEW kind \in Kinds, NEW stage \in Stages, NEW amount \in Int,
           NEW ref \in Requests \cup Transfers \cup {0}, NEW read \in Int, NEW kept \in Int
    PROVE  /\ Job(kind, stage, amount, ref, read, kept) \in JobRecords
           /\ Job(kind, stage, amount, ref, read, kept).kind = kind
           /\ Job(kind, stage, amount, ref, read, kept).at = stage
           /\ Job(kind, stage, amount, ref, read, kept).amount = amount
           /\ Job(kind, stage, amount, ref, read, kept).ref = ref
  BY DEF Job, JobRecords

LEMMA JobFields ==
    ASSUME job \in [Jobs -> JobRecords], NEW j \in Jobs
    PROVE  /\ job[j].kind \in Kinds /\ job[j].at \in Stages
           /\ job[j].ref \in Requests \cup Transfers \cup {0}
           /\ job[j].amount \in Int /\ job[j].read \in Int /\ job[j].kept \in Int
  BY DEF JobRecords

LEMMA IdleType == Idle \in JobRecords /\ Idle.kind = "none"
  BY JobType DEF Idle, Kinds, Stages

LEMMA GotoType ==
    ASSUME job \in [Jobs -> JobRecords], NEW j \in Jobs, NEW stage \in Stages, Goto(j, stage)
    PROVE  /\ job' \in [Jobs -> JobRecords]
           /\ \A k \in Jobs \ {j} : job'[k] = job[k]
           /\ job'[j].at = stage /\ job'[j].kind = job[j].kind
           /\ job'[j].amount = job[j].amount /\ job'[j].ref = job[j].ref
  BY DEF Goto, JobRecords

LEMMA EndsType ==
    ASSUME job \in [Jobs -> JobRecords], NEW j \in Jobs, Ends(j)
    PROVE  /\ job' \in [Jobs -> JobRecords]
           /\ \A k \in Jobs \ {j} : job'[k] = job[k]
           /\ job'[j].kind = "none"
  BY IdleType DEF Ends

LEMMA BeginsType ==
    ASSUME job \in [Jobs -> JobRecords], NEW j \in Jobs, NEW new \in JobRecords, Begins(j, new)
    PROVE  /\ job' \in [Jobs -> JobRecords]
           /\ \A k \in Jobs \ {j} : job'[k] = job[k]
           /\ job[j].kind = "none" /\ job'[j] = new
  BY IdleType DEF Begins

LEMMA AmountNat == ASSUME NEW a \in Amounts \cup {0} PROVE a \in Nat
  BY CashAssumption

LEMMA RequestFields ==
    ASSUME request \in [Requests -> RequestRecords], NEW r \in Requests
    PROVE  request[r].status \in Statuses /\ request[r].amount \in Nat
  <1>1. request[r].status \in Statuses /\ request[r].amount \in Amounts \cup {0}
    BY DEF RequestRecords
  <1> QED BY <1>1, AmountNat

LEMMA StatusType ==
    ASSUME request \in [Requests -> RequestRecords], NEW r \in Requests, NEW status \in Statuses,
           request' = [request EXCEPT ![r].status = status]
    PROVE  /\ request' \in [Requests -> RequestRecords]
           /\ \A q \in Requests \ {r} : request'[q] = request[q]
           /\ request'[r].status = status
           /\ \A q \in Requests : request'[q].amount = request[q].amount
  BY DEF RequestRecords

LEMMA SlipType ==
    ASSUME slips \subseteq SlipKinds, NEW kind \in SlipKinds, NEW when, Slip(kind, when)
    PROVE  slips' \subseteq SlipKinds
  BY DEF Slip

LEMMA FailsType ==
    ASSUME failures \in 0..MaxFailures, Fails
    PROVE  failures' \in 0..MaxFailures
  BY CashAssumption DEF Fails
-----------------------------------------------------------------------------
\* The amounts, and how the sums move with the status of one request.
LEMMA AmountOfType ==
    ASSUME request \in [Requests -> RequestRecords]
    PROVE  \A r \in Requests : AmountOf[r] \in Int /\ AmountOf[r] = request[r].amount
  <1>1. ASSUME NEW r \in Requests PROVE AmountOf[r] = request[r].amount BY DEF AmountOf
  <1>2. ASSUME NEW r \in Requests PROVE AmountOf[r] \in Int BY <1>1, RequestFields
  <1> QED BY <1>1, <1>2

LEMMA SumGains ==
    ASSUME NEW f, NEW S, NEW T, NEW x, IsFiniteSet(S), x \notin S, T = S \cup {x},
           \A y \in S : f[y] \in Int, f[x] \in Int
    PROVE  SumFunctionOnSet(f, T) = SumFunctionOnSet(f, S) + f[x]
  <1>1. SumFunctionOnSet(f, S \cup {x}) = f[x] + SumFunctionOnSet(f, S) BY SumAdd
  <1>2. SumFunctionOnSet(f, S) \in Int BY SumType
  <1>3. SumFunctionOnSet(f, T) = SumFunctionOnSet(f, S \cup {x}) BY Zenon
  <1> QED BY <1>1, <1>2, <1>3

LEMMA SumLoses ==
    ASSUME NEW f, NEW S, NEW T, NEW x, IsFiniteSet(S), x \in S, T = S \ {x},
           \A y \in S : f[y] \in Int
    PROVE  SumFunctionOnSet(f, T) = SumFunctionOnSet(f, S) - f[x]
  <1>1. IsFiniteSet(T) BY FS_Subset
  <1>2. SumFunctionOnSet(f, S) = f[x] + SumFunctionOnSet(f, T) BY SumRemove
  <1>3. SumFunctionOnSet(f, T) \in Int BY <1>1, SumType
  <1> QED BY <1>2, <1>3

LEMMA SumsType ==
    ASSUME request \in [Requests -> RequestRecords]
    PROVE  Pending \in Int /\ Completed \in Int /\ Debited \in Int
  <1>1. \A S : S \subseteq Requests => IsFiniteSet(S) BY CashAssumption, FS_Subset
  <1>2. \A S : S \subseteq Requests => Total(S) \in Int BY <1>1, AmountOfType, SumType DEF Total
  <1>3. InStatus("pending") \subseteq Requests BY DEF InStatus
  <1>4. InStatus("completed") \subseteq Requests BY DEF InStatus
  <1>5. {r \in InStatus("pending") : decided[r] = "debited"} \subseteq Requests BY <1>3
  <1> QED BY <1>2, <1>3, <1>4, <1>5 DEF Pending, Completed, Debited

LEMMA OnTheWayType ==
    ASSUME received \subseteq Transfers
    PROVE  OnTheWay \in Nat /\ IsFiniteSet({t \in received : credited[t] = 0})
  <1>1. {t \in received : credited[t] = 0} \subseteq Transfers OBVIOUS
  <1> QED BY <1>1, CashAssumption, FS_Subset, FS_CardinalityType DEF OnTheWay

LEMMA SumsSame ==
    ASSUME UNCHANGED <<request, decided>>
    PROVE  Pending' = Pending /\ Completed' = Completed /\ Debited' = Debited
  BY DEF Pending, Completed, Debited, Total, AmountOf, InStatus

LEMMA OnTheWaySame ==
    ASSUME UNCHANGED <<received, credited>>
    PROVE  OnTheWay' = OnTheWay
  BY DEF OnTheWay
-----------------------------------------------------------------------------
\* A job that a step leaves alone is as well as before, if its request is.
LEMMA JobsKept ==
    ASSUME NEW K, K \subseteq Jobs, \A k \in K : JobOK(k) /\ job'[k] = job[k],
           mode' = mode, received \subseteq received',
           \A k \in K : Asking(k) =>
             /\ request'[job[k].ref] = request[job[k].ref]
             /\ decided[job[k].ref] = "debited" => decided'[job[k].ref] = "debited"
    PROVE  \A k \in K : JobOK(k)'
  <1> SUFFICES ASSUME NEW k \in K PROVE JobOK(k)' OBVIOUS
  <1>1. JobOK(k) /\ job'[k] = job[k] OBVIOUS
  <1>2. Asking(k)' <=> Asking(k) BY <1>1 DEF Asking
  <1>3. At(k, "withdraw", "complete") => Asking(k) BY DEF At, Asking
  <1> QED BY <1>1, <1>2, <1>3 DEF JobOK, At, Rdn, Banked, Simulator

LEMMA OneAsksKept ==
    ASSUME NEW j \in Jobs, OneAsks, \A k \in Jobs \ {j} : job'[k] = job[k],
           Asking(j)' => \A k \in Jobs \ {j} : Asking(k) => job[k].ref # job'[j].ref
    PROVE  OneAsks'
  <1>1. \A k \in Jobs \ {j} : Asking(k)' <=> Asking(k) BY DEF Asking
  <1> QED BY <1>1 DEF OneAsks

LEMMA RoomKept ==
    ASSUME Room, mode' = mode, Unused' = Unused, Reserving' \subseteq Reserving
    PROVE  Room'
  <1>1. IsFiniteSet(Reserving) BY CashAssumption, FS_Subset DEF Reserving
  <1>2. IsFiniteSet(Unused) BY CashAssumption, FS_Subset DEF Unused
  <1>3. Cardinality(Reserving') <= Cardinality(Reserving) /\ Cardinality(Reserving') \in Nat
    BY <1>1, FS_Subset, FS_CardinalityType
  <1>4. Cardinality(Reserving) \in Nat /\ Cardinality(Unused) \in Nat
    BY <1>1, <1>2, FS_CardinalityType
  <1> QED BY <1>3, <1>4 DEF Room, Rdn
-----------------------------------------------------------------------------
\* The sums stay while cash, the requests, the transfers and the bank do.
LEMMA BooksKept ==
    ASSUME Backed, Explained, Matched,
           UNCHANGED <<mode, cash, posted, credited, request, order, bank, decided, received, slips>>
    PROVE  Backed' /\ Explained' /\ Matched'
  <1>1. Pending' = Pending /\ Completed' = Completed /\ Debited' = Debited BY SumsSame
  <1>2. OnTheWay' = OnTheWay BY OnTheWaySame
  <1>3. Books' = Books /\ InOrder' = InOrder /\ (Rdn' <=> Rdn) BY DEF Books, InOrder, Rdn
  <1> QED BY <1>1, <1>2, <1>3 DEF Backed, Explained, Matched

\* Job j goes on and all else stays: what is to be seen of the new job.
LEMMA QuietStep ==
    ASSUME IInv, NEW j \in Jobs,
           UNCHANGED <<mode, cash, posted, credited, request, dest, order, bank, decided,
                       received, slips>>,
           failures' \in 0..MaxFailures, job' \in [Jobs -> JobRecords],
           \A k \in Jobs \ {j} : job'[k] = job[k],
           JobOK(j)', Asking(j)' => Asking(j) /\ job'[j].ref = job[j].ref,
           Room'
    PROVE  IInv'
  <1>1. TypeOK' BY DEF IInv, TypeOK
  <1>2. Backed' /\ Explained' /\ Matched' BY BooksKept DEF IInv
  <1>3. \A k \in Jobs \ {j} : JobOK(k)' BY JobsKept DEF IInv
  <1>4. OneAsks'
    <2>1. Asking(j)' => \A k \in Jobs \ {j} : Asking(k) => job[k].ref # job'[j].ref
      BY DEF IInv, OneAsks
    <2> QED BY <2>1, OneAsksKept DEF IInv
  <1>5. TransfersOK' BY DEF IInv, TransfersOK, Rdn, Banked
  <1>6. \A r \in Requests : RequestOK(r)' BY DEF IInv, RequestOK, Rdn
  <1> QED BY <1>1, <1>2, <1>3, <1>4, <1>5, <1>6 DEF IInv

\* The same of a job that does not come to reserve.
LEMMA QuietStepElse ==
    ASSUME IInv, NEW j \in Jobs,
           UNCHANGED <<mode, cash, posted, credited, request, dest, order, bank, decided,
                       received, slips>>,
           failures' \in 0..MaxFailures, job' \in [Jobs -> JobRecords],
           \A k \in Jobs \ {j} : job'[k] = job[k],
           JobOK(j)', Asking(j)' => Asking(j) /\ job'[j].ref = job[j].ref,
           ~At(j, "withdraw", "reserve")'
    PROVE  IInv'
  <1>1. Reserving' \subseteq Reserving BY DEF Reserving, At
  <1>2. Unused' = Unused BY DEF Unused
  <1>3. Room' BY <1>1, <1>2, RoomKept DEF IInv
  <1> QED BY <1>3, QuietStep

\* Job j ends and all else stays.
LEMMA QuietEnd ==
    ASSUME IInv, NEW j \in Jobs, Ends(j),
           UNCHANGED <<mode, cash, posted, credited, request, dest, order, bank, decided,
                       received, slips>>,
           failures' \in 0..MaxFailures
    PROVE  IInv'
  <1>1. job \in [Jobs -> JobRecords] BY DEF IInv, TypeOK
  <1>2. /\ job' \in [Jobs -> JobRecords] /\ job'[j].kind = "none"
        /\ \A k \in Jobs \ {j} : job'[k] = job[k]
    BY <1>1, EndsType
  <1>3. JobOK(j)' /\ ~Asking(j)' /\ ~At(j, "withdraw", "reserve")' BY <1>2 DEF JobOK, Asking, At
  <1> QED BY <1>2, <1>3, QuietStepElse
-----------------------------------------------------------------------------
\* One lemma for each action: first the jobs that only ask, answer or give up.
LEMMA BankAnswersStep == ASSUME NEW j \in Jobs PROVE IInv /\ BankAnswers(j) => IInv'
  <1>0. SUFFICES ASSUME IInv, BankAnswers(j) PROVE IInv' OBVIOUS
  <1>1. job \in [Jobs -> JobRecords] /\ failures \in 0..MaxFailures BY <1>0 DEF IInv, TypeOK
  <1>2. /\ At(j, "withdraw", "call")
        /\ Goto(j, IF decided[job[j].ref] = "debited" THEN "complete" ELSE "refused")
        /\ UNCHANGED <<mode, cash, posted, credited, request, dest, order, bank, decided,
                       received, slips, failures>>
    BY <1>0 DEF BankAnswers, bankVars, tables
  <1>3. /\ job' \in [Jobs -> JobRecords] /\ \A k \in Jobs \ {j} : job'[k] = job[k]
        /\ job'[j].kind = "withdraw" /\ job'[j].amount = job[j].amount
        /\ job'[j].ref = job[j].ref
        /\ job'[j].at \in {"complete", "refused"}
        /\ job'[j].at = "complete" => decided[job[j].ref] = "debited"
    BY <1>1, <1>2, GotoType DEF Stages, At
  <1>4. Asking(j) BY <1>2 DEF At, Asking
  <1>5. JobOK(j) BY <1>0 DEF IInv
  <1>6. JobOK(j)' BY <1>2, <1>3, <1>4, <1>5 DEF JobOK, At, Asking, Rdn, Banked, Simulator
  <1>7. ~At(j, "withdraw", "reserve")' BY <1>3 DEF At
  <1> QED BY <1>0, <1>1, <1>2, <1>3, <1>4, <1>6, <1>7, QuietStepElse

LEMMA WithdrawalThrowsStep == ASSUME NEW j \in Jobs PROVE IInv /\ WithdrawalThrows(j) => IInv'
  <1>0. SUFFICES ASSUME IInv, WithdrawalThrows(j) PROVE IInv' OBVIOUS
  <1>1. job \in [Jobs -> JobRecords] /\ failures \in 0..MaxFailures BY <1>0 DEF IInv, TypeOK
  <1>2. /\ Asking(j) /\ Goto(j, "caught") /\ Fails
        /\ UNCHANGED <<mode, cash, posted, credited, request, dest, order, bank, decided,
                       received, slips>>
    BY <1>0 DEF WithdrawalThrows, Asking, bankVars, tables
  <1>3. /\ job' \in [Jobs -> JobRecords] /\ \A k \in Jobs \ {j} : job'[k] = job[k]
        /\ job'[j].kind = job[j].kind /\ job'[j].amount = job[j].amount
        /\ job'[j].ref = job[j].ref /\ job'[j].at = "caught"
    BY <1>1, <1>2, GotoType DEF Stages
  <1>4. failures' \in 0..MaxFailures BY <1>1, <1>2, FailsType
  <1>5. JobOK(j) BY <1>0 DEF IInv
  <1>6. job[j].kind = "withdraw" BY <1>2 DEF Asking
  <1>7. JobOK(j)' BY <1>2, <1>3, <1>5, <1>6 DEF JobOK, At, Asking, Rdn, Banked, Simulator
  <1>8. ~At(j, "withdraw", "reserve")' BY <1>3 DEF At
  <1> QED BY <1>0, <1>2, <1>3, <1>4, <1>7, <1>8, QuietStepElse

LEMMA GivesUpStep ==
    ASSUME NEW j \in Jobs PROVE IInv /\ (RefundFails(j) \/ FetchFails(j)) => IInv'
  <1>0. SUFFICES ASSUME IInv, RefundFails(j) \/ FetchFails(j) PROVE IInv' OBVIOUS
  <1>1. failures \in 0..MaxFailures BY <1>0 DEF IInv, TypeOK
  <1>2. /\ Ends(j) /\ (Fails \/ failures' = failures)
        /\ UNCHANGED <<mode, cash, posted, credited, request, dest, order, bank, decided,
                       received, slips>>
    BY <1>0 DEF RefundFails, FetchFails, bankVars, tables
  <1>3. failures' \in 0..MaxFailures BY <1>1, <1>2, FailsType
  <1> QED BY <1>0, <1>2, <1>3, QuietEnd

LEMMA StartReconcileStep == ASSUME NEW j \in Jobs PROVE IInv /\ StartReconcile(j) => IInv'
  <1>0. SUFFICES ASSUME IInv, StartReconcile(j) PROVE IInv' OBVIOUS
  <1>1. job \in [Jobs -> JobRecords] /\ failures \in 0..MaxFailures /\ cash \in CashRecords
    BY <1>0 DEF IInv, TypeOK
  <1>2. /\ Banked /\ Begins(j, Job("reconcile", "fetch", 0, 0, cash.available, cash.reserved))
        /\ UNCHANGED <<mode, cash, posted, credited, request, dest, order, bank, decided,
                       received, slips, failures>>
    BY <1>0 DEF StartReconcile, bankVars, tables
  <1>3. PICK new : new = Job("reconcile", "fetch", 0, 0, cash.available, cash.reserved) OBVIOUS
  <1>4. new \in JobRecords /\ new.kind = "reconcile" /\ new.at = "fetch"
    BY <1>1, <1>3, CashFields DEF Job, JobRecords, Kinds, Stages
  <1>5. /\ job' \in [Jobs -> JobRecords] /\ \A k \in Jobs \ {j} : job'[k] = job[k]
        /\ job'[j] = new
    BY <1>1, <1>2, <1>3, <1>4, BeginsType
  <1>6. JobOK(j)' BY <1>2, <1>4, <1>5 DEF JobOK, At, Asking, Rdn, Banked, Simulator
  <1>7. ~At(j, "withdraw", "reserve")' /\ ~Asking(j)' BY <1>4, <1>5 DEF At, Asking
  <1> QED BY <1>0, <1>1, <1>2, <1>5, <1>6, <1>7, QuietStepElse

LEMMA ReportDepositStep ==
    ASSUME NEW j \in Jobs, NEW t \in Transfers PROVE IInv /\ ReportDeposit(j, t) => IInv'
  <1>0. SUFFICES ASSUME IInv, ReportDeposit(j, t) PROVE IInv' OBVIOUS
  <1>1. job \in [Jobs -> JobRecords] /\ failures \in 0..MaxFailures BY <1>0 DEF IInv, TypeOK
  <1>2. /\ t \in received /\ Begins(j, Job("deposit", "credit", 0, t, 0, 0))
        /\ UNCHANGED <<mode, cash, posted, credited, request, dest, order, bank, decided,
                       received, slips, failures>>
    BY <1>0 DEF ReportDeposit, bankVars, tables
  <1>3. PICK new : new = Job("deposit", "credit", 0, t, 0, 0) OBVIOUS
  <1>4. new \in JobRecords /\ new.kind = "deposit" /\ new.at = "credit" /\ new.ref = t
    BY <1>3 DEF Job, JobRecords, Kinds, Stages
  <1>5. /\ job' \in [Jobs -> JobRecords] /\ \A k \in Jobs \ {j} : job'[k] = job[k]
        /\ job'[j] = new
    BY <1>1, <1>2, <1>3, <1>4, BeginsType
  <1>6. Banked BY <1>0, <1>2 DEF IInv, TransfersOK
  <1>7. JobOK(j)' BY <1>2, <1>4, <1>5, <1>6 DEF JobOK, At, Asking, Rdn, Banked, Simulator
  <1>8. ~At(j, "withdraw", "reserve")' /\ ~Asking(j)' BY <1>4, <1>5 DEF At, Asking
  <1> QED BY <1>0, <1>1, <1>2, <1>5, <1>7, <1>8, QuietStepElse

LEMMA FetchStep == ASSUME NEW j \in Jobs PROVE IInv /\ Fetch(j) => IInv'
  <1>0. SUFFICES ASSUME IInv, Fetch(j) PROVE IInv' OBVIOUS
  <1>1. job \in [Jobs -> JobRecords] /\ failures \in 0..MaxFailures /\ bank \in Int
    BY <1>0 DEF IInv, TypeOK
  <1>2. /\ At(j, "reconcile", "fetch")
        /\ UNCHANGED <<mode, cash, posted, credited, request, dest, order, bank, decided,
                       received, slips, failures>>
    BY <1>0 DEF Fetch, bankVars, tables
  <1>3. CASE Ends(j) BY <1>0, <1>1, <1>2, <1>3, QuietEnd
  <1>4. CASE job' = [job EXCEPT ![j] = Job("reconcile", "write", AtLeast0(bank - job[j].kept),
                                           0, 0, 0)]
    <2>1. job[j].kept \in Int BY <1>1, JobFields
    <2>2. AtLeast0(bank - job[j].kept) \in Nat BY <1>1, <2>1 DEF AtLeast0
    <2>3. PICK new : new = Job("reconcile", "write", AtLeast0(bank - job[j].kept), 0, 0, 0)
      OBVIOUS
    <2>4. /\ new \in JobRecords /\ new.kind = "reconcile" /\ new.at = "write"
          /\ new.amount >= 0
      BY <2>2, <2>3 DEF Job, JobRecords, Kinds, Stages
    <2>5. /\ job' \in [Jobs -> JobRecords] /\ \A k \in Jobs \ {j} : job'[k] = job[k]
          /\ job'[j] = new
      BY <1>1, <1>4, <2>3, <2>4
    <2>6. Banked BY <1>0, <1>2 DEF IInv, JobOK, At
    <2>7. JobOK(j)' BY <1>2, <2>4, <2>5, <2>6 DEF JobOK, At, Asking, Rdn, Banked, Simulator
    <2>8. ~At(j, "withdraw", "reserve")' /\ ~Asking(j)' BY <2>4, <2>5 DEF At, Asking
    <2> QED BY <1>0, <1>1, <1>2, <2>5, <2>7, <2>8, QuietStepElse
  <1> QED BY <1>0, <1>3, <1>4 DEF Fetch

\* There is a request for each job that is to reserve, and for one more.
LEMMA AskWithdrawalStep ==
    ASSUME NEW j \in Jobs, NEW a \in Amounts PROVE IInv /\ AskWithdrawal(j, a) => IInv'
  <1>0. SUFFICES ASSUME IInv, AskWithdrawal(j, a) PROVE IInv' OBVIOUS
  <1>1. job \in [Jobs -> JobRecords] /\ failures \in 0..MaxFailures BY <1>0 DEF IInv, TypeOK
  <1>2. /\ Rdn /\ Begins(j, Job("withdraw", "reserve", a, 0, 0, 0))
        /\ UNCHANGED <<mode, cash, posted, credited, request, dest, order, bank, decided,
                       received, slips, failures>>
    BY <1>0 DEF AskWithdrawal, bankVars, tables
  <1>3. PICK new : new = Job("withdraw", "reserve", a, 0, 0, 0) OBVIOUS
  <1>4. a \in Int BY AmountNat
  <1>5. /\ new \in JobRecords /\ new.kind = "withdraw" /\ new.at = "reserve"
        /\ new.amount = a
    BY <1>3, <1>4 DEF Job, JobRecords, Kinds, Stages
  <1>6. /\ job' \in [Jobs -> JobRecords] /\ \A k \in Jobs \ {j} : job'[k] = job[k]
        /\ job'[j] = new
    BY <1>1, <1>2, <1>3, <1>5, BeginsType
  <1>7. JobOK(j)' BY <1>2, <1>5, <1>6 DEF JobOK, At, Asking, Rdn, Banked, Simulator
  <1>8. ~Asking(j)' BY <1>5, <1>6 DEF Asking
  <1>9. Room'
    <2>1. Cardinality(Reserving) < Cardinality(Unused)
      BY <1>0 DEF AskWithdrawal, Reserving
    <2>2. Reserving' \subseteq Reserving \cup {j} BY <1>6 DEF Reserving, At
    <2>3. Unused' = Unused BY <1>2 DEF Unused
    <2>4. IsFiniteSet(Reserving) /\ IsFiniteSet(Unused)
      BY CashAssumption, FS_Subset DEF Reserving, Unused
    <2>5. Cardinality(Reserving) \in Nat /\ Cardinality(Unused) \in Nat
      BY <2>4, FS_CardinalityType
    <2>6. PICK S : S = Reserving OBVIOUS
    <2>7. /\ IsFiniteSet(S \cup {j}) /\ Cardinality(S \cup {j}) \in Nat
          /\ Cardinality(S \cup {j}) <= Cardinality(S) + 1
      <3>1. IsFiniteSet(S) /\ Cardinality(S) \in Nat BY <2>4, <2>5, <2>6
      <3>2. /\ IsFiniteSet(S \cup {j})
            /\ Cardinality(S \cup {j}) = IF j \in S THEN Cardinality(S) ELSE Cardinality(S) + 1
        BY <3>1, FS_AddElement
      <3> QED BY <3>1, <3>2
    <2>8. Cardinality(Reserving') \in Nat /\ Cardinality(Reserving') <= Cardinality(S \cup {j})
      BY <2>2, <2>6, <2>7, FS_Subset, FS_CardinalityType
    <2> QED BY <2>1, <2>3, <2>5, <2>6, <2>7, <2>8 DEF Room
  <1> QED BY <1>0, <1>1, <1>2, <1>6, <1>7, <1>8, <1>9, QuietStep

\* Everybody gives up.
LEMMA RestartStep == IInv /\ Restart => IInv'
  <1>0. SUFFICES ASSUME IInv, Restart PROVE IInv' OBVIOUS
  <1>1. failures \in 0..MaxFailures BY <1>0 DEF IInv, TypeOK
  <1>2. /\ Fails /\ job' = [j \in Jobs |-> Idle]
        /\ UNCHANGED <<mode, cash, posted, credited, request, dest, order, bank, decided,
                       received, slips>>
    BY <1>0 DEF Restart, bankVars, tables
  <1>3. failures' \in 0..MaxFailures BY <1>1, <1>2, FailsType
  <1>4. job' \in [Jobs -> JobRecords] /\ \A j \in Jobs : job'[j].kind = "none"
    BY <1>2, IdleType
  <1>5. TypeOK' BY <1>0, <1>2, <1>3, <1>4 DEF IInv, TypeOK
  <1>6. Backed' /\ Explained' /\ Matched' BY <1>0, <1>2, BooksKept DEF IInv
  <1>7. \A j \in Jobs : JobOK(j)' /\ ~Asking(j)' /\ ~At(j, "withdraw", "reserve")'
    BY <1>4 DEF JobOK, Asking, At
  <1>8. OneAsks' BY <1>7 DEF OneAsks
  <1>9. Room'
    <2>1. Reserving' \subseteq Reserving BY <1>7 DEF Reserving
    <2>2. Unused' = Unused BY <1>2 DEF Unused
    <2> QED BY <1>0, <1>2, <2>1, <2>2, RoomKept DEF IInv
  <1>10. TransfersOK' BY <1>0, <1>2 DEF IInv, TransfersOK, Rdn, Banked
  <1>11. \A r \in Requests : RequestOK(r)' BY <1>0, <1>2 DEF IInv, RequestOK, Rdn
  <1> QED BY <1>5, <1>6, <1>7, <1>8, <1>9, <1>10, <1>11 DEF IInv
-----------------------------------------------------------------------------
\* Then the steps that are nobody's job: the jobs stay as well as they were.
LEMMA JobsStay ==
    ASSUME IInv, UNCHANGED <<mode, job, request>>, received \subseteq received',
           \A r \in Requests : decided[r] = "debited" => decided'[r] = "debited"
    PROVE  (\A j \in Jobs : JobOK(j)') /\ OneAsks' /\ Room'
  <1>1. \A j \in Jobs : JobOK(j) /\ job'[j] = job[j] BY DEF IInv
  <1>2. \A j \in Jobs : Asking(j) =>
          /\ request'[job[j].ref] = request[job[j].ref]
          /\ decided[job[j].ref] = "debited" => decided'[job[j].ref] = "debited"
    BY <1>1 DEF JobOK
  <1>3. \A j \in Jobs : JobOK(j)' BY <1>1, <1>2, JobsKept
  <1>4. OneAsks' BY DEF IInv, OneAsks, Asking
  <1>5. Room'
    <2>1. Reserving' \subseteq Reserving BY DEF Reserving, At
    <2>2. Unused' = Unused BY DEF Unused
    <2> QED BY <2>1, <2>2, RoomKept DEF IInv
  <1> QED BY <1>3, <1>4, <1>5

LEMMA OrderStep == IInv /\ (PlaceOrder \/ ReleaseOrder \/ FillOrder) => IInv'
  <1>0. SUFFICES ASSUME IInv, PlaceOrder \/ ReleaseOrder \/ FillOrder PROVE IInv' OBVIOUS
  <1>1. cash \in CashRecords BY <1>0 DEF IInv, TypeOK
  <1>2. /\ UNCHANGED <<mode, posted, credited, request, dest, job, bank, decided, received,
                       slips, failures>>
        /\ order' \in {"reserved", "released", "filled"}
    BY <1>0 DEF PlaceOrder, ReleaseOrder, FillOrder, bankVars
  <1>3. \/ Move(-1, 1, 0) /\ cash.available >= 1 /\ order = "none" /\ order' = "reserved"
        \/ Move(1, -1, 0) /\ order = "reserved" /\ order' = "released"
        \/ Move(0, -1, 1) /\ order = "reserved" /\ order' = "filled"
    BY <1>0 DEF PlaceOrder, ReleaseOrder, FillOrder
  <1>4. cash' \in CashRecords BY <1>1, <1>3, MoveFields
  <1>5. /\ Books' = Books /\ cash'.reserved - InOrder' = cash.reserved - InOrder
        /\ cash.available >= 0 => cash'.available >= 0
    <2>1. cash.available \in Int /\ cash.reserved \in Int /\ cash.pending \in Int
      BY <1>1, CashFields
    <2>2. CASE Move(-1, 1, 0) /\ cash.available >= 1 /\ order = "none" /\ order' = "reserved"
      BY <1>1, <2>1, <2>2, MoveFields DEF Books, InOrder
    <2>3. CASE Move(1, -1, 0) /\ order = "reserved" /\ order' = "released"
      BY <1>1, <2>1, <2>3, MoveFields DEF Books, InOrder
    <2>4. CASE Move(0, -1, 1) /\ order = "reserved" /\ order' = "filled"
      BY <1>1, <2>1, <2>4, MoveFields DEF Books, InOrder
    <2> QED BY <1>3, <2>2, <2>3, <2>4
  <1>6. TypeOK' BY <1>0, <1>2, <1>4 DEF IInv, TypeOK
  <1>7. Backed' /\ Explained' /\ Matched'
    <2>1. Pending' = Pending /\ Completed' = Completed /\ Debited' = Debited BY <1>2, SumsSame
    <2>2. OnTheWay' = OnTheWay BY <1>2, OnTheWaySame
    <2>3. Pending \in Int BY <1>0, SumsType DEF IInv, TypeOK
    <2>4. InOrder \in Int /\ InOrder' \in Int BY DEF InOrder
    <2>5. cash.reserved \in Int /\ cash'.reserved \in Int BY <1>1, <1>4, CashFields DEF CashRecords
    <2>6. Rdn' <=> Rdn BY <1>2 DEF Rdn
    <2>7. Backed' BY <1>0, <1>5, <2>1, <2>3, <2>4, <2>5, <2>6 DEF IInv, Backed
    <2>8. Explained' /\ Matched' BY <1>0, <1>2, <1>5, <2>1, <2>2, <2>6 DEF IInv, Explained, Matched
    <2> QED BY <2>7, <2>8
  <1>8. (\A j \in Jobs : JobOK(j)') /\ OneAsks' /\ Room' BY <1>0, <1>2, JobsStay
  <1>9. TransfersOK' BY <1>0, <1>2 DEF IInv, TransfersOK, Rdn, Banked
  <1>10. \A r \in Requests : RequestOK(r)' BY <1>0, <1>2 DEF IInv, RequestOK, Rdn
  <1> QED BY <1>6, <1>7, <1>8, <1>9, <1>10 DEF IInv

LEMMA StandStillStep == IInv /\ (UpdateBankAccount \/ UNCHANGED vars) => IInv'
  <1>0. SUFFICES ASSUME IInv, UpdateBankAccount \/ UNCHANGED vars PROVE IInv' OBVIOUS
  <1>1. /\ UNCHANGED <<mode, cash, posted, credited, request, order, job, bank, decided,
                       received, slips, failures>>
        /\ dest' \in {"verified", dest}
    BY <1>0 DEF UpdateBankAccount, vars, bankVars, tables
  <1>2. TypeOK' BY <1>0, <1>1 DEF IInv, TypeOK
  <1>3. Backed' /\ Explained' /\ Matched' BY <1>0, <1>1, BooksKept DEF IInv
  <1>4. (\A j \in Jobs : JobOK(j)') /\ OneAsks' /\ Room' BY <1>0, <1>1, JobsStay
  <1>5. TransfersOK' BY <1>0, <1>1 DEF IInv, TransfersOK, Rdn, Banked
  <1>6. \A r \in Requests : RequestOK(r)' BY <1>0, <1>1 DEF IInv, RequestOK, Rdn
  <1> QED BY <1>2, <1>3, <1>4, <1>5, <1>6 DEF IInv

\* A transfer the bank takes in is one more on its way, and one more at the bank.
LEMMA BankReceivesStep == ASSUME NEW t \in Transfers PROVE IInv /\ BankReceives(t) => IInv'
  <1>0. SUFFICES ASSUME IInv, BankReceives(t) PROVE IInv' OBVIOUS
  <1>1. /\ bank \in Int /\ received \subseteq Transfers /\ credited \in [Transfers -> Nat]
        /\ request \in [Requests -> RequestRecords] /\ cash \in CashRecords
    BY <1>0 DEF IInv, TypeOK
  <1>2. /\ Banked /\ t \notin received /\ credited[t] = 0
        /\ received' = received \cup {t} /\ bank' = bank + 1
        /\ UNCHANGED <<mode, cash, posted, credited, request, dest, order, job, decided,
                       slips, failures>>
    BY <1>0 DEF BankReceives, tables
  <1>3. bank' \in Int /\ received' \subseteq Transfers BY <1>1, <1>2
  <1>4. TypeOK' BY <1>0, <1>2, <1>3 DEF IInv, TypeOK
  <1>5. credited[t] = 0 BY <1>2
  <1>6. OnTheWay' = OnTheWay + 1
    <2>1. PICK S : S = {u \in received : credited[u] = 0} OBVIOUS
    <2>2. {u \in received' : credited'[u] = 0} = S \cup {t} BY <1>2, <1>5, <2>1
    <2>3. IsFiniteSet(S) BY <1>1, <2>1, OnTheWayType
    <2>4. t \notin S BY <1>2, <2>1
    <2>5. Cardinality(S \cup {t}) = Cardinality(S) + 1 BY <2>3, <2>4, FS_AddElement
    <2> QED BY <2>1, <2>2, <2>5 DEF OnTheWay
  <1>7. Backed' /\ Explained' /\ Matched'
    <2>1. Pending' = Pending /\ Completed' = Completed /\ Debited' = Debited BY <1>2, SumsSame
    <2>2. Books' = Books /\ InOrder' = InOrder /\ (Rdn' <=> Rdn) BY <1>2 DEF Books, InOrder, Rdn
    <2>3. Backed' /\ Explained' BY <1>0, <1>2, <2>1, <2>2 DEF IInv, Backed, Explained
    <2>4. Debited \in Int /\ OnTheWay \in Int /\ Books \in Int
      BY <1>1, SumsType, OnTheWayType, CashFields DEF Books
    <2>5. Matched' BY <1>0, <1>1, <1>2, <1>6, <2>1, <2>2, <2>4 DEF IInv, Matched
    <2> QED BY <2>3, <2>5
  <1>8. (\A j \in Jobs : JobOK(j)') /\ OneAsks' /\ Room' BY <1>0, <1>2, JobsStay
  <1>9. TransfersOK' BY <1>0, <1>2 DEF IInv, TransfersOK, Rdn, Banked
  <1>10. \A r \in Requests : RequestOK(r)' BY <1>0, <1>2 DEF IInv, RequestOK, Rdn
  <1> QED BY <1>4, <1>7, <1>8, <1>9, <1>10 DEF IInv

LEMMA SimulatorDepositStep ==
    ASSUME NEW t \in Transfers PROVE IInv /\ SimulatorDeposit(t) => IInv'
  <1>0. SUFFICES ASSUME IInv, SimulatorDeposit(t) PROVE IInv' OBVIOUS
  <1>1. /\ credited \in [Transfers -> Nat] /\ cash \in CashRecords /\ posted \in Int
        /\ request \in [Requests -> RequestRecords]
    BY <1>0 DEF IInv, TypeOK
  <1>2. /\ Simulator /\ credited' = [credited EXCEPT ![t] = 1]
        /\ Move(1, 0, 0) /\ posted' = posted + 1
        /\ UNCHANGED <<mode, request, dest, order, job, bank, decided, received, slips, failures>>
    BY <1>0 DEF SimulatorDeposit, bankVars
  <1>3. /\ cash' \in CashRecords /\ cash'.available = cash.available + 1
        /\ cash'.reserved = cash.reserved + 0 /\ cash'.pending = cash.pending + 0
    BY <1>1, <1>2, MoveFields
  <1>4. cash.available \in Int /\ cash.reserved \in Int /\ cash.pending \in Int
    BY <1>1, CashFields
  <1>5. credited' \in [Transfers -> Nat] /\ posted' \in Int BY <1>1, <1>2
  <1>6. TypeOK' BY <1>0, <1>2, <1>3, <1>5 DEF IInv, TypeOK
  <1>7. ~Rdn /\ ~Rdn' BY <1>2 DEF Rdn, Simulator
  <1>8. Backed' /\ Explained' /\ Matched'
    <2>1. Pending' = Pending /\ Completed' = Completed BY <1>2, SumsSame
    <2>2. Books' = Books + 1 /\ Books \in Int /\ cash'.reserved = cash.reserved
      BY <1>3, <1>4 DEF Books
    <2>3. InOrder' = InOrder BY <1>2 DEF InOrder
    <2>4. Completed \in Int BY <1>1, SumsType
    <2>5. Backed' BY <1>0, <1>7, <2>1, <2>2, <2>3 DEF IInv, Backed
    <2>6. Explained' BY <1>0, <1>1, <1>2, <2>1, <2>2, <2>4, CashAssumption DEF IInv, Explained
    <2>7. Matched' BY <1>7 DEF Matched
    <2> QED BY <2>5, <2>6, <2>7
  <1>9. (\A j \in Jobs : JobOK(j)') /\ OneAsks' /\ Room' BY <1>0, <1>2, JobsStay
  <1>10. TransfersOK' BY <1>0, <1>2, <1>7 DEF IInv, TransfersOK, Banked
  <1>11. \A r \in Requests : RequestOK(r)' BY <1>0, <1>2 DEF IInv, RequestOK, Rdn
  <1> QED BY <1>6, <1>8, <1>9, <1>10, <1>11 DEF IInv
-----------------------------------------------------------------------------
\* The bank takes a debit once: the withdrawal it debits was pending or refunded.
LEMMA BankDecidesStep == ASSUME NEW r \in Requests PROVE IInv /\ BankDecides(r) => IInv'
  <1>0. SUFFICES ASSUME IInv, BankDecides(r) PROVE IInv' OBVIOUS
  <1>1. /\ bank \in Int /\ received \subseteq Transfers /\ slips \subseteq SlipKinds
        /\ request \in [Requests -> RequestRecords] /\ cash \in CashRecords
        /\ decided \in [Requests -> Decisions]
    BY <1>0 DEF IInv, TypeOK
  <1>2. /\ request[r].status # "unused" /\ decided[r] = "open"
        /\ UNCHANGED <<mode, cash, posted, credited, request, dest, order, job, received, failures>>
    BY <1>0 DEF BankDecides, tables
  <1>3. request[r].amount \in Int /\ request[r].status \in Statuses BY <1>1, RequestFields
  <1>4. \/ /\ bank' = bank - request[r].amount /\ decided' = [decided EXCEPT ![r] = "debited"]
           /\ Slip("refunded", request[r].status = "failed")
        \/ /\ \E why \in {"refused", "bad account"} : decided' = [decided EXCEPT ![r] = why]
           /\ bank' = bank /\ slips' = slips
    BY <1>0 DEF BankDecides
  <1>5. /\ decided' \in [Requests -> Decisions]
        /\ \A q \in Requests \ {r} : decided'[q] = decided[q]
        /\ decided'[r] # "open"
    BY <1>1, <1>4 DEF Decisions
  <1>6. bank' \in Int
    <2>1. bank' = bank \/ bank' = bank - request[r].amount BY <1>4
    <2> QED BY <1>1, <1>3, <2>1
  <1>7. slips' \subseteq SlipKinds BY <1>1, <1>4, SlipType DEF SlipKinds
  <1>8. TypeOK' BY <1>0, <1>2, <1>5, <1>6, <1>7 DEF IInv, TypeOK
  <1>9. slips \subseteq slips' /\ slips' \subseteq slips \cup {"refunded"} BY <1>4 DEF Slip
  <1>10. RequestOK(r) BY <1>0 DEF IInv
  <1>11. Pending' = Pending /\ Completed' = Completed
    BY <1>2 DEF Pending, Completed, Total, AmountOf, InStatus
  <1>12. Backed' /\ Explained'
    <2>1. Books' = Books /\ InOrder' = InOrder /\ (Rdn' <=> Rdn) BY <1>2 DEF Books, InOrder, Rdn
    <2> QED BY <1>0, <1>2, <1>9, <1>11, <2>1 DEF IInv, Backed, Explained
  <1>13. Matched'
    <2>1. PICK D : D = {q \in InStatus("pending") : decided[q] = "debited"} OBVIOUS
    <2>2. PICK E : E = {q \in InStatus("pending")' : decided'[q] = "debited"} OBVIOUS
    <2>3. Debited = SumFunctionOnSet(AmountOf, D) /\ Debited' = SumFunctionOnSet(AmountOf', E)
      BY <2>1, <2>2 DEF Debited, Total
    <2>4. AmountOf' = AmountOf /\ InStatus("pending")' = InStatus("pending")
      BY <1>2 DEF AmountOf, InStatus
    <2>5. InStatus("pending") \subseteq Requests BY DEF InStatus
    <2>6. D \subseteq Requests /\ r \notin D BY <1>2, <2>1, <2>5
    <2>7. IsFiniteSet(D) BY <2>6, CashAssumption, FS_Subset
    <2>8. /\ Books' = Books /\ OnTheWay' = OnTheWay /\ (Rdn' <=> Rdn)
      BY <1>2, OnTheWaySame DEF Books, Rdn
    <2>9. Debited \in Int /\ OnTheWay \in Int /\ Books \in Int
      BY <1>1, SumsType, OnTheWayType, CashFields DEF Books
    <2>10. CASE decided'[r] = "debited" /\ request[r].status = "pending"
      <3>1. E = D \cup {r} BY <1>5, <2>1, <2>2, <2>4, <2>5, <2>10 DEF InStatus
      <3>2. Debited' = Debited + request[r].amount
        <4>1. PICK f : f = AmountOf OBVIOUS
        <4>2. \A y \in Requests : f[y] \in Int /\ f[y] = request[y].amount
          BY <1>1, <4>1, AmountOfType
        <4>3. \A y \in D : f[y] \in Int BY <2>6, <4>2
        <4>4. SumFunctionOnSet(f, E) = SumFunctionOnSet(f, D) + f[r]
          BY <2>6, <2>7, <3>1, <4>2, <4>3, SumGains
        <4> QED BY <2>3, <2>4, <4>1, <4>2, <4>4
      <3>3. bank' = bank - request[r].amount
        BY <1>1, <1>4, <2>10
      <3> QED BY <1>0, <1>1, <1>3, <1>9, <2>8, <2>9, <3>2, <3>3 DEF IInv, Matched
    <2>11. CASE decided'[r] = "debited" /\ request[r].status # "pending"
      <3>1. Slip("refunded", request[r].status = "failed") BY <1>1, <1>4, <2>11
      <3>2. request[r].status \in {"failed", "simulated"}
        BY <1>2, <1>3, <1>10, <2>11 DEF RequestOK, Statuses
      <3>3. Rdn => request[r].status = "failed" BY <1>10, <3>2 DEF RequestOK
      <3> QED BY <2>8, <3>1, <3>3 DEF Matched, Slip
    <2>12. CASE decided'[r] # "debited"
      <3>1. E = D BY <1>2, <1>5, <2>1, <2>2, <2>4, <2>5, <2>12
      <3>2. Debited' = Debited BY <2>3, <2>4, <3>1
      <3>3. bank' = bank /\ slips' = slips BY <1>1, <1>4, <2>12
      <3> QED BY <1>0, <2>8, <3>2, <3>3 DEF IInv, Matched
    <2> QED BY <2>10, <2>11, <2>12
  <1>14. (\A j \in Jobs : JobOK(j)') /\ OneAsks' /\ Room'
    <2>1. \A q \in Requests : decided[q] = "debited" => decided'[q] = "debited" BY <1>2, <1>5
    <2> QED BY <1>0, <1>2, <2>1, JobsStay
  <1>15. TransfersOK' BY <1>0, <1>2 DEF IInv, TransfersOK, Rdn, Banked
  <1>16. \A q \in Requests : RequestOK(q)'
    <2>1. RequestOK(r)' BY <1>2, <1>10 DEF RequestOK, Rdn
    <2>2. ASSUME NEW q \in Requests \ {r} PROVE RequestOK(q)'
      BY <1>0, <1>2, <1>5 DEF IInv, RequestOK, Rdn
    <2> QED BY <2>1, <2>2
  <1> QED BY <1>8, <1>12, <1>13, <1>14, <1>15, <1>16 DEF IInv

\* Job j ends; it may have written the request it asked for, nobody else's.
LEMMA JobsEnd ==
    ASSUME IInv, NEW j \in Jobs, Ends(j),
           UNCHANGED <<mode, decided, received>>, Unused' = Unused,
           \A q \in Requests : request'[q] = request[q] \/ (Asking(j) /\ job[j].ref = q)
    PROVE  /\ job' \in [Jobs -> JobRecords]
           /\ (\A k \in Jobs : JobOK(k)') /\ OneAsks' /\ Room'
  <1>1. job \in [Jobs -> JobRecords] BY DEF IInv, TypeOK
  <1>2. /\ job' \in [Jobs -> JobRecords] /\ job'[j].kind = "none"
        /\ \A k \in Jobs \ {j} : job'[k] = job[k]
    BY <1>1, EndsType
  <1>3. JobOK(j)' /\ ~Asking(j)' /\ ~At(j, "withdraw", "reserve")' BY <1>2 DEF JobOK, Asking, At
  <1>4. \A k \in Jobs \ {j} : JobOK(k)'
    <2>1. \A k \in Jobs \ {j} : JobOK(k) /\ job'[k] = job[k] BY <1>2 DEF IInv
    <2>2. ASSUME NEW k \in Jobs \ {j}, Asking(k) PROVE request'[job[k].ref] = request[job[k].ref]
      <3>1. job[k].ref \in Requests BY <2>1, <2>2 DEF JobOK
      <3>2. ~(Asking(j) /\ job[j].ref = job[k].ref) BY <2>2 DEF IInv, OneAsks
      <3> QED BY <3>1, <3>2
    <2> QED BY <2>1, <2>2, JobsKept
  <1>5. OneAsks' BY <1>2, <1>3, OneAsksKept DEF IInv
  <1>6. Reserving' \subseteq Reserving BY <1>2, <1>3 DEF Reserving, At
  <1>7. Room' BY <1>6, RoomKept DEF IInv
  <1> QED BY <1>2, <1>3, <1>4, <1>5, <1>7

\* What an asking job's request becomes moves its amount from one sum to the other.
LEMMA PendingEnds ==
    ASSUME IInv, NEW j \in Jobs, Asking(j), NEW status \in {"completed", "failed"},
           request' = [request EXCEPT ![job[j].ref].status = status], decided' = decided
    PROVE  /\ request' \in [Requests -> RequestRecords] /\ Unused' = Unused
           /\ \A q \in Requests : request'[q] = request[q] \/ job[j].ref = q
           /\ request'[job[j].ref].status = status
           /\ Pending' = Pending - job[j].amount
           /\ Completed' = IF status = "completed" THEN Completed + job[j].amount ELSE Completed
           /\ Debited' = IF decided[job[j].ref] = "debited" THEN Debited - job[j].amount ELSE Debited
  <1>1. PICK r : r = job[j].ref OBVIOUS
  <1>2. /\ r \in Requests /\ request[r].status = "pending" /\ request[r].amount = job[j].amount
    BY <1>1 DEF IInv, JobOK
  <1>3. request \in [Requests -> RequestRecords] BY DEF IInv, TypeOK
  <1>4. request' = [request EXCEPT ![r].status = status] BY <1>1
  <1>5. status \in Statuses BY DEF Statuses
  <1>6. /\ request' \in [Requests -> RequestRecords]
        /\ \A q \in Requests \ {r} : request'[q] = request[q]
        /\ request'[r].status = status
        /\ \A q \in Requests : request'[q].amount = request[q].amount
    BY <1>2, <1>3, <1>4, <1>5, StatusType
  <1>7. AmountOf' = AmountOf BY <1>6 DEF AmountOf
  <1>8. \A q \in Requests : AmountOf[q] \in Int /\ AmountOf[q] = request[q].amount
    BY <1>3, AmountOfType
  <1>9. Unused' = Unused BY <1>2, <1>6 DEF Unused
  <1>10. PICK P : P = InStatus("pending") OBVIOUS
  <1>11. PICK P1 : P1 = InStatus("pending")' OBVIOUS
  <1>12. P \subseteq Requests /\ r \in P /\ P1 = P \ {r}
    BY <1>2, <1>6, <1>10, <1>11 DEF InStatus
  <1>13. PICK C : C = InStatus("completed") OBVIOUS
  <1>14. PICK C1 : C1 = InStatus("completed")' OBVIOUS
  <1>15. C \subseteq Requests /\ r \notin C /\ C1 = IF status = "completed" THEN C \cup {r} ELSE C
    BY <1>2, <1>6, <1>13, <1>14 DEF InStatus
  <1>16. PICK D : D = {q \in P : decided[q] = "debited"} OBVIOUS
  <1>17. PICK D1 : D1 = {q \in P1 : decided[q] = "debited"} OBVIOUS
  <1>18. /\ D \subseteq Requests
         /\ decided[r] = "debited" => r \in D /\ D1 = D \ {r}
         /\ decided[r] # "debited" => D1 = D
    BY <1>12, <1>16, <1>17
  <1>19. IsFiniteSet(P) /\ IsFiniteSet(C) /\ IsFiniteSet(D)
    BY <1>12, <1>15, <1>18, CashAssumption, FS_Subset
  <1>20. PICK f : f = AmountOf OBVIOUS
  <1>21. /\ \A y \in P : f[y] \in Int
         /\ \A y \in C : f[y] \in Int
         /\ \A y \in D : f[y] \in Int
         /\ f[r] \in Int /\ f[r] = job[j].amount
    BY <1>2, <1>8, <1>12, <1>15, <1>18, <1>20
  <1>22. Pending' = Pending - job[j].amount
    <2>1. Pending = SumFunctionOnSet(f, P) /\ Pending' = SumFunctionOnSet(f, P1)
      BY <1>7, <1>10, <1>11, <1>20 DEF Pending, Total
    <2>2. SumFunctionOnSet(f, P1) = SumFunctionOnSet(f, P) - f[r]
      BY <1>12, <1>19, <1>21, SumLoses
    <2> QED BY <1>21, <2>1, <2>2
  <1>23. Completed' = IF status = "completed" THEN Completed + job[j].amount ELSE Completed
    <2>1. Completed = SumFunctionOnSet(f, C) /\ Completed' = SumFunctionOnSet(f, C1)
      BY <1>7, <1>13, <1>14, <1>20 DEF Completed, Total
    <2>2. CASE status = "completed"
      <3>1. C1 = C \cup {r} BY <1>15, <2>2
      <3>2. SumFunctionOnSet(f, C1) = SumFunctionOnSet(f, C) + f[r]
        BY <1>15, <1>19, <1>21, <3>1, SumGains
      <3> QED BY <1>21, <2>1, <2>2, <3>2
    <2>3. CASE status # "completed" BY <1>15, <2>1, <2>3
    <2> QED BY <2>2, <2>3
  <1>24. Debited' = IF decided[r] = "debited" THEN Debited - job[j].amount ELSE Debited
    <2>1. Debited = SumFunctionOnSet(f, D) /\ Debited' = SumFunctionOnSet(f, D1)
      BY <1>7, <1>10, <1>11, <1>16, <1>17, <1>20 DEF Debited, Total
    <2>2. CASE decided[r] = "debited"
      <3>1. SumFunctionOnSet(f, D1) = SumFunctionOnSet(f, D) - f[r]
        BY <1>18, <1>19, <1>21, <2>2, SumLoses
      <3> QED BY <1>21, <2>1, <2>2, <3>1
    <2>3. CASE decided[r] # "debited" BY <1>18, <2>1, <2>3
    <2> QED BY <2>2, <2>3
  <1> QED BY <1>1, <1>2, <1>6, <1>9, <1>22, <1>23, <1>24

LEMMA MinUnused == ASSUME Unused # {} PROVE Min(Unused) \in Unused
  <1>0. Requests \subseteq Int /\ IsFiniteSet(Requests) BY CashAssumption
  <1>1. Unused \subseteq Int /\ IsFiniteSet(Unused) BY <1>0, FS_Subset DEF Unused
  <1>2. \E x \in Unused : \A y \in Unused : x <= y BY <1>1, FiniteMin
  <1> QED BY <1>2 DEF Min

LEMMA UnusedThere ==
    ASSUME IInv, NEW j \in Jobs, At(j, "withdraw", "reserve")
    PROVE  Unused # {}
  <1>1. Reserving \subseteq Jobs /\ j \in Reserving BY DEF Reserving
  <1>2. IsFiniteSet(Reserving) /\ Cardinality(Reserving) \in Nat
    BY <1>1, CashAssumption, FS_Subset, FS_CardinalityType
  <1>3. Cardinality(Reserving) # 0 BY <1>1, <1>2, FS_EmptySet
  <1>4. Rdn BY DEF IInv, JobOK, At
  <1>5. Cardinality({}) = 0 BY FS_EmptySet
  <1> QED BY <1>2, <1>3, <1>4, <1>5 DEF IInv, Room

\* A request that becomes pending, undecided, adds its amount to what is pending.
LEMMA PendingBegins ==
    ASSUME request \in [Requests -> RequestRecords], request' \in [Requests -> RequestRecords],
           NEW r \in Requests, request[r].status = "unused", request'[r].status = "pending",
           \A q \in Requests \ {r} : request'[q] = request[q],
           decided' = decided, decided[r] = "open"
    PROVE  /\ Pending' = Pending + request'[r].amount
           /\ Completed' = Completed /\ Debited' = Debited
  <1>1. PICK f : f = AmountOf OBVIOUS
  <1>2. PICK g : g = AmountOf' OBVIOUS
  <1>3. \A q \in Requests : f[q] \in Int /\ f[q] = request[q].amount BY <1>1, AmountOfType
  <1>4. g = [q \in Requests |-> request'[q].amount] BY <1>2 DEF AmountOf
  <1>5. request'[r].amount \in Int
    <2>1. request'[r].amount \in Amounts \cup {0} BY DEF RequestRecords
    <2> QED BY <2>1, AmountNat
  <1>6. /\ \A q \in Requests \ {r} : g[q] = f[q]
        /\ g[r] = request'[r].amount /\ g[r] \in Int
    BY <1>3, <1>4, <1>5
  <1>7. PICK P : P = InStatus("pending") OBVIOUS
  <1>8. PICK P1 : P1 = InStatus("pending")' OBVIOUS
  <1>9. P \subseteq Requests /\ r \notin P /\ P1 = P \cup {r} BY <1>7, <1>8 DEF InStatus
  <1>10. PICK C : C = InStatus("completed") OBVIOUS
  <1>11. InStatus("completed")' = C /\ C \subseteq Requests \ {r} BY <1>10 DEF InStatus
  <1>12. PICK D : D = {q \in P : decided[q] = "debited"} OBVIOUS
  <1>13. {q \in P1 : decided[q] = "debited"} = D /\ D \subseteq Requests \ {r}
    BY <1>9, <1>12
  <1>14. IsFiniteSet(P) /\ IsFiniteSet(C) /\ IsFiniteSet(D)
    BY <1>9, <1>11, <1>13, CashAssumption, FS_Subset
  <1>15. /\ \A y \in P : f[y] \in Int /\ g[y] \in Int /\ f[y] = g[y]
         /\ \A y \in C : f[y] = g[y]
         /\ \A y \in D : f[y] = g[y]
    BY <1>3, <1>6, <1>9, <1>11, <1>13
  <1>16. Pending' = Pending + request'[r].amount
    <2>1. Pending = SumFunctionOnSet(f, P) /\ Pending' = SumFunctionOnSet(g, P1)
      BY <1>1, <1>2, <1>7, <1>8 DEF Pending, Total
    <2>2. SumFunctionOnSet(g, P1) = SumFunctionOnSet(g, P) + g[r]
      <3>1. \A y \in P : g[y] \in Int BY <1>15
      <3>2. g[r] \in Int BY <1>6
      <3>3. r \notin P /\ P1 = P \cup {r} /\ IsFiniteSet(P) BY <1>9, <1>14
      <3> QED BY <3>1, <3>2, <3>3, SumGains
    <2>3. SumFunctionOnSet(f, P) = SumFunctionOnSet(g, P) BY <1>14, <1>15, SumAgree
    <2> QED BY <1>6, <2>1, <2>2, <2>3
  <1>17. Completed' = Completed
    <2>1. Completed = SumFunctionOnSet(f, C) /\ Completed' = SumFunctionOnSet(g, C)
      BY <1>1, <1>2, <1>10, <1>11 DEF Completed, Total
    <2> QED BY <1>14, <1>15, <2>1, SumAgree
  <1>18. Debited' = Debited
    <2>1. Debited = SumFunctionOnSet(f, D) /\ Debited' = SumFunctionOnSet(g, D)
      BY <1>1, <1>2, <1>7, <1>8, <1>12, <1>13 DEF Debited, Total
    <2> QED BY <1>14, <1>15, <2>1, SumAgree
  <1> QED BY <1>16, <1>17, <1>18

LEMMA CompleteStep == ASSUME NEW j \in Jobs PROVE IInv /\ Complete(j) => IInv'
  <1>0. SUFFICES ASSUME IInv, Complete(j) PROVE IInv' OBVIOUS
  <1>1. /\ received \subseteq Transfers /\ request \in [Requests -> RequestRecords]
        /\ cash \in CashRecords /\ job \in [Jobs -> JobRecords] /\ posted \in Int /\ bank \in Int
    BY <1>0 DEF IInv, TypeOK
  <1>2. /\ At(j, "withdraw", "complete") /\ Move(0, -job[j].amount, 0) /\ Ends(j)
        /\ request' = [request EXCEPT ![job[j].ref].status = "completed"]
        /\ UNCHANGED <<mode, posted, credited, dest, order, bank, decided, received, slips, failures>>
    BY <1>0 DEF Complete, bankVars
  <1>3. Asking(j) BY <1>2 DEF At, Asking
  <1>4. JobOK(j) BY <1>0 DEF IInv
  <1>5. decided[job[j].ref] = "debited" BY <1>2, <1>4 DEF JobOK
  <1>6. job[j].amount \in Int BY <1>1, JobFields
  <1>7. /\ cash' \in CashRecords /\ cash'.available = cash.available + 0
        /\ cash'.reserved = cash.reserved + (-job[j].amount) /\ cash'.pending = cash.pending + 0
    BY <1>1, <1>2, <1>6, MoveFields
  <1>8. /\ request' \in [Requests -> RequestRecords] /\ Unused' = Unused
        /\ \A q \in Requests : request'[q] = request[q] \/ job[j].ref = q
        /\ request'[job[j].ref].status = "completed"
        /\ Pending' = Pending - job[j].amount
        /\ Completed' = Completed + job[j].amount
        /\ Debited' = Debited - job[j].amount
    BY <1>0, <1>2, <1>3, <1>5, PendingEnds
  <1>9. /\ job' \in [Jobs -> JobRecords]
        /\ (\A k \in Jobs : JobOK(k)') /\ OneAsks' /\ Room'
    <2>1. \A q \in Requests : request'[q] = request[q] \/ (Asking(j) /\ job[j].ref = q)
      BY <1>3, <1>8
    <2>2. UNCHANGED <<mode, decided, received>> BY <1>2
    <2> QED BY <1>0, <1>2, <1>8, <2>1, <2>2, JobsEnd
  <1>10. TypeOK' BY <1>0, <1>2, <1>7, <1>8, <1>9 DEF IInv, TypeOK
  <1>11. cash.available \in Int /\ cash.reserved \in Int /\ cash.pending \in Int
    BY <1>1, CashFields
  <1>12. Pending \in Int /\ Completed \in Int /\ Debited \in Int /\ OnTheWay \in Int
    BY <1>1, SumsType, OnTheWayType
  <1>13. Books' = Books - job[j].amount /\ Books \in Int BY <1>6, <1>7, <1>11 DEF Books
  <1>14. InOrder' = InOrder /\ InOrder \in Int /\ (Rdn' <=> Rdn) BY <1>2 DEF InOrder, Rdn
  <1>15. OnTheWay' = OnTheWay BY <1>2, OnTheWaySame
  <1>16. Backed' BY <1>0, <1>6, <1>7, <1>8, <1>11, <1>12, <1>14 DEF IInv, Backed
  <1>17. Explained'
    BY <1>0, <1>1, <1>2, <1>6, <1>8, <1>12, <1>13, CashAssumption DEF IInv, Explained
  <1>18. Matched'
    BY <1>0, <1>1, <1>2, <1>6, <1>8, <1>12, <1>13, <1>14, <1>15 DEF IInv, Matched
  <1>19. TransfersOK' BY <1>0, <1>2 DEF IInv, TransfersOK, Rdn, Banked
  <1>20. \A q \in Requests : RequestOK(q)'
    <2>1. ASSUME NEW q \in Requests, request'[q] = request[q] PROVE RequestOK(q)'
      BY <1>0, <1>2, <2>1 DEF IInv, RequestOK, Rdn
    <2>2. ASSUME NEW q \in Requests, job[j].ref = q PROVE RequestOK(q)'
      BY <1>2, <1>5, <1>8, <2>2 DEF RequestOK
    <2> QED BY <1>8, <2>1, <2>2
  <1> QED BY <1>9, <1>10, <1>16, <1>17, <1>18, <1>19, <1>20 DEF IInv

LEMMA RefundStep == ASSUME NEW j \in Jobs PROVE IInv /\ Refund(j) => IInv'
  <1>0. SUFFICES ASSUME IInv, Refund(j) PROVE IInv' OBVIOUS
  <1>1. /\ received \subseteq Transfers /\ request \in [Requests -> RequestRecords]
        /\ cash \in CashRecords /\ job \in [Jobs -> JobRecords] /\ posted \in Int /\ bank \in Int
        /\ slips \subseteq SlipKinds
    BY <1>0 DEF IInv, TypeOK
  <1>2. /\ Move(job[j].amount, -job[j].amount, 0) /\ Ends(j)
        /\ request' = [request EXCEPT ![job[j].ref].status = "failed"]
        /\ Slip("refunded", decided[job[j].ref] = "debited")
        /\ UNCHANGED <<mode, posted, credited, order, bank, decided, received, failures>>
    BY <1>0 DEF Refund, bankVars
  <1>3. Asking(j) /\ dest' \in {"rejected", dest} BY <1>0 DEF Refund, Asking
  <1>4. JobOK(j) BY <1>0 DEF IInv
  <1>5. job[j].amount \in Nat BY <1>3, <1>4, AmountNat DEF JobOK
  <1>6. /\ cash' \in CashRecords /\ cash'.available = cash.available + job[j].amount
        /\ cash'.reserved = cash.reserved + (-job[j].amount) /\ cash'.pending = cash.pending + 0
    <2>1. job[j].amount \in Int /\ -job[j].amount \in Int BY <1>5
    <2> QED BY <1>1, <1>2, <2>1, MoveFields
  <1>7. /\ request' \in [Requests -> RequestRecords] /\ Unused' = Unused
        /\ \A q \in Requests : request'[q] = request[q] \/ job[j].ref = q
        /\ request'[job[j].ref].status = "failed"
        /\ Pending' = Pending - job[j].amount
        /\ Completed' = Completed
        /\ decided[job[j].ref] # "debited" => Debited' = Debited
    BY <1>0, <1>2, <1>3, PendingEnds
  <1>8. /\ job' \in [Jobs -> JobRecords]
        /\ (\A k \in Jobs : JobOK(k)') /\ OneAsks' /\ Room'
    <2>1. \A q \in Requests : request'[q] = request[q] \/ (Asking(j) /\ job[j].ref = q)
      BY <1>3, <1>7
    <2>2. UNCHANGED <<mode, decided, received>> BY <1>2
    <2> QED BY <1>0, <1>2, <1>7, <2>1, <2>2, JobsEnd
  <1>9. slips' \subseteq SlipKinds /\ slips \subseteq slips' /\ slips' \subseteq slips \cup {"refunded"}
    BY <1>1, <1>2 DEF SlipKinds, Slip
  <1>10. TypeOK' BY <1>0, <1>2, <1>3, <1>6, <1>7, <1>8, <1>9 DEF IInv, TypeOK
  <1>11. cash.available \in Int /\ cash.reserved \in Int /\ cash.pending \in Int
    BY <1>1, CashFields
  <1>12. Pending \in Int /\ OnTheWay \in Int BY <1>1, SumsType, OnTheWayType
  <1>13. Books' = Books BY <1>5, <1>6, <1>11 DEF Books
  <1>14. InOrder' = InOrder /\ InOrder \in Int /\ (Rdn' <=> Rdn) BY <1>2 DEF InOrder, Rdn
  <1>15. OnTheWay' = OnTheWay BY <1>2, OnTheWaySame
  <1>16. Backed' BY <1>0, <1>5, <1>6, <1>7, <1>11, <1>12, <1>14 DEF IInv, Backed
  <1>17. Explained' BY <1>0, <1>2, <1>7, <1>9, <1>13 DEF IInv, Explained
  <1>18. Matched'
    <2>1. CASE decided[job[j].ref] = "debited" BY <1>2, <2>1 DEF Matched, Slip
    <2>2. CASE decided[job[j].ref] # "debited"
      BY <1>0, <1>2, <1>7, <1>9, <1>13, <1>14, <1>15, <2>2 DEF IInv, Matched
    <2> QED BY <2>1, <2>2
  <1>19. TransfersOK' BY <1>0, <1>2 DEF IInv, TransfersOK, Rdn, Banked
  <1>20. \A q \in Requests : RequestOK(q)'
    <2>1. ASSUME NEW q \in Requests, request'[q] = request[q] PROVE RequestOK(q)'
      BY <1>0, <1>2, <2>1 DEF IInv, RequestOK, Rdn
    <2>2. ASSUME NEW q \in Requests, job[j].ref = q PROVE RequestOK(q)'
      BY <1>2, <1>7, <2>2 DEF RequestOK
    <2> QED BY <1>7, <2>1, <2>2
  <1> QED BY <1>8, <1>10, <1>16, <1>17, <1>18, <1>19, <1>20 DEF IInv

\* The new request was unused, hence undecided: nothing of it is debited yet.
LEMMA ReserveWithdrawalStep == ASSUME NEW j \in Jobs PROVE IInv /\ ReserveWithdrawal(j) => IInv'
  <1>0. SUFFICES ASSUME IInv, ReserveWithdrawal(j) PROVE IInv' OBVIOUS
  <1>1. /\ received \subseteq Transfers /\ request \in [Requests -> RequestRecords]
        /\ cash \in CashRecords /\ job \in [Jobs -> JobRecords] /\ failures \in 0..MaxFailures
        /\ bank \in Int /\ posted \in Int
    BY <1>0 DEF IInv, TypeOK
  <1>2. /\ At(j, "withdraw", "reserve")
        /\ UNCHANGED <<mode, posted, credited, dest, order, bank, decided, received, slips, failures>>
    BY <1>0 DEF ReserveWithdrawal, bankVars
  <1>3. JobOK(j) BY <1>0 DEF IInv
  <1>4. Rdn /\ job[j].amount \in Amounts BY <1>2, <1>3 DEF JobOK, At
  <1>5. job[j].amount \in Int /\ -job[j].amount \in Int BY <1>1, JobFields
  <1>6. CASE cash.available < job[j].amount
    <2>1. Ends(j) /\ UNCHANGED <<cash, request>> BY <1>0, <1>6 DEF ReserveWithdrawal
    <2> QED BY <1>0, <1>1, <1>2, <2>1, QuietEnd
  <1>7. CASE ~(cash.available < job[j].amount)
    <2>1. PICK r : r = Min(Unused) OBVIOUS
    <2>2. /\ Move(-job[j].amount, job[j].amount, 0)
          /\ request' = [request EXCEPT ![r] = [status |-> "pending", amount |-> job[j].amount]]
          /\ job' = [job EXCEPT ![j] = Job("withdraw", "call", job[j].amount, r, 0, 0)]
      BY <1>0, <1>7, <2>1 DEF ReserveWithdrawal
    <2>3. r \in Unused BY <1>0, <1>2, <2>1, UnusedThere, MinUnused
    <2>4. r \in Requests /\ request[r].status = "unused" BY <2>3 DEF Unused
    <2>5. decided[r] = "open" BY <1>0, <2>4 DEF IInv, RequestOK
    <2>6. /\ cash' \in CashRecords /\ cash'.available = cash.available + (-job[j].amount)
          /\ cash'.reserved = cash.reserved + job[j].amount /\ cash'.pending = cash.pending + 0
      BY <1>1, <1>5, <2>2, MoveFields
    <2>7. PICK new : new = [status |-> "pending", amount |-> job[j].amount] OBVIOUS
    <2>8. new \in RequestRecords /\ new.status = "pending" /\ new.amount = job[j].amount
      BY <1>4, <2>7 DEF RequestRecords, Statuses
    <2>9. /\ request' \in [Requests -> RequestRecords] /\ request'[r] = new
          /\ \A q \in Requests \ {r} : request'[q] = request[q]
      BY <1>1, <2>2, <2>4, <2>7, <2>8
    <2>10. PICK next : next = Job("withdraw", "call", job[j].amount, r, 0, 0) OBVIOUS
    <2>11. /\ next \in JobRecords /\ next.kind = "withdraw" /\ next.at = "call"
           /\ next.amount = job[j].amount /\ next.ref = r
      BY <1>5, <2>4, <2>10 DEF Job, JobRecords, Kinds, Stages
    <2>12. /\ job' \in [Jobs -> JobRecords] /\ job'[j] = next
           /\ \A k \in Jobs \ {j} : job'[k] = job[k]
      BY <1>1, <2>2, <2>10, <2>11
    <2>13. TypeOK' BY <1>0, <1>2, <2>6, <2>9, <2>12 DEF IInv, TypeOK
    <2>14. cash.available \in Int /\ cash.reserved \in Int /\ cash.pending \in Int
      BY <1>1, CashFields
    <2>15. /\ Pending' = Pending + job[j].amount
           /\ Completed' = Completed /\ Debited' = Debited
      <3>1. request'[r].status = "pending" /\ request'[r].amount = job[j].amount BY <2>8, <2>9
      <3>2. decided' = decided BY <1>2
      <3> QED BY <1>1, <2>4, <2>5, <2>9, <3>1, <3>2, PendingBegins
    <2>16. Pending \in Int /\ Completed \in Int /\ Debited \in Int BY <1>1, SumsType
    <2>17. Books' = Books BY <1>5, <2>6, <2>14 DEF Books
    <2>18. InOrder' = InOrder /\ InOrder \in Int /\ (Rdn' <=> Rdn) BY <1>2 DEF InOrder, Rdn
    <2>19. OnTheWay' = OnTheWay BY <1>2, OnTheWaySame
    <2>20. Backed'
      BY <1>0, <1>5, <1>7, <2>6, <2>14, <2>15, <2>16, <2>18 DEF IInv, Backed
    <2>21. Explained' BY <1>0, <1>2, <2>15, <2>17 DEF IInv, Explained
    <2>22. Matched' BY <1>0, <1>2, <2>15, <2>17, <2>18, <2>19 DEF IInv, Matched
    <2>23. \A k \in Jobs \ {j} : Asking(k) =>
             job[k].ref \in Requests /\ job[k].ref # r
      BY <1>0, <2>4 DEF IInv, JobOK
    <2>24. \A k \in Jobs \ {j} : JobOK(k)'
      <3>1. \A k \in Jobs \ {j} : JobOK(k) /\ job'[k] = job[k] BY <1>0, <2>12 DEF IInv
      <3>2. \A k \in Jobs \ {j} : Asking(k) => request'[job[k].ref] = request[job[k].ref]
        BY <2>9, <2>23
      <3> QED BY <1>2, <3>1, <3>2, JobsKept
    <2>25. JobOK(j)'
      BY <1>2, <1>4, <2>4, <2>8, <2>9, <2>11, <2>12, <2>18 DEF JobOK, At, Asking
    <2>26. OneAsks'
      <3>1. \A k \in Jobs \ {j} : Asking(k) => job[k].ref # job'[j].ref
        BY <2>11, <2>12, <2>23
      <3> QED BY <1>0, <2>12, <3>1, OneAsksKept DEF IInv
    <2>27. Room'
      <3>1. Reserving' = Reserving \ {j} BY <2>11, <2>12 DEF Reserving, At
      <3>2. Unused' = Unused \ {r} BY <2>8, <2>9 DEF Unused
      <3>3. j \in Reserving BY <1>2 DEF Reserving
      <3>4. IsFiniteSet(Reserving) /\ IsFiniteSet(Unused)
        BY CashAssumption, FS_Subset DEF Reserving, Unused
      <3>5. Cardinality(Reserving \ {j}) = Cardinality(Reserving) - 1
        BY <3>3, <3>4, FS_RemoveElement
      <3>6. Cardinality(Unused \ {r}) = Cardinality(Unused) - 1
        BY <2>3, <3>4, FS_RemoveElement
      <3>7. Cardinality(Reserving) \in Nat /\ Cardinality(Unused) \in Nat
        BY <3>4, FS_CardinalityType
      <3>8. Cardinality(Reserving) <= Cardinality(Unused) BY <1>0, <1>4 DEF IInv, Room
      <3> QED BY <3>1, <3>2, <3>5, <3>6, <3>7, <3>8 DEF Room
    <2>28. TransfersOK' BY <1>0, <1>2 DEF IInv, TransfersOK, Rdn, Banked
    <2>29. \A q \in Requests : RequestOK(q)'
      <3>1. RequestOK(r)' BY <2>8, <2>9 DEF RequestOK
      <3>2. ASSUME NEW q \in Requests \ {r} PROVE RequestOK(q)'
        BY <1>0, <1>2, <2>9 DEF IInv, RequestOK, Rdn
      <3> QED BY <3>1, <3>2
    <2> QED
      BY <2>13, <2>20, <2>21, <2>22, <2>24, <2>25, <2>26, <2>27, <2>28, <2>29 DEF IInv
  <1> QED BY <1>6, <1>7

\* Credited again, a transfer is a slip; credited once, it is no longer on its way.
LEMMA CreditStep == ASSUME NEW j \in Jobs PROVE IInv /\ Credit(j) => IInv'
  <1>0. SUFFICES ASSUME IInv, Credit(j) PROVE IInv' OBVIOUS
  <1>1. /\ received \subseteq Transfers /\ request \in [Requests -> RequestRecords]
        /\ cash \in CashRecords /\ posted \in Int /\ bank \in Int /\ slips \subseteq SlipKinds
        /\ credited \in [Transfers -> Nat]
    BY <1>0 DEF IInv, TypeOK
  <1>2. PICK t : t = job[j].ref OBVIOUS
  <1>3. /\ At(j, "deposit", "credit") /\ Move(1, 0, 0) /\ posted' = posted + 1 /\ Ends(j)
        /\ credited' = [credited EXCEPT ![t] = @ + 1]
        /\ Slip("doubled", credited[t] > 0)
        /\ UNCHANGED <<mode, request, dest, order, bank, decided, received, failures>>
    BY <1>0, <1>2 DEF Credit, bankVars
  <1>4. JobOK(j) BY <1>0 DEF IInv
  <1>5. t \in received /\ t \in Transfers /\ Banked BY <1>1, <1>2, <1>3, <1>4 DEF JobOK, At
  <1>6. /\ credited' \in [Transfers -> Nat] /\ credited[t] \in Nat /\ credited'[t] = credited[t] + 1
        /\ \A u \in Transfers \ {t} : credited'[u] = credited[u]
    BY <1>1, <1>3, <1>5
  <1>7. /\ cash' \in CashRecords /\ cash'.available = cash.available + 1
        /\ cash'.reserved = cash.reserved + 0 /\ cash'.pending = cash.pending + 0
    BY <1>1, <1>3, MoveFields
  <1>8. slips' \subseteq SlipKinds /\ slips \subseteq slips' /\ slips' \subseteq slips \cup {"doubled"}
    BY <1>1, <1>3 DEF SlipKinds, Slip
  <1>9. /\ job' \in [Jobs -> JobRecords]
        /\ (\A k \in Jobs : JobOK(k)') /\ OneAsks' /\ Room'
    <2>1. \A q \in Requests : request'[q] = request[q] \/ (Asking(j) /\ job[j].ref = q) BY <1>3
    <2>2. UNCHANGED <<mode, decided, received>> BY <1>3
    <2>3. Unused' = Unused BY <1>3 DEF Unused
    <2> QED BY <1>0, <1>3, <2>1, <2>2, <2>3, JobsEnd
  <1>10. posted' \in Int BY <1>1, <1>3
  <1>11. TypeOK' BY <1>0, <1>3, <1>6, <1>7, <1>8, <1>9, <1>10 DEF IInv, TypeOK
  <1>12. cash.available \in Int /\ cash.reserved \in Int /\ cash.pending \in Int
    BY <1>1, CashFields
  <1>13. Pending' = Pending /\ Completed' = Completed /\ Debited' = Debited BY <1>3, SumsSame
  <1>14. Completed \in Int /\ Debited \in Int /\ OnTheWay \in Int BY <1>1, SumsType, OnTheWayType
  <1>15. Books' = Books + 1 /\ Books \in Int /\ cash'.reserved = cash.reserved
    BY <1>7, <1>12 DEF Books
  <1>16. InOrder' = InOrder /\ (Rdn' <=> Rdn) BY <1>3 DEF InOrder, Rdn
  <1>17. Backed' BY <1>0, <1>7, <1>12, <1>13, <1>15, <1>16 DEF IInv, Backed
  <1>18. Explained'
    BY <1>0, <1>1, <1>3, <1>8, <1>13, <1>14, <1>15, CashAssumption DEF IInv, Explained
  <1>19. Matched'
    <2>1. CASE credited[t] > 0 BY <1>3, <2>1 DEF Matched, Slip
    <2>2. CASE credited[t] = 0
      <3>1. PICK S : S = {u \in received : credited[u] = 0} OBVIOUS
      <3>2. {u \in received' : credited'[u] = 0} = S \ {t}
        BY <1>1, <1>3, <1>6, <3>1
      <3>3. IsFiniteSet(S) /\ t \in S BY <1>1, <1>5, <2>2, <3>1, OnTheWayType
      <3>4. Cardinality(S \ {t}) = Cardinality(S) - 1 BY <3>3, FS_RemoveElement
      <3>5. OnTheWay' = OnTheWay - 1 BY <3>1, <3>2, <3>4 DEF OnTheWay
      <3> QED BY <1>0, <1>1, <1>3, <1>8, <1>13, <1>14, <1>15, <1>16, <3>5 DEF IInv, Matched
    <2> QED BY <1>6, <2>1, <2>2
  <1>20. TransfersOK'
    <2>1. received' = received /\ (Rdn' <=> Rdn) /\ Banked' BY <1>3, <1>5, <1>16 DEF Banked
    <2>2. Rdn => \A u \in Transfers : credited'[u] > 0 => u \in received
      BY <1>0, <1>5, <1>6 DEF IInv, TransfersOK
    <2> QED BY <1>5, <2>1, <2>2 DEF TransfersOK
  <1>21. \A q \in Requests : RequestOK(q)' BY <1>0, <1>3 DEF IInv, RequestOK, Rdn
  <1> QED BY <1>9, <1>11, <1>17, <1>18, <1>19, <1>20, <1>21 DEF IInv

\* What the reconciliation writes is not negative, and a slip if it changes anything.
LEMMA WriteBalanceStep == ASSUME NEW j \in Jobs PROVE IInv /\ WriteBalance(j) => IInv'
  <1>0. SUFFICES ASSUME IInv, WriteBalance(j) PROVE IInv' OBVIOUS
  <1>1. cash \in CashRecords /\ job \in [Jobs -> JobRecords] /\ slips \subseteq SlipKinds
    BY <1>0 DEF IInv, TypeOK
  <1>2. /\ At(j, "reconcile", "write") /\ cash' = [cash EXCEPT !.available = job[j].amount]
        /\ Slip("corrected", cash.available # job[j].amount) /\ Ends(j)
        /\ UNCHANGED <<mode, posted, credited, request, dest, order, bank, decided, received, failures>>
    BY <1>0 DEF WriteBalance, bankVars, tables
  <1>3. job[j].amount \in Int BY <1>1, JobFields
  <1>4. job[j].amount >= 0 BY <1>0, <1>2 DEF IInv, JobOK
  <1>5. /\ cash' \in CashRecords /\ cash'.available = job[j].amount
        /\ cash'.reserved = cash.reserved /\ cash'.pending = cash.pending
    BY <1>1, <1>2, <1>3, SetFields
  <1>6. slips' \subseteq SlipKinds /\ slips \subseteq slips' BY <1>1, <1>2 DEF SlipKinds, Slip
  <1>7. /\ job' \in [Jobs -> JobRecords]
        /\ (\A k \in Jobs : JobOK(k)') /\ OneAsks' /\ Room'
    <2>1. \A q \in Requests : request'[q] = request[q] \/ (Asking(j) /\ job[j].ref = q) BY <1>2
    <2>2. UNCHANGED <<mode, decided, received>> BY <1>2
    <2>3. Unused' = Unused BY <1>2 DEF Unused
    <2> QED BY <1>0, <1>2, <2>1, <2>2, <2>3, JobsEnd
  <1>8. TypeOK' BY <1>0, <1>2, <1>5, <1>6, <1>7 DEF IInv, TypeOK
  <1>9. Pending' = Pending /\ Completed' = Completed /\ Debited' = Debited /\ OnTheWay' = OnTheWay
    BY <1>2, SumsSame, OnTheWaySame
  <1>10. InOrder' = InOrder /\ (Rdn' <=> Rdn) BY <1>2 DEF InOrder, Rdn
  <1>11. Backed' BY <1>0, <1>4, <1>5, <1>9, <1>10 DEF IInv, Backed
  <1>12. Explained' /\ Matched'
    <2>1. CASE cash.available = job[j].amount
      <3>1. Books' = Books BY <1>5, <2>1 DEF Books
      <3> QED BY <1>0, <1>2, <1>6, <1>9, <1>10, <3>1 DEF IInv, Explained, Matched
    <2>2. CASE cash.available # job[j].amount BY <1>2, <2>2 DEF Explained, Matched, Slip
    <2> QED BY <2>1, <2>2
  <1>13. TransfersOK' BY <1>0, <1>2 DEF IInv, TransfersOK, Rdn, Banked
  <1>14. \A q \in Requests : RequestOK(q)' BY <1>0, <1>2 DEF IInv, RequestOK, Rdn
  <1> QED BY <1>7, <1>8, <1>11, <1>12, <1>13, <1>14 DEF IInv

\* In simulator mode the row may go below nothing, but the ledger knows why, unless
\* an administrator wrote over a change.
LEMMA SimulatorStep ==
    ASSUME NEW j \in Jobs PROVE IInv /\ (SimulatorWithdraws(j) \/ AdminWrites(j)) => IInv'
  <1>0. SUFFICES ASSUME IInv, SimulatorWithdraws(j) \/ AdminWrites(j) PROVE IInv' OBVIOUS
  <1>1. /\ cash \in CashRecords /\ job \in [Jobs -> JobRecords] /\ slips \subseteq SlipKinds
        /\ posted \in Int /\ request \in [Requests -> RequestRecords]
    BY <1>0 DEF IInv, TypeOK
  <1>2. /\ job[j].kind \in {"take", "admin"} /\ Ends(j)
        /\ UNCHANGED <<mode, credited, request, dest, order, bank, decided, received, failures>>
    BY <1>0 DEF SimulatorWithdraws, AdminWrites, At, bankVars, tables
  <1>3. \/ /\ Move(-job[j].amount, 0, 0) /\ posted' = posted - job[j].amount /\ slips' = slips
        \/ /\ cash' = [cash EXCEPT !.available = job[j].amount]
           /\ posted' = posted + job[j].amount - job[j].read
           /\ Slip("overwritten", cash.available # job[j].read)
    BY <1>0 DEF SimulatorWithdraws, AdminWrites
  <1>4. ~Rdn /\ ~Rdn' BY <1>0, <1>2 DEF IInv, JobOK, Rdn, Banked, Simulator
  <1>5. job[j].amount \in Int /\ -job[j].amount \in Int /\ job[j].read \in Int BY <1>1, JobFields
  <1>6. cash.available \in Int /\ cash.reserved \in Int /\ cash.pending \in Int
    BY <1>1, CashFields
  <1>7. /\ cash' \in CashRecords /\ cash'.reserved = cash.reserved /\ cash'.pending = cash.pending
        /\ posted' \in Int /\ slips' \subseteq SlipKinds /\ slips \subseteq slips'
        /\ \/ Books' = Books + (posted' - posted)
           \/ "overwritten" \in slips'
    <2>1. CASE /\ Move(-job[j].amount, 0, 0) /\ posted' = posted - job[j].amount
               /\ slips' = slips
      <3>1. /\ cash' \in CashRecords /\ cash'.available = cash.available + (-job[j].amount)
            /\ cash'.reserved = cash.reserved + 0 /\ cash'.pending = cash.pending + 0
        BY <1>1, <1>5, <2>1, MoveFields
      <3>2. cash'.reserved = cash.reserved /\ cash'.pending = cash.pending BY <1>6, <3>1
      <3>3. posted' \in Int /\ Books' = Books + (posted' - posted)
        BY <1>1, <1>5, <1>6, <2>1, <3>1 DEF Books
      <3> QED BY <1>1, <2>1, <3>1, <3>2, <3>3
    <2>2. CASE /\ cash' = [cash EXCEPT !.available = job[j].amount]
               /\ posted' = posted + job[j].amount - job[j].read
               /\ Slip("overwritten", cash.available # job[j].read)
      <3>1. /\ cash' \in CashRecords /\ cash'.available = job[j].amount
            /\ cash'.reserved = cash.reserved /\ cash'.pending = cash.pending
        BY <1>1, <1>5, <2>2, SetFields
      <3>2. posted' \in Int BY <1>1, <1>5, <2>2
      <3>3. slips' \subseteq SlipKinds /\ slips \subseteq slips' BY <1>1, <2>2 DEF Slip, SlipKinds
      <3>4. cash.available = job[j].read => Books' = Books + (posted' - posted)
        BY <1>1, <1>5, <1>6, <2>2, <3>1 DEF Books
      <3>5. cash.available # job[j].read => "overwritten" \in slips' BY <2>2 DEF Slip
      <3> QED BY <3>1, <3>2, <3>3, <3>4, <3>5
    <2> QED BY <1>3, <2>1, <2>2
  <1>8. /\ job' \in [Jobs -> JobRecords]
        /\ (\A k \in Jobs : JobOK(k)') /\ OneAsks' /\ Room'
    <2>1. \A q \in Requests : request'[q] = request[q] \/ (Asking(j) /\ job[j].ref = q) BY <1>2
    <2>2. UNCHANGED <<mode, decided, received>> BY <1>2
    <2>3. Unused' = Unused BY <1>2 DEF Unused
    <2> QED BY <1>0, <1>2, <2>1, <2>2, <2>3, JobsEnd
  <1>9. TypeOK' BY <1>0, <1>2, <1>7, <1>8 DEF IInv, TypeOK
  <1>10. Pending' = Pending /\ Completed' = Completed BY <1>2, SumsSame
  <1>11. Completed \in Int BY <1>1, SumsType
  <1>12. InOrder' = InOrder BY <1>2 DEF InOrder
  <1>13. Backed' BY <1>0, <1>4, <1>7, <1>10, <1>12 DEF IInv, Backed
  <1>14. Explained'
    <2>1. Books \in Int /\ Books' \in Int BY <1>6, <1>7, CashFields DEF Books, CashRecords
    <2>2. Opening \in Int /\ posted' \in Int BY <1>7, CashAssumption
    <2>3. ASSUME slips' \cap {"corrected", "overwritten"} = {}
          PROVE  Books' = Opening + posted' - Completed'
      <3>1. Books' = Books + (posted' - posted) BY <1>7, <2>3
      <3>2. slips \cap {"corrected", "overwritten"} = {} BY <1>7, <2>3
      <3>3. Books = Opening + posted - Completed BY <1>0, <3>2 DEF IInv, Explained
      <3>4. Completed' = Completed /\ Completed \in Int /\ posted \in Int BY <1>1, <1>10, <1>11
      <3>5. PICK c : c = Completed OBVIOUS
      <3>6. Books = Opening + posted - c /\ c \in Int /\ posted \in Int BY <3>3, <3>4, <3>5
      <3>7. Books' = Opening + posted' - c BY <2>1, <2>2, <3>1, <3>6
      <3> QED BY <3>4, <3>5, <3>7
    <2> QED BY <2>3 DEF Explained
  <1>15. Matched' BY <1>4 DEF Matched
  <1>16. TransfersOK' BY <1>0, <1>2, <1>4 DEF IInv, TransfersOK, Banked
  <1>17. \A q \in Requests : RequestOK(q)' BY <1>0, <1>2 DEF IInv, RequestOK, Rdn
  <1> QED BY <1>8, <1>9, <1>13, <1>14, <1>15, <1>16, <1>17 DEF IInv

\* What a job that begins in simulator mode writes is not seen by the other jobs.
LEMMA JobsBegin ==
    ASSUME IInv, NEW j \in Jobs, NEW new, new.kind \in {"take", "admin"},
           job' \in [Jobs -> JobRecords], \A k \in Jobs \ {j} : job'[k] = job[k], job'[j] = new,
           UNCHANGED <<mode, decided, received>>, Simulator
    PROVE  (\A k \in Jobs : JobOK(k)') /\ OneAsks' /\ Room'
  <1>1. ~Rdn /\ ~Rdn' /\ Simulator' BY DEF Rdn, Simulator
  <1>2. JobOK(j)' /\ ~Asking(j)' BY <1>1 DEF JobOK, Asking, At
  <1>3. \A k \in Jobs \ {j} : JobOK(k)'
    <2>1. \A k \in Jobs \ {j} : JobOK(k) /\ job'[k] = job[k] BY DEF IInv
    <2>2. \A k \in Jobs \ {j} : ~Asking(k) BY <1>1, <2>1 DEF JobOK, Asking
    <2> QED BY <2>1, <2>2, JobsKept
  <1>4. OneAsks' BY <1>2, OneAsksKept DEF IInv
  <1>5. Room' BY <1>1 DEF Room
  <1> QED BY <1>2, <1>3, <1>4, <1>5

LEMMA AskSimulatorWithdrawalStep ==
    ASSUME NEW j \in Jobs, NEW a \in Amounts PROVE IInv /\ AskSimulatorWithdrawal(j, a) => IInv'
  <1>0. SUFFICES ASSUME IInv, AskSimulatorWithdrawal(j, a) PROVE IInv' OBVIOUS
  <1>1. /\ cash \in CashRecords /\ job \in [Jobs -> JobRecords]
        /\ request \in [Requests -> RequestRecords]
    BY <1>0 DEF IInv, TypeOK
  <1>2. PICK r : r = Min(Unused) OBVIOUS
  <1>3. /\ Simulator /\ Unused # {}
        /\ Begins(j, Job("take", "take", a, 0, cash.available, 0))
        /\ request' = [request EXCEPT ![r].status = "simulated"]
        /\ UNCHANGED <<mode, cash, posted, credited, dest, order, bank, decided, received,
                       slips, failures>>
    BY <1>0, <1>2 DEF AskSimulatorWithdrawal, bankVars
  <1>4. r \in Requests /\ request[r].status = "unused" BY <1>2, <1>3, MinUnused DEF Unused
  <1>5. /\ request' \in [Requests -> RequestRecords]
        /\ \A q \in Requests \ {r} : request'[q] = request[q]
        /\ request'[r].status = "simulated"
        /\ \A q \in Requests : request'[q].amount = request[q].amount
    BY <1>1, <1>3, <1>4, StatusType DEF Statuses
  <1>6. PICK new : new = Job("take", "take", a, 0, cash.available, 0) OBVIOUS
  <1>7. a \in Int BY AmountNat
  <1>8. new \in JobRecords /\ new.kind = "take"
    BY <1>1, <1>6, <1>7, CashFields DEF Job, JobRecords, Kinds, Stages
  <1>9. /\ job' \in [Jobs -> JobRecords] /\ \A k \in Jobs \ {j} : job'[k] = job[k]
        /\ job'[j] = new
    BY <1>1, <1>3, <1>6, <1>8, BeginsType
  <1>10. TypeOK' BY <1>0, <1>3, <1>5, <1>9 DEF IInv, TypeOK
  <1>11. Pending' = Pending /\ Completed' = Completed
    <2>1. AmountOf' = AmountOf BY <1>5 DEF AmountOf
    <2>2. InStatus("pending")' = InStatus("pending") BY <1>4, <1>5 DEF InStatus
    <2>3. InStatus("completed")' = InStatus("completed") BY <1>4, <1>5 DEF InStatus
    <2> QED BY <2>1, <2>2, <2>3 DEF Pending, Completed, Total
  <1>12. ~Rdn /\ ~Rdn' BY <1>3 DEF Rdn, Simulator
  <1>13. Backed' /\ Explained' /\ Matched'
    BY <1>0, <1>3, <1>11, <1>12 DEF IInv, Backed, Explained, Matched, Books, InOrder
  <1>14. (\A k \in Jobs : JobOK(k)') /\ OneAsks' /\ Room' BY <1>0, <1>3, <1>8, <1>9, JobsBegin
  <1>15. TransfersOK' BY <1>0, <1>3, <1>12 DEF IInv, TransfersOK, Banked
  <1>16. \A q \in Requests : RequestOK(q)'
    <2>1. RequestOK(r)' BY <1>5, <1>12 DEF RequestOK
    <2>2. ASSUME NEW q \in Requests \ {r} PROVE RequestOK(q)'
      BY <1>0, <1>3, <1>5 DEF IInv, RequestOK, Rdn
    <2> QED BY <2>1, <2>2
  <1> QED BY <1>10, <1>13, <1>14, <1>15, <1>16 DEF IInv

LEMMA AdminReadsStep == ASSUME NEW j \in Jobs PROVE IInv /\ AdminReads(j) => IInv'
  <1>0. SUFFICES ASSUME IInv, AdminReads(j) PROVE IInv' OBVIOUS
  <1>1. /\ cash \in CashRecords /\ job \in [Jobs -> JobRecords]
        /\ credited \in [Transfers -> Nat]
    BY <1>0 DEF IInv, TypeOK
  <1>2. /\ Simulator
        /\ UNCHANGED <<mode, cash, posted, request, dest, order, bank, decided, received,
                       slips, failures>>
    BY <1>0 DEF AdminReads, bankVars, Simulator
  <1>3. /\ \/ credited' = credited
           \/ \E t \in Transfers : credited' = [credited EXCEPT ![t] = 1]
        /\ \/ Begins(j, Job("admin", "write", cash.available + 1, 0, cash.available, 0))
           \/ Begins(j, Job("admin", "write", Opening, 0, cash.available, 0))
    BY <1>0 DEF AdminReads
  <1>4. credited' \in [Transfers -> Nat] BY <1>1, <1>3
  <1>5. cash.available \in Int /\ cash.available + 1 \in Int /\ Opening \in Int
    BY <1>1, CashFields, CashAssumption
  <1>6. PICK amount \in Int : Begins(j, Job("admin", "write", amount, 0, cash.available, 0))
    BY <1>3, <1>5
  <1>7. PICK new : new = Job("admin", "write", amount, 0, cash.available, 0) OBVIOUS
  <1>8. new \in JobRecords /\ new.kind = "admin"
    BY <1>5, <1>7 DEF Job, JobRecords, Kinds, Stages
  <1>9. /\ job' \in [Jobs -> JobRecords] /\ \A k \in Jobs \ {j} : job'[k] = job[k]
        /\ job'[j] = new
    BY <1>1, <1>6, <1>7, <1>8, BeginsType
  <1>10. TypeOK' BY <1>0, <1>2, <1>4, <1>9 DEF IInv, TypeOK
  <1>11. ~Rdn /\ ~Rdn' BY <1>2 DEF Rdn, Simulator
  <1>12. Pending' = Pending /\ Completed' = Completed BY <1>2, SumsSame
  <1>13. Backed' /\ Explained' /\ Matched'
    BY <1>0, <1>2, <1>11, <1>12 DEF IInv, Backed, Explained, Matched, Books, InOrder
  <1>14. (\A k \in Jobs : JobOK(k)') /\ OneAsks' /\ Room' BY <1>0, <1>2, <1>8, <1>9, JobsBegin
  <1>15. TransfersOK' BY <1>0, <1>2, <1>11 DEF IInv, TransfersOK, Banked
  <1>16. \A q \in Requests : RequestOK(q)' BY <1>0, <1>2 DEF IInv, RequestOK, Rdn
  <1> QED BY <1>10, <1>13, <1>14, <1>15, <1>16 DEF IInv
-----------------------------------------------------------------------------
LEMMA InitOK == Init => IInv
  <1>0. SUFFICES ASSUME Init PROVE IInv OBVIOUS
  <1>1. /\ mode \in Modes
        /\ cash = [available |-> Opening, reserved |-> 0, pending |-> 0]
        /\ posted = 0 /\ credited = [t \in Transfers |-> 0]
        /\ request = [r \in Requests |-> [status |-> "unused", amount |-> 0]]
        /\ dest = "verified" /\ order = "none" /\ job = [j \in Jobs |-> Idle]
        /\ bank = Opening /\ decided = [r \in Requests |-> "open"] /\ received = {}
        /\ slips = {} /\ failures = 0
    BY <1>0 DEF Init
  <1>2. Opening \in Nat /\ MaxFailures \in Nat BY CashAssumption
  <1>3. /\ cash \in CashRecords /\ cash.available = Opening /\ cash.reserved = 0
        /\ cash.pending = 0
    BY <1>1, <1>2 DEF CashRecords
  <1>4. /\ request \in [Requests -> RequestRecords]
        /\ \A r \in Requests : request[r].status = "unused"
    BY <1>1 DEF RequestRecords, Statuses
  <1>5. job \in [Jobs -> JobRecords] /\ \A j \in Jobs : job[j].kind = "none"
    BY <1>1, IdleType
  <1>6. TypeOK BY <1>1, <1>2, <1>3, <1>4, <1>5 DEF TypeOK, Decisions, SlipKinds
  <1>7. Pending = 0 /\ Completed = 0 /\ Debited = 0
    <2>1. InStatus("pending") = {} /\ InStatus("completed") = {} BY <1>4 DEF InStatus
    <2>2. {r \in InStatus("pending") : decided[r] = "debited"} = {} BY <2>1
    <2> QED BY <2>1, <2>2, SumEmpty DEF Pending, Completed, Debited, Total
  <1>8. OnTheWay = 0
    <2>1. {t \in received : credited[t] = 0} = {} BY <1>1
    <2> QED BY <2>1, FS_EmptySet DEF OnTheWay
  <1>9. InOrder = 0 /\ Books = Opening BY <1>1, <1>2, <1>3 DEF InOrder, Books
  <1>10. Backed /\ Explained /\ Matched
    BY <1>1, <1>2, <1>3, <1>7, <1>8, <1>9 DEF Backed, Explained, Matched
  <1>11. \A j \in Jobs : JobOK(j) /\ ~Asking(j) /\ ~At(j, "withdraw", "reserve")
    BY <1>5 DEF JobOK, Asking, At
  <1>12. OneAsks BY <1>11 DEF OneAsks
  <1>13. Room
    <2>1. Reserving = {} BY <1>11 DEF Reserving
    <2>2. IsFiniteSet(Unused) BY CashAssumption, FS_Subset DEF Unused
    <2>3. Cardinality(Reserving) = 0 /\ Cardinality(Unused) \in Nat
      BY <2>1, <2>2, FS_EmptySet, FS_CardinalityType
    <2> QED BY <2>3 DEF Room
  <1>14. TransfersOK BY <1>1 DEF TransfersOK
  <1>15. \A r \in Requests : RequestOK(r) BY <1>1, <1>4 DEF RequestOK
  <1> QED BY <1>6, <1>10, <1>11, <1>12, <1>13, <1>14, <1>15 DEF IInv

LEMMA NextOK == IInv /\ [Next]_vars => IInv'
  <1>0. SUFFICES ASSUME IInv, [Next]_vars PROVE IInv' OBVIOUS
  <1>1. CASE PlaceOrder \/ ReleaseOrder \/ FillOrder BY <1>0, <1>1, OrderStep
  <1>2. CASE UpdateBankAccount \/ UNCHANGED vars BY <1>0, <1>2, StandStillStep
  <1>3. CASE Restart BY <1>0, <1>3, RestartStep
  <1>4. ASSUME NEW r \in Requests, BankDecides(r) PROVE IInv' BY <1>0, <1>4, BankDecidesStep
  <1>5. ASSUME NEW t \in Transfers, BankReceives(t) \/ SimulatorDeposit(t) PROVE IInv'
    BY <1>0, <1>5, BankReceivesStep, SimulatorDepositStep
  <1>6. ASSUME NEW j \in Jobs, NEW a \in Amounts,
               AskWithdrawal(j, a) \/ AskSimulatorWithdrawal(j, a)
        PROVE  IInv'
    BY <1>0, <1>6, AskWithdrawalStep, AskSimulatorWithdrawalStep
  <1>7. ASSUME NEW j \in Jobs, NEW t \in Transfers, ReportDeposit(j, t) PROVE IInv'
    BY <1>0, <1>7, ReportDepositStep
  <1>8. ASSUME NEW j \in Jobs, StartReconcile(j) \/ AdminReads(j) PROVE IInv'
    BY <1>0, <1>8, StartReconcileStep, AdminReadsStep
  <1>9. ASSUME NEW j \in Jobs, WithdrawalThrows(j) \/ RefundFails(j) \/ FetchFails(j) PROVE IInv'
    BY <1>0, <1>9, WithdrawalThrowsStep, GivesUpStep
  <1>10. ASSUME NEW j \in Jobs, Goes(j) PROVE IInv'
    <2>1. CASE ReserveWithdrawal(j) BY <1>0, <2>1, ReserveWithdrawalStep
    <2>2. CASE BankAnswers(j) BY <1>0, <2>2, BankAnswersStep
    <2>3. CASE Complete(j) BY <1>0, <2>3, CompleteStep
    <2>4. CASE Refund(j) BY <1>0, <2>4, RefundStep
    <2>5. CASE Credit(j) BY <1>0, <2>5, CreditStep
    <2>6. CASE Fetch(j) BY <1>0, <2>6, FetchStep
    <2>7. CASE WriteBalance(j) BY <1>0, <2>7, WriteBalanceStep
    <2>8. CASE SimulatorWithdraws(j) \/ AdminWrites(j) BY <1>0, <2>8, SimulatorStep
    <2> QED BY <1>10, <2>1, <2>2, <2>3, <2>4, <2>5, <2>6, <2>7, <2>8 DEF Goes
  <1> QED
    BY <1>0, <1>1, <1>2, <1>3, <1>4, <1>5, <1>6, <1>7, <1>8, <1>9, <1>10 DEF Next

LEMMA Invariant == Spec => []IInv
  BY InitOK, NextOK, PTL DEF Spec
-----------------------------------------------------------------------------
(***************************************************************************)
(* Whatever is reserved on the row of cash_balances is the pending         *)
(* withdrawals and the open order, and in RDN mode the available cash is   *)
(* never negative, however requests, retries, refunds, reconciliations and *)
(* restarts interleave.                                                    *)
(***************************************************************************)
THEOREM ReservationsAreBacked == Spec => []ReservationsBacked
  BY Invariant, Implied, PTL

(***************************************************************************)
(* Until a reconciliation or an administrator writes over a change, the    *)
(* opening cash, the ledger and the completed withdrawals add up to what   *)
(* the row holds.                                                          *)
(***************************************************************************)
THEOREM LedgerExplains == Spec => []LedgerExplainsCash
  BY Invariant, Implied, PTL

(***************************************************************************)
(* In RDN mode there are just three ways for the books to come apart from  *)
(* the bank: the refund of a withdrawal the bank debits or has debited, a  *)
(* deposit reported twice and credited twice, and a reconciliation that    *)
(* writes a balance it read before something else changed the row.         *)
(***************************************************************************)
THEOREM BankMatches == Spec => []BankMatchesBooks
  BY Invariant, Implied, PTL
-----------------------------------------------------------------------------
\* A withdrawal that has ended stays as it ended.
EndedForGood ==
    [][\A r \in Requests : request[r].status \in {"completed", "failed"} =>
         request'[r] = request[r]]_vars

\* The one withdrawal a step may change, and as what it changes.
Changes(r, from, to) ==
    /\ request[r].status = from /\ request'[r].status = to
    /\ \A q \in Requests \ {r} : request'[q] = request[q]

LEMMA RequestSteps ==
    ASSUME IInv, [Next]_vars
    PROVE  \/ request' = request
           \/ \E r \in Requests : \/ Changes(r, "unused", "pending")
                                  \/ Changes(r, "unused", "simulated")
                                  \/ Changes(r, "pending", "completed")
                                  \/ Changes(r, "pending", "failed")
  <1>0. request \in [Requests -> RequestRecords] BY DEF IInv, TypeOK
  <1>1. ASSUME NEW j \in Jobs, ReserveWithdrawal(j), request' # request
        PROVE  \E r \in Requests : Changes(r, "unused", "pending")
    <2>1. At(j, "withdraw", "reserve") BY <1>1 DEF ReserveWithdrawal
    <2>2. PICK r : r = Min(Unused) OBVIOUS
    <2>3. r \in Requests /\ request[r].status = "unused"
      BY <2>1, <2>2, UnusedThere, MinUnused DEF Unused
    <2>4. PICK new : new = [status |-> "pending", amount |-> job[j].amount] OBVIOUS
    <2>5. request' = [request EXCEPT ![r] = new] BY <1>1, <2>2, <2>4 DEF ReserveWithdrawal
    <2>6. request'[r] = new /\ \A q \in Requests \ {r} : request'[q] = request[q]
      BY <1>0, <2>3, <2>5
    <2> QED BY <2>3, <2>4, <2>6 DEF Changes
  <1>2. ASSUME NEW j \in Jobs, NEW a \in Amounts, AskSimulatorWithdrawal(j, a)
        PROVE  \E r \in Requests : Changes(r, "unused", "simulated")
    <2>1. PICK r : r = Min(Unused) OBVIOUS
    <2>2. r \in Requests /\ request[r].status = "unused"
      BY <1>2, <2>1, MinUnused DEF AskSimulatorWithdrawal, Unused
    <2>3. request' = [request EXCEPT ![r].status = "simulated"]
      BY <1>2, <2>1 DEF AskSimulatorWithdrawal
    <2> QED BY <1>0, <2>2, <2>3, StatusType DEF Changes, Statuses
  <1>3. ASSUME NEW j \in Jobs, Complete(j)
        PROVE  \E r \in Requests : Changes(r, "pending", "completed")
    <2>1. Asking(j) BY <1>3 DEF Complete, At, Asking
    <2>2. PICK r \in Requests : r = job[j].ref /\ request[r].status = "pending"
      BY <2>1 DEF IInv, JobOK
    <2>3. request' = [request EXCEPT ![r].status = "completed"] BY <1>3, <2>2 DEF Complete
    <2> QED BY <1>0, <2>2, <2>3, StatusType DEF Changes, Statuses
  <1>4. ASSUME NEW j \in Jobs, Refund(j)
        PROVE  \E r \in Requests : Changes(r, "pending", "failed")
    <2>1. Asking(j) BY <1>4 DEF Refund, Asking
    <2>2. PICK r \in Requests : r = job[j].ref /\ request[r].status = "pending"
      BY <2>1 DEF IInv, JobOK
    <2>3. request' = [request EXCEPT ![r].status = "failed"] BY <1>4, <2>2 DEF Refund
    <2> QED BY <1>0, <2>2, <2>3, StatusType DEF Changes, Statuses
  <1>5. CASE PlaceOrder \/ ReleaseOrder \/ FillOrder \/ UpdateBankAccount \/ Restart
    BY <1>5 DEF PlaceOrder, ReleaseOrder, FillOrder, UpdateBankAccount, Restart, tables
  <1>6. CASE \E r \in Requests : BankDecides(r) BY <1>6 DEF BankDecides, tables
  <1>7. CASE \E t \in Transfers : BankReceives(t) \/ SimulatorDeposit(t)
    BY <1>7 DEF BankReceives, SimulatorDeposit, tables
  <1>8. CASE \E j \in Jobs : \/ \E a \in Amounts : AskWithdrawal(j, a)
                             \/ \E t \in Transfers : ReportDeposit(j, t)
                             \/ StartReconcile(j) \/ AdminReads(j) \/ WithdrawalThrows(j)
                             \/ RefundFails(j) \/ FetchFails(j)
    BY <1>8 DEF AskWithdrawal, ReportDeposit, StartReconcile, AdminReads, WithdrawalThrows,
                RefundFails, FetchFails, tables
  <1>9. CASE \E j \in Jobs : \/ BankAnswers(j) \/ Credit(j) \/ Fetch(j) \/ WriteBalance(j)
                             \/ SimulatorWithdraws(j) \/ AdminWrites(j)
    BY <1>9 DEF BankAnswers, Credit, Fetch, WriteBalance, SimulatorWithdraws, AdminWrites, tables
  <1>10. CASE UNCHANGED vars BY <1>10 DEF vars, tables
  <1> QED BY <1>1, <1>2, <1>3, <1>4, <1>5, <1>6, <1>7, <1>8, <1>9, <1>10 DEF Next, Goes

(***************************************************************************)
(* A withdrawal ends once: completed or refunded, whatever a late answer   *)
(* of the bank, an error in the second transaction or a restart does       *)
(* afterwards; the refund in the catch finds it pending.                   *)
(***************************************************************************)
THEOREM EndedForGoodHolds == Spec => EndedForGood
  <1>1. ASSUME IInv, [Next]_vars, NEW r \in Requests, request[r].status \in {"completed", "failed"}
        PROVE  request'[r] = request[r]
    BY <1>1, RequestSteps DEF Changes
  <1>2. IInv /\ [Next]_vars =>
          [\A r \in Requests : request[r].status \in {"completed", "failed"} =>
             request'[r] = request[r]]_vars
    BY <1>1
  <1> QED BY <1>2, Invariant, PTL DEF Spec, EndedForGood
=============================================================================
