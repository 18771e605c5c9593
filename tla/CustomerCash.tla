---------------------------- MODULE CustomerCash ----------------------------
(***************************************************************************)
(* One customer's cash_balances row and everything that moves it apart     *)
(* from trading: withdrawals to the bank, deposits the bank reports, the   *)
(* reconciliation with the balance at the bank (RDN mode), deposits,       *)
(* withdrawals and corrections by hand (simulator mode).  RDN mode outside *)
(* production mixes the two: the bank reports and is asked for the balance *)
(* (rdn-webhooks.ts:19, reconciliation-service.ts:7), while the customer   *)
(* deposits and withdraws as in simulator mode (funds.ts:17).  Of an order *)
(* only its reservation is here, which shares the row.                     *)
(*                                                                         *)
(* A job is a request or an interval's run.  Between two of its steps, the *)
(* statements or transactions on the row, other jobs go on.  The bank is   *)
(* external: it takes or refuses a debit once per request id, and reports  *)
(* a transfer until it is answered.                                        *)
(***************************************************************************)
EXTENDS Integers, FiniteSets, FiniteSetsExt, Functions

CONSTANTS Jobs,        \* what can be running at a time
          Requests,    \* withdrawals (bound; in simulator mode too)
          Transfers,   \* deposits of 1 (bound; in simulator mode too)
          Amounts,     \* amounts of withdrawals
          Opening,     \* cash at the start
          MaxFailures  \* bound: calls and transactions that fail, restarts

ASSUME CashAssumption == /\ Requests \subseteq Nat \ {0} /\ Amounts \subseteq Nat \ {0}
                         /\ Opening \in Nat /\ MaxFailures \in Nat
                         /\ IsFiniteSet(Jobs) /\ IsFiniteSet(Requests) /\ IsFiniteSet(Transfers)

VARIABLES mode,      \* FINANCE_MODE, rdn or simulator, and rdn outside production: mixed
          cash,      \* the row of cash_balances
          posted,    \* sum of the account's ledger_movements
          credited,  \* per transfer, how many ledger_movements refer to it
          request,   \* the withdrawal_requests table
          dest,      \* status of the primary withdrawal_bank_accounts row
          order,     \* the order's reservation
          job,
          bank, decided, received,  \* at the bank: balance, its decisions, transfers it took in
          slips,     \* history: the ways in which the books have come apart
          failures

bankVars == <<bank, decided, received>>
tables == <<credited, request, dest, order>>
vars == <<mode, cash, posted, tables, job, bankVars, slips, failures>>

Job(kind, stage, amount, ref, read, kept) ==
    [kind |-> kind, at |-> stage, amount |-> amount, ref |-> ref, read |-> read, kept |-> kept]
Idle == Job("none", "idle", 0, 0, 0, 0)

Modes == {"rdn", "mixed", "simulator"}

Init == /\ mode \in Modes
        /\ cash = [available |-> Opening, reserved |-> 0, pending |-> 0]
        /\ posted = 0
        /\ credited = [t \in Transfers |-> 0]
        /\ request = [r \in Requests |-> [status |-> "unused", amount |-> 0]]
        /\ dest = "verified" /\ order = "none"
        /\ job = [j \in Jobs |-> Idle]
        /\ bank = Opening /\ decided = [r \in Requests |-> "open"] /\ received = {}
        /\ slips = {} /\ failures = 0

Rdn == mode = "rdn"
Banked == mode # "simulator"
Simulator == mode # "rdn"
At(j, kind, stage) == job[j].kind = kind /\ job[j].at = stage
Begins(j, new) == job[j] = Idle /\ job' = [job EXCEPT ![j] = new]
Goto(j, stage) == job' = [job EXCEPT ![j].at = stage]
Ends(j) == job' = [job EXCEPT ![j] = Idle]
Fails == failures < MaxFailures /\ failures' = failures + 1
Slip(kind, when) == slips' = IF when THEN slips \cup {kind} ELSE slips

\* cash_balances: move the amounts, in one statement or under FOR UPDATE.
Move(available, reserved, pending) ==
    cash' = [available |-> cash.available + available, reserved |-> cash.reserved + reserved,
             pending |-> cash.pending + pending]
-----------------------------------------------------------------------------
\* The order service: reserve, release, and the fill of the order's buy.
PlaceOrder == /\ order = "none" /\ cash.available >= 1
              /\ order' = "reserved" /\ Move(-1, 1, 0)
              /\ UNCHANGED <<mode, posted, credited, request, dest, job, bankVars, slips, failures>>

ReleaseOrder == /\ order = "reserved" /\ order' = "released" /\ Move(1, -1, 0)
                /\ UNCHANGED <<mode, posted, credited, request, dest, job, bankVars, slips, failures>>

FillOrder == /\ order = "reserved" /\ order' = "filled"
             /\ Move(0, -1, 1)
             /\ UNCHANGED <<mode, posted, credited, request, dest, job, bankVars, slips, failures>>
-----------------------------------------------------------------------------
Unused == {r \in Requests : request[r].status = "unused"}

\* requestWithdrawal: the destination account is looked at before anything is locked.
AskWithdrawal(j, amount) ==
    /\ Rdn /\ dest = "verified"
    /\ Cardinality({k \in Jobs : At(k, "withdraw", "reserve")}) < Cardinality(Unused)
    /\ Begins(j, Job("withdraw", "reserve", amount, 0, 0, 0))
    /\ UNCHANGED <<mode, cash, posted, tables, bankVars, slips, failures>>

ReserveWithdrawal(j) ==
    /\ At(j, "withdraw", "reserve")
    /\ IF cash.available < job[j].amount
         THEN Ends(j) /\ UNCHANGED <<cash, request>>
         ELSE /\ Move(-job[j].amount, job[j].amount, 0)
              /\ request' = [request EXCEPT ![Min(Unused)] = [status |-> "pending",
                                                             amount |-> job[j].amount]]
              /\ job' = [job EXCEPT ![j] = Job("withdraw", "call", job[j].amount, Min(Unused), 0, 0)]
    /\ UNCHANGED <<mode, posted, credited, dest, order, bankVars, slips, failures>>

\* The bank (external) debits the account or refuses, whoever still listens.
BankDecides(r) ==
    /\ request[r].status \notin {"unused", "simulated"} /\ decided[r] = "open"
    /\ \/ /\ bank >= request[r].amount
          /\ bank' = bank - request[r].amount
          /\ decided' = [decided EXCEPT ![r] = "debited"]
          /\ Slip("refunded", request[r].status = "failed")
       \/ /\ \E why \in {"refused", "bad account"} : decided' = [decided EXCEPT ![r] = why]
          /\ UNCHANGED <<bank, slips>>
    /\ UNCHANGED <<mode, cash, posted, tables, job, received, failures>>

BankAnswers(j) ==
    /\ At(j, "withdraw", "call") /\ decided[job[j].ref] # "open"
    /\ Goto(j, IF decided[job[j].ref] = "debited" THEN "complete" ELSE "refused")
    /\ UNCHANGED <<mode, cash, posted, tables, bankVars, slips, failures>>

\* No answer, one that cannot be read, or the second transaction fails: the catch.
WithdrawalThrows(j) ==
    /\ job[j].kind = "withdraw" /\ job[j].at \in {"call", "complete", "refused"}
    /\ Fails /\ Goto(j, "caught")
    /\ UNCHANGED <<mode, cash, posted, tables, bankVars, slips>>

\* Fault: the money goes back to the customer.
CompleteReturned(j) ==
    /\ At(j, "withdraw", "complete")
    /\ Move(job[j].amount, -job[j].amount, 0)
    /\ request' = [request EXCEPT ![job[j].ref].status = "completed"]
    /\ Ends(j)
    /\ UNCHANGED <<mode, posted, credited, dest, order, bankVars, slips, failures>>

Complete(j) ==
    /\ At(j, "withdraw", "complete")
    /\ Move(0, -job[j].amount, 0)
    /\ request' = [request EXCEPT ![job[j].ref].status = "completed"]
    /\ Ends(j)
    /\ UNCHANGED <<mode, posted, credited, dest, order, bankVars, slips, failures>>

\* Fault: the error thrown after the refund is caught, and refunds again.
RefundTwice(j) ==
    /\ job[j].kind = "withdraw" /\ job[j].at \in {"refused", "caught"}
    /\ Move(job[j].amount, -job[j].amount, 0)
    /\ request' = [request EXCEPT ![job[j].ref].status = "failed"]
    /\ dest' = IF job[j].at = "refused" /\ decided[job[j].ref] = "bad account" THEN "rejected"
               ELSE dest
    /\ IF job[j].at = "refused" THEN Goto(j, "caught") ELSE Ends(j)
    /\ Slip("refunded", decided[job[j].ref] = "debited")
    /\ UNCHANGED <<mode, posted, credited, order, bankVars, failures>>

\* failWithdrawalAndRefund: after a refusal the bank account may be rejected.
Refund(j) ==
    /\ job[j].kind = "withdraw" /\ job[j].at \in {"refused", "caught"}
    /\ Move(job[j].amount, -job[j].amount, 0)
    /\ request' = [request EXCEPT ![job[j].ref].status = "failed"]
    /\ dest' = IF job[j].at = "refused" /\ decided[job[j].ref] = "bad account" THEN "rejected"
               ELSE dest
    /\ Ends(j)
    /\ Slip("refunded", decided[job[j].ref] = "debited")
    /\ UNCHANGED <<mode, posted, credited, order, bankVars, failures>>

\* The refund in the catch fails as well, in the outage already counted: the request
\* stays pending.
RefundFails(j) ==
    /\ At(j, "withdraw", "caught") /\ Ends(j)
    /\ UNCHANGED <<mode, cash, posted, tables, bankVars, slips, failures>>

\* PUT /portfolio/withdrawal-bank-account.
UpdateBankAccount ==
    /\ dest = "rejected" /\ dest' = "verified"
    /\ UNCHANGED <<mode, cash, posted, credited, request, order, job, bankVars, slips, failures>>
-----------------------------------------------------------------------------
\* A transfer arrives at the bank (external), which reports it until answered.
BankReceives(t) ==
    /\ Banked /\ t \notin received /\ credited[t] = 0
    /\ received' = received \cup {t} /\ bank' = bank + 1
    /\ UNCHANGED <<mode, cash, posted, tables, job, decided, slips, failures>>

\* POST /webhooks/rdn-deposit: a known transfer is answered and left alone.
ReportDeposit(j, t) ==
    /\ t \in received /\ credited[t] = 0
    /\ Begins(j, Job("deposit", "credit", 0, t, 0, 0))
    /\ UNCHANGED <<mode, cash, posted, tables, bankVars, slips, failures>>

Credit(j) ==
    /\ At(j, "deposit", "credit")
    /\ Move(1, 0, 0) /\ posted' = posted + 1
    /\ credited' = [credited EXCEPT ![job[j].ref] = @ + 1]
    /\ Slip("doubled", credited[job[j].ref] > 0)
    /\ Ends(j)
    /\ UNCHANGED <<mode, request, dest, order, bankVars, failures>>
-----------------------------------------------------------------------------
\* reconcileUserBalance, by the interval or POST /funds/sync-balance.
StartReconcile(j) ==
    /\ Banked
    /\ Begins(j, Job("reconcile", "fetch", 0, 0, cash.available, cash.reserved))
    /\ UNCHANGED <<mode, cash, posted, tables, bankVars, slips, failures>>

AtLeast0(n) == IF n < 0 THEN 0 ELSE n

\* Fault: only a balance that is too high is corrected.
TooHigh(j) == job[j].read + job[j].kept > bank

Differs(j) == job[j].read + job[j].kept # bank

\* The bank's balance is compared with the row as it was read.
Fetch(j) ==
    /\ At(j, "reconcile", "fetch")
    /\ IF Differs(j)
         THEN job' = [job EXCEPT ![j] = Job("reconcile", "write", AtLeast0(bank - job[j].kept), 0, 0, 0)]
         ELSE Ends(j)
    /\ UNCHANGED <<mode, cash, posted, tables, bankVars, slips, failures>>

WriteBalance(j) ==
    /\ At(j, "reconcile", "write")
    /\ cash' = [cash EXCEPT !.available = job[j].amount]
    /\ Slip("corrected", cash.available # job[j].amount)
    /\ Ends(j)
    /\ UNCHANGED <<mode, posted, tables, bankVars, failures>>

\* The bank does not answer: the run is over.
FetchFails(j) == /\ At(j, "reconcile", "fetch") /\ Fails /\ Ends(j)
                 /\ UNCHANGED <<mode, cash, posted, tables, bankVars, slips>>
-----------------------------------------------------------------------------
\* depositSimulatorFunds: one increment.
SimulatorDeposit(t) ==
    /\ Simulator /\ credited[t] = 0 /\ t \notin received
    /\ credited' = [credited EXCEPT ![t] = 1]
    /\ Move(1, 0, 0) /\ posted' = posted + 1
    /\ UNCHANGED <<mode, request, dest, order, job, bankVars, slips, failures>>

\* withdrawSimulatorFunds: a look, without a lock, and a decrement.
AskSimulatorWithdrawal(j, amount) ==
    /\ Simulator /\ cash.available >= amount /\ Unused # {}
    /\ Begins(j, Job("take", "take", amount, 0, cash.available, 0))
    /\ request' = [request EXCEPT ![Min(Unused)].status = "simulated"]
    /\ UNCHANGED <<mode, cash, posted, credited, dest, order, bankVars, slips, failures>>

\* Fault: the balance that was read is written back, less the amount.
SimulatorWithdrawsRead(j) ==
    /\ At(j, "take", "take")
    /\ cash' = [cash EXCEPT !.available = job[j].read - job[j].amount]
    /\ posted' = posted - job[j].amount
    /\ Ends(j)
    /\ UNCHANGED <<mode, tables, bankVars, slips, failures>>

SimulatorWithdraws(j) ==
    /\ At(j, "take", "take")
    /\ Move(-job[j].amount, 0, 0) /\ posted' = posted - job[j].amount
    /\ Ends(j)
    /\ UNCHANGED <<mode, tables, bankVars, slips, failures>>

\* POST /admin/deposit and /admin/users/balance read the row and write it back.
AdminReads(j) ==
    /\ mode = "simulator"
    /\ \/ \E t \in Transfers :  \* a deposit of 1
            /\ credited[t] = 0 /\ credited' = [credited EXCEPT ![t] = 1]
            /\ Begins(j, Job("admin", "write", cash.available + 1, 0, cash.available, 0))
       \/ /\ UNCHANGED credited  \* the balance is set
          /\ Begins(j, Job("admin", "write", Opening, 0, cash.available, 0))
    /\ UNCHANGED <<mode, cash, posted, request, dest, order, bankVars, slips, failures>>

AdminWrites(j) ==
    /\ At(j, "admin", "write")
    /\ cash' = [cash EXCEPT !.available = job[j].amount]
    /\ posted' = posted + job[j].amount - job[j].read
    /\ Slip("overwritten", cash.available # job[j].read)
    /\ Ends(j)
    /\ UNCHANGED <<mode, tables, bankVars, failures>>

\* SEKURITAS goes away with everything it was doing.
Restart == /\ Fails /\ job' = [j \in Jobs |-> Idle]
           /\ UNCHANGED <<mode, cash, posted, tables, bankVars, slips>>
-----------------------------------------------------------------------------
Goes(j) == \/ ReserveWithdrawal(j) \/ BankAnswers(j) \/ Complete(j) \/ Refund(j)
           \/ Credit(j) \/ Fetch(j) \/ WriteBalance(j)
           \/ SimulatorWithdraws(j) \/ AdminWrites(j)

Next ==
    \/ PlaceOrder \/ ReleaseOrder \/ FillOrder \/ UpdateBankAccount \/ Restart
    \/ \E r \in Requests : BankDecides(r)
    \/ \E t \in Transfers : BankReceives(t) \/ SimulatorDeposit(t)
    \/ \E j \in Jobs :
         \/ \E a \in Amounts : AskWithdrawal(j, a) \/ AskSimulatorWithdrawal(j, a)
         \/ \E t \in Transfers : ReportDeposit(j, t)
         \/ StartReconcile(j) \/ AdminReads(j)
         \/ Goes(j) \/ WithdrawalThrows(j) \/ RefundFails(j) \/ FetchFails(j)

Spec == Init /\ [][Next]_vars

(***************************************************************************)
(* The interval starts a reconciliation again and again, jobs go on, and   *)
(* the bank decides on what it is asked.  That all jobs are taken is a     *)
(* bound of the model and starves no reconciliation: hence SF.             *)
(***************************************************************************)
FairSpec == /\ Spec
            /\ SF_vars(\E j \in Jobs : StartReconcile(j))
            /\ \A j \in Jobs : WF_vars(Goes(j))
            /\ WF_vars(\E r \in Requests : BankDecides(r))
-----------------------------------------------------------------------------
Kinds == {"none", "withdraw", "deposit", "reconcile", "take", "admin"}
Stages == {"idle", "reserve", "call", "complete", "refused", "caught", "credit", "fetch",
           "write", "take"}
SlipKinds == {"refunded", "doubled", "corrected", "overwritten"}
Decisions == {"open", "debited", "refused", "bad account"}
Statuses == {"unused", "pending", "completed", "failed", "simulated"}
CashRecords == [available : Int, reserved : Int, pending : Int]
JobRecords == [kind : Kinds, at : Stages, amount : Int, ref : Requests \cup Transfers \cup {0},
               read : Int, kept : Int]
RequestRecords == [status : Statuses, amount : Amounts \cup {0}]

\* Types (checked as a part of ReservationsBacked).
TypeOK ==
    /\ mode \in Modes
    /\ cash \in CashRecords
    /\ posted \in Int
    /\ credited \in [Transfers -> Nat]
    /\ request \in [Requests -> RequestRecords]
    /\ dest \in {"verified", "rejected"}
    /\ order \in {"none", "reserved", "released", "filled"}
    /\ job \in [Jobs -> JobRecords]
    /\ bank \in Int /\ received \subseteq Transfers
    /\ decided \in [Requests -> Decisions] /\ slips \subseteq SlipKinds
    /\ failures \in 0..MaxFailures

AmountOf == [r \in Requests |-> request[r].amount]
Total(S) == SumFunctionOnSet(AmountOf, S)
InStatus(s) == {r \in Requests : request[r].status = s}
InOrder == IF order = "reserved" THEN 1 ELSE 0
Books == cash.available + cash.reserved + cash.pending

(***************************************************************************)
(* What is reserved is reserved for something: the pending withdrawals and *)
(* the open order, through refunds, failures and restarts; and in RDN mode *)
(* nobody spends more than is available.  Types are part of it.            *)
(***************************************************************************)
ReservationsBacked ==
    /\ TypeOK
    /\ cash.reserved = Total(InStatus("pending")) + InOrder
    /\ Rdn => cash.available >= 0

(***************************************************************************)
(* The ledger and the completed withdrawals account for all of the cash,   *)
(* unless a reconciliation corrected the row (which enters nothing in the  *)
(* ledger) or an administrator wrote over a change (admin.ts:52, :118).    *)
(***************************************************************************)
LedgerExplainsCash ==
    slips \cap {"corrected", "overwritten"} = {} =>
      Books = Opening + posted - Total(InStatus("completed"))

(***************************************************************************)
(* SEKURITAS and the bank agree, but for deposits and withdrawals on their *)
(* way, unless one of three things has happened: a withdrawal was refunded *)
(* that the bank has debited, a deposit was credited twice, a              *)
(* reconciliation wrote a balance.                                         *)
(***************************************************************************)
BankMatchesBooks ==
    Rdn /\ slips = {} =>
      Books + Cardinality({t \in received : credited[t] = 0})
        = bank + Total({r \in InStatus("pending") : decided[r] = "debited"})

(***************************************************************************)
(* Whatever went wrong, the reconciliation in the end makes the available  *)
(* cash what the bank has less what is reserved.                           *)
(***************************************************************************)
EventuallyReconciled == <>[](Banked => cash.available = AtLeast0(bank - cash.reserved))
=============================================================================
