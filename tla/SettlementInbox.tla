--------------------------- MODULE SettlementInbox ---------------------------
(***************************************************************************)
(* The broker's end of settlement: services/settlement-service.ts and the  *)
(* settlement webhook of routes/bei-webhooks.ts, for one broker account.   *)
(*                                                                         *)
(* A call of the webhook works through its details one after another, each *)
(* in a transaction of its own that takes no lock but those its writes     *)
(* take.  Three steps of such a transaction can be told apart from         *)
(* outside: the look at the inbox row, the write of that row (which locks  *)
(* it) with the read of the cash row, and the write of the cash row with   *)
(* the commit.  The position is read after the cash row is written: one    *)
(* step with the commit, since fills and settlements, which are all that   *)
(* moves shares here, take the cash row too.  What moves them without it   *)
(* (orders to sell, corporate actions) is in CorporateActions.             *)
(*                                                                         *)
(* Trade number t moves one share at price t; fees are left out, they are  *)
(* the same in both directions of an amount.                               *)
(***************************************************************************)
EXTENDS Integers, FiniteSets, Functions

CONSTANTS Trades,  \* trade numbers: the exchange's sequence numbers
          Callers  \* webhook calls that can be running at a time

Details == [trade : Trades, side : {"buy", "sell"}]

VARIABLES booked,      \* the details whose order is known and whose fill is in trade_fills
          inbox,       \* the settlement_inbox table: none, pending or processed
          events,      \* the settlement_events table
          cash,        \* cash_balances: available and pending, relative to the start
          shares,      \* securities_positions: available and pending, likewise
          call,        \* the running webhook calls
          overwritten  \* history: a cash row was written over a change it had not seen

account == <<cash, shares>>
inboxVars == <<booked, inbox, events, cash, shares, call, overwritten>>

Balance == [available : Int, pending : Int]
Zero == [available |-> 0, pending |-> 0]

\* The details of a call are the buy and the sell side of each trade in turn.
Earlier(d, e) == \/ d.trade < e.trade
                 \/ d.trade = e.trade /\ d.side = "buy" /\ e.side = "sell"

NextOf(todo) == {d \in todo : \A e \in todo \ {d} : Earlier(d, e)}

Call(stage, todo, answer) ==
    [at |-> stage, todo |-> todo, seen |-> FALSE, read |-> Zero, answer |-> answer]
NoCall == Call("idle", {}, "ok")

InboxInit == /\ booked = {}
             /\ inbox = [d \in Details |-> "none"]
             /\ events = {}
             /\ cash = Zero /\ shares = Zero
             /\ call = [c \in Callers |-> NoCall]
             /\ overwritten = FALSE
-----------------------------------------------------------------------------
(***************************************************************************)
(* handleWebhookUpdate, as far as settlement is concerned: the fill is     *)
(* booked by increments, to pending cash on both sides and to pending      *)
(* shares of a buy.  What waits in the inbox for it is taken up at once    *)
(* (processPendingSettlementsForOrder), but to no effect: the payload is   *)
(* read back from a jsonb column, which keeps the keys of an object in an  *)
(* order of its own; JSON.stringify follows that order, so the hash is not *)
(* the stored one and processSettlement refuses the payload.               *)
(***************************************************************************)
BookFill(d) ==
    /\ d \notin booked
    /\ booked' = booked \cup {d}
    /\ cash' = [cash EXCEPT !.pending = @ + d.trade]
    /\ shares' = IF d.side = "buy" THEN [shares EXCEPT !.pending = @ + 1] ELSE shares
    /\ UNCHANGED <<inbox, events, call, overwritten>>
-----------------------------------------------------------------------------
Receive(c, details) ==
    /\ call[c].at = "idle"
    /\ call' = [call EXCEPT ![c] = Call("look", details, "ok")]
    /\ UNCHANGED <<booked, inbox, events, cash, shares, overwritten>>

Done(c) == call[c].at = "look" /\ call[c].todo = {}

\* The details still to come after d, with what d did to the answer.
Passed(c, d, answer) ==
    [call EXCEPT ![c] = Call("look", call[c].todo \ {d},
                             IF answer = "ok" THEN call[c].answer ELSE answer)]

\* An exception ends the loop over the details.
Failed(c) == [call EXCEPT ![c] = Call("look", {}, "error")]

Look(c) ==
    /\ call[c].at = "look"
    /\ \E d \in NextOf(call[c].todo) :
         call' = IF inbox[d] = "processed"
                   THEN Passed(c, d, "ok")
                   ELSE [call EXCEPT ![c].at = "take", ![c].seen = inbox[d] # "none"]
    /\ UNCHANGED <<booked, inbox, events, cash, shares, overwritten>>

\* Another transaction has written the inbox row of d and not yet committed.
Locked(c, d) ==
    \E other \in Callers \ {c} : call[other].at = "write" /\ d \in NextOf(call[other].todo)

\* The row that was missing is there: the insert violates its unique index.
Conflict(c, d) == ~call[c].seen /\ inbox[d] # "none"

\* deferSettlement: order_not_found or waiting_for_fill_accounting.
Defers(c, d) ==
    /\ d \notin booked
    /\ inbox' = [inbox EXCEPT ![d] = "pending"]
    /\ call' = Passed(c, d, "deferred")

\* settlement_events has the key: nothing is posted again.
Repeats(c, d) ==
    /\ d \in booked /\ d \in events
    /\ inbox' = [inbox EXCEPT ![d] = "processed"]
    /\ call' = Passed(c, d, "ok")

\* Fault: the event is written whether or not its key is there.
ProceedsAgain(c, d) ==
    /\ d \in booked
    /\ call' = [call EXCEPT ![c].at = "write", ![c].read = cash]
    /\ UNCHANGED inbox

Proceeds(c, d) ==
    /\ d \in booked /\ d \notin events
    /\ call' = [call EXCEPT ![c].at = "write", ![c].read = cash]
    /\ UNCHANGED inbox

Take(c) ==
    /\ call[c].at = "take"
    /\ \E d \in NextOf(call[c].todo) :
         /\ ~Locked(c, d)
         /\ \/ Conflict(c, d) /\ call' = Failed(c) /\ UNCHANGED inbox
            \/ ~Conflict(c, d) /\ (Defers(c, d) \/ Repeats(c, d) \/ Proceeds(c, d))
    /\ UNCHANGED <<booked, events, cash, shares, overwritten>>

AtLeast0(n) == IF n < 0 THEN 0 ELSE n

\* The new cash row is computed from the one that was read.
Posted(d, read) ==
    [available |-> IF d.side = "sell" THEN read.available + d.trade ELSE read.available,
     pending   |-> AtLeast0(read.pending - d.trade)]

Received(d) ==
    IF d.side = "buy"
      THEN [available |-> shares.available + 1, pending |-> AtLeast0(shares.pending - 1)]
      ELSE shares

Commit(c) ==
    /\ call[c].at = "write"
    /\ \E d \in NextOf(call[c].todo) :
         /\ cash' = Posted(d, call[c].read)
         /\ shares' = Received(d)
         /\ events' = events \cup {d}
         /\ inbox' = [inbox EXCEPT ![d] = "processed"]
         /\ call' = Passed(c, d, "ok")
    /\ overwritten' = (overwritten \/ cash # call[c].read)
    /\ UNCHANGED booked

\* A transaction is rolled back, or SEKURITAS goes away.
Abort(c) ==
    /\ call[c].at \in {"take", "write"}
    /\ call' = Failed(c)
    /\ UNCHANGED <<booked, inbox, events, cash, shares, overwritten>>

\* The answer reaches the caller: 200, 202 or 500.
Answered(c) ==
    /\ Done(c)
    /\ call' = [call EXCEPT ![c] = NoCall]
    /\ UNCHANGED <<booked, inbox, events, cash, shares, overwritten>>
-----------------------------------------------------------------------------
CallRecords == [at : {"idle", "look", "take", "write"}, todo : SUBSET Details,
                seen : BOOLEAN, read : Balance, answer : {"ok", "deferred", "error"}]

InboxTypeOK ==
    /\ booked \subseteq Details
    /\ inbox \in [Details -> {"none", "pending", "processed"}]
    /\ events \subseteq Details
    /\ cash \in Balance /\ shares \in Balance
    /\ call \in [Callers -> CallRecords]
    /\ overwritten \in BOOLEAN

Total(S) == SumFunctionOnSet([d \in Details |-> d.trade], S)
Buys(S) == {d \in S : d.side = "buy"}

(***************************************************************************)
(* Every detail that was settled was paid out exactly once: the proceeds   *)
(* of the settled sales are available, what is booked and not settled is   *)
(* pending, and so for the shares of the buys.  For cash this holds as     *)
(* long as no settlement has written its cash row over a change that was   *)
(* made after it had read the row (settlement-service.ts:153 reads without *)
(* a lock what :164 and :205 write back).  Fills and settlements cannot    *)
(* write over each other's shares; see CorporateActions for what can.      *)
(***************************************************************************)
PaidOnce ==
    /\ shares = [available |-> Cardinality(Buys(events)),
                 pending |-> Cardinality(Buys(booked \ events))]
    /\ ~overwritten =>
         cash = [available |-> Total(events \ Buys(events)), pending |-> Total(booked \ events)]
=============================================================================
