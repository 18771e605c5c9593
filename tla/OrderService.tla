---------------------------- MODULE OrderService -----------------------------
(***************************************************************************)
(* The order service of MATS around the matching engine, for one symbol    *)
(* and one price.  The engine works under a lock and hands out copies of   *)
(* the orders it has changed; the request that asked writes them to        *)
(* mats_orders, saves the trades and answers, with no lock held.  After a  *)
(* restart the rows are all there is of the book.                          *)
(***************************************************************************)
EXTENDS Sequences, Integers, FiniteSets, SequencesExt, FiniteSetsExt

CONSTANTS
    Requests,     \* requests to place an order; an order is named by its request
    Key,          \* the idempotency key of a request
    Side, Qty,    \* what a request asks for
    Cancels,      \* requests to cancel
    Target,       \* the order a request to cancel is about
    Daemon,       \* the session daemon
    Segments,     \* the sessions of a day
    MaxFaults     \* bound: requests that break off on an error, and restarts of MATS

Workers == Requests \cup Cancels \cup {Daemon}

None == "none"
Failed == "failed"

ASSUME ServiceAssumption ==
    /\ Side \in [Requests -> {"buy", "sell"}] /\ Qty \in [Requests -> Nat \ {0}]
    /\ Key \in [Requests -> Requests] /\ Target \in [Cancels -> Requests]
    /\ Segments \in Seq({"auction", "continuous", "frozen", "closed"}) /\ Segments # <<>>
    /\ MaxFaults \in Nat
    /\ IsFiniteSet(Requests) /\ IsFiniteSet(Cancels)
    /\ Requests \cap (Cancels \cup {None, Failed}) = {} /\ Daemon \notin (Requests \cup Cancels)

VARIABLES
    engine,    \* the orders the engine knows
    rows,      \* mats_orders
    tape,      \* mats_trades: the shares of an order in them
    memo,      \* answers kept in memory, by key
    segment, swept,        \* the daemon: the session, and whether it has swept the book in it
    hand,      \* what a worker has still to write
    answer,    \* the order a request was answered with
    faults,
    astray,    \* rows that no writer to come will set right (history)
    entered,   \* orders that have entered the engine (history)
    misled,    \* orders a restart took up other than they were (history)
    given      \* shares an order has traded in all (history)

vars == <<engine, rows, tape, memo, segment, swept, hand, answer,
          faults, astray, entered, misled, given>>

Absent == [status |-> "absent", rem |-> 0, filled |-> 0]
Active(order) == order.status \in {"open", "partially_filled"} /\ order.rem > 0
Free == [at |-> "idle", copies |-> {}, trades |-> {}, mine |-> Absent]

Init ==
    /\ engine = [r \in Requests |-> Absent] /\ rows = engine
    /\ tape = [r \in Requests |-> 0] /\ memo = [k \in Requests |-> None]
    /\ segment = 1 /\ swept = FALSE
    /\ hand = [w \in Workers |-> Free]
    /\ answer = [w \in Workers |-> None]
    /\ faults = 0
    /\ astray = {} /\ entered = {} /\ misled = {}
    /\ given = [r \in Requests |-> 0]

Session == Segments[segment]
At(w, at) == hand[w].at = at
Goto(w, at) == hand' = [hand EXCEPT ![w].at = at]
Ends(w, result) == hand' = [hand EXCEPT ![w] = Free] /\ answer' = [answer EXCEPT ![w] = result]
Slip == faults < MaxFaults /\ faults' = faults + 1

engineVars == <<engine, entered, given>>
daemonVars == <<segment, swept>>
faultVars == <<faults, misled>>

(***************************************************************************)
(* Place: an answer in memory or a row with the key answers a retry.  Two  *)
(* requests can both find nothing; the unique key stops the second.        *)
(***************************************************************************)
Asks(w) == At(w, "idle") /\ (answer[w] = None \/ (w \in Cancels /\ answer[w] = Failed))

RowsOf(k) == {r \in Requests : rows[r].status # "absent" /\ Key[r] = k}

Look(r) ==
    /\ Asks(r)
    /\ \/ /\ memo[Key[r]] # None
          /\ Ends(r, memo[Key[r]]) /\ UNCHANGED memo
       \/ /\ memo[Key[r]] = None
          /\ \E o \in RowsOf(Key[r]) : Ends(r, o) /\ memo' = [memo EXCEPT ![Key[r]] = o]
       \/ /\ memo[Key[r]] = None /\ RowsOf(Key[r]) = {}
          /\ Goto(r, "submit") /\ UNCHANGED <<memo, answer>>
    /\ UNCHANGED <<engineVars, rows, tape, daemonVars, faultVars, astray>>

\* Fault: the table has no unique key.
MaySaveAny(r) == TRUE

\* SaveOrder: the key of another row refuses the row.
MaySave(r) == RowsOf(Key[r]) = {}

Saves(r, status, rem) ==
    /\ MaySave(r)
    /\ rows' = [rows EXCEPT ![r] = [status |-> status, rem |-> rem, filled |-> 0]]

\* The orders asked for are valid: the rules refuse one only while none may enter.
Submit(r) ==
    /\ At(r, "submit")
    /\ \/ Session \in {"auction", "continuous"} /\ Saves(r, "accepted", Qty[r])
          /\ Goto(r, "match") /\ UNCHANGED <<memo, answer>>
       \/ Session \in {"frozen", "closed"} /\ Saves(r, "rejected", 0)
          /\ Ends(r, r) /\ memo' = [memo EXCEPT ![Key[r]] = r]
       \/ ~MaySave(r) /\ Ends(r, Failed) /\ UNCHANGED <<rows, memo>>
    /\ UNCHANGED <<engineVars, tape, daemonVars, faultVars, astray>>

(***************************************************************************)
(* Matching, under the lock of the engine: two queues of orders trade      *)
(* where the stretches of shares they stand for overlap.  Which of the     *)
(* resting orders come first is left open (MatchingEngine says it).        *)
(***************************************************************************)
Resting(side) == {o \in Requests : Active(engine[o]) /\ Side[o] = side}

Ahead(queue, orders, i) ==
    SumFunctionOnSet([j \in 1..Len(queue) |-> orders[queue[j]].rem], 1..(i - 1))

\* Fault: the trade is as large as the sale, whatever the purchase still asks for.
OverlapWhole(buys, sells, orders, i, j) ==
    IF Ahead(buys, orders, i) < Ahead(sells, orders, j) + orders[sells[j]].rem
       /\ Ahead(sells, orders, j) < Ahead(buys, orders, i) + orders[buys[i]].rem
    THEN orders[sells[j]].rem ELSE 0

Overlap(buys, sells, orders, i, j) ==
    LET b == Ahead(buys, orders, i)
        s == Ahead(sells, orders, j)
    IN Min({b + orders[buys[i]].rem, s + orders[sells[j]].rem}) - Max({b, s})

Trades(buys, sells, orders) ==
    {[buy |-> buys[p[1]], sell |-> sells[p[2]], qty |-> Overlap(buys, sells, orders, p[1], p[2])] :
       p \in {q \in (1..Len(buys)) \X (1..Len(sells)) : Overlap(buys, sells, orders, q[1], q[2]) > 0}}

Shares(trades, o) ==
    SumFunctionOnSet([t \in trades |-> t.qty], {t \in trades : o \in {t.buy, t.sell}})

Traded(orders, trades) ==
    [o \in Requests |->
       LET n == Shares(trades, o) IN
       IF n = 0 THEN orders[o]
       ELSE [status |-> IF n = orders[o].rem THEN "filled" ELSE "partially_filled",
             rem    |-> orders[o].rem - n, filled |-> orders[o].filled + n]]

\* Fault: orders that have left the book are not handed out.
CopiesResting(orders, S) == {[order |-> o, is |-> orders[o]] : o \in {x \in S : Active(orders[x])}}

Copies(orders, S) == {[order |-> o, is |-> orders[o]] : o \in S}

\* The engine trades, and the worker takes the trades and copies of the
\* orders in them; its own it keeps at hand.
Trade(w, orders, trades) ==
    LET after == Traded(orders, trades)
    IN /\ engine' = after
       /\ given' = [o \in Requests |-> given[o] + Shares(trades, o)]
       /\ hand' = [hand EXCEPT ![w] =
                     [at     |-> "write", trades |-> trades,
                      copies |-> Copies(after, {o \in Requests \ {w} : Shares(trades, o) > 0}),
                      mine   |-> IF w \in Requests THEN after[w] ELSE Absent]]

\* The session is read again, and no longer for whether orders may enter; it
\* may change before the engine has the order.
Admit(r) ==
    /\ At(r, "match")
    /\ Goto(r, IF Session = "auction" THEN "collect" ELSE "trade")
    /\ UNCHANGED <<engineVars, rows, tape, memo, daemonVars, answer, faultVars, astray>>

Match(r) ==
    LET placed == [engine EXCEPT ![r] = [status |-> "open", rem |-> Qty[r], filled |-> 0]]
    IN /\ \/ At(r, "collect") /\ Trade(r, placed, {})
          \/ /\ At(r, "trade")
             /\ \E queue \in SetToSeqs(Resting(IF Side[r] = "buy" THEN "sell" ELSE "buy")) :
                  Trade(r, placed, IF Side[r] = "buy" THEN Trades(<<r>>, queue, placed)
                                   ELSE Trades(queue, <<r>>, placed))
       /\ entered' = entered \cup {r}
       /\ UNCHANGED <<rows, tape, memo, daemonVars, answer, faultVars, astray>>

(***************************************************************************)
(* Writing.  A row goes astray when a copy that is no longer right is      *)
(* written over one that is, and comes back with the next right one.       *)
(***************************************************************************)
Put(o, is) ==
    /\ rows' = [rows EXCEPT ![o] = is]
    /\ astray' = IF is = engine[o] THEN astray \ {o}
                 ELSE IF rows[o] = engine[o] THEN astray \cup {o} ELSE astray

WriteCopy(w) ==
    /\ At(w, "write")
    /\ \E copy \in hand[w].copies :
         /\ Put(copy.order, copy.is)
         /\ hand' = [hand EXCEPT ![w].copies = @ \ {copy}]
    /\ UNCHANGED <<engineVars, tape, memo, daemonVars, answer, faultVars>>

\* Fault: a trade is saved again.
SaveTradeAgain(w) ==
    /\ At(w, "write") /\ hand[w].copies = {}
    /\ \E t \in hand[w].trades : tape' = [o \in Requests |-> tape[o] + Shares({t}, o)]
    /\ UNCHANGED <<engineVars, rows, memo, daemonVars, hand, answer, faultVars, astray>>

SaveTrade(w) ==
    /\ At(w, "write") /\ hand[w].copies = {}
    /\ \E t \in hand[w].trades :
         /\ tape' = [o \in Requests |-> tape[o] + Shares({t}, o)]
         /\ hand' = [hand EXCEPT ![w].trades = @ \ {t}]
    /\ UNCHANGED <<engineVars, rows, memo, daemonVars, answer, faultVars, astray>>

\* The order of the request itself is no copy: it is read while others may be
\* changing it, in the order of the statement's arguments, the first fields
\* before the change and the rest after (as loads are ordered on amd64).
Torn(old, new) ==
    {old, new, [new EXCEPT !.rem = old.rem], [new EXCEPT !.rem = old.rem, !.filled = old.filled]}

WriteOwn(r) ==
    /\ At(r, "write") /\ hand[r].copies = {} /\ hand[r].trades = {}
    /\ \E is \in Torn(hand[r].mine, engine[r]) : Put(r, is)
    /\ Ends(r, r) /\ memo' = [memo EXCEPT ![Key[r]] = r]
    /\ UNCHANGED <<engineVars, tape, daemonVars, faultVars>>

(***************************************************************************)
(* Cancel.  While cancelling is frozen the order is marked locked, from a  *)
(* copy of it.                                                             *)
(***************************************************************************)
TakeCopy(c, is) ==
    hand' = [hand EXCEPT ![c] = [at |-> "write", copies |-> {[order |-> Target[c], is |-> is]},
                                 trades |-> {}, mine |-> Absent]]

Cancel(c) ==
    LET o == Target[c]
        cancelled == [engine[o] EXCEPT !.status = "cancelled", !.rem = 0]
    IN /\ Asks(c) /\ Session # "frozen"
       /\ \/ /\ Active(engine[o])
             /\ engine' = [engine EXCEPT ![o] = cancelled]
             /\ TakeCopy(c, cancelled)
             /\ UNCHANGED answer
          \/ /\ ~Active(engine[o])
             /\ Ends(c, Failed)
             /\ UNCHANGED engine
       /\ UNCHANGED <<rows, tape, memo, daemonVars, entered, given, faultVars, astray>>

Lock(c) ==
    LET o == Target[c]
    IN /\ Asks(c) /\ Session = "frozen"
       /\ IF engine[o] = Absent THEN Goto(c, "write")
          ELSE TakeCopy(c, [engine[o] EXCEPT !.status = "locked"])
       /\ UNCHANGED <<engineVars, rows, tape, memo, daemonVars, answer, faultVars, astray>>

CancelAnswer(c) ==
    /\ At(c, "write") /\ hand[c].copies = {}
    /\ Ends(c, Target[c])
    /\ UNCHANGED <<engineVars, rows, tape, memo, daemonVars, faultVars, astray>>

(***************************************************************************)
(* The daemon: it uncrosses the book before an auction ends, and expires   *)
(* what rests after it has closed the session.                             *)
(***************************************************************************)
Uncross ==
    /\ At(Daemon, "idle") /\ Session = "auction" /\ ~swept
    /\ \E buys \in SetToSeqs(Resting("buy")), sells \in SetToSeqs(Resting("sell")) :
         Trade(Daemon, engine, Trades(buys, sells, engine))
    /\ swept' = TRUE
    /\ UNCHANGED <<rows, tape, memo, segment, answer, faultVars, astray, entered>>

Expire ==
    LET open == {o \in Requests : Active(engine[o])}
        after == [o \in Requests |-> IF o \in open THEN [engine[o] EXCEPT !.status = "expired", !.rem = 0]
                                     ELSE engine[o]]
    IN /\ At(Daemon, "idle") /\ Session = "closed" /\ ~swept
       /\ engine' = after
       /\ hand' = [hand EXCEPT ![Daemon] = [at |-> "write", copies |-> Copies(after, open),
                                            trades |-> {}, mine |-> Absent]]
       /\ swept' = TRUE
       /\ UNCHANGED <<rows, tape, memo, segment, answer, faultVars, astray, entered, given>>

Swept ==
    /\ At(Daemon, "write") /\ hand[Daemon].copies = {} /\ hand[Daemon].trades = {}
    /\ hand' = [hand EXCEPT ![Daemon] = Free]
    /\ UNCHANGED <<engineVars, rows, tape, memo, daemonVars, answer, faultVars, astray>>

Advance ==
    /\ At(Daemon, "idle") /\ segment < Len(Segments)
    /\ Session = "auction" => swept
    /\ segment' = segment + 1 /\ swept' = FALSE
    /\ UNCHANGED <<engineVars, rows, tape, memo, hand, answer, faultVars, astray>>

(***************************************************************************)
(* Faults.  A write fails, or the client is gone and its context with it:  *)
(* the worker writes nothing more.                                         *)
(***************************************************************************)
Unwritten(w) == {copy.order : copy \in hand[w].copies} \cup (IF w \in Requests /\ At(w, "write") THEN {w} ELSE {})

BreaksOff(w) ==
    /\ ~At(w, "idle") /\ Slip
    /\ hand' = [hand EXCEPT ![w] = Free]
    /\ answer' = [answer EXCEPT ![w] = IF w = Daemon THEN None ELSE Failed]
    /\ astray' = astray \cup Unwritten(w)
    /\ UNCHANGED <<engineVars, rows, tape, memo, daemonVars, misled>>

\* Recover: the rows of open orders are the book; what was in memory is gone.
Recovered(o) == IF Active(rows[o]) THEN rows[o] ELSE Absent

Restart ==
    /\ Slip
    /\ engine' = [o \in Requests |-> Recovered(o)]
    /\ misled' = misled \cup {o \in Requests : Active(rows[o]) /\ rows[o] # engine[o]}
    /\ memo' = [k \in Requests |-> None]
    /\ hand' = [w \in Workers |-> Free]
    /\ answer' = [w \in Workers |-> IF At(w, "idle") \/ w = Daemon THEN answer[w] ELSE Failed]
    /\ astray' = {}
    /\ segment' = 1 /\ swept' = FALSE
    /\ UNCHANGED <<rows, tape, entered, given>>

Next ==
    \/ \E w \in Workers : WriteCopy(w) \/ SaveTrade(w) \/ BreaksOff(w)
    \/ \E r \in Requests : Look(r) \/ Submit(r) \/ Admit(r) \/ Match(r) \/ WriteOwn(r)
    \/ \E c \in Cancels : Cancel(c) \/ Lock(c) \/ CancelAnswer(c)
    \/ Uncross \/ Expire \/ Swept \/ Advance
    \/ Restart

Spec == Init /\ [][Next]_vars
-----------------------------------------------------------------------------
Statuses == {"absent", "accepted", "rejected", "open", "partially_filled", "filled",
             "cancelled", "expired", "locked"}
Records == [status : Statuses, rem : Nat, filled : Nat]
Stages == {"idle", "submit", "match", "collect", "trade", "write"}
Hands == [at : Stages,
          copies : SUBSET [order : Requests, is : Records],
          trades : SUBSET [buy : Requests, sell : Requests, qty : Nat \ {0}], mine : Records]

\* Types (checked as a part of TapeFollowsEngine).
TypeOK ==
    /\ engine \in [Requests -> Records] /\ rows \in [Requests -> Records]
    /\ tape \in [Requests -> Nat] /\ given \in [Requests -> Nat]
    /\ memo \in [Requests -> Requests \cup {None}]
    /\ segment \in DOMAIN Segments /\ swept \in BOOLEAN
    /\ \A w \in Workers : /\ DOMAIN hand[w] = {"at", "copies", "trades", "mine"}
                          /\ hand[w].at \in Stages
                          /\ \A copy \in hand[w].copies : copy.order \in Requests /\ copy.is \in Records
                          /\ hand[w].mine \in Records
    /\ answer \in [Workers -> Requests \cup {None, Failed}]
    /\ faults \in 0..MaxFaults
    /\ UNION {astray, entered, misled} \subseteq Requests

AtRest == \A w \in Workers : At(w, "idle")

(***************************************************************************)
(* However often a request is sent, at once or after a restart, one order  *)
(* with its key enters the engine and every answer names one order.        *)
(***************************************************************************)
OneOrderPerKey ==
    /\ \A r, s \in entered : Key[r] = Key[s] => r = s
    /\ \A r, s \in Requests : Key[r] = Key[s] /\ {answer[r], answer[s]} \subseteq Requests
                               => answer[r] = answer[s]

(***************************************************************************)
(* With no request under way the rows are the book the next start takes    *)
(* up, but for rows a late copy or a failed write has left astray.         *)
(***************************************************************************)
RowsFollowBook ==
    AtRest => \A o \in Requests \ astray : engine[o] # Absent => rows[o] = engine[o]

(***************************************************************************)
(* The trades that are saved are the trades of the engine: none is saved   *)
(* twice, and none is missing unless a request broke off.  Types are part  *)
(* of it.                                                                  *)
(***************************************************************************)
TapeFollowsEngine ==
    /\ TypeOK
    /\ \A o \in Requests : /\ tape[o] <= given[o]
                           /\ AtRest /\ faults = 0 => tape[o] = given[o]

\* An order gets more than it asked for only when a restart took up a row
\* that was not what the order was.
OverfilledOnlyIfMisled == \A o \in Requests \ misled : given[o] <= Qty[o]

(***************************************************************************)
(* The book can be rebuilt from what is stored (MATS_PRD, replay and       *)
(* recovery): once every request has run to its end, the orders a start    *)
(* would take up are those that rest.  Two requests that have changed one  *)
(* order write its row in either order, and the older content may be the   *)
(* one that stays.                                                         *)
(***************************************************************************)
BookCanBeRebuilt ==
    AtRest => \A o \in Requests : Recovered(o) = IF Active(engine[o]) THEN engine[o] ELSE Absent
=============================================================================
