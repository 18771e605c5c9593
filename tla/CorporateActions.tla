--------------------------- MODULE CorporateActions ---------------------------
(***************************************************************************)
(* The corporate actions of one security.  BEI turns the positions of its  *)
(* custody ledger into entitlements, books them and sends them to          *)
(* SEKURITAS, which moves its customers' shares in one transaction per     *)
(* event.  An IPO allocation takes the same way.  A call of the admin's is *)
(* a sequence of statements: other calls, trading and settlement go on     *)
(* between any two, and a call that is cut off leaves what it has done.    *)
(*                                                                         *)
(* BEI keeps fractions (four decimals), SEKURITAS whole shares: quantities *)
(* at BEI are in quarters of a share, enough for two actions by halves.    *)
(***************************************************************************)
EXTENDS Integers, FiniteSets, Functions

CONSTANTS Accounts,      \* customers of SEKURITAS
          Treasury,      \* the custody account the IPO is issued to, unknown to SEKURITAS
          Actions,       \* which of split (3:2), reverse (1:2), dividend there are
          Held, Bought,  \* per account, shares owned and shares bought but not settled
          Subscriptions, \* shares each account subscribes to (0: none)
          Calls,         \* calls of the admin's running at a time
          MaxCalls, MaxFailures  \* bounds: calls, calls cut off

ASSUME CorporateActionsAssumption ==
    /\ Treasury \notin Accounts
    /\ Actions \subseteq {"split", "reverse", "dividend"}
    /\ {Held, Bought, Subscriptions} \subseteq [Accounts -> Nat]
    /\ MaxCalls \in Nat /\ MaxFailures \in Nat
    /\ IsFiniteSet(Accounts) /\ IsFiniteSet(Calls)

VARIABLES settled,    \* BEI: shares of an account from settled trades
          rows,       \* BEI: an action's row for an account (0: none)
          completed,  \* BEI: actions with status completed
          subscribed, \* BEI: accounts in ipo_subscriptions
          issued,     \* BEI: ledger rows of the IPO: shares and cash, per account
          minted, allocations,  \* BEI: is the IPO minted, ipo_allocations per account
          call,       \* the admin's calls
          shares,     \* SEKURITAS: securities_positions
          settling,   \* SEKURITAS: the settlement of what an account has bought
          applied,    \* SEKURITAS: keys in corporate_action_events
          credited,   \* SEKURITAS: ledger_movements per event and account: cash of
                      \* the dividend, shares of the others
          paid,       \* SEKURITAS: ledger_movements of cash for the IPO
          calls, failures,
          overwritten,  \* history: positions written over with an older total
          slips       \* history: how the books have come apart

bei == <<settled, rows, completed, subscribed, issued, minted, allocations>>
sekuritas == <<shares, settling, applied, credited, paid, overwritten>>
vars == <<bei, call, sekuritas, calls, failures, slips>>

Unit == 4
Custody == Accounts \cup {Treasury}
Events == Actions \cup {"ipo"}
Idle == [at |-> "idle", event |-> "ipo", rows |-> [c \in Custody |-> 0], left |-> {},
         account |-> Treasury, entry |-> 0, read |-> 0, writes |-> [c \in Accounts |-> -1]]

\* What a settlement knows of the position before it has read it.
Unread == [at |-> "due", available |-> 0, pending |-> 0]

Init == /\ settled = Held
        /\ rows = [a \in Actions |-> [c \in Custody |-> 0]]
        /\ completed = {} /\ subscribed = {} /\ minted = FALSE
        /\ issued = [c \in Custody |-> [shares |-> 0, cash |-> 0]]
        /\ allocations = [c \in Accounts |-> 0]
        /\ call = [k \in Calls |-> Idle]
        /\ shares = [c \in Accounts |-> [available |-> Held[c], reserved |-> 0, pending |-> Bought[c]]]
        /\ applied = {} /\ credited = [e \in Events |-> [c \in Accounts |-> 0]]
        /\ settling = [c \in Accounts |-> Unread] /\ paid = [c \in Accounts |-> 0]
        /\ calls = 0 /\ failures = 0 /\ slips = {} /\ overwritten = {}

Offered == SumFunctionOnSet(Subscriptions, Accounts)
Booked(as, c) == SumFunctionOnSet([a \in Actions |-> rows[a][c]], as \ {"dividend"})
\* positiveSecurityPositions: the sum of an account's rows of asset type security.
Position(c) == Unit * issued[c].shares + Booked(Actions, c)
               + (IF c = Treasury THEN 0 ELSE Unit * settled[c])

\* What an action books for a position: a dividend of 1 a share, half the shares more or less.
Entitlement(a, quantity) == CASE a = "dividend" -> quantity
                              [] a = "split" -> quantity \div 2
                              [] a = "reverse" -> -(quantity \div 2)

Whole(quantity) == IF quantity < 0 THEN -(-quantity \div Unit) ELSE quantity \div Unit
\* What SEKURITAS makes of an entitlement: cash as it is, whole shares.
Credit(e, quantity) == IF e = "dividend" THEN quantity ELSE Whole(quantity)

At(k, stage) == call[k].at = stage
Goto(k, stage) == call' = [call EXCEPT ![k].at = stage]
Ends(k) == call' = [call EXCEPT ![k] = Idle]
Begins(k, new) == /\ call[k] = Idle /\ calls < MaxCalls
                  /\ calls' = calls + 1 /\ call' = [call EXCEPT ![k] = new]
Slip(kind, when) == slips' = IF when THEN slips \cup {kind} ELSE slips
WritesOver(c, when) == overwritten' = IF when THEN overwritten \cup {c} ELSE overwritten
-----------------------------------------------------------------------------
\* A settlement at BEI books the bought shares.
BeiSettles(c) == /\ settled[c] = Held[c] /\ Bought[c] > 0
                 /\ settled' = [settled EXCEPT ![c] = @ + Bought[c]]
                 /\ UNCHANGED <<rows, completed, subscribed, issued, minted, allocations,
                                call, sekuritas, calls, failures, slips>>

Locked(c) == \E k \in Calls : call[k].writes[c] >= 0
\* Fault: the order does not ask for the shares it reserves.
MoveSharesUnchecked(c, from, to, quantity) ==
    /\ ~Locked(c)
    /\ shares' = [shares EXCEPT ![c][from] = @ - quantity, ![c][to] = @ + quantity]
    /\ UNCHANGED <<bei, call, settling, applied, credited, paid, overwritten, calls, failures, slips>>

\* One statement, under the condition that there are as many.
MoveShares(c, from, to, quantity) ==
    /\ shares[c][from] >= quantity /\ ~Locked(c)
    /\ shares' = [shares EXCEPT ![c][from] = @ - quantity, ![c][to] = @ + quantity]
    /\ UNCHANGED <<bei, call, settling, applied, credited, paid, overwritten, calls, failures, slips>>

\* A sell order of two shares, placed and cancelled.
Reserve(c) == MoveShares(c, "available", "reserved", 2)
Release(c) == MoveShares(c, "reserved", "available", 2)

\* processSettlement of a purchase, once BEI has settled it: the transaction reads
\* the position without locking it ...
SettlementReads(c) ==
    /\ settled[c] > Held[c] /\ settling[c].at = "due"
    /\ settling' = [settling EXCEPT ![c] = [at |-> "read", available |-> shares[c].available,
                                            pending |-> shares[c].pending]]
    /\ UNCHANGED <<bei, call, shares, applied, credited, paid, overwritten, calls, failures, slips>>

\* Fault: what has been bought stays pending.
SettlementKeepsPending(c) ==
    /\ settling[c].at = "read" /\ ~Locked(c)
    /\ settling' = [settling EXCEPT ![c] = [Unread EXCEPT !.at = "done"]]
    /\ shares' = [shares EXCEPT ![c].available = settling[c].available + Bought[c]]
    /\ WritesOver(c, shares[c].available # settling[c].available)
    /\ UNCHANGED <<bei, call, applied, credited, paid, calls, failures, slips>>

\* ... and writes totals of what it has read, once no other transaction holds the row.
SettlementWrites(c) ==
    LET rest == settling[c].pending - Bought[c]
    IN /\ settling[c].at = "read" /\ ~Locked(c)
       /\ settling' = [settling EXCEPT ![c] = [Unread EXCEPT !.at = "done"]]
       /\ shares' = [shares EXCEPT ![c].available = settling[c].available + Bought[c],
                                   ![c].pending = IF rest > 0 THEN rest ELSE 0]
       /\ WritesOver(c, shares[c].available # settling[c].available)
       /\ UNCHANGED <<bei, call, applied, credited, paid, calls, failures, slips>>

\* The transaction rolls back; BEI sends the settlement again.
SettlementFails(c) ==
    /\ settling[c].at = "read" /\ failures < MaxFailures
    /\ failures' = failures + 1 /\ settling' = [settling EXCEPT ![c] = Unread]
    /\ UNCHANGED <<bei, call, shares, applied, credited, paid, overwritten, calls, slips>>
-----------------------------------------------------------------------------
\* POST /corporate-actions/:id/process: an action that is completed is only sent again.
Process(k, a) == /\ Begins(k, [Idle EXCEPT !.event = a,
                                           !.at = IF a \in completed THEN "repeat" ELSE "positions"])
                 /\ UNCHANGED <<bei, sekuritas, failures, slips>>

\* Fault: a completed action is worked out again.
RepeatRecomputed(k) ==
    /\ At(k, "repeat")
    /\ call' = [call EXCEPT ![k].at = "send",
                    ![k].rows = [c \in Custody |-> IF Position(c) > 0
                                   THEN Entitlement(call[k].event, Position(c)) ELSE 0]]
    /\ UNCHANGED <<bei, sekuritas, calls, failures, slips>>

\* existingEntitlementsForAction.
Repeat(k) == /\ At(k, "repeat")
             /\ call' = [call EXCEPT ![k].at = "send", ![k].rows = rows[call[k].event]]
             /\ UNCHANGED <<bei, sekuritas, calls, failures, slips>>

ReadPositions(k) ==
    /\ At(k, "positions")
    /\ call' = [call EXCEPT ![k].at = "insert",
                    ![k].rows = [c \in Custody |-> IF Position(c) > 0
                                   THEN Entitlement(call[k].event, Position(c)) ELSE 0]]
    /\ UNCHANGED <<bei, sekuritas, calls, failures, slips>>

\* Fault: a row that is there is overwritten.
InsertRowsOver(k) ==
    /\ At(k, "insert")
    /\ rows' = [rows EXCEPT ![call[k].event] = [c \in Custody |->
                   IF call[k].rows[c] = 0 THEN @[c] ELSE call[k].rows[c]]]
    /\ Slip("recomputed", \E c \in Custody : rows[call[k].event][c] # 0)
    /\ Goto(k, "complete")
    /\ UNCHANGED <<settled, completed, subscribed, issued, minted, allocations, sekuritas, calls, failures>>

\* One insert of all rows; a row whose key (action, account) is there stays as it is.
\* Whoever comes second sends entitlements that need not be those of the ledger.
InsertRows(k) ==
    /\ At(k, "insert")
    /\ rows' = [rows EXCEPT ![call[k].event] = [c \in Custody |->
                   IF @[c] = 0 THEN call[k].rows[c] ELSE @[c]]]
    /\ Slip("recomputed", \E c \in Custody : rows[call[k].event][c] # 0)
    /\ Goto(k, "complete")
    /\ UNCHANGED <<settled, completed, subscribed, issued, minted, allocations, sekuritas, calls, failures>>

Complete(k) == /\ At(k, "complete")
               /\ completed' = completed \cup {call[k].event}
               /\ Goto(k, "send")
               /\ UNCHANGED <<settled, rows, subscribed, issued, minted, allocations,
                              sekuritas, calls, failures, slips>>
-----------------------------------------------------------------------------
Subscribe(c) == /\ Subscriptions[c] > 0 /\ subscribed' = subscribed \cup {c}
                /\ UNCHANGED <<settled, rows, completed, issued, minted, allocations,
                               call, sekuritas, calls, failures, slips>>

\* POST /ipo-events/:id/allocate: nothing asks whether it has been done.
Allocate(k) ==
    /\ Begins(k, [Idle EXCEPT !.at = "allocate", !.left = subscribed])
    /\ minted' = TRUE
    /\ issued' = IF minted THEN issued
                 ELSE [issued EXCEPT ![Treasury].shares = @ + Offered]
    /\ Slip("again", minted)
    /\ UNCHANGED <<settled, rows, completed, subscribed, allocations, sekuritas, failures>>

InsertAllocation(k, c) ==
    /\ At(k, "allocate") /\ c \in call[k].left
    /\ allocations' = [allocations EXCEPT ![c] = @ + 1]
    /\ call' = [call EXCEPT ![k].at = "entries", ![k].entry = 1, ![k].account = c,
                            ![k].left = @ \ {c}]
    /\ UNCHANGED <<settled, rows, completed, subscribed, issued, minted,
                   sekuritas, calls, failures, slips>>

Entry(k, c, side, amount) ==
    /\ issued' = [issued EXCEPT ![c][side] = @ + amount]
    /\ call' = IF call[k].entry = 4
               THEN [call EXCEPT ![k].at = "allocate", ![k].entry = 0, ![k].account = Treasury,
                                 ![k].rows[call[k].account] = Unit * Subscriptions[call[k].account]]
               ELSE [call EXCEPT ![k].entry = @ + 1]

\* Fault: the treasury's row is keyed by the subscription, so the next allocation's is dropped.
BookEntryOneSided(k) ==
    LET c == call[k].account
        n == Subscriptions[c]
    IN /\ At(k, "entries")
       /\ CASE call[k].entry = 1 -> Entry(k, c, "shares", n)
            [] call[k].entry = 2 -> Entry(k, Treasury, "shares", IF allocations[c] > 1 THEN 0 ELSE -n)
            [] call[k].entry = 3 -> Entry(k, c, "cash", -n)
            [] call[k].entry = 4 -> Entry(k, Treasury, "cash", n)
       /\ UNCHANGED <<settled, rows, completed, subscribed, minted, allocations,
                      sekuritas, calls, failures, slips>>

\* Four inserts keyed by the new allocation: shares and cash of the investor and the treasury.
BookEntry(k) ==
    LET c == call[k].account
        n == Subscriptions[c]
    IN /\ At(k, "entries")
       /\ CASE call[k].entry = 1 -> Entry(k, c, "shares", n)
            [] call[k].entry = 2 -> Entry(k, Treasury, "shares", -n)
            [] call[k].entry = 3 -> Entry(k, c, "cash", -n)
            [] call[k].entry = 4 -> Entry(k, Treasury, "cash", n)
       /\ UNCHANGED <<settled, rows, completed, subscribed, minted, allocations,
                      sekuritas, calls, failures, slips>>

\* All subscriptions are allocated: sent if there was any.
SendAllocation(k) ==
    /\ At(k, "allocate") /\ call[k].left = {}
    /\ IF \E c \in Accounts : call[k].rows[c] # 0 THEN Goto(k, "send") ELSE Ends(k)
    /\ UNCHANGED <<bei, sekuritas, calls, failures, slips>>
-----------------------------------------------------------------------------
Total(c) == shares[c].available + shares[c].reserved + shares[c].pending
\* processLocalPositionFallback: entitlements of SEKURITAS' own positions.
Local(a, c) == CASE a = "dividend" -> Unit * Total(c)
                 [] a = "split" -> Unit * (Total(c) \div 2)
                 [] a = "reverse" -> Unit * (Total(c) \div 2 - Total(c))

\* processCorporateAction: the event's key is inserted, once; another transaction
\* with the key waits for the first.  Accounts SEKURITAS does not know are left out.
\* With the ratios above no row that BEI sends is zero, so it has sent rows if one is not.
TakeEvent(k) ==
    LET e == call[k].event
        sent == \E c \in Custody : call[k].rows[c] # 0
        due == IF sent THEN call[k].rows
               ELSE [c \in Custody |-> IF c \in Accounts /\ Total(c) > 0 THEN Local(e, c) ELSE 0]
    IN /\ At(k, "send")
       /\ ~\E j \in Calls : call[j].event = e /\ call[j].at \in {"book", "write"}
       /\ IF e \in applied THEN Ends(k) /\ UNCHANGED slips
          ELSE /\ call' = [call EXCEPT ![k].at = "book", ![k].rows = due,
                               ![k].left = {c \in Accounts : Credit(e, due[c]) # 0}]
               /\ Slip("local", ~sent)
       /\ UNCHANGED <<bei, sekuritas, calls, failures>>

\* An account has a position if it had one or an event has made one.
HasPosition(c) == \/ Held[c] + Bought[c] > 0
                  \/ \E e \in Events \ {"dividend"} : credited[e][c] # 0
None == -1

\* applySecurityMovement reads the position without locking it, if there is one ...
ReadShares(k, c) ==
    /\ At(k, "book") /\ call[k].event # "dividend" /\ c \in call[k].left
    /\ call' = [call EXCEPT ![k].at = "write", ![k].account = c, ![k].left = @ \ {c},
                            ![k].read = IF HasPosition(c) THEN shares[c].available ELSE None]
    /\ UNCHANGED <<bei, sekuritas, calls, failures, slips>>

RollsBack(k) == Ends(k)

\* ... and writes what it makes of what it has read, once no other transaction
\* holds the row.  It inserts a position that it has not found, which is refused
\* if there is one by now.
WriteShares(k) ==
    LET c == call[k].account
        inserts == call[k].read = None
        next == Whole(call[k].rows[c]) + IF inserts THEN 0 ELSE call[k].read
    IN /\ At(k, "write") /\ ~Locked(c)
       /\ IF next < 0 \/ (inserts /\ HasPosition(c))
          THEN RollsBack(k) /\ UNCHANGED overwritten
          ELSE /\ call' = [call EXCEPT ![k].at = "book", ![k].writes[c] = next,
                                       ![k].account = Treasury, ![k].read = 0]
               /\ WritesOver(c, ~inserts /\ shares[c].available # call[k].read)
       /\ UNCHANGED <<bei, shares, settling, applied, credited, paid, calls, failures, slips>>

\* The cash of the event is added to the balances as it is; of the IPO it is the
\* price of the shares, 1 each.
CommitEvent(k) ==
    LET e == call[k].event
    IN /\ At(k, "book") /\ (e = "dividend" \/ call[k].left = {})
       /\ shares' = [c \in Accounts |-> IF call[k].writes[c] < 0 THEN shares[c]
                       ELSE [shares[c] EXCEPT !.available = call[k].writes[c]]]
       /\ credited' = [credited EXCEPT ![e] = [c \in Accounts |-> @[c] + Credit(e, call[k].rows[c])]]
       /\ paid' = [c \in Accounts |-> paid[c] - IF e = "ipo" THEN Whole(call[k].rows[c]) ELSE 0]
       /\ applied' = applied \cup {e}
       /\ Ends(k)
       /\ UNCHANGED <<bei, settling, overwritten, calls, failures, slips>>

\* A call is cut off: a restart, a statement that fails, no connection to SEKURITAS.
CutOff(k) == /\ ~At(k, "idle") /\ failures < MaxFailures
             /\ failures' = failures + 1 /\ Ends(k)
             /\ Slip("cut", call[k].at = "entries")
             /\ UNCHANGED <<bei, sekuritas, calls>>
-----------------------------------------------------------------------------
Next == \/ \E c \in Accounts : \/ BeiSettles(c) \/ Subscribe(c) \/ Reserve(c) \/ Release(c)
                               \/ SettlementReads(c) \/ SettlementWrites(c) \/ SettlementFails(c)
        \/ \E k \in Calls :
             \/ \E a \in Actions : Process(k, a)
             \/ Repeat(k) \/ ReadPositions(k) \/ InsertRows(k) \/ Complete(k)
             \/ Allocate(k) \/ BookEntry(k) \/ SendAllocation(k)
             \/ \E c \in Accounts : InsertAllocation(k, c) \/ ReadShares(k, c)
             \/ TakeEvent(k) \/ WriteShares(k) \/ CommitEvent(k) \/ CutOff(k)

Spec == Init /\ [][Next]_vars
-----------------------------------------------------------------------------
\* Types: no position is ever negative, whatever is reserved, settled and
\* booked at the same time.
TypeOK ==
    /\ settled \in [Accounts -> Nat] /\ rows \in [Actions -> [Custody -> Int]]
    /\ completed \subseteq Actions /\ subscribed \subseteq Accounts
    /\ issued \in [Custody -> [shares : Int, cash : Int]]
    /\ minted \in BOOLEAN /\ allocations \in [Accounts -> 0..MaxCalls]
    /\ shares \in [Accounts -> [available : Nat, reserved : Nat, pending : Nat]]
    /\ applied \subseteq Events /\ credited \in [Events -> [Accounts -> Int]]
    /\ calls \in 0..MaxCalls /\ failures \in 0..MaxFailures
    /\ settling \in [Accounts -> [at : {"due", "read", "done"}, available : Nat, pending : Nat]]
    /\ paid \in [Accounts -> Int] /\ overwritten \subseteq Accounts
    /\ slips \subseteq {"recomputed", "again", "local", "cut"}
    /\ \A k \in Calls : call[k].rows \in [Custody -> Int] /\ call[k].left \subseteq Accounts

\* However often an action is processed, at the same time or after a call was
\* cut off, its row for a customer is worked out from shares that do not come
\* from the action itself: no split of split shares.
NoCompounding ==
    \A a \in Actions, c \in Accounts :
      LET most == Unit * (settled[c] + issued[c].shares) + Booked(Actions \ {a, "reverse"}, c)
      IN rows[a][c] \in Entitlement(a, 0)..Entitlement(a, most)
                        \cup Entitlement(a, most)..Entitlement(a, 0)

\* What SEKURITAS has moved for an event is what BEI's ledger has for it, shares
\* and cash, in whole shares, also when the event was sent several times; unless a
\* second call inserted rows for the action or the allocation, or BEI sent nothing
\* and SEKURITAS went by its own positions.
MirrorsLedger ==
    slips \cap {"recomputed", "again", "local"} = {} =>
      \A e \in applied, c \in Accounts :
        IF e = "ipo" THEN credited[e][c] = issued[c].shares /\ paid[c] = issued[c].cash
        ELSE credited[e][c] = Credit(e, rows[e][c])

\* A customer's shares are what was held and bought and what the events moved,
\* unless an event or a settlement has written the customer's position over
\* with a total older than a reservation, a release, a settlement or another
\* event's movement.  Other customers are not affected.
SharesExplained ==
    \A c \in Accounts \ overwritten :
      Total(c) = Held[c] + Bought[c]
                 + SumFunctionOnSet([e \in Events |-> credited[e][c]], Events \ {"dividend"})

\* Unless an allocation was cut off between its inserts, what the investors of
\* the IPO hold and have paid is what the treasury has given and received,
\* however often it is allocated.
TreasuryBalances ==
    minted /\ "cut" \notin slips /\ (\A k \in Calls : ~At(k, "entries")) =>
      /\ SumFunctionOnSet([c \in Custody |-> issued[c].shares], Custody) = Offered
      /\ SumFunctionOnSet([c \in Custody |-> issued[c].cash], Custody) = 0
=============================================================================
