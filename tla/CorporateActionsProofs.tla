------------------------ MODULE CorporateActionsProofs -----------------------
(***************************************************************************)
(* Corporate actions for any customers, actions, numbers of shares and     *)
(* calls, cut off anywhere: no action works on its own result, SEKURITAS   *)
(* mirrors the ledger of BEI, every share of a customer is explained, and  *)
(* the treasury and the subscribers balance, each up to the exceptions the *)
(* properties name.                                                        *)
(*                                                                         *)
(* First what a call under way may hold at each stage and what the helpers *)
(* of the model do to it, then the parts of the invariant with a lemma for *)
(* each action, and the theorems at the end.                               *)
(***************************************************************************)
EXTENDS CorporateActions, SumFacts

Stages == {"idle", "positions", "insert", "complete", "repeat", "allocate", "entries",
           "send", "book", "write"}
CallRecord == [at : Stages, event : Events, rows : [Custody -> Int], left : SUBSET Accounts,
               account : Custody, entry : 0..4, read : Int, writes : [Accounts -> Int]]

\* What is known of the settlement of an account's purchase.
Settlement == [at : {"due", "read", "done"}, available : Nat, pending : Nat]

NonZero(r) == \E c \in Custody : r[c] # 0

\* What its stage says of the record r of a call, with the IPO minted or not.
Fits(r, done) ==
    /\ r.at \in {"positions", "insert", "complete", "repeat"} => r.event \in Actions
    /\ r.at \in {"allocate", "entries"} => r.event = "ipo" /\ done
    /\ r.at = "entries" => r.account \in Accounts /\ r.entry \in 1..4 /\ r.account \notin r.left
    /\ r.at = "send" => r.event \in Actions \/ NonZero(r.rows)
    /\ r.at = "write" => r.account \in Accounts /\ r.event # "dividend" /\ r.account \notin r.left
    /\ r.at \notin {"book", "write"} => \A c \in Accounts : r.writes[c] < 0
StageOK(k) == Fits(call[k], minted)

\* The types, without the count of allocations.
Types ==
    /\ settled \in [Accounts -> Nat] /\ rows \in [Actions -> [Custody -> Int]]
    /\ completed \subseteq Actions /\ subscribed \subseteq Accounts
    /\ issued \in [Custody -> [shares : Int, cash : Int]]
    /\ minted \in BOOLEAN /\ allocations \in [Accounts -> Nat]
    /\ shares \in [Accounts -> [available : Nat, reserved : Nat, pending : Nat]]
    /\ applied \subseteq Events /\ credited \in [Events -> [Accounts -> Int]]
    /\ calls \in 0..MaxCalls /\ failures \in 0..MaxFailures
    /\ slips \subseteq {"recomputed", "again", "local", "cut"}
    /\ call \in [Calls -> CallRecord]
    /\ \A k \in Calls : StageOK(k)
    /\ settling \in [Accounts -> Settlement] /\ paid \in [Accounts -> Int]
    /\ overwritten \subseteq Accounts

\* Has a call with this record still to allocate shares to c?
Pend(r, c) == IF r.at \in {"allocate", "entries"} /\ c \in r.left THEN 1 ELSE 0
ToAllocate(c) == [k \in Calls |-> Pend(call[k], c)]
Counted == \A c \in Accounts : allocations[c] + SumFunctionOnSet(ToAllocate(c), Calls) <= calls

\* The most an action's row for c may be worked out from, and what it may be.
Most(a, c) == Unit * (settled[c] + issued[c].shares) + Booked(Actions \ {a, "reverse"}, c)
Limited(a, most, v) == v \in Entitlement(a, 0)..Entitlement(a, most)
                             \cup Entitlement(a, most)..Entitlement(a, 0)
Within(a, c, v) == Limited(a, Most(a, c), v)
RowsFresh ==
    /\ \A c \in Accounts : issued[c].shares >= 0
    /\ \A a \in Actions, c \in Accounts : Within(a, c, rows[a][c])
    /\ \A k \in Calls : call[k].at = "insert" =>
         \A c \in Accounts : rows[call[k].event][c] = 0 => Within(call[k].event, c, call[k].rows[c])

Clean == slips \cap {"recomputed", "again", "local"} = {}
InBook(k) == call[k].at \in {"book", "write"}
IpoCall(r) == r.at # "idle" /\ r.event = "ipo"
IsIpo(k) == IpoCall(call[k])

\* One transaction has an event, and the event is not applied yet.
OneBooks == /\ \A j, k \in Calls : InBook(j) /\ InBook(k) /\ call[j].event = call[k].event => j = k
            /\ \A k \in Calls : InBook(k) => call[k].event \notin applied
            /\ \A e \in Events \ applied, c \in Accounts : credited[e][c] = 0
            /\ "ipo" \notin applied => \A c \in Accounts : paid[c] = 0

\* What a call sends of an action is the action's rows, if it is anything.
ActionSent(r) ==
    /\ r.at \in {"complete", "send"} /\ r.event \in Actions =>
         r.rows = rows[r.event] \/ ~NonZero(r.rows)
    /\ r.at \in {"book", "write"} /\ r.event \in Actions =>
         r.rows = rows[r.event] /\ NonZero(r.rows)

\* What an allocation has collected to send is what it has booked, and what
\* it has booked for an investor is paid for when it is done with the investor.
IpoSent(r) == IpoCall(r) =>
    /\ "ipo" \notin applied
    /\ \A c \in Accounts :
         IF r.at = "entries" /\ r.account = c
         THEN /\ r.rows[c] = 0
              /\ issued[c].shares = IF r.entry = 1 THEN 0 ELSE Subscriptions[c]
              /\ issued[c].cash = IF r.entry = 4 THEN -Subscriptions[c] ELSE 0
         ELSE r.rows[c] = Unit * issued[c].shares /\ issued[c].cash = -issued[c].shares
    /\ r.at \in {"allocate", "entries"} => \A c \in r.left : issued[c].shares = 0

Unminted == ~minted => /\ \A k \in Calls : ~IsIpo(k)
                       /\ "ipo" \notin applied
                       /\ \A c \in Custody : issued[c].shares = 0 /\ issued[c].cash = 0

Mirror == Clean =>
    /\ \A k \in Calls : ActionSent(call[k]) /\ IpoSent(call[k])
    /\ \A j, k \in Calls : IsIpo(j) /\ IsIpo(k) => j = k
    /\ \A e \in applied \cap Actions : NonZero(rows[e])
    /\ MirrorsLedger

\* A write holds the position's row; it writes what the movement makes of it.
OneWrites == \A c \in Accounts, j, k \in Calls :
    call[j].writes[c] >= 0 /\ call[k].writes[c] >= 0 => j = k
WriteOK(r, c) ==
    /\ r.writes[c] >= 0 =>
         /\ r.event # "dividend" /\ c \notin r.left
         /\ ~(r.at = "write" /\ r.account = c)
         /\ c \notin overwritten =>
              r.writes[c] = shares[c].available + Whole(r.rows[c])
    /\ r.at \in {"book", "write"} /\ r.event # "dividend" /\ Whole(r.rows[c]) # 0 =>
         \/ c \in r.left \/ r.writes[c] >= 0
         \/ r.at = "write" /\ r.account = c
\* What has been bought is pending until it is settled, and the settlement reads it so.
PendingBought == \A c \in Accounts :
    /\ shares[c].pending = IF settling[c].at = "done" THEN 0 ELSE Bought[c]
    /\ settling[c].at = "read" => settling[c].pending = Bought[c]
Explained == OneWrites /\ (\A k \in Calls, c \in Accounts : WriteOK(call[k], c)) /\ SharesExplained

\* What an allocation has given the investor and not yet taken from the
\* treasury, and has taken from the investor and not yet given to it.
OwedShares(r) == IF r.at = "entries" /\ r.entry = 2 THEN Subscriptions[r.account] ELSE 0
OwedCash(r) == IF r.at = "entries" /\ r.entry = 4 THEN -Subscriptions[r.account] ELSE 0
OpenShares == [k \in Calls |-> OwedShares(call[k])]
OpenCash == [k \in Calls |-> OwedCash(call[k])]
SharesIssued == [c \in Custody |-> issued[c].shares]
CashIssued == [c \in Custody |-> issued[c].cash]
Balanced == "cut" \notin slips =>
    /\ SumFunctionOnSet(SharesIssued, Custody)
         = (IF minted THEN Offered ELSE 0) + SumFunctionOnSet(OpenShares, Calls)
    /\ SumFunctionOnSet(CashIssued, Custody) = SumFunctionOnSet(OpenCash, Calls)

IInv == Types /\ Counted /\ RowsFresh /\ OneBooks /\ Unminted /\ Mirror /\ PendingBought
        /\ Explained /\ Balanced
-----------------------------------------------------------------------------
\* The record of a call, written out.
Rec(at, event, entitled, left, account, entry, read, writes) ==
    [at |-> at, event |-> event, rows |-> entitled, left |-> left, account |-> account,
     entry |-> entry, read |-> read, writes |-> writes]

\* A step of call k makes its record r and leaves the others alone.
Turns(k, r) == /\ call'[k] = r
               /\ \A j \in Calls \ {k} : call'[j] = call[j]
               /\ call' \in [Calls -> CallRecord]

LEMMA Turning ==
    ASSUME NEW k \in Calls, NEW r \in CallRecord, call \in [Calls -> CallRecord],
           call' = [call EXCEPT ![k] = r]
    PROVE  Turns(k, r)
  BY DEF Turns

LEMMA IdleRecord == Idle \in CallRecord /\ "ipo" \notin Actions
  <1>1. \A c \in Accounts : -1 \in Int OBVIOUS
  <1> QED BY <1>1, CorporateActionsAssumption DEF Idle, CallRecord, Stages, Events, Custody

LEMMA Ending ==
    ASSUME Types, NEW k \in Calls, Ends(k)
    PROVE  Turns(k, Idle)
  <1>1. call \in [Calls -> CallRecord] BY DEF Types
  <1>2. call' = [call EXCEPT ![k] = Idle] BY DEF Ends
  <1> QED BY <1>1, <1>2, IdleRecord, Turning

LEMMA CallFields ==
    ASSUME Types, NEW k \in Calls
    PROVE  /\ call[k] \in CallRecord /\ call[k].at \in Stages /\ call[k].event \in Events
           /\ call[k].rows \in [Custody -> Int] /\ call[k].left \subseteq Accounts
           /\ call[k].account \in Custody /\ call[k].entry \in 0..4 /\ call[k].read \in Int
           /\ call[k].writes \in [Accounts -> Int]
           /\ StageOK(k)
  <1>1. call[k] \in CallRecord /\ StageOK(k) BY DEF Types
  <1> QED BY <1>1 DEF CallRecord

LEMMA Beginning ==
    ASSUME Types, NEW k \in Calls, NEW r \in CallRecord, Begins(k, r)
    PROVE  call[k] = Idle /\ Turns(k, r) /\ calls' = calls + 1 /\ calls' \in 0..MaxCalls
  <1>1. call \in [Calls -> CallRecord] /\ calls \in 0..MaxCalls BY DEF Types
  <1>2. call[k] = Idle /\ calls < MaxCalls /\ calls' = calls + 1 /\ call' = [call EXCEPT ![k] = r]
    BY DEF Begins
  <1>3. Turns(k, r) BY <1>1, <1>2, Turning
  <1> QED BY <1>1, <1>2, <1>3, CorporateActionsAssumption

Same(r, s) == /\ r.at = s.at /\ r.event = s.event /\ r.rows = s.rows /\ r.left = s.left
              /\ r.account = s.account /\ r.entry = s.entry /\ r.read = s.read
              /\ r.writes = s.writes

LEMMA SameRecord ==
    ASSUME NEW r \in CallRecord, NEW s \in CallRecord, Same(r, s)
    PROVE  r = s
  BY DEF CallRecord, Same

LEMMA StageChanges ==
    ASSUME NEW r \in CallRecord, NEW stage \in Stages
    PROVE  /\ Rec(stage, r.event, r.rows, r.left, r.account, r.entry, r.read, r.writes) \in CallRecord
           /\ Rec(stage, r.event, r.rows, r.left, r.account, r.entry, r.read, r.writes)
                = [r EXCEPT !.at = stage]
  <1> DEFINE s == Rec(stage, r.event, r.rows, r.left, r.account, r.entry, r.read, r.writes)
             t == [r EXCEPT !.at = stage]
  <1>1. s \in CallRecord BY DEF CallRecord, Rec
  <1>2. t \in CallRecord BY DEF CallRecord
  <1>3. Same(s, t) BY DEF Same, Rec, CallRecord
  <1> HIDE DEF s, t
  <1>4. s = t BY <1>1, <1>2, <1>3, SameRecord
  <1> QED BY <1>1, <1>4 DEF s, t

LEMMA ProcessTurns ==
    ASSUME Types, NEW k \in Calls, NEW a \in Actions, Process(k, a)
    PROVE  /\ call[k] = Idle /\ calls' = calls + 1 /\ calls' \in 0..MaxCalls
           /\ Turns(k, Rec(IF a \in completed THEN "repeat" ELSE "positions", a, Idle.rows, {},
                           Treasury, 0, 0, Idle.writes))
  <1> DEFINE r == [Idle EXCEPT !.event = a, !.at = IF a \in completed THEN "repeat" ELSE "positions"]
             s == Rec(IF a \in completed THEN "repeat" ELSE "positions", a, Idle.rows, {},
                           Treasury, 0, 0, Idle.writes)
  <1>0. PICK at \in Stages : at = IF a \in completed THEN "repeat" ELSE "positions" BY DEF Stages
  <1>1. r = s
    <2>1. r \in CallRecord /\ s \in CallRecord
      BY <1>0, IdleRecord DEF Rec, CallRecord, Stages, Events, Idle, Custody
    <2>2. /\ r.at = s.at /\ r.event = s.event /\ r.rows = s.rows /\ r.left = s.left
          /\ r.account = s.account /\ r.entry = s.entry /\ r.read = s.read /\ r.writes = s.writes
      BY <1>0 DEF Rec, Idle
    <2>3. Same(r, s) BY <2>2 DEF Same
    <2> HIDE DEF r, s
    <2> QED BY <2>1, <2>3, SameRecord
  <1>2. s \in CallRecord
    BY <1>0, IdleRecord DEF Rec, CallRecord, Stages, Events, Idle, Custody
  <1>3. Begins(k, r) BY DEF Process
  <1> HIDE DEF r, s
  <1>4. Begins(k, s) BY <1>1, <1>3
  <1>5. call[k] = Idle /\ Turns(k, s) /\ calls' = calls + 1 /\ calls' \in 0..MaxCalls
    BY <1>2, <1>4, Beginning
  <1> QED BY <1>5 DEF s

LEMMA AllocateTurns ==
    ASSUME Types, NEW k \in Calls, Allocate(k)
    PROVE  /\ call[k] = Idle /\ calls' = calls + 1 /\ calls' \in 0..MaxCalls
           /\ Turns(k, Rec("allocate", "ipo", Idle.rows, subscribed, Treasury, 0, 0, Idle.writes))
  <1> DEFINE r == [Idle EXCEPT !.at = "allocate", !.left = subscribed]
             s == Rec("allocate", "ipo", Idle.rows, subscribed, Treasury, 0, 0, Idle.writes)
  <1>2. subscribed \subseteq Accounts BY DEF Types
  <1>1. r = s
    <2>1. r \in CallRecord /\ s \in CallRecord
      BY <1>2, IdleRecord DEF Rec, CallRecord, Stages, Events, Idle, Custody
    <2>2. /\ r.at = s.at /\ r.event = s.event /\ r.rows = s.rows /\ r.left = s.left
          /\ r.account = s.account /\ r.entry = s.entry /\ r.read = s.read /\ r.writes = s.writes
      BY DEF Rec, Idle
    <2>3. Same(r, s) BY <2>2 DEF Same
    <2> HIDE DEF r, s
    <2> QED BY <2>1, <2>3, SameRecord
  <1>3. s \in CallRecord BY <1>2, IdleRecord DEF Rec, CallRecord, Stages, Events, Idle, Custody
  <1>4. Begins(k, r) BY DEF Allocate
  <1> HIDE DEF r, s
  <1>5. Begins(k, s) BY <1>1, <1>4
  <1>6. call[k] = Idle /\ Turns(k, s) /\ calls' = calls + 1 /\ calls' \in 0..MaxCalls
    BY <1>3, <1>5, Beginning
  <1> QED BY <1>6 DEF s

\* A step that changes the record's stage, entitlements and what is left.
LEMMA StageTurns ==
    ASSUME Types, NEW k \in Calls, NEW stage \in Stages, Goto(k, stage)
    PROVE  Turns(k, Rec(stage, call[k].event, call[k].rows, call[k].left, call[k].account,
                        call[k].entry, call[k].read, call[k].writes))
  <1> DEFINE s == Rec(stage, call[k].event, call[k].rows, call[k].left, call[k].account,
                        call[k].entry, call[k].read, call[k].writes)
  <1>1. call \in [Calls -> CallRecord] BY DEF Types
  <1>0. call[k] \in CallRecord BY CallFields
  <1>2. s \in CallRecord /\ s = [call[k] EXCEPT !.at = stage] BY <1>0, StageChanges
  <1>5. call' = [call EXCEPT ![k] = [call[k] EXCEPT !.at = stage]] BY <1>1 DEF Goto
  <1>3. call' = [call EXCEPT ![k] = s] BY <1>2, <1>5
  <1> HIDE DEF s
  <1>4. Turns(k, s) BY <1>1, <1>2, <1>3, Turning
  <1> QED BY <1>4 DEF s

LEMMA RowsTurn ==
    ASSUME Types, NEW k \in Calls, NEW stage \in Stages, NEW due \in [Custody -> Int],
           call' = [call EXCEPT ![k].at = stage, ![k].rows = due]
    PROVE  Turns(k, Rec(stage, call[k].event, due, call[k].left, call[k].account,
                        call[k].entry, call[k].read, call[k].writes))
  <1> DEFINE s == Rec(stage, call[k].event, due, call[k].left, call[k].account,
                      call[k].entry, call[k].read, call[k].writes)
  <1>1. call \in [Calls -> CallRecord] BY DEF Types
  <1>2. call[k] \in CallRecord BY CallFields
  <1>3. s \in CallRecord BY <1>2 DEF CallRecord, Rec
  <1>4. PICK t : t = [call[k] EXCEPT !.at = stage, !.rows = due] OBVIOUS
  <1>5. t \in CallRecord BY <1>2, <1>4 DEF CallRecord
  <1>6. Same(s, t) BY <1>2, <1>4 DEF Same, Rec, CallRecord
  <1>7. call' = [call EXCEPT ![k] = t] BY <1>1, <1>4
  <1> HIDE DEF s
  <1>8. s = t BY <1>3, <1>5, <1>6, SameRecord
  <1>9. Turns(k, s) BY <1>1, <1>3, <1>7, <1>8, Turning
  <1> QED BY <1>9 DEF s
-----------------------------------------------------------------------------
LEMMA ActionsFinite == IsFiniteSet(Actions) /\ Actions \subseteq {"split", "reverse", "dividend"}
  <1>1. IsFiniteSet({"split", "reverse", "dividend"})
    <2>1. IsFiniteSet({"split"}) BY FS_Singleton
    <2>2. IsFiniteSet({"split"} \cup {"reverse"}) BY <2>1, FS_AddElement
    <2>3. IsFiniteSet({"split"} \cup {"reverse"} \cup {"dividend"}) BY <2>2, FS_AddElement
    <2>4. {"split", "reverse", "dividend"} = {"split"} \cup {"reverse"} \cup {"dividend"} OBVIOUS
    <2> QED BY <2>3, <2>4
  <1>2. Actions \subseteq {"split", "reverse", "dividend"} BY CorporateActionsAssumption
  <1> QED BY <1>1, <1>2, FS_Subset

LEMMA BookedType ==
    ASSUME rows \in [Actions -> [Custody -> Int]], NEW c \in Custody, NEW as \in SUBSET Actions
    PROVE  Booked(as, c) \in Int
  <1> DEFINE f == [a \in Actions |-> rows[a][c]]
  <1>1. \A a \in as \ {"dividend"} : f[a] \in Int OBVIOUS
  <1>2. IsFiniteSet(as \ {"dividend"}) BY ActionsFinite, FS_Subset
  <1> HIDE DEF f
  <1>3. SumFunctionOnSet(f, as \ {"dividend"}) \in Int BY <1>1, <1>2, SumType
  <1> QED BY <1>3 DEF f, Booked

LEMMA EntitlementType ==
    ASSUME NEW a \in Actions, NEW q \in Int
    PROVE  Entitlement(a, q) \in Int
  BY ActionsFinite DEF Entitlement

LEMMA WholeType == ASSUME NEW q \in Int PROVE Whole(q) \in Int
  BY DEF Whole, Unit

LEMMA CreditType == ASSUME NEW e, NEW q \in Int PROVE Credit(e, q) \in Int
  BY WholeType DEF Credit

LEMMA PositionType ==
    ASSUME Types, NEW c \in Custody
    PROVE  Position(c) \in Int
  <1>1. Booked(Actions, c) \in Int BY BookedType DEF Types
  <1>2. issued[c].shares \in Int BY DEF Types
  <1>3. c # Treasury => settled[c] \in Int BY DEF Types, Custody
  <1> QED BY <1>1, <1>2, <1>3 DEF Position, Unit

LEMMA TotalType ==
    ASSUME Types, NEW c \in Accounts
    PROVE  /\ shares[c].available \in Nat /\ shares[c].reserved \in Nat /\ shares[c].pending \in Nat
           /\ shares[c] = [available |-> shares[c].available, reserved |-> shares[c].reserved,
                           pending |-> shares[c].pending]
           /\ Total(c) \in Nat
  <1>1. shares[c] \in [available : Nat, reserved : Nat, pending : Nat] BY DEF Types
  <1> QED BY <1>1 DEF Total

-----------------------------------------------------------------------------
LEMMA RepeatTurns ==
    ASSUME Types, NEW k \in Calls, Repeat(k)
    PROVE  /\ call[k].at = "repeat" /\ call[k].event \in Actions
           /\ Turns(k, Rec("send", call[k].event, rows[call[k].event], call[k].left, call[k].account,
                           call[k].entry, call[k].read, call[k].writes))
  <1>1. call[k].at = "repeat" /\ StageOK(k) BY CallFields DEF Repeat, At
  <1>2. call[k].event \in Actions BY <1>1 DEF StageOK, Fits
  <1>3. rows[call[k].event] \in [Custody -> Int] BY <1>2 DEF Types
  <1>4. call' = [call EXCEPT ![k].at = "send", ![k].rows = rows[call[k].event]] BY DEF Repeat
  <1>5. "send" \in Stages BY DEF Stages
  <1>6. PICK due \in [Custody -> Int] : due = rows[call[k].event] BY <1>3
  <1>7. call' = [call EXCEPT ![k].at = "send", ![k].rows = due] BY <1>4, <1>6
  <1>8. Turns(k, Rec("send", call[k].event, due, call[k].left, call[k].account,
                     call[k].entry, call[k].read, call[k].writes))
    BY <1>5, <1>7, RowsTurn
  <1> QED BY <1>1, <1>2, <1>6, <1>8

\* The entitlements a call works out of the positions it reads.
Entitled(a) == [c \in Custody |-> IF Position(c) > 0 THEN Entitlement(a, Position(c)) ELSE 0]

LEMMA ReadPositionsTurns ==
    ASSUME Types, NEW k \in Calls, ReadPositions(k)
    PROVE  /\ call[k].at = "positions" /\ call[k].event \in Actions
           /\ Turns(k, Rec("insert", call[k].event, Entitled(call[k].event), call[k].left,
                           call[k].account, call[k].entry, call[k].read, call[k].writes))
  <1>1. call[k].at = "positions" /\ StageOK(k) BY CallFields DEF ReadPositions, At
  <1>2. call[k].event \in Actions BY <1>1 DEF StageOK, Fits
  <1>3. Entitled(call[k].event) \in [Custody -> Int]
    BY <1>2, PositionType, EntitlementType DEF Entitled
  <1>4. call' = [call EXCEPT ![k].at = "insert", ![k].rows = Entitled(call[k].event)]
    BY DEF ReadPositions, Entitled
  <1>5. "insert" \in Stages BY DEF Stages
  <1>6. PICK due \in [Custody -> Int] : due = Entitled(call[k].event) BY <1>3
  <1>7. call' = [call EXCEPT ![k].at = "insert", ![k].rows = due] BY <1>4, <1>6
  <1>8. Turns(k, Rec("insert", call[k].event, due, call[k].left, call[k].account,
                     call[k].entry, call[k].read, call[k].writes))
    BY <1>5, <1>7, RowsTurn
  <1> QED BY <1>1, <1>2, <1>6, <1>8

LEMMA InsertRowsTurns ==
    ASSUME Types, NEW k \in Calls, InsertRows(k)
    PROVE  /\ call[k].at = "insert" /\ call[k].event \in Actions
           /\ Turns(k, Rec("complete", call[k].event, call[k].rows, call[k].left,
                           call[k].account, call[k].entry, call[k].read, call[k].writes))
  <1>1. call[k].at = "insert" /\ StageOK(k) BY CallFields DEF InsertRows, At
  <1>2. call[k].event \in Actions BY <1>1 DEF StageOK, Fits
  <1>3. Goto(k, "complete") BY DEF InsertRows
  <1>4. "complete" \in Stages BY DEF Stages
  <1> QED BY <1>1, <1>2, <1>3, <1>4, StageTurns

LEMMA CompleteTurns ==
    ASSUME Types, NEW k \in Calls, Complete(k)
    PROVE  /\ call[k].at = "complete" /\ call[k].event \in Actions
           /\ Turns(k, Rec("send", call[k].event, call[k].rows, call[k].left,
                           call[k].account, call[k].entry, call[k].read, call[k].writes))
  <1>1. call[k].at = "complete" /\ StageOK(k) BY CallFields DEF Complete, At
  <1>2. call[k].event \in Actions BY <1>1 DEF StageOK, Fits
  <1>3. Goto(k, "send") BY DEF Complete
  <1>4. "send" \in Stages BY DEF Stages
  <1> QED BY <1>1, <1>2, <1>3, <1>4, StageTurns

LEMMA SendAllocationTurns ==
    ASSUME Types, NEW k \in Calls, SendAllocation(k)
    PROVE  /\ call[k].at = "allocate" /\ call[k].left = {}
           /\ \/ Turns(k, Rec("send", call[k].event, call[k].rows, call[k].left,
                              call[k].account, call[k].entry, call[k].read, call[k].writes))
              \/ Turns(k, Idle)
  <1>1. call[k].at = "allocate" /\ call[k].left = {} BY DEF SendAllocation, At
  <1>2. Goto(k, "send") \/ Ends(k) BY DEF SendAllocation
  <1>3. "send" \in Stages BY DEF Stages
  <1>4. CASE Goto(k, "send") BY <1>1, <1>3, <1>4, StageTurns
  <1>5. CASE Ends(k) BY <1>1, <1>5, Ending
  <1> QED BY <1>2, <1>4, <1>5

LEMMA InsertAllocationTurns ==
    ASSUME Types, NEW k \in Calls, NEW c \in Accounts, InsertAllocation(k, c)
    PROVE  /\ call[k].at = "allocate" /\ c \in call[k].left
           /\ Turns(k, Rec("entries", call[k].event, call[k].rows, call[k].left \ {c}, c, 1,
                           call[k].read, call[k].writes))
  <1> DEFINE s == Rec("entries", call[k].event, call[k].rows, call[k].left \ {c}, c, 1,
                      call[k].read, call[k].writes)
  <1>0. call[k].at = "allocate" /\ c \in call[k].left BY DEF InsertAllocation, At
  <1>1. call \in [Calls -> CallRecord] BY DEF Types
  <1>2. call[k] \in CallRecord /\ c \in Custody /\ "entries" \in Stages /\ 1 \in 0..4
    BY CallFields DEF Custody, Stages
  <1>3. s \in CallRecord BY <1>2 DEF CallRecord, Rec
  <1>4. PICK t : t = [call[k] EXCEPT !.at = "entries", !.entry = 1, !.account = c, !.left = @ \ {c}]
    OBVIOUS
  <1>5. t \in CallRecord BY <1>2, <1>4 DEF CallRecord
  <1>6. Same(s, t) BY <1>2, <1>4 DEF Same, Rec, CallRecord
  <1>7. call' = [call EXCEPT ![k] = t] BY <1>1, <1>4 DEF InsertAllocation
  <1> HIDE DEF s
  <1>8. s = t BY <1>3, <1>5, <1>6, SameRecord
  <1>9. Turns(k, s) BY <1>1, <1>3, <1>7, <1>8, Turning
  <1> QED BY <1>0, <1>9 DEF s

\* What is read of a customer's position.
Found(c) == IF HasPosition(c) THEN shares[c].available ELSE None

LEMMA ReadSharesTurns ==
    ASSUME Types, NEW k \in Calls, NEW c \in Accounts, ReadShares(k, c)
    PROVE  /\ call[k].at = "book" /\ call[k].event # "dividend" /\ c \in call[k].left
           /\ Turns(k, Rec("write", call[k].event, call[k].rows, call[k].left \ {c}, c,
                           call[k].entry, Found(c), call[k].writes))
  <1>0. call[k].at = "book" /\ call[k].event # "dividend" /\ c \in call[k].left
    BY DEF ReadShares, At
  <1>1. call \in [Calls -> CallRecord] BY DEF Types
  <1>2. /\ call[k] \in CallRecord /\ c \in Custody /\ "write" \in Stages
        /\ shares[c].available \in Int
    <2>1. shares[c].available \in Nat BY TotalType
    <2>2. call[k] \in CallRecord BY CallFields
    <2> QED BY <2>1, <2>2 DEF Custody, Stages
  <1>10. PICK n \in Int : n = Found(c) BY <1>2 DEF Found, None
  <1> DEFINE s == Rec("write", call[k].event, call[k].rows, call[k].left \ {c}, c,
                      call[k].entry, n, call[k].writes)
  <1>3. s \in CallRecord BY <1>2, <1>10 DEF CallRecord, Rec
  <1>4. PICK t : t = [call[k] EXCEPT !.at = "write", !.account = c, !.left = @ \ {c}, !.read = n]
    OBVIOUS
  <1>5. t \in CallRecord BY <1>2, <1>4, <1>10 DEF CallRecord
  <1>6. Same(s, t) BY <1>2, <1>4 DEF Same, Rec, CallRecord
  <1>11. call' = [call EXCEPT ![k].at = "write", ![k].account = c, ![k].left = @ \ {c},
                              ![k].read = n]
    BY <1>10 DEF ReadShares, Found
  <1>7. call' = [call EXCEPT ![k] = t] BY <1>1, <1>4, <1>11
  <1> HIDE DEF s
  <1>8. s = t BY <1>3, <1>5, <1>6, SameRecord
  <1>9. Turns(k, s) BY <1>1, <1>3, <1>7, <1>8, Turning
  <1> QED BY <1>0, <1>9, <1>10 DEF s

LEMMA SubscriptionsType ==
    /\ \A c \in Accounts : Subscriptions[c] \in Nat /\ Held[c] \in Nat /\ Bought[c] \in Nat
    /\ Accounts \subseteq Custody /\ Treasury \in Custody /\ Treasury \notin Accounts
  BY CorporateActionsAssumption DEF Custody

\* What the next entry of a call adds to the shares, or the cash, of x.
Adds(k, x, investor, treasury) ==
    LET n == Subscriptions[call[k].account]
    IN IF call[k].entry = investor /\ x = call[k].account THEN n
       ELSE IF call[k].entry = treasury /\ x = Treasury THEN -n ELSE 0

\* The ledger gains n shares and m of cash for c.
Gains(c, n, m) ==
    /\ issued' \in [Custody -> [shares : Int, cash : Int]]
    /\ \A x \in Custody : /\ issued'[x].shares = issued[x].shares + (IF x = c THEN n ELSE 0)
                          /\ issued'[x].cash = issued[x].cash + (IF x = c THEN m ELSE 0)

LEMMA EntryGains ==
    ASSUME Types, NEW k, NEW c \in Custody, NEW n \in Int
    PROVE  /\ Entry(k, c, "shares", n) => Gains(c, n, 0)
           /\ Entry(k, c, "cash", n) => Gains(c, 0, n)
  <1>1. issued \in [Custody -> [shares : Int, cash : Int]] BY DEF Types
  <1>2. ASSUME Entry(k, c, "shares", n) PROVE Gains(c, n, 0)
    <2>1. issued' = [issued EXCEPT ![c].shares = @ + n] BY <1>2 DEF Entry
    <2> QED BY <1>1, <2>1 DEF Gains
  <1>3. ASSUME Entry(k, c, "cash", n) PROVE Gains(c, 0, n)
    <2>1. issued' = [issued EXCEPT ![c].cash = @ + n] BY <1>3 DEF Entry
    <2> QED BY <1>1, <2>1 DEF Gains
  <1> QED BY <1>2, <1>3

LEMMA EntryTurns ==
    ASSUME Types, NEW k \in Calls, call[k].at = "entries", call[k].account \in Accounts,
           NEW c, NEW side, NEW amount, Entry(k, c, side, amount)
    PROVE  /\ call[k].entry # 4 =>
                Turns(k, Rec("entries", call[k].event, call[k].rows, call[k].left, call[k].account,
                             call[k].entry + 1, call[k].read, call[k].writes))
           /\ call[k].entry = 4 =>
                Turns(k, Rec("allocate", call[k].event,
                             [call[k].rows EXCEPT ![call[k].account]
                                = Unit * Subscriptions[call[k].account]],
                             call[k].left, Treasury, 0, call[k].read, call[k].writes))
  <1>1. call \in [Calls -> CallRecord] BY DEF Types
  <1>2. PICK r \in CallRecord : r = call[k] BY CallFields
  <1>3. /\ r.at = "entries" /\ r.rows \in [Custody -> Int] /\ r.entry \in 0..4
        /\ r.account \in Accounts /\ r.account \in Custody
    BY <1>2, CallFields
  <1>4. CASE call[k].entry # 4
    <2> DEFINE s == Rec("entries", r.event, r.rows, r.left, r.account, r.entry + 1, r.read, r.writes)
    <2>1. r.entry + 1 \in 0..4 BY <1>2, <1>3, <1>4
    <2>2. s \in CallRecord BY <1>3, <2>1 DEF CallRecord, Rec
    <2>3. PICK t : t = [r EXCEPT !.entry = @ + 1] OBVIOUS
    <2>4. t \in CallRecord BY <2>1, <2>3 DEF CallRecord
    <2>5. Same(s, t) BY <1>3, <2>3 DEF Same, Rec, CallRecord
    <2>6. call' = [call EXCEPT ![k] = t] BY <1>1, <1>2, <1>4, <2>3 DEF Entry
    <2> HIDE DEF s
    <2>7. s = t BY <2>2, <2>4, <2>5, SameRecord
    <2>8. Turns(k, s) BY <1>1, <2>2, <2>6, <2>7, Turning
    <2> QED BY <1>2, <1>4, <2>8 DEF s
  <1>5. CASE call[k].entry = 4
    <2>0. PICK due : due = [r.rows EXCEPT ![r.account] = Unit * Subscriptions[r.account]] OBVIOUS
    <2> DEFINE s == Rec("allocate", r.event, due, r.left, Treasury, 0, r.read, r.writes)
    <2>1. /\ due \in [Custody -> Int] /\ "allocate" \in Stages /\ 0 \in 0..4
          /\ Treasury \in Custody
      BY <1>3, <2>0, SubscriptionsType DEF Unit, Stages
    <2>2. s \in CallRecord BY <2>1 DEF CallRecord, Rec
    <2>3. PICK t : t = [r EXCEPT !.at = "allocate", !.entry = 0, !.account = Treasury, !.rows = due]
      OBVIOUS
    <2>4. t \in CallRecord BY <2>1, <2>3 DEF CallRecord
    <2>5. Same(s, t) BY <1>3, <2>3 DEF Same, Rec, CallRecord
    <2>6. call' = [call EXCEPT ![k] = t] BY <1>1, <1>2, <1>5, <2>0, <2>3 DEF Entry, CallRecord
    <2> HIDE DEF s
    <2>7. s = t BY <2>2, <2>4, <2>5, SameRecord
    <2>8. Turns(k, s) BY <1>1, <2>2, <2>6, <2>7, Turning
    <2> QED BY <1>2, <1>5, <2>0, <2>8 DEF s
  <1> QED BY <1>4, <1>5

LEMMA BookEntryTurns ==
    ASSUME Types, NEW k \in Calls, BookEntry(k)
    PROVE  /\ call[k].at = "entries" /\ call[k].account \in Accounts /\ call[k].entry \in 1..4
           /\ call[k].event = "ipo" /\ minted /\ call[k].account \notin call[k].left
           /\ issued' \in [Custody -> [shares : Int, cash : Int]]
           /\ \A x \in Custody : /\ issued'[x].shares = issued[x].shares + Adds(k, x, 1, 2)
                                 /\ issued'[x].cash = issued[x].cash - Adds(k, x, 3, 4)
           /\ call[k].entry # 4 =>
                Turns(k, Rec("entries", call[k].event, call[k].rows, call[k].left, call[k].account,
                             call[k].entry + 1, call[k].read, call[k].writes))
           /\ call[k].entry = 4 =>
                Turns(k, Rec("allocate", call[k].event,
                             [call[k].rows EXCEPT ![call[k].account]
                                = Unit * Subscriptions[call[k].account]],
                             call[k].left, Treasury, 0, call[k].read, call[k].writes))
  <1>1. call[k].at = "entries" /\ StageOK(k) BY CallFields DEF BookEntry, At
  <1>2. /\ call[k].account \in Accounts /\ call[k].entry \in 1..4
        /\ call[k].event = "ipo" /\ minted /\ call[k].account \notin call[k].left
    BY <1>1 DEF StageOK, Fits
  <1>3. PICK c \in Accounts, n \in Nat : c = call[k].account /\ n = Subscriptions[c]
    BY <1>2, SubscriptionsType
  <1>4. c \in Custody /\ Treasury \in Custody /\ c # Treasury BY SubscriptionsType
  <1>10. -n \in Int /\ n \in Int BY <1>3
  <1>5. issued \in [Custody -> [shares : Int, cash : Int]] BY DEF Types
  <1>6. CASE call[k].entry = 1
    <2>1. Entry(k, c, "shares", n) BY <1>3, <1>6 DEF BookEntry
    <2>2. Gains(c, n, 0) BY <1>4, <1>10, <2>1, EntryGains
    <2>3. \A x \in Custody : /\ issued'[x].shares = issued[x].shares + Adds(k, x, 1, 2)
                             /\ issued'[x].cash = issued[x].cash - Adds(k, x, 3, 4)
      BY <1>3, <1>4, <1>5, <1>6, <2>2 DEF Adds, Gains
    <2>4. issued' \in [Custody -> [shares : Int, cash : Int]] BY <2>2 DEF Gains
    <2> QED BY <1>1, <1>2, <2>1, <2>3, <2>4, EntryTurns
  <1>7. CASE call[k].entry = 2
    <2>1. Entry(k, Treasury, "shares", -n) BY <1>3, <1>7 DEF BookEntry
    <2>2. Gains(Treasury, -n, 0) BY <1>4, <1>10, <2>1, EntryGains
    <2>3. \A x \in Custody : /\ issued'[x].shares = issued[x].shares + Adds(k, x, 1, 2)
                             /\ issued'[x].cash = issued[x].cash - Adds(k, x, 3, 4)
      BY <1>3, <1>4, <1>5, <1>7, <2>2 DEF Adds, Gains
    <2>4. issued' \in [Custody -> [shares : Int, cash : Int]] BY <2>2 DEF Gains
    <2> QED BY <1>1, <1>2, <2>1, <2>3, <2>4, EntryTurns
  <1>8. CASE call[k].entry = 3
    <2>1. Entry(k, c, "cash", -n) BY <1>3, <1>8 DEF BookEntry
    <2>2. Gains(c, 0, -n) BY <1>4, <1>10, <2>1, EntryGains
    <2>3. \A x \in Custody : /\ issued'[x].shares = issued[x].shares + Adds(k, x, 1, 2)
                             /\ issued'[x].cash = issued[x].cash - Adds(k, x, 3, 4)
      BY <1>3, <1>4, <1>5, <1>8, <2>2 DEF Adds, Gains
    <2>4. issued' \in [Custody -> [shares : Int, cash : Int]] BY <2>2 DEF Gains
    <2> QED BY <1>1, <1>2, <2>1, <2>3, <2>4, EntryTurns
  <1>9. CASE call[k].entry = 4
    <2>1. Entry(k, Treasury, "cash", n) BY <1>3, <1>9 DEF BookEntry
    <2>2. Gains(Treasury, 0, n) BY <1>4, <1>10, <2>1, EntryGains
    <2>3. \A x \in Custody : /\ issued'[x].shares = issued[x].shares + Adds(k, x, 1, 2)
                             /\ issued'[x].cash = issued[x].cash - Adds(k, x, 3, 4)
      BY <1>3, <1>4, <1>5, <1>9, <2>2 DEF Adds, Gains
    <2>4. issued' \in [Custody -> [shares : Int, cash : Int]] BY <2>2 DEF Gains
    <2> QED BY <1>1, <1>2, <2>1, <2>3, <2>4, EntryTurns
  <1> QED BY <1>2, <1>6, <1>7, <1>8, <1>9

\* The entitlements a transaction of SEKURITAS books, and for whom it moves anything.
Due(k) == IF NonZero(call[k].rows) THEN call[k].rows
          ELSE [c \in Custody |-> IF c \in Accounts /\ Total(c) > 0
                                  THEN Local(call[k].event, c) ELSE 0]
Concerned(k) == {c \in Accounts : Credit(call[k].event, Due(k)[c]) # 0}

LEMMA LocalType ==
    ASSUME Types, NEW a \in Actions, NEW c \in Accounts
    PROVE  Local(a, c) \in Int
  <1>1. PICK n \in Nat : n = Total(c) BY TotalType
  <1>2. n \div 2 \in Int BY <1>1
  <1> QED BY <1>1, <1>2, ActionsFinite DEF Local, Unit

\* An allocation sends shares (or it ends), so what is computed locally is an action's.
LEMMA DueType ==
    ASSUME Types, NEW k \in Calls, call[k].event \in Actions \/ NonZero(call[k].rows)
    PROVE  Due(k) \in [Custody -> Int]
  <1>1. CASE NonZero(call[k].rows) BY <1>1, CallFields DEF Due
  <1>2. CASE ~NonZero(call[k].rows)
    <2>1. call[k].event \in Actions BY <1>2
    <2>2. \A c \in Accounts : Local(call[k].event, c) \in Int BY <2>1, LocalType
    <2> QED BY <1>2, <2>2 DEF Due
  <1> QED BY <1>1, <1>2

LEMMA TakeEventTurns ==
    ASSUME Types, NEW k \in Calls, TakeEvent(k)
    PROVE  /\ call[k].at = "send"
           /\ \A j \in Calls : InBook(j) => call[j].event # call[k].event
           /\ call[k].event \in applied => Turns(k, Idle) /\ slips' = slips
           /\ call[k].event \notin applied =>
                /\ Turns(k, Rec("book", call[k].event, Due(k), Concerned(k), call[k].account,
                                call[k].entry, call[k].read, call[k].writes))
                /\ slips' = IF NonZero(call[k].rows) THEN slips ELSE slips \cup {"local"}
  <1>1. call \in [Calls -> CallRecord] BY DEF Types
  <1>2. PICK r \in CallRecord : r = call[k] BY CallFields
  <1>3. /\ r.at = "send" /\ r.rows \in [Custody -> Int]
        /\ \A j \in Calls : InBook(j) => call[j].event # call[k].event
    BY <1>2, CallFields DEF TakeEvent, At, InBook
  <1>4. CASE r.event \in applied
    <2>1. Ends(k) /\ slips' = slips BY <1>2, <1>4 DEF TakeEvent
    <2> QED BY <1>2, <1>3, <1>4, <2>1, Ending
  <1>5. CASE r.event \notin applied
    <2>12. call[k].event \in Actions \/ NonZero(call[k].rows)
      BY <1>2, <1>3, CallFields DEF StageOK, Fits
    <2>0. PICK due \in [Custody -> Int] : due = Due(k) BY <2>12, DueType
    <2>1. PICK left \in SUBSET Accounts : left = {c \in Accounts : Credit(r.event, due[c]) # 0}
      OBVIOUS
    <2>2. left = Concerned(k) BY <1>2, <2>0, <2>1 DEF Concerned
    <2>3. /\ call' = [call EXCEPT ![k].at = "book", ![k].rows = due, ![k].left = left]
          /\ slips' = IF NonZero(call[k].rows) THEN slips ELSE slips \cup {"local"}
      BY <1>2, <1>5, <2>0, <2>1 DEF TakeEvent, Due, NonZero, Slip
    <2> DEFINE s == Rec("book", r.event, due, left, r.account, r.entry, r.read, r.writes)
    <2>4. "book" \in Stages BY DEF Stages
    <2>5. s \in CallRecord BY <2>4 DEF CallRecord, Rec
    <2>6. PICK t : t = [r EXCEPT !.at = "book", !.rows = due, !.left = left] OBVIOUS
    <2>7. t \in CallRecord BY <2>4, <2>6 DEF CallRecord
    <2>8. Same(s, t) BY <2>6 DEF Same, Rec, CallRecord
    <2>9. call' = [call EXCEPT ![k] = t] BY <1>1, <1>2, <2>3, <2>6
    <2> HIDE DEF s
    <2>10. s = t BY <2>5, <2>7, <2>8, SameRecord
    <2>11. Turns(k, s) BY <1>1, <2>5, <2>9, <2>10, Turning
    <2> QED BY <1>2, <1>3, <1>5, <2>0, <2>2, <2>3, <2>11 DEF s
  <1> QED BY <1>2, <1>4, <1>5

\* What a write makes of the position it has read, and whether it is refused.
Moved(k) == Whole(call[k].rows[call[k].account]) + (IF call[k].read = None THEN 0 ELSE call[k].read)
Refused(k) == Moved(k) < 0 \/ (call[k].read = None /\ HasPosition(call[k].account))
Overwrites(k) == call[k].read # None /\ shares[call[k].account].available # call[k].read

LEMMA WriteSharesTurns ==
    ASSUME Types, NEW k \in Calls, WriteShares(k)
    PROVE  /\ call[k].at = "write" /\ call[k].account \in Accounts /\ ~Locked(call[k].account)
           /\ call[k].event # "dividend" /\ Moved(k) \in Int
           /\ Refused(k) => Turns(k, Idle) /\ overwritten' = overwritten
           /\ ~Refused(k) =>
                /\ Moved(k) >= 0
                /\ Turns(k, Rec("book", call[k].event, call[k].rows, call[k].left, Treasury,
                                call[k].entry, 0,
                                [call[k].writes EXCEPT ![call[k].account] = Moved(k)]))
                /\ overwritten' = IF Overwrites(k) THEN overwritten \cup {call[k].account}
                                  ELSE overwritten
  <1>1. call \in [Calls -> CallRecord] BY DEF Types
  <1>2. PICK r \in CallRecord : r = call[k] BY CallFields
  <1>3. /\ r.at = "write" /\ r.rows \in [Custody -> Int] /\ r.account \in Accounts
        /\ r.writes \in [Accounts -> Int] /\ r.read \in Int /\ r.event # "dividend"
        /\ r.account \in Custody /\ ~Locked(r.account)
    BY <1>2, CallFields DEF WriteShares, At, StageOK, Fits, Custody
  <1>4. PICK n \in Int : n = Moved(k)
    <2>1. PICK m \in Int : m = IF r.read = None THEN 0 ELSE r.read BY <1>3
    <2>2. PICK w \in Int : w = Whole(r.rows[r.account])
      <3>1. r.rows[r.account] \in Int BY <1>3
      <3> QED BY <3>1, WholeType
    <2>3. Moved(k) = w + m BY <1>2, <2>1, <2>2 DEF Moved
    <2> QED BY <2>3
  <1>5. CASE Refused(k)
    <2>1. Ends(k) /\ overwritten' = overwritten
      BY <1>5 DEF WriteShares, RollsBack, Moved, Refused
    <2> QED BY <1>2, <1>3, <1>4, <1>5, <2>1, Ending
  <1>6. CASE ~Refused(k)
    <2>0. n >= 0 BY <1>4, <1>6 DEF Refused
    <2>1. PICK w \in [Accounts -> Int] : w = [r.writes EXCEPT ![r.account] = n] BY <1>3
    <2> DEFINE s == Rec("book", r.event, r.rows, r.left, Treasury, r.entry, 0, w)
    <2>2. "book" \in Stages /\ Treasury \in Custody /\ 0 \in Int BY SubscriptionsType DEF Stages
    <2>3. s \in CallRecord BY <2>2 DEF CallRecord, Rec
    <2>4. /\ call' = [call EXCEPT ![k].at = "book", ![k].writes[r.account] = n,
                                  ![k].account = Treasury, ![k].read = 0]
          /\ overwritten' = IF Overwrites(k) THEN overwritten \cup {r.account} ELSE overwritten
      BY <1>2, <1>4, <1>6 DEF WriteShares, WritesOver, Moved, Refused, Overwrites
    <2>5. PICK t : t = [r EXCEPT !.at = "book", !.writes = w, !.account = Treasury, !.read = 0]
      OBVIOUS
    <2>6. t \in CallRecord BY <2>2, <2>5 DEF CallRecord
    <2>7. Same(s, t) BY <2>5 DEF Same, Rec, CallRecord
    <2>8. call' = [call EXCEPT ![k] = t] BY <1>1, <1>2, <2>1, <2>4, <2>5 DEF CallRecord
    <2> HIDE DEF s
    <2>9. s = t BY <2>3, <2>6, <2>7, SameRecord
    <2>10. Turns(k, s) BY <1>1, <2>3, <2>8, <2>9, Turning
    <2> QED BY <1>2, <1>3, <1>4, <1>6, <2>0, <2>1, <2>4, <2>10 DEF s
  <1> QED BY <1>5, <1>6

LEMMA CommitEventTurns ==
    ASSUME Types, NEW k \in Calls, CommitEvent(k)
    PROVE  /\ call[k].at = "book" /\ (call[k].event = "dividend" \/ call[k].left = {})
           /\ Turns(k, Idle)
           /\ applied' = applied \cup {call[k].event}
           /\ shares' \in [Accounts -> [available : Nat, reserved : Nat, pending : Nat]]
           /\ \A c \in Accounts :
                /\ shares'[c].reserved = shares[c].reserved /\ shares'[c].pending = shares[c].pending
                /\ shares'[c].available = IF call[k].writes[c] < 0 THEN shares[c].available
                                          ELSE call[k].writes[c]
           /\ credited' \in [Events -> [Accounts -> Int]]
           /\ \A e \in Events \ {call[k].event}, c \in Accounts : credited'[e][c] = credited[e][c]
           /\ \A c \in Accounts : credited'[call[k].event][c]
                = credited[call[k].event][c] + Credit(call[k].event, call[k].rows[c])
           /\ paid' \in [Accounts -> Int]
           /\ \A c \in Accounts : paid'[c]
                = paid[c] - (IF call[k].event = "ipo" THEN Whole(call[k].rows[c]) ELSE 0)
  <1>1. PICK r \in CallRecord : r = call[k] BY CallFields
  <1>2. /\ r.at = "book" /\ (r.event = "dividend" \/ r.left = {}) /\ Turns(k, Idle)
        /\ applied' = applied \cup {r.event}
    BY <1>1, Ending DEF CommitEvent, At
  <1>3. r.writes \in [Accounts -> Int] /\ r.event \in Events /\ r.rows \in [Custody -> Int]
    BY <1>1, CallFields
  <1>4. /\ shares' \in [Accounts -> [available : Nat, reserved : Nat, pending : Nat]]
        /\ \A c \in Accounts :
                /\ shares'[c].reserved = shares[c].reserved /\ shares'[c].pending = shares[c].pending
                /\ shares'[c].available = IF r.writes[c] < 0 THEN shares[c].available ELSE r.writes[c]
    <2>1. shares \in [Accounts -> [available : Nat, reserved : Nat, pending : Nat]] BY DEF Types
    <2>2. shares' = [c \in Accounts |-> IF r.writes[c] < 0 THEN shares[c]
                        ELSE [shares[c] EXCEPT !.available = r.writes[c]]]
      BY <1>1 DEF CommitEvent
    <2>3. \A c \in Accounts : r.writes[c] < 0 \/ r.writes[c] \in Nat BY <1>3
    <2> QED BY <2>1, <2>2, <2>3
  <1>5. /\ credited' \in [Events -> [Accounts -> Int]]
        /\ \A e \in Events \ {r.event}, c \in Accounts : credited'[e][c] = credited[e][c]
        /\ \A c \in Accounts : credited'[r.event][c] = credited[r.event][c] + Credit(r.event, r.rows[c])
    <2>1. credited \in [Events -> [Accounts -> Int]] BY DEF Types
    <2>2. \A c \in Accounts : Credit(r.event, r.rows[c]) \in Int
      BY <1>3, CreditType, SubscriptionsType
    <2>3. PICK new : new = [c \in Accounts |-> credited[r.event][c] + Credit(r.event, r.rows[c])]
      OBVIOUS
    <2>4. new \in [Accounts -> Int] BY <1>3, <2>1, <2>2, <2>3
    <2>5. credited' = [credited EXCEPT ![r.event] = new]
      BY <1>1, <1>3, <2>1, <2>3 DEF CommitEvent
    <2> QED BY <1>3, <2>1, <2>3, <2>4, <2>5
  <1>6. /\ paid' \in [Accounts -> Int]
        /\ \A c \in Accounts : paid'[c] = paid[c] - (IF r.event = "ipo" THEN Whole(r.rows[c]) ELSE 0)
    <2>1. paid \in [Accounts -> Int] BY DEF Types
    <2>2. \A c \in Accounts : Whole(r.rows[c]) \in Int BY <1>3, WholeType, SubscriptionsType
    <2>3. paid' = [c \in Accounts |-> paid[c] - IF r.event = "ipo" THEN Whole(r.rows[c]) ELSE 0]
      BY <1>1 DEF CommitEvent
    <2>4. \A c \in Accounts : paid'[c] = paid[c] - (IF r.event = "ipo" THEN Whole(r.rows[c]) ELSE 0)
      BY <2>3
    <2>5. \A c \in Accounts : paid'[c] \in Int
      <3> TAKE c \in Accounts
      <3>1. PICK m \in Int : m = IF r.event = "ipo" THEN Whole(r.rows[c]) ELSE 0 BY <2>2
      <3>2. paid'[c] = paid[c] - m /\ paid[c] \in Int BY <2>1, <2>4, <3>1
      <3> QED BY <3>2
    <2>6. DOMAIN paid' = Accounts /\ paid' = [c \in Accounts |-> paid'[c]] BY <2>3
    <2> QED BY <2>4, <2>5, <2>6
  <1> QED BY <1>1, <1>2, <1>4, <1>5, <1>6

LEMMA CutOffTurns ==
    ASSUME Types, NEW k \in Calls, CutOff(k)
    PROVE  /\ call[k].at # "idle" /\ Turns(k, Idle) /\ failures' \in 0..MaxFailures
           /\ slips' = IF call[k].at = "entries" THEN slips \cup {"cut"} ELSE slips
  <1>1. failures \in 0..MaxFailures BY DEF Types
  <1>2. call[k].at # "idle" /\ failures < MaxFailures /\ failures' = failures + 1 /\ Ends(k)
    BY DEF CutOff, At
  <1>3. slips' = IF call[k].at = "entries" THEN slips \cup {"cut"} ELSE slips BY DEF CutOff, Slip
  <1> QED BY <1>1, <1>2, <1>3, Ending, CorporateActionsAssumption
-----------------------------------------------------------------------------
\* A step of one call keeps what the stages of the others say.
LEMMA CallsKept ==
    ASSUME Types, NEW k \in Calls, NEW r, Turns(k, r), Fits(r, minted'), minted => minted'
    PROVE  call' \in [Calls -> CallRecord] /\ \A j \in Calls : StageOK(j)'
  <1>1. \A j \in Calls \ {k} : StageOK(j)'
    <2> TAKE j \in Calls \ {k}
    <2>1. call'[j] = call[j] /\ Fits(call[j], minted) BY DEF Turns, Types, StageOK
    <2>2. Fits(call[j], minted') BY <2>1 DEF Fits
    <2> QED BY <2>1, <2>2 DEF StageOK
  <1>2. StageOK(k)' BY DEF Turns, StageOK
  <1> QED BY <1>1, <1>2 DEF Turns

LEMMA IdleFits == ASSUME NEW m PROVE Fits(Idle, m)
  BY DEF Fits, Idle

Positions == [Accounts -> [available : Nat, reserved : Nat, pending : Nat]]

LEMMA MoveSharesChanges ==
    ASSUME Types, NEW c \in Accounts, NEW quantity \in Nat, NEW from, NEW to,
           MoveShares(c, from, to, quantity),
           \/ from = "available" /\ to = "reserved"
           \/ from = "reserved" /\ to = "available"
    PROVE  /\ ~Locked(c)
           /\ shares' \in Positions
           /\ \A x \in Accounts \ {c} : shares'[x] = shares[x]
           /\ shares'[c].pending = shares[c].pending
           /\ shares'[c].available + shares'[c].reserved + shares'[c].pending = Total(c)
  <1>1. shares \in [Accounts -> [available : Nat, reserved : Nat, pending : Nat]] BY DEF Types
  <1>2. /\ ~Locked(c) /\ shares[c][from] >= quantity
        /\ shares' = [shares EXCEPT ![c][from] = @ - quantity, ![c][to] = @ + quantity]
    BY DEF MoveShares
  <1>3. CASE from = "available" /\ to = "reserved"
    <2>1. /\ shares[c].available >= quantity
          /\ shares' = [shares EXCEPT ![c].available = @ - quantity, ![c].reserved = @ + quantity]
      BY <1>2, <1>3
    <2> QED BY <1>1, <1>2, <2>1 DEF Total, Positions
  <1>4. CASE from = "reserved" /\ to = "available"
    <2>1. /\ shares[c].reserved >= quantity
          /\ shares' = [shares EXCEPT ![c].reserved = @ - quantity, ![c].available = @ + quantity]
      BY <1>2, <1>4
    <2> QED BY <1>1, <1>2, <2>1 DEF Total, Positions
  <1> QED BY <1>3, <1>4

\* What a customer's sell orders do with the shares: reserve, release.
LEMMA SharesMove ==
    ASSUME Types, NEW c \in Accounts, Reserve(c) \/ Release(c)
    PROVE  /\ ~Locked(c)
           /\ shares' \in Positions
           /\ \A x \in Accounts \ {c} : shares'[x] = shares[x]
           /\ shares'[c].pending = shares[c].pending
           /\ shares'[c].available + shares'[c].reserved + shares'[c].pending = Total(c)
           /\ UNCHANGED <<bei, call, settling, applied, credited, paid, overwritten, calls,
                          failures, slips>>
  <1>1. PICK from, to : \E quantity \in Nat :
            /\ MoveShares(c, from, to, quantity)
            /\ \/ from = "available" /\ to = "reserved"
               \/ from = "reserved" /\ to = "available"
    <2>1. 2 \in Nat OBVIOUS
    <2> QED BY <2>1 DEF Reserve, Release
  <1>2. PICK quantity \in Nat : MoveShares(c, from, to, quantity) BY <1>1
  <1>3. UNCHANGED <<bei, call, settling, applied, credited, paid, overwritten, calls, failures,
                    slips>>
    BY <1>2 DEF MoveShares
  <1> QED BY <1>1, <1>2, <1>3, MoveSharesChanges

\* The settlement of a purchase: what it reads ...
LEMMA SettlementReadsIs ==
    ASSUME Types, NEW c \in Accounts, SettlementReads(c)
    PROVE  /\ settling' \in [Accounts -> Settlement]
           /\ \A x \in Accounts \ {c} : settling'[x] = settling[x]
           /\ settling[c].at = "due" /\ settling'[c].at = "read"
           /\ settling'[c].pending = shares[c].pending
           /\ UNCHANGED <<bei, call, shares, applied, credited, paid, overwritten, calls, failures,
                          slips>>
  <1>1. settling \in [Accounts -> Settlement] /\ settling[c].at = "due" BY DEF Types, SettlementReads
  <1>2. PICK r \in Settlement : r = [at |-> "read", available |-> shares[c].available,
                                     pending |-> shares[c].pending]
    BY TotalType DEF Settlement
  <1>3. settling' = [settling EXCEPT ![c] = r] BY <1>2 DEF SettlementReads
  <1>4. UNCHANGED <<bei, call, shares, applied, credited, paid, overwritten, calls, failures, slips>>
    BY DEF SettlementReads
  <1> QED BY <1>1, <1>2, <1>3, <1>4

\* ... what it writes ...
LEMMA SettlementWritesIs ==
    ASSUME Types, NEW c \in Accounts, SettlementWrites(c)
    PROVE  /\ ~Locked(c)
           /\ settling' \in [Accounts -> Settlement]
           /\ \A x \in Accounts \ {c} : settling'[x] = settling[x]
           /\ settling[c].at = "read" /\ settling'[c].at = "done"
           /\ shares' \in Positions
           /\ \A x \in Accounts \ {c} : shares'[x] = shares[x]
           /\ shares'[c].available = settling[c].available + Bought[c]
           /\ shares'[c].reserved = shares[c].reserved
           /\ settling[c].pending = Bought[c] => shares'[c].pending = 0
           /\ overwritten' = IF shares[c].available # settling[c].available
                             THEN overwritten \cup {c} ELSE overwritten
           /\ UNCHANGED <<bei, call, applied, credited, paid, calls, failures, slips>>
  <1>1. /\ settling \in [Accounts -> Settlement]
        /\ shares \in [Accounts -> [available : Nat, reserved : Nat, pending : Nat]]
    BY DEF Types
  <1>2. /\ ~Locked(c) /\ settling[c].at = "read"
        /\ overwritten' = IF shares[c].available # settling[c].available
                          THEN overwritten \cup {c} ELSE overwritten
        /\ UNCHANGED <<bei, call, applied, credited, paid, calls, failures, slips>>
    BY DEF SettlementWrites, WritesOver
  <1>3. PICK r \in Settlement : r = [Unread EXCEPT !.at = "done"] BY DEF Unread, Settlement
  <1>4. r.at = "done" BY <1>3 DEF Unread
  <1>5. settling' = [settling EXCEPT ![c] = r] BY <1>3 DEF SettlementWrites
  <1>6. settling[c].available \in Nat /\ settling[c].pending \in Nat /\ Bought[c] \in Nat
    BY <1>1, SubscriptionsType DEF Settlement
  <1>7. PICK a \in Nat : a = settling[c].available + Bought[c] BY <1>6
  <1>8. PICK d \in Int : d = settling[c].pending - Bought[c] BY <1>6
  <1>9. PICK p \in Nat : p = IF d > 0 THEN d ELSE 0 BY <1>8
  <1>10. shares' = [shares EXCEPT ![c].available = a, ![c].pending = p]
    BY <1>7, <1>8, <1>9 DEF SettlementWrites
  <1>11. /\ shares' \in Positions
         /\ \A x \in Accounts \ {c} : shares'[x] = shares[x]
         /\ shares'[c].available = a /\ shares'[c].pending = p
         /\ shares'[c].reserved = shares[c].reserved
    BY <1>1, <1>10 DEF Positions
  <1>12. settling[c].pending = Bought[c] => p = 0 BY <1>6, <1>8, <1>9
  <1> QED BY <1>1, <1>2, <1>3, <1>4, <1>5, <1>7, <1>11, <1>12

\* ... and that it may roll back in between.
LEMMA SettlementFailsIs ==
    ASSUME Types, NEW c \in Accounts, SettlementFails(c)
    PROVE  /\ settling' \in [Accounts -> Settlement]
           /\ \A x \in Accounts \ {c} : settling'[x] = settling[x]
           /\ settling[c].at = "read" /\ settling'[c].at = "due"
           /\ failures' \in 0..MaxFailures
           /\ UNCHANGED <<bei, call, shares, applied, credited, paid, overwritten, calls, slips>>
  <1>1. settling \in [Accounts -> Settlement] /\ failures \in 0..MaxFailures BY DEF Types
  <1>2. /\ settling[c].at = "read" /\ failures < MaxFailures /\ failures' = failures + 1
        /\ UNCHANGED <<bei, call, shares, applied, credited, paid, overwritten, calls, slips>>
    BY DEF SettlementFails
  <1>3. PICK r \in Settlement : r = Unread BY DEF Unread, Settlement
  <1>4. r.at = "due" BY <1>3 DEF Unread
  <1>5. settling' = [settling EXCEPT ![c] = r] BY <1>3 DEF SettlementFails
  <1> QED BY <1>1, <1>2, <1>3, <1>4, <1>5, CorporateActionsAssumption

LEMMA OfferedType == Offered \in Nat
  BY CorporateActionsAssumption, SubscriptionsType, SumNat DEF Offered

LEMMA TypesInit == Init => Types
  <1> SUFFICES ASSUME Init PROVE Types OBVIOUS
  <1>1. /\ Held \in [Accounts -> Nat] /\ Bought \in [Accounts -> Nat]
        /\ MaxCalls \in Nat /\ MaxFailures \in Nat
    BY CorporateActionsAssumption
  <1>2. /\ settled \in [Accounts -> Nat] /\ completed \subseteq Actions
        /\ subscribed \subseteq Accounts /\ minted \in BOOLEAN /\ applied \subseteq Events
        /\ slips \subseteq {"recomputed", "again", "local", "cut"}
    BY <1>1 DEF Init
  <1>7. calls \in 0..MaxCalls /\ failures \in 0..MaxFailures BY <1>1 DEF Init
  <1>8. /\ rows \in [Actions -> [Custody -> Int]] /\ allocations \in [Accounts -> Nat]
        /\ credited \in [Events -> [Accounts -> Int]]
    BY DEF Init
  <1>3. issued \in [Custody -> [shares : Int, cash : Int]] BY DEF Init
  <1>4. shares \in [Accounts -> [available : Nat, reserved : Nat, pending : Nat]]
    BY <1>1 DEF Init
  <1>5. call \in [Calls -> CallRecord] BY IdleRecord DEF Init
  <1>6. \A k \in Calls : StageOK(k) BY IdleFits DEF Init, StageOK
  <1>9. settling \in [Accounts -> Settlement]
    <2>1. Unread \in Settlement BY DEF Unread, Settlement
    <2> QED BY <2>1 DEF Init
  <1>10. paid \in [Accounts -> Int] /\ overwritten \subseteq Accounts BY DEF Init
  <1> QED BY <1>2, <1>3, <1>4, <1>5, <1>6, <1>7, <1>8, <1>9, <1>10 DEF Types

Others == /\ UNCHANGED <<settled, rows, completed, subscribed, issued, minted, allocations,
                         shares, settling, applied, credited, paid>>
          /\ overwritten' \subseteq overwritten \cup Accounts

\* A step that changes no more than a call, and the counts and slips.
LEMMA TypesOfTurn ==
    ASSUME Types, NEW k \in Calls, NEW r, Turns(k, r), Fits(r, minted), Others,
           calls' \in 0..MaxCalls, failures' \in 0..MaxFailures,
           slips' \subseteq {"recomputed", "again", "local", "cut"}
    PROVE  Types'
  <1>1. minted' = minted BY DEF Others
  <1>2. call' \in [Calls -> CallRecord] /\ \A j \in Calls : StageOK(j)' BY <1>1, CallsKept
  <1> QED BY <1>2 DEF Types, Others

LEMMA TypesNext == Types /\ [Next]_vars => Types'
  <1> SUFFICES ASSUME Types, [Next]_vars PROVE Types' OBVIOUS
  <1>0. /\ settled \in [Accounts -> Nat] /\ rows \in [Actions -> [Custody -> Int]]
        /\ completed \subseteq Actions /\ subscribed \subseteq Accounts
        /\ issued \in [Custody -> [shares : Int, cash : Int]]
        /\ minted \in BOOLEAN /\ allocations \in [Accounts -> Nat]
        /\ calls \in 0..MaxCalls /\ failures \in 0..MaxFailures
        /\ slips \subseteq {"recomputed", "again", "local", "cut"}
        /\ applied \subseteq Events
        /\ settling \in [Accounts -> Settlement] /\ paid \in [Accounts -> Int]
        /\ overwritten \subseteq Accounts
        /\ shares \in [Accounts -> [available : Nat, reserved : Nat, pending : Nat]]
    BY DEF Types
  <1>1. CASE UNCHANGED vars
    <2>1. \A k \in Calls : StageOK(k)' BY <1>1 DEF Types, vars, bei, sekuritas, StageOK
    <2> QED BY <1>1, <2>1 DEF Types, vars, bei, sekuritas
  <1>2. ASSUME NEW c \in Accounts,
               \/ Reserve(c) \/ Release(c)
               \/ SettlementReads(c) \/ SettlementWrites(c) \/ SettlementFails(c)
        PROVE  Types'
    <2>1. /\ shares' \in [Accounts -> [available : Nat, reserved : Nat, pending : Nat]]
          /\ settling' \in [Accounts -> Settlement] /\ overwritten' \subseteq Accounts
          /\ failures' \in 0..MaxFailures
          /\ UNCHANGED <<bei, call, applied, credited, paid, calls, slips>>
      <3>1. CASE Reserve(c) \/ Release(c) BY <1>0, <3>1, SharesMove DEF Positions
      <3>2. CASE SettlementReads(c) BY <1>0, <3>2, SettlementReadsIs
      <3>3. CASE SettlementWrites(c) BY <1>0, <3>3, SettlementWritesIs DEF Positions
      <3>4. CASE SettlementFails(c) BY <1>0, <3>4, SettlementFailsIs
      <3> QED BY <1>2, <3>1, <3>2, <3>3, <3>4
    <2>2. \A k \in Calls : StageOK(k)' BY <2>1 DEF Types, bei, StageOK
    <2> QED BY <2>1, <2>2 DEF Types, bei
  <1>3. ASSUME NEW c \in Accounts, BeiSettles(c) \/ Subscribe(c) PROVE Types'
    <2>1. settled' \in [Accounts -> Nat] /\ subscribed' \subseteq Accounts
      BY <1>0, <1>3, SubscriptionsType DEF BeiSettles, Subscribe
    <2>2. UNCHANGED <<rows, completed, issued, minted, allocations, call, sekuritas, calls,
                      failures, slips>>
      BY <1>3 DEF BeiSettles, Subscribe
    <2>3. \A k \in Calls : StageOK(k)' BY <2>2 DEF Types, StageOK
    <2> QED BY <2>1, <2>2, <2>3 DEF Types, sekuritas
  <1>4. ASSUME NEW k \in Calls, NEW a \in Actions, Process(k, a) PROVE Types'
    <2> DEFINE r == Rec(IF a \in completed THEN "repeat" ELSE "positions", a, Idle.rows, {},
                        Treasury, 0, 0, Idle.writes)
    <2>1. Turns(k, r) /\ calls' \in 0..MaxCalls BY <1>4, ProcessTurns
    <2>2. Fits(r, minted) BY DEF Fits, Rec, Idle
    <2>3. Others /\ failures' = failures /\ slips' = slips
      BY <1>4 DEF Process, Others, bei, sekuritas
    <2> HIDE DEF r
    <2> QED BY <1>0, <2>1, <2>2, <2>3, TypesOfTurn
  <1>5. ASSUME NEW k \in Calls, Repeat(k) PROVE Types'
    <2>1. PICK r : r = Rec("send", call[k].event, rows[call[k].event], call[k].left, call[k].account,
                           call[k].entry, call[k].read, call[k].writes)
      OBVIOUS
    <2>2. call[k].at = "repeat" /\ call[k].event \in Actions /\ Turns(k, r)
      BY <1>5, <2>1, RepeatTurns
    <2>3. Fits(r, minted) BY <2>1, <2>2, CallFields DEF Fits, Rec, StageOK
    <2>4. Others /\ failures' = failures /\ slips' = slips /\ calls' = calls
      BY <1>5 DEF Repeat, Others, bei, sekuritas
    <2> QED BY <1>0, <2>2, <2>3, <2>4, TypesOfTurn
  <1>6. ASSUME NEW k \in Calls, ReadPositions(k) PROVE Types'
    <2>1. PICK r : r = Rec("insert", call[k].event, Entitled(call[k].event), call[k].left,
                           call[k].account, call[k].entry, call[k].read, call[k].writes)
      OBVIOUS
    <2>2. call[k].at = "positions" /\ call[k].event \in Actions /\ Turns(k, r)
      BY <1>6, <2>1, ReadPositionsTurns
    <2>3. Fits(r, minted) BY <2>1, <2>2, CallFields DEF Fits, Rec, StageOK
    <2>4. Others /\ failures' = failures /\ slips' = slips /\ calls' = calls
      BY <1>6 DEF ReadPositions, Others, bei, sekuritas
    <2> QED BY <1>0, <2>2, <2>3, <2>4, TypesOfTurn
  <1>7. ASSUME NEW k \in Calls, InsertRows(k) PROVE Types'
    <2>1. PICK r : r = Rec("complete", call[k].event, call[k].rows, call[k].left,
                           call[k].account, call[k].entry, call[k].read, call[k].writes)
      OBVIOUS
    <2>2. call[k].at = "insert" /\ call[k].event \in Actions /\ Turns(k, r)
      BY <1>7, <2>1, InsertRowsTurns
    <2>3. Fits(r, minted) BY <2>1, <2>2, CallFields DEF Fits, Rec, StageOK
    <2>4. /\ UNCHANGED <<settled, completed, subscribed, issued, minted, allocations, sekuritas,
                         calls, failures>>
          /\ slips' \subseteq {"recomputed", "again", "local", "cut"}
      BY <1>0, <1>7 DEF InsertRows, Slip
    <2>5. rows' \in [Actions -> [Custody -> Int]]
      <3>1. PICK new : new = [c \in Custody |-> IF rows[call[k].event][c] = 0 THEN call[k].rows[c]
                                                ELSE rows[call[k].event][c]]
        OBVIOUS
      <3>2. new \in [Custody -> Int] BY <1>0, <2>2, <3>1, CallFields
      <3>3. rows' = [rows EXCEPT ![call[k].event] = new] BY <1>0, <1>7, <2>2, <3>1 DEF InsertRows
      <3> QED BY <1>0, <3>2, <3>3
    <2>6. call' \in [Calls -> CallRecord] /\ \A j \in Calls : StageOK(j)'
      BY <2>2, <2>3, <2>4, CallsKept
    <2> QED BY <2>4, <2>5, <2>6 DEF Types, sekuritas
  <1>8. ASSUME NEW k \in Calls, Complete(k) PROVE Types'
    <2>1. PICK r : r = Rec("send", call[k].event, call[k].rows, call[k].left,
                           call[k].account, call[k].entry, call[k].read, call[k].writes)
      OBVIOUS
    <2>2. call[k].at = "complete" /\ call[k].event \in Actions /\ Turns(k, r)
      BY <1>8, <2>1, CompleteTurns
    <2>3. Fits(r, minted) BY <2>1, <2>2, CallFields DEF Fits, Rec, StageOK
    <2>4. /\ UNCHANGED <<settled, rows, subscribed, issued, minted, allocations, sekuritas,
                         calls, failures, slips>>
          /\ completed' \subseteq Actions
      BY <1>0, <1>8, <2>2 DEF Complete
    <2>5. call' \in [Calls -> CallRecord] /\ \A j \in Calls : StageOK(j)'
      BY <2>2, <2>3, <2>4, CallsKept
    <2> QED BY <2>4, <2>5 DEF Types, sekuritas
  <1>9. ASSUME NEW k \in Calls, Allocate(k) PROVE Types'
    <2>1. PICK r : r = Rec("allocate", "ipo", Idle.rows, subscribed, Treasury, 0, 0, Idle.writes)
      OBVIOUS
    <2>2. Turns(k, r) /\ calls' \in 0..MaxCalls BY <1>9, <2>1, AllocateTurns
    <2>3. minted' = TRUE BY <1>9 DEF Allocate
    <2>4. Fits(r, minted') BY <2>1, <2>3 DEF Fits, Rec, Idle
    <2>5. /\ UNCHANGED <<settled, rows, completed, subscribed, allocations, sekuritas, failures>>
          /\ slips' \subseteq {"recomputed", "again", "local", "cut"}
      BY <1>0, <1>9 DEF Allocate, Slip
    <2>6. issued' \in [Custody -> [shares : Int, cash : Int]]
      BY <1>0, <1>9, OfferedType, SubscriptionsType DEF Allocate
    <2>7. call' \in [Calls -> CallRecord] /\ \A j \in Calls : StageOK(j)'
      BY <2>2, <2>3, <2>4, CallsKept
    <2> QED BY <2>2, <2>3, <2>5, <2>6, <2>7 DEF Types, sekuritas
  <1>10. ASSUME NEW k \in Calls, NEW c \in Accounts, InsertAllocation(k, c) PROVE Types'
    <2>1. PICK r : r = Rec("entries", call[k].event, call[k].rows, call[k].left \ {c}, c, 1,
                           call[k].read, call[k].writes)
      OBVIOUS
    <2>2. call[k].at = "allocate" /\ Turns(k, r) BY <1>10, <2>1, InsertAllocationTurns
    <2>3. Fits(r, minted) BY <2>1, <2>2, CallFields DEF Fits, Rec, StageOK
    <2>4. /\ UNCHANGED <<settled, rows, completed, subscribed, issued, minted, sekuritas, calls,
                         failures, slips>>
          /\ allocations' \in [Accounts -> Nat]
      BY <1>0, <1>10 DEF InsertAllocation
    <2>5. call' \in [Calls -> CallRecord] /\ \A j \in Calls : StageOK(j)'
      BY <2>2, <2>3, <2>4, CallsKept
    <2> QED BY <2>4, <2>5 DEF Types, sekuritas
  <1>11. ASSUME NEW k \in Calls, BookEntry(k) PROVE Types'
    <2>1. /\ call[k].at = "entries" /\ call[k].account \in Accounts /\ call[k].entry \in 1..4
          /\ call[k].event = "ipo" /\ minted /\ call[k].account \notin call[k].left
          /\ issued' \in [Custody -> [shares : Int, cash : Int]]
      BY <1>11, BookEntryTurns
    <2>2. UNCHANGED <<settled, rows, completed, subscribed, minted, allocations, sekuritas, calls,
                      failures, slips>>
      BY <1>11 DEF BookEntry
    <2>3. PICK r : Turns(k, r) /\ Fits(r, minted)
      <3>1. CASE call[k].entry # 4
        <4>1. PICK r : r = Rec("entries", call[k].event, call[k].rows, call[k].left, call[k].account,
                               call[k].entry + 1, call[k].read, call[k].writes)
          OBVIOUS
        <4>2. Turns(k, r) BY <1>11, <3>1, <4>1, BookEntryTurns
        <4>3. Fits(r, minted) BY <2>1, <3>1, <4>1, CallFields DEF Fits, Rec, StageOK
        <4> QED BY <4>2, <4>3
      <3>2. CASE call[k].entry = 4
        <4>1. PICK r : r = Rec("allocate", call[k].event,
                               [call[k].rows EXCEPT ![call[k].account]
                                  = Unit * Subscriptions[call[k].account]],
                               call[k].left, Treasury, 0, call[k].read, call[k].writes)
          OBVIOUS
        <4>2. Turns(k, r) BY <1>11, <3>2, <4>1, BookEntryTurns
        <4>3. Fits(r, minted) BY <2>1, <4>1, CallFields DEF Fits, Rec, StageOK
        <4> QED BY <4>2, <4>3
      <3> QED BY <3>1, <3>2
    <2>4. call' \in [Calls -> CallRecord] /\ \A j \in Calls : StageOK(j)'
      BY <2>2, <2>3, CallsKept
    <2> QED BY <2>1, <2>2, <2>4 DEF Types, sekuritas
  <1>12. ASSUME NEW k \in Calls, SendAllocation(k) PROVE Types'
    <2>1. Others /\ failures' = failures /\ slips' = slips /\ calls' = calls
      BY <1>12 DEF SendAllocation, Others, bei, sekuritas
    <2>2. call[k].at = "allocate" /\ call[k].left = {} BY <1>12, SendAllocationTurns
    <2>3. PICK r : Turns(k, r) /\ Fits(r, minted)
      <3>1. CASE \E c \in Accounts : call[k].rows[c] # 0
        <4>1. PICK r : r = Rec("send", call[k].event, call[k].rows, call[k].left,
                               call[k].account, call[k].entry, call[k].read, call[k].writes)
          OBVIOUS
        <4>2. Goto(k, "send") /\ "send" \in Stages BY <1>12, <3>1 DEF SendAllocation, Stages
        <4>3. Turns(k, r) BY <4>1, <4>2, StageTurns
        <4>4. NonZero(call[k].rows) BY <3>1, SubscriptionsType DEF NonZero
        <4>5. Fits(r, minted) BY <2>2, <4>1, <4>4, CallFields DEF Fits, Rec, StageOK
        <4> QED BY <4>3, <4>5
      <3>2. CASE ~\E c \in Accounts : call[k].rows[c] # 0
        <4>1. Ends(k) BY <1>12, <3>2 DEF SendAllocation
        <4> QED BY <4>1, Ending, IdleFits
      <3> QED BY <3>1, <3>2
    <2> QED BY <1>0, <2>1, <2>3, TypesOfTurn
  <1>13. ASSUME NEW k \in Calls, NEW c \in Accounts, ReadShares(k, c) PROVE Types'
    <2>1. PICK r : r = Rec("write", call[k].event, call[k].rows, call[k].left \ {c}, c,
                           call[k].entry, Found(c), call[k].writes)
      OBVIOUS
    <2>2. call[k].event # "dividend" /\ Turns(k, r) BY <1>13, <2>1, ReadSharesTurns
    <2>3. Fits(r, minted) BY <2>1, <2>2, CallFields DEF Fits, Rec, StageOK
    <2>4. Others /\ failures' = failures /\ slips' = slips /\ calls' = calls
      BY <1>13 DEF ReadShares, Others, bei, sekuritas
    <2> QED BY <1>0, <2>2, <2>3, <2>4, TypesOfTurn
  <1>14. ASSUME NEW k \in Calls, TakeEvent(k) PROVE Types'
    <2>1. Others /\ failures' = failures /\ calls' = calls
      BY <1>14 DEF TakeEvent, Others, bei, sekuritas
    <2>2. CASE call[k].event \in applied
      BY <1>0, <1>14, <2>1, <2>2, TakeEventTurns, IdleFits, TypesOfTurn
    <2>3. CASE call[k].event \notin applied
      <3>1. PICK r : r = Rec("book", call[k].event, Due(k), Concerned(k), call[k].account,
                             call[k].entry, call[k].read, call[k].writes)
        OBVIOUS
      <3>2. Turns(k, r) /\ slips' \subseteq slips \cup {"local"}
        BY <1>14, <2>3, <3>1, TakeEventTurns
      <3>3. Fits(r, minted) BY <3>1 DEF Fits, Rec
      <3> QED BY <1>0, <2>1, <3>2, <3>3, TypesOfTurn
    <2> QED BY <2>2, <2>3
  <1>15. ASSUME NEW k \in Calls, WriteShares(k) PROVE Types'
    <2>0. overwritten' \subseteq overwritten \cup Accounts BY <1>15, WriteSharesTurns
    <2>1. Others /\ failures' = failures /\ calls' = calls /\ slips' = slips
      BY <1>15, <2>0 DEF WriteShares, Others, bei
    <2>3. CASE Refused(k)
      BY <1>0, <1>15, <2>1, <2>3, WriteSharesTurns, IdleFits, TypesOfTurn
    <2>4. CASE ~Refused(k)
      <3>1. PICK r : r = Rec("book", call[k].event, call[k].rows, call[k].left, Treasury,
                             call[k].entry, 0,
                             [call[k].writes EXCEPT ![call[k].account] = Moved(k)])
        OBVIOUS
      <3>2. Turns(k, r) BY <1>15, <2>4, <3>1, WriteSharesTurns
      <3>3. Fits(r, minted) BY <3>1 DEF Fits, Rec
      <3> QED BY <1>0, <2>1, <3>2, <3>3, TypesOfTurn
    <2> QED BY <2>3, <2>4
  <1>16. ASSUME NEW k \in Calls, CommitEvent(k) PROVE Types'
    <2>1. UNCHANGED <<bei, settling, overwritten, calls, failures, slips>> BY <1>16 DEF CommitEvent
    <2>2. /\ Turns(k, Idle) /\ applied' = applied \cup {call[k].event}
          /\ paid' \in [Accounts -> Int]
          /\ shares' \in [Accounts -> [available : Nat, reserved : Nat, pending : Nat]]
          /\ credited' \in [Events -> [Accounts -> Int]]
      BY <1>16, CommitEventTurns
    <2>3. applied' \subseteq Events BY <1>0, <2>2, CallFields
    <2>4. minted' = minted BY <2>1 DEF bei
    <2>5. call' \in [Calls -> CallRecord] /\ \A j \in Calls : StageOK(j)'
      BY <2>2, <2>4, IdleFits, CallsKept
    <2> QED BY <2>1, <2>2, <2>3, <2>5 DEF Types, bei
  <1>17. ASSUME NEW k \in Calls, CutOff(k) PROVE Types'
    <2>1. Others /\ calls' = calls BY <1>17 DEF CutOff, Others, bei, sekuritas
    <2>2. Turns(k, Idle) /\ failures' \in 0..MaxFailures /\ slips' \subseteq slips \cup {"cut"}
      BY <1>17, CutOffTurns
    <2> QED BY <1>0, <2>1, <2>2, IdleFits, TypesOfTurn
  <1> QED BY <1>1, <1>2, <1>3, <1>4, <1>5, <1>6, <1>7, <1>8, <1>9, <1>10, <1>11, <1>12,
             <1>13, <1>14, <1>15, <1>16, <1>17 DEF Next
-----------------------------------------------------------------------------
\* The steps of a call that leave the IPO's books alone.
Quiet(k) == \/ \E a \in Actions : Process(k, a)
            \/ Repeat(k) \/ ReadPositions(k) \/ InsertRows(k) \/ Complete(k) \/ SendAllocation(k)
            \/ \E c \in Accounts : ReadShares(k, c)
            \/ TakeEvent(k) \/ WriteShares(k) \/ CommitEvent(k) \/ CutOff(k)

\* The steps of a customer's.
Customer(c) == \/ BeiSettles(c) \/ Subscribe(c) \/ Reserve(c) \/ Release(c)
               \/ SettlementReads(c) \/ SettlementWrites(c) \/ SettlementFails(c)

LEMMA NextSteps ==
    ASSUME Next
    PROVE  \/ \E c \in Accounts : Customer(c)
           \/ \E k \in Calls : \/ Quiet(k) \/ Allocate(k) \/ BookEntry(k)
                               \/ \E c \in Accounts : InsertAllocation(k, c)
  BY DEF Next, Quiet, Customer

LEMMA CustomerKeeps ==
    ASSUME Types, NEW c \in Accounts, Customer(c)
    PROVE  /\ UNCHANGED <<rows, completed, issued, minted, allocations, call, applied, credited,
                          paid, calls, slips>>
           /\ BeiSettles(c) \/ settled' = settled
  <1>1. CASE BeiSettles(c) \/ Subscribe(c) BY <1>1 DEF BeiSettles, Subscribe, sekuritas
  <1>2. CASE Reserve(c) \/ Release(c) BY <1>2, SharesMove DEF bei
  <1>3. CASE SettlementReads(c) BY <1>3 DEF SettlementReads, bei
  <1>4. CASE SettlementWrites(c) BY <1>4 DEF SettlementWrites, bei
  <1>5. CASE SettlementFails(c) BY <1>5 DEF SettlementFails, bei
  <1> QED BY <1>1, <1>2, <1>3, <1>4, <1>5 DEF Customer

\* What a quiet step does to its call.
Calm(k, r) ==
    /\ Turns(k, r) /\ r.at \notin {"allocate", "entries"}
    /\ r.at = "idle" \/ r.event # "ipo" \/ IsIpo(k)
    /\ UNCHANGED <<settled, subscribed, issued, minted, allocations>>
    /\ calls' >= calls
    /\ "cut" \notin slips' => "cut" \notin slips /\ call[k].at # "entries"
    /\ "ipo" \in applied' => "ipo" \in applied \/ IsIpo(k)

LEMMA QuietIsCalm ==
    ASSUME Types, NEW k \in Calls, Quiet(k)
    PROVE  \E r \in CallRecord : Calm(k, r)
  <1>0. calls \in Int /\ "ipo" \notin Actions BY IdleRecord DEF Types
  <1>00. ASSUME NEW r, Turns(k, r) PROVE r \in CallRecord BY <1>00 DEF Turns
  <1>1. ASSUME NEW a \in Actions, Process(k, a) PROVE \E r \in CallRecord : Calm(k, r)
    <2>1. PICK r : r = Rec(IF a \in completed THEN "repeat" ELSE "positions", a, Idle.rows, {},
                           Treasury, 0, 0, Idle.writes)
      OBVIOUS
    <2>2. Turns(k, r) /\ calls' = calls + 1 /\ call[k] = Idle BY <1>1, <2>1, ProcessTurns
    <2>3. UNCHANGED <<settled, subscribed, issued, minted, allocations, slips, applied>>
      BY <1>1 DEF Process, bei, sekuritas
    <2>4. r.at \in {"repeat", "positions"} /\ r.event # "ipo" BY <1>0, <2>1 DEF Rec
    <2>5. Calm(k, r) BY <1>0, <2>2, <2>3, <2>4 DEF Calm, Idle
    <2> QED BY <1>00, <2>2, <2>5
  <1>2. CASE Repeat(k)
    <2>1. PICK r : r = Rec("send", call[k].event, rows[call[k].event], call[k].left, call[k].account,
                           call[k].entry, call[k].read, call[k].writes)
      OBVIOUS
    <2>2. Turns(k, r) /\ call[k].at = "repeat" BY <1>2, <2>1, RepeatTurns
    <2>3. UNCHANGED <<settled, subscribed, issued, minted, allocations, slips, applied, calls>>
      BY <1>2 DEF Repeat, bei, sekuritas
    <2>4. r.at = "send" /\ r.event = call[k].event BY <2>1 DEF Rec
    <2>5. Calm(k, r) BY <1>0, <2>2, <2>3, <2>4 DEF Calm, IsIpo, IpoCall
    <2> QED BY <1>00, <2>2, <2>5
  <1>3. CASE ReadPositions(k)
    <2>1. PICK r : r = Rec("insert", call[k].event, Entitled(call[k].event), call[k].left,
                           call[k].account, call[k].entry, call[k].read, call[k].writes)
      OBVIOUS
    <2>2. Turns(k, r) /\ call[k].at = "positions" BY <1>3, <2>1, ReadPositionsTurns
    <2>3. UNCHANGED <<settled, subscribed, issued, minted, allocations, slips, applied, calls>>
      BY <1>3 DEF ReadPositions, bei, sekuritas
    <2>4. r.at = "insert" /\ r.event = call[k].event BY <2>1 DEF Rec
    <2>5. Calm(k, r) BY <1>0, <2>2, <2>3, <2>4 DEF Calm, IsIpo, IpoCall
    <2> QED BY <1>00, <2>2, <2>5
  <1>4. CASE InsertRows(k)
    <2>1. PICK r : r = Rec("complete", call[k].event, call[k].rows, call[k].left,
                           call[k].account, call[k].entry, call[k].read, call[k].writes)
      OBVIOUS
    <2>2. Turns(k, r) /\ call[k].at = "insert" BY <1>4, <2>1, InsertRowsTurns
    <2>3. /\ UNCHANGED <<settled, subscribed, issued, minted, allocations, applied, calls>>
          /\ slips' = slips \/ slips' = slips \cup {"recomputed"}
      BY <1>4 DEF InsertRows, sekuritas, Slip
    <2>4. r.at = "complete" /\ r.event = call[k].event BY <2>1 DEF Rec
    <2>5. Calm(k, r) BY <1>0, <2>2, <2>3, <2>4 DEF Calm, IsIpo, IpoCall
    <2> QED BY <1>00, <2>2, <2>5
  <1>5. CASE Complete(k)
    <2>1. PICK r : r = Rec("send", call[k].event, call[k].rows, call[k].left,
                           call[k].account, call[k].entry, call[k].read, call[k].writes)
      OBVIOUS
    <2>2. Turns(k, r) /\ call[k].at = "complete" BY <1>5, <2>1, CompleteTurns
    <2>3. UNCHANGED <<settled, subscribed, issued, minted, allocations, slips, applied, calls>>
      BY <1>5 DEF Complete, sekuritas
    <2>4. r.at = "send" /\ r.event = call[k].event BY <2>1 DEF Rec
    <2>5. Calm(k, r) BY <1>0, <2>2, <2>3, <2>4 DEF Calm, IsIpo, IpoCall
    <2> QED BY <1>00, <2>2, <2>5
  <1>6. CASE SendAllocation(k)
    <2>1. PICK r : r = Rec("send", call[k].event, call[k].rows, call[k].left,
                           call[k].account, call[k].entry, call[k].read, call[k].writes)
      OBVIOUS
    <2>2. (Turns(k, r) \/ Turns(k, Idle)) /\ call[k].at = "allocate"
      BY <1>6, <2>1, SendAllocationTurns
    <2>3. UNCHANGED <<settled, subscribed, issued, minted, allocations, slips, applied, calls>>
      BY <1>6 DEF SendAllocation, bei, sekuritas
    <2>4. r.at = "send" /\ r.event = call[k].event /\ Idle.at = "idle" BY <2>1 DEF Rec, Idle
    <2>5. CASE Turns(k, r)
      <3>1. Calm(k, r) BY <1>0, <2>2, <2>3, <2>4, <2>5 DEF Calm, IsIpo, IpoCall
      <3> QED BY <1>00, <2>5, <3>1
    <2>6. CASE Turns(k, Idle)
      <3>1. Calm(k, Idle) BY <1>0, <2>2, <2>3, <2>4, <2>6 DEF Calm
      <3> QED BY <3>1, IdleRecord
    <2> QED BY <2>2, <2>5, <2>6
  <1>7. ASSUME NEW c \in Accounts, ReadShares(k, c) PROVE \E r \in CallRecord : Calm(k, r)
    <2>1. PICK r : r = Rec("write", call[k].event, call[k].rows, call[k].left \ {c}, c,
                           call[k].entry, Found(c), call[k].writes)
      OBVIOUS
    <2>2. Turns(k, r) /\ call[k].at = "book" BY <1>7, <2>1, ReadSharesTurns
    <2>3. UNCHANGED <<settled, subscribed, issued, minted, allocations, slips, applied, calls>>
      BY <1>7 DEF ReadShares, bei, sekuritas
    <2>4. r.at = "write" /\ r.event = call[k].event BY <2>1 DEF Rec
    <2>5. Calm(k, r) BY <1>0, <2>2, <2>3, <2>4 DEF Calm, IsIpo, IpoCall
    <2> QED BY <1>00, <2>2, <2>5
  <1>8. CASE TakeEvent(k)
    <2>1. PICK r : r = Rec("book", call[k].event, Due(k), Concerned(k), call[k].account,
                           call[k].entry, call[k].read, call[k].writes)
      OBVIOUS
    <2>2. /\ Turns(k, r) \/ Turns(k, Idle)
          /\ call[k].at = "send" /\ (slips' = slips \/ slips' = slips \cup {"local"})
      BY <1>8, <2>1, TakeEventTurns
    <2>3. UNCHANGED <<settled, subscribed, issued, minted, allocations, applied, calls>>
      BY <1>8 DEF TakeEvent, bei, sekuritas
    <2>4. r.at = "book" /\ r.event = call[k].event /\ Idle.at = "idle" BY <2>1 DEF Rec, Idle
    <2>5. CASE Turns(k, r)
      <3>1. Calm(k, r) BY <1>0, <2>2, <2>3, <2>4, <2>5 DEF Calm, IsIpo, IpoCall
      <3> QED BY <1>00, <2>5, <3>1
    <2>6. CASE Turns(k, Idle)
      <3>1. Calm(k, Idle) BY <1>0, <2>2, <2>3, <2>4, <2>6 DEF Calm
      <3> QED BY <3>1, IdleRecord
    <2> QED BY <2>2, <2>5, <2>6
  <1>9. CASE WriteShares(k)
    <2>1. PICK r : r = Rec("book", call[k].event, call[k].rows, call[k].left, Treasury,
                           call[k].entry, 0,
                           [call[k].writes EXCEPT ![call[k].account] = Moved(k)])
      OBVIOUS
    <2>2. (Turns(k, r) \/ Turns(k, Idle)) /\ call[k].at = "write"
      BY <1>9, <2>1, WriteSharesTurns
    <2>3. UNCHANGED <<settled, subscribed, issued, minted, allocations, applied, calls, slips>>
      BY <1>9 DEF WriteShares, bei
    <2>4. r.at = "book" /\ r.event = call[k].event /\ Idle.at = "idle" BY <2>1 DEF Rec, Idle
    <2>5. CASE Turns(k, r)
      <3>1. Calm(k, r) BY <1>0, <2>2, <2>3, <2>4, <2>5 DEF Calm, IsIpo, IpoCall
      <3> QED BY <1>00, <2>5, <3>1
    <2>6. CASE Turns(k, Idle)
      <3>1. Calm(k, Idle) BY <1>0, <2>2, <2>3, <2>4, <2>6 DEF Calm
      <3> QED BY <3>1, IdleRecord
    <2> QED BY <2>2, <2>5, <2>6
  <1>10. CASE CommitEvent(k)
    <2>1. /\ Turns(k, Idle) /\ call[k].at = "book" /\ applied' = applied \cup {call[k].event}
          /\ Idle.at = "idle"
      BY <1>10, CommitEventTurns DEF Idle
    <2>2. UNCHANGED <<settled, subscribed, issued, minted, allocations, slips, calls>>
      BY <1>10 DEF CommitEvent, bei
    <2>3. Calm(k, Idle) BY <1>0, <2>1, <2>2 DEF Calm, IsIpo, IpoCall
    <2> QED BY <2>3, IdleRecord
  <1>11. CASE CutOff(k)
    <2>1. /\ Turns(k, Idle) /\ Idle.at = "idle"
          /\ slips' = IF call[k].at = "entries" THEN slips \cup {"cut"} ELSE slips
      BY <1>11, CutOffTurns DEF Idle
    <2>2. UNCHANGED <<settled, subscribed, issued, minted, allocations, applied, calls>>
      BY <1>11 DEF CutOff, bei, sekuritas
    <2>3. Calm(k, Idle) BY <1>0, <2>1, <2>2 DEF Calm
    <2> QED BY <2>3, IdleRecord
  <1> QED BY <1>1, <1>2, <1>3, <1>4, <1>5, <1>6, <1>7, <1>8, <1>9, <1>10, <1>11 DEF Quiet
-----------------------------------------------------------------------------
\* The sum over the calls of something their records say, when one changes.
LEMMA CallSum ==
    ASSUME NEW f \in [Calls -> Int], NEW g \in [Calls -> Int], NEW k \in Calls,
           \A j \in Calls \ {k} : g[j] = f[j]
    PROVE  /\ SumFunctionOnSet(f, Calls) \in Int
           /\ SumFunctionOnSet(g, Calls) = (SumFunctionOnSet(f, Calls) - f[k]) + g[k]
  <1>1. IsFiniteSet(Calls) BY CorporateActionsAssumption
  <1>2. SumFunctionOnSet(f, Calls) \in Int BY <1>1, SumType
  <1>3. SumFunctionOnSet(g, Calls) = (SumFunctionOnSet(f, Calls) - f[k]) + g[k]
    BY <1>1, SumChange
  <1> QED BY <1>2, <1>3

LEMMA PendType == ASSUME NEW r, NEW c PROVE Pend(r, c) \in 0..1 /\ Pend(r, c) \in Int
  BY DEF Pend

LEMMA ToAllocateType ==
    ASSUME NEW c
    PROVE  ToAllocate(c) \in [Calls -> Int] /\ ToAllocate(c)' \in [Calls -> Int]
  <1>1. \A k \in Calls : Pend(call[k], c) \in Int /\ Pend(call'[k], c) \in Int BY PendType
  <1> QED BY <1>1 DEF ToAllocate

\* An allocation is counted when its call begins, and made at most once.
LEMMA CountedTurn ==
    ASSUME Types, Counted, NEW k \in Calls, NEW r, Turns(k, r), calls' \in Int,
           \A c \in Accounts : /\ allocations'[c] \in Int
                               /\ allocations'[c] + Pend(r, c) + calls
                                    <= allocations[c] + Pend(call[k], c) + calls'
    PROVE  Counted'
  <1> SUFFICES ASSUME NEW c \in Accounts
               PROVE  allocations'[c] + SumFunctionOnSet(ToAllocate(c)', Calls) <= calls'
    BY DEF Counted
  <1>1. PICK f \in [Calls -> Int] : f = ToAllocate(c) BY ToAllocateType
  <1>2. PICK g \in [Calls -> Int] : g = ToAllocate(c)' BY ToAllocateType
  <1>3. /\ \A j \in Calls \ {k} : g[j] = f[j]
        /\ f[k] = Pend(call[k], c) /\ g[k] = Pend(r, c)
    BY <1>1, <1>2 DEF ToAllocate, Turns
  <1>4. SumFunctionOnSet(f, Calls) \in Int
        /\ SumFunctionOnSet(g, Calls) = (SumFunctionOnSet(f, Calls) - f[k]) + g[k]
    BY <1>3, CallSum
  <1>5. allocations[c] + SumFunctionOnSet(f, Calls) <= calls BY <1>1 DEF Counted
  <1>6. allocations[c] \in Int /\ calls \in Int /\ f[k] \in Int /\ g[k] \in Int
    BY DEF Types
  <1>7. allocations'[c] + g[k] + calls <= allocations[c] + f[k] + calls' BY <1>3
  <1>8. allocations'[c] \in Int OBVIOUS
  <1>9. allocations'[c] + SumFunctionOnSet(g, Calls) <= calls'
    BY <1>4, <1>5, <1>6, <1>7, <1>8
  <1> QED BY <1>2, <1>9

LEMMA CountedNext == Types /\ Types' /\ Counted /\ [Next]_vars => Counted'
  <1> SUFFICES ASSUME Types, Types', Counted, [Next]_vars PROVE Counted' OBVIOUS
  <1>0. /\ calls \in Int /\ calls' \in Int /\ Idle.at = "idle"
        /\ \A c \in Accounts : allocations[c] \in Int /\ allocations'[c] \in Int
    BY DEF Types, Idle
  <1>1. CASE UNCHANGED vars BY <1>1 DEF Counted, ToAllocate, vars, bei
  <1>2. ASSUME NEW c \in Accounts, Customer(c) PROVE Counted'
    <2>1. UNCHANGED <<allocations, call, calls>> BY <1>2, CustomerKeeps
    <2> QED BY <2>1 DEF Counted, ToAllocate
  <1>3. ASSUME NEW k \in Calls, Quiet(k) PROVE Counted'
    <2>1. PICK r \in CallRecord : Calm(k, r) BY <1>3, QuietIsCalm
    <2>2. Turns(k, r) /\ allocations' = allocations /\ calls' >= calls
          /\ r.at \notin {"allocate", "entries"}
      BY <2>1 DEF Calm
    <2>3. \A c \in Accounts : allocations'[c] + Pend(r, c) + calls
                                <= allocations[c] + Pend(call[k], c) + calls'
      <3> TAKE c \in Accounts
      <3>1. Pend(r, c) = 0 BY <2>2 DEF Pend
      <3>2. Pend(call[k], c) \in 0..1 BY PendType
      <3> QED BY <1>0, <2>2, <3>1, <3>2
    <2> QED BY <1>0, <2>2, <2>3, CountedTurn
  <1>4. ASSUME NEW k \in Calls, Allocate(k) PROVE Counted'
    <2>1. PICK r : r = Rec("allocate", "ipo", Idle.rows, subscribed, Treasury, 0, 0, Idle.writes)
      OBVIOUS
    <2>2. Turns(k, r) /\ call[k] = Idle /\ calls' = calls + 1 BY <1>4, <2>1, AllocateTurns
    <2>3. allocations' = allocations BY <1>4 DEF Allocate
    <2>4. \A c \in Accounts : allocations'[c] + Pend(r, c) + calls
                                <= allocations[c] + Pend(call[k], c) + calls'
      <3> TAKE c \in Accounts
      <3>1. Pend(r, c) \in 0..1 /\ Pend(call[k], c) \in 0..1 BY PendType
      <3> QED BY <1>0, <2>2, <2>3, <3>1
    <2> QED BY <1>0, <2>2, <2>4, CountedTurn
  <1>5. ASSUME NEW k \in Calls, BookEntry(k) PROVE Counted'
    <2>1. allocations' = allocations /\ calls' = calls /\ call[k].at = "entries"
      BY <1>5 DEF BookEntry, At
    <2>2. PICK r : Turns(k, r) /\ r.left = call[k].left
      <3>1. CASE call[k].entry # 4
        <4>1. PICK r : r = Rec("entries", call[k].event, call[k].rows, call[k].left, call[k].account,
                               call[k].entry + 1, call[k].read, call[k].writes)
          OBVIOUS
        <4>2. Turns(k, r) BY <1>5, <3>1, <4>1, BookEntryTurns
        <4>3. r.left = call[k].left BY <4>1 DEF Rec
        <4> QED BY <4>2, <4>3
      <3>2. CASE call[k].entry = 4
        <4>1. PICK r : r = Rec("allocate", call[k].event,
                               [call[k].rows EXCEPT ![call[k].account]
                                  = Unit * Subscriptions[call[k].account]],
                               call[k].left, Treasury, 0, call[k].read, call[k].writes)
          OBVIOUS
        <4>2. Turns(k, r) BY <1>5, <3>2, <4>1, BookEntryTurns
        <4>3. r.left = call[k].left BY <4>1 DEF Rec
        <4> QED BY <4>2, <4>3
      <3> QED BY <3>1, <3>2
    <2>3. \A c \in Accounts : allocations'[c] + Pend(r, c) + calls
                                <= allocations[c] + Pend(call[k], c) + calls'
      <3> TAKE c \in Accounts
      <3>1. CASE c \in call[k].left
        <4>1. Pend(call[k], c) = 1 BY <2>1, <3>1 DEF Pend
        <4>2. Pend(r, c) \in 0..1 BY PendType
        <4> QED BY <1>0, <2>1, <4>1, <4>2
      <3>2. CASE c \notin call[k].left
        <4>1. Pend(call[k], c) = 0 /\ Pend(r, c) = 0 BY <2>2, <3>2 DEF Pend
        <4> QED BY <1>0, <2>1, <4>1
      <3> QED BY <3>1, <3>2
    <2> QED BY <1>0, <2>2, <2>3, CountedTurn
  <1>6. ASSUME NEW k \in Calls, NEW a \in Accounts, InsertAllocation(k, a) PROVE Counted'
    <2>1. PICK r : r = Rec("entries", call[k].event, call[k].rows, call[k].left \ {a}, a, 1,
                           call[k].read, call[k].writes)
      OBVIOUS
    <2>2. Turns(k, r) /\ call[k].at = "allocate" /\ a \in call[k].left
      BY <1>6, <2>1, InsertAllocationTurns
    <2>3. allocations' = [allocations EXCEPT ![a] = @ + 1] /\ calls' = calls
      BY <1>6 DEF InsertAllocation
    <2>4. r.left = call[k].left \ {a} BY <2>1 DEF Rec
    <2>5. allocations \in [Accounts -> Nat] BY DEF Types
    <2>6. \A c \in Accounts : allocations'[c] + Pend(r, c) + calls
                                <= allocations[c] + Pend(call[k], c) + calls'
      <3> TAKE c \in Accounts
      <3>1. CASE c = a
        <4>1. Pend(call[k], c) = 1 /\ Pend(r, c) = 0 BY <2>2, <2>4, <3>1 DEF Pend
        <4>2. allocations'[c] = allocations[c] + 1 BY <2>3, <2>5, <3>1
        <4> QED BY <1>0, <2>3, <4>1, <4>2
      <3>2. CASE c # a
        <4>1. allocations'[c] = allocations[c] BY <2>3, <2>5, <3>2
        <4>2. CASE c \in call[k].left
          <5>1. Pend(call[k], c) = 1 BY <2>2, <4>2 DEF Pend
          <5>2. Pend(r, c) \in 0..1 BY PendType
          <5> QED BY <1>0, <2>3, <4>1, <5>1, <5>2
        <4>3. CASE c \notin call[k].left
          <5>1. Pend(call[k], c) = 0 /\ Pend(r, c) = 0 BY <2>4, <4>3 DEF Pend
          <5> QED BY <1>0, <2>3, <4>1, <5>1
        <4> QED BY <4>2, <4>3
      <3> QED BY <3>1, <3>2
    <2> QED BY <1>0, <2>2, <2>6, CountedTurn
  <1> QED BY <1>1, <1>2, <1>3, <1>4, <1>5, <1>6, NextSteps

LEMMA CountedInit == Init => Counted
  <1> SUFFICES ASSUME Init, NEW c \in Accounts
               PROVE  allocations[c] + SumFunctionOnSet(ToAllocate(c), Calls) <= calls
    BY DEF Counted
  <1>1. PICK f : f = ToAllocate(c) OBVIOUS
  <1>2. PICK zero : zero = [k \in Calls |-> 0] OBVIOUS
  <1>3. \A k \in Calls : f[k] = 0 /\ zero[k] = 0
    BY <1>1, <1>2 DEF Init, ToAllocate, Pend, Idle
  <1>4. SumFunctionOnSet(f, Calls) = 0 BY <1>3, SumZero, CorporateActionsAssumption
  <1>5. allocations[c] = 0 /\ calls = 0 BY DEF Init
  <1> QED BY <1>1, <1>4, <1>5

\* An account's allocations are bounded by the calls there have been.
LEMMA AllocationsBounded ==
    ASSUME Types, Counted, NEW c \in Accounts
    PROVE  allocations[c] \in 0..MaxCalls
  <1>1. PICK f \in [Calls -> Int] : f = ToAllocate(c) BY ToAllocateType
  <1>2. \A k \in Calls : f[k] \in Nat BY <1>1, PendType DEF ToAllocate
  <1>3. SumFunctionOnSet(f, Calls) \in Nat BY <1>2, SumNat, CorporateActionsAssumption
  <1>4. allocations[c] + SumFunctionOnSet(f, Calls) <= calls BY <1>1 DEF Counted
  <1>5. allocations[c] \in Nat /\ calls \in 0..MaxCalls /\ MaxCalls \in Nat
    BY CorporateActionsAssumption DEF Types
  <1> QED BY <1>3, <1>4, <1>5
-----------------------------------------------------------------------------
AllBut(x, f, g) == \A y \in Custody \ {x} : g[y] = f[y]

LEMMA CustodySum ==
    ASSUME NEW f \in [Custody -> Int], NEW g \in [Custody -> Int], NEW x \in Custody,
           AllBut(x, f, g)
    PROVE  /\ SumFunctionOnSet(f, Custody) \in Int
           /\ SumFunctionOnSet(g, Custody) = (SumFunctionOnSet(f, Custody) - f[x]) + g[x]
  <1>1. IsFiniteSet(Custody) BY CorporateActionsAssumption, FS_AddElement DEF Custody
  <1>2. SumFunctionOnSet(f, Custody) \in Int BY <1>1, SumType
  <1>3. SumFunctionOnSet(g, Custody) = (SumFunctionOnSet(f, Custody) - f[x]) + g[x]
    BY <1>1, SumChange DEF AllBut
  <1> QED BY <1>2, <1>3

LEMMA IssuedType ==
    ASSUME issued \in [Custody -> [shares : Int, cash : Int]]
    PROVE  SharesIssued \in [Custody -> Int] /\ CashIssued \in [Custody -> Int]
  BY DEF SharesIssued, CashIssued

\* What the record of a call owes is a number of subscribed shares, or of their cash.
LEMMA OwedType ==
    ASSUME NEW r, NEW m, Fits(r, m)
    PROVE  OwedShares(r) \in Int /\ OwedCash(r) \in Int
  BY SubscriptionsType DEF OwedShares, OwedCash, Fits

LEMMA OpenType ==
    ASSUME Types
    PROVE  OpenShares \in [Calls -> Int] /\ OpenCash \in [Calls -> Int]
  <1>1. \A k \in Calls : OwedShares(call[k]) \in Int /\ OwedCash(call[k]) \in Int
    BY OwedType DEF Types, StageOK
  <1> QED BY <1>1 DEF OpenShares, OpenCash

\* The sums of what is owed, when the record of one call changes.
LEMMA OpenTurn ==
    ASSUME Types, Types', NEW k \in Calls, NEW r, Turns(k, r)
    PROVE  /\ SumFunctionOnSet(OpenShares, Calls) \in Int /\ SumFunctionOnSet(OpenCash, Calls) \in Int
           /\ SumFunctionOnSet(OpenShares', Calls)
                = (SumFunctionOnSet(OpenShares, Calls) - OwedShares(call[k])) + OwedShares(r)
           /\ SumFunctionOnSet(OpenCash', Calls)
                = (SumFunctionOnSet(OpenCash, Calls) - OwedCash(call[k])) + OwedCash(r)
  <1>1. PICK f \in [Calls -> Int] : f = OpenShares BY OpenType
  <1>2. PICK p \in [Calls -> Int] : p = OpenCash BY OpenType
  <1>3. Types' => OpenShares' \in [Calls -> Int] /\ OpenCash' \in [Calls -> Int]
    <2>1. Types => OpenShares \in [Calls -> Int] /\ OpenCash \in [Calls -> Int] BY OpenType
    <2> SUFFICES ASSUME Types' PROVE OpenShares' \in [Calls -> Int] /\ OpenCash' \in [Calls -> Int]
      OBVIOUS
    <2>2. \A j \in Calls : Fits(call'[j], minted') BY DEF Types, StageOK
    <2>3. \A j \in Calls : OwedShares(call'[j]) \in Int /\ OwedCash(call'[j]) \in Int
      BY <2>2, OwedType
    <2> QED BY <2>3 DEF OpenShares, OpenCash
  <1>4. PICK g \in [Calls -> Int] : g = OpenShares' BY <1>3
  <1>5. PICK q \in [Calls -> Int] : q = OpenCash' BY <1>3
  <1>6. /\ \A j \in Calls \ {k} : g[j] = f[j] /\ q[j] = p[j]
        /\ f[k] = OwedShares(call[k]) /\ g[k] = OwedShares(r)
        /\ p[k] = OwedCash(call[k]) /\ q[k] = OwedCash(r)
    BY <1>1, <1>2, <1>4, <1>5 DEF OpenShares, OpenCash, Turns
  <1>7. SumFunctionOnSet(f, Calls) \in Int
        /\ SumFunctionOnSet(g, Calls) = (SumFunctionOnSet(f, Calls) - f[k]) + g[k]
    BY <1>6, CallSum
  <1>8. SumFunctionOnSet(p, Calls) \in Int
        /\ SumFunctionOnSet(q, Calls) = (SumFunctionOnSet(p, Calls) - p[k]) + q[k]
    BY <1>6, CallSum
  <1> QED BY <1>1, <1>2, <1>4, <1>5, <1>6, <1>7, <1>8

\* A step of a call that neither issues nor owes anything new.
LEMMA BalancedTurn ==
    ASSUME Types, Types', Balanced, NEW k \in Calls, NEW r, Turns(k, r),
           issued' = issued, minted' = minted,
           "cut" \notin slips' => /\ "cut" \notin slips
                                  /\ OwedShares(r) = OwedShares(call[k])
                                  /\ OwedCash(r) = OwedCash(call[k])
    PROVE  Balanced'
  <1> SUFFICES ASSUME "cut" \notin slips'
               PROVE  /\ SumFunctionOnSet(SharesIssued', Custody)
                           = (IF minted' THEN Offered ELSE 0) + SumFunctionOnSet(OpenShares', Calls)
                      /\ SumFunctionOnSet(CashIssued', Custody) = SumFunctionOnSet(OpenCash', Calls)
    BY DEF Balanced
  <1>1. /\ SumFunctionOnSet(OpenShares', Calls)
              = (SumFunctionOnSet(OpenShares, Calls) - OwedShares(call[k])) + OwedShares(r)
        /\ SumFunctionOnSet(OpenCash', Calls)
              = (SumFunctionOnSet(OpenCash, Calls) - OwedCash(call[k])) + OwedCash(r)
        /\ SumFunctionOnSet(OpenShares, Calls) \in Int /\ SumFunctionOnSet(OpenCash, Calls) \in Int
    BY OpenTurn
  <1>2. OwedShares(call[k]) \in Int /\ OwedCash(call[k]) \in Int
    BY OwedType DEF Types, StageOK
  <1>3. /\ SumFunctionOnSet(OpenShares', Calls) = SumFunctionOnSet(OpenShares, Calls)
        /\ SumFunctionOnSet(OpenCash', Calls) = SumFunctionOnSet(OpenCash, Calls)
    BY <1>1, <1>2
  <1>4. SharesIssued' = SharesIssued /\ CashIssued' = CashIssued
    BY DEF SharesIssued, CashIssued
  <1> QED BY <1>3, <1>4 DEF Balanced

LEMMA BalancedNext == Types /\ Types' /\ Balanced /\ [Next]_vars => Balanced'
  <1> SUFFICES ASSUME Types, Types', Balanced, [Next]_vars PROVE Balanced' OBVIOUS
  <1>1. CASE UNCHANGED vars
    BY <1>1 DEF Balanced, OpenShares, OpenCash, SharesIssued, CashIssued, vars, bei
  <1>2. ASSUME NEW c \in Accounts, Customer(c) PROVE Balanced'
    <2>1. UNCHANGED <<issued, minted, call, slips>> BY <1>2, CustomerKeeps
    <2> QED BY <2>1 DEF Balanced, OpenShares, OpenCash, SharesIssued, CashIssued
  <1>3. ASSUME NEW k \in Calls, Quiet(k) PROVE Balanced'
    <2>1. PICK r \in CallRecord : Calm(k, r) BY <1>3, QuietIsCalm
    <2>2. /\ Turns(k, r) /\ issued' = issued /\ minted' = minted /\ r.at # "entries"
          /\ "cut" \notin slips' => "cut" \notin slips /\ call[k].at # "entries"
      BY <2>1 DEF Calm
    <2>3. "cut" \notin slips' => /\ "cut" \notin slips
                                 /\ OwedShares(r) = OwedShares(call[k])
                                 /\ OwedCash(r) = OwedCash(call[k])
      BY <2>2 DEF OwedShares, OwedCash
    <2> QED BY <2>2, <2>3, BalancedTurn
  <1>4. ASSUME NEW k \in Calls, NEW c \in Accounts, InsertAllocation(k, c) PROVE Balanced'
    <2>1. PICK r : r = Rec("entries", call[k].event, call[k].rows, call[k].left \ {c}, c, 1,
                           call[k].read, call[k].writes)
      OBVIOUS
    <2>2. Turns(k, r) /\ call[k].at = "allocate" BY <1>4, <2>1, InsertAllocationTurns
    <2>3. issued' = issued /\ minted' = minted /\ slips' = slips BY <1>4 DEF InsertAllocation
    <2>4. /\ OwedShares(r) = OwedShares(call[k]) /\ OwedCash(r) = OwedCash(call[k])
      BY <2>1, <2>2 DEF OwedShares, OwedCash, Rec
    <2> QED BY <2>2, <2>3, <2>4, BalancedTurn
  <1>5. ASSUME NEW k \in Calls, Allocate(k), "cut" \notin slips'
        PROVE  /\ SumFunctionOnSet(SharesIssued', Custody)
                    = (IF minted' THEN Offered ELSE 0) + SumFunctionOnSet(OpenShares', Calls)
               /\ SumFunctionOnSet(CashIssued', Custody) = SumFunctionOnSet(OpenCash', Calls)
    <2>1. PICK r : r = Rec("allocate", "ipo", Idle.rows, subscribed, Treasury, 0, 0, Idle.writes)
      OBVIOUS
    <2>2. Turns(k, r) /\ call[k] = Idle BY <1>5, <2>1, AllocateTurns
    <2>3. /\ minted' = TRUE /\ "cut" \notin slips
          /\ issued' = IF minted THEN issued ELSE [issued EXCEPT ![Treasury].shares = @ + Offered]
      BY <1>5 DEF Allocate, Slip
    <2>4. /\ OwedShares(r) = 0 /\ OwedCash(r) = 0
          /\ OwedShares(call[k]) = 0 /\ OwedCash(call[k]) = 0
      BY <2>1, <2>2 DEF OwedShares, OwedCash, Rec, Idle
    <2>5. /\ SumFunctionOnSet(OpenShares', Calls)
              = (SumFunctionOnSet(OpenShares, Calls) - OwedShares(call[k])) + OwedShares(r)
          /\ SumFunctionOnSet(OpenCash', Calls)
              = (SumFunctionOnSet(OpenCash, Calls) - OwedCash(call[k])) + OwedCash(r)
          /\ SumFunctionOnSet(OpenShares, Calls) \in Int /\ SumFunctionOnSet(OpenCash, Calls) \in Int
      BY <2>2, OpenTurn
    <2>6. /\ SumFunctionOnSet(OpenShares', Calls) = SumFunctionOnSet(OpenShares, Calls)
          /\ SumFunctionOnSet(OpenCash', Calls) = SumFunctionOnSet(OpenCash, Calls)
      BY <2>4, <2>5
    <2>7. /\ SumFunctionOnSet(SharesIssued, Custody)
               = (IF minted THEN Offered ELSE 0) + SumFunctionOnSet(OpenShares, Calls)
          /\ SumFunctionOnSet(CashIssued, Custody) = SumFunctionOnSet(OpenCash, Calls)
      BY <2>3 DEF Balanced
    <2>8. CASE minted
      <3>1. SharesIssued' = SharesIssued /\ CashIssued' = CashIssued
        BY <2>3, <2>8 DEF SharesIssued, CashIssued
      <3> QED BY <2>3, <2>6, <2>7, <2>8, <3>1
    <2>9. CASE ~minted
      <3>1. issued \in [Custody -> [shares : Int, cash : Int]]
            /\ issued' \in [Custody -> [shares : Int, cash : Int]]
        BY DEF Types
      <3>2. PICK f \in [Custody -> Int], g \in [Custody -> Int] : f = SharesIssued /\ g = SharesIssued'
        BY <3>1 DEF SharesIssued
      <3>3. /\ AllBut(Treasury, f, g)
            /\ g[Treasury] = f[Treasury] + Offered
            /\ CashIssued' = CashIssued
        BY <2>3, <2>9, <3>1, <3>2, SubscriptionsType DEF SharesIssued, CashIssued, AllBut
      <3>4. /\ SumFunctionOnSet(f, Custody) \in Int
            /\ SumFunctionOnSet(g, Custody) = (SumFunctionOnSet(f, Custody) - f[Treasury]) + g[Treasury]
        BY <3>3, CustodySum, SubscriptionsType
      <3>5. Offered \in Int /\ f[Treasury] \in Int BY <3>2, OfferedType, SubscriptionsType
      <3>6. SumFunctionOnSet(g, Custody) = SumFunctionOnSet(f, Custody) + Offered
        BY <3>3, <3>4, <3>5
      <3>7. SumFunctionOnSet(f, Custody) = SumFunctionOnSet(OpenShares, Calls)
        BY <2>5, <2>7, <2>9, <3>2
      <3>8. SumFunctionOnSet(g, Custody) = Offered + SumFunctionOnSet(OpenShares', Calls)
        BY <2>5, <2>6, <3>5, <3>6, <3>7
      <3> QED BY <2>3, <2>6, <2>7, <3>2, <3>3, <3>8
    <2> QED BY <2>8, <2>9
  <1>6. ASSUME NEW k \in Calls, BookEntry(k), "cut" \notin slips'
        PROVE  /\ SumFunctionOnSet(SharesIssued', Custody)
                    = (IF minted' THEN Offered ELSE 0) + SumFunctionOnSet(OpenShares', Calls)
               /\ SumFunctionOnSet(CashIssued', Custody) = SumFunctionOnSet(OpenCash', Calls)
    <2>1. /\ call[k].at = "entries" /\ call[k].account \in Accounts /\ call[k].entry \in 1..4
          /\ \A x \in Custody : /\ issued'[x].shares = issued[x].shares + Adds(k, x, 1, 2)
                                /\ issued'[x].cash = issued[x].cash - Adds(k, x, 3, 4)
      BY <1>6, BookEntryTurns
    <2>2. minted' = minted /\ slips' = slips BY <1>6 DEF BookEntry
    <2>3. PICK n \in Nat : n = Subscriptions[call[k].account] BY <2>1, SubscriptionsType
    <2>4. PICK r : /\ Turns(k, r)
                   /\ OwedShares(r) = (IF call[k].entry = 1 THEN n ELSE 0)
                   /\ OwedCash(r) = (IF call[k].entry = 3 THEN -n ELSE 0)
      <3>1. CASE call[k].entry # 4
        <4>1. PICK r : r = Rec("entries", call[k].event, call[k].rows, call[k].left, call[k].account,
                               call[k].entry + 1, call[k].read, call[k].writes)
          OBVIOUS
        <4>2. Turns(k, r) BY <1>6, <3>1, <4>1, BookEntryTurns
        <4>3. r.at = "entries" /\ r.entry = call[k].entry + 1 /\ r.account = call[k].account
          BY <4>1 DEF Rec
        <4>4. /\ OwedShares(r) = (IF call[k].entry = 1 THEN n ELSE 0)
              /\ OwedCash(r) = (IF call[k].entry = 3 THEN -n ELSE 0)
          BY <2>1, <2>3, <4>3 DEF OwedShares, OwedCash
        <4> QED BY <4>2, <4>4
      <3>2. CASE call[k].entry = 4
        <4>1. PICK r : r = Rec("allocate", call[k].event,
                               [call[k].rows EXCEPT ![call[k].account]
                                  = Unit * Subscriptions[call[k].account]],
                               call[k].left, Treasury, 0, call[k].read, call[k].writes)
          OBVIOUS
        <4>2. Turns(k, r) BY <1>6, <3>2, <4>1, BookEntryTurns
        <4>3. OwedShares(r) = 0 /\ OwedCash(r) = 0 BY <4>1 DEF Rec, OwedShares, OwedCash
        <4> QED BY <3>2, <4>2, <4>3
      <3> QED BY <3>1, <3>2
    <2>5. /\ OwedShares(call[k]) = (IF call[k].entry = 2 THEN n ELSE 0)
          /\ OwedCash(call[k]) = (IF call[k].entry = 4 THEN -n ELSE 0)
      BY <2>1, <2>3 DEF OwedShares, OwedCash
    <2>6. /\ SumFunctionOnSet(OpenShares', Calls)
              = (SumFunctionOnSet(OpenShares, Calls) - OwedShares(call[k])) + OwedShares(r)
          /\ SumFunctionOnSet(OpenCash', Calls)
              = (SumFunctionOnSet(OpenCash, Calls) - OwedCash(call[k])) + OwedCash(r)
          /\ SumFunctionOnSet(OpenShares, Calls) \in Int /\ SumFunctionOnSet(OpenCash, Calls) \in Int
      BY <2>4, OpenTurn
    <2>7. /\ SumFunctionOnSet(SharesIssued, Custody)
               = (IF minted THEN Offered ELSE 0) + SumFunctionOnSet(OpenShares, Calls)
          /\ SumFunctionOnSet(CashIssued, Custody) = SumFunctionOnSet(OpenCash, Calls)
      BY <1>6, <2>2 DEF Balanced
    <2>8. issued \in [Custody -> [shares : Int, cash : Int]]
          /\ issued' \in [Custody -> [shares : Int, cash : Int]]
      BY DEF Types
    <2>9. PICK f \in [Custody -> Int], g \in [Custody -> Int] : f = SharesIssued /\ g = SharesIssued'
      BY <2>8 DEF SharesIssued
    <2>10. PICK p \in [Custody -> Int], q \in [Custody -> Int] : p = CashIssued /\ q = CashIssued'
      BY <2>8 DEF CashIssued
    <2>11. \A x \in Custody : g[x] = f[x] + Adds(k, x, 1, 2) /\ q[x] = p[x] - Adds(k, x, 3, 4)
      BY <2>1, <2>8, <2>9, <2>10 DEF SharesIssued, CashIssued
    <2>12. PICK a \in Custody : a = call[k].account /\ a # Treasury BY <2>1, SubscriptionsType
    <2>13. Treasury \in Custody BY SubscriptionsType
    <2>21. AllBut(Treasury, f, f) /\ AllBut(Treasury, p, p) BY DEF AllBut
    <2>14. PICK s \in Int : s = SumFunctionOnSet(f, Custody) /\ s = SumFunctionOnSet(SharesIssued, Custody)
      BY <2>9, <2>13, <2>21, CustodySum
    <2>15. PICK m \in Int : m = SumFunctionOnSet(p, Custody) /\ m = SumFunctionOnSet(CashIssued, Custody)
      BY <2>10, <2>13, <2>21, CustodySum
    <2>16. SumFunctionOnSet(g, Custody) = s + (IF call[k].entry = 1 THEN n
                                               ELSE IF call[k].entry = 2 THEN -n ELSE 0)
      <3>1. CASE call[k].entry = 1
        <4>1. AllBut(a, f, g) /\ g[a] = f[a] + n
          BY <2>3, <2>11, <2>12, <3>1 DEF Adds, AllBut
        <4>2. SumFunctionOnSet(g, Custody) = (s - f[a]) + g[a] BY <2>9, <2>12, <2>14, <4>1, CustodySum
        <4> QED BY <2>3, <2>9, <2>10, <2>12, <2>14, <2>15, <3>1, <4>1, <4>2
      <3>2. CASE call[k].entry = 2
        <4>1. AllBut(Treasury, f, g) /\ g[Treasury] = f[Treasury] + (-n)
          BY <2>3, <2>11, <2>12, <2>13, <3>2 DEF Adds, AllBut
        <4>2. SumFunctionOnSet(g, Custody) = (s - f[Treasury]) + g[Treasury]
          BY <2>9, <2>13, <2>14, <4>1, CustodySum
        <4> QED BY <2>3, <2>9, <2>10, <2>13, <2>14, <2>15, <3>2, <4>1, <4>2
      <3>3. CASE call[k].entry \in {3, 4}
        <4>1. AllBut(a, f, g) /\ g[a] = f[a]
          BY <2>11, <2>12, <3>3 DEF Adds, AllBut
        <4>2. SumFunctionOnSet(g, Custody) = (s - f[a]) + g[a] BY <2>9, <2>12, <2>14, <4>1, CustodySum
        <4> QED BY <2>9, <2>10, <2>12, <2>14, <2>15, <3>3, <4>1, <4>2
      <3> QED BY <2>1, <3>1, <3>2, <3>3
    <2>17. SumFunctionOnSet(q, Custody) = m + (IF call[k].entry = 3 THEN -n
                                               ELSE IF call[k].entry = 4 THEN n ELSE 0)
      <3>1. CASE call[k].entry = 3
        <4>1. AllBut(a, p, q) /\ q[a] = p[a] - n
          BY <2>3, <2>11, <2>12, <3>1 DEF Adds, AllBut
        <4>2. SumFunctionOnSet(q, Custody) = (m - p[a]) + q[a] BY <2>10, <2>12, <2>15, <4>1, CustodySum
        <4> QED BY <2>3, <2>9, <2>10, <2>12, <2>14, <2>15, <3>1, <4>1, <4>2
      <3>2. CASE call[k].entry = 4
        <4>1. AllBut(Treasury, p, q) /\ q[Treasury] = p[Treasury] + n
          BY <2>3, <2>11, <2>12, <2>13, <3>2 DEF Adds, AllBut
        <4>2. SumFunctionOnSet(q, Custody) = (m - p[Treasury]) + q[Treasury]
          BY <2>10, <2>13, <2>15, <4>1, CustodySum
        <4> QED BY <2>3, <2>9, <2>10, <2>13, <2>14, <2>15, <3>2, <4>1, <4>2
      <3>3. CASE call[k].entry \in {1, 2}
        <4>1. AllBut(a, p, q) /\ q[a] = p[a]
          BY <2>11, <2>12, <3>3 DEF Adds, AllBut
        <4>2. SumFunctionOnSet(q, Custody) = (m - p[a]) + q[a] BY <2>10, <2>12, <2>15, <4>1, CustodySum
        <4> QED BY <2>9, <2>10, <2>12, <2>14, <2>15, <3>3, <4>1, <4>2
      <3> QED BY <2>1, <3>1, <3>2, <3>3
    <2>18. Offered \in Int BY OfferedType
    <2>19. SumFunctionOnSet(g, Custody)
             = (IF minted THEN Offered ELSE 0) + SumFunctionOnSet(OpenShares', Calls)
      BY <2>1, <2>4, <2>5, <2>6, <2>7, <2>14, <2>16, <2>18
    <2>20. SumFunctionOnSet(q, Custody) = SumFunctionOnSet(OpenCash', Calls)
      BY <2>1, <2>4, <2>5, <2>6, <2>7, <2>15, <2>17
    <2> QED BY <2>2, <2>9, <2>10, <2>19, <2>20
  <1>7. ASSUME NEW k \in Calls, Allocate(k) \/ BookEntry(k) PROVE Balanced'
    BY <1>5, <1>6, <1>7 DEF Balanced
  <1> QED BY <1>1, <1>2, <1>3, <1>4, <1>7, NextSteps
-----------------------------------------------------------------------------
LEMMA Halves ==
    ASSUME NEW m \in Nat, NEW n \in Nat, m <= n
    PROVE  m \div 2 \in Nat /\ n \div 2 \in Nat /\ m \div 2 <= n \div 2 /\ 0 \div 2 = 0
  OBVIOUS

\* What an action may book lies between nothing and what it makes of the most there is.
LEMMA LimitedIs ==
    ASSUME NEW a \in Actions, NEW m \in Nat, NEW v
    PROVE  Limited(a, m, v) <=>
             /\ v \in Int
             /\ a = "dividend" => 0 <= v /\ v <= m
             /\ a = "split" => 0 <= v /\ v <= m \div 2
             /\ a = "reverse" => v <= 0 /\ -v <= m \div 2
  <1>1. m \div 2 \in Nat /\ 0 \div 2 = 0 BY Halves
  <1>2. CASE a = "dividend" BY <1>2 DEF Limited, Entitlement
  <1>3. CASE a = "split"
    <2>1. Entitlement(a, 0) = 0 /\ Entitlement(a, m) = m \div 2 BY <1>1, <1>3 DEF Entitlement
    <2> QED BY <1>1, <1>3, <2>1 DEF Limited
  <1>4. CASE a = "reverse"
    <2>2. PICK h \in Nat : h = 0 \div 2 /\ h = 0 BY <1>1
    <2>3. Entitlement(a, 0) = -h /\ Entitlement(a, m) = -(m \div 2)
      BY <1>4, <2>2 DEF Entitlement
    <2>1. Entitlement(a, 0) = 0 /\ Entitlement(a, m) = -(m \div 2) BY <2>2, <2>3
    <2> QED BY <1>1, <1>4, <2>1 DEF Limited
  <1> QED BY <1>2, <1>3, <1>4, ActionsFinite

LEMMA LimitedGrows ==
    ASSUME NEW a \in Actions, NEW m \in Nat, NEW n \in Nat, m <= n, NEW v, Limited(a, m, v)
    PROVE  Limited(a, n, v)
  <1>1. m \div 2 \in Nat /\ n \div 2 \in Nat /\ m \div 2 <= n \div 2 BY Halves
  <1>2. /\ v \in Int
        /\ a = "dividend" => 0 <= v /\ v <= m
        /\ a = "split" => 0 <= v /\ v <= m \div 2
        /\ a = "reverse" => v <= 0 /\ -v <= m \div 2
    BY LimitedIs
  <1>3. /\ v \in Int
        /\ a = "dividend" => 0 <= v /\ v <= n
        /\ a = "split" => 0 <= v /\ v <= n \div 2
        /\ a = "reverse" => v <= 0 /\ -v <= n \div 2
    BY <1>1, <1>2
  <1> QED BY <1>3, LimitedIs

LEMMA EntitlementLimited ==
    ASSUME NEW a \in Actions, NEW m \in Nat, NEW q \in Nat, q <= m
    PROVE  Limited(a, m, Entitlement(a, q)) /\ Limited(a, m, 0)
  <1>1. q \div 2 \in Nat /\ m \div 2 \in Nat /\ q \div 2 <= m \div 2 BY Halves
  <1>2. PICK v : v = Entitlement(a, q) OBVIOUS
  <1>3. /\ v \in Int
        /\ a = "dividend" => 0 <= v /\ v <= m
        /\ a = "split" => 0 <= v /\ v <= m \div 2
        /\ a = "reverse" => v <= 0 /\ -v <= m \div 2
    BY <1>1, <1>2, ActionsFinite DEF Entitlement
  <1>4. Limited(a, m, v) BY <1>3, LimitedIs
  <1>5. /\ a = "dividend" => 0 <= 0 /\ 0 <= m
        /\ a = "split" => 0 <= 0 /\ 0 <= m \div 2
        /\ a = "reverse" => 0 <= 0 /\ -0 <= m \div 2
    BY <1>1
  <1>6. Limited(a, m, 0) BY <1>5, LimitedIs
  <1> QED BY <1>2, <1>4, <1>6

-----------------------------------------------------------------------------
\* What the split, or the reverse split, has booked for c.
Part(a, R, c) == IF a \in Actions THEN R[a][c] ELSE 0

Summable(f, S) == IsFiniteSet(S) /\ \A x \in S : f[x] \in Int

\* What x contributes to a sum.
At0(f, S, x) == IF x \in S THEN f[x] ELSE 0

\* The sum over S, with what x contributes set apart.
Splits(f, S, x) ==
    /\ SumFunctionOnSet(f, S) = At0(f, S, x) + SumFunctionOnSet(f, S \ {x})
    /\ SumFunctionOnSet(f, S \ {x}) \in Int /\ At0(f, S, x) \in Int
    /\ Summable(f, S \ {x})

LEMMA SumWithout ==
    ASSUME NEW f, NEW S, Summable(f, S), NEW x
    PROVE  Splits(f, S, x)
  <1>0. PICK T : T = S \ {x} OBVIOUS
  <1>3. Summable(f, T) BY <1>0, FS_Subset DEF Summable
  <1>4. SumFunctionOnSet(f, T) \in Int BY <1>3, SumType DEF Summable
  <1>1. CASE x \in S
    <2>1. SumFunctionOnSet(f, S) = f[x] + SumFunctionOnSet(f, S \ {x})
      BY <1>1, SumRemove DEF Summable
    <2>2. At0(f, S, x) = f[x] /\ f[x] \in Int BY <1>1 DEF At0, Summable
    <2> QED BY <1>0, <1>3, <1>4, <2>1, <2>2 DEF Splits
  <1>2. CASE x \notin S
    <2>1. T = S BY <1>0, <1>2
    <2>2. At0(f, S, x) = 0 BY <1>2 DEF At0
    <2> QED BY <1>0, <1>3, <1>4, <2>1, <2>2 DEF Splits
  <1> QED BY <1>1, <1>2

LEMMA PartType ==
    ASSUME NEW R \in [Actions -> [Custody -> Int]], NEW c \in Custody, NEW a
    PROVE  Part(a, R, c) \in Int
  BY DEF Part

\* The sum over a set of actions that holds no more than the two splits.
LEMMA PartSum ==
    ASSUME NEW R \in [Actions -> [Custody -> Int]], NEW c \in Custody, NEW f,
           f = [a \in Actions |-> R[a][c]], NEW S, S \subseteq Actions \ {"dividend"}
    PROVE  SumFunctionOnSet(f, S) = At0(f, S, "split") + At0(f, S, "reverse")
  <1>0. \A a \in Actions : f[a] = R[a][c] /\ f[a] \in Int OBVIOUS
  <1>1. SumFunctionOnSet(f, {}) = 0 BY SumEmpty
  <1>2. PICK s, r : s = "split" /\ r = "reverse" OBVIOUS
  <1>3. IsFiniteSet(S) BY ActionsFinite, FS_Subset
  <1>4. Summable(f, S) BY <1>0, <1>3 DEF Summable
  <1>5. Splits(f, S, s) BY <1>4, SumWithout
  <1>6. PICK T : T = S \ {s} OBVIOUS
  <1>7. Summable(f, T) BY <1>5, <1>6 DEF Splits
  <1>8. Splits(f, T, r) BY <1>7, SumWithout
  <1>9. T \ {r} = {} BY <1>2, <1>6, ActionsFinite
  <1>10. At0(f, T, r) = At0(f, S, r) BY <1>2, <1>6 DEF At0
  <1>11. /\ SumFunctionOnSet(f, S) = At0(f, S, s) + SumFunctionOnSet(f, T)
         /\ SumFunctionOnSet(f, T) \in Int /\ At0(f, S, s) \in Int
    BY <1>5, <1>6 DEF Splits
  <1>12. SumFunctionOnSet(f, T) = At0(f, T, r) + 0 /\ At0(f, T, r) \in Int
    BY <1>1, <1>8, <1>9 DEF Splits
  <1>13. SumFunctionOnSet(f, S) = At0(f, S, s) + At0(f, S, r) BY <1>10, <1>11, <1>12
  <1> QED BY <1>2, <1>13

LEMMA PartSums ==
    ASSUME NEW R \in [Actions -> [Custody -> Int]], NEW c \in Custody, NEW f,
           f = [a \in Actions |-> R[a][c]]
    PROVE  /\ SumFunctionOnSet(f, Actions \ {"dividend"}) = Part("split", R, c) + Part("reverse", R, c)
           /\ \A a \in Actions : SumFunctionOnSet(f, (Actions \ {a, "reverse"}) \ {"dividend"})
                                   = IF a = "split" THEN 0 ELSE Part("split", R, c)
  <1>0. \A a \in Actions : f[a] = R[a][c] /\ f[a] \in Int OBVIOUS
  <1>1. PICK S : S = Actions \ {"dividend"} OBVIOUS
  <1>2. SumFunctionOnSet(f, S) = At0(f, S, "split") + At0(f, S, "reverse") BY <1>1, PartSum
  <1>3. At0(f, S, "split") = Part("split", R, c) /\ At0(f, S, "reverse") = Part("reverse", R, c)
    BY <1>0, <1>1 DEF At0, Part
  <1>4. ASSUME NEW a \in Actions
        PROVE  SumFunctionOnSet(f, (Actions \ {a, "reverse"}) \ {"dividend"})
                 = IF a = "split" THEN 0 ELSE Part("split", R, c)
    <2>1. PICK T : T = (Actions \ {a, "reverse"}) \ {"dividend"} OBVIOUS
    <2>2. T \subseteq Actions \ {"dividend"} BY <2>1
    <2>3. SumFunctionOnSet(f, T) = At0(f, T, "split") + At0(f, T, "reverse") BY <2>2, PartSum
    <2>4. At0(f, T, "reverse") = 0 BY <2>1 DEF At0
    <2>5. PICK n \in Int : n = Part("split", R, c) BY PartType
    <2>6. At0(f, T, "split") = IF a = "split" THEN 0 ELSE n
      BY <1>0, <2>1, <2>5 DEF At0, Part
    <2>7. CASE a = "split" BY <2>1, <2>3, <2>4, <2>6, <2>7
    <2>8. CASE a # "split"
      <3>1. At0(f, T, "split") = n BY <2>6, <2>8
      <3>2. SumFunctionOnSet(f, T) = n + 0 BY <2>3, <2>4, <3>1
      <3>3. SumFunctionOnSet(f, T) = n BY <3>2, <2>5
      <3> QED BY <2>1, <2>5, <2>8, <3>3
    <2> QED BY <2>7, <2>8
  <1> QED BY <1>1, <1>2, <1>3, <1>4

\* What the position and the most come to, with the bookings named.
LEMMA MostIs ==
    ASSUME Types, NEW c \in Accounts
    PROVE  /\ Position(c) = Unit * issued[c].shares + (Part("split", rows, c) + Part("reverse", rows, c))
                            + Unit * settled[c]
           /\ \A a \in Actions : Most(a, c) = Unit * (settled[c] + issued[c].shares)
                                             + (IF a = "split" THEN 0 ELSE Part("split", rows, c))
  <1>1. rows \in [Actions -> [Custody -> Int]] BY DEF Types
  <1>2. c \in Custody /\ c # Treasury BY SubscriptionsType
  <1>3. PICK f : f = [a \in Actions |-> rows[a][c]] OBVIOUS
  <1>4. /\ SumFunctionOnSet(f, Actions \ {"dividend"})
              = Part("split", rows, c) + Part("reverse", rows, c)
        /\ \A a \in Actions : SumFunctionOnSet(f, (Actions \ {a, "reverse"}) \ {"dividend"})
                                = IF a = "split" THEN 0 ELSE Part("split", rows, c)
    BY <1>1, <1>2, <1>3, PartSums
  <1>5. Booked(Actions, c) = Part("split", rows, c) + Part("reverse", rows, c)
    BY <1>3, <1>4 DEF Booked
  <1>6. \A a \in Actions : Booked(Actions \ {a, "reverse"}, c)
                             = IF a = "split" THEN 0 ELSE Part("split", rows, c)
    BY <1>3, <1>4 DEF Booked
  <1> QED BY <1>2, <1>5, <1>6 DEF Position, Most

LEMMA MostIsAfter ==
    ASSUME Types', NEW c \in Accounts, NEW a \in Actions
    PROVE  Most(a, c)' = Unit * (settled'[c] + issued'[c].shares)
                           + (IF a = "split" THEN 0 ELSE Part("split", rows', c))
  <1>1. rows' \in [Actions -> [Custody -> Int]] BY DEF Types
  <1>2. c \in Custody BY SubscriptionsType
  <1>3. PICK f : f = [x \in Actions |-> rows'[x][c]] OBVIOUS
  <1>4. \A x \in Actions : SumFunctionOnSet(f, (Actions \ {x, "reverse"}) \ {"dividend"})
                             = IF x = "split" THEN 0 ELSE Part("split", rows', c)
    BY <1>1, <1>2, <1>3, PartSums
  <1>5. Booked(Actions \ {a, "reverse"}, c)' = IF a = "split" THEN 0 ELSE Part("split", rows', c)
    BY <1>3, <1>4 DEF Booked
  <1> QED BY <1>5 DEF Most
-----------------------------------------------------------------------------
LEMMA FreshMost ==
    ASSUME Types, RowsFresh, NEW c \in Accounts
    PROVE  /\ settled[c] \in Nat /\ issued[c].shares \in Nat /\ Part("split", rows, c) \in Nat
           /\ Part("reverse", rows, c) \in Int /\ Part("reverse", rows, c) <= 0
           /\ \A a \in Actions : Most(a, c) \in Nat
  <1>1. c \in Custody BY SubscriptionsType
  <1>2. settled[c] \in Nat /\ issued[c].shares \in Nat
    <2>1. settled \in [Accounts -> Nat] /\ issued \in [Custody -> [shares : Int, cash : Int]]
      BY DEF Types
    <2>2. issued[c].shares \in Int BY <1>1, <2>1
    <2>3. issued[c].shares >= 0 BY DEF RowsFresh
    <2> QED BY <2>1, <2>2, <2>3
  <1>3. rows \in [Actions -> [Custody -> Int]] BY DEF Types
  <1>4. \A a \in Actions : Limited(a, Most(a, c), rows[a][c]) BY DEF RowsFresh, Within
  <1>5. \A a \in Actions : Most(a, c) = Unit * (settled[c] + issued[c].shares)
                                        + (IF a = "split" THEN 0 ELSE Part("split", rows, c))
    BY MostIs
  <1>6. PICK base \in Nat : base = Unit * (settled[c] + issued[c].shares) BY <1>2 DEF Unit
  <1>7. PICK s : s = "split" OBVIOUS
  <1>8. Part(s, rows, c) \in Nat
    <2>1. CASE s \notin Actions BY <2>1 DEF Part
    <2>2. CASE s \in Actions
      <3>1. Most(s, c) = base + 0 BY <1>5, <1>6, <1>7, <2>2
      <3>2. Most(s, c) \in Nat BY <3>1, <1>6
      <3>3. Limited(s, Most(s, c), rows[s][c]) BY <1>4, <2>2
      <3>4. rows[s][c] \in Int /\ 0 <= rows[s][c] BY <1>7, <2>2, <3>2, <3>3, LimitedIs
      <3> QED BY <2>2, <3>4 DEF Part
    <2> QED BY <2>1, <2>2
  <1>9. \A a \in Actions : Most(a, c) \in Nat
    <2> TAKE a \in Actions
    <2>1. PICK n \in Nat : n = Part(s, rows, c) BY <1>8
    <2>2. Most(a, c) = base + (IF a = s THEN 0 ELSE n) BY <1>5, <1>6, <1>7, <2>1
    <2> QED BY <2>2
  <1>10. PICK r : r = "reverse" OBVIOUS
  <1>11. Part(r, rows, c) \in Int /\ Part(r, rows, c) <= 0
    <2>1. CASE r \notin Actions BY <2>1 DEF Part
    <2>2. CASE r \in Actions
      <3>1. Most(r, c) \in Nat /\ Limited(r, Most(r, c), rows[r][c]) BY <1>4, <1>9, <2>2
      <3>2. rows[r][c] \in Int /\ rows[r][c] <= 0 BY <1>10, <2>2, <3>1, LimitedIs
      <3> QED BY <2>2, <3>2 DEF Part
    <2> QED BY <2>1, <2>2
  <1> QED BY <1>2, <1>7, <1>8, <1>9, <1>10, <1>11

\* A step that books no row but a new one, and takes no shares back.
Grew == /\ \A c \in Accounts : settled'[c] >= settled[c] /\ issued'[c].shares >= issued[c].shares
        /\ \A a \in Actions, c \in Accounts :
             rows'[a][c] = rows[a][c] \/ (rows[a][c] = 0 /\ Within(a, c, rows'[a][c]))

LEMMA MostGrows ==
    ASSUME Types, Types', RowsFresh, Grew, NEW c \in Accounts, NEW a \in Actions
    PROVE  Most(a, c) \in Nat /\ Most(a, c)' \in Nat /\ Most(a, c) <= Most(a, c)'
  <1>1. /\ settled[c] \in Nat /\ issued[c].shares \in Nat /\ Part("split", rows, c) \in Nat
        /\ \A x \in Actions : Most(x, c) \in Nat
    BY FreshMost
  <1>2. settled'[c] \in Nat /\ issued'[c].shares \in Int
    <2>1. settled' \in [Accounts -> Nat] /\ issued' \in [Custody -> [shares : Int, cash : Int]]
      BY DEF Types
    <2> QED BY <2>1, SubscriptionsType
  <1>3. settled'[c] >= settled[c] /\ issued'[c].shares >= issued[c].shares BY DEF Grew
  <1>4. PICK s : s = "split" OBVIOUS
  <1>5. PICK m \in Nat, n \in Nat : m = Part(s, rows, c) /\ n = Part(s, rows', c) /\ m <= n
    <2>1. CASE s \notin Actions BY <2>1 DEF Part
    <2>2. CASE s \in Actions
      <3>1. Part(s, rows, c) = rows[s][c] /\ Part(s, rows', c) = rows'[s][c] BY <2>2 DEF Part
      <3>2. CASE rows'[s][c] = rows[s][c] BY <1>1, <1>4, <3>1, <3>2
      <3>3. CASE rows[s][c] = 0 /\ Within(s, c, rows'[s][c])
        <4>1. Limited(s, Most(s, c), rows'[s][c]) /\ Most(s, c) \in Nat
          BY <1>1, <2>2, <3>3 DEF Within
        <4>2. rows'[s][c] \in Int /\ 0 <= rows'[s][c] BY <1>4, <2>2, <4>1, LimitedIs
        <4> QED BY <3>1, <3>3, <4>2
      <3> QED BY <2>2, <3>2, <3>3 DEF Grew
    <2> QED BY <2>1, <2>2
  <1>6. Most(a, c) = Unit * (settled[c] + issued[c].shares) + (IF a = s THEN 0 ELSE m)
    BY <1>4, <1>5, MostIs
  <1>7. Most(a, c)' = Unit * (settled'[c] + issued'[c].shares) + (IF a = s THEN 0 ELSE n)
    BY <1>4, <1>5, MostIsAfter
  <1>8. CASE a = s BY <1>1, <1>2, <1>3, <1>6, <1>7, <1>8 DEF Unit
  <1>9. CASE a # s BY <1>1, <1>2, <1>3, <1>5, <1>6, <1>7, <1>9 DEF Unit
  <1> QED BY <1>8, <1>9

\* What the record of a call about to insert has worked out.
Computed(r) == \A c \in Accounts : rows[r.event][c] = 0 => Within(r.event, c, r.rows[c])

LEMMA FreshKept ==
    ASSUME Types, Types', RowsFresh, Grew,
           \A k \in Calls : call'[k].at = "insert" => Computed(call'[k])
    PROVE  RowsFresh'
  <1>1. \A c \in Accounts : issued'[c].shares >= 0
    <2> TAKE c \in Accounts
    <2>1. issued[c].shares \in Nat BY FreshMost
    <2>2. issued'[c].shares \in Int
      <3>1. issued' \in [Custody -> [shares : Int, cash : Int]] BY DEF Types
      <3> QED BY <3>1, SubscriptionsType
    <2>3. issued'[c].shares >= issued[c].shares BY DEF Grew
    <2> QED BY <2>1, <2>2, <2>3
  <1>2. ASSUME NEW a \in Actions, NEW c \in Accounts, NEW v, Within(a, c, v)
        PROVE  Limited(a, Most(a, c)', v)
    <2>1. Most(a, c) \in Nat /\ Most(a, c)' \in Nat /\ Most(a, c) <= Most(a, c)' BY MostGrows
    <2>2. Limited(a, Most(a, c), v) BY <1>2 DEF Within
    <2> QED BY <2>1, <2>2, LimitedGrows
  <1>3. \A a \in Actions, c \in Accounts : Limited(a, Most(a, c)', rows'[a][c])
    <2> TAKE a \in Actions, c \in Accounts
    <2>1. Within(a, c, rows'[a][c])
      <3>1. Within(a, c, rows[a][c]) BY DEF RowsFresh
      <3> QED BY <3>1 DEF Grew
    <2> QED BY <1>2, <2>1
  <1>4. ASSUME NEW k \in Calls, call'[k].at = "insert", NEW c \in Accounts, NEW a \in Actions,
               a = call'[k].event, rows'[a][c] = 0
        PROVE  Limited(a, Most(a, c)', call'[k].rows[c])
    <2>1. rows[a][c] = 0 BY <1>4 DEF Grew
    <2>2. Within(a, c, call'[k].rows[c]) BY <1>4, <2>1 DEF Computed
    <2> QED BY <1>2, <2>2
  <1>5. \A k \in Calls : call'[k].at = "insert" => call'[k].event \in Actions
    BY DEF Types, StageOK, Fits
  <1> SUFFICES ASSUME NEW k \in Calls, call'[k].at = "insert", NEW c \in Accounts,
                      rows'[call'[k].event][c] = 0
               PROVE  Within(call[k].event, c, call[k].rows[c])'
    BY <1>1, <1>3 DEF RowsFresh, Within
  <1>6. PICK a \in Actions : a = call'[k].event BY <1>5
  <1>7. Limited(a, Most(a, c)', call'[k].rows[c]) BY <1>4, <1>6
  <1> QED BY <1>6, <1>7 DEF Within, Most

\* The stage a call comes to.
LEMMA StageOf ==
    ASSUME NEW k, NEW at, NEW event, NEW due, NEW left, NEW account, NEW entry, NEW read,
           NEW writes, Turns(k, Rec(at, event, due, left, account, entry, read, writes))
    PROVE  call'[k].at = at
  BY DEF Turns, Rec

LEMMA QuietRows ==
    ASSUME Types, NEW k \in Calls, Quiet(k)
    PROVE  \/ ReadPositions(k) \/ InsertRows(k)
           \/ rows' = rows /\ call'[k].at # "insert"
  <1>0. Idle.at = "idle" BY DEF Idle
  <1>00. ASSUME Turns(k, Idle) PROVE call'[k].at # "insert" BY <1>0, <1>00 DEF Turns
  <1>1. ASSUME NEW a \in Actions, Process(k, a) PROVE rows' = rows /\ call'[k].at # "insert"
    <2>1. PICK at : at = IF a \in completed THEN "repeat" ELSE "positions" OBVIOUS
    <2>2. Turns(k, Rec(at, a, Idle.rows, {}, Treasury, 0, 0, Idle.writes))
      BY <1>1, <2>1, ProcessTurns
    <2>3. call'[k].at = at BY <2>2, StageOf
    <2> QED BY <1>1, <2>1, <2>3 DEF Process, bei
  <1>2. CASE Repeat(k)
    <2>1. call'[k].at = "send" BY <1>2, RepeatTurns, StageOf
    <2> QED BY <1>2, <2>1 DEF Repeat, bei
  <1>3. CASE Complete(k)
    <2>1. call'[k].at = "send" BY <1>3, CompleteTurns, StageOf
    <2> QED BY <1>3, <2>1 DEF Complete
  <1>4. CASE SendAllocation(k)
    <2>1. Turns(k, Idle) \/ call'[k].at = "send" BY <1>4, SendAllocationTurns, StageOf
    <2> QED BY <1>00, <1>4, <2>1 DEF SendAllocation, bei
  <1>5. ASSUME NEW c \in Accounts, ReadShares(k, c) PROVE rows' = rows /\ call'[k].at # "insert"
    <2>1. call'[k].at = "write" BY <1>5, ReadSharesTurns, StageOf
    <2> QED BY <1>5, <2>1 DEF ReadShares, bei
  <1>6. CASE TakeEvent(k)
    <2>1. Turns(k, Idle) \/ call'[k].at = "book" BY <1>6, TakeEventTurns, StageOf
    <2> QED BY <1>00, <1>6, <2>1 DEF TakeEvent, bei
  <1>7. CASE WriteShares(k)
    <2>3. Turns(k, Idle) \/ call'[k].at = "book" BY <1>7, WriteSharesTurns, StageOf
    <2> QED BY <1>00, <1>7, <2>3 DEF WriteShares, bei
  <1>8. CASE CommitEvent(k) BY <1>00, <1>8, CommitEventTurns DEF CommitEvent, bei
  <1>9. CASE CutOff(k) BY <1>00, <1>9, CutOffTurns DEF CutOff, bei
  <1> QED BY <1>1, <1>2, <1>3, <1>4, <1>5, <1>6, <1>7, <1>8, <1>9 DEF Quiet

\* The positions read do not exceed what an action without a row may be worked out from.
LEMMA PositionWithin ==
    ASSUME Types, RowsFresh, NEW a \in Actions, NEW c \in Accounts, rows[a][c] = 0
    PROVE  Within(a, c, IF Position(c) > 0 THEN Entitlement(a, Position(c)) ELSE 0)
  <1>1. /\ settled[c] \in Nat /\ issued[c].shares \in Nat /\ Part("split", rows, c) \in Nat
        /\ Part("reverse", rows, c) \in Int /\ Part("reverse", rows, c) <= 0
        /\ Most(a, c) \in Nat
    BY FreshMost
  <1>2. PICK s, r : s = "split" /\ r = "reverse" OBVIOUS
  <1>3. PICK m \in Nat, n \in Int : m = Part(s, rows, c) /\ n = Part(r, rows, c) /\ n <= 0
    BY <1>1, <1>2
  <1>4. Position(c) = Unit * issued[c].shares + (m + n) + Unit * settled[c] BY <1>2, <1>3, MostIs
  <1>5. Most(a, c) = Unit * (settled[c] + issued[c].shares) + (IF a = s THEN 0 ELSE m)
    BY <1>2, <1>3, MostIs
  <1>6. a = s => m = 0 BY <1>3 DEF Part
  <1>7. Position(c) \in Int /\ Position(c) <= Most(a, c)
    <2>1. CASE a = s BY <1>1, <1>3, <1>4, <1>5, <1>6, <2>1 DEF Unit
    <2>2. CASE a # s BY <1>1, <1>3, <1>4, <1>5, <2>2 DEF Unit
    <2> QED BY <2>1, <2>2
  <1>8. CASE Position(c) > 0
    <2>1. Position(c) \in Nat BY <1>7, <1>8
    <2>2. Limited(a, Most(a, c), Entitlement(a, Position(c))) BY <1>1, <1>7, <2>1, EntitlementLimited
    <2> QED BY <1>8, <2>2 DEF Within
  <1>9. CASE ~(Position(c) > 0)
    <2>1. Limited(a, Most(a, c), 0) BY <1>1, EntitlementLimited
    <2> QED BY <1>9, <2>1 DEF Within
  <1> QED BY <1>8, <1>9

LEMMA FreshNext == Types /\ Types' /\ RowsFresh /\ [Next]_vars => RowsFresh'
  <1> SUFFICES ASSUME Types, Types', RowsFresh, [Next]_vars PROVE RowsFresh' OBVIOUS
  <1>0. /\ \A c \in Accounts : settled[c] \in Nat /\ issued[c].shares \in Int
        /\ \A k \in Calls : call[k].at = "insert" => Computed(call[k])
    BY FreshMost DEF RowsFresh, Computed
  <1>1. CASE UNCHANGED <<settled, issued, rows, call>>
    <2>1. Grew BY <1>0, <1>1 DEF Grew
    <2> QED BY <1>0, <1>1, <2>1, FreshKept
  <1>2. ASSUME NEW c \in Accounts, Customer(c) PROVE RowsFresh'
    <2>1. UNCHANGED <<rows, issued, call>> BY <1>2, CustomerKeeps
    <2>2. settled' = settled \/ settled' = [settled EXCEPT ![c] = @ + Bought[c]]
      <3>1. CASE BeiSettles(c) BY <3>1 DEF BeiSettles
      <3> QED BY <1>2, <3>1, CustomerKeeps
    <2>3. \A x \in Accounts : settled'[x] >= settled[x]
      <3>1. settled \in [Accounts -> Nat] BY DEF Types
      <3> QED BY <2>2, <3>1, SubscriptionsType
    <2>4. Grew BY <1>0, <2>1, <2>3 DEF Grew
    <2> QED BY <1>0, <2>1, <2>4, FreshKept
  <1>3. ASSUME NEW k \in Calls, Quiet(k) PROVE RowsFresh'
    <2>1. PICK r \in CallRecord : Calm(k, r) BY <1>3, QuietIsCalm
    <2>2. /\ Turns(k, r) /\ settled' = settled /\ issued' = issued
          /\ \A j \in Calls \ {k} : call'[j] = call[j]
      BY <2>1 DEF Calm, Turns
    <2>3. CASE ReadPositions(k)
      <3>1. PICK a \in Actions : a = call[k].event /\ rows' = rows
        BY <2>3, ReadPositionsTurns DEF ReadPositions, bei
      <3>2. call'[k].event = a /\ call'[k].rows = Entitled(a)
        <4>1. PICK s : s = Rec("insert", a, Entitled(a), call[k].left, call[k].account,
                               call[k].entry, call[k].read, call[k].writes)
          OBVIOUS
        <4>2. Turns(k, s) BY <2>3, <3>1, <4>1, ReadPositionsTurns
        <4> QED BY <4>1, <4>2 DEF Turns, Rec
      <3>3. Computed(call'[k])
        BY <3>2, PositionWithin, SubscriptionsType DEF Computed, Entitled
      <3>4. Grew BY <1>0, <2>2, <3>1 DEF Grew
      <3> QED BY <1>0, <2>2, <3>3, <3>4, FreshKept
    <2>4. CASE InsertRows(k)
      <3>1. PICK a \in Actions : a = call[k].event /\ call[k].at = "insert"
        BY <2>4, InsertRowsTurns
      <3>2. call'[k].at = "complete" BY <2>4, InsertRowsTurns, StageOf
      <3>3. \A x \in Actions, c \in Accounts :
              rows'[x][c] = IF x = a /\ rows[a][c] = 0 THEN call[k].rows[c] ELSE rows[x][c]
        <4>1. rows \in [Actions -> [Custody -> Int]] BY DEF Types
        <4>2. rows' = [rows EXCEPT ![a] = [c \in Custody |->
                         IF rows[a][c] = 0 THEN call[k].rows[c] ELSE rows[a][c]]]
          BY <2>4, <3>1, <4>1 DEF InsertRows
        <4> QED BY <4>1, <4>2, SubscriptionsType
      <3>4. Computed(call[k]) BY <1>0, <3>1
      <3>5. Grew BY <1>0, <2>2, <3>1, <3>3, <3>4 DEF Grew, Computed
      <3>6. \A j \in Calls : call'[j].at = "insert" => Computed(call'[j])
        BY <1>0, <2>2, <3>2
      <3> QED BY <3>5, <3>6, FreshKept
    <2>5. CASE rows' = rows /\ call'[k].at # "insert"
      <3>1. Grew BY <1>0, <2>2, <2>5 DEF Grew
      <3> QED BY <1>0, <2>2, <2>5, <3>1, FreshKept
    <2> QED BY <1>3, <2>3, <2>4, <2>5, QuietRows
  <1>4. ASSUME NEW k \in Calls, NEW c \in Accounts, InsertAllocation(k, c) PROVE RowsFresh'
    <2>1. UNCHANGED <<settled, rows, issued>> BY <1>4 DEF InsertAllocation
    <2>2. call'[k].at = "entries" /\ \A j \in Calls \ {k} : call'[j] = call[j]
      <3>1. Turns(k, Rec("entries", call[k].event, call[k].rows, call[k].left \ {c}, c, 1,
                         call[k].read, call[k].writes))
        BY <1>4, InsertAllocationTurns
      <3> QED BY <3>1, StageOf DEF Turns
    <2>3. Grew BY <1>0, <2>1 DEF Grew
    <2> QED BY <1>0, <2>2, <2>3, FreshKept
  <1>5. ASSUME NEW k \in Calls, Allocate(k) PROVE RowsFresh'
    <2>1. UNCHANGED <<settled, rows>> BY <1>5 DEF Allocate
    <2>2. call'[k].at = "allocate" /\ \A j \in Calls \ {k} : call'[j] = call[j]
      BY <1>5, AllocateTurns, StageOf DEF Turns
    <2>3. \A c \in Accounts : issued'[c].shares = issued[c].shares
      <3>1. issued \in [Custody -> [shares : Int, cash : Int]] BY DEF Types
      <3> QED BY <1>5, <3>1, SubscriptionsType DEF Allocate
    <2>4. Grew BY <1>0, <2>1, <2>3 DEF Grew
    <2> QED BY <1>0, <2>2, <2>4, FreshKept
  <1>6. ASSUME NEW k \in Calls, BookEntry(k) PROVE RowsFresh'
    <2>1. UNCHANGED <<settled, rows>> BY <1>6 DEF BookEntry
    <2>2. call'[k].at # "insert" /\ \A j \in Calls \ {k} : call'[j] = call[j]
      <3>1. CASE call[k].entry # 4
        <4>1. Turns(k, Rec("entries", call[k].event, call[k].rows, call[k].left, call[k].account,
                           call[k].entry + 1, call[k].read, call[k].writes))
          BY <1>6, <3>1, BookEntryTurns
        <4> QED BY <4>1, StageOf DEF Turns
      <3>2. CASE call[k].entry = 4
        <4>1. Turns(k, Rec("allocate", call[k].event,
                           [call[k].rows EXCEPT ![call[k].account]
                              = Unit * Subscriptions[call[k].account]],
                           call[k].left, Treasury, 0, call[k].read, call[k].writes))
          BY <1>6, <3>2, BookEntryTurns
        <4> QED BY <4>1, StageOf DEF Turns
      <3> QED BY <3>1, <3>2
    <2>3. \A c \in Accounts : issued'[c].shares >= issued[c].shares
      <3> TAKE c \in Accounts
      <3>1. /\ issued'[c].shares = issued[c].shares + Adds(k, c, 1, 2)
            /\ call[k].account \in Accounts
        BY <1>6, BookEntryTurns, SubscriptionsType
      <3>2. Adds(k, c, 1, 2) \in Nat BY <3>1, SubscriptionsType DEF Adds
      <3> QED BY <1>0, <3>1, <3>2
    <2>4. Grew BY <1>0, <2>1, <2>3 DEF Grew
    <2> QED BY <1>0, <2>2, <2>4, FreshKept
  <1>7. CASE UNCHANGED vars BY <1>1, <1>7 DEF vars, bei
  <1> QED BY <1>2, <1>3, <1>4, <1>5, <1>6, <1>7, NextSteps

LEMMA FreshInit == Init => RowsFresh
  <1> SUFFICES ASSUME Init PROVE RowsFresh OBVIOUS
  <1>1. /\ \A c \in Custody : issued[c].shares = 0
        /\ \A a \in Actions, c \in Custody : rows[a][c] = 0
        /\ \A k \in Calls : call[k].at = "idle"
    BY DEF Init, Idle
  <1>2. Types BY TypesInit
  <1>3. \A a \in Actions, c \in Accounts : Within(a, c, rows[a][c])
    <2> TAKE a \in Actions, c \in Accounts
    <2>1. c \in Custody /\ settled[c] \in Nat BY <1>2, SubscriptionsType DEF Types
    <2>2. PICK s : s = "split" OBVIOUS
    <2>3. Part(s, rows, c) = 0 BY <1>1, <2>1 DEF Part
    <2>4. Most(a, c) = Unit * (settled[c] + 0) + (IF a = s THEN 0 ELSE 0)
      BY <1>1, <1>2, <2>1, <2>2, <2>3, MostIs
    <2>5. Most(a, c) \in Nat BY <2>1, <2>4 DEF Unit
    <2>6. Limited(a, Most(a, c), 0) BY <2>5, EntitlementLimited
    <2> QED BY <1>1, <2>1, <2>6 DEF Within
  <1> QED BY <1>1, <1>3, SubscriptionsType DEF RowsFresh
-----------------------------------------------------------------------------
\* A step that leaves the books of SEKURITAS and its call outside a transaction.
Apart(k, r) == /\ Turns(k, r) /\ r.at \notin {"book", "write"}
               /\ UNCHANGED <<shares, settling, applied, credited, paid, overwritten>>
               /\ slips \subseteq slips'

Outside(k) == \/ \E a \in Actions : Process(k, a)
              \/ Repeat(k) \/ ReadPositions(k) \/ InsertRows(k) \/ Complete(k) \/ SendAllocation(k)
              \/ Allocate(k) \/ BookEntry(k) \/ CutOff(k)
              \/ \E c \in Accounts : InsertAllocation(k, c)

LEMMA OutsideIsApart ==
    ASSUME Types, NEW k \in Calls, Outside(k)
    PROVE  \E r : Apart(k, r)
  <1>0. Idle.at \notin {"book", "write"} BY DEF Idle
  <1>1. ASSUME NEW a \in Actions, Process(k, a) PROVE \E r : Apart(k, r)
    <2>1. PICK r : r = Rec(IF a \in completed THEN "repeat" ELSE "positions", a, Idle.rows, {},
                           Treasury, 0, 0, Idle.writes)
      OBVIOUS
    <2>2. Turns(k, r) BY <1>1, <2>1, ProcessTurns
    <2>3. Apart(k, r) BY <1>1, <2>1, <2>2 DEF Process, sekuritas, Apart, Rec
    <2> QED BY <2>3
  <1>2. CASE Repeat(k)
    <2>1. PICK r : r = Rec("send", call[k].event, rows[call[k].event], call[k].left, call[k].account,
                           call[k].entry, call[k].read, call[k].writes)
      OBVIOUS
    <2>2. Turns(k, r) BY <1>2, <2>1, RepeatTurns
    <2>3. Apart(k, r) BY <1>2, <2>1, <2>2 DEF Repeat, sekuritas, Apart, Rec
    <2> QED BY <2>3
  <1>3. CASE ReadPositions(k)
    <2>1. PICK r : r = Rec("insert", call[k].event, Entitled(call[k].event), call[k].left,
                           call[k].account, call[k].entry, call[k].read, call[k].writes)
      OBVIOUS
    <2>2. Turns(k, r) BY <1>3, <2>1, ReadPositionsTurns
    <2>3. Apart(k, r) BY <1>3, <2>1, <2>2 DEF ReadPositions, sekuritas, Apart, Rec
    <2> QED BY <2>3
  <1>4. CASE InsertRows(k)
    <2>1. PICK r : r = Rec("complete", call[k].event, call[k].rows, call[k].left,
                           call[k].account, call[k].entry, call[k].read, call[k].writes)
      OBVIOUS
    <2>2. Turns(k, r) BY <1>4, <2>1, InsertRowsTurns
    <2>3. Apart(k, r) BY <1>4, <2>1, <2>2 DEF InsertRows, sekuritas, Apart, Rec, Slip
    <2> QED BY <2>3
  <1>5. CASE Complete(k)
    <2>1. PICK r : r = Rec("send", call[k].event, call[k].rows, call[k].left,
                           call[k].account, call[k].entry, call[k].read, call[k].writes)
      OBVIOUS
    <2>2. Turns(k, r) BY <1>5, <2>1, CompleteTurns
    <2>3. Apart(k, r) BY <1>5, <2>1, <2>2 DEF Complete, sekuritas, Apart, Rec
    <2> QED BY <2>3
  <1>6. CASE SendAllocation(k)
    <2>1. PICK r : r = Rec("send", call[k].event, call[k].rows, call[k].left,
                           call[k].account, call[k].entry, call[k].read, call[k].writes)
      OBVIOUS
    <2>2. Turns(k, r) \/ Turns(k, Idle) BY <1>6, <2>1, SendAllocationTurns
    <2>3. Apart(k, r) \/ Apart(k, Idle)
      BY <1>0, <1>6, <2>1, <2>2 DEF SendAllocation, sekuritas, Apart, Rec
    <2> QED BY <2>3
  <1>7. CASE Allocate(k)
    <2>1. PICK r : r = Rec("allocate", "ipo", Idle.rows, subscribed, Treasury, 0, 0, Idle.writes)
      OBVIOUS
    <2>2. Turns(k, r) BY <1>7, <2>1, AllocateTurns
    <2>3. Apart(k, r) BY <1>7, <2>1, <2>2 DEF Allocate, sekuritas, Apart, Rec, Slip
    <2> QED BY <2>3
  <1>8. CASE BookEntry(k)
    <2>1. PICK r : Turns(k, r) /\ r.at \in {"entries", "allocate"}
      <3>1. CASE call[k].entry # 4
        <4>1. PICK r : r = Rec("entries", call[k].event, call[k].rows, call[k].left, call[k].account,
                               call[k].entry + 1, call[k].read, call[k].writes)
          OBVIOUS
        <4>2. Turns(k, r) BY <1>8, <3>1, <4>1, BookEntryTurns
        <4> QED BY <4>1, <4>2 DEF Rec
      <3>2. CASE call[k].entry = 4
        <4>1. PICK r : r = Rec("allocate", call[k].event,
                               [call[k].rows EXCEPT ![call[k].account]
                                  = Unit * Subscriptions[call[k].account]],
                               call[k].left, Treasury, 0, call[k].read, call[k].writes)
          OBVIOUS
        <4>2. Turns(k, r) BY <1>8, <3>2, <4>1, BookEntryTurns
        <4> QED BY <4>1, <4>2 DEF Rec
      <3> QED BY <3>1, <3>2
    <2>2. Apart(k, r) BY <1>8, <2>1 DEF BookEntry, sekuritas, Apart
    <2> QED BY <2>2
  <1>9. ASSUME NEW c \in Accounts, InsertAllocation(k, c) PROVE \E r : Apart(k, r)
    <2>1. PICK r : r = Rec("entries", call[k].event, call[k].rows, call[k].left \ {c}, c, 1,
                           call[k].read, call[k].writes)
      OBVIOUS
    <2>2. Turns(k, r) BY <1>9, <2>1, InsertAllocationTurns
    <2>3. Apart(k, r) BY <1>9, <2>1, <2>2 DEF InsertAllocation, sekuritas, Apart, Rec
    <2> QED BY <2>3
  <1>10. CASE CutOff(k)
    <2>1. Apart(k, Idle) BY <1>0, <1>10, CutOffTurns DEF CutOff, sekuritas, Apart
    <2> QED BY <2>1
  <1> QED BY <1>1, <1>2, <1>3, <1>4, <1>5, <1>6, <1>7, <1>8, <1>9, <1>10 DEF Outside

\* A step within a transaction at SEKURITAS that is not the last.
Inside(k, r) == /\ Turns(k, r) /\ r.at \in {"book", "write"}
                /\ UNCHANGED <<shares, settling, applied, credited, paid>>
                /\ slips \subseteq slips' /\ overwritten \subseteq overwritten'

\* The transaction takes the event, moves a position, or commits.
LEMMA BooksSteps ==
    ASSUME Types, Next
    PROVE  \/ \E c \in Accounts : Customer(c)
           \/ \E k \in Calls :
                \/ \E r : Apart(k, r)
                \/ CommitEvent(k)
                \/ TakeEvent(k) /\ call[k].event \notin applied
                \/ \E c \in Accounts : ReadShares(k, c)
                \/ WriteShares(k) /\ ~Refused(k)
  <1>0. Idle.at \notin {"book", "write"} BY DEF Idle
  <1>1. ASSUME NEW k \in Calls, TakeEvent(k), call[k].event \in applied PROVE \E r : Apart(k, r)
    <2>1. Apart(k, Idle) BY <1>0, <1>1, TakeEventTurns DEF TakeEvent, sekuritas, Apart
    <2> QED BY <2>1
  <1>2. ASSUME NEW k \in Calls, WriteShares(k), Refused(k) PROVE \E r : Apart(k, r)
    <2>1. Turns(k, Idle) /\ overwritten' = overwritten BY <1>2, WriteSharesTurns
    <2>2. Apart(k, Idle) BY <1>0, <1>2, <2>1 DEF WriteShares, Apart
    <2> QED BY <2>2
  <1>3. \A k \in Calls : Outside(k) => \E r : Apart(k, r) BY OutsideIsApart
  <1>4. \/ \E c \in Accounts : Customer(c)
        \/ \E k \in Calls : \/ Outside(k) \/ CommitEvent(k) \/ TakeEvent(k)
                            \/ \E c \in Accounts : ReadShares(k, c)
                            \/ WriteShares(k)
    BY DEF Next, Customer, Outside
  <1> QED BY <1>1, <1>2, <1>3, <1>4

LEMMA TakeEventInside ==
    ASSUME Types, NEW k \in Calls, TakeEvent(k), call[k].event \notin applied
    PROVE  \E r : /\ Inside(k, r) /\ r.event = call[k].event /\ r.rows = Due(k)
                  /\ r.left = Concerned(k) /\ r.writes = call[k].writes /\ r.at = "book"
                  /\ bei' = bei
  <1>1. PICK r : r = Rec("book", call[k].event, Due(k), Concerned(k), call[k].account,
                         call[k].entry, call[k].read, call[k].writes)
    OBVIOUS
  <1>2. /\ Turns(k, r)
        /\ slips' = IF NonZero(call[k].rows) THEN slips ELSE slips \cup {"local"}
    BY <1>1, TakeEventTurns
  <1>3. Inside(k, r) BY <1>1, <1>2 DEF TakeEvent, sekuritas, Inside, Rec
  <1>4. bei' = bei BY DEF TakeEvent
  <1> QED BY <1>1, <1>3, <1>4 DEF Rec

LEMMA ReadSharesInside ==
    ASSUME Types, NEW k \in Calls, NEW c \in Accounts, ReadShares(k, c)
    PROVE  \E r : /\ Inside(k, r) /\ r.event = call[k].event /\ r.rows = call[k].rows
                  /\ r.left = call[k].left \ {c} /\ r.writes = call[k].writes
                  /\ r.at = "write" /\ r.account = c /\ bei' = bei
                  /\ slips' = slips /\ overwritten' = overwritten
  <1>1. PICK r : r = Rec("write", call[k].event, call[k].rows, call[k].left \ {c}, c,
                         call[k].entry, Found(c), call[k].writes)
    OBVIOUS
  <1>2. Turns(k, r) BY <1>1, ReadSharesTurns
  <1>3. Inside(k, r) BY <1>1, <1>2 DEF ReadShares, sekuritas, Inside, Rec
  <1>4. bei' = bei /\ slips' = slips /\ overwritten' = overwritten BY DEF ReadShares, sekuritas
  <1> QED BY <1>1, <1>3, <1>4 DEF Rec

LEMMA WriteSharesInside ==
    ASSUME Types, NEW k \in Calls, WriteShares(k), ~Refused(k)
    PROVE  \E r : /\ Inside(k, r) /\ r.event = call[k].event /\ r.rows = call[k].rows
                  /\ r.left = call[k].left /\ r.at = "book" /\ bei' = bei
                  /\ r.writes = [call[k].writes EXCEPT ![call[k].account] = Moved(k)]
                  /\ slips' = slips /\ Moved(k) >= 0
                  /\ overwritten' = IF Overwrites(k) THEN overwritten \cup {call[k].account}
                                    ELSE overwritten
  <1>1. PICK r : r = Rec("book", call[k].event, call[k].rows, call[k].left, Treasury,
                         call[k].entry, 0,
                         [call[k].writes EXCEPT ![call[k].account] = Moved(k)])
    OBVIOUS
  <1>2. /\ Turns(k, r) /\ Moved(k) >= 0
        /\ overwritten' = IF Overwrites(k) THEN overwritten \cup {call[k].account} ELSE overwritten
    BY <1>1, WriteSharesTurns
  <1>5. overwritten \subseteq overwritten' BY <1>2
  <1>3. Inside(k, r) BY <1>1, <1>2, <1>5 DEF WriteShares, Inside, Rec
  <1>4. bei' = bei /\ slips' = slips BY DEF WriteShares
  <1> QED BY <1>1, <1>2, <1>3, <1>4 DEF Rec

-----------------------------------------------------------------------------
\* A call that enters or stays in the transaction of its event, or is in none.
LEMMA BooksTurn ==
    ASSUME Types, OneBooks, NEW k \in Calls, NEW r, Turns(k, r), applied' = applied,
           credited' = credited, paid' = paid,
           r.at \in {"book", "write"} =>
             \/ InBook(k) /\ r.event = call[k].event
             \/ r.event \notin applied /\ \A j \in Calls : InBook(j) => call[j].event # r.event
    PROVE  OneBooks'
  <1>1. /\ call'[k] = r /\ \A j \in Calls \ {k} : call'[j] = call[j] BY DEF Turns
  <1>2. ASSUME NEW j \in Calls, NEW i \in Calls,
               call'[j].at \in {"book", "write"}, call'[i].at \in {"book", "write"},
               call'[j].event = call'[i].event
        PROVE  j = i
    <2>1. CASE j # k /\ i # k BY <1>1, <1>2, <2>1 DEF OneBooks, InBook
    <2>2. CASE j = k /\ i # k BY <1>1, <1>2, <2>2 DEF OneBooks, InBook
    <2>3. CASE i = k /\ j # k BY <1>1, <1>2, <2>3 DEF OneBooks, InBook
    <2> QED BY <2>1, <2>2, <2>3
  <1>3. \A j \in Calls : call'[j].at \in {"book", "write"} => call'[j].event \notin applied'
    BY <1>1 DEF OneBooks, InBook
  <1>4. /\ \A e \in Events \ applied', c \in Accounts : credited'[e][c] = 0
        /\ "ipo" \notin applied' => \A c \in Accounts : paid'[c] = 0
    BY DEF OneBooks
  <1> QED BY <1>2, <1>3, <1>4 DEF OneBooks, InBook

LEMMA BooksNext == Types /\ OneBooks /\ [Next]_vars => OneBooks'
  <1> SUFFICES ASSUME Types, OneBooks, [Next]_vars PROVE OneBooks' OBVIOUS
  <1>1. CASE UNCHANGED <<call, applied, credited, paid>> BY <1>1 DEF OneBooks, InBook
  <1>2. ASSUME NEW c \in Accounts, Customer(c) PROVE OneBooks'
    BY <1>1, <1>2, CustomerKeeps
  <1>3. ASSUME NEW k \in Calls, NEW r, Apart(k, r) PROVE OneBooks'
    BY <1>3, BooksTurn DEF Apart
  <1>4. ASSUME NEW k \in Calls, CommitEvent(k) PROVE OneBooks'
    <2>1. PICK e \in Events : e = call[k].event BY CallFields
    <2>2. /\ call[k].at = "book" /\ Turns(k, Idle) /\ applied' = applied \cup {e}
          /\ \A x \in Events \ {e}, c \in Accounts : credited'[x][c] = credited[x][c]
      BY <1>4, <2>1, CommitEventTurns
    <2>3. /\ call'[k].at = "idle" /\ \A j \in Calls \ {k} : call'[j] = call[j]
      BY <2>2 DEF Turns, Idle
    <2>4. \A j \in Calls \ {k} : InBook(j) => call[j].event # e
      BY <2>1, <2>2 DEF OneBooks, InBook
    <2>5. ASSUME NEW j \in Calls, NEW i \in Calls,
                 call'[j].at \in {"book", "write"}, call'[i].at \in {"book", "write"},
                 call'[j].event = call'[i].event
          PROVE  j = i
      <3>1. j # k /\ i # k BY <2>3, <2>5
      <3>2. call'[j] = call[j] /\ call'[i] = call[i] BY <2>3, <3>1
      <3> QED BY <2>5, <3>2 DEF OneBooks, InBook
    <2>6. \A j \in Calls : call'[j].at \in {"book", "write"} => call'[j].event \notin applied'
      BY <2>2, <2>3, <2>4 DEF OneBooks, InBook
    <2>7. \A x \in Events \ applied', c \in Accounts : credited'[x][c] = 0 BY <2>2 DEF OneBooks
    <2>8. ASSUME "ipo" \notin applied', NEW c \in Accounts PROVE paid'[c] = 0
      <3>1. "ipo" \notin applied /\ e # "ipo" BY <2>2, <2>8
      <3>2. paid[c] = 0 BY <3>1 DEF OneBooks
      <3>3. paid'[c] = paid[c] - 0 BY <1>4, <2>1, <3>1, CommitEventTurns
      <3> QED BY <3>2, <3>3
    <2> QED BY <2>5, <2>6, <2>7, <2>8 DEF OneBooks, InBook
  <1>5. ASSUME NEW k \in Calls, TakeEvent(k), call[k].event \notin applied PROVE OneBooks'
    <2>1. PICK r : Inside(k, r) /\ r.event = call[k].event BY <1>5, TakeEventInside
    <2>2. \A j \in Calls : InBook(j) => call[j].event # r.event BY <1>5, <2>1, TakeEventTurns
    <2> QED BY <1>5, <2>1, <2>2, BooksTurn DEF Inside
  <1>6. ASSUME NEW k \in Calls, NEW c \in Accounts, ReadShares(k, c) PROVE OneBooks'
    <2>1. PICK r : Inside(k, r) /\ r.event = call[k].event BY <1>6, ReadSharesInside
    <2>2. InBook(k) BY <1>6, ReadSharesTurns DEF InBook
    <2> QED BY <2>1, <2>2, BooksTurn DEF Inside
  <1>7. ASSUME NEW k \in Calls, WriteShares(k), ~Refused(k) PROVE OneBooks'
    <2>1. PICK r : Inside(k, r) /\ r.event = call[k].event BY <1>7, WriteSharesInside
    <2>2. InBook(k) BY <1>7, WriteSharesTurns DEF InBook
    <2> QED BY <2>1, <2>2, BooksTurn DEF Inside
  <1>8. CASE UNCHANGED vars BY <1>1, <1>8 DEF vars, sekuritas
  <1> QED BY <1>2, <1>3, <1>4, <1>5, <1>6, <1>7, <1>8, BooksSteps

LEMMA BooksInit == Init => OneBooks
  BY DEF Init, OneBooks, InBook, Idle

-----------------------------------------------------------------------------
LEMMA UnmintedNext == Types /\ Unminted /\ [Next]_vars => Unminted'
  <1> SUFFICES ASSUME Types, Unminted, [Next]_vars, ~minted'
               PROVE  /\ \A j \in Calls : ~IpoCall(call'[j])
                      /\ "ipo" \notin applied'
                      /\ \A c \in Custody : issued'[c].shares = 0 /\ issued'[c].cash = 0
    BY DEF Unminted, IsIpo
  <1>1. CASE UNCHANGED <<minted, call, applied, issued>> BY <1>1 DEF Unminted, IsIpo
  <1>2. ASSUME NEW c \in Accounts, Customer(c)
        PROVE  UNCHANGED <<minted, call, applied, issued>>
    BY <1>2, CustomerKeeps
  <1>3. ASSUME NEW k \in Calls, Quiet(k)
        PROVE  /\ \A j \in Calls : ~IpoCall(call'[j])
               /\ "ipo" \notin applied'
               /\ \A c \in Custody : issued'[c].shares = 0 /\ issued'[c].cash = 0
    <2>1. PICK r \in CallRecord : Calm(k, r) BY <1>3, QuietIsCalm
    <2>2. /\ call'[k] = r /\ \A j \in Calls \ {k} : call'[j] = call[j]
          /\ r.at = "idle" \/ r.event # "ipo" \/ IsIpo(k)
          /\ issued' = issued /\ minted' = minted
          /\ "ipo" \in applied' => "ipo" \in applied \/ IsIpo(k)
      BY <2>1 DEF Calm, Turns
    <2> QED BY <2>2 DEF Unminted, IsIpo, IpoCall
  <1>4. ASSUME NEW k \in Calls, Allocate(k) PROVE FALSE BY <1>4 DEF Allocate
  <1>5. ASSUME NEW k \in Calls, BookEntry(k) PROVE FALSE
    BY <1>5, BookEntryTurns DEF BookEntry
  <1>6. ASSUME NEW k \in Calls, NEW c \in Accounts, InsertAllocation(k, c) PROVE FALSE
    <2>1. call[k].at = "allocate" /\ minted' = minted BY <1>6, InsertAllocationTurns DEF InsertAllocation
    <2>2. Fits(call[k], minted) BY DEF Types, StageOK
    <2> QED BY <2>1, <2>2 DEF Fits
  <1>7. CASE UNCHANGED vars BY <1>1, <1>7 DEF vars, bei, sekuritas
  <1> QED BY <1>1, <1>2, <1>3, <1>4, <1>5, <1>6, <1>7, NextSteps

LEMMA UnmintedInit == Init => Unminted
  BY DEF Init, Unminted, IsIpo, IpoCall, Idle
-----------------------------------------------------------------------------
LEMMA CleanKept == ASSUME slips \subseteq slips', Clean' PROVE Clean
  BY DEF Clean

\* What the record of a call says of the ledger, if nothing else is booked.
SentOK(k, r) == ActionSent(r) /\ IpoSent(r) /\ (IpoCall(r) => IsIpo(k))

LEMMA MirrorTurn ==
    ASSUME Mirror, NEW k \in Calls, NEW r, Turns(k, r), slips \subseteq slips',
           UNCHANGED <<rows, issued, applied, credited, paid>>, Clean' /\ Clean => SentOK(k, r)
    PROVE  Mirror'
  <1> SUFFICES ASSUME Clean' PROVE Mirror' BY DEF Mirror
  <1>1. Clean BY CleanKept
  <1>2. /\ call'[k] = r /\ \A j \in Calls \ {k} : call'[j] = call[j]
        /\ ActionSent(r) /\ IpoSent(r) /\ (IpoCall(r) => IsIpo(k))
    BY <1>1 DEF Turns, SentOK
  <1>3. /\ \A j \in Calls : ActionSent(call[j]) /\ IpoSent(call[j])
        /\ \A j, i \in Calls : IsIpo(j) /\ IsIpo(i) => j = i
        /\ \A e \in applied \cap Actions : NonZero(rows[e])
        /\ MirrorsLedger
    BY <1>1 DEF Mirror
  <1>4. ASSUME NEW j \in Calls PROVE ActionSent(call'[j]) /\ IpoSent(call'[j])
    <2>1. CASE j = k BY <1>2, <2>1
    <2>2. CASE j # k BY <1>2, <1>3, <2>2
    <2> QED BY <2>1, <2>2
  <1>5. \A j \in Calls : (ActionSent(call[j]) /\ IpoSent(call[j]))'
    BY <1>4 DEF ActionSent, IpoSent
  <1>6. ASSUME NEW j \in Calls, NEW i \in Calls, IpoCall(call'[j]), IpoCall(call'[i])
        PROVE  j = i
    <2>1. IsIpo(j) /\ IsIpo(i) BY <1>2, <1>6 DEF IsIpo
    <2> QED BY <1>3, <2>1
  <1>7. MirrorsLedger' BY <1>1, <1>3 DEF MirrorsLedger, Clean
  <1> QED BY <1>3, <1>5, <1>6, <1>7 DEF Mirror, IsIpo

\* The stage moves on with what has been collected.
LEMMA SameSent ==
    ASSUME NEW s, NEW r, r.event = s.event, r.rows = s.rows, s.at \notin {"idle", "entries"},
           r.at \notin {"allocate", "entries"}, IpoSent(s)
    PROVE  IpoSent(r) /\ (IpoCall(r) => IpoCall(s))
  BY DEF IpoSent, IpoCall

LEMMA IdleSent == ActionSent(Idle) /\ IpoSent(Idle) /\ ~IpoCall(Idle)
  BY DEF ActionSent, IpoSent, IpoCall, Idle

LEMMA ActionNotIpo == ASSUME NEW a \in Actions PROVE a # "ipo" /\ a \in Events
  BY IdleRecord DEF Events

\* An action's call before it sends.
LEMMA ActionCall ==
    ASSUME NEW r, r.event \in Actions, r.at \notin {"complete", "send", "book", "write"}
    PROVE  ActionSent(r) /\ IpoSent(r) /\ ~IpoCall(r)
  <1>1. r.event # "ipo" BY ActionNotIpo
  <1> QED BY <1>1 DEF ActionSent, IpoSent, IpoCall

\* The steps of a call that book nothing.
LEMMA MirrorQuiet ==
    ASSUME Types, Mirror, NEW k \in Calls, Quiet(k), ~InsertRows(k), ~CommitEvent(k)
    PROVE  Mirror'
  <1>0. Clean => ActionSent(call[k]) /\ IpoSent(call[k]) BY DEF Mirror
  <1>00. SentOK(k, Idle) BY IdleSent DEF SentOK
  <1>1. ASSUME NEW a \in Actions, Process(k, a) PROVE Mirror'
    <2>1. PICK r : r = Rec(IF a \in completed THEN "repeat" ELSE "positions", a, Idle.rows, {},
                           Treasury, 0, 0, Idle.writes)
      OBVIOUS
    <2>2. Turns(k, r) BY <1>1, <2>1, ProcessTurns
    <2>3. UNCHANGED <<rows, issued, applied, credited, paid, slips>> BY <1>1 DEF Process, bei, sekuritas
    <2>4. r.event \in Actions /\ r.at \notin {"complete", "send", "book", "write"} BY <2>1 DEF Rec
    <2>5. SentOK(k, r) BY <2>4, ActionCall DEF SentOK
    <2> QED BY <2>2, <2>3, <2>5, MirrorTurn
  <1>2. CASE Repeat(k)
    <2>1. PICK r : r = Rec("send", call[k].event, rows[call[k].event], call[k].left, call[k].account,
                           call[k].entry, call[k].read, call[k].writes)
      OBVIOUS
    <2>2. call[k].event \in Actions /\ Turns(k, r) BY <1>2, <2>1, RepeatTurns
    <2>3. UNCHANGED <<rows, issued, applied, credited, paid, slips>> BY <1>2 DEF Repeat, bei, sekuritas
    <2>4. r.at = "send" /\ r.event = call[k].event /\ r.rows = rows[r.event] /\ r.event # "ipo"
      BY <2>1, <2>2, ActionNotIpo DEF Rec
    <2>5. SentOK(k, r) BY <2>4 DEF SentOK, ActionSent, IpoSent, IpoCall
    <2> QED BY <2>2, <2>3, <2>5, MirrorTurn
  <1>3. CASE ReadPositions(k)
    <2>1. PICK r : r = Rec("insert", call[k].event, Entitled(call[k].event), call[k].left,
                           call[k].account, call[k].entry, call[k].read, call[k].writes)
      OBVIOUS
    <2>2. call[k].event \in Actions /\ Turns(k, r) BY <1>3, <2>1, ReadPositionsTurns
    <2>3. UNCHANGED <<rows, issued, applied, credited, paid, slips>>
      BY <1>3 DEF ReadPositions, bei, sekuritas
    <2>4. r.event \in Actions /\ r.at = "insert" BY <2>1, <2>2 DEF Rec
    <2>5. SentOK(k, r) BY <2>4, ActionCall DEF SentOK
    <2> QED BY <2>2, <2>3, <2>5, MirrorTurn
  <1>4. CASE Complete(k)
    <2>1. PICK r : r = Rec("send", call[k].event, call[k].rows, call[k].left,
                           call[k].account, call[k].entry, call[k].read, call[k].writes)
      OBVIOUS
    <2>2. call[k].at = "complete" /\ call[k].event \in Actions /\ Turns(k, r)
      BY <1>4, <2>1, CompleteTurns
    <2>3. UNCHANGED <<rows, issued, applied, credited, paid, slips>> BY <1>4 DEF Complete, sekuritas
    <2>4. r.at = "send" /\ r.event = call[k].event /\ r.rows = call[k].rows /\ r.event # "ipo"
      BY <2>1, <2>2, ActionNotIpo DEF Rec
    <2>5. Clean => SentOK(k, r) BY <1>0, <2>2, <2>4 DEF SentOK, ActionSent, IpoSent, IpoCall
    <2> QED BY <2>2, <2>3, <2>5, MirrorTurn
  <1>5. CASE SendAllocation(k)
    <2>1. PICK r : r = Rec("send", call[k].event, call[k].rows, call[k].left,
                           call[k].account, call[k].entry, call[k].read, call[k].writes)
      OBVIOUS
    <2>2. call[k].at = "allocate" /\ (Turns(k, r) \/ Turns(k, Idle))
      BY <1>5, <2>1, SendAllocationTurns
    <2>3. UNCHANGED <<rows, issued, applied, credited, paid, slips>>
      BY <1>5 DEF SendAllocation, bei, sekuritas
    <2>4. r.at = "send" /\ r.event = call[k].event /\ r.rows = call[k].rows /\ r.event \notin Actions
      <3>1. call[k].event = "ipo" BY <2>2, CallFields DEF StageOK, Fits
      <3> QED BY <2>1, <3>1, ActionNotIpo DEF Rec
    <2>5. Clean => IpoSent(r) /\ (IpoCall(r) => IpoCall(call[k])) BY <1>0, <2>2, <2>4, SameSent
    <2>6. Clean => SentOK(k, r) BY <2>4, <2>5 DEF SentOK, ActionSent, IsIpo
    <2> QED BY <1>00, <2>2, <2>3, <2>6, MirrorTurn
  <1>6. ASSUME NEW c \in Accounts, ReadShares(k, c) PROVE Mirror'
    <2>1. call[k].at = "book" BY <1>6, ReadSharesTurns
    <2>2. PICK r : /\ Inside(k, r) /\ r.event = call[k].event /\ r.rows = call[k].rows
                   /\ r.at = "write" /\ bei' = bei
      BY <1>6, ReadSharesInside
    <2>3. UNCHANGED <<rows, issued, applied, credited, paid>> /\ slips \subseteq slips' /\ Turns(k, r)
      BY <2>2 DEF Inside, bei
    <2>5. Clean => IpoSent(r) /\ (IpoCall(r) => IpoCall(call[k])) BY <1>0, <2>1, <2>2, SameSent
    <2>6. Clean => SentOK(k, r) BY <1>0, <2>1, <2>2, <2>5 DEF SentOK, ActionSent, IsIpo
    <2> QED BY <2>3, <2>6, MirrorTurn
  <1>7. CASE TakeEvent(k) /\ call[k].event \in applied
    <2>1. Turns(k, Idle) /\ slips' = slips BY <1>7, TakeEventTurns
    <2>2. UNCHANGED <<rows, issued, applied, credited, paid>> BY <1>7 DEF TakeEvent, bei, sekuritas
    <2> QED BY <1>00, <2>1, <2>2, MirrorTurn
  <1>8. CASE TakeEvent(k) /\ call[k].event \notin applied
    <2>1. /\ call[k].at = "send"
          /\ slips' = IF NonZero(call[k].rows) THEN slips ELSE slips \cup {"local"}
      BY <1>8, TakeEventTurns
    <2>2. PICK r : /\ Inside(k, r) /\ r.event = call[k].event /\ r.rows = Due(k)
                   /\ r.at = "book" /\ bei' = bei
      BY <1>8, TakeEventInside
    <2>3. UNCHANGED <<rows, issued, applied, credited, paid>> /\ slips \subseteq slips' /\ Turns(k, r)
      BY <2>2 DEF Inside, bei
    <2>4. Clean' => NonZero(call[k].rows) /\ r.rows = call[k].rows
      BY <2>1, <2>2 DEF Clean, Due
    <2>5. Clean /\ Clean' => IpoSent(r) /\ (IpoCall(r) => IpoCall(call[k]))
      BY <1>0, <2>1, <2>2, <2>4, SameSent
    <2>6. Clean /\ Clean' => SentOK(k, r)
      BY <1>0, <2>1, <2>2, <2>4, <2>5 DEF SentOK, ActionSent, IsIpo
    <2> QED BY <2>3, <2>6, MirrorTurn
  <1>9. CASE WriteShares(k)
    <2>0. call[k].at = "write" BY <1>9, WriteSharesTurns
    <2>1. CASE Refused(k)
      <3>1. Turns(k, Idle) /\ slips' = slips BY <1>9, <2>1, WriteSharesTurns DEF WriteShares
      <3>2. UNCHANGED <<rows, issued, applied, credited, paid>> BY <1>9 DEF WriteShares, bei, sekuritas
      <3> QED BY <1>00, <3>1, <3>2, MirrorTurn
    <2>2. CASE ~Refused(k)
      <3>2. PICK r : /\ Inside(k, r) /\ r.event = call[k].event /\ r.rows = call[k].rows
                     /\ r.at = "book" /\ bei' = bei
        BY <1>9, <2>2, WriteSharesInside
      <3>3. UNCHANGED <<rows, issued, applied, credited, paid>> /\ slips \subseteq slips' /\ Turns(k, r)
        BY <3>2 DEF Inside, bei
      <3>5. Clean => IpoSent(r) /\ (IpoCall(r) => IpoCall(call[k])) BY <1>0, <2>0, <3>2, SameSent
      <3>6. Clean => SentOK(k, r) BY <1>0, <2>0, <3>2, <3>5 DEF SentOK, ActionSent, IsIpo
      <3> QED BY <3>3, <3>6, MirrorTurn
    <2> QED BY <2>1, <2>2
  <1>10. CASE CutOff(k)
    <2>1. Turns(k, Idle) /\ slips \subseteq slips' BY <1>10, CutOffTurns
    <2>2. UNCHANGED <<rows, issued, applied, credited, paid>> BY <1>10 DEF CutOff, bei, sekuritas
    <2> QED BY <1>00, <2>1, <2>2, MirrorTurn
  <1> QED BY <1>1, <1>2, <1>3, <1>4, <1>5, <1>6, <1>7, <1>8, <1>9, <1>10 DEF Quiet
-----------------------------------------------------------------------------
\* Rows inserted by the first call for an action: nothing of it was sent before.
LEMMA MirrorInsert ==
    ASSUME Types, Mirror, NEW k \in Calls, InsertRows(k)
    PROVE  Mirror'
  <1> SUFFICES ASSUME Clean' PROVE Mirror' BY DEF Mirror
  <1>1. PICK a \in Actions : a = call[k].event /\ a # "ipo" /\ a \in Events
    BY InsertRowsTurns, ActionNotIpo
  <1>2. /\ UNCHANGED <<issued, applied, credited, paid>>
        /\ slips' = IF \E c \in Custody : rows[a][c] # 0 THEN slips \cup {"recomputed"} ELSE slips
    BY <1>1 DEF InsertRows, sekuritas, Slip
  <1>3. Clean /\ ~NonZero(rows[a])
    <2>1. Clean BY <1>2, CleanKept
    <2> QED BY <1>2, <2>1 DEF Clean, NonZero
  <1>4. /\ \A j \in Calls : ActionSent(call[j]) /\ IpoSent(call[j])
        /\ \A j, i \in Calls : IsIpo(j) /\ IsIpo(i) => j = i
        /\ \A e \in applied \cap Actions : NonZero(rows[e])
        /\ MirrorsLedger
    BY <1>3 DEF Mirror
  <1>5. PICK r : r = Rec("complete", a, call[k].rows, call[k].left,
                         call[k].account, call[k].entry, call[k].read, call[k].writes)
    OBVIOUS
  <1>6. Turns(k, r) BY <1>1, <1>5, InsertRowsTurns
  <1>7. call'[k] = r /\ \A j \in Calls \ {k} : call'[j] = call[j] BY <1>6 DEF Turns
  <1>8. rows'[a] = call[k].rows /\ \A e \in Actions \ {a} : rows'[e] = rows[e]
    <2>1. rows \in [Actions -> [Custody -> Int]] /\ call[k].rows \in [Custody -> Int]
      BY CallFields DEF Types
    <2>2. \A c \in Custody : rows[a][c] = 0 BY <1>3 DEF NonZero
    <2>3. rows' = [rows EXCEPT ![a] = [c \in Custody |->
                     IF rows[a][c] = 0 THEN call[k].rows[c] ELSE rows[a][c]]]
      BY <1>1, <2>1 DEF InsertRows
    <2>4. [c \in Custody |-> IF rows[a][c] = 0 THEN call[k].rows[c] ELSE rows[a][c]] = call[k].rows
      BY <2>1, <2>2
    <2> QED BY <2>1, <2>3, <2>4
  <1>9. r.at = "complete" /\ r.event = a /\ r.rows = call[k].rows BY <1>5 DEF Rec
  <1>10. ASSUME NEW j \in Calls PROVE ActionSent(call[j])' /\ IpoSent(call[j])'
    <2>1. CASE j = k BY <1>1, <1>7, <1>8, <1>9, <2>1 DEF ActionSent, IpoSent, IpoCall
    <2>2. CASE j # k
      <3>1. call'[j] = call[j] /\ ActionSent(call[j]) /\ IpoSent(call[j]) BY <1>4, <1>7, <2>2
      <3>2. IpoSent(call[j])' BY <1>2, <3>1 DEF IpoSent
      <3>3. CASE call[j].event = a
        <4>1. ~NonZero(call[j].rows) \/ call[j].at \notin {"complete", "send"}
          BY <1>3, <3>1, <3>3 DEF ActionSent
        <4>2. call[j].at \notin {"book", "write"} BY <1>3, <3>1, <3>3 DEF ActionSent
        <4>3. ActionSent(call[j])' BY <3>1, <4>1, <4>2 DEF ActionSent
        <4> QED BY <3>2, <4>3
      <3>4. CASE call[j].event # a
        <4>1. ActionSent(call[j])' BY <1>8, <3>1, <3>4 DEF ActionSent
        <4> QED BY <3>2, <4>1
      <3> QED BY <3>3, <3>4
    <2> QED BY <2>1, <2>2
  <1>11. ASSUME NEW j \in Calls, NEW i \in Calls, IpoCall(call'[j]), IpoCall(call'[i])
         PROVE  j = i
    <2>1. j # k /\ i # k BY <1>1, <1>7, <1>9, <1>11 DEF IpoCall
    <2>2. IsIpo(j) /\ IsIpo(i) BY <1>7, <1>11, <2>1 DEF IsIpo
    <2> QED BY <1>4, <2>2
  <1>12. a \notin applied BY <1>3, <1>4
  <1>13. \A e \in applied' \cap Actions : NonZero(rows'[e]) BY <1>2, <1>4, <1>8, <1>12
  <1>14. MirrorsLedger'
    <2> SUFFICES ASSUME NEW e \in applied, NEW c \in Accounts
                 PROVE  IF e = "ipo"
                        THEN credited'[e][c] = issued'[c].shares /\ paid'[c] = issued'[c].cash
                        ELSE credited'[e][c] = Credit(e, rows'[e][c])
      BY <1>2 DEF MirrorsLedger
    <2>1. IF e = "ipo" THEN credited[e][c] = issued[c].shares /\ paid[c] = issued[c].cash
          ELSE credited[e][c] = Credit(e, rows[e][c])
      BY <1>3, <1>4 DEF MirrorsLedger, Clean
    <2>2. e = "ipo" \/ rows'[e] = rows[e] BY <1>8, <1>12 DEF Types, Events
    <2> QED BY <1>2, <2>1, <2>2
  <1> QED BY <1>10, <1>11, <1>13, <1>14 DEF Mirror, IsIpo

LEMMA WholeOfShares == ASSUME NEW n \in Nat PROVE Whole(Unit * n) = n
  BY DEF Whole, Unit

\* What the transaction moves is what BEI has booked.
LEMMA MirrorCommit ==
    ASSUME Types, RowsFresh, OneBooks, Mirror, NEW k \in Calls, CommitEvent(k)
    PROVE  Mirror'
  <1> SUFFICES ASSUME Clean' PROVE Mirror' BY DEF Mirror
  <1>1. PICK r \in CallRecord : r = call[k] BY CallFields
  <1>2. PICK e \in Events : e = r.event BY <1>1, CallFields
  <1>3. /\ r.at = "book" /\ Turns(k, Idle) /\ applied' = applied \cup {e}
        /\ \A x \in Events \ {e}, c \in Accounts : credited'[x][c] = credited[x][c]
        /\ \A c \in Accounts : credited'[e][c] = credited[e][c] + Credit(e, r.rows[c])
        /\ paid \in [Accounts -> Int]
        /\ \A c \in Accounts : paid'[c] = paid[c] - (IF e = "ipo" THEN Whole(r.rows[c]) ELSE 0)
    BY <1>1, <1>2, CommitEventTurns DEF Types
  <1>4. UNCHANGED <<rows, issued, slips>> BY DEF CommitEvent, bei
  <1>5. Clean BY <1>4 DEF Clean
  <1>6. /\ \A j \in Calls : ActionSent(call[j]) /\ IpoSent(call[j])
        /\ \A j, i \in Calls : IsIpo(j) /\ IsIpo(i) => j = i
        /\ \A x \in applied \cap Actions : NonZero(rows[x])
        /\ MirrorsLedger
    BY <1>5 DEF Mirror
  <1>7. call'[k] = Idle /\ \A j \in Calls \ {k} : call'[j] = call[j] BY <1>3 DEF Turns
  <1>8. e \notin applied /\ \A c \in Accounts : credited[e][c] = 0
    <2>1. e \notin applied BY <1>1, <1>2, <1>3 DEF OneBooks, InBook
    <2> QED BY <2>1 DEF OneBooks
  <1>9. e \in Actions => r.rows = rows[e] /\ NonZero(rows[e])
    BY <1>1, <1>2, <1>3, <1>6 DEF ActionSent
  <1>10. e = "ipo" => /\ IpoCall(r)
                      /\ \A c \in Accounts : /\ r.rows[c] = Unit * issued[c].shares
                                             /\ issued[c].cash = -issued[c].shares
    BY <1>1, <1>2, <1>3, <1>6 DEF IpoSent, IpoCall
  <1>11. e \in Actions \/ e = "ipo" BY DEF Events
  <1>12. ASSUME NEW j \in Calls PROVE ActionSent(call[j])' /\ IpoSent(call[j])'
    <2>1. CASE j = k
      <3>1. call'[j] = Idle BY <1>7, <2>1
      <3> QED BY <3>1 DEF ActionSent, IpoSent, IpoCall, Idle
    <2>2. CASE j # k
      <3>1. call'[j] = call[j] /\ ActionSent(call[j]) /\ IpoSent(call[j]) BY <1>6, <1>7, <2>2
      <3>2. ActionSent(call[j])' BY <1>4, <3>1 DEF ActionSent
      <3>3. e # "ipo" \/ ~IpoCall(call[j]) BY <1>1, <1>6, <1>10, <2>2 DEF IsIpo
      <3>4. IpoSent(call[j])' BY <1>3, <1>4, <3>1, <3>3 DEF IpoSent
      <3> QED BY <3>2, <3>4
    <2> QED BY <2>1, <2>2
  <1>13. ASSUME NEW j \in Calls, NEW i \in Calls, IpoCall(call'[j]), IpoCall(call'[i])
         PROVE  j = i
    <2>1. j # k /\ i # k BY <1>7, <1>13, IdleSent
    <2>2. IsIpo(j) /\ IsIpo(i) BY <1>7, <1>13, <2>1 DEF IsIpo
    <2> QED BY <1>6, <2>2
  <1>14. \A x \in applied' \cap Actions : NonZero(rows'[x]) BY <1>3, <1>4, <1>6, <1>9
  <1>15. MirrorsLedger'
    <2> SUFFICES ASSUME NEW x \in applied', NEW c \in Accounts
                 PROVE  IF x = "ipo"
                        THEN credited'[x][c] = issued'[c].shares /\ paid'[c] = issued'[c].cash
                        ELSE credited'[x][c] = Credit(x, rows'[x][c])
      BY DEF MirrorsLedger
    <2>1. CASE x # e
      <3>1. x \in applied /\ x \in Events BY <1>3, <2>1 DEF Types
      <3>2. IF x = "ipo" THEN credited[x][c] = issued[c].shares /\ paid[c] = issued[c].cash
            ELSE credited[x][c] = Credit(x, rows[x][c])
        BY <1>5, <1>6, <3>1 DEF MirrorsLedger, Clean
      <3>3. credited'[x][c] = credited[x][c] BY <1>3, <2>1, <3>1
      <3>4. x = "ipo" => paid'[c] = paid[c]
        <4>1. x = "ipo" => paid'[c] = paid[c] - 0 /\ paid[c] \in Int BY <1>3, <2>1
        <4> QED BY <4>1
      <3> QED BY <1>4, <3>2, <3>3, <3>4
    <2>2. CASE x = e
      <3>0. r.rows[c] \in Int
        <4>1. r.rows \in [Custody -> Int] BY <1>1, CallFields
        <4> QED BY <4>1, SubscriptionsType
      <3>1. PICK n \in Int : n = Credit(e, r.rows[c]) BY <3>0, CreditType
      <3>2. credited'[e][c] = n
        <4>1. credited'[e][c] = 0 + n BY <1>3, <1>8, <3>1
        <4> QED BY <4>1
      <3>3. CASE e \in Actions
        <4>1. e # "ipo" BY <3>3, ActionNotIpo
        <4> QED BY <1>4, <1>9, <2>2, <3>1, <3>2, <3>3, <4>1
      <3>4. CASE e = "ipo"
        <4>1. issued[c].shares \in Nat BY FreshMost
        <4>2. n = Whole(r.rows[c]) BY <3>1, <3>4 DEF Credit
        <4>3. n = issued[c].shares BY <1>10, <3>4, <4>1, <4>2, WholeOfShares
        <4>4. paid[c] = 0 BY <1>8, <3>4 DEF OneBooks
        <4>5. paid'[c] = 0 - n BY <1>3, <3>4, <4>2, <4>4
        <4>6. paid'[c] = issued[c].cash BY <1>10, <3>1, <3>4, <4>3, <4>5
        <4> QED BY <1>4, <2>2, <3>2, <3>4, <4>3, <4>6
      <3> QED BY <1>11, <3>3, <3>4
    <2> QED BY <2>1, <2>2
  <1> QED BY <1>12, <1>13, <1>14, <1>15 DEF Mirror, IsIpo

-----------------------------------------------------------------------------
\* A step of the one allocation: the ledger's shares change with its record.
LEMMA MirrorIssue ==
    ASSUME Types, Mirror, NEW k \in Calls, NEW r, Turns(k, r), slips \subseteq slips',
           UNCHANGED <<rows, applied, credited, paid>>, IpoCall(r), r.event = "ipo",
           Clean' /\ Clean => /\ IpoSent(r)'
                              /\ "ipo" \notin applied
                              /\ \A j \in Calls \ {k} : ~IsIpo(j)
    PROVE  Mirror'
  <1> SUFFICES ASSUME Clean' PROVE Mirror' BY DEF Mirror
  <1>1. Clean BY CleanKept
  <1>2. call'[k] = r /\ \A j \in Calls \ {k} : call'[j] = call[j] BY DEF Turns
  <1>3. IpoSent(r)' /\ "ipo" \notin applied /\ \A j \in Calls \ {k} : ~IsIpo(j) BY <1>1
  <1>4. /\ \A j \in Calls : ActionSent(call[j]) /\ IpoSent(call[j])
        /\ \A e \in applied \cap Actions : NonZero(rows[e])
        /\ MirrorsLedger
    BY <1>1 DEF Mirror
  <1>5. ASSUME NEW j \in Calls PROVE ActionSent(call[j])' /\ IpoSent(call[j])'
    <2>1. CASE j = k
      <3>1. r.event \notin Actions BY ActionNotIpo
      <3>2. ActionSent(call[j])' BY <1>2, <2>1, <3>1 DEF ActionSent
      <3>3. IpoSent(call[j])' BY <1>2, <1>3, <2>1 DEF IpoSent
      <3> QED BY <3>2, <3>3
    <2>2. CASE j # k
      <3>1. call'[j] = call[j] /\ ActionSent(call[j]) /\ ~IpoCall(call[j])
        BY <1>2, <1>3, <1>4, <2>2 DEF IsIpo
      <3>2. ActionSent(call[j])' BY <3>1 DEF ActionSent
      <3>3. IpoSent(call[j])' BY <3>1 DEF IpoSent
      <3> QED BY <3>2, <3>3
    <2> QED BY <2>1, <2>2
  <1>6. ASSUME NEW j \in Calls, NEW i \in Calls, IpoCall(call'[j]), IpoCall(call'[i])
        PROVE  j = i
    <2>1. j = k /\ i = k BY <1>2, <1>3, <1>6 DEF IsIpo
    <2> QED BY <2>1
  <1>7. MirrorsLedger' BY <1>1, <1>3, <1>4 DEF MirrorsLedger, Clean
  <1> QED BY <1>4, <1>5, <1>6, <1>7 DEF Mirror, IsIpo

LEMMA MinusZero == -0 = 0
  <1>1. \A n \in Int : -n = 0 - n OBVIOUS
  <1>2. 0 \in Int /\ 0 - 0 = 0 OBVIOUS
  <1> QED BY <1>1, <1>2, Zenon

LEMMA MirrorAllocate ==
    ASSUME Types, Unminted, Mirror, NEW k \in Calls, Allocate(k)
    PROVE  Mirror'
  <1>1. PICK r : r = Rec("allocate", "ipo", Idle.rows, subscribed, Treasury, 0, 0, Idle.writes)
    OBVIOUS
  <1>2. Turns(k, r) BY <1>1, AllocateTurns
  <1>3. /\ UNCHANGED <<rows, applied, credited, paid>>
        /\ slips' = IF minted THEN slips \cup {"again"} ELSE slips
        /\ ~minted => issued' = [issued EXCEPT ![Treasury].shares = @ + Offered]
    BY DEF Allocate, sekuritas, Slip
  <1>4. /\ r.at = "allocate" /\ r.event = "ipo" /\ r.rows = [c \in Custody |-> 0]
        /\ r.left = subscribed /\ subscribed \subseteq Accounts
    BY <1>1 DEF Rec, Idle, Types
  <1>5. Clean' => ~minted BY <1>3 DEF Clean
  <1>6. ~minted => /\ \A j \in Calls : ~IsIpo(j)
                   /\ "ipo" \notin applied
                   /\ \A c \in Accounts : issued'[c].shares = 0 /\ issued'[c].cash = 0
    <2> SUFFICES ASSUME ~minted
                 PROVE  /\ \A j \in Calls : ~IsIpo(j)
                        /\ "ipo" \notin applied
                        /\ \A c \in Accounts : issued'[c].shares = 0 /\ issued'[c].cash = 0
      OBVIOUS
    <2>1. /\ \A j \in Calls : ~IsIpo(j)
          /\ "ipo" \notin applied
          /\ \A c \in Custody : issued[c].shares = 0 /\ issued[c].cash = 0
      BY DEF Unminted
    <2>2. issued \in [Custody -> [shares : Int, cash : Int]] BY DEF Types
    <2>3. \A c \in Accounts : /\ issued'[c].shares = issued[c].shares
                              /\ issued'[c].cash = issued[c].cash
      BY <1>3, <2>2, SubscriptionsType
    <2> QED BY <2>1, <2>3, SubscriptionsType
  <1>7. ~minted => IpoSent(r)'
    <2>1. \A c \in Accounts : r.rows[c] = 0 BY <1>4, SubscriptionsType
    <2>2. Unit * 0 = 0 BY DEF Unit
    <2> QED BY <1>3, <1>4, <1>6, <2>1, <2>2, MinusZero DEF IpoSent
  <1>8. IpoCall(r) BY <1>4 DEF IpoCall
  <1> QED BY <1>2, <1>3, <1>4, <1>5, <1>6, <1>7, <1>8, MirrorIssue

LEMMA MirrorAllocation ==
    ASSUME Types, Mirror, NEW k \in Calls, NEW c \in Accounts, InsertAllocation(k, c)
    PROVE  Mirror'
  <1>1. PICK r : r = Rec("entries", call[k].event, call[k].rows, call[k].left \ {c}, c, 1,
                         call[k].read, call[k].writes)
    OBVIOUS
  <1>2. call[k].at = "allocate" /\ c \in call[k].left /\ Turns(k, r)
    BY <1>1, InsertAllocationTurns
  <1>3. call[k].event = "ipo" BY <1>2, CallFields DEF StageOK, Fits
  <1>4. UNCHANGED <<rows, issued, applied, credited, paid, slips>> BY DEF InsertAllocation, sekuritas
  <1>5. /\ r.at = "entries" /\ r.event = "ipo" /\ r.rows = call[k].rows /\ r.account = c
        /\ r.entry = 1 /\ r.left = call[k].left \ {c}
    BY <1>1, <1>3 DEF Rec
  <1>6. IpoCall(r) /\ IsIpo(k) BY <1>2, <1>3, <1>5 DEF IpoCall, IsIpo
  <1>7. Clean => IpoSent(r)
    <2> SUFFICES ASSUME Clean PROVE IpoSent(r) OBVIOUS
    <2>1. IpoSent(call[k]) BY DEF Mirror
    <2>2. /\ "ipo" \notin applied
          /\ \A x \in Accounts : /\ call[k].rows[x] = Unit * issued[x].shares
                                /\ issued[x].cash = -issued[x].shares
          /\ \A x \in call[k].left : issued[x].shares = 0
      BY <1>2, <1>6, <2>1 DEF IpoSent, IsIpo
    <2>3. call[k].rows[c] = 0 /\ issued[c].shares = 0 /\ issued[c].cash = 0
      <3>1. issued[c].shares = 0 BY <1>2, <2>2
      <3>2. Unit * 0 = 0 BY DEF Unit
      <3> QED BY <2>2, <3>1, <3>2, MinusZero
    <2> QED BY <1>5, <2>2, <2>3 DEF IpoSent
  <1>8. Clean => IpoSent(r)' BY <1>4, <1>7 DEF IpoSent
  <1>9. Clean => /\ "ipo" \notin applied
                 /\ \A j \in Calls \ {k} : ~IsIpo(j)
    BY <1>6 DEF Mirror, IpoSent, IsIpo
  <1> QED BY <1>2, <1>4, <1>5, <1>6, <1>8, <1>9, MirrorIssue

LEMMA MirrorEntry ==
    ASSUME Types, Mirror, NEW k \in Calls, BookEntry(k)
    PROVE  Mirror'
  <1>1. PICK a \in Accounts, s \in CallRecord : a = call[k].account /\ s = call[k]
    BY BookEntryTurns, CallFields
  <1>2. /\ s.at = "entries" /\ s.entry \in 1..4 /\ s.event = "ipo" /\ a \notin s.left
        /\ s.account = a /\ s.rows \in [Custody -> Int] /\ s.left \subseteq Accounts
        /\ \A x \in Custody : /\ issued'[x].shares = issued[x].shares + Adds(k, x, 1, 2)
                              /\ issued'[x].cash = issued[x].cash - Adds(k, x, 3, 4)
    BY <1>1, BookEntryTurns, CallFields
  <1>3. UNCHANGED <<rows, applied, credited, paid, slips>> BY DEF BookEntry, sekuritas
  <1>4. IsIpo(k) BY <1>1, <1>2 DEF IsIpo, IpoCall
  <1>5. Clean => /\ "ipo" \notin applied
                 /\ \A j \in Calls \ {k} : ~IsIpo(j)
                 /\ IpoSent(s)
    BY <1>1, <1>4 DEF Mirror, IpoSent, IsIpo
  <1>6. PICK n \in Nat : n = Subscriptions[a] BY SubscriptionsType
  <1>7. \A x \in Accounts : /\ issued[x].shares \in Int
                            /\ issued'[x].shares = IF x = a /\ s.entry = 1 THEN issued[x].shares + n
                                                   ELSE issued[x].shares
    <2> TAKE x \in Accounts
    <2>1. x \in Custody /\ x # Treasury BY SubscriptionsType
    <2>2. issued[x].shares \in Int BY <2>1 DEF Types
    <2>3. Adds(k, x, 1, 2) = IF x = a /\ s.entry = 1 THEN n ELSE 0
      BY <1>1, <1>2, <1>6, <2>1 DEF Adds
    <2>4. CASE x = a /\ s.entry = 1 BY <1>2, <2>1, <2>2, <2>3, <2>4
    <2>5. CASE ~(x = a /\ s.entry = 1)
      <3>1. issued'[x].shares = issued[x].shares + 0 BY <1>2, <2>1, <2>3, <2>5
      <3> QED BY <2>2, <2>5, <3>1
    <2> QED BY <2>4, <2>5
  <1>13. \A x \in Accounts : /\ issued[x].cash \in Int
                             /\ issued'[x].cash = IF x = a /\ s.entry = 3 THEN issued[x].cash - n
                                                  ELSE issued[x].cash
    <2> TAKE x \in Accounts
    <2>1. x \in Custody /\ x # Treasury BY SubscriptionsType
    <2>2. issued[x].cash \in Int BY <2>1 DEF Types
    <2>3. Adds(k, x, 3, 4) = IF x = a /\ s.entry = 3 THEN n ELSE 0
      BY <1>1, <1>2, <1>6, <2>1 DEF Adds
    <2>4. CASE x = a /\ s.entry = 3 BY <1>2, <2>1, <2>2, <2>3, <2>4
    <2>5. CASE ~(x = a /\ s.entry = 3)
      <3>1. issued'[x].cash = issued[x].cash - 0 BY <1>2, <2>1, <2>3, <2>5
      <3> QED BY <2>2, <2>5, <3>1
    <2> QED BY <2>4, <2>5
  <1>8. Clean => /\ s.rows[a] = 0
                 /\ issued[a].shares = IF s.entry = 1 THEN 0 ELSE n
                 /\ issued[a].cash = IF s.entry = 4 THEN -n ELSE 0
                 /\ \A x \in Accounts \ {a} : /\ s.rows[x] = Unit * issued[x].shares
                                               /\ issued[x].cash = -issued[x].shares
                 /\ \A x \in s.left : issued[x].shares = 0
    BY <1>2, <1>4, <1>5, <1>6 DEF IpoSent, IpoCall
  <1>9. Clean => issued'[a].shares = n
    <2>1. CASE s.entry = 1 BY <1>6, <1>7, <1>8, <2>1
    <2>2. CASE s.entry # 1 BY <1>6, <1>7, <1>8, <2>2
    <2> QED BY <2>1, <2>2
  <1>14. Clean => issued'[a].cash = IF s.entry \in {3, 4} THEN -n ELSE 0
    <2>1. CASE s.entry = 3
      <3>1. Clean => issued'[a].cash = 0 - n BY <1>8, <1>13, <2>1
      <3> QED BY <1>6, <2>1, <3>1
    <2>2. CASE s.entry # 3
      <3>1. issued'[a].cash = issued[a].cash BY <1>13, <2>2
      <3> QED BY <1>2, <1>8, <2>2, <3>1
    <2> QED BY <2>1, <2>2
  <1>10. \A x \in Accounts \ {a} : /\ issued'[x].shares = issued[x].shares
                                   /\ issued'[x].cash = issued[x].cash
    BY <1>7, <1>13
  <1>11. CASE s.entry # 4
    <2>1. PICK r : r = Rec("entries", call[k].event, call[k].rows, call[k].left, call[k].account,
                           call[k].entry + 1, call[k].read, call[k].writes)
      OBVIOUS
    <2>2. Turns(k, r) BY <1>1, <1>11, <2>1, BookEntryTurns
    <2>3. /\ r.at = "entries" /\ r.event = "ipo" /\ r.rows = s.rows /\ r.left = s.left
          /\ r.account = a /\ r.entry = s.entry + 1 /\ r.entry # 1
      BY <1>1, <1>2, <2>1 DEF Rec
    <2>6. r.entry = 4 <=> s.entry \in {3, 4} BY <1>2, <1>11, <2>3
    <2>7. Clean => issued'[a].cash = IF r.entry = 4 THEN -n ELSE 0 BY <1>14, <2>6
    <2>4. Clean => IpoSent(r)'
      BY <1>2, <1>3, <1>5, <1>6, <1>8, <1>9, <1>10, <2>3, <2>7 DEF IpoSent
    <2>5. IpoCall(r) BY <2>3 DEF IpoCall
    <2> QED BY <1>3, <1>5, <2>2, <2>3, <2>4, <2>5, MirrorIssue
  <1>12. CASE s.entry = 4
    <2>1. PICK r : r = Rec("allocate", call[k].event,
                           [call[k].rows EXCEPT ![call[k].account]
                              = Unit * Subscriptions[call[k].account]],
                           call[k].left, Treasury, 0, call[k].read, call[k].writes)
      OBVIOUS
    <2>2. Turns(k, r) BY <1>1, <1>12, <2>1, BookEntryTurns
    <2>3. /\ r.at = "allocate" /\ r.event = "ipo" /\ r.left = s.left
          /\ r.rows = [s.rows EXCEPT ![a] = Unit * n]
      BY <1>1, <1>2, <1>6, <2>1 DEF Rec
    <2>6. r.rows[a] = Unit * n /\ \A x \in Accounts \ {a} : r.rows[x] = s.rows[x]
      BY <1>2, <2>3, SubscriptionsType
    <2>7. Clean => issued'[a].cash = -n BY <1>12, <1>14
    <2>4. Clean => IpoSent(r)'
      BY <1>2, <1>3, <1>5, <1>8, <1>9, <1>10, <2>3, <2>6, <2>7 DEF IpoSent
    <2>5. IpoCall(r) BY <2>3 DEF IpoCall
    <2> QED BY <1>3, <1>5, <2>2, <2>3, <2>4, <2>5, MirrorIssue
  <1> QED BY <1>11, <1>12

LEMMA MirrorNext ==
    ASSUME Types, RowsFresh, OneBooks, Unminted, Mirror, [Next]_vars
    PROVE  Mirror'
  <1>1. CASE UNCHANGED <<rows, issued, applied, credited, paid, call, slips>>
    BY <1>1 DEF Mirror, MirrorsLedger, Clean, ActionSent, IpoSent, IsIpo
  <1>2. ASSUME NEW c \in Accounts, Customer(c) PROVE Mirror'
    BY <1>1, <1>2, CustomerKeeps
  <1>3. ASSUME NEW k \in Calls, Quiet(k) PROVE Mirror'
    BY <1>3, MirrorQuiet, MirrorInsert, MirrorCommit
  <1>4. CASE UNCHANGED vars BY <1>1, <1>4 DEF vars, bei, sekuritas
  <1> QED BY <1>2, <1>3, <1>4, NextSteps, MirrorAllocate, MirrorEntry, MirrorAllocation

LEMMA MirrorInit == Init => Mirror
  BY DEF Init, Mirror, MirrorsLedger, ActionSent, IpoSent, IpoCall, IsIpo, Idle
-----------------------------------------------------------------------------
LEMMA WritesType ==
    ASSUME NEW r \in CallRecord, NEW m, Fits(r, m), NEW c \in Accounts
    PROVE  r.writes[c] \in Int /\ (r.at \notin {"book", "write"} => r.writes[c] < 0)
  <1>1. r.writes \in [Accounts -> Int] BY DEF CallRecord
  <1> QED BY <1>1 DEF Fits

\* Nothing is written outside a transaction.
LEMMA NoWrites ==
    ASSUME NEW r \in CallRecord, NEW m, Fits(r, m), r.at \notin {"book", "write"}, NEW c \in Accounts
    PROVE  ~(r.writes[c] >= 0) /\ WriteOK(r, c) /\ WriteOK(r, c)'
  <1>1. r.writes[c] \in Int /\ r.writes[c] < 0 BY WritesType
  <1>2. ~(r.writes[c] >= 0) BY <1>1
  <1> QED BY <1>2 DEF WriteOK

\* The record of one call changes, and it holds no row another one holds.
LEMMA ExplainedTurn ==
    ASSUME Explained, NEW k \in Calls, NEW r, Turns(k, r), UNCHANGED <<shares, credited>>,
           overwritten \subseteq overwritten',
           \A c \in Accounts : /\ WriteOK(r, c)'
                               /\ r.writes[c] >= 0 => call[k].writes[c] >= 0 \/ ~Locked(c)
    PROVE  Explained'
  <1>1. call'[k] = r /\ \A j \in Calls \ {k} : call'[j] = call[j] BY DEF Turns
  <1>2. OneWrites /\ (\A j \in Calls, c \in Accounts : WriteOK(call[j], c)) /\ SharesExplained
    BY DEF Explained
  <1>3. ASSUME NEW c \in Accounts, NEW j \in Calls, NEW i \in Calls,
               call'[j].writes[c] >= 0, call'[i].writes[c] >= 0
        PROVE  j = i
    <2>1. CASE j # k /\ i # k BY <1>1, <1>2, <1>3, <2>1 DEF OneWrites
    <2>2. CASE j = k /\ i # k
      <3>1. call[i].writes[c] >= 0 /\ Locked(c) BY <1>1, <1>3, <2>2 DEF Locked
      <3>2. call[k].writes[c] >= 0 BY <1>1, <1>3, <2>2, <3>1
      <3> QED BY <1>2, <2>2, <3>1, <3>2 DEF OneWrites
    <2>3. CASE i = k /\ j # k
      <3>1. call[j].writes[c] >= 0 /\ Locked(c) BY <1>1, <1>3, <2>3 DEF Locked
      <3>2. call[k].writes[c] >= 0 BY <1>1, <1>3, <2>3, <3>1
      <3> QED BY <1>2, <2>3, <3>1, <3>2 DEF OneWrites
    <2> QED BY <2>1, <2>2, <2>3
  <1>4. ASSUME NEW j \in Calls, NEW c \in Accounts PROVE WriteOK(call[j], c)'
    <2>1. CASE j = k
      <3>1. WriteOK(r, c)' OBVIOUS
      <3> QED BY <1>1, <2>1, <3>1 DEF WriteOK
    <2>2. CASE j # k
      <3>1. call'[j] = call[j] /\ WriteOK(call[j], c) BY <1>1, <1>2, <2>2
      <3> QED BY <3>1 DEF WriteOK
    <2> QED BY <2>1, <2>2
  <1>5. SharesExplained' BY <1>2 DEF SharesExplained, Total
  <1> QED BY <1>3, <1>4, <1>5 DEF Explained, OneWrites

LEMMA EventsFinite == IsFiniteSet(Events \ {"dividend"})
  <1>1. IsFiniteSet(Events) BY ActionsFinite, FS_AddElement DEF Events
  <1> QED BY <1>1, FS_Subset

\* The movements of c that are not cash.
Movements(c) == SumFunctionOnSet([e \in Events |-> credited[e][c]], Events \ {"dividend"})

LEMMA MovementsNext ==
    ASSUME Types, Types', NEW c \in Accounts, NEW e \in Events, NEW d \in Int,
           \A x \in Events \ {e} : credited'[x][c] = credited[x][c],
           credited'[e][c] = credited[e][c] + d
    PROVE  /\ Movements(c) \in Int
           /\ Movements(c)' = Movements(c) + (IF e = "dividend" THEN 0 ELSE d)
  <1>1. PICK f : f = [x \in Events |-> credited[x][c]] OBVIOUS
  <1>2. PICK g : g = [x \in Events |-> credited'[x][c]] OBVIOUS
  <1>3. PICK S : S = Events \ {"dividend"} OBVIOUS
  <1>4. IsFiniteSet(S) BY <1>3, EventsFinite
  <1>5. \A x \in Events : f[x] \in Int /\ g[x] \in Int
    <2>1. credited \in [Events -> [Accounts -> Int]] /\ credited' \in [Events -> [Accounts -> Int]]
      BY DEF Types
    <2> QED BY <1>1, <1>2, <2>1
  <1>6. (\A x \in Events \ {e} : g[x] = f[x]) /\ g[e] = f[e] + d BY <1>1, <1>2
  <1>7. SumFunctionOnSet(f, S) \in Int BY <1>3, <1>4, <1>5, SumType
  <1>8. Movements(c) = SumFunctionOnSet(f, S) /\ Movements(c)' = SumFunctionOnSet(g, S)
    BY <1>1, <1>2, <1>3 DEF Movements
  <1>9. CASE e = "dividend"
    <2>1. \A x \in S : f[x] = g[x] BY <1>3, <1>6, <1>9
    <2>2. SumFunctionOnSet(f, S) = SumFunctionOnSet(g, S) BY <1>4, <2>1, SumAgree
    <2>3. Movements(c)' = Movements(c) + 0 BY <1>7, <1>8, <2>2
    <2> QED BY <1>7, <1>8, <1>9, <2>3
  <1>10. CASE e # "dividend"
    <2>1. e \in S BY <1>3, <1>10
    <2>2. \A y \in S : f[y] \in Int /\ g[y] \in Int BY <1>3, <1>5
    <2>3. \A y \in S \ {e} : f[y] = g[y] BY <1>3, <1>6
    <2>4. SumFunctionOnSet(g, S) = (SumFunctionOnSet(f, S) - f[e]) + g[e]
      BY <1>4, <2>1, <2>2, <2>3, SumChange
    <2>5. f[e] \in Int BY <1>5
    <2>6. SumFunctionOnSet(g, S) = SumFunctionOnSet(f, S) + d BY <1>6, <1>7, <2>4, <2>5
    <2> QED BY <1>7, <1>8, <1>10, <2>6
  <1> QED BY <1>9, <1>10

\* The commit moves each customer's shares by what the event credits.
LEMMA CommitMoves ==
    ASSUME Types, Explained, NEW k \in Calls, CommitEvent(k), NEW c \in Accounts,
           c \notin overwritten
    PROVE  /\ Credit(call[k].event, call[k].rows[c]) \in Int
           /\ Total(c)' = Total(c) + (IF call[k].event = "dividend" THEN 0
                                      ELSE Credit(call[k].event, call[k].rows[c]))
  <1>1. PICK r \in CallRecord : r = call[k] /\ StageOK(k) BY CallFields
  <1>2. /\ r.at = "book" /\ (r.event = "dividend" \/ r.left = {})
        /\ shares'[c].reserved = shares[c].reserved /\ shares'[c].pending = shares[c].pending
        /\ shares'[c].available = IF r.writes[c] < 0 THEN shares[c].available ELSE r.writes[c]
    BY <1>1, CommitEventTurns
  <1>3. WriteOK(r, c) BY <1>1 DEF Explained
  <1>4. shares[c].available \in Nat /\ shares[c].reserved \in Nat /\ shares[c].pending \in Nat
    BY TotalType
  <1>5. r.writes[c] \in Int
    <2>1. Fits(r, minted) BY <1>1 DEF StageOK
    <2> QED BY <2>1, WritesType
  <1>6. r.rows[c] \in Int
    <2>1. r.rows \in [Custody -> Int] BY DEF CallRecord
    <2> QED BY <2>1, SubscriptionsType
  <1>7. PICK n \in Int : n = Credit(r.event, r.rows[c]) BY <1>6, CreditType
  <1>8. CASE r.event = "dividend"
    <2>1. ~(r.writes[c] >= 0) BY <1>3, <1>8 DEF WriteOK
    <2>2. shares'[c].available = shares[c].available BY <1>2, <1>5, <2>1
    <2>3. Total(c)' = Total(c) + 0 BY <1>2, <1>4, <2>2 DEF Total
    <2> QED BY <1>1, <1>7, <1>8, <2>3
  <1>9. CASE r.event # "dividend"
    <2>1. r.left = {} /\ n = Whole(r.rows[c]) BY <1>2, <1>7, <1>9 DEF Credit
    <2>2. CASE r.writes[c] >= 0
      <3>1. r.writes[c] = shares[c].available + n BY <1>3, <2>1, <2>2 DEF WriteOK
      <3>2. shares'[c].available = shares[c].available + n BY <1>2, <1>5, <2>2, <3>1
      <3>3. Total(c)' = Total(c) + n BY <1>2, <1>4, <1>7, <3>2 DEF Total
      <3> QED BY <1>1, <1>7, <1>9, <3>3
    <2>3. CASE ~(r.writes[c] >= 0)
      <3>1. n = 0 BY <1>2, <1>3, <1>9, <2>1, <2>3 DEF WriteOK
      <3>2. shares'[c].available = shares[c].available BY <1>2, <1>5, <2>3
      <3>3. Total(c)' = Total(c) + n BY <1>2, <1>4, <3>1, <3>2 DEF Total
      <3> QED BY <1>1, <1>7, <1>9, <3>3
    <2> QED BY <2>2, <2>3
  <1> QED BY <1>8, <1>9

LEMMA ExplainedCommit ==
    ASSUME Types, Types', Explained, NEW k \in Calls, CommitEvent(k)
    PROVE  Explained'
  <1>1. PICK e \in Events : e = call[k].event BY CallFields
  <1>2. /\ Turns(k, Idle)
        /\ \A c \in Accounts : shares'[c].available
             = IF call[k].writes[c] < 0 THEN shares[c].available ELSE call[k].writes[c]
        /\ \A x \in Events \ {e}, c \in Accounts : credited'[x][c] = credited[x][c]
        /\ \A c \in Accounts : credited'[e][c] = credited[e][c] + Credit(e, call[k].rows[c])
    BY <1>1, CommitEventTurns
  <1>3. overwritten' = overwritten BY DEF CommitEvent
  <1>4. call'[k] = Idle /\ \A j \in Calls \ {k} : call'[j] = call[j] BY <1>2 DEF Turns
  <1>5. OneWrites /\ (\A j \in Calls, c \in Accounts : WriteOK(call[j], c)) /\ SharesExplained
    BY DEF Explained
  <1>6. \A c \in Accounts : ~(Idle.writes[c] >= 0) /\ Idle.at = "idle" BY DEF Idle
  <1>7. ASSUME NEW c \in Accounts, NEW j \in Calls, NEW i \in Calls,
               call'[j].writes[c] >= 0, call'[i].writes[c] >= 0
        PROVE  j = i
    <2>1. j # k /\ i # k BY <1>4, <1>6, <1>7
    <2> QED BY <1>4, <1>5, <1>7, <2>1 DEF OneWrites
  <1>8. ASSUME NEW j \in Calls, NEW c \in Accounts PROVE WriteOK(call[j], c)'
    <2>1. CASE j = k
      <3>1. call'[j] = Idle BY <1>4, <2>1
      <3> QED BY <1>6, <3>1 DEF WriteOK
    <2>2. CASE j # k
      <3>1. call'[j] = call[j] /\ WriteOK(call[j], c) BY <1>4, <1>5, <2>2
      <3>2. call[j].writes[c] >= 0 => shares'[c].available = shares[c].available
        <4>1. call[j].writes[c] >= 0 => ~(call[k].writes[c] >= 0) BY <1>5, <2>2 DEF OneWrites
        <4>2. call[k].writes[c] \in Int BY CallFields
        <4> QED BY <1>2, <4>1, <4>2
      <3> QED BY <1>3, <3>1, <3>2 DEF WriteOK
    <2> QED BY <2>1, <2>2
  <1>9. SharesExplained'
    <2> SUFFICES ASSUME NEW c \in Accounts, c \notin overwritten'
                 PROVE  Total(c)' = Held[c] + Bought[c] + Movements(c)'
      BY DEF SharesExplained, Movements
    <2>1. PICK d \in Int : /\ d = Credit(e, call[k].rows[c])
                           /\ Total(c)' = Total(c) + (IF e = "dividend" THEN 0 ELSE d)
      BY <1>1, <1>3, CommitMoves
    <2>2. /\ Movements(c) \in Int
          /\ Movements(c)' = Movements(c) + (IF e = "dividend" THEN 0 ELSE d)
      BY <1>2, <2>1, MovementsNext
    <2>3. Total(c) = Held[c] + Bought[c] + Movements(c)
      BY <1>3, <1>5 DEF SharesExplained, Movements
    <2>4. Total(c) \in Nat /\ Held[c] \in Nat /\ Bought[c] \in Nat BY TotalType, SubscriptionsType
    <2>5. CASE e = "dividend" BY <2>1, <2>2, <2>3, <2>4, <2>5
    <2>6. CASE e # "dividend" BY <2>1, <2>2, <2>3, <2>4, <2>6
    <2> QED BY <2>5, <2>6
  <1> QED BY <1>7, <1>8, <1>9 DEF Explained, OneWrites

LEMMA ExplainedCustomer ==
    ASSUME Types, PendingBought, Explained, NEW c \in Accounts, Customer(c)
    PROVE  Explained'
  <1>1. OneWrites /\ (\A j \in Calls, x \in Accounts : WriteOK(call[j], x)) /\ SharesExplained
    BY DEF Explained
  <1>2. UNCHANGED <<call, credited>> BY CustomerKeeps
  <1>3. OneWrites' BY <1>1, <1>2 DEF OneWrites
  <1>4. CASE UNCHANGED <<shares, overwritten>>
    BY <1>1, <1>2, <1>3, <1>4 DEF Explained, WriteOK, SharesExplained, Total
  <1>5. ASSUME ~Locked(c), \A x \in Accounts \ {c} : shares'[x] = shares[x],
               overwritten \subseteq overwritten',
               c \notin overwritten' => Total(c)' = Total(c)
        PROVE  Explained'
    <2>2. ASSUME NEW j \in Calls, NEW x \in Accounts PROVE WriteOK(call[j], x)'
      <3>1. WriteOK(call[j], x) /\ call'[j] = call[j] BY <1>1, <1>2
      <3>2. x = c => ~(call[j].writes[x] >= 0) BY <1>5 DEF Locked
      <3>3. x # c => shares'[x] = shares[x] BY <1>5
      <3> QED BY <1>5, <3>1, <3>2, <3>3 DEF WriteOK
    <2>3. \A x \in Accounts \ overwritten' : Total(x)' = Total(x) /\ x \notin overwritten
      BY <1>5 DEF Total
    <2>4. SharesExplained' BY <1>1, <1>2, <2>3 DEF SharesExplained
    <2> QED BY <1>3, <2>2, <2>4 DEF Explained
  <1>6. CASE BeiSettles(c) \/ Subscribe(c) BY <1>4, <1>6 DEF BeiSettles, Subscribe, sekuritas
  <1>7. CASE Reserve(c) \/ Release(c)
    <2>1. /\ ~Locked(c) /\ overwritten' = overwritten
          /\ \A x \in Accounts \ {c} : shares'[x] = shares[x]
          /\ shares'[c].available + shares'[c].reserved + shares'[c].pending = Total(c)
      BY <1>7, SharesMove
    <2>2. Total(c)' = Total(c) BY <2>1 DEF Total
    <2> QED BY <1>5, <2>1, <2>2
  <1>8. CASE SettlementReads(c) BY <1>4, <1>8, SettlementReadsIs
  <1>9. CASE SettlementFails(c) BY <1>4, <1>9, SettlementFailsIs
  <1>10. CASE SettlementWrites(c)
    <2>1. /\ ~Locked(c) /\ settling[c].at = "read"
          /\ \A x \in Accounts \ {c} : shares'[x] = shares[x]
          /\ shares'[c].available = settling[c].available + Bought[c]
          /\ shares'[c].reserved = shares[c].reserved
          /\ settling[c].pending = Bought[c] => shares'[c].pending = 0
          /\ overwritten' = IF shares[c].available # settling[c].available
                            THEN overwritten \cup {c} ELSE overwritten
      BY <1>10, SettlementWritesIs
    <2>2. settling[c].pending = Bought[c] /\ shares[c].pending = Bought[c]
      BY <2>1 DEF PendingBought
    <2>3. overwritten \subseteq overwritten' BY <2>1
    <2>4. ASSUME c \notin overwritten' PROVE Total(c)' = Total(c)
      <3>1. settling[c].available = shares[c].available BY <2>1, <2>4
      <3>2. /\ shares[c].available \in Nat /\ shares[c].reserved \in Nat
            /\ shares[c].pending \in Nat
        BY TotalType
      <3> QED BY <2>1, <2>2, <3>1, <3>2 DEF Total
    <2> QED BY <1>5, <2>1, <2>3, <2>4
  <1> QED BY <1>6, <1>7, <1>8, <1>9, <1>10 DEF Customer

\* Who has no position has no shares.
LEMMA NoPosition ==
    ASSUME Types, SharesExplained, NEW c \in Accounts, c \notin overwritten, ~HasPosition(c)
    PROVE  shares[c].available = 0
  <1>1. PICK f, S : f = [e \in Events |-> credited[e][c]] /\ S = Events \ {"dividend"} OBVIOUS
  <1>2. \A e \in S : f[e] = 0 BY <1>1 DEF HasPosition
  <1>3. Movements(c) = 0 BY <1>1, <1>2, EventsFinite, SumZero DEF Movements
  <1>4. Total(c) = Held[c] + Bought[c] + Movements(c) BY DEF SharesExplained, Movements
  <1>5. Held[c] \in Nat /\ Bought[c] \in Nat BY SubscriptionsType
  <1>6. Held[c] = 0 /\ Bought[c] = 0 BY <1>5 DEF HasPosition
  <1>7. Total(c) = 0 BY <1>3, <1>4, <1>6
  <1>8. shares[c].available \in Nat /\ shares[c].reserved \in Nat /\ shares[c].pending \in Nat
    BY TotalType
  <1> QED BY <1>7, <1>8 DEF Total

LEMMA ExplainedNext == Types /\ Types' /\ PendingBought /\ Explained /\ [Next]_vars => Explained'
  <1> SUFFICES ASSUME Types, Types', PendingBought, Explained, [Next]_vars PROVE Explained'
    OBVIOUS
  <1>0. \A k \in Calls, c \in Accounts : WriteOK(call[k], c) BY DEF Explained
  <1>1. CASE UNCHANGED vars
    <2>1. UNCHANGED <<call, shares, credited, overwritten>> BY <1>1 DEF vars, sekuritas
    <2>2. \A k \in Calls, c \in Accounts : WriteOK(call[k], c)' BY <1>0, <2>1 DEF WriteOK
    <2>3. OneWrites' /\ SharesExplained'
      BY <2>1 DEF Explained, OneWrites, SharesExplained, Total
    <2> QED BY <2>2, <2>3 DEF Explained
  <1>2. ASSUME NEW k \in Calls, NEW r, Apart(k, r) PROVE Explained'
    <2>1. /\ Turns(k, r) /\ r.at \notin {"book", "write"} /\ UNCHANGED <<shares, credited>>
          /\ overwritten' = overwritten /\ r \in CallRecord /\ call'[k] = r
      BY <1>2 DEF Apart, Turns
    <2>2. Fits(r, minted')
      <3>1. Fits(call'[k], minted') BY DEF Types, StageOK
      <3> QED BY <2>1, <3>1
    <2>3. \A c \in Accounts : WriteOK(r, c)' /\ ~(r.writes[c] >= 0)
      BY <2>1, <2>2, NoWrites
    <2> QED BY <2>1, <2>3, ExplainedTurn
  <1>3. ASSUME NEW k \in Calls, TakeEvent(k), call[k].event \notin applied PROVE Explained'
    <2>1. PICK r : /\ Inside(k, r) /\ r.event = call[k].event /\ r.rows = Due(k)
                   /\ r.left = Concerned(k) /\ r.writes = call[k].writes /\ r.at = "book"
      BY <1>3, TakeEventInside
    <2>2. \A c \in Accounts : ~(r.writes[c] >= 0)
      <3>1. call[k].at = "send" BY <1>3, TakeEventTurns
      <3>2. call[k] \in CallRecord /\ Fits(call[k], minted) BY CallFields DEF StageOK
      <3> QED BY <2>1, <3>1, <3>2, NoWrites
    <2>3. \A c \in Accounts : WriteOK(r, c)'
      BY <2>1, <2>2 DEF WriteOK, Concerned, Credit
    <2> QED BY <2>1, <2>2, <2>3, ExplainedTurn DEF Inside
  <1>4. ASSUME NEW k \in Calls, NEW a \in Accounts, ReadShares(k, a) PROVE Explained'
    <2>1. PICK r : /\ Inside(k, r) /\ r.event = call[k].event /\ r.rows = call[k].rows
                   /\ r.left = call[k].left \ {a} /\ r.writes = call[k].writes
                   /\ r.at = "write" /\ r.account = a /\ overwritten' = overwritten
      BY <1>4, ReadSharesInside
    <2>2. call[k].at = "book" /\ a \in call[k].left BY <1>4, ReadSharesTurns
    <2>3. shares' = shares BY <2>1 DEF Inside
    <2>4. \A c \in Accounts : WriteOK(r, c)' BY <1>0, <2>1, <2>2, <2>3 DEF WriteOK
    <2> QED BY <2>1, <2>4, ExplainedTurn DEF Inside
  <1>5. ASSUME NEW k \in Calls, WriteShares(k), ~Refused(k) PROVE Explained'
    <2>1. PICK r : /\ Inside(k, r) /\ r.event = call[k].event /\ r.rows = call[k].rows
                   /\ r.left = call[k].left /\ r.at = "book"
                   /\ r.writes = [call[k].writes EXCEPT ![call[k].account] = Moved(k)]
                   /\ Moved(k) >= 0
                   /\ overwritten' = IF Overwrites(k) THEN overwritten \cup {call[k].account}
                                     ELSE overwritten
      BY <1>5, WriteSharesInside
    <2>2. PICK a \in Accounts : /\ a = call[k].account /\ call[k].at = "write" /\ ~Locked(a)
                                /\ call[k].event # "dividend" /\ a \notin call[k].left
      BY <1>5, WriteSharesTurns, CallFields DEF StageOK, Fits
    <2>3. /\ shares' = shares /\ overwritten \subseteq overwritten'
          /\ r.writes[a] = Moved(k) /\ \A c \in Accounts \ {a} : r.writes[c] = call[k].writes[c]
      <3>1. call[k].writes \in [Accounts -> Int] BY CallFields
      <3> QED BY <2>1, <2>2, <3>1 DEF Inside
    <2>4. ASSUME NEW c \in Accounts PROVE WriteOK(r, c)'
      <3>1. CASE c = a
        <4>1. ASSUME c \notin overwritten'
              PROVE  r.writes[c] = shares[c].available + Whole(r.rows[c])
          <5>1. c \notin overwritten /\ ~Overwrites(k) BY <2>1, <2>2, <2>3, <3>1, <4>1
          <5>2. r.rows[c] \in Int /\ Whole(r.rows[c]) \in Int
            <6>1. r.rows[c] \in Int BY <2>1, CallFields, SubscriptionsType
            <6> QED BY <6>1, WholeType
          <5>3. shares[c].available = IF call[k].read = None THEN 0 ELSE call[k].read
            <6>1. CASE call[k].read = None
              <7>1. ~HasPosition(c) BY <1>5, <2>2, <3>1, <6>1 DEF Refused
              <7>2. shares[c].available = 0 BY <5>1, <7>1, NoPosition DEF Explained
              <7> QED BY <6>1, <7>2
            <6>2. CASE call[k].read # None
              BY <2>2, <3>1, <5>1, <6>2 DEF Overwrites
            <6> QED BY <6>1, <6>2
          <5>4. shares[c].available \in Nat BY TotalType
          <5>5. r.writes[c] = Whole(r.rows[c]) + shares[c].available
            BY <2>1, <2>2, <2>3, <3>1, <5>3 DEF Moved
          <5> QED BY <5>2, <5>4, <5>5
        <4> QED BY <2>1, <2>2, <2>3, <3>1, <4>1 DEF WriteOK
      <3>2. CASE c # a
        <4>1. WriteOK(call[k], c) /\ r.writes[c] = call[k].writes[c] BY <1>0, <2>3, <3>2
        <4> QED BY <2>1, <2>2, <2>3, <3>2, <4>1 DEF WriteOK
      <3> QED BY <3>1, <3>2
    <2>5. \A c \in Accounts : r.writes[c] >= 0 => call[k].writes[c] >= 0 \/ ~Locked(c)
      BY <2>2, <2>3
    <2> QED BY <2>1, <2>3, <2>4, <2>5, ExplainedTurn DEF Inside
  <1> QED BY <1>1, <1>2, <1>3, <1>4, <1>5, BooksSteps, ExplainedCommit, ExplainedCustomer

LEMMA ExplainedInit == Init => Explained
  <1> SUFFICES ASSUME Init PROVE Explained OBVIOUS
  <1>1. \A k \in Calls, c \in Accounts : ~(call[k].writes[c] >= 0) /\ call[k].at = "idle"
    BY DEF Init, Idle
  <1>2. \A k \in Calls, c \in Accounts : WriteOK(call[k], c) BY <1>1 DEF WriteOK
  <1>3. OneWrites BY <1>1 DEF OneWrites
  <1>4. SharesExplained
    <2> SUFFICES ASSUME NEW c \in Accounts
                 PROVE  Total(c) = Held[c] + Bought[c] + Movements(c)
      BY DEF SharesExplained, Movements
    <2>1. PICK f, S : f = [e \in Events |-> credited[e][c]] /\ S = Events \ {"dividend"} OBVIOUS
    <2>2. \A e \in S : f[e] = 0 BY <2>1 DEF Init
    <2>3. Movements(c) = 0 BY <2>1, <2>2, EventsFinite, SumZero DEF Movements
    <2>4. Held[c] \in Nat /\ Bought[c] \in Nat BY SubscriptionsType
    <2>5. Total(c) = Held[c] + 0 + Bought[c] BY DEF Total, Init
    <2> QED BY <2>3, <2>4, <2>5
  <1> QED BY <1>2, <1>3, <1>4 DEF Explained
-----------------------------------------------------------------------------
LEMMA PendingNext == Types /\ PendingBought /\ [Next]_vars => PendingBought'
  <1> SUFFICES ASSUME Types, PendingBought, [Next]_vars, NEW x \in Accounts
               PROVE  /\ shares'[x].pending = IF settling'[x].at = "done" THEN 0 ELSE Bought[x]
                      /\ settling'[x].at = "read" => settling'[x].pending = Bought[x]
    BY DEF PendingBought
  <1>0. /\ shares[x].pending = IF settling[x].at = "done" THEN 0 ELSE Bought[x]
        /\ settling[x].at = "read" => settling[x].pending = Bought[x]
    BY DEF PendingBought
  <1>1. ASSUME shares'[x].pending = shares[x].pending, settling'[x] = settling[x]
        PROVE  /\ shares'[x].pending = IF settling'[x].at = "done" THEN 0 ELSE Bought[x]
               /\ settling'[x].at = "read" => settling'[x].pending = Bought[x]
    BY <1>0, <1>1
  <1>2. CASE UNCHANGED <<shares, settling>> BY <1>1, <1>2
  <1>3. ASSUME NEW c \in Accounts, Customer(c)
        PROVE  /\ shares'[x].pending = IF settling'[x].at = "done" THEN 0 ELSE Bought[x]
               /\ settling'[x].at = "read" => settling'[x].pending = Bought[x]
    <2>1. CASE BeiSettles(c) \/ Subscribe(c)
      BY <1>2, <2>1 DEF BeiSettles, Subscribe, sekuritas
    <2>2. CASE Reserve(c) \/ Release(c)
      <3>1. shares'[x].pending = shares[x].pending /\ settling' = settling
        BY <2>2, SharesMove
      <3> QED BY <1>1, <3>1
    <2>3. CASE SettlementReads(c)
      <3>1. /\ shares' = shares /\ settling[c].at = "due" /\ settling'[c].at = "read"
            /\ settling'[c].pending = shares[c].pending
            /\ \A y \in Accounts \ {c} : settling'[y] = settling[y]
        BY <2>3, SettlementReadsIs
      <3>2. CASE x = c BY <1>0, <3>1, <3>2
      <3>3. CASE x # c BY <1>1, <3>1, <3>3
      <3> QED BY <3>2, <3>3
    <2>4. CASE SettlementWrites(c)
      <3>1. /\ settling[c].at = "read" /\ settling'[c].at = "done"
            /\ settling[c].pending = Bought[c] => shares'[c].pending = 0
            /\ \A y \in Accounts \ {c} : settling'[y] = settling[y] /\ shares'[y] = shares[y]
        BY <2>4, SettlementWritesIs
      <3>2. CASE x = c BY <1>0, <3>1, <3>2
      <3>3. CASE x # c BY <1>1, <3>1, <3>3
      <3> QED BY <3>2, <3>3
    <2>5. CASE SettlementFails(c)
      <3>1. /\ shares' = shares /\ settling[c].at = "read" /\ settling'[c].at = "due"
            /\ \A y \in Accounts \ {c} : settling'[y] = settling[y]
        BY <2>5, SettlementFailsIs
      <3>2. CASE x = c BY <1>0, <3>1, <3>2
      <3>3. CASE x # c BY <1>1, <3>1, <3>3
      <3> QED BY <3>2, <3>3
    <2> QED BY <1>3, <2>1, <2>2, <2>3, <2>4, <2>5 DEF Customer
  <1>4. ASSUME NEW k \in Calls, NEW r, Apart(k, r) \/ Inside(k, r)
        PROVE  UNCHANGED <<shares, settling>>
    BY <1>4 DEF Apart, Inside
  <1>5. ASSUME NEW k \in Calls, CommitEvent(k)
        PROVE  shares'[x].pending = shares[x].pending /\ settling'[x] = settling[x]
    BY <1>5, CommitEventTurns DEF CommitEvent
  <1>6. ASSUME UNCHANGED vars PROVE UNCHANGED <<shares, settling>> BY <1>6 DEF vars, sekuritas
  <1>7. ASSUME NEW k \in Calls, TakeEvent(k), call[k].event \notin applied
        PROVE  UNCHANGED <<shares, settling>>
    BY <1>4, <1>7, TakeEventInside
  <1>8. ASSUME NEW k \in Calls, NEW c \in Accounts, ReadShares(k, c)
        PROVE  UNCHANGED <<shares, settling>>
    BY <1>4, <1>8, ReadSharesInside
  <1>9. ASSUME NEW k \in Calls, WriteShares(k), ~Refused(k)
        PROVE  UNCHANGED <<shares, settling>>
    BY <1>4, <1>9, WriteSharesInside
  <1>10. \/ UNCHANGED <<shares, settling>> \/ \E c \in Accounts : Customer(c)
         \/ \E k \in Calls : CommitEvent(k)
    BY <1>4, <1>6, <1>7, <1>8, <1>9, BooksSteps
  <1> QED BY <1>1, <1>2, <1>3, <1>5, <1>10

LEMMA PendingInit == Init => PendingBought
  BY DEF Init, PendingBought, Unread

LEMMA BalancedInit == Init => Balanced
  <1> SUFFICES ASSUME Init PROVE Balanced OBVIOUS
  <1>1. /\ \A k \in Calls : OpenShares[k] = 0 /\ OpenCash[k] = 0
        /\ \A c \in Custody : SharesIssued[c] = 0 /\ CashIssued[c] = 0
        /\ minted = FALSE
    BY DEF Init, OpenShares, OpenCash, OwedShares, OwedCash, SharesIssued, CashIssued, Idle
  <1>2. IsFiniteSet(Custody) /\ IsFiniteSet(Calls)
    BY CorporateActionsAssumption, FS_AddElement DEF Custody
  <1>3. /\ SumFunctionOnSet(OpenShares, Calls) = 0 /\ SumFunctionOnSet(OpenCash, Calls) = 0
        /\ SumFunctionOnSet(SharesIssued, Custody) = 0 /\ SumFunctionOnSet(CashIssued, Custody) = 0
    BY <1>1, <1>2, SumZero
  <1> QED BY <1>1, <1>3 DEF Balanced

\* The inductive invariant holds in every state.
THEOREM CorporateActionsInvariant == Spec => []IInv
  <1>1. Init => IInv
    BY TypesInit, CountedInit, FreshInit, BooksInit, UnmintedInit, MirrorInit, PendingInit,
       ExplainedInit, BalancedInit DEF IInv
  <1>2. IInv /\ [Next]_vars => IInv'
    <2> SUFFICES ASSUME IInv, [Next]_vars PROVE IInv' OBVIOUS
    <2>1. /\ Types /\ Counted /\ RowsFresh /\ OneBooks /\ Unminted /\ Mirror
          /\ PendingBought /\ Explained /\ Balanced
      BY DEF IInv
    <2>2. Types' BY <2>1, TypesNext
    <2>3. Counted' BY <2>1, <2>2, CountedNext
    <2>4. RowsFresh' BY <2>1, <2>2, FreshNext
    <2>5. OneBooks' BY <2>1, BooksNext
    <2>6. Unminted' BY <2>1, UnmintedNext
    <2>7. Mirror' BY <2>1, MirrorNext
    <2>8. Explained' BY <2>1, <2>2, ExplainedNext
    <2>9. Balanced' BY <2>1, <2>2, BalancedNext
    <2>10. PendingBought' BY <2>1, PendingNext
    <2> QED BY <2>2, <2>3, <2>4, <2>5, <2>6, <2>7, <2>8, <2>9, <2>10 DEF IInv
  <1> QED BY <1>1, <1>2, PTL DEF Spec

\* Types: no customer's shares are ever negative, whatever reservations,
\* settlements and transactions come between a transaction's read of a
\* position and its write; an account is allocated at most once a call.
THEOREM CorporateTypes == Spec => []TypeOK
  <1>1. IInv => TypeOK
    <2> SUFFICES ASSUME IInv PROVE TypeOK OBVIOUS
    <2>1. Types /\ Counted BY DEF IInv
    <2>2. allocations \in [Accounts -> 0..MaxCalls]
      <3>1. \A c \in Accounts : allocations[c] \in 0..MaxCalls BY <2>1, AllocationsBounded
      <3>2. allocations \in [Accounts -> Nat] BY <2>1 DEF Types
      <3> QED BY <3>1, <3>2
    <2>3. \A k \in Calls : call[k].rows \in [Custody -> Int] /\ call[k].left \subseteq Accounts
      BY <2>1, CallFields
    <2> QED BY <2>1, <2>2, <2>3 DEF Types, TypeOK, Settlement
  <1> QED BY <1>1, CorporateActionsInvariant, PTL

\* However often an action is processed, whatever calls overlap or are cut
\* off, a customer's row is worked out from shares that do not come from the
\* action itself.
THEOREM RowsAreNotCompounded == Spec => []NoCompounding
  <1>1. IInv => NoCompounding BY DEF IInv, RowsFresh, Within, Limited, Most, NoCompounding
  <1> QED BY <1>1, CorporateActionsInvariant, PTL

\* What SEKURITAS has moved for an event is what BEI's ledger has for it, as
\* long as no second call inserted rows or allocated, and BEI sent something.
THEOREM SekuritasMirrors == Spec => []MirrorsLedger
  <1>1. IInv => MirrorsLedger BY DEF IInv, Mirror, Clean, MirrorsLedger
  <1> QED BY <1>1, CorporateActionsInvariant, PTL

\* A customer's shares are what was held, bought and moved by the events, as
\* long as no transaction, neither an event's nor a settlement's, has written
\* that customer's position over with a total read before another change of it.
THEOREM MovementsExplainShares == Spec => []SharesExplained
  <1>1. IInv => SharesExplained BY DEF IInv, Explained
  <1> QED BY <1>1, CorporateActionsInvariant, PTL

\* With no allocation between its inserts, and none cut off there, the shares
\* and the cash of the IPO's ledger add up, however often it was allocated.
THEOREM IssueBalances == Spec => []TreasuryBalances
  <1>1. IInv => TreasuryBalances
    <2> SUFFICES ASSUME IInv, minted, "cut" \notin slips, \A k \in Calls : ~At(k, "entries")
                 PROVE  /\ SumFunctionOnSet([c \in Custody |-> issued[c].shares], Custody) = Offered
                        /\ SumFunctionOnSet([c \in Custody |-> issued[c].cash], Custody) = 0
      BY DEF TreasuryBalances
    <2>1. \A k \in Calls : OpenShares[k] = 0 /\ OpenCash[k] = 0
      BY DEF At, OpenShares, OpenCash, OwedShares, OwedCash
    <2>2. SumFunctionOnSet(OpenShares, Calls) = 0 /\ SumFunctionOnSet(OpenCash, Calls) = 0
      BY <2>1, SumZero, CorporateActionsAssumption
    <2>3. /\ SumFunctionOnSet(SharesIssued, Custody) = Offered + 0
          /\ SumFunctionOnSet(CashIssued, Custody) = 0
      BY <2>2 DEF IInv, Balanced
    <2>4. Offered \in Nat BY OfferedType
    <2> QED BY <2>3, <2>4 DEF SharesIssued, CashIssued
  <1> QED BY <1>1, CorporateActionsInvariant, PTL
-----------------------------------------------------------------------------
\* A corporate action that SEKURITAS has applied is not applied again.
AppliedOnce ==
    [][\A e \in applied : e \in applied' /\ \A c \in Accounts :
         credited'[e][c] = credited[e][c] /\ (e = "ipo" => paid'[c] = paid[c])]_vars

LEMMA AppliedSteps ==
    ASSUME IInv, [Next]_vars, NEW e \in applied
    PROVE  e \in applied' /\ \A c \in Accounts :
             credited'[e][c] = credited[e][c] /\ (e = "ipo" => paid'[c] = paid[c])
  <1>0. Types /\ OneBooks BY DEF IInv
  <1>1. ASSUME UNCHANGED <<applied, credited, paid>>
        PROVE  e \in applied' /\ credited'[e] = credited[e] /\ paid' = paid
    BY <1>1
  <1>2. ASSUME NEW c \in Accounts, Customer(c) PROVE UNCHANGED <<applied, credited, paid>>
    BY <1>0, <1>2, CustomerKeeps
  <1>3. ASSUME NEW k \in Calls, CommitEvent(k)
        PROVE  e \in applied' /\ \A c \in Accounts :
                 credited'[e][c] = credited[e][c] /\ (e = "ipo" => paid'[c] = paid[c])
    <2>1. PICK x \in Events : x = call[k].event BY <1>0, CallFields
    <2>2. /\ call[k].at = "book" /\ applied' = applied \cup {x}
          /\ \A y \in Events \ {x}, c \in Accounts : credited'[y][c] = credited[y][c]
      BY <1>0, <1>3, <2>1, CommitEventTurns
    <2>3. x \notin applied BY <1>0, <2>1, <2>2 DEF OneBooks, InBook
    <2>4. e \in Events /\ e # x BY <1>0, <2>3 DEF Types
    <2>5. ASSUME e = "ipo", NEW c \in Accounts PROVE paid'[c] = paid[c]
      <3>1. paid'[c] = paid[c] - 0 BY <1>0, <1>3, <2>1, <2>4, <2>5, CommitEventTurns
      <3>2. paid[c] \in Int BY <1>0 DEF Types
      <3> QED BY <3>1, <3>2
    <2> QED BY <2>2, <2>4, <2>5
  <1>4. ASSUME NEW k \in Calls, NEW r, Apart(k, r) \/ Inside(k, r)
        PROVE  UNCHANGED <<applied, credited, paid>>
    BY <1>4 DEF Apart, Inside
  <1>5. ASSUME UNCHANGED vars PROVE UNCHANGED <<applied, credited, paid>>
    BY <1>5 DEF vars, sekuritas
  <1>6. ASSUME NEW k \in Calls, TakeEvent(k), call[k].event \notin applied
        PROVE  UNCHANGED <<applied, credited, paid>>
    BY <1>0, <1>4, <1>6, TakeEventInside
  <1>7. ASSUME NEW k \in Calls, NEW c \in Accounts, ReadShares(k, c)
        PROVE  UNCHANGED <<applied, credited, paid>>
    BY <1>0, <1>4, <1>7, ReadSharesInside
  <1>8. ASSUME NEW k \in Calls, WriteShares(k), ~Refused(k)
        PROVE  UNCHANGED <<applied, credited, paid>>
    BY <1>0, <1>4, <1>8, WriteSharesInside
  <1>9. \/ UNCHANGED <<applied, credited, paid>> \/ \E k \in Calls : CommitEvent(k)
    BY <1>0, <1>2, <1>4, <1>5, <1>6, <1>7, <1>8, BooksSteps
  <1> QED BY <1>1, <1>3, <1>9

\* However often an event is sent, by whatever calls at once, and whatever is
\* cut off, a customer's account is credited for it in one transaction: what
\* the books say of an applied event never changes again.
THEOREM AppliedOnceHolds == Spec => AppliedOnce
  <1>1. IInv /\ [Next]_vars =>
          [\A e \in applied : e \in applied' /\ \A c \in Accounts :
             credited'[e][c] = credited[e][c] /\ (e = "ipo" => paid'[c] = paid[c])]_vars
    BY AppliedSteps
  <1> QED BY <1>1, CorporateActionsInvariant, PTL DEF Spec, AppliedOnce
=============================================================================
