---------------------------- MODULE BeiSettlement ----------------------------
(***************************************************************************)
(* The exchange's end of settlement: trade capture (routes/trades.ts), the *)
(* closing of a session (routes/rules.ts), settlement batches, their       *)
(* instructions and the custody ledger (routes/settlement.ts).             *)
(*                                                                         *)
(* A session here is a row of session_templates: the session daemon of     *)
(* MATS goes through its segments again and again under one id, so each    *)
(* closing settles the trades of all closings so far.  No handler runs in  *)
(* a transaction: each step below is one statement, or several that nobody *)
(* can tell apart, and a handler may end after any of them.                *)
(*                                                                         *)
(* Trade number t is the t-th of one security.  Prices are logarithms and  *)
(* that of trade t is t: multiplying the index by close / previous close   *)
(* is adding their difference.                                             *)
(***************************************************************************)
EXTENDS Integers, FiniteSets, FiniteSetsExt

CONSTANTS Trades,      \* trade numbers
          Types,       \* instruction types: {"dvp", "rvp"}
          Handlers,    \* requests that can be running at a time
          MaxCycles,   \* bound: how often the session is closed
          MaxFailures  \* bound: requests that end half-way or are not answered

ASSUME BeiAssumption == /\ Trades \subseteq Nat \ {0}
                        /\ Types \subseteq {"dvp", "rvp"}
                        /\ MaxCycles \in Nat \ {0} /\ MaxFailures \in Nat

Instructions == Trades \X Types

VARIABLES cycle,     \* MATS: which round of the session it is in
          trading,   \* MATS: that round is not closed yet
          made,      \* MATS: the trades of the session it has stored
          finality,  \* MATS: per round, its finality event and the trades it counted
          captured,  \* the trades table
          session,   \* session_templates.status
          blocked,   \* settlementBlockedReason is set in its metadata
          index,     \* market_indices.last_value of MDX
          prevClose, \* previous_close of the security
          batch,     \* the session's settlement batch and its notification
          instr,     \* the settlement_instructions table
          ledger,    \* instructions whose two custody ledger entries are there
          run,       \* the running requests
          torn,      \* history: index and previous close were not moved together
          failures   \* how many requests have failed so far

mats == <<cycle, trading, made, finality>>
market == <<index, prevClose, torn>>
beiVars == <<cycle, trading, made, finality, captured, session, blocked, index, prevClose,
             batch, instr, ledger, run, torn, failures>>

Request(stage, n, todo) ==
    [at |-> stage, cycle |-> n, close |-> 0, traded |-> {}, todo |-> todo]
Idle == Request("idle", 0, {})

Latest(S) == IF S = {} THEN 0 ELSE Max(S)

BeiInit == /\ cycle = 1 /\ trading = TRUE
           /\ made = {} /\ captured = {}
           /\ finality = [n \in 1..MaxCycles |-> [state |-> "none", counted |-> {}]]
           /\ session = "open" /\ blocked = FALSE
           /\ index = 0 /\ prevClose = 0 /\ torn = FALSE
           /\ batch = [status |-> "none", note |-> "pending"]
           /\ instr = [i \in Instructions |-> "none"]
           /\ ledger = {}
           /\ run = [h \in Handlers |-> Idle]
           /\ failures = 0
-----------------------------------------------------------------------------
\* A trade of MATS (external): after the last one, while the session trades.
MakeTrade(t) ==
    /\ trading
    /\ t \in Trades \ made /\ \A u \in Trades \ made : t <= u
    /\ made' = made \cup {t}
    /\ UNCHANGED <<cycle, trading, finality, captured, session, blocked, market, batch, instr,
                   ledger, run, failures>>

\* MATS closes the session and counts the trades it has stored for its id.
CloseSession ==
    /\ trading
    /\ trading' = FALSE
    /\ finality' = [finality EXCEPT ![cycle] = [state |-> "due", counted |-> made]]
    /\ UNCHANGED <<cycle, made, captured, session, blocked, market, batch, instr, ledger, run,
                   failures>>

\* The daemon starts over with the first segment; what it tells BEI may be lost.
ReopenSession ==
    /\ ~trading /\ cycle < MaxCycles
    /\ cycle' = cycle + 1 /\ trading' = TRUE
    /\ \/ session' = "open" /\ UNCHANGED failures
       \/ failures < MaxFailures /\ failures' = failures + 1 /\ UNCHANGED session
    /\ UNCHANGED <<made, finality, captured, blocked, market, batch, instr, ledger, run>>

\* POST /trades/capture: whatever the session's status, and once per trade.
Capture(t) ==
    /\ t \in made \ captured
    /\ captured' = captured \cup {t}
    /\ UNCHANGED <<mats, session, blocked, market, batch, instr, ledger, run, failures>>
-----------------------------------------------------------------------------
At(h, stage) == run[h].at = stage
Goto(h, stage) == run' = [run EXCEPT ![h].at = stage]
Work(h, stage, todo) == run' = [run EXCEPT ![h].at = stage, ![h].todo = todo]

\* POST of the finality event: the status is written before anything is looked at.
PostFinality(h, n) ==
    /\ At(h, "idle") /\ finality[n].state = "due"
    /\ run' = [run EXCEPT ![h] = Request("barrier", n, {})]
    /\ session' = "closed"
    /\ UNCHANGED <<mats, captured, blocked, market, batch, instr, ledger, failures>>

Expected(h) == Cardinality(finality[run[h].cycle].counted)

\* Fault: one trade may be missing.
BarrierLoose(h) ==
    /\ At(h, "barrier")
    /\ IF Cardinality(captured) + 1 < Expected(h)
         THEN blocked' = TRUE /\ run' = [run EXCEPT ![h] = Idle]
         ELSE blocked' = FALSE /\ Goto(h, "summary")
    /\ UNCHANGED <<mats, captured, session, market, batch, instr, ledger, failures>>

\* The capture barrier; an expected count of zero is not compared.
Barrier(h) ==
    /\ At(h, "barrier")
    /\ IF Cardinality(captured) < Expected(h)
         THEN blocked' = TRUE /\ run' = [run EXCEPT ![h] = Idle]
         ELSE /\ blocked' = IF Expected(h) > 0 THEN FALSE ELSE blocked
              /\ Goto(h, "summary")
    /\ UNCHANGED <<mats, captured, session, market, batch, instr, ledger, failures>>

\* The market summaries, and with them the closing price that step 3 writes.
Summarise(h) ==
    /\ At(h, "summary")
    /\ run' = [run EXCEPT ![h].at = IF captured = {} THEN "batch" ELSE "index",
                          ![h].close = Latest(captured)]
    /\ UNCHANGED <<mats, captured, session, blocked, market, batch, instr, ledger, failures>>

\* MDX: times session close over previous close.
MoveIndex(h) ==
    /\ At(h, "index")
    /\ index' = index + (Latest(captured) - prevClose)
    /\ torn' = (torn \/ Latest(captured) # run[h].close
                     \/ \E other \in Handlers \ {h} : At(other, "close"))
    /\ Goto(h, "close")
    /\ UNCHANGED <<mats, captured, session, blocked, prevClose, batch, instr, ledger, failures>>

\* Fault: the previous close is left alone.
MoveCloseForgotten(h) ==
    /\ At(h, "close")
    /\ Goto(h, "batch")
    /\ UNCHANGED <<mats, captured, session, blocked, market, batch, instr, ledger, failures>>

MoveClose(h) ==
    /\ At(h, "close")
    /\ prevClose' = run[h].close
    /\ torn' = (torn \/ prevClose > run[h].close)
    /\ Goto(h, "batch")
    /\ UNCHANGED <<mats, captured, session, blocked, index, batch, instr, ledger, failures>>

\* An error in the three steps above is logged and the handler goes on.
AggregationFails(h) ==
    /\ run[h].at \in {"summary", "index", "close"} /\ failures < MaxFailures
    /\ torn' = (torn \/ At(h, "close"))
    /\ failures' = failures + 1
    /\ Goto(h, "batch")
    /\ UNCHANGED <<mats, captured, session, blocked, index, prevClose, batch, instr, ledger>>
-----------------------------------------------------------------------------
\* POST /settlement/batches: the session's batch, new or found, and its trades.
CreateBatch(h) ==
    /\ At(h, "batch")
    /\ batch' = IF batch.status = "none" THEN [batch EXCEPT !.status = "pending"] ELSE batch
    /\ run' = [run EXCEPT ![h].at = "instruct", ![h].traded = captured]
    /\ UNCHANGED <<mats, captured, session, blocked, market, instr, ledger, failures>>

\* The instructions of one trade, unless their idempotency keys are there.
Instruct(h) ==
    /\ At(h, "instruct")
    /\ \E t \in run[h].traded :
         /\ \A u \in run[h].traded : t <= u
         /\ instr' = [i \in Instructions |->
                        IF i[1] = t /\ instr[i] = "none" THEN "ready" ELSE instr[i]]
         /\ run' = [run EXCEPT ![h].traded = @ \ {t}]
    /\ UNCHANGED <<mats, captured, session, blocked, market, batch, ledger, failures>>

\* POST /settlement/batches/:id/process, entered by the closing handler ...
SelectInstructions(h) ==
    /\ At(h, "instruct") /\ run[h].traded = {}
    /\ Work(h, "book", {i \in Instructions : instr[i] = "ready"})
    /\ UNCHANGED <<mats, captured, session, blocked, market, batch, instr, ledger, failures>>

\* Fault: deferred batches are forgotten.
RetryFailedOnly(h) ==
    /\ At(h, "idle") /\ batch.note = "failed"
    /\ run' = [run EXCEPT ![h] = Request("book", 0, {i \in Instructions : instr[i] = "ready"})]
    /\ UNCHANGED <<mats, captured, session, blocked, market, batch, instr, ledger, failures>>

\* ... and by the interval that looks for notifications to repeat.
RetryNotification(h) ==
    /\ At(h, "idle")
    /\ batch.note \in {"deferred", "failed"}
    /\ run' = [run EXCEPT ![h] = Request("book", 0, {i \in Instructions : instr[i] = "ready"})]
    /\ UNCHANGED <<mats, captured, session, blocked, market, batch, instr, ledger, failures>>

\* The instructions are taken in the order of their trades, dvp before rvp.
Least(todo) == {i \in todo : \A j \in todo : i[1] < j[1] \/ (i[1] = j[1] /\ (i[2] = "dvp" \/ i = j))}

\* Two ledger entries in one insert, unless their keys are there.
BookLedger(h) ==
    /\ At(h, "book")
    /\ \E i \in Least(run[h].todo) : ledger' = ledger \cup {i}
    /\ Goto(h, "mark")
    /\ UNCHANGED <<mats, captured, session, blocked, market, batch, instr, failures>>

MarkSettled(h) ==
    /\ At(h, "mark")
    /\ \E i \in Least(run[h].todo) :
         /\ instr' = [instr EXCEPT ![i] = "settled"]
         /\ Work(h, "book", run[h].todo \ {i})
    /\ UNCHANGED <<mats, captured, session, blocked, market, batch, ledger, failures>>

\* Nothing was traded: there is nothing to tell SEKURITAS.
SettleBatch(h) ==
    /\ At(h, "book") /\ run[h].todo = {}
    /\ batch' = [batch EXCEPT !.status = "settled"]
    /\ Goto(h, "notify")
    /\ UNCHANGED <<mats, captured, session, blocked, market, instr, ledger, failures>>

Sides(ts) == [trade : ts, side : {"buy", "sell"}]

NothingToNotify(h) ==
    /\ At(h, "notify") /\ captured = {}
    /\ batch' = [batch EXCEPT !.note = "sent"]
    /\ Goto(h, "end")
    /\ UNCHANGED <<mats, captured, session, blocked, market, instr, ledger, failures>>

\* The trades are loaded and posted with both of their sides.
Notify(h) ==
    /\ At(h, "notify") /\ captured # {}
    /\ Goto(h, "wait")
    /\ UNCHANGED <<mats, captured, session, blocked, market, batch, instr, ledger, failures>>

\* Fault: the answer is stored as it came.
NoteRaw(answer) == answer

\* Fault: a 202 passes for a success.
NoteDeferredSent(answer) == IF answer = "error" THEN "failed" ELSE "sent"

\* settlement_batches.notification_status.
Note(answer) == CASE answer = "ok" -> "sent"
                  [] answer = "deferred" -> "deferred"
                  [] answer = "error" -> "failed"

\* SEKURITAS has answered; after an error the request fails as well.
Notified(h, answer) ==
    /\ At(h, "wait")
    /\ batch' = [batch EXCEPT !.note = Note(answer)]
    /\ IF answer = "error" THEN run' = [run EXCEPT ![h] = Idle] ELSE Goto(h, "end")
    /\ UNCHANGED <<mats, captured, session, blocked, market, instr, ledger, failures>>

\* The answer to MATS, or to the interval; MATS may miss it.
Finish(h) ==
    /\ At(h, "end")
    /\ run' = [run EXCEPT ![h] = Idle]
    /\ IF run[h].cycle = 0
         THEN UNCHANGED <<finality, failures>>
         ELSE \/ finality' = [finality EXCEPT ![run[h].cycle].state = "done"] /\ UNCHANGED failures
              \/ failures < MaxFailures /\ failures' = failures + 1 /\ UNCHANGED finality
    /\ UNCHANGED <<cycle, trading, made, captured, session, blocked, market, batch, instr, ledger>>

\* A statement fails or BEI goes away.
Fails(h) ==
    /\ run[h].at \notin {"idle", "end"} /\ failures < MaxFailures
    /\ failures' = failures + 1
    /\ torn' = (torn \/ At(h, "close"))
    /\ run' = [run EXCEPT ![h] = Idle]
    /\ UNCHANGED <<mats, captured, session, blocked, index, prevClose, batch, instr, ledger>>

Aggregates(h) == Barrier(h) \/ Summarise(h) \/ MoveIndex(h) \/ MoveClose(h)
Settles(h) == \/ CreateBatch(h) \/ Instruct(h) \/ SelectInstructions(h) \/ BookLedger(h)
              \/ MarkSettled(h) \/ SettleBatch(h) \/ NothingToNotify(h)

\* The steps SEKURITAS has no part in.
Alone ==
    \/ \E t \in Trades : MakeTrade(t) \/ Capture(t)
    \/ CloseSession \/ ReopenSession
    \/ \E h \in Handlers :
         \/ \E n \in 1..MaxCycles : PostFinality(h, n)
         \/ Aggregates(h) \/ AggregationFails(h)
         \/ Settles(h) \/ RetryNotification(h) \/ Finish(h) \/ Fails(h)

\* The exchange, whatever SEKURITAS answers.
BeiNext ==
    \/ Alone
    \/ \E h \in Handlers : \/ Notify(h)
                           \/ \E answer \in {"ok", "deferred", "error"} : Notified(h, answer)

BeiSpec == BeiInit /\ [][BeiNext]_beiVars
-----------------------------------------------------------------------------
Stages == {"idle", "barrier", "summary", "index", "close", "batch", "instruct", "book", "mark",
           "notify", "wait", "end"}
RunRecords == [at : Stages, cycle : 0..MaxCycles, close : Trades \cup {0}, traded : SUBSET Trades,
               todo : SUBSET Instructions]
FinalityRecords == [state : {"none", "due", "done"}, counted : SUBSET Trades]
BatchRecords == [status : {"none", "pending", "settled"},
                 note : {"pending", "sent", "deferred", "failed"}]

\* The type invariant of the exchange.
BeiTypeOK ==
    /\ cycle \in 1..MaxCycles /\ trading \in BOOLEAN
    /\ made \subseteq Trades /\ captured \subseteq made
    /\ finality \in [1..MaxCycles -> FinalityRecords]
    /\ session \in {"open", "closed"} /\ blocked \in BOOLEAN
    /\ index \in Int /\ prevClose \in Trades \cup {0}
    /\ batch \in BatchRecords
    /\ instr \in [Instructions -> {"none", "ready", "settled"}]
    /\ ledger \subseteq Instructions
    /\ run \in [Handlers -> RunRecords]
    /\ torn \in BOOLEAN /\ failures \in 0..MaxFailures

Settled(t) == \A i \in {t} \X Types : instr[i] = "settled" /\ i \in ledger

(***************************************************************************)
(* When BEI has answered the closing of a session with success, as many    *)
(* trades are settled in custody as MATS counted for it.  The barrier of   *)
(* rules.ts:243 compares numbers: as long as no trade was made after the   *)
(* count these are the counted trades.                                     *)
(***************************************************************************)
FinalityMeansSettled ==
    \A n \in 1..MaxCycles : finality[n].state = "done" =>
      Cardinality({t \in made : Settled(t)}) >= Cardinality(finality[n].counted)

(***************************************************************************)
(* However often a closing is repeated, the index moves by the closes of   *)
(* the sessions and by nothing else, unless a request broke off, or        *)
(* another trade or request came in, between index and previous close.     *)
(***************************************************************************)
IndexFollowsCloses ==
    ~torn /\ (\A h \in Handlers : ~At(h, "close")) => index = prevClose
=============================================================================
