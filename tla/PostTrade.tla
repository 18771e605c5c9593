------------------------------ MODULE PostTrade ------------------------------
(***************************************************************************)
(* Settlement from end to end: the exchange closes a session and settles   *)
(* it (BeiSettlement) and posts the settled trades to the broker           *)
(* (SettlementInbox), which holds both sides of them for one account.  The *)
(* broker works on a call to the end although the request that made it may *)
(* be gone, and so a repeated call can run beside the first.               *)
(***************************************************************************)
EXTENDS BeiSettlement

CONSTANT Callers  \* calls of the settlement webhook that can run at a time

ASSUME CallersAssumption == Callers # {}

VARIABLES booked, inbox, events, cash, shares, call, overwritten,
          waits  \* per request, the call it waits for or has waited for last

Sekuritas == INSTANCE SettlementInbox

sekuritasVars == <<booked, inbox, events, cash, shares, call, overwritten>>
vars == <<beiVars, sekuritasVars, waits>>

Init == BeiInit /\ Sekuritas!InboxInit /\ waits = [h \in Handlers |-> CHOOSE c \in Callers : TRUE]

PostSettlement(h, c) ==
    /\ Notify(h)
    /\ Sekuritas!Receive(c, Sides(captured))
    /\ waits' = [waits EXCEPT ![h] = c]

WaitsFor(h, c) == At(h, "wait") /\ waits[h] = c

AnswerSettlement(h, c) ==
    /\ WaitsFor(h, c)
    /\ Notified(h, call[c].answer)
    /\ Sekuritas!Answered(c)
    /\ UNCHANGED waits

\* The request that made the call is gone.
AnswerNobody(c) ==
    /\ \A h \in Handlers : ~WaitsFor(h, c)
    /\ Sekuritas!Answered(c)
    /\ UNCHANGED <<beiVars, waits>>

\* MATS reports the fills of the trades that are made.
BookFill(d) == d.trade \in made /\ Sekuritas!BookFill(d) /\ UNCHANGED <<beiVars, waits>>

\* One transaction step of a settlement call.
Settlement(c) == /\ Sekuritas!Look(c) \/ Sekuritas!Take(c) \/ Sekuritas!Commit(c)
                 /\ UNCHANGED <<beiVars, waits>>

SettlementAborts(c) ==
    /\ failures < MaxFailures /\ failures' = failures + 1
    /\ Sekuritas!Abort(c)
    /\ UNCHANGED <<mats, captured, session, blocked, market, batch, instr, ledger, run, waits>>

Next ==
    \/ Alone /\ UNCHANGED <<sekuritasVars, waits>>
    \/ \E h \in Handlers, c \in Callers : PostSettlement(h, c) \/ AnswerSettlement(h, c)
    \/ \E c \in Callers : AnswerNobody(c) \/ Settlement(c) \/ SettlementAborts(c)
    \/ \E d \in Sides(Trades) : BookFill(d)

Spec == Init /\ [][Next]_vars

(***************************************************************************)
(* MATS delivers trades, fills and the closing until they are accepted, a  *)
(* request goes on, and so does the interval.  How many requests there can *)
(* be at a time is a bound of the model: a closing is never starved of     *)
(* one, hence SF.                                                          *)
(***************************************************************************)
Serves(h) == (Aggregates(h) \/ Settles(h) \/ Finish(h)) /\ UNCHANGED <<sekuritasVars, waits>>

Reports == \/ (\E t \in Trades : Capture(t)) /\ UNCHANGED <<sekuritasVars, waits>>
           \/ \E d \in Sides(Trades) : BookFill(d)

FairSpec ==
    /\ Spec
    /\ WF_vars(Reports)
    /\ \A n \in 1..MaxCycles :
         SF_vars((\E h \in Handlers : PostFinality(h, n)) /\ UNCHANGED <<sekuritasVars, waits>>)
    /\ WF_vars((\E h \in Handlers : RetryNotification(h)) /\ UNCHANGED <<sekuritasVars, waits>>)
    /\ \A h \in Handlers :
         WF_vars(Serves(h) \/ \E c \in Callers : PostSettlement(h, c) \/ AnswerSettlement(h, c))
    /\ \A c \in Callers : WF_vars(AnswerNobody(c) \/ Settlement(c))

\* The type invariant of the two parts together.
TypeOK == BeiTypeOK /\ Sekuritas!InboxTypeOK /\ waits \in [Handlers -> Callers]

\* SettlementInbox's PaidOnce under the requests BEI really makes: a settled
\* trade is paid out once, however often and however late it is notified.
PaidOnce == Sekuritas!PaidOnce

\* Nothing is on its way and MATS has the answer to every closing.
AtRest == /\ \A h \in Handlers : At(h, "idle")
          /\ \A c \in Callers : call[c].at = "idle"
          /\ \A n \in 1..cycle : finality[n].state = "done"

(***************************************************************************)
(* When all closings are answered and the notification counts as sent,     *)
(* the broker has settled both sides of every trade BEI has settled.  This *)
(* is about one closing: with several, the late "sent" of an earlier       *)
(* request overwrites a later "deferred" (settlement.ts:235).              *)
(***************************************************************************)
SentMeansSettled ==
    AtRest /\ batch.note = "sent" => \A t \in made : Settled(t) => Sides({t}) \subseteq events

(***************************************************************************)
(* A trade that MATS counts for a closing is in the end settled, at the    *)
(* exchange and at the broker, whatever breaks off in between.             *)
(***************************************************************************)
EventuallySettled ==
    \A t \in Trades :
      (\E n \in 1..MaxCycles : t \in finality[n].counted) ~> (Settled(t) /\ Sides({t}) \subseteq events)
=============================================================================
