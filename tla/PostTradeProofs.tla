--------------------------- MODULE PostTradeProofs ---------------------------
(***************************************************************************)
(* Settlement for any number of trades, closings, requests, webhook calls  *)
(* and failures: what the exchange's answer to a closing means, what its   *)
(* index follows, and that the broker pays each detail out once.           *)
(*                                                                         *)
(* A closing promises as many trades as MATS counted: the promise is first *)
(* about captured trades, then about their instructions, and in the end    *)
(* about settled ones, and other requests only help to keep it.  At the    *)
(* broker the lock on the inbox row makes one transaction at a time post a *)
(* detail.                                                                 *)
(***************************************************************************)
EXTENDS PostTrade, SumFacts

\* Trade t is one that request h is going to settle or has settled.
Keeps(h, t) ==
    \/ run[h].at \in {"summary", "index", "close", "batch"}
    \/ /\ run[h].at = "instruct"
       /\ t \in run[h].traded \/ \A i \in {t} \X Types : instr[i] # "none"
    \/ /\ run[h].at \in {"book", "mark"}
       /\ \A i \in {t} \X Types : i \in run[h].todo \/ instr[i] = "settled"
    \/ /\ run[h].at \in {"notify", "wait", "end"}
       /\ \A i \in {t} \X Types : instr[i] = "settled"

Promised(h) == {t \in captured : Keeps(h, t)}

RequestOK(h) ==
    /\ run[h].cycle # 0 => finality[run[h].cycle].state # "none"
    /\ run[h].cycle # 0 /\ run[h].at \notin {"idle", "barrier"} =>
         Cardinality(Promised(h)) >= Expected(h)
    /\ At(h, "mark") => \E i \in Least(run[h].todo) : i \in ledger

\* A closing is counted once, and only trades that are made.
CyclesOK ==
    /\ IsFiniteSet(made)
    /\ \A n \in 1..MaxCycles : finality[n].counted \subseteq made
    /\ \A n \in 1..MaxCycles : n > cycle => finality[n].state = "none"
    /\ trading => finality[cycle].state = "none"

LedgerOK == \A i \in Instructions : instr[i] = "settled" => i \in ledger

\* Between index and previous close there is one request, and it knows the close.
IndexOK ==
    ~torn =>
      /\ \A h \in Handlers : At(h, "close") => index = run[h].close
      /\ \A g, h \in Handlers : At(g, "close") /\ At(h, "close") => g = h
      /\ (\A h \in Handlers : ~At(h, "close")) => index = prevClose

BeiInv == /\ BeiTypeOK /\ CyclesOK /\ LedgerOK /\ IndexOK /\ FinalityMeansSettled
          /\ \A h \in Handlers : RequestOK(h)
-----------------------------------------------------------------------------
\* What a step makes of the request it is about, and of the others.
Others(h) == \A g \in Handlers \ {h} : run'[g] = run[g]

LEMMA GotoFields ==
    ASSUME run \in [Handlers -> RunRecords], NEW h \in Handlers, NEW stage \in Stages,
           Goto(h, stage)
    PROVE  /\ run' \in [Handlers -> RunRecords] /\ Others(h)
           /\ run'[h].at = stage /\ run'[h].cycle = run[h].cycle /\ run'[h].close = run[h].close
           /\ run'[h].traded = run[h].traded /\ run'[h].todo = run[h].todo
  BY DEF Goto, RunRecords, Others

LEMMA WorkFields ==
    ASSUME run \in [Handlers -> RunRecords], NEW h \in Handlers, NEW stage \in Stages,
           NEW todo \in SUBSET Instructions, Work(h, stage, todo)
    PROVE  /\ run' \in [Handlers -> RunRecords] /\ Others(h)
           /\ run'[h].at = stage /\ run'[h].cycle = run[h].cycle
           /\ run'[h].todo = todo
  BY DEF Work, RunRecords, Others

LEMMA CloseFields ==
    ASSUME run \in [Handlers -> RunRecords], NEW h \in Handlers, NEW stage \in Stages,
           NEW close \in Trades \cup {0},
           run' = [run EXCEPT ![h].at = stage, ![h].close = close]
    PROVE  /\ run' \in [Handlers -> RunRecords] /\ Others(h)
           /\ run'[h].at = stage /\ run'[h].cycle = run[h].cycle
           /\ run'[h].close = close
  BY DEF RunRecords, Others

LEMMA TradedFields ==
    ASSUME run \in [Handlers -> RunRecords], NEW h \in Handlers, NEW stage \in Stages,
           NEW traded \in SUBSET Trades,
           run' = [run EXCEPT ![h].at = stage, ![h].traded = traded]
    PROVE  /\ run' \in [Handlers -> RunRecords] /\ Others(h)
           /\ run'[h].at = stage /\ run'[h].cycle = run[h].cycle
           /\ run'[h].traded = traded
  BY DEF RunRecords, Others

LEMMA LessFields ==
    ASSUME run \in [Handlers -> RunRecords], NEW h \in Handlers, NEW t,
           run' = [run EXCEPT ![h].traded = @ \ {t}]
    PROVE  /\ run' \in [Handlers -> RunRecords] /\ Others(h)
           /\ run'[h].at = run[h].at /\ run'[h].cycle = run[h].cycle
           /\ run'[h].traded = run[h].traded \ {t}
  BY DEF RunRecords, Others

LEMMA NewFields ==
    ASSUME run \in [Handlers -> RunRecords], NEW h \in Handlers, NEW stage \in Stages,
           NEW n \in 0..MaxCycles, NEW todo \in SUBSET Instructions,
           run' = [run EXCEPT ![h] = Request(stage, n, todo)]
    PROVE  /\ run' \in [Handlers -> RunRecords] /\ Others(h)
           /\ run'[h].at = stage /\ run'[h].cycle = n /\ run'[h].todo = todo
  BY DEF Request, RunRecords, Others

LEMMA IdleFields ==
    ASSUME run \in [Handlers -> RunRecords], NEW h \in Handlers,
           run' = [run EXCEPT ![h] = Idle]
    PROVE  /\ run' \in [Handlers -> RunRecords] /\ Others(h)
           /\ run'[h].at = "idle" /\ run'[h].cycle = 0
  <1>1. 0 \in 0..MaxCycles /\ {} \in SUBSET Instructions /\ "idle" \in Stages
    BY BeiAssumption DEF Stages
  <1> QED BY <1>1, NewFields DEF Idle

LEMMA RunFields ==
    ASSUME run \in [Handlers -> RunRecords], NEW h \in Handlers
    PROVE  /\ run[h].at \in Stages /\ run[h].cycle \in 0..MaxCycles
           /\ run[h].close \in Trades \cup {0}
           /\ run[h].traded \subseteq Trades /\ run[h].todo \subseteq Instructions
  BY DEF RunRecords

LEMMA FinalityFields ==
    ASSUME finality \in [1..MaxCycles -> FinalityRecords], NEW n \in 1..MaxCycles
    PROVE  finality[n].state \in {"none", "due", "done"} /\ finality[n].counted \subseteq Trades
  BY DEF FinalityRecords

LEMMA TradeInt == ASSUME NEW t \in Trades \cup {0} PROVE t \in Nat
  BY BeiAssumption

LEMMA LatestType ==
    ASSUME NEW S, IsFiniteSet(S), S \subseteq Trades
    PROVE  Latest(S) \in Trades \cup {0}
  <1>1. CASE S = {} BY <1>1 DEF Latest
  <1>2. CASE S # {}
    <2>1. S \subseteq Int BY BeiAssumption
    <2>2. \E x \in S : \A y \in S : y <= x BY <1>2, <2>1, FiniteMax
    <2>3. \E x \in S : \A y \in S : x >= y BY <2>1, <2>2
    <2>4. Max(S) \in S BY <2>3 DEF Max
    <2> QED BY <1>2, <2>4 DEF Latest
  <1> QED BY <1>1, <1>2

\* Instructions are taken one at a time.
LEMMA LeastOne ==
    ASSUME NEW todo \in SUBSET Instructions, NEW i \in Least(todo), NEW j \in Least(todo)
    PROVE  i = j
  <1>1. i \in todo /\ j \in todo BY DEF Least
  <1>2. /\ i[1] \in Trades /\ j[1] \in Trades /\ i = <<i[1], i[2]>> /\ j = <<j[1], j[2]>>
    BY <1>1 DEF Instructions
  <1>3. i[1] \in Nat /\ j[1] \in Nat BY <1>2, TradeInt
  <1>4. i[1] < j[1] \/ (i[1] = j[1] /\ (i[2] = "dvp" \/ i = j)) BY <1>1 DEF Least
  <1>5. j[1] < i[1] \/ (j[1] = i[1] /\ (j[2] = "dvp" \/ j = i)) BY <1>1 DEF Least
  <1>6. i[1] = j[1] /\ (i[2] = "dvp" \/ i = j) /\ (j[2] = "dvp" \/ i = j)
    BY <1>3, <1>4, <1>5
  <1> QED BY <1>2, <1>6
-----------------------------------------------------------------------------
\* Nothing a step does takes back a trade, an instruction or what was counted.
Helps ==
    /\ made \subseteq made' /\ captured \subseteq captured' /\ captured' \subseteq made'
    /\ IsFiniteSet(made') /\ made' \subseteq Trades
    /\ \A i \in Instructions : /\ instr[i] # "none" => instr'[i] # "none"
                               /\ instr[i] = "settled" => instr'[i] = "settled"
    /\ ledger \subseteq ledger'
    /\ \A n \in 1..MaxCycles :
         finality[n].state # "none" => /\ finality'[n].state # "none"
                                       /\ finality'[n].counted = finality[n].counted

LEMMA InstructionsOf ==
    ASSUME NEW t \in Trades, NEW i \in {t} \X Types PROVE i \in Instructions
  BY DEF Instructions

\* A promise is kept while the request stays as it is.
LEMMA PromiseKept ==
    ASSUME NEW h \in Handlers, run'[h] = run[h], Helps, NEW t \in captured, Keeps(h, t)
    PROVE  Keeps(h, t)'
  <1>1. t \in Trades BY DEF Helps
  <1>2. \A i \in {t} \X Types : /\ instr[i] # "none" => instr'[i] # "none"
                                /\ instr[i] = "settled" => instr'[i] = "settled"
    BY <1>1, InstructionsOf DEF Helps
  <1> QED BY <1>2 DEF Keeps

LEMMA CapturedFinite ==
    ASSUME BeiTypeOK, CyclesOK
    PROVE  /\ IsFiniteSet(made) /\ IsFiniteSet(captured) /\ captured \subseteq Trades
           /\ \A S : S \subseteq made => IsFiniteSet(S) /\ Cardinality(S) \in Nat
  <1>1. IsFiniteSet(made) /\ captured \subseteq made /\ made \subseteq Trades
    BY DEF BeiTypeOK, CyclesOK
  <1>2. \A S : S \subseteq made => IsFiniteSet(S) /\ Cardinality(S) \in Nat
    BY <1>1, FS_Subset, FS_CardinalityType
  <1> QED BY <1>1, <1>2

\* What is promised can only become more, and the promise is about a number.
LEMMA PromiseGrows ==
    ASSUME NEW h \in Handlers, NEW n \in 1..MaxCycles, Helps,
           \A t \in captured : Keeps(h, t) => Keeps(h, t)',
           Cardinality(Promised(h)) >= Cardinality(finality[n].counted),
           finality[n].state # "none", finality[n].counted \subseteq made
    PROVE  Cardinality(Promised(h)') >= Cardinality(finality'[n].counted)
  <1>1. finality'[n].counted = finality[n].counted BY DEF Helps
  <1>2. PICK P : P = Promised(h) OBVIOUS
  <1>3. PICK Q : Q = Promised(h)' OBVIOUS
  <1>4. P \subseteq Q /\ Q \subseteq made' BY <1>2, <1>3 DEF Promised, Helps
  <1>5. IsFiniteSet(Q) /\ IsFiniteSet(P) /\ IsFiniteSet(finality[n].counted)
    BY <1>4, FS_Subset DEF Helps
  <1>6. Cardinality(P) <= Cardinality(Q) BY <1>4, <1>5, FS_Subset
  <1>7. /\ Cardinality(P) \in Nat /\ Cardinality(Q) \in Nat
        /\ Cardinality(finality[n].counted) \in Nat
    BY <1>5, FS_CardinalityType
  <1>8. Cardinality(P) >= Cardinality(finality[n].counted) BY <1>2
  <1>9. Cardinality(Q) >= Cardinality(finality[n].counted) BY <1>6, <1>7, <1>8
  <1> QED BY <1>1, <1>3, <1>9

\* Requests that a step leaves alone keep their promises.
LEMMA OthersKept ==
    ASSUME BeiTypeOK, CyclesOK, Helps,
           NEW K, K \subseteq Handlers, \A g \in K : RequestOK(g) /\ run'[g] = run[g]
    PROVE  \A g \in K : RequestOK(g)'
  <1> SUFFICES ASSUME NEW g \in K PROVE RequestOK(g)' OBVIOUS
  <1>1. run'[g] = run[g] /\ RequestOK(g) /\ g \in Handlers OBVIOUS
  <1>2. run[g].cycle \in 0..MaxCycles BY <1>1, RunFields DEF BeiTypeOK
  <1>3. ASSUME run[g].cycle # 0 PROVE finality'[run[g].cycle].state # "none"
    BY <1>1, <1>2, <1>3, BeiAssumption DEF RequestOK, Helps
  <1>4. ASSUME run[g].cycle # 0, run[g].at \notin {"idle", "barrier"}
        PROVE  Cardinality(Promised(g)') >= Expected(g)'
    <2>1. PICK n : n = run[g].cycle OBVIOUS
    <2>2. n \in 1..MaxCycles BY <1>2, <1>4, <2>1, BeiAssumption
    <2>3. /\ Cardinality(Promised(g)) >= Cardinality(finality[n].counted)
          /\ finality[n].state # "none"
      BY <1>1, <1>4, <2>1 DEF RequestOK, Expected
    <2>4. finality[n].counted \subseteq made BY <2>2 DEF CyclesOK
    <2>5. \A t \in captured : Keeps(g, t) => Keeps(g, t)' BY <1>1, PromiseKept
    <2>6. Cardinality(Promised(g)') >= Cardinality(finality'[n].counted)
      BY <1>1, <2>2, <2>3, <2>4, <2>5, PromiseGrows
    <2> QED BY <1>1, <2>1, <2>6 DEF Expected
  <1>5. ASSUME At(g, "mark") PROVE \E i \in Least(run[g].todo) : i \in ledger'
    BY <1>1, <1>5 DEF RequestOK, Helps
  <1> QED BY <1>1, <1>3, <1>4, <1>5 DEF RequestOK, At

\* What is settled stays settled, and so an answered closing stays right.
LEMMA FinalityKept ==
    ASSUME BeiTypeOK, CyclesOK, Helps, FinalityMeansSettled,
           \A n \in 1..MaxCycles : finality'[n].state = "done" =>
             \/ finality[n].state = "done"
             \/ /\ finality[n].state # "none"
                /\ Cardinality({t \in made : Settled(t)}) >= Cardinality(finality[n].counted)
    PROVE  FinalityMeansSettled'
  <1> SUFFICES ASSUME NEW n \in 1..MaxCycles, finality'[n].state = "done"
               PROVE  Cardinality({t \in made' : Settled(t)'}) >= Cardinality(finality'[n].counted)
    BY DEF FinalityMeansSettled
  <1>1. PICK P : P = {t \in made : Settled(t)} OBVIOUS
  <1>2. PICK Q : Q = {t \in made' : Settled(t)'} OBVIOUS
  <1>3. Cardinality(P) >= Cardinality(finality[n].counted) /\ finality[n].state # "none"
    BY <1>1 DEF FinalityMeansSettled
  <1>4. finality'[n].counted = finality[n].counted BY <1>3 DEF Helps
  <1>5. ASSUME NEW t \in made, Settled(t) PROVE Settled(t)'
    <2>1. t \in Trades BY DEF BeiTypeOK
    <2> QED BY <1>5, <2>1, InstructionsOf DEF Settled, Helps
  <1>6. P \subseteq Q /\ Q \subseteq made' BY <1>1, <1>2, <1>5 DEF Helps
  <1>7. IsFiniteSet(Q) /\ IsFiniteSet(P) BY <1>6, FS_Subset DEF Helps
  <1>8. IsFiniteSet(finality[n].counted) BY CapturedFinite DEF CyclesOK
  <1>9. /\ Cardinality(P) <= Cardinality(Q) /\ Cardinality(P) \in Nat /\ Cardinality(Q) \in Nat
        /\ Cardinality(finality[n].counted) \in Nat
    BY <1>6, <1>7, <1>8, FS_Subset, FS_CardinalityType
  <1>10. Cardinality(Q) >= Cardinality(finality[n].counted) BY <1>3, <1>9
  <1> QED BY <1>2, <1>4, <1>10

\* A step that is not at the previous close and moves no price.
LEMMA IndexKept ==
    ASSUME IndexOK, NEW h \in Handlers, Others(h), UNCHANGED <<index, prevClose, torn>>,
           run[h].at # "close", run'[h].at # "close"
    PROVE  IndexOK'
  <1>1. \A g \in Handlers : At(g, "close")' <=> At(g, "close") BY DEF At, Others
  <1>2. \A g \in Handlers : At(g, "close") => run'[g] = run[g] BY DEF At, Others
  <1> QED BY <1>1, <1>2 DEF IndexOK

\* Request h takes a step and MATS, trades, instructions and ledger stay.
LEMMA QuietStep ==
    ASSUME BeiInv, NEW h \in Handlers, Others(h), BeiTypeOK', IndexOK', RequestOK(h)',
           UNCHANGED <<cycle, trading, made, finality, captured, instr, ledger>>
    PROVE  BeiInv'
  <1>1. Helps
    <2>1. IsFiniteSet(made) /\ made \subseteq Trades /\ captured \subseteq made
      BY DEF BeiInv, CyclesOK, BeiTypeOK
    <2> QED BY <2>1 DEF Helps
  <1>2. CyclesOK' BY DEF BeiInv, CyclesOK
  <1>3. LedgerOK' BY DEF BeiInv, LedgerOK
  <1>4. FinalityMeansSettled' BY DEF BeiInv, FinalityMeansSettled, Settled
  <1>5. \A g \in Handlers : RequestOK(g)'
    <2>1. \A g \in Handlers \ {h} : RequestOK(g) /\ run'[g] = run[g] BY DEF BeiInv, Others
    <2>2. \A g \in Handlers \ {h} : RequestOK(g)' BY <1>1, <2>1, OthersKept DEF BeiInv
    <2> QED BY <2>2
  <1> QED BY <1>2, <1>3, <1>4, <1>5 DEF BeiInv

\* Its promise is kept if it is for each trade.
LEMMA OwnPromise ==
    ASSUME BeiTypeOK, CyclesOK, Helps, NEW h \in Handlers, RequestOK(h),
           run'[h].cycle = run[h].cycle, run[h].at \notin {"idle", "barrier"},
           \A t \in captured : Keeps(h, t) => Keeps(h, t)',
           At(h, "mark")' => \E i \in Least(run'[h].todo) : i \in ledger'
    PROVE  RequestOK(h)'
  <1>1. run[h].cycle \in 0..MaxCycles BY RunFields DEF BeiTypeOK
  <1>2. ASSUME run[h].cycle # 0
        PROVE  /\ finality'[run[h].cycle].state # "none"
               /\ Cardinality(Promised(h)') >= Cardinality(finality'[run[h].cycle].counted)
    <2>1. PICK n : n = run[h].cycle OBVIOUS
    <2>2. n \in 1..MaxCycles BY <1>1, <1>2, <2>1, BeiAssumption
    <2>3. /\ Cardinality(Promised(h)) >= Cardinality(finality[n].counted)
          /\ finality[n].state # "none"
      BY <1>2, <2>1 DEF RequestOK, Expected
    <2>4. finality[n].counted \subseteq made BY <2>2 DEF CyclesOK
    <2>5. Cardinality(Promised(h)') >= Cardinality(finality'[n].counted)
      BY <2>2, <2>3, <2>4, PromiseGrows
    <2> QED BY <2>1, <2>2, <2>3, <2>5 DEF Helps
  <1> QED BY <1>2 DEF RequestOK, Expected
\* Request h takes a step that helps the others; it is on its own to be right.
LEMMA HelpfulStep ==
    ASSUME BeiInv, NEW h \in Handlers, Others(h), Helps, BeiTypeOK', CyclesOK', LedgerOK',
           IndexOK', RequestOK(h)',
           \A n \in 1..MaxCycles : finality'[n].state = "done" =>
             \/ finality[n].state = "done"
             \/ /\ finality[n].state # "none"
                /\ Cardinality({t \in made : Settled(t)}) >= Cardinality(finality[n].counted)
    PROVE  BeiInv'
  <1>1. FinalityMeansSettled' BY FinalityKept DEF BeiInv
  <1>2. \A g \in Handlers : RequestOK(g)'
    <2>1. \A g \in Handlers \ {h} : RequestOK(g) /\ run'[g] = run[g] BY DEF BeiInv, Others
    <2>2. \A g \in Handlers \ {h} : RequestOK(g)' BY <2>1, OthersKept DEF BeiInv
    <2> QED BY <2>2
  <1> QED BY <1>1, <1>2 DEF BeiInv

\* MATS or a captured trade: no request takes a step.
LEMMA NobodyMoves ==
    ASSUME BeiInv, UNCHANGED <<run, index, prevClose, torn>>, Helps, BeiTypeOK', CyclesOK',
           LedgerOK',
           \A n \in 1..MaxCycles : finality'[n].state = "done" => finality[n].state = "done"
    PROVE  BeiInv'
  <1>1. FinalityMeansSettled' BY FinalityKept DEF BeiInv
  <1>2. \A g \in Handlers : RequestOK(g)' BY OthersKept DEF BeiInv
  <1>3. IndexOK' BY DEF BeiInv, IndexOK, At
  <1> QED BY <1>1, <1>2, <1>3 DEF BeiInv

\* A request takes a step away from the prices, and its promise is kept.
LEMMA QuietMove ==
    ASSUME BeiInv, NEW h \in Handlers, Others(h), run' \in [Handlers -> RunRecords],
           run[h].at # "close", run'[h].at # "close", RequestOK(h)',
           UNCHANGED <<cycle, trading, made, finality, captured, instr, ledger>>,
           UNCHANGED <<index, prevClose, torn>>,
           session' \in {"open", "closed"}, blocked' \in BOOLEAN, batch' \in BatchRecords,
           failures' \in 0..MaxFailures
    PROVE  BeiInv'
  <1>1. BeiTypeOK' BY DEF BeiInv, BeiTypeOK
  <1>2. IndexOK' BY IndexKept DEF BeiInv
  <1> QED BY <1>1, <1>2, QuietStep

\* A request that is over, or that no closing waits for, promises nothing.
LEMMA NoPromise ==
    ASSUME NEW h \in Handlers, run'[h].cycle = 0, run'[h].at # "mark"
    PROVE  RequestOK(h)'
  BY DEF RequestOK, At

LEMMA SameHelps ==
    ASSUME BeiInv, UNCHANGED <<made, finality, captured, instr, ledger>>
    PROVE  Helps
  <1>1. IsFiniteSet(made) /\ made \subseteq Trades /\ captured \subseteq made
    BY DEF BeiInv, CyclesOK, BeiTypeOK
  <1> QED BY <1>1 DEF Helps

\* While the trades are the same a request keeps its promise trade by trade.
LEMMA QuietPromise ==
    ASSUME BeiInv, UNCHANGED <<made, finality, captured, instr, ledger>>, NEW h \in Handlers,
           run'[h].cycle = run[h].cycle, run[h].at \notin {"idle", "barrier"},
           run'[h].at # "mark", \A t \in captured : Keeps(h, t) => Keeps(h, t)'
    PROVE  RequestOK(h)'
  <1>1. ~At(h, "mark")' BY DEF At
  <1> QED BY <1>1, SameHelps, OwnPromise DEF BeiInv
-----------------------------------------------------------------------------
LEMMA MakeTradeStep ==
    ASSUME NEW t \in Trades PROVE BeiInv /\ MakeTrade(t) => BeiInv'
  <1>0. SUFFICES ASSUME BeiInv, MakeTrade(t) PROVE BeiInv' OBVIOUS
  <1>1. BeiTypeOK /\ CyclesOK /\ LedgerOK BY <1>0 DEF BeiInv
  <1>2. made' = made \cup {t} BY <1>0 DEF MakeTrade
  <1>3. /\ UNCHANGED <<cycle, trading, finality, captured, session, blocked, index, prevClose>>
        /\ UNCHANGED <<torn, batch, instr, ledger, run, failures>>
    BY <1>0 DEF MakeTrade, market
  <1>4. BeiTypeOK' BY <1>1, <1>2, <1>3 DEF BeiTypeOK
  <1>5. IsFiniteSet(made') BY <1>1, <1>2, FS_AddElement DEF CyclesOK
  <1>6. CyclesOK' BY <1>1, <1>2, <1>3, <1>5 DEF CyclesOK
  <1>7. LedgerOK' BY <1>1, <1>3 DEF LedgerOK
  <1>8. made' \subseteq Trades /\ captured \subseteq made BY <1>1, <1>2 DEF BeiTypeOK
  <1>9. Helps BY <1>2, <1>3, <1>5, <1>8 DEF Helps
  <1> QED BY <1>0, <1>3, <1>4, <1>6, <1>7, <1>9, NobodyMoves

LEMMA CloseSessionStep == BeiInv /\ CloseSession => BeiInv'
  <1>0. SUFFICES ASSUME BeiInv, CloseSession PROVE BeiInv' OBVIOUS
  <1>1. BeiTypeOK /\ CyclesOK /\ LedgerOK BY <1>0 DEF BeiInv
  <1>2. /\ trading /\ trading' = FALSE
        /\ finality' = [finality EXCEPT ![cycle] = [state |-> "due", counted |-> made]]
    BY <1>0 DEF CloseSession
  <1>3. /\ UNCHANGED <<cycle, made, captured, session, blocked, index, prevClose, torn>>
        /\ UNCHANGED <<batch, instr, ledger, run, failures>>
    BY <1>0 DEF CloseSession, market
  <1>4. /\ cycle \in 1..MaxCycles /\ made \subseteq Trades /\ captured \subseteq made
        /\ finality \in [1..MaxCycles -> FinalityRecords]
    BY <1>1 DEF BeiTypeOK
  <1>5. /\ finality' \in [1..MaxCycles -> FinalityRecords]
        /\ finality'[cycle].state = "due" /\ finality'[cycle].counted = made
        /\ \A n \in 1..MaxCycles : n # cycle => finality'[n] = finality[n]
    BY <1>2, <1>4 DEF FinalityRecords
  <1>6. finality[cycle].state = "none" BY <1>1, <1>2 DEF CyclesOK
  <1>7. BeiTypeOK' BY <1>1, <1>2, <1>3, <1>5 DEF BeiTypeOK
  <1>8. CyclesOK' BY <1>1, <1>2, <1>3, <1>4, <1>5, BeiAssumption DEF CyclesOK
  <1>9. LedgerOK' BY <1>1, <1>3 DEF LedgerOK
  <1>10. IsFiniteSet(made) BY <1>1 DEF CyclesOK
  <1>11. \A n \in 1..MaxCycles : finality[n].state # "none" => finality'[n] = finality[n]
    BY <1>5, <1>6
  <1>12. Helps BY <1>3, <1>4, <1>10, <1>11 DEF Helps
  <1>13. \A n \in 1..MaxCycles : finality'[n].state = "done" => finality[n].state = "done"
    BY <1>5
  <1> QED BY <1>0, <1>3, <1>7, <1>8, <1>9, <1>12, <1>13, NobodyMoves

LEMMA ReopenSessionStep == BeiInv /\ ReopenSession => BeiInv'
  <1>0. SUFFICES ASSUME BeiInv, ReopenSession PROVE BeiInv' OBVIOUS
  <1>1. BeiTypeOK /\ CyclesOK /\ LedgerOK BY <1>0 DEF BeiInv
  <1>2. cycle < MaxCycles /\ cycle' = cycle + 1 /\ trading' = TRUE BY <1>0 DEF ReopenSession
  <1>3. /\ UNCHANGED <<made, finality, captured, blocked, index, prevClose, torn>>
        /\ UNCHANGED <<batch, instr, ledger, run>>
    BY <1>0 DEF ReopenSession, market
  <1>4. cycle \in 1..MaxCycles /\ failures \in 0..MaxFailures /\ session \in {"open", "closed"}
    BY <1>1 DEF BeiTypeOK
  <1>5. session' \in {"open", "closed"} /\ failures' \in 0..MaxFailures
    BY <1>0, <1>4, BeiAssumption DEF ReopenSession
  <1>6. cycle' \in 1..MaxCycles BY <1>2, <1>4, BeiAssumption
  <1>7. BeiTypeOK' BY <1>1, <1>2, <1>3, <1>5, <1>6 DEF BeiTypeOK
  <1>8. CyclesOK' BY <1>1, <1>2, <1>3, <1>4, <1>6, BeiAssumption DEF CyclesOK
  <1>9. LedgerOK' BY <1>1, <1>3 DEF LedgerOK
  <1>10. Helps BY <1>0, <1>3, SameHelps
  <1> QED BY <1>0, <1>3, <1>7, <1>8, <1>9, <1>10, NobodyMoves

LEMMA CaptureStep ==
    ASSUME NEW t \in Trades PROVE BeiInv /\ Capture(t) => BeiInv'
  <1>0. SUFFICES ASSUME BeiInv, Capture(t) PROVE BeiInv' OBVIOUS
  <1>1. BeiTypeOK /\ CyclesOK /\ LedgerOK BY <1>0 DEF BeiInv
  <1>2. t \in made /\ captured' = captured \cup {t} BY <1>0 DEF Capture
  <1>3. /\ UNCHANGED <<cycle, trading, made, finality, session, blocked, index, prevClose>>
        /\ UNCHANGED <<torn, batch, instr, ledger, run, failures>>
    BY <1>0 DEF Capture, market, mats
  <1>4. BeiTypeOK' BY <1>1, <1>2, <1>3 DEF BeiTypeOK
  <1>5. CyclesOK' BY <1>1, <1>3 DEF CyclesOK
  <1>6. LedgerOK' BY <1>1, <1>3 DEF LedgerOK
  <1>7. made \subseteq Trades /\ captured \subseteq made /\ IsFiniteSet(made)
    BY <1>1 DEF BeiTypeOK, CyclesOK
  <1>8. Helps BY <1>2, <1>3, <1>7 DEF Helps
  <1> QED BY <1>0, <1>3, <1>4, <1>5, <1>6, <1>8, NobodyMoves
-----------------------------------------------------------------------------
\* The parts of the invariant a request's step begins with.
LEMMA Before ==
    ASSUME BeiInv, NEW h \in Handlers
    PROVE  /\ run \in [Handlers -> RunRecords] /\ RequestOK(h) /\ BeiTypeOK /\ CyclesOK
           /\ session \in {"open", "closed"} /\ blocked \in BOOLEAN /\ batch \in BatchRecords
           /\ failures \in 0..MaxFailures
           /\ finality \in [1..MaxCycles -> FinalityRecords]
           /\ run[h].cycle \in 0..MaxCycles /\ run[h].todo \subseteq Instructions
           /\ Latest(captured) \in Trades \cup {0} /\ captured \subseteq Trades
  <1>1. captured \subseteq Trades /\ IsFiniteSet(captured) BY CapturedFinite DEF BeiInv
  <1>2. run[h].cycle \in 0..MaxCycles /\ run[h].todo \subseteq Instructions
    BY RunFields DEF BeiInv, BeiTypeOK
  <1> QED BY <1>1, <1>2, LatestType DEF BeiInv, BeiTypeOK

LEMMA PostFinalityStep ==
    ASSUME NEW h \in Handlers, NEW n \in 1..MaxCycles
    PROVE  BeiInv /\ PostFinality(h, n) => BeiInv'
  <1>0. SUFFICES ASSUME BeiInv, PostFinality(h, n) PROVE BeiInv' OBVIOUS
  <1>1. /\ run[h].at = "idle" /\ finality[n].state = "due" /\ session' = "closed"
        /\ run' = [run EXCEPT ![h] = Request("barrier", n, {})]
        /\ UNCHANGED <<cycle, trading, made, finality, captured, instr, ledger>>
        /\ UNCHANGED <<index, prevClose, torn, blocked, batch, failures>>
    BY <1>0 DEF PostFinality, At, mats, market
  <1>2. "barrier" \in Stages /\ n \in 0..MaxCycles /\ {} \in SUBSET Instructions
    BY BeiAssumption DEF Stages
  <1>3. /\ run' \in [Handlers -> RunRecords] /\ Others(h)
        /\ run'[h].at = "barrier" /\ run'[h].cycle = n
    BY <1>0, <1>1, <1>2, Before, NewFields
  <1>4. RequestOK(h)' BY <1>1, <1>3 DEF RequestOK, At
  <1> QED BY <1>0, <1>1, <1>3, <1>4, Before, QuietMove

LEMMA BarrierStep ==
    ASSUME NEW h \in Handlers PROVE BeiInv /\ Barrier(h) => BeiInv'
  <1>0. SUFFICES ASSUME BeiInv, Barrier(h) PROVE BeiInv' OBVIOUS
  <1>1. /\ run[h].at = "barrier"
        /\ UNCHANGED <<cycle, trading, made, finality, captured, instr, ledger>>
        /\ UNCHANGED <<index, prevClose, torn, session, batch, failures>>
        /\ \/ blocked' = TRUE /\ run' = [run EXCEPT ![h] = Idle]
           \/ /\ ~(Cardinality(captured) < Expected(h))
              /\ blocked' \in {FALSE, blocked} /\ Goto(h, "summary")
    BY <1>0 DEF Barrier, At, mats, market
  <1>2. blocked' \in BOOLEAN BY <1>0, <1>1, Before
  <1>3. CASE run' = [run EXCEPT ![h] = Idle]
    <2>1. /\ run' \in [Handlers -> RunRecords] /\ Others(h)
          /\ run'[h].at = "idle" /\ run'[h].cycle = 0
      BY <1>0, <1>3, Before, IdleFields
    <2>2. RequestOK(h)' BY <2>1, NoPromise
    <2> QED BY <1>0, <1>1, <1>2, <2>1, <2>2, Before, QuietMove
  <1>4. CASE ~(Cardinality(captured) < Expected(h)) /\ Goto(h, "summary")
    <2>1. "summary" \in Stages BY DEF Stages
    <2>2. /\ run' \in [Handlers -> RunRecords] /\ Others(h)
          /\ run'[h].at = "summary" /\ run'[h].cycle = run[h].cycle
      BY <1>0, <1>4, <2>1, Before, GotoFields
    <2>3. ASSUME run[h].cycle # 0 PROVE Cardinality(captured) >= Expected(h)
      <3>1. PICK n : n = run[h].cycle OBVIOUS
      <3>2. n \in 1..MaxCycles BY <1>0, <2>3, <3>1, Before, BeiAssumption
      <3>3. finality[n].counted \subseteq made /\ captured \subseteq made
        BY <1>0, <3>2 DEF BeiInv, CyclesOK, BeiTypeOK
      <3>4. Cardinality(captured) \in Nat /\ Cardinality(finality[n].counted) \in Nat
        BY <1>0, <3>3, CapturedFinite DEF BeiInv
      <3>5. ~(Cardinality(captured) < Cardinality(finality[n].counted))
        BY <1>4, <3>1 DEF Expected
      <3>6. Cardinality(captured) >= Cardinality(finality[n].counted) BY <3>4, <3>5
      <3> QED BY <3>1, <3>6 DEF Expected
    <2>4. Promised(h)' = captured BY <1>1, <2>2 DEF Promised, Keeps
    <2>5. Expected(h)' = Expected(h) BY <1>1, <2>2 DEF Expected
    <2>6. run[h].cycle # 0 => finality[run[h].cycle].state # "none"
      BY <1>0, Before DEF RequestOK
    <2>7. RequestOK(h)' BY <1>1, <2>2, <2>3, <2>4, <2>5, <2>6 DEF RequestOK, At
    <2> QED BY <1>0, <1>1, <1>2, <2>2, <2>7, Before, QuietMove
  <1> QED BY <1>1, <1>3, <1>4

LEMMA SummariseStep ==
    ASSUME NEW h \in Handlers PROVE BeiInv /\ Summarise(h) => BeiInv'
  <1>0. SUFFICES ASSUME BeiInv, Summarise(h) PROVE BeiInv' OBVIOUS
  <1>1. PICK stage \in {"batch", "index"} :
           /\ run[h].at = "summary"
           /\ run' = [run EXCEPT ![h].at = stage, ![h].close = Latest(captured)]
           /\ UNCHANGED <<cycle, trading, made, finality, captured, instr, ledger>>
           /\ UNCHANGED <<index, prevClose, torn, session, blocked, batch, failures>>
    BY <1>0 DEF Summarise, At, mats, market
  <1>2. stage \in Stages BY DEF Stages
  <1>3. /\ run' \in [Handlers -> RunRecords] /\ Others(h)
        /\ run'[h].at = stage /\ run'[h].cycle = run[h].cycle
    BY <1>0, <1>1, <1>2, Before, CloseFields
  <1>4. \A t \in captured : Keeps(h, t) => Keeps(h, t)' BY <1>3 DEF Keeps
  <1>5. RequestOK(h)' BY <1>0, <1>1, <1>3, <1>4, QuietPromise
  <1> QED BY <1>0, <1>1, <1>3, <1>5, Before, QuietMove

LEMMA MoveIndexStep ==
    ASSUME NEW h \in Handlers PROVE BeiInv /\ MoveIndex(h) => BeiInv'
  <1>0. SUFFICES ASSUME BeiInv, MoveIndex(h) PROVE BeiInv' OBVIOUS
  <1>1. /\ run[h].at = "index" /\ Goto(h, "close")
        /\ index' = index + (Latest(captured) - prevClose)
        /\ torn' = (torn \/ Latest(captured) # run[h].close
                         \/ \E other \in Handlers \ {h} : At(other, "close"))
        /\ UNCHANGED <<cycle, trading, made, finality, captured, instr, ledger>>
        /\ UNCHANGED <<prevClose, session, blocked, batch, failures>>
    BY <1>0 DEF MoveIndex, At, mats
  <1>2. "close" \in Stages BY DEF Stages
  <1>3. /\ run' \in [Handlers -> RunRecords] /\ Others(h)
        /\ run'[h].at = "close" /\ run'[h].cycle = run[h].cycle /\ run'[h].close = run[h].close
    BY <1>0, <1>1, <1>2, Before, GotoFields
  <1>4. /\ Latest(captured) \in Int /\ index \in Int /\ prevClose \in Int
        /\ torn \in BOOLEAN
    BY <1>0, Before, TradeInt DEF BeiInv, BeiTypeOK
  <1>5. index' \in Int /\ torn' \in BOOLEAN BY <1>1, <1>4
  <1>6. BeiTypeOK' BY <1>0, <1>1, <1>3, <1>5 DEF BeiInv, BeiTypeOK
  <1>7. ASSUME ~torn'
        PROVE  /\ \A g \in Handlers : At(g, "close")' => index' = run'[g].close
               /\ \A f, g \in Handlers : At(f, "close")' /\ At(g, "close")' => f = g
               /\ ~(\A g \in Handlers : ~At(g, "close")')
    <2>1. ~torn /\ Latest(captured) = run[h].close BY <1>1, <1>7
    <2>2. \A g \in Handlers \ {h} : ~At(g, "close") BY <1>1, <1>7
    <2>3. \A g \in Handlers \ {h} : ~At(g, "close")' BY <1>3, <2>2 DEF At, Others
    <2>4. \A g \in Handlers : ~At(g, "close") BY <1>1, <2>2 DEF At
    <2>5. index = prevClose BY <1>0, <2>1, <2>4 DEF BeiInv, IndexOK
    <2>6. index' = run[h].close BY <1>1, <1>4, <2>1, <2>5
    <2> QED BY <1>3, <2>3, <2>6 DEF At
  <1>8. IndexOK' BY <1>7 DEF IndexOK
  <1>9. \A t \in captured : Keeps(h, t) => Keeps(h, t)' BY <1>3 DEF Keeps
  <1>10. RequestOK(h)' BY <1>0, <1>1, <1>3, <1>9, QuietPromise
  <1> QED BY <1>0, <1>1, <1>3, <1>6, <1>8, <1>10, QuietStep

LEMMA MoveCloseStep ==
    ASSUME NEW h \in Handlers PROVE BeiInv /\ MoveClose(h) => BeiInv'
  <1>0. SUFFICES ASSUME BeiInv, MoveClose(h) PROVE BeiInv' OBVIOUS
  <1>1. /\ run[h].at = "close" /\ Goto(h, "batch") /\ prevClose' = run[h].close
        /\ torn' = (torn \/ prevClose > run[h].close)
        /\ UNCHANGED <<cycle, trading, made, finality, captured, instr, ledger>>
        /\ UNCHANGED <<index, session, blocked, batch, failures>>
    BY <1>0 DEF MoveClose, At, mats
  <1>2. "batch" \in Stages BY DEF Stages
  <1>3. /\ run' \in [Handlers -> RunRecords] /\ Others(h)
        /\ run'[h].at = "batch" /\ run'[h].cycle = run[h].cycle
    BY <1>0, <1>1, <1>2, Before, GotoFields
  <1>4. run[h].close \in Trades \cup {0} BY <1>0, Before, RunFields
  <1>5. torn' \in BOOLEAN BY <1>0, <1>1 DEF BeiInv, BeiTypeOK
  <1>6. BeiTypeOK' BY <1>0, <1>1, <1>3, <1>4, <1>5 DEF BeiInv, BeiTypeOK
  <1>7. ASSUME ~torn'
        PROVE  (\A g \in Handlers : ~At(g, "close")') /\ index' = prevClose'
    <2>1. ~torn BY <1>1, <1>7
    <2>2. index = run[h].close BY <1>0, <1>1, <2>1 DEF BeiInv, IndexOK, At
    <2>3. \A g \in Handlers \ {h} : ~At(g, "close")
      BY <1>0, <1>1, <2>1 DEF BeiInv, IndexOK, At
    <2>4. \A g \in Handlers : ~At(g, "close")' BY <1>3, <2>3 DEF At, Others
    <2> QED BY <1>1, <2>2, <2>4
  <1>8. IndexOK' BY <1>7 DEF IndexOK
  <1>9. \A t \in captured : Keeps(h, t) => Keeps(h, t)' BY <1>3 DEF Keeps
  <1>10. RequestOK(h)' BY <1>0, <1>1, <1>3, <1>9, QuietPromise
  <1> QED BY <1>0, <1>1, <1>3, <1>6, <1>8, <1>10, QuietStep

\* Where a broken request leaves the prices.
LEMMA TornIndex ==
    ASSUME BeiInv, NEW h \in Handlers, Others(h), run'[h].at # "close",
           torn' = (torn \/ At(h, "close")), UNCHANGED <<index, prevClose>>
    PROVE  IndexOK' /\ torn' \in BOOLEAN
  <1>1. torn' \in BOOLEAN BY DEF BeiInv, BeiTypeOK
  <1>2. CASE torn' BY <1>2 DEF IndexOK
  <1>3. CASE ~torn'
    <2>1. torn' = torn /\ run[h].at # "close" BY <1>3 DEF BeiInv, BeiTypeOK, At
    <2> QED BY <1>1, <2>1, IndexKept DEF BeiInv
  <1> QED BY <1>1, <1>2, <1>3

LEMMA AggregationFailsStep ==
    ASSUME NEW h \in Handlers PROVE BeiInv /\ AggregationFails(h) => BeiInv'
  <1>0. SUFFICES ASSUME BeiInv, AggregationFails(h) PROVE BeiInv' OBVIOUS
  <1>1. /\ run[h].at \in {"summary", "index", "close"} /\ failures < MaxFailures
        /\ torn' = (torn \/ At(h, "close"))
        /\ failures' = failures + 1 /\ Goto(h, "batch")
        /\ UNCHANGED <<cycle, trading, made, finality, captured, instr, ledger>>
        /\ UNCHANGED <<index, prevClose, session, blocked, batch>>
    BY <1>0 DEF AggregationFails, mats
  <1>2. "batch" \in Stages BY DEF Stages
  <1>3. /\ run' \in [Handlers -> RunRecords] /\ Others(h)
        /\ run'[h].at = "batch" /\ run'[h].cycle = run[h].cycle
    BY <1>0, <1>1, <1>2, Before, GotoFields
  <1>4. IndexOK' /\ torn' \in BOOLEAN BY <1>0, <1>1, <1>3, TornIndex
  <1>5. failures' \in 0..MaxFailures BY <1>0, <1>1, Before, BeiAssumption
  <1>6. BeiTypeOK' BY <1>0, <1>1, <1>3, <1>4, <1>5 DEF BeiInv, BeiTypeOK
  <1>7. \A t \in captured : Keeps(h, t) => Keeps(h, t)' BY <1>1, <1>3 DEF Keeps
  <1>8. RequestOK(h)' BY <1>0, <1>1, <1>3, <1>7, QuietPromise
  <1> QED BY <1>0, <1>1, <1>3, <1>4, <1>6, <1>8, QuietStep

LEMMA FailsStep ==
    ASSUME NEW h \in Handlers PROVE BeiInv /\ Fails(h) => BeiInv'
  <1>0. SUFFICES ASSUME BeiInv, Fails(h) PROVE BeiInv' OBVIOUS
  <1>1. /\ failures < MaxFailures
        /\ torn' = (torn \/ At(h, "close"))
        /\ failures' = failures + 1 /\ run' = [run EXCEPT ![h] = Idle]
        /\ UNCHANGED <<cycle, trading, made, finality, captured, instr, ledger>>
        /\ UNCHANGED <<index, prevClose, session, blocked, batch>>
    BY <1>0 DEF Fails, mats
  <1>2. /\ run' \in [Handlers -> RunRecords] /\ Others(h)
        /\ run'[h].at = "idle" /\ run'[h].cycle = 0
    BY <1>0, <1>1, Before, IdleFields
  <1>3. IndexOK' /\ torn' \in BOOLEAN BY <1>0, <1>1, <1>2, TornIndex
  <1>4. failures' \in 0..MaxFailures BY <1>0, <1>1, Before, BeiAssumption
  <1>5. BeiTypeOK' BY <1>0, <1>1, <1>2, <1>3, <1>4 DEF BeiInv, BeiTypeOK
  <1>6. RequestOK(h)' BY <1>2, NoPromise
  <1> QED BY <1>0, <1>1, <1>2, <1>3, <1>5, <1>6, QuietStep
-----------------------------------------------------------------------------
LEMMA CreateBatchStep ==
    ASSUME NEW h \in Handlers PROVE BeiInv /\ CreateBatch(h) => BeiInv'
  <1>0. SUFFICES ASSUME BeiInv, CreateBatch(h) PROVE BeiInv' OBVIOUS
  <1>1. /\ run[h].at = "batch"
        /\ batch' = IF batch.status = "none" THEN [batch EXCEPT !.status = "pending"] ELSE batch
        /\ run' = [run EXCEPT ![h].at = "instruct", ![h].traded = captured]
        /\ UNCHANGED <<cycle, trading, made, finality, captured, instr, ledger>>
        /\ UNCHANGED <<index, prevClose, torn, session, blocked, failures>>
    BY <1>0 DEF CreateBatch, At, mats, market
  <1>2. "instruct" \in Stages BY DEF Stages
  <1>3. /\ run' \in [Handlers -> RunRecords] /\ Others(h)
        /\ run'[h].at = "instruct" /\ run'[h].cycle = run[h].cycle /\ run'[h].traded = captured
    BY <1>0, <1>1, <1>2, Before, TradedFields
  <1>4. batch' \in BatchRecords BY <1>0, <1>1, Before DEF BatchRecords
  <1>5. \A t \in captured : Keeps(h, t) => Keeps(h, t)' BY <1>3 DEF Keeps
  <1>6. RequestOK(h)' BY <1>0, <1>1, <1>3, <1>5, QuietPromise
  <1> QED BY <1>0, <1>1, <1>3, <1>4, <1>6, Before, QuietMove

LEMMA InstructStep ==
    ASSUME NEW h \in Handlers PROVE BeiInv /\ Instruct(h) => BeiInv'
  <1>0. SUFFICES ASSUME BeiInv, Instruct(h) PROVE BeiInv' OBVIOUS
  <1>1. PICK t \in run[h].traded :
           /\ run[h].at = "instruct"
           /\ instr' = [i \in Instructions |->
                          IF i[1] = t /\ instr[i] = "none" THEN "ready" ELSE instr[i]]
           /\ run' = [run EXCEPT ![h].traded = @ \ {t}]
           /\ UNCHANGED <<cycle, trading, made, finality, captured, ledger>>
           /\ UNCHANGED <<index, prevClose, torn, session, blocked, batch, failures>>
    BY <1>0 DEF Instruct, At, mats, market
  <1>2. /\ run' \in [Handlers -> RunRecords] /\ Others(h)
        /\ run'[h].at = "instruct" /\ run'[h].cycle = run[h].cycle
        /\ run'[h].traded = run[h].traded \ {t}
    BY <1>0, <1>1, Before, LessFields
  <1>3. instr \in [Instructions -> {"none", "ready", "settled"}]
    BY <1>0 DEF BeiInv, BeiTypeOK
  <1>4. /\ instr' \in [Instructions -> {"none", "ready", "settled"}]
        /\ \A i \in Instructions : /\ instr[i] # "none" => instr'[i] = instr[i]
                                   /\ instr'[i] = "settled" => instr[i] = "settled"
                                   /\ i[1] = t => instr'[i] # "none"
    BY <1>1, <1>3
  <1>5. IsFiniteSet(made) /\ made \subseteq Trades /\ captured \subseteq made
    BY <1>0 DEF BeiInv, CyclesOK, BeiTypeOK
  <1>6. Helps BY <1>1, <1>4, <1>5 DEF Helps
  <1>7. BeiTypeOK' BY <1>0, <1>1, <1>2, <1>4 DEF BeiInv, BeiTypeOK
  <1>8. CyclesOK' BY <1>0, <1>1 DEF BeiInv, CyclesOK
  <1>9. LedgerOK' BY <1>0, <1>1, <1>4 DEF BeiInv, LedgerOK
  <1>10. IndexOK' BY <1>0, <1>1, <1>2, IndexKept DEF BeiInv
  <1>11. ASSUME NEW s \in captured, Keeps(h, s) PROVE Keeps(h, s)'
    <2>1. s \in Trades BY <1>5
    <2>2. \A i \in {s} \X Types : i \in Instructions /\ i[1] = s BY <2>1, InstructionsOf
    <2>3. s \in run[h].traded \/ \A i \in {s} \X Types : instr[i] # "none"
      BY <1>1, <1>11 DEF Keeps
    <2>4. s = t \/ s \in run'[h].traded \/ \A i \in {s} \X Types : instr[i] # "none"
      BY <1>2, <2>3
    <2>5. s \in run'[h].traded \/ \A i \in {s} \X Types : instr'[i] # "none"
      BY <1>4, <2>2, <2>4
    <2> QED BY <1>2, <2>5 DEF Keeps
  <1>12. RequestOK(h)' BY <1>0, <1>1, <1>2, <1>6, <1>11, Before, OwnPromise DEF At
  <1> QED BY <1>0, <1>1, <1>2, <1>6, <1>7, <1>8, <1>9, <1>10, <1>12, HelpfulStep

LEMMA SelectInstructionsStep ==
    ASSUME NEW h \in Handlers PROVE BeiInv /\ SelectInstructions(h) => BeiInv'
  <1>0. SUFFICES ASSUME BeiInv, SelectInstructions(h) PROVE BeiInv' OBVIOUS
  <1>1. PICK todo \in SUBSET Instructions :
           /\ todo = {i \in Instructions : instr[i] = "ready"}
           /\ run[h].at = "instruct" /\ run[h].traded = {} /\ Work(h, "book", todo)
           /\ UNCHANGED <<cycle, trading, made, finality, captured, instr, ledger>>
           /\ UNCHANGED <<index, prevClose, torn, session, blocked, batch, failures>>
    BY <1>0 DEF SelectInstructions, At, mats, market
  <1>2. "book" \in Stages BY DEF Stages
  <1>3. /\ run' \in [Handlers -> RunRecords] /\ Others(h)
        /\ run'[h].at = "book" /\ run'[h].cycle = run[h].cycle /\ run'[h].todo = todo
    BY <1>0, <1>1, <1>2, Before, WorkFields
  <1>4. ASSUME NEW t \in captured, Keeps(h, t) PROVE Keeps(h, t)'
    <2>1. t \in Trades BY <1>0, Before
    <2>2. \A i \in {t} \X Types : instr[i] # "none" BY <1>1, <1>4 DEF Keeps
    <2>3. \A i \in {t} \X Types : i \in Instructions /\ instr[i] \in {"none", "ready", "settled"}
      BY <1>0, <2>1, InstructionsOf DEF BeiInv, BeiTypeOK
    <2>4. \A i \in {t} \X Types : i \in todo \/ instr[i] = "settled" BY <1>1, <2>2, <2>3
    <2> QED BY <1>1, <1>3, <2>4 DEF Keeps
  <1>5. RequestOK(h)' BY <1>0, <1>1, <1>3, <1>4, QuietPromise
  <1> QED BY <1>0, <1>1, <1>3, <1>5, Before, QuietMove

LEMMA RetryNotificationStep ==
    ASSUME NEW h \in Handlers PROVE BeiInv /\ RetryNotification(h) => BeiInv'
  <1>0. SUFFICES ASSUME BeiInv, RetryNotification(h) PROVE BeiInv' OBVIOUS
  <1>1. PICK todo \in SUBSET Instructions :
           /\ run[h].at = "idle" /\ run' = [run EXCEPT ![h] = Request("book", 0, todo)]
           /\ UNCHANGED <<cycle, trading, made, finality, captured, instr, ledger>>
           /\ UNCHANGED <<index, prevClose, torn, session, blocked, batch, failures>>
    BY <1>0 DEF RetryNotification, At, mats, market
  <1>2. "book" \in Stages /\ 0 \in 0..MaxCycles BY BeiAssumption DEF Stages
  <1>3. /\ run' \in [Handlers -> RunRecords] /\ Others(h)
        /\ run'[h].at = "book" /\ run'[h].cycle = 0
    BY <1>0, <1>1, <1>2, Before, NewFields
  <1>4. RequestOK(h)' BY <1>3, NoPromise
  <1> QED BY <1>0, <1>1, <1>3, <1>4, Before, QuietMove

LEMMA BookLedgerStep ==
    ASSUME NEW h \in Handlers PROVE BeiInv /\ BookLedger(h) => BeiInv'
  <1>0. SUFFICES ASSUME BeiInv, BookLedger(h) PROVE BeiInv' OBVIOUS
  <1>1. PICK i \in Least(run[h].todo) :
           /\ run[h].at = "book" /\ ledger' = ledger \cup {i} /\ Goto(h, "mark")
           /\ UNCHANGED <<cycle, trading, made, finality, captured, instr>>
           /\ UNCHANGED <<index, prevClose, torn, session, blocked, batch, failures>>
    BY <1>0 DEF BookLedger, At, mats, market
  <1>2. "mark" \in Stages BY DEF Stages
  <1>3. /\ run' \in [Handlers -> RunRecords] /\ Others(h)
        /\ run'[h].at = "mark" /\ run'[h].cycle = run[h].cycle /\ run'[h].todo = run[h].todo
    BY <1>0, <1>1, <1>2, Before, GotoFields
  <1>4. IsFiniteSet(made) /\ made \subseteq Trades /\ captured \subseteq made
    BY <1>0 DEF BeiInv, CyclesOK, BeiTypeOK
  <1>5. Helps BY <1>1, <1>4 DEF Helps
  <1>6. ledger' \subseteq Instructions
    <2>1. i \in Instructions BY <1>0, Before DEF Least
    <2> QED BY <1>0, <1>1, <2>1 DEF BeiInv, BeiTypeOK
  <1>7. BeiTypeOK' BY <1>0, <1>1, <1>3, <1>6 DEF BeiInv, BeiTypeOK
  <1>8. CyclesOK' BY <1>0, <1>1 DEF BeiInv, CyclesOK
  <1>9. LedgerOK' BY <1>0, <1>1 DEF BeiInv, LedgerOK
  <1>10. IndexOK' BY <1>0, <1>1, <1>3, IndexKept DEF BeiInv
  <1>11. \A t \in captured : Keeps(h, t) => Keeps(h, t)' BY <1>1, <1>3 DEF Keeps
  <1>12. \E k \in Least(run'[h].todo) : k \in ledger' BY <1>1, <1>3
  <1>13. RequestOK(h)' BY <1>0, <1>1, <1>3, <1>5, <1>11, <1>12, Before, OwnPromise
  <1> QED BY <1>0, <1>1, <1>3, <1>5, <1>7, <1>8, <1>9, <1>10, <1>13, HelpfulStep

LEMMA MarkSettledStep ==
    ASSUME NEW h \in Handlers PROVE BeiInv /\ MarkSettled(h) => BeiInv'
  <1>0. SUFFICES ASSUME BeiInv, MarkSettled(h) PROVE BeiInv' OBVIOUS
  <1>1. PICK i \in Least(run[h].todo) :
           /\ run[h].at = "mark" /\ instr' = [instr EXCEPT ![i] = "settled"]
           /\ Work(h, "book", run[h].todo \ {i})
           /\ UNCHANGED <<cycle, trading, made, finality, captured, ledger>>
           /\ UNCHANGED <<index, prevClose, torn, session, blocked, batch, failures>>
    BY <1>0 DEF MarkSettled, At, mats, market
  <1>2. run[h].todo \subseteq Instructions /\ i \in run[h].todo BY <1>0, Before DEF Least
  <1>3. "book" \in Stages /\ run[h].todo \ {i} \in SUBSET Instructions BY <1>2 DEF Stages
  <1>4. /\ run' \in [Handlers -> RunRecords] /\ Others(h) /\ run'[h].at = "book"
        /\ run'[h].cycle = run[h].cycle /\ run'[h].todo = run[h].todo \ {i}
    BY <1>0, <1>1, <1>3, Before, WorkFields
  <1>5. instr \in [Instructions -> {"none", "ready", "settled"}] /\ i \in Instructions
    BY <1>0, <1>2 DEF BeiInv, BeiTypeOK
  <1>6. /\ instr' \in [Instructions -> {"none", "ready", "settled"}]
        /\ instr'[i] = "settled"
        /\ \A k \in Instructions : k # i => instr'[k] = instr[k]
    BY <1>1, <1>5
  <1>7. IsFiniteSet(made) /\ made \subseteq Trades /\ captured \subseteq made
    BY <1>0 DEF BeiInv, CyclesOK, BeiTypeOK
  <1>8. \A k \in Instructions : /\ instr[k] # "none" => instr'[k] # "none"
                                /\ instr[k] = "settled" => instr'[k] = "settled"
    BY <1>6
  <1>9. Helps BY <1>1, <1>7, <1>8 DEF Helps
  <1>10. BeiTypeOK' BY <1>0, <1>1, <1>4, <1>6 DEF BeiInv, BeiTypeOK
  <1>11. CyclesOK' BY <1>0, <1>1 DEF BeiInv, CyclesOK
  <1>12. i \in ledger
    <2>1. PICK k \in Least(run[h].todo) : k \in ledger BY <1>0, <1>1, Before DEF RequestOK, At
    <2> QED BY <1>2, <2>1, LeastOne
  <1>13. LedgerOK' BY <1>0, <1>1, <1>6, <1>12 DEF BeiInv, LedgerOK
  <1>14. IndexOK' BY <1>0, <1>1, <1>4, IndexKept DEF BeiInv
  <1>15. ASSUME NEW t \in captured, Keeps(h, t) PROVE Keeps(h, t)'
    <2>1. t \in Trades BY <1>7
    <2>2. \A k \in {t} \X Types : k \in run[h].todo \/ instr[k] = "settled"
      BY <1>1, <1>15 DEF Keeps
    <2>3. \A k \in {t} \X Types : k \in run[h].todo \ {i} \/ instr'[k] = "settled"
      BY <1>6, <2>1, <2>2, InstructionsOf
    <2> QED BY <1>4, <2>3 DEF Keeps
  <1>16. RequestOK(h)' BY <1>0, <1>1, <1>4, <1>9, <1>15, Before, OwnPromise DEF At
  <1> QED BY <1>0, <1>1, <1>4, <1>9, <1>10, <1>11, <1>13, <1>14, <1>16, HelpfulStep
-----------------------------------------------------------------------------
LEMMA SettleBatchStep ==
    ASSUME NEW h \in Handlers PROVE BeiInv /\ SettleBatch(h) => BeiInv'
  <1>0. SUFFICES ASSUME BeiInv, SettleBatch(h) PROVE BeiInv' OBVIOUS
  <1>1. /\ run[h].at = "book" /\ run[h].todo = {} /\ Goto(h, "notify")
        /\ batch' = [batch EXCEPT !.status = "settled"]
        /\ UNCHANGED <<cycle, trading, made, finality, captured, instr, ledger>>
        /\ UNCHANGED <<index, prevClose, torn, session, blocked, failures>>
    BY <1>0 DEF SettleBatch, At, mats, market
  <1>2. "notify" \in Stages BY DEF Stages
  <1>3. /\ run' \in [Handlers -> RunRecords] /\ Others(h)
        /\ run'[h].at = "notify" /\ run'[h].cycle = run[h].cycle
    BY <1>0, <1>1, <1>2, Before, GotoFields
  <1>4. batch' \in BatchRecords BY <1>0, <1>1, Before DEF BatchRecords
  <1>5. \A t \in captured : Keeps(h, t) => Keeps(h, t)' BY <1>1, <1>3 DEF Keeps
  <1>6. RequestOK(h)' BY <1>0, <1>1, <1>3, <1>5, QuietPromise
  <1> QED BY <1>0, <1>1, <1>3, <1>4, <1>6, Before, QuietMove

LEMMA NothingToNotifyStep ==
    ASSUME NEW h \in Handlers PROVE BeiInv /\ NothingToNotify(h) => BeiInv'
  <1>0. SUFFICES ASSUME BeiInv, NothingToNotify(h) PROVE BeiInv' OBVIOUS
  <1>1. /\ run[h].at = "notify" /\ Goto(h, "end")
        /\ batch' = [batch EXCEPT !.note = "sent"]
        /\ UNCHANGED <<cycle, trading, made, finality, captured, instr, ledger>>
        /\ UNCHANGED <<index, prevClose, torn, session, blocked, failures>>
    BY <1>0 DEF NothingToNotify, At, mats, market
  <1>2. "end" \in Stages BY DEF Stages
  <1>3. /\ run' \in [Handlers -> RunRecords] /\ Others(h)
        /\ run'[h].at = "end" /\ run'[h].cycle = run[h].cycle
    BY <1>0, <1>1, <1>2, Before, GotoFields
  <1>4. batch' \in BatchRecords BY <1>0, <1>1, Before DEF BatchRecords
  <1>5. \A t \in captured : Keeps(h, t) => Keeps(h, t)' BY <1>1, <1>3 DEF Keeps
  <1>6. RequestOK(h)' BY <1>0, <1>1, <1>3, <1>5, QuietPromise
  <1> QED BY <1>0, <1>1, <1>3, <1>4, <1>6, Before, QuietMove

LEMMA NotifyStep ==
    ASSUME NEW h \in Handlers PROVE BeiInv /\ Notify(h) => BeiInv'
  <1>0. SUFFICES ASSUME BeiInv, Notify(h) PROVE BeiInv' OBVIOUS
  <1>1. /\ run[h].at = "notify" /\ Goto(h, "wait")
        /\ UNCHANGED <<cycle, trading, made, finality, captured, instr, ledger>>
        /\ UNCHANGED <<index, prevClose, torn, session, blocked, batch, failures>>
    BY <1>0 DEF Notify, At, mats, market
  <1>2. "wait" \in Stages BY DEF Stages
  <1>3. /\ run' \in [Handlers -> RunRecords] /\ Others(h)
        /\ run'[h].at = "wait" /\ run'[h].cycle = run[h].cycle
    BY <1>0, <1>1, <1>2, Before, GotoFields
  <1>4. \A t \in captured : Keeps(h, t) => Keeps(h, t)' BY <1>1, <1>3 DEF Keeps
  <1>5. RequestOK(h)' BY <1>0, <1>1, <1>3, <1>4, QuietPromise
  <1> QED BY <1>0, <1>1, <1>3, <1>5, Before, QuietMove

LEMMA NotifiedStep ==
    ASSUME NEW h \in Handlers, NEW answer \in {"ok", "deferred", "error"}
    PROVE  BeiInv /\ Notified(h, answer) => BeiInv'
  <1>0. SUFFICES ASSUME BeiInv, Notified(h, answer) PROVE BeiInv' OBVIOUS
  <1>1. /\ run[h].at = "wait" /\ batch' = [batch EXCEPT !.note = Note(answer)]
        /\ \/ run' = [run EXCEPT ![h] = Idle]
           \/ Goto(h, "end")
        /\ UNCHANGED <<cycle, trading, made, finality, captured, instr, ledger>>
        /\ UNCHANGED <<index, prevClose, torn, session, blocked, failures>>
    BY <1>0 DEF Notified, At, mats, market
  <1>2. "end" \in Stages BY DEF Stages
  <1>3. Note(answer) \in {"pending", "sent", "deferred", "failed"} BY DEF Note
  <1>4. batch' \in BatchRecords BY <1>0, <1>1, <1>3, Before DEF BatchRecords
  <1>5. CASE run' = [run EXCEPT ![h] = Idle]
    <2>1. /\ run' \in [Handlers -> RunRecords] /\ Others(h)
          /\ run'[h].at = "idle" /\ run'[h].cycle = 0
      BY <1>0, <1>5, Before, IdleFields
    <2>2. RequestOK(h)' BY <2>1, NoPromise
    <2> QED BY <1>0, <1>1, <1>4, <2>1, <2>2, Before, QuietMove
  <1>6. CASE Goto(h, "end")
    <2>1. /\ run' \in [Handlers -> RunRecords] /\ Others(h)
          /\ run'[h].at = "end" /\ run'[h].cycle = run[h].cycle
      BY <1>0, <1>2, <1>6, Before, GotoFields
    <2>2. \A t \in captured : Keeps(h, t) => Keeps(h, t)' BY <1>1, <2>1 DEF Keeps
    <2>3. RequestOK(h)' BY <1>0, <1>1, <2>1, <2>2, QuietPromise
    <2> QED BY <1>0, <1>1, <1>4, <2>1, <2>3, Before, QuietMove
  <1> QED BY <1>1, <1>5, <1>6

\* The answer is given when the promised trades are settled.
LEMMA FinishStep ==
    ASSUME NEW h \in Handlers PROVE BeiInv /\ Finish(h) => BeiInv'
  <1>0. SUFFICES ASSUME BeiInv, Finish(h) PROVE BeiInv' OBVIOUS
  <1>1. /\ run[h].at = "end" /\ run' = [run EXCEPT ![h] = Idle]
        /\ UNCHANGED <<cycle, trading, made, captured, instr, ledger>>
        /\ UNCHANGED <<index, prevClose, torn, session, blocked, batch>>
        /\ \/ UNCHANGED <<finality, failures>>
           \/ /\ run[h].cycle # 0 /\ UNCHANGED failures
              /\ finality' = [finality EXCEPT ![run[h].cycle].state = "done"]
           \/ failures < MaxFailures /\ failures' = failures + 1 /\ UNCHANGED finality
    BY <1>0 DEF Finish, At, market
  <1>2. /\ run' \in [Handlers -> RunRecords] /\ Others(h)
        /\ run'[h].at = "idle" /\ run'[h].cycle = 0
    BY <1>0, <1>1, Before, IdleFields
  <1>3. RequestOK(h)' BY <1>2, NoPromise
  <1>4. CASE UNCHANGED finality
    <2>1. failures' \in 0..MaxFailures BY <1>0, <1>1, Before, BeiAssumption
    <2> QED BY <1>0, <1>1, <1>2, <1>3, <1>4, <2>1, Before, QuietMove
  <1>5. CASE /\ run[h].cycle # 0 /\ UNCHANGED failures
             /\ finality' = [finality EXCEPT ![run[h].cycle].state = "done"]
    <2>1. PICK n : n = run[h].cycle OBVIOUS
    <2>2. n \in 1..MaxCycles BY <1>0, <1>5, <2>1, Before, BeiAssumption
    <2>3. finality[n].state # "none" BY <1>0, <1>5, <2>1, Before DEF RequestOK
    <2>4. finality' = [finality EXCEPT ![n].state = "done"] BY <1>5, <2>1
    <2>5. /\ finality' \in [1..MaxCycles -> FinalityRecords]
          /\ finality'[n].state = "done" /\ finality'[n].counted = finality[n].counted
          /\ \A m \in 1..MaxCycles : m # n => finality'[m] = finality[m]
      BY <1>0, <2>2, <2>4, Before DEF FinalityRecords
    <2>6. IsFiniteSet(made) /\ made \subseteq Trades /\ captured \subseteq made
      BY <1>0 DEF BeiInv, CyclesOK, BeiTypeOK
    <2>7. Helps BY <1>1, <2>5, <2>6 DEF Helps
    <2>8. BeiTypeOK' BY <1>0, <1>1, <1>2, <1>5, <2>5 DEF BeiInv, BeiTypeOK
    <2>9. cycle \in 1..MaxCycles BY <1>0 DEF BeiInv, BeiTypeOK
    <2>10. CyclesOK' BY <1>0, <1>1, <2>3, <2>5, <2>9 DEF BeiInv, CyclesOK
    <2>11. LedgerOK' BY <1>0, <1>1 DEF BeiInv, LedgerOK
    <2>12. IndexOK' BY <1>0, <1>1, <1>2, IndexKept DEF BeiInv
    <2>13. Cardinality({t \in made : Settled(t)}) >= Cardinality(finality[n].counted)
      <3>1. PICK P : P = Promised(h) OBVIOUS
      <3>2. PICK Q : Q = {t \in made : Settled(t)} OBVIOUS
      <3>3. Cardinality(P) >= Cardinality(finality[n].counted)
        BY <1>0, <1>1, <1>5, <2>1, <3>1, Before DEF RequestOK, Expected
      <3>4. ASSUME NEW t \in captured, Keeps(h, t) PROVE t \in made /\ Settled(t)
        <4>1. t \in made /\ t \in Trades BY <2>6
        <4>2. \A i \in {t} \X Types : instr[i] = "settled" BY <1>1, <3>4 DEF Keeps
        <4>3. \A i \in {t} \X Types : i \in ledger
          BY <1>0, <4>1, <4>2, InstructionsOf DEF BeiInv, LedgerOK
        <4> QED BY <4>1, <4>2, <4>3 DEF Settled
      <3>5. P \subseteq Q /\ Q \subseteq made BY <3>1, <3>2, <3>4 DEF Promised
      <3>6. finality[n].counted \subseteq made BY <1>0, <2>2 DEF BeiInv, CyclesOK
      <3>7. /\ IsFiniteSet(P) /\ IsFiniteSet(Q) /\ Cardinality(P) \in Nat
            /\ Cardinality(Q) \in Nat /\ Cardinality(finality[n].counted) \in Nat
        BY <2>6, <3>5, <3>6, FS_Subset, FS_CardinalityType
      <3>8. Cardinality(P) <= Cardinality(Q) BY <3>5, <3>7, FS_Subset
      <3>9. Cardinality(Q) >= Cardinality(finality[n].counted) BY <3>3, <3>7, <3>8
      <3> QED BY <3>2, <3>9
    <2>14. \A m \in 1..MaxCycles : finality'[m].state = "done" =>
             \/ finality[m].state = "done"
             \/ /\ finality[m].state # "none"
                /\ Cardinality({t \in made : Settled(t)}) >= Cardinality(finality[m].counted)
      BY <2>3, <2>5, <2>13
    <2> QED BY <1>0, <1>2, <1>3, <2>7, <2>8, <2>10, <2>11, <2>12, <2>14, HelpfulStep
  <1> QED BY <1>1, <1>4, <1>5

\* A step of which only a failure can be seen here, or nothing at all.
LEMMA Elsewhere ==
    ASSUME BeiInv, failures' \in 0..MaxFailures,
           UNCHANGED <<cycle, trading, made, finality, captured, session, blocked, index,
                       prevClose, batch, instr, ledger, run, torn>>
    PROVE  BeiInv'
  <1>1. /\ UNCHANGED <<cycle, trading, made, finality, captured, session, blocked, index>>
        /\ UNCHANGED <<prevClose, batch, instr, ledger, run, torn>>
    OBVIOUS
  <1>2. BeiTypeOK' BY <1>1 DEF BeiInv, BeiTypeOK
  <1>3. CyclesOK' BY <1>1 DEF BeiInv, CyclesOK
  <1>4. LedgerOK' BY <1>1 DEF BeiInv, LedgerOK
  <1>5. Helps BY <1>1, SameHelps
  <1>6. \A n \in 1..MaxCycles : finality'[n].state = "done" => finality[n].state = "done"
    BY <1>1
  <1> QED BY <1>1, <1>2, <1>3, <1>4, <1>5, <1>6, NobodyMoves
-----------------------------------------------------------------------------
\* The exchange starts empty.
LEMMA BeiInitOK == BeiInit => BeiInv
  <1>0. SUFFICES ASSUME BeiInit PROVE BeiInv OBVIOUS
  <1>1. /\ cycle = 1 /\ trading = TRUE /\ made = {} /\ captured = {}
        /\ finality = [n \in 1..MaxCycles |-> [state |-> "none", counted |-> {}]]
        /\ session = "open" /\ blocked = FALSE /\ index = 0 /\ prevClose = 0 /\ torn = FALSE
        /\ batch = [status |-> "none", note |-> "pending"]
        /\ instr = [i \in Instructions |-> "none"] /\ ledger = {}
        /\ run = [h \in Handlers |-> Idle] /\ failures = 0
    BY <1>0 DEF BeiInit
  <1>2. Idle \in RunRecords /\ Idle.at = "idle" /\ Idle.cycle = 0
    BY BeiAssumption DEF Idle, Request, RunRecords, Stages
  <1>3. 1 \in 1..MaxCycles BY BeiAssumption
  <1>4. finality \in [1..MaxCycles -> FinalityRecords]
    BY <1>1 DEF FinalityRecords
  <1>5. \A n \in 1..MaxCycles : finality[n].state = "none" /\ finality[n].counted = {}
    BY <1>1
  <1>6. run \in [Handlers -> RunRecords] /\ \A h \in Handlers : run[h] = Idle BY <1>1, <1>2
  <1>7. batch \in BatchRecords BY <1>1 DEF BatchRecords
  <1>8. BeiTypeOK
    <2>1. cycle \in 1..MaxCycles /\ index \in Int /\ failures \in 0..MaxFailures
      BY <1>1, <1>3, BeiAssumption
    <2>2. instr \in [Instructions -> {"none", "ready", "settled"}] BY <1>1
    <2> QED BY <1>1, <1>4, <1>6, <1>7, <2>1, <2>2 DEF BeiTypeOK
  <1>9. CyclesOK BY <1>1, <1>3, <1>5, FS_EmptySet DEF CyclesOK
  <1>10. LedgerOK BY <1>1 DEF LedgerOK
  <1>11. IndexOK BY <1>1, <1>2, <1>6 DEF IndexOK, At
  <1>12. FinalityMeansSettled BY <1>5 DEF FinalityMeansSettled
  <1>13. \A h \in Handlers : RequestOK(h) BY <1>2, <1>6 DEF RequestOK, At
  <1> QED BY <1>8, <1>9, <1>10, <1>11, <1>12, <1>13 DEF BeiInv

LEMMA AloneStep == BeiInv /\ Alone => BeiInv'
  <1>0. SUFFICES ASSUME BeiInv, Alone PROVE BeiInv' OBVIOUS
  <1>1. CASE \E t \in Trades : MakeTrade(t) \/ Capture(t)
    BY <1>0, <1>1, MakeTradeStep, CaptureStep
  <1>2. CASE CloseSession \/ ReopenSession
    BY <1>0, <1>2, CloseSessionStep, ReopenSessionStep
  <1>3. ASSUME NEW h \in Handlers,
               \/ \E n \in 1..MaxCycles : PostFinality(h, n)
               \/ Aggregates(h) \/ AggregationFails(h)
               \/ Settles(h) \/ RetryNotification(h) \/ Finish(h) \/ Fails(h)
        PROVE  BeiInv'
    <2>1. CASE \E n \in 1..MaxCycles : PostFinality(h, n) BY <1>0, <2>1, PostFinalityStep
    <2>2. CASE Aggregates(h)
      BY <1>0, <2>2, BarrierStep, SummariseStep, MoveIndexStep, MoveCloseStep DEF Aggregates
    <2>3. CASE Settles(h)
      BY <1>0, <2>3, CreateBatchStep, InstructStep, SelectInstructionsStep, BookLedgerStep,
         MarkSettledStep, SettleBatchStep, NothingToNotifyStep DEF Settles
    <2>4. CASE AggregationFails(h) \/ RetryNotification(h) \/ Finish(h) \/ Fails(h)
      BY <1>0, <2>4, AggregationFailsStep, RetryNotificationStep, FinishStep, FailsStep
    <2> QED BY <1>3, <2>1, <2>2, <2>3, <2>4
  <1> QED BY <1>0, <1>1, <1>2, <1>3 DEF Alone

LEMMA BeiNextOK == BeiInv /\ [BeiNext]_beiVars => BeiInv'
  <1>0. SUFFICES ASSUME BeiInv, [BeiNext]_beiVars PROVE BeiInv' OBVIOUS
  <1>1. CASE Alone BY <1>0, <1>1, AloneStep
  <1>2. CASE \E h \in Handlers : \/ Notify(h)
                                 \/ \E answer \in {"ok", "deferred", "error"} : Notified(h, answer)
    BY <1>0, <1>2, NotifyStep, NotifiedStep
  <1>3. CASE UNCHANGED beiVars
    <2>1. failures' \in 0..MaxFailures
      BY <1>0, <1>3 DEF beiVars, BeiInv, BeiTypeOK
    <2> QED BY <1>0, <1>3, <2>1, Elsewhere DEF beiVars
  <1> QED BY <1>0, <1>1, <1>2, <1>3 DEF BeiNext

LEMMA BeiImplied == BeiInv => FinalityMeansSettled /\ IndexFollowsCloses
  BY DEF BeiInv, IndexOK, IndexFollowsCloses

LEMMA BeiInvariant == BeiSpec => []BeiInv
  BY BeiInitOK, BeiNextOK, PTL DEF BeiSpec

(***************************************************************************)
(* A closing that BEI answers with success (routes/rules.ts:243, :415) has *)
(* as many trades settled in custody as MATS counted, for any number of    *)
(* trades, closings, overlapping requests, retries and failures.           *)
(***************************************************************************)
THEOREM AnsweredIsSettled == BeiSpec => []FinalityMeansSettled
  BY BeiInvariant, BeiImplied, PTL

(***************************************************************************)
(* Unless a request broke off between them, or another trade or request    *)
(* came in, the index is moved to the previous close and nowhere else.     *)
(***************************************************************************)
THEOREM IndexIsTheClose == BeiSpec => []IndexFollowsCloses
  BY BeiInvariant, BeiImplied, PTL
-----------------------------------------------------------------------------
\* The broker: a transaction that is going to post a detail is the only one.
WriterOK(c) ==
    call[c].at = "write" =>
      \A d \in Sekuritas!NextOf(call[c].todo) : d \in booked /\ d \notin events

OneWriter ==
    \A b, c \in Callers :
      call[b].at = "write" /\ call[c].at = "write"
        /\ Sekuritas!NextOf(call[b].todo) \cap Sekuritas!NextOf(call[c].todo) # {} => b = c

InboxInv == /\ Sekuritas!InboxTypeOK /\ IsFiniteSet(booked) /\ events \subseteq booked
            /\ OneWriter /\ PaidOnce
            /\ \A c \in Callers : WriterOK(c)
-----------------------------------------------------------------------------
LEMMA DetailFields ==
    ASSUME NEW d \in Sekuritas!Details
    PROVE  d.trade \in Nat /\ d.trade \in Trades /\ d.side \in {"buy", "sell"}
  BY BeiAssumption DEF Sekuritas!Details

\* Details are taken one at a time.
LEMMA NextOne ==
    ASSUME NEW todo \in SUBSET Sekuritas!Details,
           NEW d \in Sekuritas!NextOf(todo), NEW e \in Sekuritas!NextOf(todo)
    PROVE  d = e
  <1>1. SUFFICES ASSUME d # e PROVE FALSE OBVIOUS
  <1>2. d \in todo /\ e \in todo BY DEF Sekuritas!NextOf
  <1>3. d \in Sekuritas!Details /\ e \in Sekuritas!Details BY <1>2
  <1>4. d.trade \in Nat /\ e.trade \in Nat BY <1>3, DetailFields
  <1>5. Sekuritas!Earlier(d, e) /\ Sekuritas!Earlier(e, d)
    BY <1>1, <1>2 DEF Sekuritas!NextOf
  <1>6. \/ d.trade < e.trade
        \/ d.trade = e.trade /\ d.side = "buy" /\ e.side = "sell"
    BY <1>5 DEF Sekuritas!Earlier
  <1>7. \/ e.trade < d.trade
        \/ e.trade = d.trade /\ e.side = "buy" /\ d.side = "sell"
    BY <1>5 DEF Sekuritas!Earlier
  <1> QED BY <1>4, <1>6, <1>7

\* The worth of a set of details, as a sum.
LEMMA TotalIsSum ==
    ASSUME NEW S
    PROVE  Sekuritas!Total(S) = SumFunctionOnSet([d \in Sekuritas!Details |-> d.trade], S)
  BY DEF Sekuritas!Total, Sekuritas!SumFunctionOnSet, Sekuritas!FoldFunctionOnSet,
     Sekuritas!MapThenFoldSet, SumFunctionOnSet, FoldFunctionOnSet, MapThenFoldSet

LEMMA SameCardinality == ASSUME NEW S PROVE Sekuritas!Cardinality(S) = Cardinality(S)
  BY DEF Sekuritas!Cardinality, Cardinality

\* PaidOnce, part by part.
SharesPaid ==
    shares = [available |-> Cardinality(Sekuritas!Buys(events)),
              pending |-> Cardinality(Sekuritas!Buys(booked \ events))]
CashPaid ==
    cash = [available |-> Sekuritas!Total(events \ Sekuritas!Buys(events)),
            pending |-> Sekuritas!Total(booked \ events)]

LEMMA PaidParts == PaidOnce <=> SharesPaid /\ (~overwritten => CashPaid)
  BY SameCardinality DEF PaidOnce, Sekuritas!PaidOnce, SharesPaid, CashPaid

LEMMA TotalFacts ==
    ASSUME NEW S, IsFiniteSet(S), S \subseteq Sekuritas!Details
    PROVE  /\ Sekuritas!Total(S) \in Nat
           /\ \A d \in S : Sekuritas!Total(S) = d.trade + Sekuritas!Total(S \ {d})
           /\ \A d \in Sekuritas!Details \ S :
                Sekuritas!Total(S \cup {d}) = d.trade + Sekuritas!Total(S)
  <1>1. PICK f : f = [d \in Sekuritas!Details |-> d.trade] OBVIOUS
  <1>2. \A d \in Sekuritas!Details : f[d] = d.trade /\ f[d] \in Nat BY <1>1, DetailFields
  <1>3. \A T : Sekuritas!Total(T) = SumFunctionOnSet(f, T) BY <1>1, TotalIsSum
  <1>4. \A d \in S : f[d] \in Nat /\ f[d] \in Int BY <1>2
  <1>5. Sekuritas!Total(S) \in Nat BY <1>3, <1>4, SumNat
  <1>6. ASSUME NEW d \in S PROVE Sekuritas!Total(S) = d.trade + Sekuritas!Total(S \ {d})
    <2>1. SumFunctionOnSet(f, S) = f[d] + SumFunctionOnSet(f, S \ {d}) BY <1>4, SumRemove
    <2>2. f[d] = d.trade BY <1>2
    <2> QED BY <1>3, <2>1, <2>2
  <1>7. ASSUME NEW d \in Sekuritas!Details \ S
        PROVE  Sekuritas!Total(S \cup {d}) = d.trade + Sekuritas!Total(S)
    <2>1. \A e \in S \cup {d} : f[e] \in Int BY <1>2
    <2>2. SumFunctionOnSet(f, S \cup {d}) = f[d] + SumFunctionOnSet(f, S) BY <2>1, SumAdd
    <2>3. f[d] = d.trade BY <1>2
    <2> QED BY <1>3, <2>2, <2>3
  <1> QED BY <1>5, <1>6, <1>7

\* The other calls.
Beside(c) == \A b \in Callers \ {c} : call'[b] = call[b]

LEMMA CallFields ==
    ASSUME call \in [Callers -> Sekuritas!CallRecords], NEW c \in Callers,
           NEW stage \in {"idle", "look"}, NEW todo \in SUBSET Sekuritas!Details,
           NEW answer \in {"ok", "deferred", "error"},
           call' = [call EXCEPT ![c] = Sekuritas!Call(stage, todo, answer)]
    PROVE  /\ call' \in [Callers -> Sekuritas!CallRecords] /\ Beside(c)
           /\ call'[c].at = stage
  <1>1. Sekuritas!Zero \in Sekuritas!Balance BY DEF Sekuritas!Zero, Sekuritas!Balance
  <1>2. Sekuritas!Call(stage, todo, answer) \in Sekuritas!CallRecords
    BY <1>1 DEF Sekuritas!Call, Sekuritas!CallRecords
  <1>3. Sekuritas!Call(stage, todo, answer).at = stage BY DEF Sekuritas!Call
  <1> QED BY <1>2, <1>3 DEF Beside

LEMMA CallTodo ==
    ASSUME call \in [Callers -> Sekuritas!CallRecords], NEW c \in Callers
    PROVE  /\ call[c].todo \in SUBSET Sekuritas!Details
           /\ call[c].answer \in {"ok", "deferred", "error"}
           /\ call[c].read \in Sekuritas!Balance
  BY DEF Sekuritas!CallRecords

LEMMA PassedFields ==
    ASSUME call \in [Callers -> Sekuritas!CallRecords], NEW c \in Callers, NEW d,
           NEW answer \in {"ok", "deferred"}, call' = Sekuritas!Passed(c, d, answer)
    PROVE  /\ call' \in [Callers -> Sekuritas!CallRecords] /\ Beside(c)
           /\ call'[c].at = "look"
  <1>1. PICK a : a = IF answer = "ok" THEN call[c].answer ELSE answer OBVIOUS
  <1>2. a \in {"ok", "deferred", "error"} BY <1>1, CallTodo
  <1>3. PICK todo : todo = call[c].todo \ {d} OBVIOUS
  <1>4. todo \in SUBSET Sekuritas!Details BY <1>3, CallTodo
  <1>5. call' = [call EXCEPT ![c] = Sekuritas!Call("look", todo, a)]
    BY <1>1, <1>3 DEF Sekuritas!Passed
  <1> QED BY <1>2, <1>4, <1>5, CallFields

LEMMA FailedFields ==
    ASSUME call \in [Callers -> Sekuritas!CallRecords], NEW c \in Callers,
           call' = Sekuritas!Failed(c)
    PROVE  /\ call' \in [Callers -> Sekuritas!CallRecords] /\ Beside(c)
           /\ call'[c].at = "look"
  BY CallFields DEF Sekuritas!Failed

\* A call that is not about to post leaves the writers as they are.
LEMMA WritersKept ==
    ASSUME InboxInv, NEW c \in Callers, Beside(c), call'[c].at # "write",
           booked \subseteq booked', UNCHANGED events
    PROVE  OneWriter' /\ \A b \in Callers : WriterOK(b)'
  <1>1. \A b \in Callers : call'[b].at = "write" => b # c /\ call'[b] = call[b] BY DEF Beside
  <1>2. OneWriter' BY <1>1 DEF InboxInv, OneWriter
  <1>3. \A b \in Callers : WriterOK(b)' BY <1>1 DEF InboxInv, WriterOK
  <1> QED BY <1>2, <1>3

\* A step in which nothing is posted and no fill is booked.
LEMMA NothingPosted ==
    ASSUME InboxInv, NEW c \in Callers, Beside(c), call'[c].at # "write",
           call' \in [Callers -> Sekuritas!CallRecords],
           inbox' \in [Sekuritas!Details -> {"none", "pending", "processed"}],
           UNCHANGED <<booked, events, cash, shares, overwritten>>
    PROVE  InboxInv'
  <1>1. Sekuritas!InboxTypeOK' BY DEF InboxInv, Sekuritas!InboxTypeOK
  <1>2. PaidOnce' BY DEF InboxInv, PaidOnce, Sekuritas!PaidOnce, Sekuritas!Buys
  <1>3. OneWriter' /\ \A b \in Callers : WriterOK(b)' BY WritersKept
  <1> QED BY <1>1, <1>2, <1>3 DEF InboxInv

LEMMA InboxBefore ==
    ASSUME InboxInv
    PROVE  /\ call \in [Callers -> Sekuritas!CallRecords]
           /\ inbox \in [Sekuritas!Details -> {"none", "pending", "processed"}]
           /\ booked \subseteq Sekuritas!Details /\ events \subseteq booked
           /\ IsFiniteSet(booked) /\ IsFiniteSet(events) /\ IsFiniteSet(booked \ events)
  <1>1. events \subseteq booked /\ IsFiniteSet(booked) BY DEF InboxInv
  <1>2. IsFiniteSet(events) /\ IsFiniteSet(booked \ events) BY <1>1, FS_Subset
  <1> QED BY <1>1, <1>2 DEF InboxInv, Sekuritas!InboxTypeOK
-----------------------------------------------------------------------------
LEMMA ReceiveStep ==
    ASSUME NEW c \in Callers, NEW details \in SUBSET Sekuritas!Details
    PROVE  InboxInv /\ Sekuritas!Receive(c, details) => InboxInv'
  <1>0. SUFFICES ASSUME InboxInv, Sekuritas!Receive(c, details) PROVE InboxInv' OBVIOUS
  <1>1. /\ call' = [call EXCEPT ![c] = Sekuritas!Call("look", details, "ok")]
        /\ UNCHANGED <<booked, inbox, events, cash, shares, overwritten>>
    BY <1>0 DEF Sekuritas!Receive
  <1>2. /\ call' \in [Callers -> Sekuritas!CallRecords] /\ Beside(c) /\ call'[c].at = "look"
    BY <1>0, <1>1, InboxBefore, CallFields
  <1> QED BY <1>0, <1>1, <1>2, InboxBefore, NothingPosted

LEMMA AnsweredStep ==
    ASSUME NEW c \in Callers PROVE InboxInv /\ Sekuritas!Answered(c) => InboxInv'
  <1>0. SUFFICES ASSUME InboxInv, Sekuritas!Answered(c) PROVE InboxInv' OBVIOUS
  <1>1. /\ call' = [call EXCEPT ![c] = Sekuritas!Call("idle", {}, "ok")]
        /\ UNCHANGED <<booked, inbox, events, cash, shares, overwritten>>
    BY <1>0 DEF Sekuritas!Answered, Sekuritas!NoCall
  <1>2. /\ call' \in [Callers -> Sekuritas!CallRecords] /\ Beside(c) /\ call'[c].at = "idle"
    BY <1>0, <1>1, InboxBefore, CallFields
  <1> QED BY <1>0, <1>1, <1>2, InboxBefore, NothingPosted

LEMMA AbortStep ==
    ASSUME NEW c \in Callers PROVE InboxInv /\ Sekuritas!Abort(c) => InboxInv'
  <1>0. SUFFICES ASSUME InboxInv, Sekuritas!Abort(c) PROVE InboxInv' OBVIOUS
  <1>1. /\ call' = Sekuritas!Failed(c)
        /\ UNCHANGED <<booked, inbox, events, cash, shares, overwritten>>
    BY <1>0 DEF Sekuritas!Abort
  <1>2. /\ call' \in [Callers -> Sekuritas!CallRecords] /\ Beside(c) /\ call'[c].at = "look"
    BY <1>0, <1>1, InboxBefore, FailedFields
  <1> QED BY <1>0, <1>1, <1>2, InboxBefore, NothingPosted

LEMMA LookStep ==
    ASSUME NEW c \in Callers PROVE InboxInv /\ Sekuritas!Look(c) => InboxInv'
  <1>0. SUFFICES ASSUME InboxInv, Sekuritas!Look(c) PROVE InboxInv' OBVIOUS
  <1>1. PICK d : /\ \/ call' = Sekuritas!Passed(c, d, "ok")
                    \/ call' = [call EXCEPT ![c].at = "take", ![c].seen = inbox[d] # "none"]
                 /\ UNCHANGED <<booked, inbox, events, cash, shares, overwritten>>
    BY <1>0 DEF Sekuritas!Look
  <1>2. CASE call' = Sekuritas!Passed(c, d, "ok")
    <2>1. /\ call' \in [Callers -> Sekuritas!CallRecords] /\ Beside(c) /\ call'[c].at = "look"
      BY <1>0, <1>2, InboxBefore, PassedFields
    <2> QED BY <1>0, <1>1, <2>1, InboxBefore, NothingPosted
  <1>3. CASE call' = [call EXCEPT ![c].at = "take", ![c].seen = inbox[d] # "none"]
    <2>1. PICK seen \in BOOLEAN : seen = (inbox[d] # "none") OBVIOUS
    <2>2. call' = [call EXCEPT ![c].at = "take", ![c].seen = seen] BY <1>3, <2>1
    <2>3. call \in [Callers -> Sekuritas!CallRecords] BY <1>0, InboxBefore
    <2>4. /\ call' \in [Callers -> Sekuritas!CallRecords] /\ Beside(c) /\ call'[c].at = "take"
      BY <2>2, <2>3 DEF Sekuritas!CallRecords, Beside
    <2> QED BY <1>0, <1>1, <2>4, InboxBefore, NothingPosted
  <1> QED BY <1>1, <1>2, <1>3

\* What waits, repeats or conflicts posts nothing; what proceeds holds the row.
LEMMA TakeStep ==
    ASSUME NEW c \in Callers PROVE InboxInv /\ Sekuritas!Take(c) => InboxInv'
  <1>0. SUFFICES ASSUME InboxInv, Sekuritas!Take(c) PROVE InboxInv' OBVIOUS
  <1>1. PICK d \in Sekuritas!NextOf(call[c].todo) :
           /\ ~Sekuritas!Locked(c, d)
           /\ \/ call' = Sekuritas!Failed(c) /\ UNCHANGED inbox
              \/ Sekuritas!Defers(c, d) \/ Sekuritas!Repeats(c, d) \/ Sekuritas!Proceeds(c, d)
           /\ UNCHANGED <<booked, events, cash, shares, overwritten>>
    BY <1>0 DEF Sekuritas!Take
  <1>2. call \in [Callers -> Sekuritas!CallRecords] BY <1>0, InboxBefore
  <1>3. d \in Sekuritas!Details /\ call[c].todo \in SUBSET Sekuritas!Details
    BY <1>2, CallTodo DEF Sekuritas!NextOf
  <1>4. CASE call' = Sekuritas!Failed(c) /\ UNCHANGED inbox
    <2>1. /\ call' \in [Callers -> Sekuritas!CallRecords] /\ Beside(c) /\ call'[c].at = "look"
      BY <1>2, <1>4, FailedFields
    <2> QED BY <1>0, <1>1, <1>4, <2>1, InboxBefore, NothingPosted
  <1>5. CASE Sekuritas!Defers(c, d) \/ Sekuritas!Repeats(c, d)
    <2>1. PICK answer \in {"ok", "deferred"}, note \in {"pending", "processed"} :
             inbox' = [inbox EXCEPT ![d] = note] /\ call' = Sekuritas!Passed(c, d, answer)
      BY <1>5 DEF Sekuritas!Defers, Sekuritas!Repeats
    <2>2. /\ call' \in [Callers -> Sekuritas!CallRecords] /\ Beside(c) /\ call'[c].at = "look"
      BY <1>2, <2>1, PassedFields
    <2>3. inbox' \in [Sekuritas!Details -> {"none", "pending", "processed"}]
      BY <1>0, <2>1, InboxBefore
    <2> QED BY <1>0, <1>1, <2>2, <2>3, InboxBefore, NothingPosted
  <1>6. CASE Sekuritas!Proceeds(c, d)
    <2>1. /\ d \in booked /\ d \notin events /\ UNCHANGED inbox
          /\ call' = [call EXCEPT ![c].at = "write", ![c].read = cash]
      BY <1>6 DEF Sekuritas!Proceeds
    <2>2. cash \in Sekuritas!Balance BY <1>0 DEF InboxInv, Sekuritas!InboxTypeOK
    <2>3. /\ call' \in [Callers -> Sekuritas!CallRecords] /\ Beside(c)
          /\ call'[c].at = "write" /\ call'[c].todo = call[c].todo
      BY <1>2, <2>1, <2>2 DEF Sekuritas!CallRecords, Beside
    <2>4. \A e \in Sekuritas!NextOf(call[c].todo) : e = d BY <1>3, NextOne
    <2>5. Sekuritas!InboxTypeOK'
      BY <1>0, <1>1, <2>1, <2>3 DEF InboxInv, Sekuritas!InboxTypeOK
    <2>6. PaidOnce' BY <1>0, <1>1 DEF InboxInv, PaidOnce, Sekuritas!PaidOnce, Sekuritas!Buys
    <2>7. \A b \in Callers : WriterOK(b)'
      <3>1. WriterOK(c)' BY <1>1, <2>1, <2>3, <2>4 DEF WriterOK
      <3>2. ASSUME NEW b \in Callers \ {c} PROVE WriterOK(b)'
        BY <1>0, <1>1, <2>3 DEF InboxInv, WriterOK, Beside
      <3> QED BY <3>1, <3>2
    <2>8. OneWriter'
      <3>1. \A b \in Callers \ {c} :
              call[b].at = "write" => d \notin Sekuritas!NextOf(call[b].todo)
        BY <1>1 DEF Sekuritas!Locked
      <3>2. \A b \in Callers \ {c} : call'[b].at = "write" =>
              Sekuritas!NextOf(call'[b].todo) \cap Sekuritas!NextOf(call'[c].todo) = {}
        BY <2>3, <2>4, <3>1 DEF Beside
      <3>3. \A a, b \in Callers \ {c} : call'[a] = call[a] /\ call'[b] = call[b]
        BY <2>3 DEF Beside
      <3> QED BY <1>0, <3>2, <3>3 DEF InboxInv, OneWriter
    <2> QED BY <1>0, <1>1, <2>5, <2>6, <2>7, <2>8 DEF InboxInv
  <1> QED BY <1>1, <1>4, <1>5, <1>6
-----------------------------------------------------------------------------
\* Amounts are never clamped: what a settlement takes off was booked before.
LEMMA AtLeast0Nat == ASSUME NEW n \in Nat PROVE Sekuritas!AtLeast0(n) = n
  BY DEF Sekuritas!AtLeast0

LEMMA InboxBookFillStep ==
    ASSUME NEW d \in Sekuritas!Details
    PROVE  InboxInv /\ Sekuritas!BookFill(d) => InboxInv'
  <1>0. SUFFICES ASSUME InboxInv, Sekuritas!BookFill(d) PROVE InboxInv' OBVIOUS
  <1>1. /\ d \notin booked /\ booked' = booked \cup {d}
        /\ cash' = [cash EXCEPT !.pending = @ + d.trade]
        /\ shares' = IF d.side = "buy" THEN [shares EXCEPT !.pending = @ + 1] ELSE shares
        /\ UNCHANGED <<inbox, events, call, overwritten>>
    BY <1>0 DEF Sekuritas!BookFill
  <1>2. /\ booked \subseteq Sekuritas!Details /\ events \subseteq booked
        /\ IsFiniteSet(booked) /\ IsFiniteSet(booked \ events) /\ d.trade \in Nat
    BY <1>0, InboxBefore, DetailFields
  <1>3. cash \in Sekuritas!Balance /\ shares \in Sekuritas!Balance
    BY <1>0 DEF InboxInv, Sekuritas!InboxTypeOK
  <1>4. /\ cash.available \in Int /\ cash.pending \in Int
        /\ shares.available \in Int /\ shares.pending \in Int
    BY <1>3 DEF Sekuritas!Balance
  <1>5. cash' = [available |-> cash.available, pending |-> cash.pending + d.trade]
    BY <1>1, <1>3 DEF Sekuritas!Balance
  <1>6. shares' = [available |-> shares.available,
                   pending |-> IF d.side = "buy" THEN shares.pending + 1 ELSE shares.pending]
    BY <1>1, <1>3 DEF Sekuritas!Balance
  <1>7. cash' \in Sekuritas!Balance /\ shares' \in Sekuritas!Balance
    BY <1>2, <1>4, <1>5, <1>6 DEF Sekuritas!Balance
  <1>8. Sekuritas!InboxTypeOK'
    BY <1>0, <1>1, <1>2, <1>7 DEF InboxInv, Sekuritas!InboxTypeOK
  <1>9. IsFiniteSet(booked') /\ events' \subseteq booked' BY <1>1, <1>2, FS_AddElement
  <1>10. OneWriter' BY <1>0, <1>1 DEF InboxInv, OneWriter
  <1>11. \A c \in Callers : WriterOK(c)' BY <1>0, <1>1 DEF InboxInv, WriterOK
  <1>12. PICK P : P = booked \ events OBVIOUS
  <1>13. /\ booked' \ events' = P \cup {d} /\ d \notin P /\ IsFiniteSet(P)
         /\ P \subseteq Sekuritas!Details
    BY <1>1, <1>2, <1>12
  <1>14. Sekuritas!Total(P \cup {d}) = d.trade + Sekuritas!Total(P) /\ Sekuritas!Total(P) \in Nat
    BY <1>13, TotalFacts
  <1>15. Cardinality(Sekuritas!Buys(P \cup {d})) =
           Cardinality(Sekuritas!Buys(P)) + (IF d.side = "buy" THEN 1 ELSE 0)
    <2>1. PICK B : B = Sekuritas!Buys(P) OBVIOUS
    <2>2. IsFiniteSet(B) /\ d \notin B BY <1>13, <2>1, FS_Subset DEF Sekuritas!Buys
    <2>3. Cardinality(B) \in Nat BY <2>2, FS_CardinalityType
    <2>4. CASE d.side = "buy"
      <3>1. Sekuritas!Buys(P \cup {d}) = B \cup {d} BY <2>1, <2>4 DEF Sekuritas!Buys
      <3>2. Cardinality(B \cup {d}) = Cardinality(B) + 1 BY <2>2, FS_AddElement
      <3> QED BY <2>1, <2>4, <3>1, <3>2
    <2>5. CASE d.side # "buy"
      <3>1. Sekuritas!Buys(P \cup {d}) = B BY <2>1, <2>5 DEF Sekuritas!Buys
      <3> QED BY <2>1, <2>3, <2>5, <3>1
    <2> QED BY <2>4, <2>5
  <1>16. shares = [available |-> Cardinality(Sekuritas!Buys(events)),
                   pending |-> Cardinality(Sekuritas!Buys(P))]
    BY <1>0, <1>12, PaidParts DEF InboxInv, SharesPaid
  <1>17. Cardinality(Sekuritas!Buys(P)) \in Int BY <1>4, <1>16
  <1>18. shares' = [available |-> Cardinality(Sekuritas!Buys(events)),
                    pending |-> Cardinality(Sekuritas!Buys(P \cup {d}))]
    BY <1>6, <1>15, <1>16, <1>17
  <1>19. ASSUME ~overwritten
         PROVE  cash' = [available |-> Sekuritas!Total(events \ Sekuritas!Buys(events)),
                         pending |-> Sekuritas!Total(P \cup {d})]
    <2>1. cash = [available |-> Sekuritas!Total(events \ Sekuritas!Buys(events)),
                  pending |-> Sekuritas!Total(P)]
      BY <1>0, <1>12, <1>19, PaidParts DEF InboxInv, CashPaid
    <2>2. cash.pending + d.trade = Sekuritas!Total(P \cup {d}) BY <1>2, <1>14, <2>1
    <2> QED BY <1>5, <2>1, <2>2
  <1>20. SharesPaid' /\ (~overwritten' => CashPaid')
    BY <1>1, <1>13, <1>18, <1>19 DEF SharesPaid, CashPaid, Sekuritas!Buys
  <1>21. PaidOnce'
    BY <1>20, SameCardinality DEF PaidOnce, Sekuritas!PaidOnce, SharesPaid, CashPaid
  <1> QED BY <1>8, <1>9, <1>10, <1>11, <1>21 DEF InboxInv

\* What a settlement of d moves: d leaves the pending details for the settled.
LEMMA SharesPosted ==
    ASSUME InboxInv, NEW d \in booked \ events, shares' = Sekuritas!Received(d),
           events' = events \cup {d}, booked' = booked
    PROVE  /\ shares' = [available |-> Cardinality(Sekuritas!Buys(events)'),
                         pending |-> Cardinality(Sekuritas!Buys(booked \ events)')]
           /\ shares' \in Sekuritas!Balance
  <1>1. /\ booked \subseteq Sekuritas!Details /\ events \subseteq booked
        /\ IsFiniteSet(events) /\ IsFiniteSet(booked \ events)
    BY InboxBefore
  <1>2. PICK B : B = Sekuritas!Buys(events) OBVIOUS
  <1>3. PICK P : P = Sekuritas!Buys(booked \ events) OBVIOUS
  <1>4. IsFiniteSet(B) /\ IsFiniteSet(P) BY <1>1, <1>2, <1>3, FS_Subset DEF Sekuritas!Buys
  <1>5. Cardinality(B) \in Nat /\ Cardinality(P) \in Nat BY <1>4, FS_CardinalityType
  <1>6. shares = [available |-> Cardinality(B), pending |-> Cardinality(P)]
    BY <1>2, <1>3, PaidParts DEF InboxInv, SharesPaid
  <1>7. CASE d.side = "buy"
    <2>1. Sekuritas!Buys(events)' = B \cup {d} /\ Sekuritas!Buys(booked \ events)' = P \ {d}
      BY <1>2, <1>3, <1>7 DEF Sekuritas!Buys
    <2>2. d \notin B /\ d \in P BY <1>2, <1>3, <1>7 DEF Sekuritas!Buys
    <2>3. Cardinality(B \cup {d}) = Cardinality(B) + 1 BY <1>4, <2>2, FS_AddElement
    <2>4. Cardinality(P \ {d}) = Cardinality(P) - 1 BY <1>4, <2>2, FS_RemoveElement
    <2>5. Cardinality(P \ {d}) \in Nat
      BY <1>4, FS_RemoveElement, FS_CardinalityType
    <2>6. shares' = [available |-> Cardinality(B) + 1,
                     pending |-> Sekuritas!AtLeast0(Cardinality(P) - 1)]
      BY <1>6, <1>7 DEF Sekuritas!Received
    <2>7. Sekuritas!AtLeast0(Cardinality(P) - 1) = Cardinality(P) - 1
      BY <2>4, <2>5, AtLeast0Nat
    <2>8. shares' = [available |-> Cardinality(B) + 1, pending |-> Cardinality(P) - 1]
      BY <2>6, <2>7
    <2>9. shares' \in Sekuritas!Balance BY <1>5, <2>8 DEF Sekuritas!Balance
    <2> QED BY <2>1, <2>3, <2>4, <2>8, <2>9
  <1>8. CASE d.side # "buy"
    <2>1. Sekuritas!Buys(events)' = B /\ Sekuritas!Buys(booked \ events)' = P
      BY <1>2, <1>3, <1>8 DEF Sekuritas!Buys
    <2>2. shares' = [available |-> Cardinality(B), pending |-> Cardinality(P)]
      BY <1>6, <1>8 DEF Sekuritas!Received
    <2>3. shares' \in Sekuritas!Balance BY <1>5, <2>2 DEF Sekuritas!Balance
    <2> QED BY <2>1, <2>2, <2>3
  <1> QED BY <1>7, <1>8

LEMMA CashPosted ==
    ASSUME InboxInv, NEW d \in booked \ events, cash' = Sekuritas!Posted(d, cash),
           events' = events \cup {d}, booked' = booked, ~overwritten
    PROVE  cash' = [available |-> Sekuritas!Total((events \ Sekuritas!Buys(events))'),
                    pending |-> Sekuritas!Total((booked \ events)')]
  <1>1. /\ booked \subseteq Sekuritas!Details /\ events \subseteq booked
        /\ IsFiniteSet(events) /\ IsFiniteSet(booked \ events)
    BY InboxBefore
  <1>2. d \in Sekuritas!Details /\ d.trade \in Nat /\ d.side \in {"buy", "sell"}
    BY <1>1, DetailFields
  <1>3. PICK B : B = events \ Sekuritas!Buys(events) OBVIOUS
  <1>4. PICK P : P = booked \ events OBVIOUS
  <1>5. /\ IsFiniteSet(B) /\ IsFiniteSet(P) /\ B \subseteq Sekuritas!Details
        /\ P \subseteq Sekuritas!Details /\ d \in P /\ d \notin B
    BY <1>1, <1>3, <1>4, FS_Subset
  <1>6. cash = [available |-> Sekuritas!Total(B), pending |-> Sekuritas!Total(P)]
    BY <1>3, <1>4, PaidParts DEF InboxInv, CashPaid
  <1>7. /\ Sekuritas!Total(B) \in Nat /\ Sekuritas!Total(P) \in Nat
        /\ Sekuritas!Total(P) = d.trade + Sekuritas!Total(P \ {d})
        /\ Sekuritas!Total(B \cup {d}) = d.trade + Sekuritas!Total(B)
    BY <1>2, <1>5, TotalFacts
  <1>8. IsFiniteSet(P \ {d}) /\ P \ {d} \subseteq Sekuritas!Details BY <1>5, FS_RemoveElement
  <1>9. Sekuritas!Total(P \ {d}) \in Nat BY <1>8, TotalFacts
  <1>10. Sekuritas!Total(P) - d.trade = Sekuritas!Total(P \ {d}) BY <1>2, <1>7, <1>9
  <1>11. Sekuritas!AtLeast0(Sekuritas!Total(P) - d.trade) = Sekuritas!Total(P \ {d})
    BY <1>9, <1>10, AtLeast0Nat
  <1>12. (booked \ events)' = P \ {d} BY <1>4
  <1>13. CASE d.side = "sell"
    <2>1. (events \ Sekuritas!Buys(events))' = B \cup {d}
      BY <1>3, <1>13 DEF Sekuritas!Buys
    <2>2. Sekuritas!Total(B) + d.trade = Sekuritas!Total(B \cup {d}) BY <1>2, <1>7
    <2> QED BY <1>6, <1>11, <1>12, <1>13, <2>1, <2>2 DEF Sekuritas!Posted
  <1>14. CASE d.side = "buy"
    <2>1. (events \ Sekuritas!Buys(events))' = B
      BY <1>3, <1>14 DEF Sekuritas!Buys
    <2> QED BY <1>6, <1>11, <1>12, <1>14, <2>1 DEF Sekuritas!Posted
  <1> QED BY <1>2, <1>13, <1>14

LEMMA CommitStep ==
    ASSUME NEW c \in Callers PROVE InboxInv /\ Sekuritas!Commit(c) => InboxInv'
  <1>0. SUFFICES ASSUME InboxInv, Sekuritas!Commit(c) PROVE InboxInv' OBVIOUS
  <1>1. PICK d \in Sekuritas!NextOf(call[c].todo) :
           /\ call[c].at = "write" /\ cash' = Sekuritas!Posted(d, call[c].read)
           /\ shares' = Sekuritas!Received(d) /\ events' = events \cup {d}
           /\ inbox' = [inbox EXCEPT ![d] = "processed"]
           /\ call' = Sekuritas!Passed(c, d, "ok")
           /\ overwritten' = (overwritten \/ cash # call[c].read) /\ booked' = booked
    BY <1>0 DEF Sekuritas!Commit
  <1>2. /\ call \in [Callers -> Sekuritas!CallRecords]
        /\ inbox \in [Sekuritas!Details -> {"none", "pending", "processed"}]
        /\ booked \subseteq Sekuritas!Details /\ events \subseteq booked
    BY <1>0, InboxBefore
  <1>3. d \in booked \ events BY <1>0, <1>1 DEF InboxInv, WriterOK
  <1>4. d \in Sekuritas!Details /\ d.trade \in Nat BY <1>2, <1>3, DetailFields
  <1>5. /\ call' \in [Callers -> Sekuritas!CallRecords] /\ Beside(c) /\ call'[c].at = "look"
    BY <1>1, <1>2, PassedFields
  <1>6. call[c].read \in Sekuritas!Balance BY <1>2, CallTodo
  <1>7. cash' \in Sekuritas!Balance
    <2>1. PICK r \in Sekuritas!Balance : r = call[c].read BY <1>6
    <2>2. r.available \in Int /\ r.pending \in Int BY DEF Sekuritas!Balance
    <2>3. cash' = Sekuritas!Posted(d, r) BY <1>1, <2>1
    <2> QED BY <1>4, <2>2, <2>3 DEF Sekuritas!Posted, Sekuritas!AtLeast0, Sekuritas!Balance
  <1>8. /\ shares' = [available |-> Cardinality(Sekuritas!Buys(events)'),
                      pending |-> Cardinality(Sekuritas!Buys(booked \ events)')]
        /\ shares' \in Sekuritas!Balance
    BY <1>0, <1>1, <1>3, SharesPosted
  <1>9. inbox' \in [Sekuritas!Details -> {"none", "pending", "processed"}] BY <1>1, <1>2
  <1>10. overwritten' \in BOOLEAN BY <1>0, <1>1 DEF InboxInv, Sekuritas!InboxTypeOK
  <1>11. events' \subseteq Sekuritas!Details /\ booked' \subseteq Sekuritas!Details
         /\ events' \subseteq booked'
    BY <1>1, <1>2, <1>3
  <1>12. Sekuritas!InboxTypeOK' BY <1>5, <1>7, <1>8, <1>9, <1>10, <1>11 DEF Sekuritas!InboxTypeOK
  <1>13. ASSUME ~overwritten'
         PROVE  cash' = [available |-> Sekuritas!Total((events \ Sekuritas!Buys(events))'),
                         pending |-> Sekuritas!Total((booked \ events)')]
    <2>1. ~overwritten /\ cash = call[c].read BY <1>1, <1>13
    <2>2. cash' = Sekuritas!Posted(d, cash) BY <1>1, <2>1
    <2> QED BY <1>0, <1>1, <1>3, <2>1, <2>2, CashPosted
  <1>14. PaidOnce' BY <1>8, <1>13, SameCardinality DEF PaidOnce, Sekuritas!PaidOnce
  <1>15. IsFiniteSet(booked') BY <1>0, <1>1, InboxBefore
  <1>16. \A b \in Callers : call'[b].at = "write" => b # c /\ call'[b] = call[b]
    BY <1>5 DEF Beside
  <1>17. OneWriter' BY <1>0, <1>16 DEF InboxInv, OneWriter
  <1>18. \A b \in Callers : WriterOK(b)'
    <2>1. SUFFICES ASSUME NEW b \in Callers, call'[b].at = "write"
                   PROVE  \A e \in Sekuritas!NextOf(call'[b].todo) : e \in booked' /\ e \notin events'
      BY DEF WriterOK
    <2>2. b # c /\ call'[b] = call[b] BY <1>16, <2>1
    <2>3. d \notin Sekuritas!NextOf(call[b].todo)
      BY <1>0, <1>1, <2>1, <2>2 DEF InboxInv, OneWriter
    <2>4. \A e \in Sekuritas!NextOf(call[b].todo) : e \in booked /\ e \notin events
      BY <1>0, <2>1, <2>2 DEF InboxInv, WriterOK
    <2> QED BY <1>1, <2>2, <2>3, <2>4
  <1> QED BY <1>11, <1>12, <1>14, <1>15, <1>17, <1>18 DEF InboxInv
-----------------------------------------------------------------------------
LEMMA InboxInitOK == Sekuritas!InboxInit => InboxInv
  <1>0. SUFFICES ASSUME Sekuritas!InboxInit PROVE InboxInv OBVIOUS
  <1>1. /\ booked = {} /\ inbox = [d \in Sekuritas!Details |-> "none"] /\ events = {}
        /\ cash = Sekuritas!Zero /\ shares = Sekuritas!Zero
        /\ call = [c \in Callers |-> Sekuritas!NoCall] /\ overwritten = FALSE
    BY <1>0 DEF Sekuritas!InboxInit
  <1>2. Sekuritas!Zero \in Sekuritas!Balance BY DEF Sekuritas!Zero, Sekuritas!Balance
  <1>3. Sekuritas!NoCall \in Sekuritas!CallRecords /\ Sekuritas!NoCall.at = "idle"
    BY <1>2 DEF Sekuritas!NoCall, Sekuritas!Call, Sekuritas!CallRecords
  <1>4. /\ call \in [Callers -> Sekuritas!CallRecords]
        /\ \A c \in Callers : call[c].at = "idle"
    BY <1>1, <1>3
  <1>5. inbox \in [Sekuritas!Details -> {"none", "pending", "processed"}] BY <1>1
  <1>6. Sekuritas!InboxTypeOK BY <1>1, <1>2, <1>4, <1>5 DEF Sekuritas!InboxTypeOK
  <1>7. OneWriter /\ \A c \in Callers : WriterOK(c) BY <1>4 DEF OneWriter, WriterOK
  <1>8. /\ Sekuritas!Buys(events) = {} /\ Sekuritas!Buys(booked \ events) = {}
        /\ events \ Sekuritas!Buys(events) = {} /\ booked \ events = {}
    BY <1>1 DEF Sekuritas!Buys
  <1>9. Sekuritas!Total({}) = 0 BY TotalIsSum, SumEmpty
  <1>10. IsFiniteSet({}) /\ Cardinality({}) = 0 BY FS_EmptySet
  <1>11. SharesPaid /\ CashPaid BY <1>1, <1>8, <1>9, <1>10 DEF SharesPaid, CashPaid, Sekuritas!Zero
  <1>12. PaidOnce BY <1>11, PaidParts
  <1> QED BY <1>1, <1>6, <1>7, <1>10, <1>12 DEF InboxInv

LEMMA InboxStutters == InboxInv /\ UNCHANGED sekuritasVars => InboxInv'
  <1>0. SUFFICES ASSUME InboxInv, UNCHANGED sekuritasVars PROVE InboxInv' OBVIOUS
  <1>1. UNCHANGED <<booked, inbox, events, cash, shares, call, overwritten>>
    BY <1>0 DEF sekuritasVars
  <1>2. Sekuritas!InboxTypeOK' BY <1>0, <1>1 DEF InboxInv, Sekuritas!InboxTypeOK
  <1>3. PaidOnce' BY <1>0, <1>1 DEF InboxInv, PaidOnce, Sekuritas!PaidOnce, Sekuritas!Buys
  <1>4. OneWriter' /\ \A c \in Callers : WriterOK(c)'
    BY <1>0, <1>1 DEF InboxInv, OneWriter, WriterOK
  <1> QED BY <1>0, <1>1, <1>2, <1>3, <1>4 DEF InboxInv

LEMMA BeiStutters == BeiInv /\ UNCHANGED beiVars => BeiInv'
  BY BeiNextOK

\* The exchange and the broker together.
IInv == BeiInv /\ InboxInv /\ waits \in [Handlers -> Callers]

LEMMA InitOK == Init => IInv
  <1>0. SUFFICES ASSUME Init PROVE IInv OBVIOUS
  <1>1. (CHOOSE c \in Callers : TRUE) \in Callers BY CallersAssumption
  <1>2. waits \in [Handlers -> Callers] BY <1>0, <1>1 DEF Init
  <1> QED BY <1>0, <1>2, BeiInitOK, InboxInitOK DEF Init, IInv

LEMMA SidesOf ==
    ASSUME NEW S \in SUBSET Trades PROVE Sides(S) \in SUBSET Sekuritas!Details
  BY DEF Sides, Sekuritas!Details

LEMMA NextOK == IInv /\ [Next]_vars => IInv'
  <1>0. SUFFICES ASSUME IInv, [Next]_vars PROVE IInv' OBVIOUS
  <1>1. BeiInv /\ InboxInv /\ waits \in [Handlers -> Callers] BY <1>0 DEF IInv
  <1>2. CASE Alone /\ UNCHANGED <<sekuritasVars, waits>>
    BY <1>1, <1>2, AloneStep, InboxStutters DEF IInv
  <1>3. ASSUME NEW h \in Handlers, NEW c \in Callers, PostSettlement(h, c) PROVE IInv'
    <2>1. /\ Notify(h) /\ Sekuritas!Receive(c, Sides(captured))
          /\ waits' = [waits EXCEPT ![h] = c]
      BY <1>3 DEF PostSettlement
    <2>2. captured \in SUBSET Trades BY <1>1, CapturedFinite DEF BeiInv
    <2>3. InboxInv' BY <1>1, <2>1, <2>2, SidesOf, ReceiveStep
    <2> QED BY <1>1, <2>1, <2>3, NotifyStep DEF IInv
  <1>4. ASSUME NEW h \in Handlers, NEW c \in Callers, AnswerSettlement(h, c) PROVE IInv'
    <2>1. Notified(h, call[c].answer) /\ Sekuritas!Answered(c) /\ UNCHANGED waits
      BY <1>4 DEF AnswerSettlement
    <2>2. call[c].answer \in {"ok", "deferred", "error"} BY <1>1, InboxBefore, CallTodo
    <2> QED BY <1>1, <2>1, <2>2, NotifiedStep, AnsweredStep DEF IInv
  <1>5. ASSUME NEW c \in Callers, AnswerNobody(c) PROVE IInv'
    BY <1>1, <1>5, AnsweredStep, BeiStutters DEF AnswerNobody, IInv
  <1>6. ASSUME NEW c \in Callers, Settlement(c) PROVE IInv'
    BY <1>1, <1>6, LookStep, TakeStep, CommitStep, BeiStutters DEF Settlement, IInv
  <1>7. ASSUME NEW c \in Callers, SettlementAborts(c) PROVE IInv'
    <2>1. /\ failures < MaxFailures /\ failures' = failures + 1 /\ Sekuritas!Abort(c)
          /\ UNCHANGED <<cycle, trading, made, finality, captured, session, blocked, index,
                         prevClose, batch, instr, ledger, run, torn>>
          /\ UNCHANGED waits
      BY <1>7 DEF SettlementAborts, mats, market
    <2>2. failures' \in 0..MaxFailures BY <1>1, <2>1, BeiAssumption DEF BeiInv, BeiTypeOK
    <2>3. BeiInv' BY <1>1, <2>1, <2>2, Elsewhere
    <2> QED BY <1>1, <2>1, <2>3, AbortStep DEF IInv
  <1>8. ASSUME NEW d \in Sides(Trades), BookFill(d) PROVE IInv'
    <2>1. d \in Sekuritas!Details BY DEF Sides, Sekuritas!Details
    <2> QED BY <1>1, <1>8, <2>1, InboxBookFillStep, BeiStutters DEF BookFill, IInv
  <1>9. CASE UNCHANGED vars
    BY <1>1, <1>9, BeiStutters, InboxStutters DEF vars, IInv
  <1> QED BY <1>0, <1>2, <1>3, <1>4, <1>5, <1>6, <1>7, <1>8, <1>9 DEF Next

LEMMA Implied == IInv => TypeOK /\ PaidOnce /\ FinalityMeansSettled /\ IndexFollowsCloses
  BY BeiImplied DEF IInv, BeiInv, InboxInv, TypeOK

LEMMA Invariant == Spec => []IInv
  BY InitOK, NextOK, PTL DEF Spec

\* The type invariant of the exchange and the broker.
THEOREM TypesOfBoth == Spec => []TypeOK
  BY Invariant, Implied, PTL

(***************************************************************************)
(* A detail is paid out once, however many calls of the webhook carry it,  *)
(* run beside each other and break off (settlement-service.ts:148-205):    *)
(* its shares as far as fills and settlements move them, its cash unless a *)
(* cash row was written over a change made since it was read.              *)
(***************************************************************************)
THEOREM PaidOutOnce == Spec => []PaidOnce
  BY Invariant, Implied, PTL

(***************************************************************************)
(* What the exchange promises by itself it keeps with the broker behind    *)
(* it, whose aborted calls use up failures as well.                        *)
(***************************************************************************)
THEOREM AnsweredIsSettledWithBroker == Spec => [](FinalityMeansSettled /\ IndexFollowsCloses)
  BY Invariant, Implied, PTL
-----------------------------------------------------------------------------
(***************************************************************************)
(* With a single closing, what is past the barrier knows all the trades    *)
(* there will ever be, and so a call that is answered well has left none   *)
(* of their sides unsettled.                                               *)
(***************************************************************************)
AllKnown == ~trading /\ captured = made

PastBarrier(h) == run[h].at \notin {"idle", "barrier"}

CallKnows(c) ==
    call[c].at # "idle" =>
      /\ AllKnown
      /\ call[c].answer = "ok" => Sides(made) \subseteq call[c].todo \cup events

RunKnows(h) == /\ PastBarrier(h) => AllKnown
               /\ run[h].at = "barrier" => run[h].cycle # 0

BatchKnows == /\ batch.note # "pending" => AllKnown
              /\ batch.note = "sent" => Sides(made) \subseteq events

InboxKnows == \A d \in Sekuritas!Details : inbox[d] = "processed" => d \in events

CountKnows == ~trading => finality[1].counted = made

SentInv == /\ CountKnows /\ BatchKnows /\ InboxKnows
           /\ \A h \in Handlers : RunKnows(h)
           /\ \A c \in Callers : CallKnows(c)

\* Nothing has come past the barrier yet, and nothing does.
LEMMA NothingKnown ==
    ASSUME SentInv, ~AllKnown, UNCHANGED <<batch, run, inbox, events, call>>, CountKnows'
    PROVE  SentInv'
  <1>1. batch.note = "pending" BY DEF SentInv, BatchKnows
  <1>2. BatchKnows' BY <1>1 DEF BatchKnows
  <1>3. InboxKnows' BY DEF SentInv, InboxKnows
  <1>4. ASSUME NEW h \in Handlers PROVE RunKnows(h)'
    BY DEF SentInv, RunKnows, PastBarrier
  <1>5. ASSUME NEW c \in Callers PROVE CallKnows(c)'
    BY DEF SentInv, CallKnows
  <1> QED BY <1>2, <1>3, <1>4, <1>5 DEF SentInv

\* A request goes on and the broker does nothing.
LEMMA RequestMoves ==
    ASSUME SentInv, NEW h \in Handlers, Others(h), UNCHANGED <<trading, made, captured>>,
           UNCHANGED <<inbox, events, call>>, CountKnows', RunKnows(h)', BatchKnows'
    PROVE  SentInv'
  <1>1. InboxKnows' BY DEF SentInv, InboxKnows
  <1>2. ASSUME NEW g \in Handlers \ {h} PROVE RunKnows(g)'
    BY DEF SentInv, RunKnows, PastBarrier, AllKnown, Others
  <1>3. ASSUME NEW c \in Callers PROVE CallKnows(c)'
    BY DEF SentInv, CallKnows, AllKnown
  <1> QED BY <1>1, <1>2, <1>3 DEF SentInv

\* Most steps of a request that is past the barrier.
LEMMA RequestGoesOn ==
    ASSUME SentInv, NEW h \in Handlers, Others(h), PastBarrier(h), run'[h].at # "barrier",
           UNCHANGED <<trading, made, captured, finality>>,
           UNCHANGED <<inbox, events, call>>, batch'.note = batch.note
    PROVE  SentInv'
  <1>1. CountKnows' BY DEF SentInv, CountKnows
  <1>2. AllKnown /\ AllKnown' BY DEF SentInv, RunKnows, AllKnown
  <1>3. RunKnows(h)' BY <1>2 DEF RunKnows
  <1>4. BatchKnows' BY <1>2 DEF SentInv, BatchKnows
  <1> QED BY <1>1, <1>3, <1>4, RequestMoves

LEMMA RequestEnds ==
    ASSUME SentInv, NEW h \in Handlers, Others(h), run'[h].at = "idle",
           UNCHANGED <<trading, made, captured, finality>>,
           UNCHANGED <<inbox, events, call>>, batch'.note = batch.note
    PROVE  SentInv'
  <1>1. CountKnows' BY DEF SentInv, CountKnows
  <1>2. RunKnows(h)' BY DEF RunKnows, PastBarrier
  <1>3. BatchKnows' BY DEF SentInv, BatchKnows, AllKnown
  <1> QED BY <1>1, <1>2, <1>3, RequestMoves

\* Past the barrier of the only closing everything that was made is captured.
LEMMA BarrierKnows ==
    ASSUME MaxCycles = 1, BeiInv, SentInv, NEW h \in Handlers, run[h].at = "barrier",
           ~(Cardinality(captured) < Expected(h))
    PROVE  AllKnown
  <1>1. run[h].cycle # 0 BY DEF SentInv, RunKnows
  <1>2. run[h].cycle = 1
    <2>1. run[h].cycle \in 0..MaxCycles BY Before
    <2> QED BY <1>1, <2>1
  <1>3. cycle = 1
    <2>1. cycle \in 1..MaxCycles BY DEF BeiInv, BeiTypeOK
    <2> QED BY <2>1
  <1>4. finality[1].state # "none" BY <1>1, <1>2 DEF BeiInv, RequestOK
  <1>5. ~trading BY <1>3, <1>4 DEF BeiInv, CyclesOK
  <1>6. finality[1].counted = made BY <1>5 DEF SentInv, CountKnows
  <1>7. Expected(h) = Cardinality(made) BY <1>2, <1>6 DEF Expected
  <1>8. captured \subseteq made /\ IsFiniteSet(made) BY DEF BeiInv, BeiTypeOK, CyclesOK
  <1>9. /\ Cardinality(made) \in Nat /\ Cardinality(captured) \in Nat
        /\ Cardinality(captured) <= Cardinality(made)
        /\ Cardinality(made) = Cardinality(captured) => made = captured
    <2>1. IsFiniteSet(captured) BY <1>8, FS_Subset
    <2> QED BY <1>8, <2>1, FS_Subset, FS_CardinalityType
  <1>10. captured = made BY <1>7, <1>9
  <1> QED BY <1>5, <1>10 DEF AllKnown

LEMMA RequestKnows ==
    ASSUME MaxCycles = 1, BeiInv, SentInv, UNCHANGED sekuritasVars, NEW h \in Handlers,
           \/ \E n \in 1..MaxCycles : PostFinality(h, n)
           \/ Aggregates(h) \/ AggregationFails(h)
           \/ Settles(h) \/ RetryNotification(h) \/ Finish(h) \/ Fails(h)
    PROVE  SentInv'
  <1>1. UNCHANGED <<inbox, events, call>> BY DEF sekuritasVars
  <1>2. /\ run \in [Handlers -> RunRecords] /\ batch \in BatchRecords
        /\ run[h].at \in Stages /\ run[h].cycle \in 0..MaxCycles
        /\ finality \in [1..MaxCycles -> FinalityRecords]
    BY Before, RunFields
  <1>3. ASSUME NEW n \in 1..MaxCycles, PostFinality(h, n) PROVE SentInv'
    <2>1. /\ run[h].at = "idle" /\ run' = [run EXCEPT ![h] = Request("barrier", n, {})]
          /\ UNCHANGED <<trading, made, finality, captured, batch>>
      BY <1>3 DEF PostFinality, At, mats
    <2>2. n \in 0..MaxCycles /\ n # 0 /\ {} \in SUBSET Instructions /\ "barrier" \in Stages
      BY BeiAssumption DEF Stages
    <2>3. Others(h) /\ run'[h].at = "barrier" /\ run'[h].cycle = n
      BY <1>2, <2>1, <2>2, NewFields
    <2>4. RunKnows(h)' BY <2>2, <2>3 DEF RunKnows, PastBarrier
    <2>5. CountKnows' /\ BatchKnows' BY <1>1, <2>1 DEF SentInv, CountKnows, BatchKnows, AllKnown
    <2> QED BY <1>1, <2>1, <2>3, <2>4, <2>5, RequestMoves
  <1>4. ASSUME Barrier(h) PROVE SentInv'
    <2>1. run[h].at = "barrier" /\ UNCHANGED <<trading, made, finality, captured, batch>>
      BY <1>4 DEF Barrier, At, mats
    <2>2. CASE Cardinality(captured) < Expected(h)
      <3>1. run' = [run EXCEPT ![h] = Idle] BY <1>4, <2>2 DEF Barrier
      <3>2. Others(h) /\ run'[h].at = "idle" BY <1>2, <3>1, IdleFields
      <3> QED BY <1>1, <2>1, <3>2, RequestEnds
    <2>3. CASE ~(Cardinality(captured) < Expected(h))
      <3>1. Goto(h, "summary") BY <1>4, <2>3 DEF Barrier
      <3>2. "summary" \in Stages BY DEF Stages
      <3>3. Others(h) /\ run'[h].at = "summary" BY <1>2, <3>1, <3>2, GotoFields
      <3>4. AllKnown' BY <2>1, <2>3, BarrierKnows DEF AllKnown
      <3>5. RunKnows(h)' BY <3>3, <3>4 DEF RunKnows
      <3>6. CountKnows' /\ BatchKnows'
        BY <1>1, <2>1 DEF SentInv, CountKnows, BatchKnows, AllKnown
      <3> QED BY <1>1, <2>1, <3>3, <3>5, <3>6, RequestMoves
    <2> QED BY <2>2, <2>3
  <1>5. ASSUME Summarise(h) PROVE SentInv'
    <2>1. PICK at \in {"batch", "index"} :
             run' = [run EXCEPT ![h].at = at, ![h].close = Latest(captured)]
      BY <1>5 DEF Summarise
    <2>2. at \in Stages BY <2>1 DEF Stages
    <2>3. Latest(captured) \in Trades \cup {0} BY CapturedFinite, LatestType DEF BeiInv
    <2>4. Others(h) /\ run'[h].at = at BY <1>2, <2>1, <2>2, <2>3, CloseFields
    <2>5. run[h].at = "summary" /\ UNCHANGED <<trading, made, finality, captured, batch>>
      BY <1>5 DEF Summarise, At, mats
    <2> QED BY <1>1, <2>1, <2>4, <2>5, RequestGoesOn DEF PastBarrier
  <1>6. ASSUME MoveIndex(h) \/ MoveClose(h) \/ AggregationFails(h) PROVE SentInv'
    <2>1. PICK stage \in {"close", "batch"} : Goto(h, stage)
      BY <1>6 DEF MoveIndex, MoveClose, AggregationFails
    <2>2. stage \in Stages BY <2>1 DEF Stages
    <2>3. Others(h) /\ run'[h].at = stage BY <1>2, <2>1, <2>2, GotoFields
    <2>4. /\ run[h].at \in {"summary", "index", "close"}
          /\ UNCHANGED <<trading, made, finality, captured, batch>>
      BY <1>6 DEF MoveIndex, MoveClose, AggregationFails, At, mats
    <2> QED BY <1>1, <2>1, <2>3, <2>4, RequestGoesOn DEF PastBarrier
  <1>7. ASSUME CreateBatch(h) PROVE SentInv'
    <2>1. /\ run[h].at = "batch" /\ UNCHANGED <<trading, made, finality, captured>>
          /\ run' = [run EXCEPT ![h].at = "instruct", ![h].traded = captured]
          /\ batch' = IF batch.status = "none" THEN [batch EXCEPT !.status = "pending"] ELSE batch
      BY <1>7 DEF CreateBatch, At, mats
    <2>2. captured \in SUBSET Trades /\ "instruct" \in Stages
      BY CapturedFinite DEF BeiInv, Stages
    <2>3. Others(h) /\ run'[h].at = "instruct" BY <1>2, <2>1, <2>2, TradedFields
    <2>4. batch'.note = batch.note BY <1>2, <2>1 DEF BatchRecords
    <2> QED BY <1>1, <2>1, <2>3, <2>4, RequestGoesOn DEF PastBarrier
  <1>8. ASSUME Instruct(h) PROVE SentInv'
    <2>1. PICK t : run' = [run EXCEPT ![h].traded = @ \ {t}] BY <1>8 DEF Instruct
    <2>2. run[h].at = "instruct" /\ UNCHANGED <<trading, made, finality, captured, batch>>
      BY <1>8 DEF Instruct, At, mats
    <2>3. Others(h) /\ run'[h].at = run[h].at BY <1>2, <2>1, LessFields
    <2> QED BY <1>1, <2>2, <2>3, RequestGoesOn DEF PastBarrier
  <1>9. ASSUME SelectInstructions(h) \/ MarkSettled(h) PROVE SentInv'
    <2>1. PICK todo \in SUBSET Instructions : Work(h, "book", todo)
      <3>1. CASE SelectInstructions(h)
        <4>1. {i \in Instructions : instr[i] = "ready"} \in SUBSET Instructions OBVIOUS
        <4> QED BY <3>1, <4>1 DEF SelectInstructions
      <3>2. CASE MarkSettled(h)
        <4>1. PICK i : Work(h, "book", run[h].todo \ {i}) BY <3>2 DEF MarkSettled
        <4>2. run[h].todo \ {i} \in SUBSET Instructions BY <1>2, RunFields
        <4> QED BY <4>1, <4>2
      <3> QED BY <1>9, <3>1, <3>2
    <2>2. "book" \in Stages BY DEF Stages
    <2>3. Others(h) /\ run'[h].at = "book" BY <1>2, <2>1, <2>2, WorkFields
    <2>4. /\ run[h].at \in {"instruct", "mark"}
          /\ UNCHANGED <<trading, made, finality, captured, batch>>
      BY <1>9 DEF SelectInstructions, MarkSettled, At, mats
    <2> QED BY <1>1, <2>3, <2>4, RequestGoesOn DEF PastBarrier
  <1>10. ASSUME BookLedger(h) \/ SettleBatch(h) PROVE SentInv'
    <2>1. PICK stage \in {"mark", "notify"} : Goto(h, stage)
      BY <1>10 DEF BookLedger, SettleBatch
    <2>2. stage \in Stages BY <2>1 DEF Stages
    <2>3. Others(h) /\ run'[h].at = stage BY <1>2, <2>1, <2>2, GotoFields
    <2>4. /\ run[h].at = "book" /\ UNCHANGED <<trading, made, finality, captured>>
          /\ batch' = batch \/ batch' = [batch EXCEPT !.status = "settled"]
      BY <1>10 DEF BookLedger, SettleBatch, At, mats
    <2>5. batch'.note = batch.note BY <1>2, <2>4 DEF BatchRecords
    <2> QED BY <1>1, <2>1, <2>3, <2>4, <2>5, RequestGoesOn DEF PastBarrier
  <1>11. ASSUME NothingToNotify(h) PROVE SentInv'
    <2>1. /\ run[h].at = "notify" /\ captured = {} /\ Goto(h, "end")
          /\ batch' = [batch EXCEPT !.note = "sent"]
          /\ UNCHANGED <<trading, made, finality, captured>>
      BY <1>11 DEF NothingToNotify, At, mats
    <2>2. "end" \in Stages BY DEF Stages
    <2>3. Others(h) /\ run'[h].at = "end" BY <1>2, <2>1, <2>2, GotoFields
    <2>4. AllKnown BY <2>1 DEF SentInv, RunKnows, PastBarrier
    <2>5. AllKnown' /\ made' = {} BY <2>1, <2>4 DEF AllKnown
    <2>6. RunKnows(h)' BY <2>3, <2>5 DEF RunKnows
    <2>7. BatchKnows' BY <2>5 DEF BatchKnows, Sides
    <2>8. CountKnows' BY <2>1 DEF SentInv, CountKnows
    <2> QED BY <1>1, <2>1, <2>3, <2>6, <2>7, <2>8, RequestMoves
  <1>12. ASSUME RetryNotification(h) PROVE SentInv'
    <2>1. /\ run[h].at = "idle" /\ batch.note \in {"deferred", "failed"}
          /\ run' = [run EXCEPT ![h] = Request("book", 0, {i \in Instructions : instr[i] = "ready"})]
          /\ UNCHANGED <<trading, made, finality, captured, batch>>
      BY <1>12 DEF RetryNotification, At, mats
    <2>2. /\ {i \in Instructions : instr[i] = "ready"} \in SUBSET Instructions
          /\ 0 \in 0..MaxCycles /\ "book" \in Stages
      BY BeiAssumption DEF Stages
    <2>3. Others(h) /\ run'[h].at = "book" BY <1>2, <2>1, <2>2, NewFields
    <2>4. AllKnown' BY <2>1 DEF SentInv, BatchKnows, AllKnown
    <2>5. RunKnows(h)' BY <2>3, <2>4 DEF RunKnows
    <2>6. CountKnows' /\ BatchKnows' BY <1>1, <2>1 DEF SentInv, CountKnows, BatchKnows, AllKnown
    <2> QED BY <1>1, <2>1, <2>3, <2>5, <2>6, RequestMoves
  <1>13. ASSUME Finish(h) PROVE SentInv'
    <2>1. /\ run' = [run EXCEPT ![h] = Idle] /\ UNCHANGED <<trading, made, captured, batch>>
          /\ \/ UNCHANGED finality
             \/ /\ run[h].cycle # 0
                /\ finality' = [finality EXCEPT ![run[h].cycle].state = "done"]
      BY <1>13 DEF Finish
    <2>2. Others(h) /\ run'[h].at = "idle" BY <1>2, <2>1, IdleFields
    <2>3. finality'[1].counted = finality[1].counted
      <3>1. 1 \in 1..MaxCycles OBVIOUS
      <3>2. PICK n : n = run[h].cycle OBVIOUS
      <3>3. CASE n # 0 /\ finality' = [finality EXCEPT ![n].state = "done"]
        <4>1. n \in 1..MaxCycles BY <1>2, <3>2, <3>3
        <4> QED BY <1>2, <3>1, <3>3, <4>1 DEF FinalityRecords
      <3> QED BY <2>1, <3>2, <3>3
    <2>4. CountKnows' BY <2>1, <2>3 DEF SentInv, CountKnows
    <2>5. RunKnows(h)' BY <2>2 DEF RunKnows, PastBarrier
    <2>6. BatchKnows' BY <1>1, <2>1 DEF SentInv, BatchKnows, AllKnown
    <2> QED BY <1>1, <2>1, <2>2, <2>4, <2>5, <2>6, RequestMoves
  <1>14. ASSUME Fails(h) PROVE SentInv'
    <2>1. /\ run' = [run EXCEPT ![h] = Idle]
          /\ UNCHANGED <<trading, made, finality, captured, batch>>
      BY <1>14 DEF Fails, mats
    <2>2. Others(h) /\ run'[h].at = "idle" BY <1>2, <2>1, IdleFields
    <2> QED BY <1>1, <2>1, <2>2, RequestEnds
  <1> QED
    BY <1>3, <1>4, <1>5, <1>6, <1>7, <1>8, <1>9, <1>10, <1>11, <1>12, <1>13, <1>14
    DEF Aggregates, Settles

LEMMA AloneKnows ==
    ASSUME MaxCycles = 1, BeiInv, SentInv, Alone, UNCHANGED sekuritasVars
    PROVE  SentInv'
  <1>1. UNCHANGED <<inbox, events, call>> BY DEF sekuritasVars
  <1>2. cycle = 1 /\ 1 \in 1..MaxCycles /\ finality \in [1..MaxCycles -> FinalityRecords]
    <2>1. cycle \in 1..MaxCycles BY DEF BeiInv, BeiTypeOK
    <2> QED BY <2>1 DEF BeiInv, BeiTypeOK
  <1>3. ASSUME NEW t \in Trades, MakeTrade(t) PROVE SentInv'
    <2>1. trading /\ UNCHANGED <<trading, batch, run>> BY <1>3 DEF MakeTrade
    <2>2. ~AllKnown /\ CountKnows' BY <2>1 DEF AllKnown, CountKnows
    <2> QED BY <1>1, <2>1, <2>2, NothingKnown
  <1>4. ASSUME NEW t \in Trades, Capture(t) PROVE SentInv'
    <2>1. t \in made \ captured /\ UNCHANGED <<trading, made, finality, batch, run>>
      BY <1>4 DEF Capture, mats
    <2>2. ~AllKnown BY <2>1 DEF AllKnown
    <2>3. CountKnows' BY <2>1 DEF SentInv, CountKnows
    <2> QED BY <1>1, <2>1, <2>2, <2>3, NothingKnown
  <1>5. ASSUME CloseSession PROVE SentInv'
    <2>1. /\ trading /\ UNCHANGED <<made, batch, run>>
          /\ finality' = [finality EXCEPT ![cycle] = [state |-> "due", counted |-> made]]
      BY <1>5 DEF CloseSession
    <2>2. ~AllKnown BY <2>1 DEF AllKnown
    <2>3. finality'[1].counted = made' BY <1>2, <2>1
    <2> QED BY <1>1, <2>1, <2>2, <2>3, NothingKnown DEF CountKnows
  <1>6. ~ReopenSession BY <1>2 DEF ReopenSession
  <1>7. ASSUME NEW h \in Handlers,
               \/ \E n \in 1..MaxCycles : PostFinality(h, n)
               \/ Aggregates(h) \/ AggregationFails(h)
               \/ Settles(h) \/ RetryNotification(h) \/ Finish(h) \/ Fails(h)
        PROVE  SentInv'
    BY <1>7, RequestKnows
  <1> QED BY <1>3, <1>4, <1>5, <1>6, <1>7 DEF Alone

\* A call of the webhook goes on and the exchange does nothing.
LEMMA CallMoves ==
    ASSUME SentInv, NEW c \in Callers, Beside(c), events \subseteq events',
           UNCHANGED <<trading, made, captured, finality, batch, run>>,
           InboxKnows', CallKnows(c)'
    PROVE  SentInv'
  <1>1. CountKnows' BY DEF SentInv, CountKnows
  <1>2. BatchKnows' BY DEF SentInv, BatchKnows, AllKnown
  <1>3. ASSUME NEW h \in Handlers PROVE RunKnows(h)'
    BY DEF SentInv, RunKnows, PastBarrier, AllKnown
  <1>4. ASSUME NEW b \in Callers \ {c} PROVE CallKnows(b)'
    BY DEF SentInv, CallKnows, AllKnown, Beside
  <1> QED BY <1>1, <1>2, <1>3, <1>4 DEF SentInv

LEMMA CallValues ==
    ASSUME call \in [Callers -> Sekuritas!CallRecords], NEW c \in Callers, NEW stage, NEW todo,
           NEW answer, call' = [call EXCEPT ![c] = Sekuritas!Call(stage, todo, answer)]
    PROVE  /\ Beside(c)
           /\ call'[c].at = stage /\ call'[c].todo = todo /\ call'[c].answer = answer
  <1>1. PICK r : r = Sekuritas!Call(stage, todo, answer) OBVIOUS
  <1>2. r.at = stage /\ r.todo = todo /\ r.answer = answer BY <1>1 DEF Sekuritas!Call
  <1>3. call' = [call EXCEPT ![c] = r] BY <1>1
  <1> QED BY <1>2, <1>3 DEF Beside

\* Passing a detail by keeps what the call knows, if a good answer means that
\* the detail is settled.
LEMMA PassingKnows ==
    ASSUME SentInv, call \in [Callers -> Sekuritas!CallRecords], NEW c \in Callers,
           call[c].at # "idle", NEW d, NEW answer \in {"ok", "deferred"},
           call' = Sekuritas!Passed(c, d, answer), answer = "ok" => d \in events',
           events \subseteq events', UNCHANGED <<trading, made, captured>>
    PROVE  Beside(c) /\ CallKnows(c)'
  <1>1. PICK a : a = IF answer = "ok" THEN call[c].answer ELSE answer OBVIOUS
  <1>2. PICK todo : todo = call[c].todo \ {d} OBVIOUS
  <1>3. call' = [call EXCEPT ![c] = Sekuritas!Call("look", todo, a)]
    BY <1>1, <1>2 DEF Sekuritas!Passed
  <1>4. /\ Beside(c) /\ call'[c].at = "look" /\ call'[c].todo = todo /\ call'[c].answer = a
    <2>1. PICK r : r = Sekuritas!Call("look", todo, a) OBVIOUS
    <2>2. r.at = "look" /\ r.todo = todo /\ r.answer = a BY <2>1 DEF Sekuritas!Call
    <2>3. call' = [call EXCEPT ![c] = r] BY <1>3, <2>1
    <2> QED BY <2>2, <2>3 DEF Beside
  <1>5. AllKnown /\ AllKnown' BY DEF SentInv, CallKnows, AllKnown
  <1>6. ASSUME a = "ok" PROVE Sides(made) \subseteq todo \cup events'
    <2>1. answer = "ok" /\ call[c].answer = "ok" BY <1>1, <1>6
    <2>2. Sides(made) \subseteq call[c].todo \cup events BY <2>1 DEF SentInv, CallKnows
    <2> QED BY <1>2, <2>1, <2>2
  <1>7. Sides(made)' = Sides(made) BY DEF Sides
  <1> QED BY <1>4, <1>5, <1>6, <1>7 DEF CallKnows

LEMMA FailingKnows ==
    ASSUME SentInv, call \in [Callers -> Sekuritas!CallRecords], NEW c \in Callers,
           call[c].at # "idle", call' = Sekuritas!Failed(c),
           UNCHANGED <<trading, made, captured>>
    PROVE  Beside(c) /\ CallKnows(c)'
  <1>1. Beside(c) /\ call'[c].answer = "error" BY CallValues DEF Sekuritas!Failed
  <1>2. AllKnown' BY DEF SentInv, CallKnows, AllKnown
  <1> QED BY <1>1, <1>2 DEF CallKnows

LEMMA SettlementKnows ==
    ASSUME InboxInv, SentInv, NEW c \in Callers,
           Sekuritas!Look(c) \/ Sekuritas!Take(c) \/ Sekuritas!Commit(c) \/ Sekuritas!Abort(c),
           UNCHANGED <<trading, made, captured, finality, batch, run>>
    PROVE  SentInv'
  <1>1. /\ call \in [Callers -> Sekuritas!CallRecords]
        /\ inbox \in [Sekuritas!Details -> {"none", "pending", "processed"}]
    BY InboxBefore
  <1>2. call[c].at # "idle"
    BY DEF Sekuritas!Look, Sekuritas!Take, Sekuritas!Commit, Sekuritas!Abort
  <1>3. \A d \in Sekuritas!NextOf(call[c].todo) : d \in Sekuritas!Details
    BY <1>1, CallTodo DEF Sekuritas!NextOf
  <1>4. CASE Sekuritas!Look(c)
    <2>1. PICK d \in Sekuritas!NextOf(call[c].todo) :
             call' = IF inbox[d] = "processed"
                       THEN Sekuritas!Passed(c, d, "ok")
                       ELSE [call EXCEPT ![c].at = "take", ![c].seen = inbox[d] # "none"]
      BY <1>4 DEF Sekuritas!Look
    <2>2. UNCHANGED <<inbox, events>> BY <1>4 DEF Sekuritas!Look
    <2>3. InboxKnows' BY <2>2 DEF SentInv, InboxKnows
    <2>4. CASE inbox[d] = "processed"
      <3>1. call' = Sekuritas!Passed(c, d, "ok") BY <2>1, <2>4
      <3>2. d \in events' BY <1>3, <2>1, <2>2, <2>4 DEF SentInv, InboxKnows
      <3>3. Beside(c) /\ CallKnows(c)' BY <1>1, <1>2, <2>2, <3>1, <3>2, PassingKnows
      <3> QED BY <2>2, <2>3, <3>3, CallMoves
    <2>5. CASE inbox[d] # "processed"
      <3>1. call' = [call EXCEPT ![c].at = "take", ![c].seen = inbox[d] # "none"]
        BY <2>1, <2>5
      <3>2. Beside(c) BY <1>1, <3>1 DEF Beside, Sekuritas!CallRecords
      <3>3. call'[c].todo = call[c].todo /\ call'[c].answer = call[c].answer
        BY <1>1, <3>1 DEF Sekuritas!CallRecords
      <3>4. CallKnows(c)' BY <1>2, <2>2, <3>3 DEF SentInv, CallKnows, AllKnown, Sides
      <3> QED BY <2>2, <2>3, <3>2, <3>4, CallMoves
    <2> QED BY <2>4, <2>5
  <1>5. CASE Sekuritas!Take(c)
    <2>1. PICK d \in Sekuritas!NextOf(call[c].todo) :
             /\ \/ call' = Sekuritas!Failed(c) /\ UNCHANGED inbox
                \/ Sekuritas!Defers(c, d) \/ Sekuritas!Repeats(c, d) \/ Sekuritas!Proceeds(c, d)
             /\ UNCHANGED <<booked, events, cash, shares, overwritten>>
      BY <1>5 DEF Sekuritas!Take
    <2>2. UNCHANGED events /\ d \in Sekuritas!Details BY <1>3, <2>1
    <2>3. CASE call' = Sekuritas!Failed(c) /\ UNCHANGED inbox
      <3>1. InboxKnows' BY <2>2, <2>3 DEF SentInv, InboxKnows
      <3>2. Beside(c) /\ CallKnows(c)' BY <1>1, <1>2, <2>3, FailingKnows
      <3> QED BY <2>2, <3>1, <3>2, CallMoves
    <2>4. CASE Sekuritas!Defers(c, d)
      <3>1. inbox' = [inbox EXCEPT ![d] = "pending"] /\ call' = Sekuritas!Passed(c, d, "deferred")
        BY <2>4 DEF Sekuritas!Defers
      <3>2. InboxKnows' BY <1>1, <2>2, <3>1 DEF SentInv, InboxKnows
      <3>3. Beside(c) /\ CallKnows(c)' BY <1>1, <1>2, <2>2, <3>1, PassingKnows
      <3> QED BY <2>2, <3>2, <3>3, CallMoves
    <2>5. CASE Sekuritas!Repeats(c, d)
      <3>1. /\ inbox' = [inbox EXCEPT ![d] = "processed"] /\ d \in events
            /\ call' = Sekuritas!Passed(c, d, "ok")
        BY <2>5 DEF Sekuritas!Repeats
      <3>2. InboxKnows' BY <1>1, <2>2, <3>1 DEF SentInv, InboxKnows
      <3>3. d \in events' BY <2>2, <3>1
      <3>4. Beside(c) /\ CallKnows(c)' BY <1>1, <1>2, <2>2, <3>1, <3>3, PassingKnows
      <3> QED BY <2>2, <3>2, <3>4, CallMoves
    <2>6. CASE Sekuritas!Proceeds(c, d)
      <3>1. call' = [call EXCEPT ![c].at = "write", ![c].read = cash] /\ UNCHANGED inbox
        BY <2>6 DEF Sekuritas!Proceeds
      <3>2. InboxKnows' BY <2>2, <3>1 DEF SentInv, InboxKnows
      <3>3. Beside(c) BY <1>1, <3>1 DEF Beside, Sekuritas!CallRecords
      <3>4. call'[c].todo = call[c].todo /\ call'[c].answer = call[c].answer
        BY <1>1, <3>1 DEF Sekuritas!CallRecords
      <3>5. CallKnows(c)' BY <1>2, <2>2, <3>4 DEF SentInv, CallKnows, AllKnown, Sides
      <3> QED BY <2>2, <3>2, <3>3, <3>5, CallMoves
    <2> QED BY <2>1, <2>3, <2>4, <2>5, <2>6
  <1>6. CASE Sekuritas!Commit(c)
    <2>1. PICK d \in Sekuritas!NextOf(call[c].todo) :
             /\ events' = events \cup {d} /\ inbox' = [inbox EXCEPT ![d] = "processed"]
             /\ call' = Sekuritas!Passed(c, d, "ok")
      BY <1>6 DEF Sekuritas!Commit
    <2>2. InboxKnows' BY <1>1, <1>3, <2>1 DEF SentInv, InboxKnows
    <2>3. d \in events' /\ events \subseteq events' BY <2>1
    <2>4. Beside(c) /\ CallKnows(c)' BY <1>1, <1>2, <2>1, <2>3, PassingKnows
    <2> QED BY <2>2, <2>3, <2>4, CallMoves
  <1>7. CASE Sekuritas!Abort(c)
    <2>1. call' = Sekuritas!Failed(c) /\ UNCHANGED <<inbox, events>>
      BY <1>7 DEF Sekuritas!Abort
    <2>2. InboxKnows' BY <2>1 DEF SentInv, InboxKnows
    <2>3. Beside(c) /\ CallKnows(c)' BY <1>1, <1>2, <2>1, FailingKnows
    <2> QED BY <2>1, <2>2, <2>3, CallMoves
  <1> QED BY <1>4, <1>5, <1>6, <1>7

\* An answered call is free again.
LEMMA AnsweredKnows ==
    ASSUME InboxInv, SentInv, NEW c \in Callers, Sekuritas!Answered(c)
    PROVE  /\ Beside(c) /\ CallKnows(c)' /\ UNCHANGED <<inbox, events>> /\ InboxKnows'
           /\ call[c].at = "look" /\ call[c].todo = {}
  <1>1. /\ call' = [call EXCEPT ![c] = Sekuritas!Call("idle", {}, "ok")]
        /\ UNCHANGED <<inbox, events>> /\ call[c].at = "look" /\ call[c].todo = {}
    BY DEF Sekuritas!Answered, Sekuritas!NoCall, Sekuritas!Done
  <1>2. call \in [Callers -> Sekuritas!CallRecords] BY InboxBefore
  <1>3. Beside(c) /\ call'[c].at = "idle" BY <1>1, <1>2, CallValues
  <1>4. InboxKnows' BY <1>1 DEF SentInv, InboxKnows
  <1> QED BY <1>1, <1>3, <1>4 DEF CallKnows

\* A request posts its trades, or takes the answer.
LEMMA PostingKnows ==
    ASSUME IInv, SentInv, NEW h \in Handlers, NEW c \in Callers, PostSettlement(h, c)
    PROVE  SentInv'
  <1>1. /\ run[h].at = "notify" /\ Goto(h, "wait")
        /\ UNCHANGED <<trading, made, finality, captured, batch>>
        /\ call[c].at = "idle" /\ UNCHANGED <<inbox, events>>
        /\ call' = [call EXCEPT ![c] = Sekuritas!Call("look", Sides(captured), "ok")]
    BY DEF PostSettlement, Notify, At, mats, Sekuritas!Receive
  <1>2. run \in [Handlers -> RunRecords] /\ "wait" \in Stages BY Before DEF IInv, Stages
  <1>3. Others(h) /\ run'[h].at = "wait" BY <1>1, <1>2, GotoFields
  <1>4. call \in [Callers -> Sekuritas!CallRecords] BY InboxBefore DEF IInv
  <1>5. Beside(c) /\ call'[c].todo = Sides(captured) BY <1>1, <1>4, CallValues
  <1>6. AllKnown BY <1>1 DEF SentInv, RunKnows, PastBarrier
  <1>7. AllKnown' BY <1>1, <1>6 DEF AllKnown
  <1>8. CallKnows(c)' BY <1>1, <1>5, <1>6, <1>7 DEF CallKnows, AllKnown, Sides
  <1>9. CountKnows' /\ InboxKnows' BY <1>1 DEF SentInv, CountKnows, InboxKnows
  <1>10. BatchKnows' BY <1>1 DEF SentInv, BatchKnows, AllKnown
  <1>11. ASSUME NEW g \in Handlers PROVE RunKnows(g)'
    <2>1. run'[g].at # "barrier" \/ run'[g] = run[g] BY <1>3 DEF Others
    <2> QED BY <1>7, <2>1 DEF SentInv, RunKnows
  <1>12. ASSUME NEW b \in Callers \ {c} PROVE CallKnows(b)'
    BY <1>1, <1>5 DEF SentInv, CallKnows, AllKnown, Beside, Sides
  <1> QED BY <1>8, <1>9, <1>10, <1>11, <1>12 DEF SentInv

LEMMA AnsweringKnows ==
    ASSUME IInv, SentInv, NEW h \in Handlers, NEW c \in Callers, AnswerSettlement(h, c)
    PROVE  SentInv'
  <1>1. /\ run[h].at = "wait" /\ batch' = [batch EXCEPT !.note = Note(call[c].answer)]
        /\ \/ run' = [run EXCEPT ![h] = Idle]
           \/ Goto(h, "end")
        /\ UNCHANGED <<trading, made, finality, captured>> /\ Sekuritas!Answered(c)
    BY DEF AnswerSettlement, Notified, At, mats
  <1>2. /\ run \in [Handlers -> RunRecords] /\ "end" \in Stages /\ batch \in BatchRecords
    BY Before DEF IInv, Stages
  <1>3. Others(h) /\ run'[h].at \in {"idle", "end"}
    BY <1>1, <1>2, IdleFields, GotoFields
  <1>4. /\ Beside(c) /\ CallKnows(c)' /\ UNCHANGED <<inbox, events>> /\ InboxKnows'
        /\ call[c].at = "look" /\ call[c].todo = {}
    BY <1>1, AnsweredKnows DEF IInv
  <1>5. AllKnown /\ (call[c].answer = "ok" => Sides(made) \subseteq events)
    BY <1>4 DEF SentInv, CallKnows
  <1>6. AllKnown' BY <1>1, <1>5 DEF AllKnown
  <1>7. batch'.note = "sent" => call[c].answer = "ok"
    <2>1. call[c].answer \in {"ok", "deferred", "error"} BY InboxBefore, CallTodo DEF IInv
    <2>2. batch'.note = Note(call[c].answer) BY <1>1, <1>2 DEF BatchRecords
    <2> QED BY <2>1, <2>2 DEF Note
  <1>8. BatchKnows' BY <1>1, <1>4, <1>5, <1>6, <1>7 DEF BatchKnows, Sides
  <1>9. CountKnows' BY <1>1 DEF SentInv, CountKnows
  <1>10. ASSUME NEW g \in Handlers PROVE RunKnows(g)'
    <2>1. run'[g].at # "barrier" \/ run'[g] = run[g] BY <1>3 DEF Others
    <2> QED BY <1>6, <2>1 DEF SentInv, RunKnows
  <1>11. ASSUME NEW b \in Callers \ {c} PROVE CallKnows(b)'
    BY <1>1, <1>4 DEF SentInv, CallKnows, AllKnown, Beside, Sides
  <1> QED BY <1>4, <1>8, <1>9, <1>10, <1>11 DEF SentInv

LEMMA SentInitOK == Init => SentInv
  <1> SUFFICES ASSUME Init PROVE SentInv OBVIOUS
  <1>1. trading /\ batch.note = "pending" /\ \A h \in Handlers : run[h].at = "idle"
    BY DEF Init, BeiInit, Idle, Request
  <1>2. \A d \in Sekuritas!Details : inbox[d] = "none" BY DEF Init, Sekuritas!InboxInit
  <1>3. \A c \in Callers : call[c].at = "idle"
    BY DEF Init, Sekuritas!InboxInit, Sekuritas!NoCall, Sekuritas!Call
  <1> QED BY <1>1, <1>2, <1>3
      DEF SentInv, CountKnows, BatchKnows, InboxKnows, RunKnows, PastBarrier, CallKnows

LEMMA SentNextOK == MaxCycles = 1 => (IInv /\ SentInv /\ [Next]_vars => SentInv')
  <1>0. SUFFICES ASSUME MaxCycles = 1, IInv, SentInv, [Next]_vars PROVE SentInv' OBVIOUS
  <1>1. BeiInv /\ InboxInv BY <1>0 DEF IInv
  <1>2. CASE Alone /\ UNCHANGED <<sekuritasVars, waits>>
    BY <1>0, <1>1, <1>2, AloneKnows
  <1>3. CASE \E h \in Handlers, c \in Callers : PostSettlement(h, c) \/ AnswerSettlement(h, c)
    BY <1>0, <1>3, PostingKnows, AnsweringKnows
  <1>4. ASSUME NEW c \in Callers, AnswerNobody(c) PROVE SentInv'
    <2>1. Sekuritas!Answered(c) /\ UNCHANGED <<trading, made, captured, finality, batch, run>>
      BY <1>4 DEF AnswerNobody, beiVars
    <2>2. Beside(c) /\ CallKnows(c)' /\ UNCHANGED <<inbox, events>> /\ InboxKnows'
      BY <1>0, <1>1, <2>1, AnsweredKnows
    <2> QED BY <1>0, <2>1, <2>2, CallMoves
  <1>5. ASSUME NEW c \in Callers, Settlement(c) \/ SettlementAborts(c) PROVE SentInv'
    <2>1. UNCHANGED <<trading, made, captured, finality, batch, run>>
      BY <1>5 DEF Settlement, SettlementAborts, beiVars, mats
    <2>2. Sekuritas!Look(c) \/ Sekuritas!Take(c) \/ Sekuritas!Commit(c) \/ Sekuritas!Abort(c)
      BY <1>5 DEF Settlement, SettlementAborts
    <2> QED BY <1>0, <1>1, <2>1, <2>2, SettlementKnows
  <1>6. CASE (\E d \in Sides(Trades) : BookFill(d)) \/ UNCHANGED vars
    <2>1. UNCHANGED <<trading, made, captured, finality, batch, run, inbox, events, call>>
      BY <1>6 DEF BookFill, Sekuritas!BookFill, vars, beiVars, sekuritasVars
    <2> QED BY <1>0, <2>1
        DEF SentInv, CountKnows, BatchKnows, InboxKnows, RunKnows, PastBarrier, CallKnows,
            AllKnown, Sides
  <1> QED BY <1>0, <1>2, <1>3, <1>4, <1>5, <1>6 DEF Next

(***************************************************************************)
(* With a single closing, a notification that counts as sent means that    *)
(* the broker has settled both sides of every trade, whatever requests and *)
(* calls overlap, are deferred, repeated or break off                      *)
(* (settlement.ts:222-240).                                                *)
(***************************************************************************)
THEOREM SentIsSettled ==
    ASSUME MaxCycles = 1 PROVE Spec => []SentMeansSettled
  <1>1. SentInv => SentMeansSettled
    <2> SUFFICES ASSUME SentInv, batch.note = "sent", NEW t \in made
                 PROVE  Sides({t}) \subseteq events
      BY DEF SentMeansSettled
    <2>1. Sides(made) \subseteq events BY DEF SentInv, BatchKnows
    <2> QED BY <2>1 DEF Sides
  <1>2. IInv /\ SentInv /\ [Next]_vars => SentInv' BY SentNextOK
  <1> QED BY <1>1, <1>2, SentInitOK, Invariant, PTL DEF Spec
-----------------------------------------------------------------------------
(***************************************************************************)
(* What an end of the work leaves to be done.  The notification of a       *)
(* closing that is answered has been sent, deferred or has failed; it is   *)
(* never left pending, in which case nobody would look at it again.        *)
(***************************************************************************)
NoteInv == /\ \A n \in 1..MaxCycles : finality[n].state = "done" => batch.note # "pending"
           /\ \A h \in Handlers : run[h].at = "end" => batch.note # "pending"

\* The interval looks for the notification (settlement.ts:386).
IsRepeated == batch.note \in {"deferred", "failed"}

AnsweredIsNoted ==
    (\E n \in 1..MaxCycles : finality[n].state = "done") => batch.note = "sent" \/ IsRepeated

\* A trade that MATS counted is settled at both ends, or settled at the
\* exchange and the interval will tell the broker again.
NothingForgotten ==
    AtRest => \A n \in 1..MaxCycles : \A t \in finality[n].counted :
      finality[n].state = "done" => Settled(t) /\ (Sides({t}) \subseteq events \/ IsRepeated)

\* A request moves on, and not to its end.
LEMMA NoteKept ==
    ASSUME NoteInv, NEW h \in Handlers, Others(h), run'[h].at # "end", UNCHANGED finality,
           batch'.note = batch.note
    PROVE  NoteInv'
  <1>1. \A g \in Handlers : run'[g].at = "end" => run[g].at = "end" BY DEF Others
  <1> QED BY <1>1 DEF NoteInv

\* The exchange's requests do not move.
LEMMA NoteStays ==
    ASSUME NoteInv, UNCHANGED <<run, batch>>,
           \A n \in 1..MaxCycles : finality'[n].state = "done" => finality[n].state = "done"
    PROVE  NoteInv'
  BY DEF NoteInv

LEMMA RequestNotes ==
    ASSUME BeiInv, NoteInv, NEW h \in Handlers,
           \/ \E n \in 1..MaxCycles : PostFinality(h, n)
           \/ Aggregates(h) \/ AggregationFails(h)
           \/ Settles(h) \/ RetryNotification(h) \/ Finish(h) \/ Fails(h)
    PROVE  NoteInv'
  <1>2. /\ run \in [Handlers -> RunRecords] /\ batch \in BatchRecords
        /\ run[h].at \in Stages /\ run[h].cycle \in 0..MaxCycles
        /\ finality \in [1..MaxCycles -> FinalityRecords]
    BY Before, RunFields
  <1>3. ASSUME NEW n \in 1..MaxCycles, PostFinality(h, n) PROVE NoteInv'
    <2>1. run' = [run EXCEPT ![h] = Request("barrier", n, {})] /\ UNCHANGED <<finality, batch>>
      BY <1>3 DEF PostFinality, mats
    <2>2. n \in 0..MaxCycles /\ {} \in SUBSET Instructions /\ "barrier" \in Stages
      BY BeiAssumption DEF Stages
    <2>3. Others(h) /\ run'[h].at = "barrier" BY <1>2, <2>1, <2>2, NewFields
    <2> QED BY <2>1, <2>3, NoteKept
  <1>4. ASSUME Barrier(h) PROVE NoteInv'
    <2>1. UNCHANGED <<finality, batch>> /\ (run' = [run EXCEPT ![h] = Idle] \/ Goto(h, "summary"))
      BY <1>4 DEF Barrier, mats
    <2>2. "summary" \in Stages BY DEF Stages
    <2>3. Others(h) /\ run'[h].at # "end" BY <1>2, <2>1, <2>2, IdleFields, GotoFields
    <2> QED BY <2>1, <2>3, NoteKept
  <1>5. ASSUME Summarise(h) PROVE NoteInv'
    <2>1. PICK at \in {"batch", "index"} :
             run' = [run EXCEPT ![h].at = at, ![h].close = Latest(captured)]
      BY <1>5 DEF Summarise
    <2>2. at \in Stages BY <2>1 DEF Stages
    <2>3. Latest(captured) \in Trades \cup {0} BY CapturedFinite, LatestType DEF BeiInv
    <2>4. Others(h) /\ run'[h].at = at BY <1>2, <2>1, <2>2, <2>3, CloseFields
    <2>5. UNCHANGED <<finality, batch>> BY <1>5 DEF Summarise, mats
    <2> QED BY <2>1, <2>4, <2>5, NoteKept
  <1>6. ASSUME MoveIndex(h) \/ MoveClose(h) \/ AggregationFails(h) PROVE NoteInv'
    <2>1. PICK stage \in {"close", "batch"} : Goto(h, stage)
      BY <1>6 DEF MoveIndex, MoveClose, AggregationFails
    <2>2. stage \in Stages BY <2>1 DEF Stages
    <2>3. Others(h) /\ run'[h].at = stage BY <1>2, <2>1, <2>2, GotoFields
    <2>4. UNCHANGED <<finality, batch>>
      BY <1>6 DEF MoveIndex, MoveClose, AggregationFails, mats
    <2> QED BY <2>1, <2>3, <2>4, NoteKept
  <1>7. ASSUME CreateBatch(h) PROVE NoteInv'
    <2>1. /\ UNCHANGED finality
          /\ run' = [run EXCEPT ![h].at = "instruct", ![h].traded = captured]
          /\ batch' = IF batch.status = "none" THEN [batch EXCEPT !.status = "pending"] ELSE batch
      BY <1>7 DEF CreateBatch, mats
    <2>2. captured \in SUBSET Trades /\ "instruct" \in Stages
      BY CapturedFinite DEF BeiInv, Stages
    <2>3. Others(h) /\ run'[h].at = "instruct" BY <1>2, <2>1, <2>2, TradedFields
    <2>4. batch'.note = batch.note BY <1>2, <2>1 DEF BatchRecords
    <2> QED BY <2>1, <2>3, <2>4, NoteKept
  <1>8. ASSUME Instruct(h) PROVE NoteInv'
    <2>1. PICK t : run' = [run EXCEPT ![h].traded = @ \ {t}] BY <1>8 DEF Instruct
    <2>2. run[h].at = "instruct" /\ UNCHANGED <<finality, batch>>
      BY <1>8 DEF Instruct, At, mats
    <2>3. Others(h) /\ run'[h].at = run[h].at BY <1>2, <2>1, LessFields
    <2> QED BY <2>2, <2>3, NoteKept
  <1>9. ASSUME SelectInstructions(h) \/ MarkSettled(h) PROVE NoteInv'
    <2>1. PICK todo \in SUBSET Instructions : Work(h, "book", todo)
      <3>1. CASE SelectInstructions(h)
        <4>1. {i \in Instructions : instr[i] = "ready"} \in SUBSET Instructions OBVIOUS
        <4> QED BY <3>1, <4>1 DEF SelectInstructions
      <3>2. CASE MarkSettled(h)
        <4>1. PICK i : Work(h, "book", run[h].todo \ {i}) BY <3>2 DEF MarkSettled
        <4>2. run[h].todo \ {i} \in SUBSET Instructions BY <1>2, RunFields
        <4> QED BY <4>1, <4>2
      <3> QED BY <1>9, <3>1, <3>2
    <2>2. "book" \in Stages BY DEF Stages
    <2>3. Others(h) /\ run'[h].at = "book" BY <1>2, <2>1, <2>2, WorkFields
    <2>4. UNCHANGED <<finality, batch>> BY <1>9 DEF SelectInstructions, MarkSettled, mats
    <2> QED BY <2>3, <2>4, NoteKept
  <1>10. ASSUME BookLedger(h) \/ SettleBatch(h) PROVE NoteInv'
    <2>1. PICK stage \in {"mark", "notify"} : Goto(h, stage)
      BY <1>10 DEF BookLedger, SettleBatch
    <2>2. stage \in Stages BY <2>1 DEF Stages
    <2>3. Others(h) /\ run'[h].at = stage BY <1>2, <2>1, <2>2, GotoFields
    <2>4. UNCHANGED finality /\ (batch' = batch \/ batch' = [batch EXCEPT !.status = "settled"])
      BY <1>10 DEF BookLedger, SettleBatch, mats
    <2>5. batch'.note = batch.note BY <1>2, <2>4 DEF BatchRecords
    <2> QED BY <2>1, <2>3, <2>4, <2>5, NoteKept
  <1>11. ASSUME NothingToNotify(h) PROVE NoteInv'
    <2>1. batch' = [batch EXCEPT !.note = "sent"] BY <1>11 DEF NothingToNotify
    <2>2. batch'.note = "sent" BY <1>2, <2>1 DEF BatchRecords
    <2> QED BY <2>2 DEF NoteInv
  <1>12. ASSUME RetryNotification(h) PROVE NoteInv'
    <2>1. /\ run' = [run EXCEPT ![h] = Request("book", 0, {i \in Instructions : instr[i] = "ready"})]
          /\ UNCHANGED <<finality, batch>>
      BY <1>12 DEF RetryNotification, mats
    <2>2. /\ {i \in Instructions : instr[i] = "ready"} \in SUBSET Instructions
          /\ 0 \in 0..MaxCycles /\ "book" \in Stages
      BY BeiAssumption DEF Stages
    <2>3. Others(h) /\ run'[h].at = "book" BY <1>2, <2>1, <2>2, NewFields
    <2> QED BY <2>1, <2>3, NoteKept
  <1>13. ASSUME Finish(h) PROVE NoteInv'
    <2>1. batch.note # "pending" BY <1>13 DEF Finish, At, NoteInv
    <2>2. batch' = batch BY <1>13 DEF Finish
    <2> QED BY <2>1, <2>2 DEF NoteInv
  <1>14. ASSUME Fails(h) PROVE NoteInv'
    <2>1. run' = [run EXCEPT ![h] = Idle] /\ UNCHANGED <<finality, batch>>
      BY <1>14 DEF Fails, mats
    <2>2. Others(h) /\ run'[h].at = "idle" BY <1>2, <2>1, IdleFields
    <2> QED BY <2>1, <2>2, NoteKept
  <1> QED
    BY <1>3, <1>4, <1>5, <1>6, <1>7, <1>8, <1>9, <1>10, <1>11, <1>12, <1>13, <1>14
    DEF Aggregates, Settles

LEMMA NoteNext == IInv /\ NoteInv /\ [Next]_vars => NoteInv'
  <1>0. SUFFICES ASSUME IInv, NoteInv, [Next]_vars PROVE NoteInv' OBVIOUS
  <1>1. BeiInv /\ InboxInv BY <1>0 DEF IInv
  <1>2. /\ run \in [Handlers -> RunRecords] /\ batch \in BatchRecords
        /\ finality \in [1..MaxCycles -> FinalityRecords] /\ cycle \in 1..MaxCycles
    BY <1>1 DEF BeiInv, BeiTypeOK
  <1>3. CASE Alone
    <2>1. ASSUME NEW t \in Trades, MakeTrade(t) \/ Capture(t) PROVE NoteInv'
      <3>1. UNCHANGED <<run, batch, finality>> BY <2>1 DEF MakeTrade, Capture, mats
      <3> QED BY <1>0, <3>1, NoteStays
    <2>2. ASSUME CloseSession PROVE NoteInv'
      <3>1. /\ UNCHANGED <<run, batch>>
            /\ finality' = [finality EXCEPT ![cycle] = [state |-> "due", counted |-> made]]
        BY <2>2 DEF CloseSession
      <3>2. \A n \in 1..MaxCycles : finality'[n].state = "done" => finality[n].state = "done"
        BY <1>2, <3>1
      <3> QED BY <1>0, <3>1, <3>2, NoteStays
    <2>3. ASSUME ReopenSession PROVE NoteInv'
      <3>1. UNCHANGED <<run, batch, finality>> BY <2>3 DEF ReopenSession
      <3> QED BY <1>0, <3>1, NoteStays
    <2> QED BY <1>0, <1>1, <1>3, <2>1, <2>2, <2>3, RequestNotes DEF Alone
  <1>4. ASSUME NEW h \in Handlers, NEW c \in Callers, PostSettlement(h, c) PROVE NoteInv'
    <2>1. Goto(h, "wait") /\ UNCHANGED <<finality, batch>>
      BY <1>4 DEF PostSettlement, Notify, mats
    <2>2. "wait" \in Stages BY DEF Stages
    <2>3. Others(h) /\ run'[h].at = "wait" BY <1>2, <2>1, <2>2, GotoFields
    <2> QED BY <1>0, <2>1, <2>3, NoteKept
  <1>5. ASSUME NEW h \in Handlers, NEW c \in Callers, AnswerSettlement(h, c) PROVE NoteInv'
    <2>1. batch' = [batch EXCEPT !.note = Note(call[c].answer)]
      BY <1>5 DEF AnswerSettlement, Notified
    <2>2. batch'.note = Note(call[c].answer) BY <1>2, <2>1 DEF BatchRecords
    <2>3. call[c].answer \in {"ok", "deferred", "error"} BY <1>1, InboxBefore, CallTodo
    <2>4. batch'.note # "pending" BY <2>2, <2>3 DEF Note
    <2> QED BY <2>4 DEF NoteInv
  <1>6. ASSUME NEW c \in Callers, AnswerNobody(c) \/ Settlement(c) \/ SettlementAborts(c)
        PROVE  NoteInv'
    <2>1. UNCHANGED <<run, batch, finality>>
      BY <1>6 DEF AnswerNobody, Settlement, SettlementAborts, beiVars, mats
    <2> QED BY <1>0, <2>1, NoteStays
  <1>7. CASE (\E d \in Sides(Trades) : BookFill(d)) \/ UNCHANGED vars
    <2>1. UNCHANGED <<run, batch, finality>> BY <1>7 DEF BookFill, vars, beiVars
    <2> QED BY <1>0, <2>1, NoteStays
  <1> QED BY <1>0, <1>3, <1>4, <1>5, <1>6, <1>7 DEF Next

LEMMA NoteInit == Init => NoteInv
  <1> SUFFICES ASSUME Init PROVE NoteInv OBVIOUS
  <1>1. /\ \A h \in Handlers : run[h].at = "idle"
        /\ \A n \in 1..MaxCycles : finality[n].state = "none"
    BY DEF Init, BeiInit, Idle, Request
  <1> QED BY <1>1 DEF NoteInv

LEMMA NoteInvariant == Spec => []NoteInv
  <1>1. IInv /\ NoteInv /\ [Next]_vars => NoteInv' BY NoteNext
  <1> QED BY <1>1, NoteInit, Invariant, PTL DEF Spec

(***************************************************************************)
(* An answered closing never leaves its notification pending: it has been  *)
(* sent, or the interval repeats it (settlement.ts:222-240, :386), for any       *)
(* number of closings.                                                     *)
(***************************************************************************)
THEOREM AnsweredIsNotedHolds == Spec => []AnsweredIsNoted
  <1>1. IInv /\ NoteInv => AnsweredIsNoted
    <2> SUFFICES ASSUME IInv, NoteInv, \E n \in 1..MaxCycles : finality[n].state = "done"
                 PROVE  batch.note = "sent" \/ IsRepeated
      BY DEF AnsweredIsNoted
    <2>1. batch \in BatchRecords BY DEF IInv, BeiInv, BeiTypeOK
    <2>3. batch.note # "pending" BY DEF NoteInv
    <2> QED BY <2>1, <2>3 DEF IsRepeated, BatchRecords
  <1> QED BY <1>1, Invariant, NoteInvariant, PTL

(***************************************************************************)
(* With a single closing, when all is at rest every trade that MATS        *)
(* counted is settled at the exchange, and at the broker too unless the    *)
(* interval is going to tell it again: the part of EventuallySettled that  *)
(* is no matter of fairness.                                               *)
(***************************************************************************)
THEOREM NothingForgottenHolds ==
    ASSUME MaxCycles = 1 PROVE Spec => []NothingForgotten
  <1>1. IInv /\ SentInv /\ NoteInv => NothingForgotten
    <2> SUFFICES ASSUME IInv, SentInv, NoteInv, NEW n \in 1..MaxCycles,
                        NEW t \in finality[n].counted, finality[n].state = "done"
                 PROVE  Settled(t) /\ (Sides({t}) \subseteq events \/ IsRepeated)
      BY DEF NothingForgotten
    <2>1. n = 1 OBVIOUS
    <2>2. /\ IsFiniteSet(made) /\ finality[n].counted \subseteq made
          /\ Cardinality({u \in made : Settled(u)}) >= Cardinality(finality[n].counted)
      BY DEF IInv, BeiInv, CyclesOK, FinalityMeansSettled
    <2>3. cycle = 1
      <3>1. cycle \in 1..MaxCycles BY DEF IInv, BeiInv, BeiTypeOK
      <3> QED BY <3>1
    <2>4. ~trading BY <2>1, <2>3 DEF IInv, BeiInv, CyclesOK
    <2>5. finality[n].counted = made BY <2>1, <2>4 DEF SentInv, CountKnows
    <2>6. Settled(t)
      <3>1. PICK Q : Q = {u \in made : Settled(u)} OBVIOUS
      <3>2. Q \subseteq made /\ IsFiniteSet(Q) BY <2>2, <3>1, FS_Subset
      <3>3. /\ Cardinality(Q) \in Nat /\ Cardinality(made) \in Nat
            /\ Cardinality(Q) <= Cardinality(made)
            /\ Cardinality(made) = Cardinality(Q) => made = Q
        BY <2>2, <3>2, FS_Subset, FS_CardinalityType
      <3>4. Cardinality(Q) >= Cardinality(made) BY <2>2, <2>5, <3>1
      <3>5. made = Q BY <3>3, <3>4
      <3> QED BY <2>5, <3>1, <3>5
    <2>7. batch.note # "pending" /\ batch \in BatchRecords
      BY DEF NoteInv, IInv, BeiInv, BeiTypeOK
    <2>8. CASE batch.note = "sent"
      <3>1. Sides(made) \subseteq events BY <2>8 DEF SentInv, BatchKnows
      <3> QED BY <2>5, <2>6, <3>1 DEF Sides
    <2>9. CASE batch.note # "sent" BY <2>6, <2>7, <2>9 DEF IsRepeated, BatchRecords
    <2> QED BY <2>8, <2>9
  <1>2. IInv /\ SentInv /\ [Next]_vars => SentInv' BY SentNextOK
  <1> QED BY <1>1, <1>2, SentInitOK, Invariant, NoteInvariant, PTL DEF Spec
-----------------------------------------------------------------------------
(***************************************************************************)
(* What is done stays done: no retry, repeated call or abort takes back a  *)
(* captured trade, a settled instruction, a ledger entry, a settlement of  *)
(* the broker or the answer that MATS has.                                 *)
(***************************************************************************)
ExchangeKeeps ==
    /\ captured \subseteq captured' /\ ledger \subseteq ledger'
    /\ \A i \in Instructions : instr[i] = "settled" => instr'[i] = "settled"
    /\ \A n \in 1..MaxCycles : finality[n].state = "done" => finality'[n] = finality[n]

BrokerKeeps == booked \subseteq booked' /\ events \subseteq events'

NothingUndone == [][ExchangeKeeps /\ BrokerKeeps]_vars

LEMMA RequestUndoesNothing ==
    ASSUME BeiInv, NEW h \in Handlers,
           \/ \E n \in 1..MaxCycles : PostFinality(h, n)
           \/ Aggregates(h) \/ AggregationFails(h)
           \/ Settles(h) \/ RetryNotification(h) \/ Finish(h) \/ Fails(h)
    PROVE  ExchangeKeeps
  <1> USE DEF ExchangeKeeps
  <1>1. ASSUME UNCHANGED <<captured, ledger, instr, finality>> PROVE ExchangeKeeps
    BY <1>1
  <1>2. ASSUME Instruct(h) PROVE ExchangeKeeps
    <2>1. PICK t : instr' = [i \in Instructions |->
                       IF i[1] = t /\ instr[i] = "none" THEN "ready" ELSE instr[i]]
      BY <1>2 DEF Instruct
    <2>2. UNCHANGED <<captured, ledger, finality>> BY <1>2 DEF Instruct, mats
    <2> QED BY <2>1, <2>2
  <1>3. ASSUME MarkSettled(h) PROVE ExchangeKeeps
    <2>1. PICK i : instr' = [instr EXCEPT ![i] = "settled"] BY <1>3 DEF MarkSettled
    <2>2. UNCHANGED <<captured, ledger, finality>> BY <1>3 DEF MarkSettled, mats
    <2>3. instr \in [Instructions -> {"none", "ready", "settled"}] BY DEF BeiInv, BeiTypeOK
    <2> QED BY <2>1, <2>2, <2>3
  <1>4. ASSUME BookLedger(h) PROVE ExchangeKeeps
    <2>1. PICK i : ledger' = ledger \cup {i} BY <1>4 DEF BookLedger
    <2>2. UNCHANGED <<captured, instr, finality>> BY <1>4 DEF BookLedger, mats
    <2> QED BY <2>1, <2>2
  <1>5. ASSUME Finish(h) PROVE ExchangeKeeps
    <2>1. /\ UNCHANGED <<captured, ledger, instr>>
          /\ \/ UNCHANGED finality
             \/ finality' = [finality EXCEPT ![run[h].cycle].state = "done"]
      BY <1>5 DEF Finish
    <2>2. finality \in [1..MaxCycles -> FinalityRecords] BY Before
    <2>3. PICK n : n = run[h].cycle OBVIOUS
    <2>4. ASSUME NEW m \in 1..MaxCycles, finality[m].state = "done",
                 finality' = [finality EXCEPT ![n].state = "done"]
          PROVE  finality'[m] = finality[m]
      BY <2>2, <2>4 DEF FinalityRecords
    <2> QED BY <2>1, <2>3, <2>4
  <1>6. ASSUME \/ \E n \in 1..MaxCycles : PostFinality(h, n)
               \/ Aggregates(h) \/ AggregationFails(h) \/ RetryNotification(h) \/ Fails(h)
               \/ CreateBatch(h) \/ SelectInstructions(h) \/ SettleBatch(h) \/ NothingToNotify(h)
        PROVE  UNCHANGED <<captured, ledger, instr, finality>>
    BY <1>6 DEF PostFinality, Aggregates, Barrier, Summarise, MoveIndex, MoveClose,
                AggregationFails, RetryNotification, Fails, CreateBatch, SelectInstructions,
                SettleBatch, NothingToNotify, mats
  <1> QED BY <1>1, <1>2, <1>3, <1>4, <1>5, <1>6 DEF Settles

LEMMA AloneUndoesNothing == BeiInv /\ Alone => ExchangeKeeps
  <1>0. SUFFICES ASSUME BeiInv, Alone PROVE ExchangeKeeps OBVIOUS
  <1>1. ASSUME NEW t \in Trades, MakeTrade(t) \/ Capture(t) PROVE ExchangeKeeps
    BY <1>1 DEF MakeTrade, Capture, mats, ExchangeKeeps
  <1>2. ASSUME CloseSession PROVE ExchangeKeeps
    <2>1. /\ trading /\ UNCHANGED <<captured, ledger, instr>>
          /\ finality' = [finality EXCEPT ![cycle] = [state |-> "due", counted |-> made]]
      BY <1>2 DEF CloseSession
    <2>2. /\ finality \in [1..MaxCycles -> FinalityRecords] /\ cycle \in 1..MaxCycles
          /\ finality[cycle].state = "none"
      BY <1>0, <2>1 DEF BeiInv, BeiTypeOK, CyclesOK
    <2>3. \A n \in 1..MaxCycles : finality[n].state = "done" => finality'[n] = finality[n]
      BY <2>1, <2>2
    <2> QED BY <2>1, <2>3 DEF ExchangeKeeps
  <1>3. ASSUME ReopenSession PROVE ExchangeKeeps
    BY <1>3 DEF ReopenSession, ExchangeKeeps
  <1> QED BY <1>0, <1>1, <1>2, <1>3, RequestUndoesNothing DEF Alone

LEMMA NextUndoesNothing == IInv /\ [Next]_vars => ExchangeKeeps /\ BrokerKeeps
  <1>0. SUFFICES ASSUME IInv, [Next]_vars PROVE ExchangeKeeps /\ BrokerKeeps OBVIOUS
  <1>1. BeiInv BY <1>0 DEF IInv
  <1>2. UNCHANGED <<captured, ledger, instr, finality>> => ExchangeKeeps BY DEF ExchangeKeeps
  <1>3. CASE Alone /\ UNCHANGED <<sekuritasVars, waits>>
    BY <1>1, <1>3, AloneUndoesNothing DEF sekuritasVars, BrokerKeeps
  <1>4. ASSUME NEW h \in Handlers, NEW c \in Callers, PostSettlement(h, c) \/ AnswerSettlement(h, c)
        PROVE  ExchangeKeeps /\ BrokerKeeps
    BY <1>2, <1>4 DEF PostSettlement, AnswerSettlement, Notify, Notified, mats, BrokerKeeps,
                      Sekuritas!Receive, Sekuritas!Answered
  <1>5. ASSUME NEW c \in Callers, AnswerNobody(c) \/ Settlement(c) \/ SettlementAborts(c)
        PROVE  ExchangeKeeps /\ BrokerKeeps
    <2>1. UNCHANGED <<captured, ledger, instr, finality>>
      BY <1>5 DEF AnswerNobody, Settlement, SettlementAborts, beiVars, mats
    <2>2. UNCHANGED booked /\ events \subseteq events'
      BY <1>5 DEF AnswerNobody, Settlement, SettlementAborts, Sekuritas!Answered, Sekuritas!Look,
                  Sekuritas!Take, Sekuritas!Commit, Sekuritas!Abort
    <2> QED BY <1>2, <2>1, <2>2 DEF BrokerKeeps
  <1>6. ASSUME NEW d \in Sides(Trades), BookFill(d) PROVE ExchangeKeeps /\ BrokerKeeps
    BY <1>2, <1>6 DEF BookFill, Sekuritas!BookFill, beiVars, BrokerKeeps
  <1>7. CASE UNCHANGED vars BY <1>2, <1>7 DEF vars, beiVars, sekuritasVars, BrokerKeeps
  <1> QED BY <1>0, <1>3, <1>4, <1>5, <1>6, <1>7 DEF Next

\* No repetition, overlap or abort takes back what either end has done, for
\* any number of closings, requests and calls.
THEOREM NothingUndoneHolds == Spec => NothingUndone
  <1>1. IInv /\ [Next]_vars => [ExchangeKeeps /\ BrokerKeeps]_vars BY NextUndoesNothing
  <1> QED BY <1>1, Invariant, PTL DEF Spec, NothingUndone
=============================================================================
