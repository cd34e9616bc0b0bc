---------------------------- MODULE TxMgrProofs ----------------------------
(***************************************************************************)
(* Proofs about TcTxMgr, for any number of callers and data sources, any   *)
(* pool size and any number of attempts: what a call reports is what it    *)
(* has committed, and its connections go back to their pools.              *)
(***************************************************************************)
EXTENDS TxMgr, FiniteSetTheorems, TLAPS

-----------------------------------------------------------------------------
(* The inductive invariant *)

\* Where the present attempt has committed nothing yet.
Uncommitted == {"begin", "callback", "open", "rollback"}
Over == {"failed", "done"}
Attempts(f) == IF f.op = "coordinate" THEN 1 ELSE f.attempt

\* A call f that is at "at": what it has open, and which attempt it is at.
Holds(at, f) ==
    /\ at \in {"begin", "open"} => f.code \in Codes
    /\ at \notin {"idle", "done"} /\ f.op # "coordinate" => f.code \in Codes
    /\ at \in {"idle", "begin", "failed", "done"} => f.open = {}
    /\ at \in {"callback", "open"} => f.used = f.open
    /\ at \notin {"idle", "done"} =>
          /\ f.result # "ok"
          /\ f.op = "coordinate" \/ (f.attempt >= 1 /\ f.attempt <= f.max)

\* e counts what its attempts have committed: once each at most, and the present one
\* all that it has used and no longer has open.
Counted(at, f, e) ==
    \A c \in Codes :
        /\ at = "idle" => e[c] = 0
        /\ at \in Uncommitted => e[c] < Attempts(f)
        /\ at = "commit" =>
              /\ e[c] <= Attempts(f)
              /\ c \in f.open => e[c] < Attempts(f)
              /\ c \in f.used \ f.open => e[c] >= 1
        /\ at \in Over => e[c] <= Attempts(f)
        /\ at = "done" /\ f.result = "ok" /\ c \in f.used => e[c] >= 1

\* Unless the application has its own errors retried, no attempt follows one that has
\* committed something.
Once(at, f, e) ==
    f.op # "retry" =>
        \A c \in Codes :
            /\ e[c] <= 1
            /\ at \in Uncommitted => e[c] = 0
            /\ at = "commit" /\ c \in f.open => e[c] = 0
            /\ at \in Over /\ f.result \in Errors \ {"commit_error"} => e[c] = 0

Good(at, f, e) == Holds(at, f) /\ Counted(at, f, e) /\ Once(at, f, e)

Counts == [Codes -> 0..MaxAttempts]

\* The calls touch each other only through the pools.
IInv == TypeOK /\ \A t \in Tasks : Good(pc[t], call[t], effects[t])

Pools == \A c \in Codes : Cardinality({t \in Tasks : c \in call[t].open}) <= PoolSize

LEMMA IInvImplies == IInv => SuccessIsComplete /\ ErrorLeavesNothing
  <1> SUFFICES ASSUME IInv PROVE SuccessIsComplete /\ ErrorLeavesNothing
    OBVIOUS
  <1>1. ASSUME NEW t \in Tasks, pc[t] = "done", call[t].result = "ok"
        PROVE  0 \notin Effects(t) /\ (call[t].op # "retry" => Effects(t) \subseteq {1})
    <2>1. \A c \in call[t].used : c \in Codes /\ effects[t][c] \in 0..MaxAttempts
      BY DEF IInv, TypeOK, Call
    <2>2. \A c \in call[t].used : effects[t][c] >= 1 /\ (call[t].op # "retry" => effects[t][c] <= 1)
      BY <1>1, <2>1 DEF IInv, Good, Counted, Once
    <2> QED BY <2>1, <2>2, AttemptsAssumption DEF Effects
  <1>2. ASSUME NEW t \in Tasks, NEW c \in Codes
        PROVE  /\ pc[t] = "done" /\ call[t].op # "retry" /\ call[t].result \in Errors \ {"commit_error"} =>
                     effects[t][c] = 0
               /\ call[t].op = "optimistic" => effects[t][c] <= 1
    BY DEF IInv, Good, Once, Over
  <1> QED BY <1>1, <1>2 DEF SuccessIsComplete, ErrorLeavesNothing

-----------------------------------------------------------------------------
(* Steps *)

\* One call moves, the others stay.
LEMMA MovedIInv ==
  ASSUME IInv, NEW t \in Tasks, NEW at \in PCs, NEW f \in Call, NEW e \in Counts,
         Goto(t, at, f), effects' = [effects EXCEPT ![t] = e], Good(at, f, e)
  PROVE  IInv'
  <1>1. TypeOK'
    BY DEF IInv, TypeOK, Goto, Counts
  <1>2. \A u \in Tasks : Good(pc'[u], call'[u], effects'[u])
    BY DEF IInv, TypeOK, Goto
  <1> QED BY <1>1, <1>2 DEF IInv

LEMMA QuietIInv ==
  ASSUME IInv, NEW t \in Tasks, NEW at \in PCs, NEW f \in Call,
         Goto(t, at, f), UNCHANGED effects, Good(at, f, effects[t])
  PROVE  IInv'
  <1>1. effects[t] \in Counts /\ effects' = [effects EXCEPT ![t] = effects[t]]
    BY DEF IInv, TypeOK, Counts
  <1> QED BY <1>1, MovedIInv

LEMMA NoCallType ==
  NoCall \in Call
  BY AttemptsAssumption DEF NoCall, Call

LEMMA StartIInv ==
  ASSUME IInv, NEW t \in Tasks, Start(t)
  PROVE  IInv'
  <1>1. pc[t] = "idle" /\ UNCHANGED effects
    BY DEF Start, Coordinate, Trans, TransWithRetry
  <1>2. \A c \in Codes : effects[t][c] = 0
    BY <1>1 DEF IInv, Good, Counted
  <1>3. CASE Coordinate(t)
    <2> DEFINE f == [NoCall EXCEPT !.op = "coordinate"]
    <2>1. f \in Call /\ f.op = "coordinate" /\ f.used = {} /\ f.open = {} /\ f.result = "none"
      BY AttemptsAssumption DEF NoCall, Call
    <2>2. Good("callback", f, effects[t])
      <3> HIDE DEF f
      <3> QED BY <1>2, <2>1 DEF Good, Holds, Counted, Once, Attempts, Uncommitted, Over
    <2> QED BY <1>1, <1>3, <2>1, <2>2, QuietIInv DEF Coordinate, PCs
  <1>4. ASSUME NEW c \in Codes, NEW op \in {"trans"} \cup Retrying, NEW max \in 1..MaxAttempts,
               Goto(t, "begin", [NoCall EXCEPT !.op = op, !.code = c, !.attempt = 1, !.max = max])
        PROVE  IInv'
    <2> DEFINE f == [NoCall EXCEPT !.op = op, !.code = c, !.attempt = 1, !.max = max]
    <2>1. /\ f \in Call /\ f.op = op /\ f.code = c /\ f.attempt = 1 /\ f.max = max
          /\ f.open = {} /\ f.result = "none"
      <3>1. op \in {"none", "coordinate", "trans"} \cup Retrying
        OBVIOUS
      <3>2. 1 \in 0..MaxAttempts /\ max \in 0..MaxAttempts
        BY AttemptsAssumption
      <3>3. NoCall.open = {} /\ NoCall.result = "none"
        BY DEF NoCall
      <3> QED BY <3>1, <3>2, <3>3, NoCallType DEF Call
    <2>2. Good("begin", f, effects[t])
      <3> HIDE DEF f
      <3> QED BY <1>2, <2>1 DEF Good, Holds, Counted, Once, Attempts, Uncommitted, Over, Retrying
    <2> QED BY <1>1, <1>4, <2>1, <2>2, QuietIInv DEF PCs
  <1>5. ASSUME NEW op \in Retrying,
               Goto(t, "done", [NoCall EXCEPT !.op = op, !.result = "no_attempts"])
        PROVE  IInv'
    <2> DEFINE f == [NoCall EXCEPT !.op = op, !.result = "no_attempts"]
    <2>1. f \in Call /\ f.op = op /\ f.open = {} /\ f.result = "no_attempts" /\ f.attempt = 0
      <3>1. op \in {"none", "coordinate", "trans"} \cup Retrying
        OBVIOUS
      <3>2. "no_attempts" \in {"none", "ok", "dropped"} \cup Errors
        BY DEF Errors
      <3>3. NoCall.open = {} /\ NoCall.attempt = 0
        BY DEF NoCall
      <3> QED BY <3>1, <3>2, <3>3, NoCallType DEF Call
    <2>2. Good("done", f, effects[t])
      <3> HIDE DEF f
      <3> QED BY <1>2, <2>1 DEF Good, Holds, Counted, Once, Attempts, Uncommitted, Over, Retrying
    <2> QED BY <1>1, <1>5, <2>1, <2>2, QuietIInv DEF PCs
  <1>6. CASE \E c \in Codes : Trans(t, c)
    <2>1. 1 \in 1..MaxAttempts
      BY AttemptsAssumption
    <2> QED BY <1>4, <1>6, <2>1 DEF Trans
  <1>7. CASE \E c \in Codes, op \in Retrying, max \in 0..MaxAttempts : TransWithRetry(t, c, op, max)
    <2>1. PICK c \in Codes, op \in Retrying, max \in 0..MaxAttempts : TransWithRetry(t, c, op, max)
      BY <1>7
    <2>2. max > 0 => max \in 1..MaxAttempts
      BY AttemptsAssumption
    <2> QED BY <1>4, <1>5, <2>1, <2>2 DEF TransWithRetry
  <1> QED BY <1>3, <1>6, <1>7 DEF Start

LEMMA State ==
  ASSUME IInv, NEW t \in Tasks
  PROVE  /\ pc[t] \in PCs /\ call[t] \in Call /\ effects[t] \in Counts
         /\ Good(pc[t], call[t], effects[t])
         /\ "open_error" \in Errors /\ "commit_error" \in Errors /\ "rollback_error" \in Errors
         /\ "condition_failed" \in Errors /\ "other" \in Errors
  BY DEF IInv, TypeOK, Counts, Errors

\* What a step leaves alone of a call, but for its transactions and its result.
Same(f, g) == g.op = f.op /\ g.code = f.code /\ g.attempt = f.attempt /\ g.max = f.max

\* Opening transactions, and the callback in between.
LEMMA OpenIInv ==
  ASSUME IInv, NEW t \in Tasks,
         Begin(t) \/ (\E c \in Codes : AskFor(t, c)) \/ UseTx(t) \/ CallbackReturns(t)
  PROVE  IInv'
  <1> DEFINE f == call[t]
             e == effects[t]
  <1>1. f \in Call /\ e \in Counts /\ Good(pc[t], f, e) /\ UNCHANGED effects
    BY State DEF Begin, AskFor, UseTx, CallbackReturns
  <1> USE DEF PCs, Same
  <1>2. CASE Begin(t)
    <2>1. pc[t] = "begin" /\ f.code \in Codes
      BY <1>1, <1>2 DEF Begin, Good, Holds
    <2>2. CASE Goto(t, "callback", [f EXCEPT !.open = {f.code}, !.used = {f.code}])
      <3> DEFINE g == [f EXCEPT !.open = {f.code}, !.used = {f.code}]
      <3>1. g \in Call /\ g.open = g.used /\ Same(f, g)
            /\ g.result = f.result
        BY <1>1, <2>1 DEF Call
      <3>2. Good("callback", g, e)
        <4> HIDE DEF f, e, g
        <4> QED BY <1>1, <2>1, <3>1 DEF Good, Holds, Counted, Once, Attempts, Uncommitted, Over
      <3> QED BY <1>1, <2>2, <3>1, <3>2, QuietIInv
    <2>3. CASE Goto(t, "failed", [f EXCEPT !.result = "open_error"])
      <3> DEFINE g == [f EXCEPT !.result = "open_error"]
      <3>1. g \in Call /\ g.open = f.open /\ Same(f, g)
            /\ g.result = "open_error"
        BY <1>1, State DEF Call
      <3>2. Good("failed", g, e)
        <4> HIDE DEF f, e, g
        <4> QED BY <1>1, <2>1, <3>1 DEF Good, Holds, Counted, Once, Attempts, Uncommitted, Over, Counts, Call
      <3> QED BY <1>1, <2>3, <3>1, <3>2, QuietIInv
    <2> QED BY <1>2, <2>2, <2>3 DEF Begin
  <1>3. ASSUME NEW c \in Codes, AskFor(t, c)
        PROVE  IInv'
    <2> DEFINE g == [f EXCEPT !.code = c, !.asked = @ \cup {c}]
    <2>1. pc[t] = "callback" /\ Goto(t, "open", g)
      BY <1>3 DEF AskFor
    <2>2. g \in Call /\ g.code = c /\ g.open = f.open /\ g.used = f.used /\ g.op = f.op
          /\ g.attempt = f.attempt /\ g.max = f.max /\ g.result = f.result
      BY <1>1 DEF Call
    <2>3. Good("open", g, e)
      <3> HIDE DEF f, e, g
      <3> QED BY <1>1, <2>1, <2>2 DEF Good, Holds, Counted, Once, Attempts, Uncommitted, Over
    <2> QED BY <1>1, <2>1, <2>2, <2>3, QuietIInv
  <1>4. CASE UseTx(t)
    <2>1. pc[t] = "open" /\ f.code \in Codes
      BY <1>1, <1>4 DEF UseTx, Good, Holds
    <2>2. CASE Goto(t, "callback", [f EXCEPT !.open = @ \cup {f.code}, !.used = @ \cup {f.code}])
      <3> DEFINE g == [f EXCEPT !.open = @ \cup {f.code}, !.used = @ \cup {f.code}]
      <3>1. g \in Call /\ Same(f, g)
            /\ g.result = f.result /\ g.open = f.open \cup {f.code} /\ g.used = f.used \cup {f.code}
        BY <1>1, <2>1 DEF Call
      <3>2. Good("callback", g, e)
        <4> HIDE DEF f, e, g
        <4> QED BY <1>1, <2>1, <3>1 DEF Good, Holds, Counted, Once, Attempts, Uncommitted, Over
      <3> QED BY <1>1, <2>2, <3>1, <3>2, QuietIInv
    <2>3. CASE Goto(t, "callback", f)
      <3>1. Good("callback", f, e)
        <4> HIDE DEF f, e
        <4> QED BY <1>1, <2>1 DEF Good, Holds, Counted, Once, Uncommitted, Over
      <3> QED BY <1>1, <2>3, <3>1, QuietIInv
    <2>4. CASE Goto(t, "rollback", [f EXCEPT !.result = "open_error"])
      <3> DEFINE g == [f EXCEPT !.result = "open_error"]
      <3>1. g \in Call /\ g.open = f.open /\ Same(f, g)
            /\ g.result = "open_error"
        BY <1>1, State DEF Call
      <3>2. Good("rollback", g, e)
        <4> HIDE DEF f, e, g
        <4> QED BY <1>1, <2>1, <3>1 DEF Good, Holds, Counted, Once, Attempts, Uncommitted, Over
      <3> QED BY <1>1, <2>4, <3>1, <3>2, QuietIInv
    <2> QED BY <1>4, <2>2, <2>3, <2>4 DEF UseTx
  <1>5. CASE CallbackReturns(t)
    <2>1. pc[t] = "callback"
      BY <1>5 DEF CallbackReturns
    <2>2. CASE Goto(t, "commit", f)
      <3>1. Good("commit", f, e)
        <4> HIDE DEF f, e
        <4> QED BY <1>1, <2>1 DEF Good, Holds, Counted, Once, Attempts, Uncommitted, Over, Counts, Call
      <3> QED BY <1>1, <2>2, <3>1, QuietIInv
    <2>3. ASSUME NEW error \in {"condition_failed", "other"},
                 Goto(t, "rollback", [f EXCEPT !.result = error])
          PROVE  IInv'
      <3> DEFINE g == [f EXCEPT !.result = error]
      <3>1. g \in Call /\ g.open = f.open /\ Same(f, g)
            /\ g.result = error
        BY <1>1, State DEF Call
      <3>2. Good("rollback", g, e)
        <4> HIDE DEF f, e, g
        <4> QED BY <1>1, <2>1, <3>1 DEF Good, Holds, Counted, Once, Attempts, Uncommitted, Over
      <3> QED BY <1>1, <2>3, <3>1, <3>2, QuietIInv
    <2> QED BY <1>5, <2>2, <2>3 DEF CallbackReturns
  <1> QED BY <1>2, <1>3, <1>4, <1>5

\* One more commit counts, within the bound.
LEMMA OneMore ==
  ASSUME IInv, NEW t \in Tasks, NEW c \in call[t].open, pc[t] = "commit"
  PROVE  LET e == [effects[t] EXCEPT ![c] = @ + 1]
         IN  /\ c \in Codes /\ e \in Counts
             /\ [effects EXCEPT ![t][c] = @ + 1] = [effects EXCEPT ![t] = e]
             /\ e[c] = effects[t][c] + 1 /\ \A d \in Codes \ {c} : e[d] = effects[t][d]
  <1>1. c \in Codes /\ effects[t] \in Counts /\ Good(pc[t], call[t], effects[t]) /\ call[t] \in Call
    BY State DEF Call
  <1>2. effects[t][c] < Attempts(call[t])
    BY <1>1 DEF Good, Counted
  <1>3. Attempts(call[t]) \in 0..MaxAttempts
    BY <1>1, AttemptsAssumption DEF Attempts, Call
  <1>4. effects[t][c] + 1 \in 0..MaxAttempts
    BY <1>1, <1>2, <1>3, AttemptsAssumption DEF Counts
  <1> QED BY <1>1, <1>4 DEF IInv, TypeOK, Counts

\* The transactions commit one after the other; a failed one may have committed.
LEMMA CommitIInv ==
  ASSUME IInv, NEW t \in Tasks, Commit(t)
  PROVE  IInv'
  <1> DEFINE f == call[t]
             e == effects[t]
  <1>1. f \in Call /\ e \in Counts /\ Good("commit", f, e) /\ pc[t] = "commit"
    BY State DEF Commit
  <1> USE DEF PCs, Same
  <1>2. ASSUME NEW c \in f.open, Goto(t, "commit", [f EXCEPT !.open = @ \ {c}]),
               effects' = [effects EXCEPT ![t][c] = @ + 1]
        PROVE  IInv'
    <2> DEFINE g == [f EXCEPT !.open = @ \ {c}]
               d == [e EXCEPT ![c] = @ + 1]
    <2>1. g \in Call /\ g.open = f.open \ {c} /\ g.used = f.used /\ Same(f, g) /\ g.result = f.result
      BY <1>1 DEF Call
    <2>2. /\ c \in Codes /\ d \in Counts /\ effects' = [effects EXCEPT ![t] = d]
          /\ d[c] = e[c] + 1 /\ \A x \in Codes \ {c} : d[x] = e[x]
      BY <1>1, <1>2, OneMore
    <2>3. Good("commit", g, d)
      <3> HIDE DEF f, e, g, d
      <3> QED BY <1>1, <2>1, <2>2 DEF Good, Holds, Counted, Once, Attempts, Uncommitted, Over, Counts, Call
    <2> QED BY <1>2, <2>1, <2>2, <2>3, MovedIInv
  <1>3. ASSUME NEW c \in f.open,
               Goto(t, "failed", [f EXCEPT !.open = {}, !.result = "commit_error"]),
               effects' \in {effects, [effects EXCEPT ![t][c] = @ + 1]}
        PROVE  IInv'
    <2> DEFINE g == [f EXCEPT !.open = {}, !.result = "commit_error"]
               d == [e EXCEPT ![c] = @ + 1]
    <2>1. g \in Call /\ g.open = {} /\ Same(f, g)
          /\ g.result = "commit_error"
      BY <1>1, State DEF Call
    <2>2. /\ c \in Codes /\ d \in Counts /\ [effects EXCEPT ![t][c] = @ + 1] = [effects EXCEPT ![t] = d]
          /\ d[c] = e[c] + 1 /\ \A x \in Codes \ {c} : d[x] = e[x]
      BY <1>1, OneMore
    <2>3. Good("failed", g, d) /\ Good("failed", g, e)
      <3> HIDE DEF f, e, g, d
      <3> QED BY <1>1, <2>1, <2>2 DEF Good, Holds, Counted, Once, Attempts, Uncommitted, Over, Counts, Call
    <2>4. CASE effects' = effects
      BY <1>3, <2>1, <2>3, <2>4, QuietIInv
    <2>5. CASE effects' = [effects EXCEPT ![t] = d]
      BY <1>3, <2>1, <2>2, <2>3, <2>5, MovedIInv
    <2> QED BY <1>3, <2>2, <2>4, <2>5
  <1>4. CASE f.open = {} /\ Goto(t, "done", [f EXCEPT !.result = "ok"]) /\ UNCHANGED effects
    <2> DEFINE g == [f EXCEPT !.result = "ok"]
    <2>1. g \in Call /\ g.open = f.open /\ g.used = f.used /\ g.op = f.op /\ g.code = f.code
          /\ g.attempt = f.attempt /\ g.result = "ok"
      BY <1>1 DEF Call
    <2>2. "ok" \notin Errors
      BY DEF Errors
    <2>3. Good("done", g, e)
      <3> HIDE DEF f, e, g
      <3> QED BY <1>1, <1>4, <2>1, <2>2 DEF Good, Holds, Counted, Once, Attempts, Uncommitted, Over
    <2> QED BY <1>4, <2>1, <2>3, QuietIInv
  <1> QED BY <1>2, <1>3, <1>4 DEF Commit

\* The rollbacks, and what comes after an error.
LEMMA EndIInv ==
  ASSUME IInv, NEW t \in Tasks, Rollback(t) \/ NextAttempt(t) \/ GiveUp(t) \/ Return(t)
  PROVE  IInv'
  <1> DEFINE f == call[t]
             e == effects[t]
  <1>1. f \in Call /\ e \in Counts /\ Good(pc[t], f, e)
    BY State
  <1> USE DEF PCs, Same
  <1>2. CASE Rollback(t)
    <2>1. pc[t] = "rollback" /\ UNCHANGED effects
      BY <1>2 DEF Rollback
    <2>2. ASSUME NEW c \in f.open, Goto(t, "rollback", [f EXCEPT !.open = @ \ {c}])
          PROVE  IInv'
      <3> DEFINE g == [f EXCEPT !.open = @ \ {c}]
      <3>1. g \in Call /\ Same(f, g) /\ g.result = f.result
        BY <1>1 DEF Call
      <3>2. Good("rollback", g, e)
        <4> HIDE DEF f, e, g
        <4> QED BY <1>1, <2>1, <3>1 DEF Good, Holds, Counted, Once, Attempts, Uncommitted, Over
      <3> QED BY <2>1, <2>2, <3>1, <3>2, QuietIInv
    <2>3. CASE Goto(t, "failed", [f EXCEPT !.open = {}, !.result = "rollback_error"])
      <3> DEFINE g == [f EXCEPT !.open = {}, !.result = "rollback_error"]
      <3>1. g \in Call /\ g.open = {} /\ Same(f, g)
            /\ g.result = "rollback_error"
        BY <1>1, State DEF Call
      <3>2. Good("failed", g, e)
        <4> HIDE DEF f, e, g
        <4> QED BY <1>1, <2>1, <3>1 DEF Good, Holds, Counted, Once, Attempts, Uncommitted, Over, Counts, Call
      <3> QED BY <2>1, <2>3, <3>1, <3>2, QuietIInv
    <2>4. CASE f.open = {} /\ Goto(t, "failed", f)
      <3>1. Good("failed", f, e)
        <4> HIDE DEF f, e
        <4> QED BY <1>1, <2>1, <2>4 DEF Good, Holds, Counted, Once, Attempts, Uncommitted, Over, Counts, Call
      <3> QED BY <1>1, <2>1, <2>4, <3>1, QuietIInv
    <2> QED BY <1>2, <2>2, <2>3, <2>4 DEF Rollback
  <1>3. CASE NextAttempt(t)
    <2> DEFINE g == [f EXCEPT !.attempt = @ + 1, !.used = {}, !.result = "none"]
    <2>1. /\ pc[t] = "failed" /\ UNCHANGED effects /\ Goto(t, "begin", g) /\ f.attempt < f.max
          /\ f.op = "retry" \/ (f.op = "optimistic" /\ f.result = "condition_failed")
      BY <1>3 DEF NextAttempt, MayRetry
    <2>2. f.attempt + 1 \in 0..MaxAttempts
      BY <1>1, <2>1, AttemptsAssumption DEF Call
    <2>3. g \in Call /\ g.open = f.open /\ g.op = f.op /\ g.code = f.code /\ g.attempt = f.attempt + 1 /\ g.max = f.max
          /\ g.result = "none"
      BY <1>1, <2>2 DEF Call
    <2>4. f.code \in Codes
      BY <1>1, <2>1 DEF Good, Holds
    <2>5. Good("begin", g, e)
      <3> HIDE DEF f, e, g
      <3> QED BY <1>1, <2>1, <2>3, <2>4, State
              DEF Good, Holds, Counted, Once, Attempts, Uncommitted, Over, Counts, Call
    <2> QED BY <2>1, <2>3, <2>5, QuietIInv
  <1>4. CASE GiveUp(t)
    <2>1. pc[t] = "failed" /\ UNCHANGED effects /\ Goto(t, "done", f)
      BY <1>4 DEF GiveUp
    <2>2. Good("done", f, e)
      <3> HIDE DEF f, e
      <3> QED BY <1>1, <2>1 DEF Good, Holds, Counted, Once, Attempts, Uncommitted, Over
    <2> QED BY <1>1, <2>1, <2>2, QuietIInv
  <1>5. CASE Return(t)
    <2> DEFINE d == [c \in Codes |-> 0]
    <2>1. Goto(t, "idle", NoCall) /\ effects' = [effects EXCEPT ![t] = d]
      BY <1>5 DEF Return
    <2>2. d \in Counts
      BY AttemptsAssumption DEF Counts
    <2>3. Good("idle", NoCall, d)
      BY DEF NoCall, Good, Holds, Counted, Once, Uncommitted, Over
    <2> QED BY <2>1, <2>2, <2>3, NoCallType, MovedIInv
  <1> QED BY <1>2, <1>3, <1>4, <1>5

\* A dropped call: the transactions go, a COMMIT on its way may count.
LEMMA DropIInv ==
  ASSUME IInv, NEW t \in Tasks, Drop(t)
  PROVE  IInv'
  <1> DEFINE f == call[t]
             e == effects[t]
             g == [f EXCEPT !.open = {}, !.result = "dropped"]
  <1>1. f \in Call /\ e \in Counts /\ Good(pc[t], f, e) /\ pc[t] \in PCs \ {"idle", "done"} /\ Goto(t, "done", g)
    BY State DEF Drop
  <1>2. g \in Call /\ g.open = {} /\ g.op = f.op /\ g.code = f.code /\ g.attempt = f.attempt /\ g.result = "dropped"
    BY <1>1 DEF Call
  <1>3. "dropped" \notin Errors /\ "done" \in PCs
    BY DEF Errors, PCs
  <1>4. CASE UNCHANGED effects
    <2>1. Good("done", g, e)
      <3> HIDE DEF f, e, g
      <3> QED BY <1>1, <1>2, <1>3
              DEF PCs, Good, Holds, Counted, Once, Attempts, Uncommitted, Over, Counts, Call
    <2> QED BY <1>1, <1>2, <1>3, <1>4, <2>1, QuietIInv
  <1>5. ASSUME pc[t] = "commit", NEW c \in f.open, effects' = [effects EXCEPT ![t][c] = @ + 1]
        PROVE  IInv'
    <2> DEFINE d == [e EXCEPT ![c] = @ + 1]
    <2>1. /\ c \in Codes /\ d \in Counts /\ effects' = [effects EXCEPT ![t] = d]
          /\ d[c] = e[c] + 1 /\ \A x \in Codes \ {c} : d[x] = e[x]
      BY <1>5, OneMore
    <2>2. Good("done", g, d)
      <3> HIDE DEF f, e, g, d
      <3> QED BY <1>1, <1>2, <1>3, <1>5, <2>1
              DEF Good, Holds, Counted, Once, Attempts, Uncommitted, Over, Counts, Call
    <2> QED BY <1>1, <1>2, <1>3, <2>1, <2>2, MovedIInv
  <1> QED BY <1>4, <1>5 DEF Drop

LEMMA IInvInit == Init => IInv
  <1> SUFFICES ASSUME Init PROVE IInv
    OBVIOUS
  <1>1. 0 \in 0..MaxAttempts
    BY AttemptsAssumption
  <1>2. TypeOK
    BY <1>1, NoCallType DEF Init, TypeOK, PCs
  <1>3. ASSUME NEW t \in Tasks
        PROVE  Good("idle", NoCall, effects[t])
    BY DEF Init, NoCall, Good, Holds, Counted, Once, Uncommitted, Over
  <1> QED BY <1>2, <1>3 DEF Init, IInv

LEMMA IInvStep ==
  ASSUME IInv, [Next]_vars
  PROVE  IInv'
  <1>1. ASSUME NEW t \in Tasks, Start(t) \/ Step(t) \/ Drop(t) \/ \E c \in Codes : AskFor(t, c)
        PROVE  IInv'
    BY <1>1, StartIInv, OpenIInv, CommitIInv, EndIInv, DropIInv DEF Step
  <1>2. CASE UNCHANGED vars
    BY <1>2 DEF vars, IInv, TypeOK
  <1> QED BY <1>1, <1>2 DEF Next

\* The states of the transaction manager are well typed, whatever callbacks do.
THEOREM TypeCorrect == Spec => []TypeOK
  BY IInvInit, IInvStep, PTL DEF Spec, IInv

\* A reported success is complete on every source, and once (coordinate, trans,
\* trans_on_condition_failed).
THEOREM SuccessOnlyWhenComplete == Spec => []SuccessIsComplete
  BY IInvInit, IInvStep, IInvImplies, PTL DEF Spec

\* An error other than that of a commit is reported only if nothing is committed, and
\* nothing that is committed is tried again (coordinate, trans_on_condition_failed).
THEOREM ErrorsCommitNothing == Spec => []ErrorLeavesNothing
  BY IInvInit, IInvStep, IInvImplies, PTL DEF Spec

-----------------------------------------------------------------------------
(* Connections *)

Owners(c) == {t \in Tasks : c \in call[t].open}

\* What a step opens of a source it has been given a connection of.
LEMMA OwnersGrow ==
  ASSUME Pools, NEW c \in Codes, NEW t \in Tasks,
         Owners(c)' \subseteq Owners(c) \/ (Available(c) /\ Owners(c)' \subseteq Owners(c) \cup {t})
  PROVE  Cardinality(Owners(c)') <= PoolSize
  <1>1. IsFiniteSet(Owners(c))
    BY TasksAssumption, FS_Subset DEF Owners
  <1>2. Cardinality(Owners(c)) \in Nat /\ Cardinality(Owners(c)) <= PoolSize /\ PoolSize \in Nat
    BY <1>1, FS_CardinalityType, PoolAssumption DEF Pools, Owners
  <1>3. CASE Owners(c)' \subseteq Owners(c)
    <2>1. Cardinality(Owners(c)') \in Nat /\ Cardinality(Owners(c)') <= Cardinality(Owners(c))
      BY <1>1, <1>3, FS_Subset, FS_CardinalityType
    <2> QED BY <1>2, <2>1
  <1>4. CASE Available(c) /\ Owners(c)' \subseteq Owners(c) \cup {t}
    <2>1. Cardinality(Owners(c)) < PoolSize
      BY <1>4 DEF Available, Owners
    <2>2. /\ IsFiniteSet(Owners(c) \cup {t})
          /\ Cardinality(Owners(c) \cup {t}) <= Cardinality(Owners(c)) + 1
      BY <1>1, <1>2, FS_AddElement
    <2>3. Cardinality(Owners(c)') \in Nat /\ Cardinality(Owners(c) \cup {t}) \in Nat
          /\ Cardinality(Owners(c)') <= Cardinality(Owners(c) \cup {t})
      BY <1>4, <2>2, FS_Subset, FS_CardinalityType
    <2> QED BY <1>2, <2>1, <2>2, <2>3
  <1> QED BY <1>3, <1>4

\* Only Begin and UseTx open, each one source with a connection to give.
Opens(t, f) == \A c \in Codes : c \in f.open => c \in call[t].open \/ Available(c)
Opened(t) == Opens(t, call'[t]) /\ \A u \in Tasks \ {t} : call'[u] = call[u]

LEMMA GotoOpens ==
  ASSUME IInv, NEW t \in Tasks, NEW at, NEW f, Goto(t, at, f), Opens(t, f)
  PROVE  Opened(t)
  <1>1. call'[t] = f /\ \A u \in Tasks \ {t} : call'[u] = call[u]
    BY DEF IInv, TypeOK, Goto
  <1> QED BY <1>1 DEF Opened

LEMMA StepOpens ==
  ASSUME IInv, NEW t \in Tasks, Start(t) \/ Step(t) \/ Drop(t) \/ \E c \in Codes : AskFor(t, c)
  PROVE  Opened(t)
  <1> DEFINE f == call[t]
  <1>1. f \in Call /\ NoCall \in Call
    BY State, NoCallType
  <1>2. /\ \A r : Opens(t, [f EXCEPT !.result = r]) /\ Opens(t, [f EXCEPT !.open = {}, !.result = r])
        /\ \A c : Opens(t, [f EXCEPT !.open = @ \ {c}]) /\ Opens(t, [f EXCEPT !.code = c, !.asked = @ \cup {c}])
        /\ Opens(t, [f EXCEPT !.attempt = @ + 1, !.used = {}, !.result = "none"])
        /\ Opens(t, f)
    BY <1>1 DEF Call, Opens
  <1>3. Available(f.code) =>
           /\ Opens(t, [f EXCEPT !.open = {f.code}, !.used = {f.code}])
           /\ Opens(t, [f EXCEPT !.open = @ \cup {f.code}, !.used = @ \cup {f.code}])
    BY <1>1 DEF Call, Opens
  <1>4. /\ Opens(t, NoCall) /\ \A op : Opens(t, [NoCall EXCEPT !.op = op])
        /\ \A op, r : Opens(t, [NoCall EXCEPT !.op = op, !.result = r])
        /\ \A op, c, a, m : Opens(t, [NoCall EXCEPT !.op = op, !.code = c, !.attempt = a, !.max = m])
    <2>1. NoCall.open = {}
      BY DEF NoCall
    <2> QED BY <1>1, <2>1 DEF Call, Opens
  <1> HIDE DEF f
  <1>5. CASE Start(t)
    BY <1>4, <1>5, GotoOpens DEF Start, Coordinate, Trans, TransWithRetry
  <1>6. CASE (\E c \in Codes : AskFor(t, c)) \/ CallbackReturns(t)
    BY <1>2, <1>6, GotoOpens DEF AskFor, CallbackReturns, f
  <1>7. CASE Begin(t) \/ UseTx(t)
    BY <1>2, <1>3, <1>7, GotoOpens DEF Begin, UseTx, f
  <1>8. CASE Commit(t) \/ Rollback(t)
    BY <1>2, <1>8, GotoOpens DEF Commit, Rollback, f
  <1>9. CASE NextAttempt(t) \/ GiveUp(t) \/ Return(t) \/ Drop(t)
    BY <1>2, <1>4, <1>9, GotoOpens DEF NextAttempt, GiveUp, Return, Drop, f
  <1> QED BY <1>5, <1>6, <1>7, <1>8, <1>9 DEF Step

LEMMA PoolsStep ==
  ASSUME IInv, Pools, [Next]_vars
  PROVE  Pools'
  <1>1. ASSUME NEW t \in Tasks, Start(t) \/ Step(t) \/ Drop(t) \/ (\E c \in Codes : AskFor(t, c)),
               NEW c \in Codes
        PROVE  Cardinality(Owners(c)') <= PoolSize
    <2>1. Opened(t)
      BY <1>1, StepOpens
    <2>2. Owners(c)' \subseteq Owners(c) \/ (Available(c) /\ Owners(c)' \subseteq Owners(c) \cup {t})
      BY <2>1 DEF Opened, Opens, Owners
    <2> QED BY <2>2, OwnersGrow
  <1>2. CASE UNCHANGED vars
    BY <1>2 DEF vars, Pools
  <1> QED BY <1>1, <1>2 DEF Next, Pools, Owners

LEMMA PoolsInit == Init => Pools
  <1> SUFFICES ASSUME Init, NEW c \in Codes
               PROVE  Cardinality(Owners(c)) <= PoolSize
    BY DEF Pools, Owners
  <1>1. Owners(c) = {}
    BY DEF Init, NoCall, Owners
  <1> QED BY <1>1, FS_EmptySet, PoolAssumption

LEMMA PoolsImply == IInv /\ Pools => ConnectionsReturned
  BY DEF IInv, Good, Holds, Pools, ConnectionsReturned

\* No pool gives away more connections than it has, and a call that is over holds none
\* (coordinate, trans: a transaction is consumed or dropped on every path).
THEOREM ConnectionsAreReturned == Spec => []ConnectionsReturned
  BY IInvInit, IInvStep, PoolsInit, PoolsStep, PoolsImply, PTL DEF Spec
=============================================================================
