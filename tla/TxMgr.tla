------------------------------- MODULE TxMgr -------------------------------
(***************************************************************************)
(* TcTxMgr (transaction.rs): coordinate opens transactions on several data *)
(* sources for one callback and ends them one after the other; trans runs  *)
(* a callback in one transaction; trans_with_retry and                     *)
(* trans_on_condition_failed run trans again when its error allows.        *)
(*                                                                         *)
(* The callback is the application's: it opens transactions in any order,  *)
(* writes through each of them, and succeeds or fails.  A data source is   *)
(* a pool of PoolSize connections; a transaction takes one.                *)
(***************************************************************************)
EXTENDS Naturals, FiniteSets

CONSTANTS
    Tasks,          \* concurrent callers
    Codes,          \* data sources
    PoolSize,       \* connections per data source
    Timed,          \* sources whose pool has a wait timeout (acquire_timeout)
    MaxAttempts,    \* bound on max_attempts
    NoCode

ASSUME PoolAssumption == PoolSize \in Nat \ {0} /\ Timed \subseteq Codes
ASSUME TasksAssumption == IsFiniteSet(Tasks)
ASSUME AttemptsAssumption == MaxAttempts \in Nat \ {0}
ASSUME NoCodeAssumption == NoCode \notin Codes

VARIABLES
    pc,             \* where every call is
    call,           \* its arguments, transactions and result
    effects         \* how often the writes of a call are committed, per data source

vars == <<pc, call, effects>>

PCs == {"idle", "begin", "callback", "open", "commit", "rollback", "failed", "done"}
Retrying == {"retry", "optimistic"}
Errors == {"condition_failed", "other", "open_error", "commit_error", "rollback_error", "no_attempts"}
Call == [op: {"none", "coordinate", "trans"} \cup Retrying,
         code: Codes \cup {NoCode},     \* the source of a trans; the one a callback waits for
         asked: SUBSET Codes,           \* sources a callback asked for
         open: SUBSET Codes,            \* tx_map
         used: SUBSET Codes,            \* sources the attempt opened a transaction on
         attempt: 0..MaxAttempts, max: 0..MaxAttempts,
         result: {"none", "ok", "dropped"} \cup Errors]
NoCall == [op |-> "none", code |-> NoCode, asked |-> {}, open |-> {}, used |-> {},
           attempt |-> 0, max |-> 0, result |-> "none"]

TypeOK ==
    /\ pc \in [Tasks -> PCs]
    /\ call \in [Tasks -> Call]
    /\ effects \in [Tasks -> [Codes -> 0..MaxAttempts]]

-----------------------------------------------------------------------------
Available(c) == Cardinality({t \in Tasks : c \in call[t].open}) < PoolSize

\* Opening a transaction fails: no answer, or the wait for a connection is over.
MayFail(c) == Available(c) \/ c \in Timed

Goto(t, at, f) == pc' = [pc EXCEPT ![t] = at] /\ call' = [call EXCEPT ![t] = f]

\* Mutant: every error is worth another attempt.
AnyError(op, error) == op \in Retrying
\* should_retry: the application's own, or is_condition_failed.
MayRetry(op, error) == op = "retry" \/ (op = "optimistic" /\ error = "condition_failed")

-----------------------------------------------------------------------------
Coordinate(t) ==
    /\ pc[t] = "idle"
    /\ Goto(t, "callback", [NoCall EXCEPT !.op = "coordinate"])
    /\ UNCHANGED effects

Trans(t, c) ==
    /\ pc[t] = "idle"
    /\ Goto(t, "begin", [NoCall EXCEPT !.op = "trans", !.code = c, !.attempt = 1, !.max = 1])
    /\ UNCHANGED effects

TransWithRetry(t, c, op, max) ==
    /\ pc[t] = "idle"
    /\ \/ max = 0 /\ Goto(t, "done", [NoCall EXCEPT !.op = op, !.result = "no_attempts"])
       \/ max > 0 /\ Goto(t, "begin", [NoCall EXCEPT !.op = op, !.code = c, !.attempt = 1, !.max = max])
    /\ UNCHANGED effects

\* TcMgr::get and db.transaction(): a connection of the pool, or an error.
Begin(t) ==
    LET f == call[t] IN
    /\ pc[t] = "begin"
    /\ \/ Available(f.code) /\ Goto(t, "callback", [f EXCEPT !.open = {f.code}, !.used = {f.code}])
       \/ MayFail(f.code) /\ Goto(t, "failed", [f EXCEPT !.result = "open_error"])
    /\ UNCHANGED effects

\* The callback of coordinate calls use_tx, get_tx or get_txs, in an order of its
\* own; a source whose transaction is open is not opened again.
AskFor(t, c) ==
    LET f == call[t] IN
    /\ pc[t] = "callback" /\ f.op = "coordinate" /\ c \notin f.asked
    /\ Goto(t, "open", [f EXCEPT !.code = c, !.asked = @ \cup {c}])
    /\ UNCHANGED effects

\* Mutant: no timeout on the wait for a connection.
UseTxPatiently(t) ==
    LET f == call[t] IN
    /\ pc[t] = "open" /\ Available(f.code)
    /\ Goto(t, "callback", [f EXCEPT !.open = @ \cup {f.code}, !.used = @ \cup {f.code}])
    /\ UNCHANGED effects

\* The callback passes an error on, or goes on without the transaction.
UseTx(t) ==
    LET f == call[t] IN
    /\ pc[t] = "open"
    /\ \/ Available(f.code)
          /\ Goto(t, "callback", [f EXCEPT !.open = @ \cup {f.code}, !.used = @ \cup {f.code}])
       \/ MayFail(f.code) /\ Goto(t, "callback", f)
       \/ MayFail(f.code) /\ Goto(t, "rollback", [f EXCEPT !.result = "open_error"])
    /\ UNCHANGED effects

CallbackReturns(t) ==
    /\ pc[t] = "callback"
    /\ \/ Goto(t, "commit", call[t])
       \/ \E error \in {"condition_failed", "other"} :
             Goto(t, "rollback", [call[t] EXCEPT !.result = error])
    /\ UNCHANGED effects

\* Mutant: a failed commit goes unnoticed.
CommitRegardless(t) ==
    LET f == call[t] IN
    /\ pc[t] = "commit"
    /\ \/ \E c \in f.open :
             /\ Goto(t, "commit", [f EXCEPT !.open = @ \ {c}])
             /\ effects' \in {effects, [effects EXCEPT ![t][c] = @ + 1]}
       \/ f.open = {} /\ Goto(t, "done", [f EXCEPT !.result = "ok"]) /\ UNCHANGED effects

\* The transactions commit one after the other, in the order of a hash map.  When
\* one fails, with or without having committed, the others are dropped.
Commit(t) ==
    LET f == call[t] IN
    /\ pc[t] = "commit"
    /\ \/ \E c \in f.open :
             \/ /\ Goto(t, "commit", [f EXCEPT !.open = @ \ {c}])
                /\ effects' = [effects EXCEPT ![t][c] = @ + 1]
             \/ /\ Goto(t, "failed", [f EXCEPT !.open = {}, !.result = "commit_error"])
                /\ effects' \in {effects, [effects EXCEPT ![t][c] = @ + 1]}
       \/ f.open = {} /\ Goto(t, "done", [f EXCEPT !.result = "ok"]) /\ UNCHANGED effects

\* Mutant: the transactions after the one whose rollback failed are kept open.
RollbackSome(t) ==
    LET f == call[t] IN
    /\ pc[t] = "rollback"
    /\ \/ \E c \in f.open :
             \/ Goto(t, "rollback", [f EXCEPT !.open = @ \ {c}])
             \/ Goto(t, "failed", [f EXCEPT !.result = "rollback_error"])
       \/ f.open = {} /\ Goto(t, "failed", f)
    /\ UNCHANGED effects

\* Rollbacks in turn; the error of one that fails is what the caller gets, and the
\* transactions that are left are dropped.
Rollback(t) ==
    LET f == call[t] IN
    /\ pc[t] = "rollback"
    /\ \/ \E c \in f.open :
             \/ Goto(t, "rollback", [f EXCEPT !.open = @ \ {c}])
             \/ Goto(t, "failed", [f EXCEPT !.open = {}, !.result = "rollback_error"])
       \/ f.open = {} /\ Goto(t, "failed", f)
    /\ UNCHANGED effects

\* Mutant: one attempt too many.
NextAttemptUnbounded(t) ==
    LET f == call[t] IN
    /\ pc[t] = "failed" /\ MayRetry(f.op, f.result)
    /\ Goto(t, "begin", [f EXCEPT !.attempt = @ + 1, !.used = {}, !.result = "none"])
    /\ UNCHANGED effects

\* The loop of trans_with_retry.
NextAttempt(t) ==
    LET f == call[t] IN
    /\ pc[t] = "failed" /\ MayRetry(f.op, f.result) /\ f.attempt < f.max
    /\ Goto(t, "begin", [f EXCEPT !.attempt = @ + 1, !.used = {}, !.result = "none"])
    /\ UNCHANGED effects

\* An error is returned when it is not to be retried or the attempts are used up.
GiveUp(t) ==
    LET f == call[t] IN
    /\ pc[t] = "failed"
    /\ ~(f.op = "optimistic" /\ MayRetry(f.op, f.result) /\ f.attempt < f.max)
    /\ Goto(t, "done", f)
    /\ UNCHANGED effects

\* The caller drops the future at an await: the transactions go with it, and a
\* COMMIT that is on its way may still succeed.
Drop(t) ==
    LET f == call[t] IN
    /\ pc[t] \notin {"idle", "done"}
    /\ Goto(t, "done", [f EXCEPT !.open = {}, !.result = "dropped"])
    /\ \/ UNCHANGED effects
       \/ pc[t] = "commit" /\ \E c \in f.open : effects' = [effects EXCEPT ![t][c] = @ + 1]

\* The caller has its answer and starts over.
Return(t) ==
    /\ pc[t] = "done"
    /\ Goto(t, "idle", NoCall)
    /\ effects' = [effects EXCEPT ![t] = [c \in Codes |-> 0]]

Init ==
    /\ pc = [t \in Tasks |-> "idle"]
    /\ call = [t \in Tasks |-> NoCall]
    /\ effects = [t \in Tasks |-> [c \in Codes |-> 0]]

Start(t) ==
    \/ Coordinate(t)
    \/ \E c \in Codes : Trans(t, c)
    \/ \E c \in Codes, op \in Retrying, max \in 0..MaxAttempts : TransWithRetry(t, c, op, max)

Step(t) ==
    \/ Begin(t) \/ UseTx(t) \/ CallbackReturns(t) \/ Commit(t) \/ Rollback(t)
    \/ NextAttempt(t) \/ GiveUp(t) \/ Return(t)

Next == \E t \in Tasks :
    \/ Start(t) \/ Step(t) \/ Drop(t)
    \/ \E c \in Codes : AskFor(t, c)

Spec == Init /\ [][Next]_vars

\* Databases answer, callbacks come to an end, and a pool serves its waiters in turn.
FairSpec == Spec /\ \A t \in Tasks : SF_vars(Step(t))

-----------------------------------------------------------------------------
(* Properties *)

Effects(t) == {effects[t][c] : c \in call[t].used}

\* A call that reports success has committed every transaction of its attempt, and
\* each exactly once unless the application has errors of its own retried
\* (coordinate, trans, trans_on_condition_failed).
SuccessIsComplete ==
    \A t \in Tasks : pc[t] = "done" /\ call[t].result = "ok" =>
        /\ 0 \notin Effects(t)
        /\ call[t].op # "retry" => Effects(t) \subseteq {1}

\* A call that ends with the error of its callback, of an open or of a rollback has
\* committed nothing on any source: a partial commit is always reported as the
\* error of a commit, and never retried by trans_on_condition_failed.
ErrorLeavesNothing ==
    \A t \in Tasks :
        /\ pc[t] = "done" /\ call[t].op # "retry" /\ call[t].result \in Errors \ {"commit_error"} =>
              \A c \in Codes : effects[t][c] = 0
        /\ call[t].op = "optimistic" => \A c \in Codes : effects[t][c] <= 1

\* No source runs more transactions than its pool has connections, and a finished
\* call holds none, however it ended (coordinate consumes tx_map).
ConnectionsReturned ==
    /\ \A c \in Codes : Cardinality({t \in Tasks : c \in call[t].open}) <= PoolSize
    /\ \A t \in Tasks : pc[t] \in {"idle", "begin", "failed", "done"} => call[t].open = {}

\* Every call returns, although callbacks wait for a connection of one source while
\* they hold one of another (get_tx, get_txs): a wait timeout on one of the sources
\* is enough.
CallsReturn == \A t \in Tasks : pc[t] # "idle" ~> pc[t] = "idle"
=============================================================================
