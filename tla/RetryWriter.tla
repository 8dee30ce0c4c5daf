----------------------------- MODULE RetryWriter -----------------------------
(***************************************************************************)
(* The SQL Server writer under faults (dbwriter/mssql.go): every call of   *)
(* BulkInsert or BulkCopy is one server transaction, attempted again after *)
(* a deadlock or a network fault within a budget for each.  The client may *)
(* lose the connection with the transaction open, or with the commit on    *)
(* its way: the server settles such a transaction in its own time, and its *)
(* locks hold up the next attempt until then.  A duplicate key after a     *)
(* network fault is taken for the commit whose acknowledgement was lost,   *)
(* although an earlier run of the build may have left the row it met.      *)
(* Times are milliseconds.                                                 *)
(***************************************************************************)
EXTENDS Integers, FiniteSetsExt

CONSTANTS
    Calls,          \* concurrent calls, each with rows of its own
    Chunks,         \* INSERT statements of a call (rowsPerInsert rows each)
    DeadlockMax,    \* deadlockMaxAttempts
    NetworkMax,     \* networkMaxAttempts
    BackoffCap,     \* networkBackoffCap
    Patience,       \* how long a service restart may take
    Leftovers       \* statements whose rows an earlier run may have left, by call

Least(x, y) == IF x <= y THEN x ELSE y

\* The wait after the n-th network fault, without jitter.
NetworkWait(n) == Least(1000 * 2^(n - 1), BackoffCap)

\* The waits of a call between its network attempts.
Budget == MapThenSumSet(NetworkWait, 1..(NetworkMax - 1))

\* The "total budget" of the network attempts is "long enough to ride out a
\* service restart" (mssql.go:51-55).
RetryAssumption ==
    /\ {Chunks, DeadlockMax, NetworkMax} \subseteq Nat \ {0}
    /\ {BackoffCap, Patience} \subseteq Nat
    /\ Patience <= Budget
    /\ Leftovers \subseteq SUBSET (1..Chunks)

ASSUME RetryAssumption

VARIABLES
    pc,         \* where a call is
    inserted,   \* statements done in the transaction of the current attempt
    deadlocks, networks,  \* failed attempts of each class
    limbo,      \* the transaction the client lost, if the server still has it
    earlier,    \* statements whose rows an earlier run left, fixed for a behaviour
    table,      \* committed rows: <<call, statement>>
    waited      \* time a call has spent backing off since its first network fault

vars == <<pc, inserted, deadlocks, networks, limbo, earlier, table, waited>>

Statements == 1..Chunks
Rows(c) == {c} \X Statements

\* The keys are deterministic: what an earlier run left has the keys of this one.
Left(c) == {c} \X earlier[c]

Init ==
    /\ pc = [c \in Calls |-> "attempt"]
    /\ inserted = [c \in Calls |-> 0]
    /\ deadlocks = [c \in Calls |-> 0]
    /\ networks = [c \in Calls |-> 0]
    /\ limbo = [c \in Calls |-> "none"]
    /\ earlier \in [Calls -> Leftovers]
    /\ table = UNION {Left(c) : c \in Calls}
    /\ waited = [c \in Calls |-> 0]

\* The call's transaction holds locks on the server, in the client's hands or not.
HoldsLocks(c) ==
    \/ pc[c] \in {"open", "committing"} /\ inserted[c] > 0
    \/ limbo[c] # "none"

\* BeginTx
Begin(c) ==
    /\ pc[c] = "attempt"
    /\ pc' = [pc EXCEPT ![c] = "open"]
    /\ inserted' = [inserted EXCEPT ![c] = 0]
    /\ UNCHANGED <<deadlocks, networks, limbo, earlier, table, waited>>

\* A bug to catch: statements outside the transaction, committed one by one.
InsertChunkAutocommit(c) ==
    /\ pc[c] = "open"
    /\ inserted[c] < Chunks
    /\ limbo[c] = "none"
    /\ <<c, inserted[c] + 1>> \notin table
    /\ inserted' = [inserted EXCEPT ![c] = @ + 1]
    /\ table' = table \cup {<<c, inserted[c] + 1>>}
    /\ UNCHANGED <<pc, deadlocks, networks, limbo, earlier, waited>>

\* A bug to catch: one statement too many.
InsertChunkOneMore(c) ==
    /\ pc[c] = "open"
    /\ inserted[c] <= Chunks
    /\ limbo[c] = "none"
    /\ <<c, inserted[c] + 1>> \notin table
    /\ inserted' = [inserted EXCEPT ![c] = @ + 1]
    /\ UNCHANGED <<pc, deadlocks, networks, limbo, earlier, table, waited>>

\* The next statement's rows are new; a lost transaction of the call that has
\* inserted them too must be settled first.
InsertChunk(c) ==
    /\ pc[c] = "open"
    /\ inserted[c] < Chunks
    /\ limbo[c] = "none"
    /\ <<c, inserted[c] + 1>> \notin table
    /\ inserted' = [inserted EXCEPT ![c] = @ + 1]
    /\ UNCHANGED <<pc, deadlocks, networks, limbo, earlier, table, waited>>

\* The next statement meets a duplicate key: after a network fault the call
\* succeeded long ago, otherwise it fails.
Duplicate(c) ==
    /\ pc[c] = "open"
    /\ inserted[c] < Chunks
    /\ limbo[c] = "none"
    /\ <<c, inserted[c] + 1>> \in table
    /\ pc' = [pc EXCEPT ![c] = IF networks[c] > 0 THEN "done" ELSE "failed"]
    /\ UNCHANGED <<inserted, deadlocks, networks, limbo, earlier, table, waited>>

SendCommit(c) ==
    /\ pc[c] = "open"
    /\ inserted[c] = Chunks
    /\ pc' = [pc EXCEPT ![c] = "committing"]
    /\ UNCHANGED <<inserted, deadlocks, networks, limbo, earlier, table, waited>>

\* The server commits and its answer arrives.
Commit(c) ==
    /\ pc[c] = "committing"
    /\ table' = table \cup Rows(c)
    /\ pc' = [pc EXCEPT ![c] = "done"]
    /\ UNCHANGED <<inserted, deadlocks, networks, limbo, earlier, waited>>

\* What the server is left with when a call loses its connection.
Abandoned(c) ==
    CASE pc[c] = "committing" -> "committing"
      [] pc[c] = "open" /\ inserted[c] > 0 -> "open"
      [] OTHER -> limbo[c]

\* A bug to catch: network faults counted against the deadlocks' budget.
NetworkBudgetOfDeadlocks == DeadlockMax

NetworkBudget == NetworkMax

\* A fault at any point of an attempt.
NetworkFault(c) ==
    /\ pc[c] \in {"attempt", "open", "committing"}
    /\ networks' = [networks EXCEPT ![c] = @ + 1]
    /\ limbo' = [limbo EXCEPT ![c] = Abandoned(c)]
    /\ pc' = [pc EXCEPT ![c] = IF networks[c] + 1 >= NetworkBudget
                              THEN "unreachable" ELSE "network"]
    /\ UNCHANGED <<inserted, deadlocks, earlier, table, waited>>

\* A bug to catch: a deadlock forgets the network faults before it.
DeadlockForgets(c) ==
    /\ pc[c] = "open"
    /\ \E d \in Calls \ {c} : HoldsLocks(d)
    /\ deadlocks' = [deadlocks EXCEPT ![c] = @ + 1]
    /\ networks' = [networks EXCEPT ![c] = 0]
    /\ pc' = [pc EXCEPT ![c] = IF deadlocks[c] + 1 >= DeadlockMax THEN "failed" ELSE "deadlock"]
    /\ UNCHANGED <<inserted, limbo, earlier, table, waited>>

\* A bug to catch: deadlocks retried for ever.
DeadlockForEver(c) ==
    /\ pc[c] = "open"
    /\ \E d \in Calls \ {c} : HoldsLocks(d)
    /\ pc' = [pc EXCEPT ![c] = "deadlock"]
    /\ deadlocks' = [deadlocks EXCEPT ![c] = 1]
    /\ UNCHANGED <<inserted, networks, limbo, earlier, table, waited>>

\* Another call's locks, and this one is the victim: rolled back.
Deadlock(c) ==
    /\ pc[c] = "open"
    /\ \E d \in Calls \ {c} : HoldsLocks(d)
    /\ deadlocks' = [deadlocks EXCEPT ![c] = @ + 1]
    /\ pc' = [pc EXCEPT ![c] = IF deadlocks[c] + 1 >= DeadlockMax THEN "failed" ELSE "deadlock"]
    /\ UNCHANGED <<inserted, networks, limbo, earlier, table, waited>>

\* Any other error of a statement: rolled back, and the call fails at once.
PermanentError(c) ==
    /\ pc[c] = "open"
    /\ pc' = [pc EXCEPT ![c] = "failed"]
    /\ UNCHANGED <<inserted, deadlocks, networks, limbo, earlier, table, waited>>

\* A bug to catch: a backoff that does not grow.
BackoffFlat(c) == IF pc[c] = "deadlock" THEN 100 ELSE 1000

\* The wait before the next attempt, without jitter.
Backoff(c) ==
    IF pc[c] = "deadlock" THEN 100 * 2^(deadlocks[c] - 1)
    ELSE NetworkWait(networks[c])

\* The extremes of the jitter: none, and half the wait.
Retry(c) ==
    /\ pc[c] \in {"deadlock", "network"}
    /\ pc' = [pc EXCEPT ![c] = "attempt"]
    /\ \E jitter \in {0, Backoff(c) \div 2} :
          waited' = IF networks[c] = 0 THEN waited
                    ELSE [waited EXCEPT ![c] = @ + Backoff(c) + jitter]
    /\ UNCHANGED <<inserted, deadlocks, networks, limbo, earlier, table>>

\* The server settles a lost transaction: a commit it was sent may still happen.
Settle(c) ==
    /\ limbo[c] # "none"
    /\ limbo' = [limbo EXCEPT ![c] = "none"]
    /\ \/ UNCHANGED table
       \/ limbo[c] = "committing" /\ table' = table \cup Rows(c)
    /\ UNCHANGED <<pc, inserted, deadlocks, networks, earlier, waited>>

Step(c) ==
    \/ Begin(c) \/ InsertChunk(c) \/ Duplicate(c) \/ SendCommit(c) \/ Commit(c)
    \/ NetworkFault(c) \/ Deadlock(c) \/ PermanentError(c)
    \/ Retry(c)

Next == \E c \in Calls : Step(c) \/ Settle(c)

\* Nothing stops a call from running on (its context is never cancelled): it or
\* the server, which gives up on a dead connection in the end, takes its next step.
Fairness == \A c \in Calls : WF_vars(Step(c) \/ Settle(c))

Spec == Init /\ [][Next]_vars /\ Fairness

-----------------------------------------------------------------------------
TypeOK ==
    /\ pc \in [Calls -> {"attempt", "open", "committing", "deadlock", "network",
                     "done", "failed", "unreachable"}]
    /\ inserted \in [Calls -> 0..Chunks]
    /\ deadlocks \in [Calls -> 0..DeadlockMax]
    /\ networks \in [Calls -> 0..NetworkMax]
    /\ limbo \in [Calls -> {"none", "open", "committing"}]
    /\ earlier \in [Calls -> SUBSET Statements]
    /\ table \subseteq Calls \X Statements
    /\ waited \in [Calls -> Nat]

Stored(c) == Rows(c) \subseteq table

\* The table holds of the call's rows what it held before the call.
Found(c) == table \cap Rows(c) = Left(c)

\* "report success and move on" (runWithRetry): a call that reports success has
\* met none of its rows and stored them all, however late a lost transaction is
\* settled and though success is inferred from a duplicate key; only after a
\* network fault can it have taken a row of an earlier run for its own commit.
SuccessIsStored ==
    \A c \in Calls : pc[c] = "done" =>
        \/ earlier[c] = {} /\ Stored(c)
        \/ earlier[c] # {} /\ networks[c] > 0

\* "the transaction either committed in full or not at all" (BulkInsert): no
\* sequence of retries leaves part of a call's rows beside those it found, all of
\* them only if it found none, and a call that failed without a network fault none.
AllOrNothing ==
    \A c \in Calls :
        /\ Found(c) \/ (earlier[c] = {} /\ Stored(c))
        /\ pc[c] = "failed" /\ networks[c] = 0 => Found(c)

\* A call whose transaction committed is not told that its rows are duplicates:
\* it can fail on the network and be stored, but never on rows of its own.
OwnCommitIsNoError ==
    \A c \in Calls : pc[c] = "open" /\ ~Found(c) /\ limbo[c] = "none" => networks[c] > 0

\* "if a subsequent retry fails with a duplicate-key error after a network fault,
\* the 'failed' attempt in fact committed" (runWithRetry): success means stored.
DuplicateIsOwnCommit == \A c \in Calls : pc[c] = "done" => Stored(c)

\* "long enough to ride out a service restart" (networkMaxAttempts): a call gives
\* up on the network only after it has waited that long, whatever deadlocks come
\* between the faults.
RidesOut == \A c \in Calls : pc[c] = "unreachable" => waited[c] >= Patience

\* Every call returns.
EveryCallReturns == <>(\A c \in Calls : pc[c] \in {"done", "failed", "unreachable"})
==============================================================================
