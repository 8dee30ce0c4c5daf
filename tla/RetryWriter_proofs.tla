-------------------------- MODULE RetryWriter_proofs --------------------------
(* Why the writer's retries are safe: the table holds of a call's rows what    *)
(* an earlier run left, or all of them, and the latter without the call       *)
(* knowing only after it has seen a network fault; and why none gives up      *)
(* early: it has then waited for as long as its budget provides.  Proved for  *)
(* all numbers of calls and retries and all leftovers.                        *)
EXTENDS RetryWriter, Sums, TLAPS

Unacknowledged(c) == pc[c] \in {"open", "committing"} /\ inserted[c] > 0

\* What the retries rely on, for one call.
CallInv(c) ==
    /\ Found(c) \/ (earlier[c] = {} /\ Stored(c))
    /\ pc[c] = "done" => (earlier[c] = {} /\ Stored(c)) \/ (earlier[c] # {} /\ networks[c] > 0)
    /\ ~Found(c) => pc[c] = "done" \/ networks[c] > 0
    /\ Unacknowledged(c) =>
          Found(c) /\ limbo[c] = "none" /\ \A k \in 1..inserted[c] : k \notin earlier[c]
    /\ pc[c] = "committing" => inserted[c] = Chunks /\ earlier[c] = {}
    /\ limbo[c] # "none" => Found(c) /\ networks[c] > 0
    /\ limbo[c] = "committing" => earlier[c] = {}

\* The types of what the invariant speaks of.
ClientOK ==
    /\ pc \in [Calls -> {"attempt", "open", "committing", "deadlock", "network",
                         "done", "failed", "unreachable"}]
    /\ inserted \in [Calls -> 0..Chunks]
    /\ networks \in [Calls -> Nat]
    /\ limbo \in [Calls -> {"none", "open", "committing"}]
    /\ earlier \in [Calls -> SUBSET Statements]

RetryInv == ClientOK /\ \A c \in Calls : CallInv(c)

\* Rows(c) has a first row, which tells a stored call from one that found nothing.
LEMMA RowsOfCall ==
    ASSUME NEW c \in Calls, earlier[c] \subseteq Statements
    PROVE  /\ Rows(c) # {}
           /\ Left(c) \subseteq Rows(c)
           /\ ~(Stored(c) /\ Found(c) /\ earlier[c] = {})
           /\ \A k \in Statements : <<c, k>> \in Rows(c) /\ (<<c, k>> \in Left(c) <=> k \in earlier[c])
           /\ \A d \in Calls : c # d => Rows(c) \cap Rows(d) = {}
  <1>1. <<c, 1>> \in Rows(c)
    BY RetryAssumption DEF RetryAssumption, Rows, Statements
  <1>2. \A d \in Calls : c # d => Rows(c) \cap Rows(d) = {}
    BY DEF Rows
  <1>3. Left(c) \subseteq Rows(c)
    BY DEF Left, Rows
  <1>4. \A k \in Statements : <<c, k>> \in Rows(c) /\ (<<c, k>> \in Left(c) <=> k \in earlier[c])
    BY DEF Left, Rows
  <1>5. earlier[c] = {} => Left(c) = {}
    BY DEF Left
  <1>6. QED BY <1>1, <1>2, <1>3, <1>4, <1>5 DEF Stored, Found

\* A step of call c that adds at most its own rows keeps the others' invariant.
LEMMA OthersKept ==
    ASSUME NEW c \in Calls, NEW d \in Calls, c # d, CallInv(d),
           table' = table \/ table' = table \cup Rows(c),
           pc'[d] = pc[d], inserted'[d] = inserted[d],
           networks'[d] = networks[d], limbo'[d] = limbo[d], earlier' = earlier
    PROVE  CallInv(d)'
  <1>1. Rows(c) \cap Rows(d) = {}
    BY DEF Rows
  <1>2. Rows(d)' = Rows(d) /\ Left(d)' = Left(d)
    BY DEF Rows, Statements, Left
  <1>3. Stored(d)' <=> Stored(d)
    BY <1>1, <1>2 DEF Stored
  <1>4. Found(d)' <=> Found(d)
    BY <1>1, <1>2 DEF Found
  <1>5. Unacknowledged(d)' <=> Unacknowledged(d)
    BY DEF Unacknowledged
  <1>6. QED BY <1>3, <1>4, <1>5 DEF CallInv

\* A step that leaves the table alone leaves what is stored alone.
LEMMA SameTable ==
    ASSUME NEW c \in Calls, UNCHANGED <<table, earlier>>
    PROVE  (Stored(c)' <=> Stored(c)) /\ (Found(c)' <=> Found(c))
  BY DEF Stored, Found, Left, Rows, Statements

LEMMA RetryInit == Init => RetryInv
  <1> SUFFICES ASSUME Init PROVE RetryInv
    OBVIOUS
  <1>1. ClientOK
    <2>1. earlier \in [Calls -> SUBSET Statements]
      BY RetryAssumption DEF Init, RetryAssumption, Statements
    <2>2. QED BY <2>1, RetryAssumption DEF Init, ClientOK, RetryAssumption
  <1>2. ASSUME NEW c \in Calls PROVE CallInv(c)
    <2>1. \A d \in Calls : d # c => Left(d) \cap Rows(c) = {}
      BY DEF Left, Rows
    <2>2. Left(c) \subseteq Rows(c)
      BY <1>1, RowsOfCall DEF ClientOK
    <2>3. Found(c)
      BY <2>1, <2>2 DEF Init, Found
    <2>4. QED BY <2>3 DEF Init, CallInv, Unacknowledged
  <1>3. QED BY <1>1, <1>2 DEF RetryInv

\* Every step keeps the types, and the invariant of the call that takes it.
LEMMA RetryStep ==
    ASSUME RetryInv, NEW c \in Calls, Step(c) \/ Settle(c)
    PROVE  RetryInv'
  <1> USE RetryAssumption DEF RetryAssumption
  <1>0. ClientOK /\ CallInv(c) /\ \A d \in Calls : CallInv(d)
    BY DEF RetryInv
  <1>1. /\ ~(Stored(c) /\ Found(c) /\ earlier[c] = {})
        /\ \A k \in Statements : <<c, k>> \in Rows(c) /\ (<<c, k>> \in Left(c) <=> k \in earlier[c])
    BY <1>0, RowsOfCall DEF ClientOK
  <1>2. ASSUME table' = table \/ table' = table \cup Rows(c),
               \A d \in Calls \ {c} : /\ pc'[d] = pc[d] /\ inserted'[d] = inserted[d]
                                      /\ networks'[d] = networks[d] /\ limbo'[d] = limbo[d],
               earlier' = earlier, ClientOK', CallInv(c)'
        PROVE  RetryInv'
    BY <1>0, <1>2, OthersKept DEF RetryInv
  <1>3. CASE Begin(c)
    <2>1. ClientOK'
      BY <1>0, <1>3 DEF ClientOK, Begin
    <2>2. CallInv(c)'
      BY <1>0, <1>3, SameTable DEF ClientOK, Begin, CallInv, Unacknowledged
    <2>3. QED BY <1>0, <1>2, <1>3, <2>1, <2>2 DEF Begin, ClientOK
  <1>4. CASE InsertChunk(c)
    <2>1. ClientOK'
      BY <1>0, <1>4 DEF ClientOK, InsertChunk
    <2>2. inserted[c] + 1 \in Statements /\ inserted[c] \in Nat /\ <<c, inserted[c] + 1>> \notin table
          /\ <<c, inserted[c] + 1>> \in Rows(c)
      BY <1>0, <1>1, <1>4 DEF ClientOK, InsertChunk, Statements
    <2>3. Found(c) /\ limbo[c] = "none"
      BY <1>0, <1>4, <2>2 DEF CallInv, Stored, InsertChunk
    <2>4. inserted[c] + 1 \notin earlier[c]
      BY <1>1, <2>2, <2>3 DEF Found
    <2>5. \A k \in 1..inserted[c] : k \notin earlier[c]
      BY <1>0, <1>4, <2>2 DEF CallInv, Unacknowledged, InsertChunk
    <2>6. /\ inserted'[c] = inserted[c] + 1 /\ pc'[c] = "open"
          /\ UNCHANGED <<networks, limbo, table, earlier>>
      BY <1>0, <1>4 DEF ClientOK, InsertChunk
    <2>7. \A k \in 1..inserted'[c] : k \notin earlier'[c]
      BY <2>2, <2>4, <2>5, <2>6
    <2>8. CallInv(c)'
      BY <2>3, <2>6, <2>7, SameTable DEF CallInv, Unacknowledged
    <2>9. QED BY <1>0, <1>2, <1>4, <2>1, <2>8 DEF InsertChunk, ClientOK
  <1>5. CASE Duplicate(c)
    <2>1. ClientOK'
      BY <1>0, <1>5 DEF ClientOK, Duplicate
    <2>2. <<c, inserted[c] + 1>> \in table /\ <<c, inserted[c] + 1>> \in Rows(c)
          /\ inserted[c] + 1 \in Statements
      BY <1>0, <1>1, <1>5 DEF ClientOK, Duplicate, Statements
    <2>3. (earlier[c] = {} /\ Stored(c) /\ ~Found(c)) \/ (earlier[c] # {} /\ Found(c))
      BY <1>0, <1>1, <2>2 DEF CallInv, Found
    <2>4. /\ pc'[c] = IF networks[c] > 0 THEN "done" ELSE "failed"
          /\ limbo[c] = "none" /\ pc[c] = "open"
          /\ UNCHANGED <<inserted, networks, limbo, table, earlier>>
      BY <1>0, <1>5 DEF ClientOK, Duplicate
    <2>5. ~Found(c) => networks[c] > 0
      BY <1>0, <2>4 DEF CallInv
    <2>6. CallInv(c)'
      BY <2>3, <2>4, <2>5, SameTable DEF CallInv, Unacknowledged
    <2>7. QED BY <1>0, <1>2, <1>5, <2>1, <2>6 DEF Duplicate, ClientOK
  <1>6. CASE SendCommit(c)
    <2>1. ClientOK'
      BY <1>0, <1>6 DEF ClientOK, SendCommit
    <2>2. /\ pc[c] = "open" /\ inserted[c] = Chunks /\ Chunks > 0
          /\ UNCHANGED <<inserted, networks, limbo, table, earlier>> /\ pc'[c] = "committing"
      BY <1>0, <1>6 DEF ClientOK, SendCommit
    <2>3. Found(c) /\ limbo[c] = "none" /\ \A k \in 1..inserted[c] : k \notin earlier[c]
      BY <1>0, <2>2 DEF CallInv, Unacknowledged
    <2>4. earlier[c] = {}
      BY <1>0, <2>2, <2>3 DEF ClientOK, Statements
    <2>5. CallInv(c)'
      BY <2>2, <2>3, <2>4, SameTable DEF CallInv, Unacknowledged
    <2>6. QED BY <1>0, <1>2, <1>6, <2>1, <2>5 DEF SendCommit, ClientOK
  <1>7. CASE Commit(c)
    <2>1. ClientOK'
      BY <1>0, <1>7 DEF ClientOK, Commit
    <2>2. Stored(c)'
      BY <1>7 DEF Commit, Stored, Rows, Statements
    <2>3. limbo[c] = "none" /\ limbo' = limbo /\ pc'[c] = "done" /\ earlier[c] = {} /\ earlier' = earlier
      BY <1>0, <1>7 DEF Commit, CallInv, Unacknowledged, ClientOK
    <2>4. CallInv(c)'
      BY <2>2, <2>3 DEF CallInv, Unacknowledged
    <2>5. QED BY <1>0, <1>2, <1>7, <2>1, <2>4 DEF Commit, ClientOK
  <1>8. CASE NetworkFault(c)
    <2>1. Abandoned(c) \in {"none", "open", "committing"}
      BY <1>0 DEF Abandoned, ClientOK
    <2>2. ClientOK'
      BY <1>0, <1>8, <2>1 DEF ClientOK, NetworkFault
    <2>3. /\ Abandoned(c) # "none" => Found(c)
          /\ Abandoned(c) = "committing" => earlier[c] = {}
      BY <1>0, <1>8 DEF Abandoned, CallInv, Unacknowledged, NetworkFault, ClientOK
    <2>4. limbo'[c] = Abandoned(c) /\ networks'[c] > 0 /\ pc'[c] \in {"network", "unreachable"}
      BY <1>0, <1>8 DEF NetworkFault, ClientOK
    <2>5. CallInv(c)'
      BY <1>0, <1>8, <2>3, <2>4, SameTable DEF CallInv, Unacknowledged, NetworkFault
    <2>6. QED BY <1>0, <1>2, <1>8, <2>2, <2>5 DEF NetworkFault, ClientOK
  <1>9. CASE Deadlock(c)
    <2>1. ClientOK'
      BY <1>0, <1>9 DEF ClientOK, Deadlock
    <2>2. CallInv(c)'
      BY <1>0, <1>9, SameTable DEF ClientOK, Deadlock, CallInv, Unacknowledged
    <2>3. QED BY <1>0, <1>2, <1>9, <2>1, <2>2 DEF Deadlock, ClientOK
  <1>10. CASE PermanentError(c)
    <2>1. ClientOK'
      BY <1>0, <1>10 DEF ClientOK, PermanentError
    <2>2. CallInv(c)'
      BY <1>0, <1>10, SameTable DEF ClientOK, PermanentError, CallInv, Unacknowledged
    <2>3. QED BY <1>0, <1>2, <1>10, <2>1, <2>2 DEF PermanentError, ClientOK
  <1>11. CASE Retry(c)
    <2>1. ClientOK'
      BY <1>0, <1>11 DEF ClientOK, Retry
    <2>2. CallInv(c)'
      BY <1>0, <1>11, SameTable DEF ClientOK, Retry, CallInv, Unacknowledged
    <2>3. QED BY <1>0, <1>2, <1>11, <2>1, <2>2 DEF Retry, ClientOK
  <1>12. CASE Settle(c)
    <2>1. ClientOK'
      BY <1>0, <1>12 DEF ClientOK, Settle
    <2>2. networks[c] > 0 /\ ~Unacknowledged(c) /\ Found(c)
      BY <1>0, <1>12 DEF CallInv, Settle
    <2>3. /\ UNCHANGED <<pc, inserted, networks, earlier>> /\ limbo'[c] = "none"
          /\ \/ UNCHANGED table
             \/ limbo[c] = "committing" /\ table' = table \cup Rows(c)
      BY <1>0, <1>12 DEF Settle, ClientOK
    <2>4. Found(c)' \/ (earlier'[c] = {} /\ Stored(c)')
      <3>1. CASE UNCHANGED table
        BY <2>2, <2>3, <3>1, SameTable
      <3>2. CASE limbo[c] = "committing" /\ table' = table \cup Rows(c)
        <4>1. earlier[c] = {}
          BY <1>0, <3>2 DEF CallInv
        <4>2. Stored(c)'
          BY <3>2 DEF Stored, Rows, Statements
        <4>3. QED BY <2>3, <4>1, <4>2
      <3>3. QED BY <2>3, <3>1, <3>2
    <2>5. pc[c] = "done" => earlier[c] # {}
      BY <1>0, <1>1, <2>2 DEF CallInv
    <2>6. pc[c] = "committing" => inserted[c] = Chunks /\ earlier[c] = {}
      BY <1>0 DEF CallInv
    <2>7. CallInv(c)'
      BY <2>2, <2>3, <2>4, <2>5, <2>6 DEF CallInv, Unacknowledged
    <2>8. QED BY <1>0, <1>2, <1>12, <2>1, <2>7 DEF Settle, ClientOK
  <1>13. QED
    BY <1>3, <1>4, <1>5, <1>6, <1>7, <1>8, <1>9, <1>10, <1>11, <1>12 DEF Step

LEMMA RetryInvariance == Spec => []RetryInv
  <1>1. RetryInv /\ [Next]_vars => RetryInv'
    <2> SUFFICES ASSUME RetryInv, [Next]_vars PROVE RetryInv'
      OBVIOUS
    <2>1. CASE Next
      BY <2>1, RetryStep DEF Next
    <2>2. CASE UNCHANGED vars
      BY <2>2 DEF vars, RetryInv, ClientOK, CallInv, Unacknowledged, Stored, Found,
                  Left, Rows, Statements
    <2>3. QED BY <2>1, <2>2
  <1>2. QED BY RetryInit, <1>1, PTL DEF Spec

\* "report success and move on" (runWithRetry): a call that reports success met
\* none of its rows and stored them all; or it took a row of an earlier run for
\* its own commit, and that only after a network fault.
THEOREM SuccessStored == Spec => []SuccessIsStored
  <1>1. RetryInv => SuccessIsStored
    BY DEF RetryInv, CallInv, SuccessIsStored
  <1>2. QED BY RetryInvariance, <1>1, PTL

\* "the transaction either committed in full or not at all" (BulkInsert), beside
\* whatever an earlier run left: all of a call's rows, and then it found none of
\* them, or nothing; nothing if it failed without a network fault.
THEOREM NothingInPart == Spec => []AllOrNothing
  <1>1. RetryInv => AllOrNothing
    <2> SUFFICES ASSUME RetryInv, NEW c \in Calls
                 PROVE  /\ Found(c) \/ (earlier[c] = {} /\ Stored(c))
                        /\ pc[c] = "failed" /\ networks[c] = 0 => Found(c)
      BY DEF AllOrNothing
    <2>1. QED BY DEF RetryInv, CallInv, ClientOK
  <1>2. QED BY RetryInvariance, <1>1, PTL

\* runWithRetry never fails a call on a duplicate of the call's own rows: it
\* meets them only once it has seen a network fault, leftovers or not.
THEOREM NoFalseDuplicate == Spec => []OwnCommitIsNoError
  <1>1. RetryInv => OwnCommitIsNoError
    BY DEF RetryInv, CallInv, OwnCommitIsNoError
  <1>2. QED BY RetryInvariance, <1>1, PTL

-----------------------------------------------------------------------------
(* Patience.                                                                  *)

\* What a call has waited for after n network faults.
Waits(n) == SumFunctionOnSet([k \in 1..NetworkMax |-> NetworkWait(k)], 1..n)

LEMMA PowerOfTwo ==
    ASSUME NEW n \in Nat
    PROVE  2^n \in Nat
  <1>1. 1 \in Int /\ n \in Int
    OBVIOUS
  <1>2. IsFiniteSet(1..n) /\ Cardinality(1..n) = n
    BY <1>1, FS_Interval
  <1>3. IsFiniteSet(SUBSET (1..n)) /\ Cardinality(SUBSET (1..n)) = 2^n
    BY <1>2, FS_SUBSET
  <1>4. QED BY <1>3, FS_CardinalityType

LEMMA NetworkWaitType ==
    ASSUME NEW n \in Nat \ {0}
    PROVE  NetworkWait(n) \in Nat
  <1>1. n - 1 \in Nat /\ BackoffCap \in Nat
    BY RetryAssumption DEF RetryAssumption
  <1>2. 2^(n - 1) \in Nat
    BY <1>1, PowerOfTwo
  <1>3. 1000 * 2^(n - 1) \in Nat
    BY <1>2
  <1>4. QED BY <1>1, <1>3 DEF NetworkWait, Least

LEMMA WaitsGrow ==
    ASSUME NEW n \in Nat, n < NetworkMax
    PROVE  /\ Waits(n) \in Nat /\ Waits(0) = 0
           /\ n > 0 => Waits(n) = Waits(n - 1) + NetworkWait(n) /\ Waits(n - 1) \in Nat
  <1> DEFINE f == [k \in 1..NetworkMax |-> NetworkWait(k)]
  <1>1. NetworkMax \in Nat
    BY RetryAssumption DEF RetryAssumption
  <1>2. \A k \in 1..NetworkMax : f[k] = NetworkWait(k) /\ f[k] \in Nat
    BY <1>1, NetworkWaitType
  <1>3. \A m \in Nat : m <= NetworkMax => IsFiniteSet(1..m) /\ \A k \in 1..m : f[k] \in Nat
    <2> TAKE m \in Nat
    <2>1. IsFiniteSet(1..m)
      BY FS_Interval
    <2> HIDE DEF f
    <2>2. QED BY <1>1, <1>2, <2>1
  <1>4. Waits(0) = 0
    <2>1. 1..0 = {}
      OBVIOUS
    <2>2. QED BY <2>1, SumOfNone DEF Waits
  <1>5. \A m \in Nat : Waits(m) = SumFunctionOnSet(f, 1..m)
    BY DEF Waits
  <1> HIDE DEF f
  <1>6. \A m \in Nat : m <= NetworkMax => Waits(m) \in Nat
    BY <1>3, <1>5, SumNonNegative
  <1>7. n > 0 => Waits(n) = Waits(n - 1) + NetworkWait(n)
    <2> SUFFICES ASSUME n > 0 PROVE Waits(n) = Waits(n - 1) + NetworkWait(n)
      OBVIOUS
    <2>1. n - 1 \in Nat /\ 1..n = (1..(n - 1)) \cup {n} /\ n \notin 1..(n - 1) /\ n \in 1..NetworkMax
      BY <1>1
    <2>2. IsFiniteSet(1..(n - 1)) /\ (\A k \in 1..(n - 1) : f[k] \in Int) /\ f[n] \in Int
      BY <1>1, <1>2, <1>3, <2>1
    <2>3. SumFunctionOnSet(f, (1..(n - 1)) \cup {n}) = SumFunctionOnSet(f, 1..(n - 1)) + f[n]
      BY <2>1, <2>2, SumAdd
    <2>4. QED BY <1>2, <1>5, <2>1, <2>3
  <1>8. QED BY <1>1, <1>4, <1>6, <1>7

\* The recursion behind Budget.
WaitSums(S, g) ==
    g = [s \in SUBSET S |-> IF s = {} THEN 0
                            ELSE NetworkWait(CHOOSE k \in s : TRUE) + g[s \ {CHOOSE k \in s : TRUE}]]

LEMMA BudgetIsWaits == Budget = Waits(NetworkMax - 1)
  <1> DEFINE f == [k \in 1..NetworkMax |-> NetworkWait(k)]
             S == 1..(NetworkMax - 1)
  <1>1. NetworkMax \in Nat \ {0}
    BY RetryAssumption DEF RetryAssumption
  <1>2. S \subseteq 1..NetworkMax
    BY <1>1
  <1>3. Budget = (CHOOSE g : WaitSums(S, g))[S]
    BY DEF Budget, MapThenSumSet, MapThenFoldSet, WaitSums
  <1>4. ASSUME NEW s \in SUBSET S, s # {}
        PROVE  NetworkWait(CHOOSE k \in s : TRUE) = f[Picked(s)] /\ Picked(s) = CHOOSE k \in s : TRUE
    <2>1. Picked(s) \in s
      BY <1>4, PickedIsMember
    <2>2. f[Picked(s)] = NetworkWait(Picked(s))
      BY <1>2, <2>1
    <2>3. Picked(s) = CHOOSE k \in s : TRUE
      BY DEF Picked
    <2> HIDE DEF f
    <2>4. QED BY <2>2, <2>3
  <1>5. \A g : WaitSums(S, g) <=> PartialSums(f, S, g)
    <2> TAKE g
    <2>1. \A s \in SUBSET S :
              (IF s = {} THEN 0
               ELSE NetworkWait(CHOOSE k \in s : TRUE) + g[s \ {CHOOSE k \in s : TRUE}])
              = (IF s = {} THEN 0 ELSE f[Picked(s)] + g[s \ {Picked(s)}])
      <3> TAKE s \in SUBSET S
      <3>1. CASE s = {}
        BY <3>1
      <3>2. CASE s # {}
        <4>1. NetworkWait(CHOOSE k \in s : TRUE) = f[Picked(s)] /\ Picked(s) = CHOOSE k \in s : TRUE
          BY <1>4, <3>2
        <4> HIDE DEF f
        <4>2. QED BY <3>2, <4>1
      <3>3. QED BY <3>1, <3>2
    <2>2. QED BY <2>1, Zenon DEF WaitSums, PartialSums
  <1>6. (CHOOSE g : WaitSums(S, g)) = (CHOOSE g : PartialSums(f, S, g))
    BY <1>5, Zenon
  <1>7. QED BY <1>3, <1>6, SumIsPartialSum DEF Waits

\* A call in an attempt has waited after every network fault before it.
PatientCall(c) ==
    /\ pc[c] \in {"attempt", "open", "committing", "deadlock", "network"} =>
          networks[c] < NetworkMax /\ deadlocks[c] < DeadlockMax
    /\ pc[c] \in {"attempt", "open", "committing", "deadlock"} => waited[c] >= Waits(networks[c])
    /\ pc[c] = "deadlock" => deadlocks[c] > 0
    /\ pc[c] = "network" => networks[c] > 0 /\ waited[c] >= Waits(networks[c] - 1)
    /\ pc[c] = "unreachable" => waited[c] >= Waits(NetworkMax - 1)

PatientInv == TypeOK /\ \A c \in Calls : PatientCall(c)

LEMMA PatientInit == Init => PatientInv
  <1> SUFFICES ASSUME Init PROVE PatientInv
    OBVIOUS
  <1>1. TypeOK
    <2>1. earlier \in [Calls -> SUBSET Statements]
      BY RetryAssumption DEF Init, RetryAssumption, Statements
    <2>2. table \subseteq Calls \X Statements
      BY <2>1 DEF Init, Left
    <2>3. QED BY <2>1, <2>2, RetryAssumption DEF RetryAssumption, Init, TypeOK
  <1>2. 0 < NetworkMax /\ 0 < DeadlockMax
    BY RetryAssumption DEF RetryAssumption
  <1>3. Waits(0) = 0
    BY <1>2, WaitsGrow
  <1>4. QED BY <1>1, <1>2, <1>3 DEF Init, PatientInv, PatientCall

LEMMA BackoffType ==
    ASSUME TypeOK, NEW c \in Calls, PatientCall(c), pc[c] \in {"deadlock", "network"}
    PROVE  Backoff(c) \in Nat /\ (pc[c] = "network" => Backoff(c) = NetworkWait(networks[c]))
  <1>1. CASE pc[c] = "deadlock"
    <2>1. deadlocks[c] - 1 \in Nat
      BY <1>1 DEF PatientCall, TypeOK
    <2>2. 2^(deadlocks[c] - 1) \in Nat
      BY <2>1, PowerOfTwo
    <2>3. QED BY <1>1, <2>2 DEF Backoff
  <1>2. CASE pc[c] = "network"
    <2>1. networks[c] \in Nat \ {0}
      BY <1>2 DEF PatientCall, TypeOK
    <2>2. QED BY <1>2, <2>1, NetworkWaitType DEF Backoff
  <1>3. QED BY <1>1, <1>2

LEMMA PatientStep ==
    ASSUME PatientInv, NEW c \in Calls, Step(c) \/ Settle(c)
    PROVE  PatientInv'
  <1> USE RetryAssumption DEF RetryAssumption
  <1>0. TypeOK /\ PatientCall(c) /\ \A d \in Calls : PatientCall(d)
    BY DEF PatientInv
  <1>a. \A n : Waits(n)' = Waits(n)
    BY DEF Waits, NetworkWait, Least
  <1>1. ASSUME \A d \in Calls \ {c} : /\ pc'[d] = pc[d] /\ waited'[d] = waited[d]
                                      /\ networks'[d] = networks[d] /\ deadlocks'[d] = deadlocks[d],
               TypeOK', PatientCall(c)'
        PROVE  PatientInv'
    <2>1. ASSUME NEW d \in Calls \ {c} PROVE PatientCall(d)'
      BY <1>0, <1>a, <1>1 DEF PatientCall
    <2>2. QED BY <1>1, <2>1 DEF PatientInv
  <1>2. CASE Begin(c) \/ InsertChunk(c) \/ SendCommit(c)
    <2>1. /\ pc' = [pc EXCEPT ![c] = pc'[c]] /\ pc[c] \in {"attempt", "open"}
          /\ pc'[c] \in {"open", "committing"} /\ UNCHANGED <<deadlocks, networks, table, limbo, earlier, waited>>
          /\ inserted' \in [Calls -> 0..Chunks]
      BY <1>0, <1>2 DEF Begin, InsertChunk, SendCommit, TypeOK
    <2>2. TypeOK'
      BY <1>0, <2>1 DEF TypeOK
    <2>3. PatientCall(c)'
      BY <1>0, <1>a, <2>1 DEF PatientCall
    <2>4. QED BY <1>0, <1>1, <2>1, <2>2, <2>3 DEF TypeOK
  <1>3. CASE Duplicate(c) \/ Commit(c) \/ PermanentError(c)
    <2>1. /\ pc' = [pc EXCEPT ![c] = pc'[c]] /\ pc'[c] \in {"done", "failed"}
          /\ UNCHANGED <<inserted, deadlocks, networks, limbo, earlier, waited>>
          /\ table' \in {table, table \cup Rows(c)}
      BY <1>0, <1>3 DEF Duplicate, Commit, PermanentError, TypeOK
    <2>2. TypeOK'
      BY <1>0, <2>1 DEF TypeOK, Rows
    <2>3. PatientCall(c)'
      BY <2>1 DEF PatientCall
    <2>4. QED BY <1>0, <1>1, <2>1, <2>2, <2>3 DEF TypeOK
  <1>4. CASE NetworkFault(c)
    <2>1. /\ networks[c] < NetworkMax /\ networks[c] \in Nat /\ waited[c] >= Waits(networks[c])
          /\ deadlocks[c] < DeadlockMax
      BY <1>0, <1>4 DEF NetworkFault, PatientCall, TypeOK
    <2>2. /\ networks' = [networks EXCEPT ![c] = @ + 1] /\ networks'[c] = networks[c] + 1
          /\ pc' = [pc EXCEPT ![c] = IF networks[c] + 1 >= NetworkMax THEN "unreachable" ELSE "network"]
          /\ UNCHANGED <<inserted, deadlocks, earlier, table, waited>>
          /\ limbo' = [limbo EXCEPT ![c] = Abandoned(c)]
      BY <1>0, <1>4 DEF NetworkFault, NetworkBudget, TypeOK
    <2>3. Abandoned(c) \in {"none", "open", "committing"}
      BY <1>0 DEF Abandoned, TypeOK
    <2>4. TypeOK'
      BY <1>0, <2>1, <2>2, <2>3 DEF TypeOK
    <2>5. CASE networks[c] + 1 >= NetworkMax
      <3>1. networks[c] = NetworkMax - 1 /\ pc'[c] = "unreachable"
        BY <1>0, <2>1, <2>2, <2>5 DEF TypeOK
      <3>2. PatientCall(c)'
        BY <1>a, <2>1, <2>2, <3>1 DEF PatientCall
      <3>3. QED BY <1>0, <1>1, <2>2, <2>4, <3>2 DEF TypeOK
    <2>6. CASE ~(networks[c] + 1 >= NetworkMax)
      <3>1. pc'[c] = "network" /\ networks'[c] - 1 = networks[c] /\ networks'[c] < NetworkMax
            /\ networks'[c] > 0
        BY <1>0, <2>1, <2>2, <2>6 DEF TypeOK
      <3>2. PatientCall(c)'
        BY <1>a, <2>1, <2>2, <3>1 DEF PatientCall
      <3>3. QED BY <1>0, <1>1, <2>2, <2>4, <3>2 DEF TypeOK
    <2>7. QED BY <2>5, <2>6
  <1>5. CASE Deadlock(c)
    <2>1. /\ pc[c] = "open" /\ deadlocks[c] < DeadlockMax /\ deadlocks[c] \in Nat
          /\ networks[c] < NetworkMax /\ waited[c] >= Waits(networks[c])
      BY <1>0, <1>5 DEF Deadlock, PatientCall, TypeOK
    <2>2. /\ deadlocks' = [deadlocks EXCEPT ![c] = @ + 1] /\ deadlocks'[c] = deadlocks[c] + 1
          /\ pc' = [pc EXCEPT ![c] = IF deadlocks[c] + 1 >= DeadlockMax THEN "failed" ELSE "deadlock"]
          /\ UNCHANGED <<inserted, networks, limbo, earlier, table, waited>>
      BY <1>0, <1>5 DEF Deadlock, TypeOK
    <2>3. TypeOK'
      BY <1>0, <2>1, <2>2 DEF TypeOK
    <2>4. PatientCall(c)'
      <3>1. pc'[c] = "failed" \/ (pc'[c] = "deadlock" /\ deadlocks'[c] < DeadlockMax /\ deadlocks'[c] > 0)
        BY <1>0, <2>1, <2>2 DEF TypeOK
      <3>2. QED BY <1>a, <2>1, <2>2, <3>1 DEF PatientCall
    <2>5. QED BY <1>0, <1>1, <2>2, <2>3, <2>4 DEF TypeOK
  <1>6. CASE Retry(c)
    <2>1. PICK jitter \in {0, Backoff(c) \div 2} :
              waited' = IF networks[c] = 0 THEN waited
                        ELSE [waited EXCEPT ![c] = @ + Backoff(c) + jitter]
      BY <1>6 DEF Retry
    <2>2. /\ pc[c] \in {"deadlock", "network"} /\ pc' = [pc EXCEPT ![c] = "attempt"] /\ pc'[c] = "attempt"
          /\ UNCHANGED <<inserted, deadlocks, networks, limbo, earlier, table>>
      BY <1>0, <1>6 DEF Retry, TypeOK
    <2>3. Backoff(c) \in Nat /\ (pc[c] = "network" => Backoff(c) = NetworkWait(networks[c]))
      BY <1>0, <2>2, BackoffType
    <2>4. jitter \in Nat
      BY <2>3
    <2>5. /\ networks[c] \in Nat /\ networks[c] < NetworkMax /\ deadlocks[c] < DeadlockMax
          /\ waited[c] \in Nat
      BY <1>0, <2>2 DEF PatientCall, TypeOK
    <2>6. /\ waited' \in [Calls -> Nat] /\ \A d \in Calls \ {c} : waited'[d] = waited[d]
          /\ waited'[c] >= waited[c] /\ (networks[c] > 0 => waited'[c] >= waited[c] + Backoff(c))
      BY <1>0, <2>1, <2>3, <2>4, <2>5 DEF TypeOK
    <2>7. TypeOK'
      BY <1>0, <2>2, <2>6 DEF TypeOK
    <2>8. waited'[c] >= Waits(networks[c])
      <3>1. CASE pc[c] = "deadlock"
        <4>1. waited[c] >= Waits(networks[c]) /\ Waits(networks[c]) \in Nat /\ waited'[c] \in Nat
          BY <1>0, <2>5, <2>6, <3>1, WaitsGrow DEF PatientCall
        <4>2. QED BY <2>5, <2>6, <4>1
      <3>2. CASE pc[c] = "network"
        <4>1. networks[c] > 0 /\ waited[c] >= Waits(networks[c] - 1)
          BY <1>0, <3>2 DEF PatientCall
        <4>2. /\ Waits(networks[c]) = Waits(networks[c] - 1) + NetworkWait(networks[c])
              /\ Waits(networks[c] - 1) \in Nat
          BY <2>5, <4>1, WaitsGrow
        <4>3. waited'[c] \in Nat
          BY <2>6
        <4>4. QED BY <2>3, <2>5, <2>6, <3>2, <4>1, <4>2, <4>3
      <3>3. QED BY <2>2, <3>1, <3>2
    <2>9. PatientCall(c)'
      BY <1>a, <2>2, <2>5, <2>8 DEF PatientCall
    <2>10. QED BY <1>0, <1>1, <2>2, <2>6, <2>7, <2>9 DEF TypeOK
  <1>7. CASE Settle(c)
    <2>1. /\ UNCHANGED <<pc, inserted, deadlocks, networks, earlier, waited>>
          /\ limbo' = [limbo EXCEPT ![c] = "none"] /\ table' \in {table, table \cup Rows(c)}
      BY <1>7 DEF Settle
    <2>2. TypeOK'
      BY <1>0, <2>1 DEF TypeOK, Rows
    <2>3. PatientCall(c)'
      BY <1>0, <1>a, <2>1 DEF PatientCall
    <2>4. QED BY <1>1, <2>1, <2>2, <2>3
  <1>8. QED BY <1>2, <1>3, <1>4, <1>5, <1>6, <1>7 DEF Step

LEMMA PatientInvariance == Spec => []PatientInv
  <1>1. PatientInv /\ [Next]_vars => PatientInv'
    <2> SUFFICES ASSUME PatientInv, [Next]_vars PROVE PatientInv'
      OBVIOUS
    <2>1. CASE Next
      BY <2>1, PatientStep DEF Next
    <2>2. CASE UNCHANGED vars
      <3>1. \A n : Waits(n)' = Waits(n)
        BY DEF Waits, NetworkWait, Least
      <3>2. QED BY <2>2, <3>1 DEF vars, PatientInv, PatientCall, TypeOK
    <2>3. QED BY <2>1, <2>2
  <1>2. QED BY PatientInit, <1>1, PTL DEF Spec

\* Every variable of the writer keeps to its kind; in particular no call ever
\* counts more faults of a class than that class's budget.
THEOREM BudgetsAreKept == Spec => []TypeOK
  <1>1. PatientInv => TypeOK
    BY DEF PatientInv
  <1>2. QED BY PatientInvariance, <1>1, PTL

\* "long enough to ride out a service restart" (networkMaxAttempts): a call gives
\* up on the network only after all the waits its budget provides for, however
\* deadlocks, inferred successes and other calls come between the faults.
THEOREM GivesUpLate == Spec => []RidesOut
  <1>1. PatientInv => RidesOut
    <2> SUFFICES ASSUME PatientInv, NEW c \in Calls, pc[c] = "unreachable"
                 PROVE  waited[c] >= Patience
      BY DEF RidesOut
    <2>1. waited[c] >= Budget /\ waited[c] \in Nat
      BY BudgetIsWaits DEF PatientInv, PatientCall, TypeOK
    <2>2. Budget \in Int
      <3>1. NetworkMax - 1 \in Nat /\ NetworkMax - 1 < NetworkMax
        BY RetryAssumption DEF RetryAssumption
      <3>2. QED BY <3>1, WaitsGrow, BudgetIsWaits
    <2>3. Patience <= Budget /\ Patience \in Int
      BY RetryAssumption DEF RetryAssumption
    <2>4. QED BY <2>1, <2>2, <2>3
  <1>2. QED BY PatientInvariance, <1>1, PTL
==============================================================================
