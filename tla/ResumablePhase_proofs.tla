------------------------ MODULE ResumablePhase_proofs ------------------------
(* Proofs about the resume protocol, for every set of tables, number of    *)
(* parents, batch size, layout and order of flushes and deletes; and that  *)
(* it implements DurablePrefix, for the phases whose marked tables have    *)
(* rows of every parent.                                                   *)
EXTENDS ResumablePhase, Sums, TLAPS

\* The high water mark of a set of parents is its maximum, 0 if it is empty.
LEMMA HighWaterIsMax ==
    ASSUME NEW S \in SUBSET Parents
    PROVE  /\ HighWater(S) \in S \cup {0}
           /\ HighWater(S) \in 0..N
           /\ \A x \in S : x <= HighWater(S)
<1> DEFINE U == S \cup {0}
<1>0. N \in Nat
    BY PhaseAssumption
<1>1. U \in SUBSET (0..N) /\ U # {}
    BY <1>0 DEF Parents
<1>2. \E m \in U : \A x \in U : x <= m
    <2> HIDE DEF U
    <2> QED
        BY <1>0, <1>1, GreatestOfNaturals
<1>3. \E m \in S \cup {0} : \A x \in S : x <= m
    BY <1>2
<1>4. HighWater(S) \in S \cup {0} /\ \A x \in S : x <= HighWater(S)
    BY <1>3 DEF HighWater
<1> QED
    BY <1>1, <1>4

\* The watermark is the least high water mark of the marked tables.
LEMMA WatermarkIsMin ==
    ASSUME db \in [Tables -> SUBSET Parents]
    PROVE  /\ Watermark \in 0..N
           /\ \E t \in Marks : Watermark = HighWater(db[t])
           /\ \A t \in Marks : Watermark <= HighWater(db[t])
<1> DEFINE W == {HighWater(db[t]) : t \in Marks}
<1>1. \A t \in Marks : HighWater(db[t]) \in 0..N
    BY HighWaterIsMax, PhaseAssumption
<1>2. W \in SUBSET Nat
    BY <1>1
<1>3. W # {}
    BY PhaseAssumption
<1>4. \E w \in W : \A x \in W : w <= x
    <2> HIDE DEF W
    <2> QED
        BY <1>2, <1>3, LeastOfNaturals
<1>5. Watermark \in W /\ \A t \in Marks : Watermark <= HighWater(db[t])
    BY <1>4 DEF Watermark
<1> QED
    BY <1>1, <1>5

LEMMA NonEmptySequence ==
    ASSUME NEW S, NEW s \in Seq(S), s # << >>
    PROVE  /\ Len(s) \in Nat /\ Len(s) >= 1
           /\ \A k \in 1..Len(s) : s[k] \in S
<1>1. Len(s) \in Nat /\ \A k \in 1..Len(s) : s[k] \in S
    OBVIOUS
<1>2. Len(s) # 0
    OBVIOUS
<1> QED
    BY <1>1, <1>2

\* What the assumptions on the constants say of single entries.
LEMMA ConstantFacts ==
    /\ N \in Nat /\ N >= 1
    /\ BatchSize \in Nat /\ BatchSize >= 1
    /\ Marks \subseteq Tables
    /\ Len(FlushOrder) \in Nat /\ Len(FlushOrder) >= 1
    /\ \A k \in 1..Len(FlushOrder) : FlushOrder[k] \in Tables
    /\ Len(Deletions) \in Nat /\ Len(Deletions) >= 1
    /\ \A k \in 1..Len(Deletions) :
          Deletions[k] \in [table : Tables, above : Tables \cup {Batched}]
<1>1. /\ FlushOrder \in Seq(Tables) /\ FlushOrder # << >>
      /\ Deletions \in Seq([table : Tables, above : Tables \cup {Batched}])
      /\ Deletions # << >>
    BY PhaseAssumption
<1>2. N \in Nat /\ N >= 1 /\ BatchSize \in Nat /\ BatchSize >= 1 /\ Marks \subseteq Tables
    BY PhaseAssumption
<1>3. /\ Len(FlushOrder) \in Nat /\ Len(FlushOrder) >= 1
      /\ \A k \in 1..Len(FlushOrder) : FlushOrder[k] \in Tables
    BY <1>1, NonEmptySequence
<1>4. /\ Len(Deletions) \in Nat /\ Len(Deletions) >= 1
      /\ \A k \in 1..Len(Deletions) :
            Deletions[k] \in [table : Tables, above : Tables \cup {Batched}]
    BY <1>1, NonEmptySequence
<1> QED
    BY <1>2, <1>3, <1>4

LEMMA RowsType ==
    ASSUME TypeOK
    PROVE  /\ rows \in [Tables -> SUBSET Parents]
           /\ \A t \in Tables : rows[t] \subseteq Parents /\ db[t] \subseteq Parents
<1>1. rows \in [Tables -> SUBSET Parents]
    BY PhaseAssumption DEF TypeOK
<1> QED
    BY <1>1 DEF TypeOK

\* The batch being flushed ends at a parent, no earlier than it begins.
LEMMA LastInRange ==
    ASSUME lo \in 1..(N + 1)
    PROVE  /\ Last \in Nat /\ Last <= N
           /\ lo <= N => lo <= Last
BY ConstantFacts, SMT DEF Last

-----------------------------------------------------------------------------
(* Type correctness.                                                       *)

LEMMA TypeInit == Init => TypeOK
<1> SUFFICES ASSUME Init PROVE TypeOK
    OBVIOUS
<1>1. db \in [Tables -> SUBSET Parents] /\ pinned \subseteq Tables \X Parents
    BY DEF Init
<1>2. lo \in 1..(N + 1) /\ wm \in 0..N
    BY ConstantFacts DEF Init
<1> QED
    BY <1>1, <1>2 DEF Init, TypeOK, Stages, Faults

LEMMA TypeStep == TypeOK /\ [Next]_vars => TypeOK'
<1> SUFFICES ASSUME TypeOK, [Next]_vars PROVE TypeOK'
    OBVIOUS
<1> USE DEF TypeOK, Stages, Faults
<1>1. CASE Start
    BY <1>1 DEF Start
<1>2. CASE TakeWatermark
    <2>1. Watermark \in 0..N
        BY WatermarkIsMin
    <2>2. wm' \in 0..N /\ lo' \in 1..(N + 1)
        BY <1>2, <2>1, ConstantFacts DEF TakeWatermark
    <2>3. at' \in Nat /\ at' \in 1..Len(Deletions)
        BY <1>2, ConstantFacts DEF TakeWatermark
    <2> QED
        BY <1>2, <2>2, <2>3 DEF TakeWatermark
<1>3. CASE DeleteAbove
    <2>1. at \in 1..Len(Deletions)
        BY <1>3 DEF DeleteAbove
    <2>2. CASE StillReferenced(Deletions[at].table, Doomed(Deletions[at]))
        BY <1>3, <2>2 DEF DeleteAbove, Fail
    <2>3. CASE ~StillReferenced(Deletions[at].table, Doomed(Deletions[at]))
        <3>1. db' \in [Tables -> SUBSET Parents]
            BY <1>3, <2>3 DEF DeleteAbove
        <3>2. at' \in Nat /\ (pc' = "cleanup" => at' \in 1..Len(Deletions))
            BY <1>3, <2>1, <2>3, ConstantFacts DEF DeleteAbove
        <3> QED
            BY <1>3, <2>3, <3>1, <3>2 DEF DeleteAbove
    <2> QED
        BY <2>2, <2>3
<1>4. CASE FillBatch
    <2>1. 1 \in 1..Len(FlushOrder)
        BY ConstantFacts
    <2> QED
        BY <1>4, <2>1 DEF FillBatch
<1>5. CASE FlushTable
    <2>1. at \in 1..Len(FlushOrder) /\ lo <= N
        BY <1>5 DEF FlushTable
    <2>2. CASE Refusal(FlushOrder[at]) # "none" /\ Fail(Refusal(FlushOrder[at]))
        <3>1. pc' = "failed" /\ fault' = Refusal(FlushOrder[at])
            BY <2>2 DEF Fail
        <3>2. Refusal(FlushOrder[at]) \in Faults
            BY DEF Refusal
        <3>3. UNCHANGED <<rows, pinned, db, wm, lo, at>>
            BY <1>5, <2>2 DEF FlushTable, Fail
        <3> QED
            BY <3>1, <3>2, <3>3
    <2>3. ASSUME NEW new, new \subseteq Fresh(FlushOrder[at]), Flushed(FlushOrder[at], new)
          PROVE  TypeOK'
        <3>1. db' = [db EXCEPT ![FlushOrder[at]] = @ \cup new]
            BY <2>3 DEF Flushed
        <3>2. new \subseteq Parents
            BY <2>1, <2>3, RowsType, ConstantFacts DEF Fresh
        <3>3. db' \in [Tables -> SUBSET Parents]
            BY <3>1, <3>2
        <3>4. lo' \in 1..(N + 1)
            BY <2>3, LastInRange, ConstantFacts DEF Flushed
        <3>5. /\ at' \in Nat
              /\ pc' = "flush" => at' \in 1..Len(FlushOrder) /\ lo' <= N
            BY <2>1, <2>3, ConstantFacts DEF Flushed
        <3> QED
            BY <1>5, <2>3, <3>3, <3>4, <3>5 DEF FlushTable, Flushed
    <2> QED
        BY <1>5, <2>2, <2>3 DEF FlushTable
<1>6. CASE Finish
    BY <1>6 DEF Finish
<1>7. CASE Crash
    BY <1>7, ConstantFacts DEF Crash
<1>8. CASE LaterPhaseRefers
    <2>a. PICK t \in Exposed : \E i \in db[t] : pinned' = pinned \cup {<<t, i>>}
        BY <1>8 DEF LaterPhaseRefers
    <2>1. PICK i \in db[t] : pinned' = pinned \cup {<<t, i>>}
        BY <2>a
    <2>2. t \in Tables /\ i \in Parents
        BY PhaseAssumption
    <2> QED
        BY <1>8, <2>1, <2>2 DEF LaterPhaseRefers
<1>9. CASE UNCHANGED vars
    BY <1>9 DEF vars
<1> QED
    BY <1>1, <1>2, <1>3, <1>4, <1>5, <1>6, <1>7, <1>8, <1>9 DEF Next, Work

\* Every variable keeps its type, for every phase that meets the assumptions.
THEOREM TypeCorrect == Spec => []TypeOK
BY TypeInit, TypeStep, PTL DEF Spec

-----------------------------------------------------------------------------
(* The checkpoint: a marked table holds a prefix of its rows.              *)

\* Without holes, a table covers everything up to its high water mark.
LEMMA PrefixCovers ==
    ASSUME TypeOK, NEW t \in Tables, PrefixClosed(t)
    PROVE  Covers(t, HighWater(db[t]))
<1> SUFFICES ASSUME NEW i \in rows[t], i <= HighWater(db[t]) PROVE i \in db[t]
    BY DEF Covers
<1>1. i \in 1..N /\ N \in Nat
    BY RowsType, ConstantFacts DEF Parents
<1>2. HighWater(db[t]) \in db[t] \cup {0} /\ HighWater(db[t]) \in 0..N
    BY RowsType, HighWaterIsMax
<1>3. HighWater(db[t]) \in db[t]
    BY <1>1, <1>2
<1>4. i = HighWater(db[t]) \/ i < HighWater(db[t])
    BY <1>1, <1>2
<1> QED
    BY <1>3, <1>4 DEF PrefixClosed

LEMMA PhaseInit == Init => PhaseInv
<1> SUFFICES ASSUME Init PROVE PhaseInv
    OBVIOUS
<1>1. \A t \in Tables : db[t] = {}
    BY DEF Init
<1>2. \A t \in Marks : PrefixClosed(t)
    BY <1>1, ConstantFacts DEF PrefixClosed
<1> QED
    BY <1>1, <1>2 DEF Init, PhaseInv

\* Every step preserves it; only a delete and a bulk copy change a table.
LEMMA PhaseStep ==
    ASSUME ~NetworkFaults
    PROVE  TypeOK /\ TypeOK' /\ PhaseInv /\ [Next]_vars => PhaseInv'
<1> SUFFICES ASSUME TypeOK, TypeOK', PhaseInv, [Next]_vars PROVE PhaseInv'
    OBVIOUS
<1>t. rows' = rows
    BY DEF Next, Work, Start, TakeWatermark, DeleteAbove, FillBatch, FlushTable,
           Finish, Crash, LaterPhaseRefers, Fail, Flushed, vars
<1>k. /\ \A t \in Tables : db[t] \subseteq rows[t]
      /\ \A t \in Marks : PrefixClosed(t)
    BY DEF PhaseInv
<1>s. ASSUME db' = db
      PROVE  /\ \A t \in Tables : db'[t] \subseteq rows'[t]
             /\ \A t \in Marks : PrefixClosed(t)'
             /\ \A t, x : Covers(t, x)' <=> Covers(t, x')
    BY <1>t, <1>k, <1>s DEF PrefixClosed, Covers
<1>1. CASE Start
    BY <1>1, <1>s DEF Start, PhaseInv
<1>2. CASE TakeWatermark
    <2>1. \A t \in Marks : Covers(t, Watermark)
        <3> SUFFICES ASSUME NEW t \in Marks, NEW i \in rows[t], i <= Watermark
                     PROVE  i \in db[t]
            BY DEF Covers
        <3>1. Covers(t, HighWater(db[t]))
            BY <1>k, PrefixCovers, ConstantFacts
        <3>2. Watermark <= HighWater(db[t]) /\ Watermark \in 0..N
            BY WatermarkIsMin DEF TypeOK
        <3>3. HighWater(db[t]) \in 0..N /\ i \in 1..N /\ N \in Nat
            BY RowsType, HighWaterIsMax, ConstantFacts DEF Parents
        <3>4. i <= HighWater(db[t])
            BY <3>2, <3>3
        <3> QED
            BY <3>1, <3>4 DEF Covers
    <2>2. wm' = Watermark /\ lo' = wm' + 1 /\ lo' - 1 = Watermark
        BY <1>2, WatermarkIsMin DEF TakeWatermark, TypeOK
    <2>3. \A t \in Marks : Covers(t, lo - 1)'
        BY <1>2, <2>1, <2>2 DEF TakeWatermark, Covers
    <2>4. wm' < lo'
        BY <2>2, WatermarkIsMin DEF TypeOK
    <2> QED
        BY <1>2, <1>s, <2>2, <2>3, <2>4 DEF TakeWatermark, PhaseInv
<1>3. CASE DeleteAbove
    <2> DEFINE d == Deletions[at]
    <2>1. /\ at \in 1..Len(Deletions) /\ lo = wm + 1 /\ wm < lo
          /\ \A t \in Marks : Covers(t, lo - 1)
        BY <1>3 DEF DeleteAbove, TypeOK, PhaseInv
    <2>2. CASE StillReferenced(d.table, Doomed(d))
        BY <1>3, <2>2, <1>s DEF DeleteAbove, Fail, PhaseInv
    <2>3. CASE ~StillReferenced(d.table, Doomed(d))
        <3>1. d.table \in Tables /\ (d.table \in Marks => d.above = Batched)
            BY <2>1, ConstantFacts, PhaseAssumption
        <3>2. db' = [db EXCEPT ![d.table] = @ \ Doomed(d)]
            BY <1>3, <2>3 DEF DeleteAbove
        <3>3. \A t \in Tables : db'[t] \subseteq rows'[t]
            BY <1>t, <1>k, <3>1, <3>2 DEF TypeOK
        <3>4. ASSUME NEW t \in Marks PROVE Covers(t, lo - 1)' /\ PrefixClosed(t)'
            <4>1. CASE t # d.table
                BY <1>3, <1>t, <1>k, <2>1, <2>3, <3>2, <4>1
                   DEF DeleteAbove, Covers, PrefixClosed, TypeOK
            <4>2. CASE t = d.table
                <5>1. Threshold(d) = wm
                    BY <3>1, <4>2 DEF Threshold
                <5>2. db'[t] = {i \in db[t] : ~(i > wm)}
                    BY <3>1, <3>2, <4>2, <5>1 DEF Doomed, TypeOK
                <5>3. /\ lo - 1 = wm /\ wm \in Nat
                      /\ \A i \in rows[t] : i \in Nat
                    BY <2>1, <3>1, <4>2, RowsType DEF TypeOK, Parents
                <5>4. Covers(t, lo - 1)'
                    BY <1>3, <1>t, <2>1, <2>3, <5>2, <5>3 DEF DeleteAbove, Covers
                <5>5. \A j \in db'[t] : j \in db[t] /\ j \in Nat /\ ~(j > wm)
                    BY <1>k, <3>1, <4>2, <5>2, <5>3
                <5>6. PrefixClosed(t)'
                    <6> SUFFICES ASSUME NEW i \in rows[t], NEW j \in db'[t], i < j
                                 PROVE  i \in db'[t]
                        BY <1>t DEF PrefixClosed
                    <6>1. i \in db[t]
                        BY <1>k, <5>5 DEF PrefixClosed
                    <6>2. ~(i > wm)
                        BY <5>3, <5>5
                    <6> QED
                        BY <5>2, <6>1, <6>2
                <5> QED
                    BY <5>4, <5>6
            <4> QED
                BY <4>1, <4>2
        <3>5. UNCHANGED <<wm, lo>> /\ pc' \in {"cleanup", "generate"}
            BY <1>3, <2>3 DEF DeleteAbove
        <3> QED
            BY <2>1, <3>3, <3>4, <3>5 DEF PhaseInv
    <2> QED
        BY <2>2, <2>3
<1>4. CASE FillBatch
    <2>1. wm < lo /\ \A t \in Marks : Covers(t, lo - 1)
        BY <1>4 DEF FillBatch, PhaseInv
    <2>2. \A t \in Marks : Covers(t, lo - 1)'
        BY <1>4, <1>t, <2>1 DEF FillBatch, Covers
    <2>3. 1..(at' - 1) = {}
        BY <1>4 DEF FillBatch
    <2> QED
        BY <1>4, <1>s, <2>1, <2>2, <2>3 DEF FillBatch, PhaseInv
<1>5. CASE FlushTable
    <2> DEFINE f == FlushOrder[at]
    <2>1. /\ at \in 1..Len(FlushOrder) /\ lo \in 1..N /\ wm < lo
          /\ \A t \in Marks : Covers(t, lo - 1)
          /\ \A k \in 1..(at - 1) : FlushOrder[k] \in Marks => Covers(FlushOrder[k], Last)
        BY <1>5, ConstantFacts DEF FlushTable, TypeOK, PhaseInv
    <2>2. CASE Fail(Refusal(f))
        BY <1>5, <2>2, <1>s DEF FlushTable, Fail, PhaseInv
    <2>3. CASE Flushed(f, Fresh(f))
        <3>1. db' = [db EXCEPT ![f] = @ \cup Fresh(f)] /\ f \in Tables
            BY <2>1, <2>3, ConstantFacts DEF Flushed
        <3>2. /\ db'[f] = db[f] \cup {i \in rows[f] : lo <= i /\ i <= Last}
              /\ \A t \in Tables : t # f => db'[t] = db[t]
            BY <3>1 DEF Fresh, TypeOK
        <3>3. \A t \in Tables : db[t] \subseteq db'[t] /\ db'[t] \subseteq rows'[t]
            BY <1>t, <1>k, <3>2
        <3>4. Last \in Nat /\ lo \in Nat /\ lo <= Last /\ Last <= N
            BY <2>1, LastInRange, ConstantFacts DEF TypeOK
        <3>5. \A t \in Tables : \A i \in rows[t] : i \in Nat
            BY RowsType DEF Parents
        <3>6. ASSUME NEW t \in Tables, NEW x, Covers(t, x)
              PROVE  \A i \in rows[t] : i <= x => i \in db'[t]
            BY <3>3, <3>6 DEF Covers
        <3>7. f \in Marks => \A i \in rows[f] : i <= Last => i \in db'[f]
            <4> SUFFICES ASSUME f \in Marks, NEW i \in rows[f], i <= Last PROVE i \in db'[f]
                OBVIOUS
            <4>1. CASE i <= lo - 1
                BY <2>1, <3>1, <3>3, <4>1 DEF Covers
            <4>2. CASE ~(i <= lo - 1)
                <5>1. lo <= i
                    BY <3>1, <3>4, <3>5, <4>2
                <5> QED
                    BY <3>2, <5>1
            <4> QED
                BY <4>1, <4>2
        <3>8. ASSUME NEW t \in Marks PROVE PrefixClosed(t)'
            <4> SUFFICES ASSUME NEW i \in rows[t], NEW j \in db'[t], i < j
                         PROVE  i \in db'[t]
                BY <1>t DEF PrefixClosed
            <4>1. t \in Tables /\ i \in Nat
                BY <3>5, ConstantFacts
            <4>2. CASE j \in db[t]
                BY <1>k, <3>3, <4>1, <4>2 DEF PrefixClosed
            <4>3. CASE j \notin db[t]
                <5>1. t = f /\ j \in rows[f] /\ j <= Last
                    BY <3>2, <4>1, <4>3
                <5>2. i <= Last
                    BY <3>1, <3>4, <3>5, <4>1, <5>1
                <5> QED
                    BY <3>7, <5>1, <5>2
            <4> QED
                BY <4>2, <4>3
        <3>9. CASE at = Len(FlushOrder)
            <4>1. pc' = "generate" /\ lo' = Last + 1 /\ wm' = wm
                BY <2>3, <3>9 DEF Flushed
            <4>2. wm' < lo' /\ lo' - 1 = Last
                BY <2>1, <3>4, <4>1 DEF TypeOK
            <4>3. ASSUME NEW t \in Marks PROVE Covers(t, lo - 1)'
                <5>1. PICK k \in 1..Len(FlushOrder) : FlushOrder[k] = t
                    BY PhaseAssumption
                <5>2. CASE k = at
                    BY <1>t, <3>7, <4>2, <5>1, <5>2 DEF Covers
                <5>3. CASE k # at
                    <6>1. k \in 1..(at - 1)
                        BY <2>1, <3>9, <5>3
                    <6>2. Covers(t, Last)
                        BY <2>1, <5>1, <6>1
                    <6> QED
                        BY <1>t, <3>6, <4>2, <6>2, ConstantFacts DEF Covers
                <5> QED
                    BY <5>2, <5>3
            <4> QED
                BY <3>3, <3>8, <4>1, <4>2, <4>3 DEF PhaseInv
        <3>10. CASE at # Len(FlushOrder)
            <4>1. pc' = "flush" /\ lo' = lo /\ wm' = wm /\ at' = at + 1
                BY <2>3, <3>10 DEF Flushed
            <4>2. Last' = Last
                BY <4>1 DEF Last
            <4>3. \A t \in Marks : Covers(t, lo - 1)'
                BY <1>t, <2>1, <3>6, <4>1, ConstantFacts DEF Covers
            <4>4. ASSUME NEW k \in 1..(at' - 1), FlushOrder[k] \in Marks
                  PROVE  Covers(FlushOrder[k], Last)'
                <5>1. CASE k = at
                    BY <1>t, <3>7, <4>2, <4>4, <5>1 DEF Covers
                <5>2. CASE k # at
                    <6>1. k \in 1..(at - 1)
                        BY <2>1, <4>1, <5>2
                    <6>2. Covers(FlushOrder[k], Last) /\ FlushOrder[k] \in Tables
                        BY <2>1, <4>4, <6>1, ConstantFacts
                    <6> QED
                        BY <1>t, <3>6, <4>2, <6>2 DEF Covers
                <5> QED
                    BY <5>1, <5>2
            <4> QED
                BY <2>1, <3>3, <3>8, <4>1, <4>3, <4>4 DEF PhaseInv
        <3> QED
            BY <3>9, <3>10
    <2> QED
        BY <1>5, <2>2, <2>3 DEF FlushTable
<1>6. CASE Finish
    <2>1. lo = N + 1 /\ \A t \in Marks : Covers(t, lo - 1)
        BY <1>6, ConstantFacts DEF Finish, TypeOK, PhaseInv
    <2>2. \A t \in Marks : Covers(t, N)
        BY <2>1, ConstantFacts
    <2> QED
        BY <1>6, <1>s, <1>t, <2>2 DEF Finish, PhaseInv, Covers
<1>7. CASE Crash
    BY <1>7, <1>s DEF Crash, PhaseInv
<1>8. CASE LaterPhaseRefers
    BY <1>8, <1>s DEF LaterPhaseRefers, PhaseInv
<1>9. CASE UNCHANGED vars
    BY <1>9 DEF vars, PhaseInv, PrefixClosed, Covers, Last
<1> QED
    BY <1>1, <1>2, <1>3, <1>4, <1>5, <1>6, <1>7, <1>8, <1>9 DEF Next, Work

\* The checkpoint invariant holds throughout, through crashes, failed cleanups
\* and re-runs over leftovers (resume.go, loadShops .. loadTransactions).
THEOREM CheckpointHolds ==
    ASSUME ~NetworkFaults
    PROVE  Spec => []PhaseInv
<1>1. TypeOK /\ PhaseInv /\ [Next]_vars => PhaseInv'
    BY TypeStep, PhaseStep
<1> QED
    BY <1>1, PhaseInit, TypeCorrect, PTL DEF Spec

\* A marked table holds exactly the generator's rows up to its largest anchor.
THEOREM NeverHoles ==
    ASSUME ~NetworkFaults
    PROVE  Spec => []NoHoles
<1>1. TypeOK /\ PhaseInv => NoHoles
    <2> SUFFICES ASSUME TypeOK, PhaseInv, NEW t \in Marks PROVE Covers(t, HighWater(db[t]))
        BY DEF NoHoles, Covers
    <2> QED
        BY PrefixCovers, ConstantFacts DEF PhaseInv
<1> QED
    BY <1>1, TypeCorrect, CheckpointHolds, PTL

\* The rows a run skips because they are at or below its watermark are there.
THEOREM WatermarkIsSound ==
    ASSUME ~NetworkFaults
    PROVE  Spec => []WatermarkSound
<1>1. TypeOK /\ PhaseInv => WatermarkSound
    <2> SUFFICES ASSUME TypeOK, PhaseInv, pc \in {"cleanup", "generate", "flush"},
                        NEW t \in Marks, NEW i \in rows[t], i <= wm
                 PROVE  i \in db[t]
        BY DEF WatermarkSound
    <2>1. wm < lo /\ Covers(t, lo - 1)
        BY DEF PhaseInv
    <2>2. i \in Nat /\ wm \in Nat /\ lo \in Nat
        BY RowsType, ConstantFacts DEF TypeOK, Parents
    <2>3. i <= lo - 1
        BY <2>1, <2>2
    <2> QED
        BY <2>1, <2>3 DEF Covers
<1> QED
    BY <1>1, TypeCorrect, CheckpointHolds, PTL

\* A phase that reports success holds every marked table completely.
THEOREM SuccessIsComplete ==
    ASSUME ~NetworkFaults
    PROVE  Spec => []MarkedComplete
<1>1. TypeOK /\ PhaseInv => MarkedComplete
    <2> SUFFICES ASSUME TypeOK, PhaseInv, pc = "loaded", NEW t \in Marks
                 PROVE  db[t] = rows[t]
        BY DEF MarkedComplete
    <2>1. Covers(t, N) /\ db[t] \subseteq rows[t]
        BY ConstantFacts DEF PhaseInv
    <2>2. \A i \in rows[t] : i <= N
        BY RowsType, ConstantFacts DEF Parents
    <2> QED
        BY <2>1, <2>2 DEF Covers
<1> QED
    BY <1>1, TypeCorrect, CheckpointHolds, PTL

\* Where every table is marked, as in loadShops and loadCustomers, a phase that
\* reports success has loaded everything.
THEOREM AllMarkedIsComplete ==
    ASSUME Marks = Tables, ~NetworkFaults
    PROVE  Spec => []LoadedIsComplete
<1>1. TypeOK /\ MarkedComplete => LoadedIsComplete
    <2> SUFFICES ASSUME TypeOK, MarkedComplete, pc = "loaded" PROVE db = rows
        BY DEF LoadedIsComplete
    <2>1. \A t \in Tables : db[t] = rows[t]
        BY DEF MarkedComplete
    <2>2. db \in [Tables -> SUBSET Parents] /\ rows \in [Tables -> SUBSET Parents]
        BY RowsType DEF TypeOK
    <2> QED
        BY <2>1, <2>2
<1> QED
    BY <1>1, TypeCorrect, SuccessIsComplete, PTL

-----------------------------------------------------------------------------
(* Foreign keys: no row is ever without the row it refers to.              *)

LEMMA ReferenceTables ==
    ASSUME NEW e \in References
    PROVE  e[1] \in Tables /\ e[2] \in Tables
BY PhaseAssumption

\* The row that a row emitted for i refers to was emitted at or before i.
LEMMA ReferencedIsEarlier ==
    ASSUME TypeOK, NEW e \in References, NEW i \in rows[e[1]]
    PROVE  /\ Referenced(e[2], i) \in rows[e[2]]
           /\ Referenced(e[2], i) <= i
<1> DEFINE S == {j \in rows[e[2]] : j <= i}
<1>1. S \in SUBSET Parents
    BY RowsType, ReferenceTables
<1>2. PICK j \in rows[e[2]] : j <= i
    BY RowsReferBackwards DEF TypeOK
<1>3. HighWater(S) \in S \cup {0} /\ \A x \in S : x <= HighWater(S)
    BY <1>1, HighWaterIsMax
<1>4. j \in S /\ j >= 1 /\ j \in Nat
    BY <1>1, <1>2, ConstantFacts DEF Parents
<1>5. HighWater(S) \in S
    BY <1>3, <1>4
<1> QED
    BY <1>5 DEF Referenced

\* When a table is flushed, the rows its fresh rows refer to are committed.
LEMMA FreshHasParents ==
    ASSUME TypeOK, PhaseInv, pc = "flush", ParentsFlushedFirst, ParentsMarked,
           NEW e \in References, e[1] = FlushOrder[at], NEW i \in Fresh(e[1])
    PROVE  Referenced(e[2], i) \in db[e[2]]
<1>1. i \in rows[e[1]] /\ i <= Last
    BY DEF Fresh
<1>2. PICK j, k \in 1..Len(FlushOrder) : j < k /\ FlushOrder[j] = e[2] /\ FlushOrder[k] = e[1]
    BY DEF ParentsFlushedFirst
<1>3. at \in 1..Len(FlushOrder)
    BY DEF TypeOK
<1>4. k = at
    BY <1>2, <1>3, PhaseAssumption
<1>5. j \in 1..(at - 1)
    BY <1>2, <1>3, <1>4
<1>6. Covers(e[2], Last)
    BY <1>2, <1>5 DEF PhaseInv, ParentsMarked
<1>7. Referenced(e[2], i) \in rows[e[2]] /\ Referenced(e[2], i) <= i
    BY <1>1, ReferencedIsEarlier
<1>8. /\ i \in Nat /\ Last \in Nat /\ Referenced(e[2], i) \in Nat
    BY <1>1, <1>7, RowsType, ReferenceTables, LastInRange, ConstantFacts DEF TypeOK, Parents
<1>9. Referenced(e[2], i) <= Last
    BY <1>1, <1>7, <1>8
<1> QED
    BY <1>6, <1>7, <1>9 DEF Covers

LEMMA OrphansStep ==
    ASSUME ParentsFlushedFirst, ParentsMarked, ~NetworkFaults
    PROVE  TypeOK /\ PhaseInv /\ NoOrphans /\ [Next]_vars => NoOrphans'
<1> SUFFICES ASSUME TypeOK, PhaseInv, NoOrphans, [Next]_vars,
                    NEW e \in References, NEW i \in db'[e[1]]
             PROVE  Referenced(e[2], i)' \in db'[e[2]]
    BY DEF NoOrphans
<1>t. rows' = rows
    BY DEF Next, Work, Start, TakeWatermark, DeleteAbove, FillBatch, FlushTable,
           Finish, Crash, LaterPhaseRefers, Fail, Flushed, vars
<1>r. Referenced(e[2], i)' = Referenced(e[2], i)
    BY <1>t DEF Referenced
<1>1. CASE db' = db
    BY <1>1, <1>r DEF NoOrphans
<1>2. CASE DeleteAbove /\ db' # db
    <2> DEFINE d == Deletions[at]
    <2>1. /\ db' = [db EXCEPT ![d.table] = @ \ Doomed(d)]
          /\ ~StillReferenced(d.table, Doomed(d))
        BY <1>2 DEF DeleteAbove, Fail
    <2>2. i \in db[e[1]]
        BY <2>1, ReferenceTables DEF TypeOK
    <2>3. Referenced(e[2], i) \in db[e[2]]
        BY <2>2 DEF NoOrphans
    <2>4. e[2] = d.table => Referenced(e[2], i) \notin Doomed(d)
        BY <2>1, <2>2 DEF StillReferenced
    <2> QED
        BY <1>r, <2>1, <2>3, <2>4, ReferenceTables DEF TypeOK
<1>3. CASE FlushTable /\ db' # db
    <2> DEFINE f == FlushOrder[at]
    <2>1. pc = "flush" /\ db' = [db EXCEPT ![f] = @ \cup Fresh(f)]
        BY <1>3 DEF FlushTable, Fail, Flushed
    <2>2. i \in db[e[1]] \/ (e[1] = f /\ i \in Fresh(e[1]))
        BY <2>1, ReferenceTables DEF TypeOK
    <2>3. Referenced(e[2], i) \in db[e[2]]
        BY <2>1, <2>2, FreshHasParents DEF NoOrphans
    <2> QED
        BY <1>r, <2>1, <2>3, ReferenceTables DEF TypeOK
<1> QED
    BY <1>1, <1>2, <1>3 DEF Next, Work, Start, TakeWatermark, FillBatch, Finish,
                            Crash, LaterPhaseRefers, vars

\* Bulk copies that commit one by one, and a SQL Server that does not check
\* foreign keys on them, leave no orphans: the flush order and the deletes see
\* to it (the "Parents first" flushes of load.go).
THEOREM NeverOrphans ==
    ASSUME ParentsFlushedFirst, ParentsMarked, ~NetworkFaults
    PROVE  Spec => []NoOrphans
<1>1. Init => NoOrphans
    BY ReferenceTables DEF Init, NoOrphans
<1>2. TypeOK /\ PhaseInv /\ NoOrphans /\ [Next]_vars => NoOrphans'
    BY OrphansStep
<1> QED
    BY <1>1, <1>2, TypeCorrect, CheckpointHolds, PTL DEF Spec

-----------------------------------------------------------------------------
(* A run that resumes is not stopped by the database.                      *)

LEMMA CleanupNotRefused ==
    ASSUME TypeOK, ResumeInv, ChildrenDeletedFirst,
           pc = "cleanup", wm > 0, pinned = {}
    PROVE  ~StillReferenced(Deletions[at].table, Doomed(Deletions[at]))
<1> DEFINE d == Deletions[at]
<1>1. at \in 1..Len(Deletions)
    BY DEF TypeOK
<1>2. d.above = Batched
    BY <1>1 DEF ChildrenDeletedFirst
<1>3. Doomed(d) = {x \in db[d.table] : x > wm}
    BY <1>2 DEF Doomed, Threshold
<1>4. ASSUME NEW e \in References, e[2] = d.table, NEW i \in db[e[1]]
      PROVE  Referenced(d.table, i) \notin Doomed(d)
    <2>1. PICK j \in 1..Len(Deletions) : j < at /\ Deletions[j].table = e[1]
        BY <1>1, <1>4 DEF ChildrenDeletedFirst
    <2>2. j \in 1..(at - 1)
        BY <1>1, <2>1
    <2>3. i <= wm
        BY <2>1, <2>2 DEF ResumeInv
    <2> DEFINE S == {x \in rows[e[2]] : x <= i}
    <2>4. S \in SUBSET Parents /\ i \in 1..N
        BY <1>4, RowsType, ReferenceTables DEF Parents
    <2>5. HighWater(S) \in S \cup {0}
        BY <2>4, HighWaterIsMax
    <2>6. HighWater(S) \in 0..N /\ i \in 1..N /\ wm \in 0..N /\ N \in Nat
        BY <2>4, HighWaterIsMax, ConstantFacts DEF TypeOK
    <2>7. HighWater(S) <= i
        BY <2>5, <2>6
    <2>8. ~(HighWater(S) > wm)
        BY <2>3, <2>6, <2>7
    <2>9. Referenced(d.table, i) = HighWater(S)
        BY <1>4 DEF Referenced
    <2> QED
        BY <1>3, <2>8, <2>9
<1> QED
    BY <1>4 DEF StillReferenced

LEMMA FlushNotRefused ==
    ASSUME TypeOK, PhaseInv, NoOrphans, ResumeInv, ParentsFlushedFirst, ParentsMarked,
           pc = "flush", wm > 0, pinned = {}
    PROVE  Refusal(FlushOrder[at]) = "none"
<1> DEFINE f == FlushOrder[at]
<1>1. at \in 1..Len(FlushOrder) /\ f \in Tables
    BY ConstantFacts DEF TypeOK
<1>2. at \in at..Len(FlushOrder)
    BY <1>1
<1>3. \A i \in db[f] : i < lo
    BY <1>2 DEF ResumeInv
<1>4. ~Duplicate(f)
    <2> SUFFICES ASSUME NEW i \in Fresh(f), i \in db[f] PROVE FALSE
        BY DEF Duplicate
    <2>1. lo <= i /\ i < lo
        BY <1>3 DEF Fresh
    <2>2. i \in Nat /\ lo \in Nat
        BY <1>1, RowsType, ConstantFacts DEF TypeOK, Parents
    <2> QED
        BY <2>1, <2>2
<1>5. ~Orphan(f)
    BY FreshHasParents DEF Orphan
<1> QED
    BY <1>4, <1>5 DEF Refusal

LEMMA ResumeStep ==
    ASSUME ParentsFlushedFirst, ParentsMarked, ChildrenDeletedFirst, ~NetworkFaults
    PROVE  TypeOK /\ TypeOK' /\ PhaseInv /\ NoOrphans /\ ResumeInv /\ [Next]_vars
               => ResumeInv'
<1> SUFFICES ASSUME TypeOK, TypeOK', PhaseInv, NoOrphans, ResumeInv, [Next]_vars,
                    wm' > 0, pinned' = {}
             PROVE  ResumeInv'
    BY DEF ResumeInv
<1>1. CASE Start
    BY <1>1 DEF Start, ResumeInv
<1>2. CASE TakeWatermark
    <2>1. Watermark # 0 /\ pc' = "cleanup" /\ 1..(at' - 1) = {}
        BY <1>2, WatermarkIsMin DEF TakeWatermark, TypeOK
    <2> QED
        BY <1>2, <2>1 DEF ResumeInv
<1>3. CASE DeleteAbove
    <2> DEFINE d == Deletions[at]
    <2>1. pc = "cleanup" /\ at \in 1..Len(Deletions) /\ pinned = {}
        BY <1>3 DEF DeleteAbove, TypeOK
    <2>2. wm' = wm /\ wm > 0
        BY <1>3 DEF DeleteAbove, Fail
    <2>3. ~StillReferenced(d.table, Doomed(d))
        BY <2>1, <2>2, CleanupNotRefused
    <2>4. db' = [db EXCEPT ![d.table] = @ \ Doomed(d)] /\ d.table \in Tables
        BY <1>3, <2>1, <2>3, ConstantFacts DEF DeleteAbove
    <2>5. \A t \in Tables : db'[t] \subseteq db[t]
        BY <2>4 DEF TypeOK
    <2>6. \A i \in db'[d.table] : i <= wm
        <3> SUFFICES ASSUME NEW i \in db'[d.table] PROVE i <= wm
            OBVIOUS
        <3>1. Threshold(d) = wm
            BY <2>1 DEF Threshold, ChildrenDeletedFirst
        <3>2. i \in db[d.table] /\ ~(i > wm)
            BY <2>4, <3>1 DEF Doomed, TypeOK
        <3>3. i \in Nat /\ wm \in Nat
            BY <2>4, <3>2, RowsType, ConstantFacts DEF TypeOK, Parents
        <3> QED
            BY <3>2, <3>3
    <2>7. \A k \in 1..at : \A i \in db'[Deletions[k].table] : i <= wm
        <3> SUFFICES ASSUME NEW k \in 1..at, NEW i \in db'[Deletions[k].table]
                     PROVE  i <= wm
            OBVIOUS
        <3>1. CASE k = at
            BY <2>6, <3>1
        <3>2. CASE k # at
            <4>1. k \in 1..(at - 1) /\ Deletions[k].table \in Tables
                BY <2>1, <3>2, ConstantFacts
            <4> QED
                BY <2>1, <2>2, <2>5, <4>1 DEF ResumeInv
        <3> QED
            BY <3>1, <3>2
    <2>8. CASE at # Len(Deletions)
        <3>1. pc' = "cleanup" /\ at' - 1 = at
            BY <1>3, <2>1, <2>3, <2>8 DEF DeleteAbove
        <3> QED
            BY <2>2, <2>7, <3>1 DEF ResumeInv
    <2>9. CASE at = Len(Deletions)
        <3>1. pc' = "generate" /\ lo' = lo /\ lo = wm + 1
            BY <1>3, <2>1, <2>3, <2>9 DEF DeleteAbove, PhaseInv
        <3>2. ASSUME NEW t \in Tables, NEW i \in db'[t] PROVE i < lo'
            <4>1. PICK k \in 1..Len(Deletions) : Deletions[k].table = t
                BY DEF ChildrenDeletedFirst
            <4>2. i <= wm
                BY <2>7, <2>9, <4>1
            <4>3. i \in Nat /\ wm \in Nat
                BY <2>5, RowsType, ConstantFacts DEF TypeOK, Parents
            <4> QED
                BY <3>1, <4>2, <4>3
        <3> QED
            BY <3>1, <3>2 DEF ResumeInv
    <2> QED
        BY <2>8, <2>9
<1>4. CASE FillBatch
    <2>1. /\ pc' = "flush" /\ lo' = lo /\ db' = db /\ at' = 1 /\ lo <= N
          /\ \A t \in Tables : \A i \in db[t] : i < lo
        BY <1>4 DEF FillBatch, ResumeInv
    <2>2. Last' = Last
        BY <2>1 DEF Last
    <2>3. ASSUME NEW t \in Tables, NEW i \in db[t] PROVE i <= Last
        <3>1. i \in Nat /\ lo \in Nat /\ Last \in Nat /\ lo <= Last /\ i < lo
            BY <2>1, RowsType, LastInRange, ConstantFacts DEF TypeOK, Parents
        <3> QED
            BY <3>1
    <2>4. \A k \in at'..Len(FlushOrder) : FlushOrder[k] \in Tables
        BY <2>1, ConstantFacts
    <2> QED
        BY <2>1, <2>2, <2>3, <2>4 DEF ResumeInv
<1>5. CASE FlushTable
    <2> DEFINE f == FlushOrder[at]
    <2>1. pc = "flush" /\ at \in 1..Len(FlushOrder) /\ f \in Tables /\ pinned = {}
        BY <1>5, ConstantFacts DEF FlushTable, TypeOK
    <2>2. wm' = wm /\ wm > 0
        BY <1>5 DEF FlushTable, Fail, Flushed
    <2>3. Refusal(f) = "none"
        BY <2>1, <2>2, FlushNotRefused
    <2>4. Flushed(f, Fresh(f))
        BY <1>5, <2>3 DEF FlushTable
    <2>5. /\ db'[f] = db[f] \cup Fresh(f)
          /\ \A t \in Tables : t # f => db'[t] = db[t]
        BY <2>1, <2>4 DEF Flushed, TypeOK
    <2>6. \A t \in Tables : \A i \in db'[t] : i <= Last
        BY <2>1, <2>2, <2>5 DEF ResumeInv, Fresh
    <2>7. CASE at # Len(FlushOrder)
        <3>1. pc' = "flush" /\ lo' = lo /\ at' = at + 1
            BY <2>4, <2>7 DEF Flushed
        <3>2. Last' = Last
            BY <3>1 DEF Last
        <3>3. ASSUME NEW k \in at'..Len(FlushOrder), NEW i \in db'[FlushOrder[k]]
              PROVE  i < lo'
            <4>1. k \in at..Len(FlushOrder) /\ k # at /\ k \in 1..Len(FlushOrder)
                BY <2>1, <3>1
            <4>2. FlushOrder[k] # f /\ FlushOrder[k] \in Tables
                BY <2>1, <4>1, PhaseAssumption, ConstantFacts
            <4>3. i \in db[FlushOrder[k]]
                BY <2>5, <4>2
            <4> QED
                BY <2>1, <2>2, <3>1, <4>1, <4>3 DEF ResumeInv
        <3> QED
            BY <2>6, <3>1, <3>2, <3>3 DEF ResumeInv
    <2>8. CASE at = Len(FlushOrder)
        <3>1. pc' = "generate" /\ lo' = Last + 1
            BY <2>4, <2>8 DEF Flushed
        <3>2. ASSUME NEW t \in Tables, NEW i \in db'[t] PROVE i < lo'
            <4>1. i \in Nat /\ Last \in Nat
                BY LastInRange, ConstantFacts DEF TypeOK, Parents
            <4> QED
                BY <2>6, <3>1, <4>1
        <3> QED
            BY <3>1, <3>2 DEF ResumeInv
    <2> QED
        BY <2>7, <2>8
<1>6. CASE Finish
    BY <1>6 DEF Finish, ResumeInv
<1>7. CASE Crash
    BY <1>7 DEF Crash
<1>8. CASE LaterPhaseRefers
    BY <1>8 DEF LaterPhaseRefers
<1>9. CASE UNCHANGED vars
    BY <1>9 DEF vars, ResumeInv, Last
<1> QED
    BY <1>1, <1>2, <1>3, <1>4, <1>5, <1>6, <1>7, <1>8, <1>9 DEF Next, Work

\* What such a run finds in the tables at each stage.
THEOREM ResumeHolds ==
    ASSUME ParentsFlushedFirst, ParentsMarked, ChildrenDeletedFirst, ~NetworkFaults
    PROVE  Spec => []ResumeInv
<1>1. Init => ResumeInv
    BY DEF Init, ResumeInv
<1>2. TypeOK /\ TypeOK' /\ PhaseInv /\ NoOrphans /\ ResumeInv /\ [Next]_vars => ResumeInv'
    BY ResumeStep
<1> QED
    BY <1>1, <1>2, TypeCorrect, CheckpointHolds, NeverOrphans, PTL DEF Spec

\* A run that resumes from a positive watermark over rows no later phase uses
\* is never stopped by a duplicate key or a foreign key, for any layout of a
\* phase whose tables are flushed parents first and deleted children first.
THEOREM ResumeNotRefused ==
    ASSUME ParentsFlushedFirst, ParentsMarked, ChildrenDeletedFirst, ~NetworkFaults
    PROVE  Spec => []FaultOnlyOnCollapse
<1>1. TypeOK /\ ResumeInv => FaultOnlyOnCollapse
    <2>1. TypeOK => wm = 0 \/ wm > 0
        BY ConstantFacts DEF TypeOK
    <2> QED
        BY <2>1 DEF ResumeInv, FaultOnlyOnCollapse
<1> QED
    BY <1>1, ResumeHolds, TypeCorrect, PTL

\* A run that dies falls back, below what it has flushed, at most over a stretch
\* in which some marked table has no rows: for every phase, sparse or dense.  It
\* is the table the watermark comes from that has none ("at most one batch's
\* redo", loadTransactions, is this where every parent has rows in each of them).
THEOREM RedoIsBounded == ASSUME ~NetworkFaults PROVE Spec => []RedoBounded
<1>1. TypeOK /\ PhaseInv => RedoBounded
    <2> SUFFICES ASSUME TypeOK, PhaseInv, pc \in {"cleanup", "generate", "flush"}
                 PROVE  \E t \in Marks : \A i \in rows[t] : i > Watermark => i >= lo
        BY DEF RedoBounded
    <2>1. PICK t \in Marks : Watermark = HighWater(db[t])
        BY WatermarkIsMin DEF TypeOK
    <2>2. /\ \A i \in rows[t] : i \in Nat /\ (i <= lo - 1 => i \in db[t])
          /\ db[t] \in SUBSET Parents /\ lo \in Nat
        BY RowsType, ConstantFacts DEF PhaseInv, Covers, TypeOK, Parents
    <2>3. \A i \in db[t] : i <= Watermark
        BY <2>1, <2>2, HighWaterIsMax
    <2>4. Watermark \in Nat
        BY <2>1, <2>2, HighWaterIsMax
    <2>5. ASSUME NEW i \in rows[t], i > Watermark PROVE i >= lo
        BY <2>2, <2>3, <2>4, <2>5
    <2> QED
        BY <2>5
<1> QED
    BY <1>1, TypeCorrect, CheckpointHolds, PTL

\* Every parent has rows in every table the watermark is taken over.
Dense == \A d \in Datasets : \A t \in Marks : d[t] = Parents

\* The phases the theorem is about.
Disciplined ==
    /\ ParentsFlushedFirst /\ ParentsMarked /\ ChildrenDeletedFirst
    /\ ~NetworkFaults /\ Dense

-----------------------------------------------------------------------------
(* The invariant.                                                          *)

\* A cleanup is one of a positive watermark, and does not move it.
CleanedFromWatermark == pc = "cleanup" => wm = Watermark /\ wm > 0

\* Nothing lies further than a batch above the watermark ...
WithinABatch == \A t \in Tables : \A i \in db[t] : i <= Watermark + BatchSize

\* ... and once the watermark is positive, nothing at all above what is flushed.
NothingAhead ==
    /\ pc = "generate" /\ Watermark > 0 => \A t \in Tables : \A i \in db[t] : i < lo
    /\ pc = "flush" =>
          /\ \A t \in Tables : \A i \in db[t] : i <= Last
          /\ Watermark > 0 => \A k \in at..Len(FlushOrder) : \A i \in db[FlushOrder[k]] : i < lo

\* What is left of the first batch was flushed in order.
FirstBatchInOrder ==
    Watermark = 0 => \A j, k \in 1..Len(FlushOrder) :
        j < k /\ db[FlushOrder[k]] # {} =>
            \A i \in rows[FlushOrder[j]] : i <= BatchSize => i \in db[FlushOrder[j]]

FlushedSoFar ==
    pc = "flush" => \A k \in 1..(at - 1) : Fresh(FlushOrder[k]) \subseteq db[FlushOrder[k]]

\* Later phases refer to complete rows only, which a run leaves alone.
PinnedIsComplete ==
    pinned # {} => Watermark = N /\ pc # "flush" /\ (pc = "generate" => lo = N + 1)

PromiseInv ==
    /\ CleanedFromWatermark /\ WithinABatch /\ NothingAhead
    /\ FirstBatchInOrder /\ FlushedSoFar /\ PinnedIsComplete

-----------------------------------------------------------------------------
(* The watermark of a database.                                            *)

WatermarkOf(d) ==
    CHOOSE w \in {HighWater(d[t]) : t \in Marks} :
        \A t \in Marks : w <= HighWater(d[t])

LEMMA WatermarkOfIsMin ==
    ASSUME NEW d \in [Tables -> SUBSET Parents]
    PROVE  /\ WatermarkOf(d) \in 0..N
           /\ \E t \in Marks : WatermarkOf(d) = HighWater(d[t])
           /\ \A t \in Marks : WatermarkOf(d) <= HighWater(d[t])
<1> DEFINE W == {HighWater(d[t]) : t \in Marks}
<1>1. \A t \in Marks : HighWater(d[t]) \in 0..N
    BY HighWaterIsMax, PhaseAssumption
<1>2. W \in SUBSET Nat /\ W # {}
    <2>1. N \in Nat /\ Marks # {}
        BY PhaseAssumption
    <2>2. \A t \in Marks : HighWater(d[t]) \in Nat
        BY <1>1, <2>1
    <2> QED
        BY <2>1, <2>2
<1>3. \E w \in W : \A x \in W : w <= x
    <2> HIDE DEF W
    <2> QED
        BY <1>2, LeastOfNaturals
<1>4. WatermarkOf(d) \in W /\ \A t \in Marks : WatermarkOf(d) <= HighWater(d[t])
    BY <1>3 DEF WatermarkOf
<1> QED
    BY <1>1, <1>4

LEMMA HighWaterGrows ==
    ASSUME NEW S \in SUBSET Parents, NEW T \in SUBSET Parents, S \subseteq T
    PROVE  HighWater(S) <= HighWater(T)
<1>1. HighWater(S) \in S \cup {0} /\ HighWater(T) \in 0..N /\ \A x \in T : x <= HighWater(T)
    BY HighWaterIsMax
<1>2. CASE HighWater(S) \in S
    BY <1>1, <1>2
<1>3. CASE HighWater(S) = 0
    BY <1>1, <1>3, ConstantFacts
<1> QED
    BY <1>1, <1>2, <1>3

\* Rows added do not lower the watermark, nor rows deleted raise it.
LEMMA WatermarkGrows ==
    ASSUME NEW d \in [Tables -> SUBSET Parents], NEW e \in [Tables -> SUBSET Parents],
           \A t \in Marks : d[t] \subseteq e[t]
    PROVE  WatermarkOf(d) <= WatermarkOf(e)
<1>1. PICK t \in Marks : WatermarkOf(e) = HighWater(e[t])
    BY WatermarkOfIsMin
<1>2. t \in Tables /\ d[t] \subseteq e[t] /\ d[t] \in SUBSET Parents /\ e[t] \in SUBSET Parents
    BY ConstantFacts
<1>3. HighWater(d[t]) <= HighWater(e[t]) /\ WatermarkOf(d) <= HighWater(d[t])
    BY <1>2, HighWaterGrows, WatermarkOfIsMin
<1>4. /\ WatermarkOf(d) \in 0..N /\ WatermarkOf(e) \in 0..N
      /\ HighWater(d[t]) \in 0..N /\ N \in Nat
    BY <1>2, WatermarkOfIsMin, HighWaterIsMax, ConstantFacts
<1> QED
    BY <1>1, <1>3, <1>4

\* It lies within what bounds the tables: above what all cover, below what one has.
LEMMA WatermarkBetween ==
    ASSUME NEW d \in [Tables -> SUBSET Parents], NEW x \in 0..N
    PROVE  /\ (\A t \in Marks : \A i \in Parents : i <= x => i \in d[t]) => x <= WatermarkOf(d)
           /\ (\A t \in Marks : \A i \in d[t] : i <= x) => WatermarkOf(d) <= x
<1>1. PICK t \in Marks : WatermarkOf(d) = HighWater(d[t])
    BY WatermarkOfIsMin
<1>2. d[t] \in SUBSET Parents /\ N \in Nat
    BY ConstantFacts
<1>3. HighWater(d[t]) \in d[t] \cup {0} /\ HighWater(d[t]) \in 0..N
      /\ \A i \in d[t] : i <= HighWater(d[t])
    BY <1>2, HighWaterIsMax
<1>4. ASSUME \A i \in Parents : i <= x => i \in d[t] PROVE x <= HighWater(d[t])
    <2>1. CASE x = 0
        BY <1>3, <2>1, <1>2
    <2>2. CASE x # 0
        <3>1. x \in Parents
            BY <1>2, <2>2 DEF Parents
        <3>2. x \in d[t]
            BY <1>2, <1>4, <3>1
        <3> QED
            BY <1>3, <3>2
    <2> QED
        BY <2>1, <2>2
<1>5. ASSUME \A i \in d[t] : i <= x PROVE HighWater(d[t]) <= x
    BY <1>2, <1>3, <1>5
<1> QED
    BY <1>1, <1>4, <1>5

LEMMA TheWatermark ==
    /\ Watermark = WatermarkOf(db)
    /\ Watermark' = WatermarkOf(db')
    /\ db' = db => Watermark' = Watermark
  BY DEF Watermark, WatermarkOf

\* A run in progress has everything before its next batch below the watermark.
LEMMA DenseRows ==
    ASSUME TypeOK, Dense
    PROVE  \A t \in Marks : rows[t] = Parents
  BY DEF TypeOK, Dense

LEMMA ProgressIsDurable ==
    ASSUME TypeOK, PhaseInv, Dense
    PROVE  /\ pc \in {"cleanup", "generate", "flush"} => lo - 1 <= Watermark
           /\ pc = "loaded" => Watermark = N
<1>1. db \in [Tables -> SUBSET Parents] /\ lo \in 1..(N + 1) /\ N \in Nat
    BY ConstantFacts DEF TypeOK
<1>2. \A x \in 0..N : (\A t \in Marks : Covers(t, x)) => x <= Watermark
    BY <1>1, DenseRows, WatermarkBetween, TheWatermark DEF Covers
<1>3. Watermark \in 0..N
    BY <1>1, WatermarkIsMin
<1>4. lo - 1 \in 0..N /\ N \in 0..N
    BY <1>1
<1> QED
    BY <1>1, <1>2, <1>3, <1>4 DEF PhaseInv

-----------------------------------------------------------------------------
(* The steps that touch tables.                                            *)

\* No delete of a cleanup is refused, and none moves the watermark.
LEMMA DeleteKeepsWatermark ==
    ASSUME Disciplined, TypeOK, TypeOK', PhaseInv, PhaseInv', ResumeInv, PromiseInv, DeleteAbove
    PROVE  /\ db' = [db EXCEPT ![Deletions[at].table] = @ \ Doomed(Deletions[at])]
           /\ \A t \in Tables : db'[t] \subseteq db[t]
           /\ pc' \in {"cleanup", "generate"} /\ UNCHANGED <<rows, pinned, wm, lo>>
           /\ Watermark' = Watermark /\ wm = Watermark /\ wm > 0 /\ lo = wm + 1
<1> DEFINE d == Deletions[at]
<1>1. /\ pc = "cleanup" /\ at \in 1..Len(Deletions) /\ d.table \in Tables
      /\ lo = wm + 1 /\ wm = Watermark /\ wm > 0 /\ wm \in 0..N
    BY ConstantFacts DEF DeleteAbove, TypeOK, PhaseInv, PromiseInv, CleanedFromWatermark
<1>2. ~StillReferenced(d.table, Doomed(d))
    <2>1. CASE pinned = {}
        BY <1>1, <2>1, CleanupNotRefused DEF Disciplined
    <2>2. CASE pinned # {}
        <3>1. Threshold(d) = N
            BY <1>1, <2>2 DEF PromiseInv, PinnedIsComplete, Disciplined, ChildrenDeletedFirst, Threshold
        <3>2. \A i \in db[d.table] : i \in Nat /\ i <= N
            BY <1>1, RowsType, ConstantFacts DEF Parents
        <3>3. Doomed(d) = {}
            BY <3>1, <3>2, ConstantFacts DEF Doomed
        <3> QED
            BY <3>3 DEF StillReferenced
    <2> QED
        BY <2>1, <2>2
<1>3. /\ db' = [db EXCEPT ![d.table] = @ \ Doomed(d)]
      /\ pc' \in {"cleanup", "generate"} /\ UNCHANGED <<rows, pinned, wm, lo>>
    BY <1>2 DEF DeleteAbove
<1>4. \A t \in Tables : db'[t] \subseteq db[t]
    BY <1>1, <1>3 DEF TypeOK
<1>5. /\ db \in [Tables -> SUBSET Parents] /\ db' \in [Tables -> SUBSET Parents]
      /\ Marks \subseteq Tables
    BY ConstantFacts DEF TypeOK
<1>6. Watermark' <= Watermark
    BY <1>4, <1>5, WatermarkGrows, TheWatermark
<1>7. wm <= Watermark'
    <2>1. \A t \in Marks : \A i \in Parents : i <= wm => i \in db'[t]
        <3>1. \A t \in Marks : rows'[t] = Parents
            BY <1>3, DenseRows DEF Disciplined
        <3>2. lo' - 1 = wm
            BY <1>1, <1>3
        <3>3. \A t \in Marks : Covers(t, lo - 1)'
            BY <1>3 DEF PhaseInv
        <3> QED
            BY <3>1, <3>2, <3>3 DEF Covers
    <2> QED
        BY <1>1, <1>5, <2>1, WatermarkBetween, TheWatermark
<1>8. Watermark \in Int /\ Watermark' \in Int
    BY <1>5, WatermarkOfIsMin, TheWatermark
<1> QED
    BY <1>1, <1>3, <1>4, <1>6, <1>7, <1>8

\* A bulk copy raises it by at most a batch.
LEMMA FlushRaisesWatermark ==
    ASSUME Disciplined, TypeOK, TypeOK', PhaseInv, PromiseInv, pc = "flush",
           UNCHANGED rows, Flushed(FlushOrder[at], Fresh(FlushOrder[at]))
    PROVE  /\ FlushOrder[at] \in Tables /\ at \in 1..Len(FlushOrder)
           /\ db'[FlushOrder[at]] = db[FlushOrder[at]] \cup Fresh(FlushOrder[at])
           /\ \A t \in Tables : t # FlushOrder[at] => db'[t] = db[t]
           /\ \A t \in Tables : \A i \in db'[t] : i <= Last
           /\ Watermark <= Watermark' /\ Watermark' <= Last
           /\ Last <= Watermark + BatchSize /\ Last \in Nat /\ Last <= N
           /\ Watermark \in Nat /\ Watermark' \in Nat
<1> DEFINE f == FlushOrder[at]
<1>1. at \in 1..Len(FlushOrder) /\ f \in Tables
    BY ConstantFacts DEF TypeOK
<1>2. /\ db'[f] = db[f] \cup Fresh(f)
      /\ \A t \in Tables : t # f => db'[t] = db[t]
    BY <1>1 DEF Flushed, TypeOK
<1>3. \A t \in Tables : \A i \in db'[t] : i <= Last
    BY <1>2 DEF PromiseInv, NothingAhead, Fresh
<1>4. Last \in Nat /\ Last <= N /\ lo \in Nat /\ Last <= lo - 1 + BatchSize
    BY LastInRange, ConstantFacts DEF TypeOK, Last
<1>5. /\ db \in [Tables -> SUBSET Parents] /\ db' \in [Tables -> SUBSET Parents]
      /\ Marks \subseteq Tables
    BY ConstantFacts DEF TypeOK
<1>6. Watermark <= Watermark'
    BY <1>1, <1>2, <1>5, WatermarkGrows, TheWatermark
<1>7. Watermark' <= Last
    BY <1>3, <1>4, <1>5, WatermarkBetween, TheWatermark, ConstantFacts
<1>8. lo - 1 <= Watermark
    BY ProgressIsDurable DEF Disciplined
<1>9. Watermark \in Nat /\ Watermark' \in Nat
    BY <1>5, WatermarkOfIsMin, TheWatermark
<1> QED
    BY <1>1, <1>2, <1>3, <1>4, <1>6, <1>7, <1>8, <1>9, ConstantFacts

\* A bulk copy is refused only while nothing is durable.
LEMMA RefusedAtNothing ==
    ASSUME Disciplined, TypeOK, PhaseInv, PromiseInv, pc = "flush", Refusal(FlushOrder[at]) # "none"
    PROVE  Watermark = 0
<1> DEFINE f == FlushOrder[at]
<1>1. at \in 1..Len(FlushOrder) /\ f \in Tables
    BY ConstantFacts DEF TypeOK
<1>2. ~Orphan(f)
    BY FreshHasParents DEF Orphan, Disciplined
<1>3. PICK i \in Fresh(f) : i \in db[f]
    BY <1>2 DEF Refusal, Duplicate
<1>4. i \in Nat /\ lo \in Nat /\ lo <= i
    BY <1>1, <1>3, RowsType, ConstantFacts DEF Fresh, TypeOK, Parents
<1>5. Watermark \in Nat
    BY WatermarkIsMin DEF TypeOK
<1>6. at \in at..Len(FlushOrder)
    BY <1>1
<1>7. ~(Watermark > 0)
    <2>1. Watermark > 0 => \A k \in at..Len(FlushOrder) : \A j \in db[FlushOrder[k]] : j < lo
        BY DEF PromiseInv, NothingAhead
    <2>2. Watermark > 0 => i < lo
        BY <1>3, <1>6, <2>1
    <2> QED
        BY <1>4, <2>2
<1> QED
    BY <1>5, <1>7

-----------------------------------------------------------------------------
(* Every step preserves the invariant.                                     *)

LEMMA PromiseInit == ASSUME Disciplined PROVE Init => PromiseInv
<1> SUFFICES ASSUME Init PROVE PromiseInv
    OBVIOUS
<1>1. \A t \in Tables : db[t] = {}
    BY DEF Init
<1>2. \A k \in 1..Len(FlushOrder) : db[FlushOrder[k]] = {}
    BY <1>1, ConstantFacts
<1> QED
    BY <1>1, <1>2 DEF Init, PromiseInv, CleanedFromWatermark, WithinABatch, NothingAhead,
                      FirstBatchInOrder, FlushedSoFar, PinnedIsComplete

\* While the first batch is the one in hand, it is the first BatchSize parents.
LEMMA FirstBatch ==
    ASSUME Disciplined, TypeOK, PhaseInv, PromiseInv, Watermark = 0,
           pc \in {"generate", "flush"}
    PROVE  /\ lo = 1 /\ Last <= BatchSize
           /\ \A t \in Tables : \A i \in rows[t] : i <= BatchSize <=> i <= Last
           /\ \A t \in Tables : \A i \in db[t] : i <= Last
<1>1. lo = 1
    BY ProgressIsDurable, ConstantFacts DEF TypeOK, Disciplined
<1>2. \A t \in Tables : \A i \in rows[t] : i \in Nat /\ i <= N
    BY RowsType, ConstantFacts DEF Parents
<1>3. \A t \in Tables : \A i \in rows[t] : i <= BatchSize <=> i <= Last
    BY <1>1, <1>2, ConstantFacts DEF Last
<1>4. \A t \in Tables : \A i \in db[t] : i \in rows[t] /\ i <= BatchSize
    BY <1>2, ConstantFacts DEF PromiseInv, WithinABatch, PhaseInv
<1>5. Last <= BatchSize
    BY <1>1, ConstantFacts DEF Last
<1> QED
    BY <1>1, <1>3, <1>4, <1>5

LEMMA PromiseDelete ==
    ASSUME Disciplined, TypeOK, TypeOK', PhaseInv, PhaseInv', ResumeInv, ResumeInv',
           PromiseInv, DeleteAbove
    PROVE  PromiseInv'
<1>1. /\ \A t \in Tables : db'[t] \subseteq db[t]
      /\ pc' \in {"cleanup", "generate"} /\ UNCHANGED <<rows, pinned, wm, lo>>
      /\ Watermark' = Watermark /\ wm = Watermark /\ wm > 0 /\ lo = wm + 1
    BY DeleteKeepsWatermark
<1>2. CleanedFromWatermark'
    BY <1>1 DEF CleanedFromWatermark
<1>3. WithinABatch'
    BY <1>1 DEF PromiseInv, WithinABatch
<1>4. NothingAhead'
    <2>1. CASE pinned = {}
        BY <1>1, <2>1 DEF ResumeInv, NothingAhead
    <2>2. CASE pinned # {}
        <3>1. lo = N + 1
            BY <1>1, <2>2 DEF PromiseInv, PinnedIsComplete
        <3>2. \A t \in Tables : \A i \in db'[t] : i < lo
            BY <1>1, <3>1, RowsType, ConstantFacts DEF Parents
        <3> QED
            BY <1>1, <3>2 DEF NothingAhead
    <2> QED
        BY <2>1, <2>2
<1>5. FirstBatchInOrder' /\ FlushedSoFar'
    BY <1>1 DEF FirstBatchInOrder, FlushedSoFar
<1>6. PinnedIsComplete'
    BY <1>1 DEF PromiseInv, PinnedIsComplete
<1> QED
    BY <1>2, <1>3, <1>4, <1>5, <1>6 DEF PromiseInv

LEMMA PromiseFill ==
    ASSUME Disciplined, TypeOK, PhaseInv, PromiseInv, FillBatch
    PROVE  PromiseInv'
<1>1. /\ pc = "generate" /\ lo <= N /\ pc' = "flush" /\ at' = 1
      /\ UNCHANGED <<rows, db, pinned, wm, lo>> /\ Watermark' = Watermark /\ Last' = Last
    BY TheWatermark DEF FillBatch, Last
<1>2. Watermark \in Nat
    BY WatermarkIsMin DEF TypeOK
<1>3. Watermark > 0 => \A t \in Tables : \A i \in db[t] : i < lo
    BY <1>1 DEF PromiseInv, NothingAhead
<1>4. ASSUME NEW t \in Tables, NEW i \in db[t] PROVE i <= Last
    <2>1. CASE Watermark = 0
        BY <1>1, <2>1, FirstBatch
    <2>2. CASE Watermark > 0
        <3>1. i \in Nat /\ lo \in Nat /\ Last \in Nat /\ lo <= Last
            BY <1>1, RowsType, LastInRange, ConstantFacts DEF TypeOK, Parents
        <3>2. i < lo
            BY <1>3, <2>2
        <3> QED
            BY <3>1, <3>2
    <2> QED
        BY <1>2, <2>1, <2>2
<1>5. NothingAhead'
    <2>1. \A k \in 1..Len(FlushOrder) : FlushOrder[k] \in Tables
        BY ConstantFacts
    <2> QED
        BY <1>1, <1>3, <1>4, <2>1 DEF NothingAhead
<1>6. WithinABatch' /\ FirstBatchInOrder' /\ CleanedFromWatermark'
    BY <1>1 DEF PromiseInv, WithinABatch, FirstBatchInOrder, CleanedFromWatermark
<1>7. FlushedSoFar'
    BY <1>1 DEF FlushedSoFar
<1>8. PinnedIsComplete'
    BY <1>1, ConstantFacts DEF PromiseInv, PinnedIsComplete
<1> QED
    BY <1>5, <1>6, <1>7, <1>8 DEF PromiseInv

LEMMA PromiseFlush ==
    ASSUME Disciplined, TypeOK, TypeOK', PhaseInv, PromiseInv, pc = "flush",
           UNCHANGED <<rows, pinned>>, Refusal(FlushOrder[at]) = "none",
           Flushed(FlushOrder[at], Fresh(FlushOrder[at]))
    PROVE  PromiseInv'
<1> DEFINE f == FlushOrder[at]
           L == Len(FlushOrder)
<1>1. /\ f \in Tables /\ at \in 1..L
      /\ db'[f] = db[f] \cup Fresh(f) /\ \A t \in Tables : t # f => db'[t] = db[t]
      /\ \A t \in Tables : \A i \in db'[t] : i <= Last
      /\ Watermark <= Watermark' /\ Watermark' <= Last
      /\ Last <= Watermark + BatchSize /\ Last \in Nat
      /\ Watermark \in Nat /\ Watermark' \in Nat
    BY FlushRaisesWatermark
<1>2. /\ wm' = wm
      /\ at' = IF at = L THEN 1 ELSE at + 1
      /\ lo' = IF at = L THEN Last + 1 ELSE lo
      /\ pc' = IF at = L THEN "generate" ELSE "flush"
    BY DEF Flushed
<1>3. /\ \A k \in 1..L : FlushOrder[k] \in Tables
      /\ \A j, k \in 1..L : FlushOrder[j] = FlushOrder[k] => j = k
      /\ \A t \in Tables : \A i \in db'[t] : i \in Nat
      /\ BatchSize \in Nat /\ L \in Nat
    <2>1. \A t \in Tables : \A i \in db'[t] : i \in Nat
        BY ConstantFacts DEF TypeOK, Parents
    <2> QED
        BY <2>1, ConstantFacts, PhaseAssumption
<1>4. Fresh(f) \cap db[f] = {}
    BY DEF Refusal, Duplicate
<1>5. pinned = {} /\ pinned' = {}
    BY DEF PromiseInv, PinnedIsComplete
\* When the first batch is the one in hand, what comes later in the order is
\* there only if this table was, and then nothing is new.
<1>6. ASSUME Watermark = 0, Watermark' > 0, NEW k \in 1..L, at < k PROVE db[FlushOrder[k]] = {}
    <2>1. /\ lo = 1
          /\ \A i \in rows[f] : i <= BatchSize <=> i <= Last
        BY <1>1, <1>6, FirstBatch
    <2>2. CASE db[FlushOrder[k]] # {}
        <3>1. \A i \in rows[f] : i <= Last => i \in db[f]
            BY <1>1, <1>6, <2>1, <2>2 DEF PromiseInv, FirstBatchInOrder
        <3>2. Fresh(f) = {}
            BY <1>4, <3>1 DEF Fresh
        <3>3. db' = db
            BY <1>1, <3>2 DEF TypeOK
        <3> QED
            BY <1>6, <3>3, TheWatermark
    <2> QED
        BY <2>2
<1>7. CleanedFromWatermark' /\ PinnedIsComplete'
    BY <1>2, <1>5 DEF CleanedFromWatermark, PinnedIsComplete
<1>8. WithinABatch'
    <2>1. \A v, w, l, b \in Nat : v <= w /\ l <= v + b => l <= w + b
        OBVIOUS
    <2>2. Last <= Watermark' + BatchSize
        BY <1>1, <1>3, <2>1
    <2>3. ASSUME NEW t \in Tables, NEW i \in db'[t] PROVE i <= Watermark' + BatchSize
        BY <1>1, <1>3, <2>2
    <2> QED
        BY <2>3 DEF WithinABatch
<1>9. NothingAhead'
    <2>1. CASE at = L
        BY <1>1, <1>2, <1>3, <2>1 DEF NothingAhead
    <2>2. CASE at # L
        <3>1. pc' = "flush" /\ lo' = lo /\ at' = at + 1 /\ Last' = Last
            BY <1>2, <2>2 DEF Last
        <3>2. ASSUME Watermark' > 0, NEW k \in (at + 1)..L, NEW i \in db'[FlushOrder[k]] PROVE i < lo
            <4>1. k \in 1..L /\ k \in at..L /\ at < k /\ FlushOrder[k] # f /\ FlushOrder[k] \in Tables
                BY <1>1, <1>3
            <4>2. i \in db[FlushOrder[k]]
                BY <1>1, <4>1
            <4>3. Watermark > 0
                BY <1>1, <1>6, <3>2, <4>1, <4>2
            <4> QED
                BY <4>1, <4>2, <4>3 DEF PromiseInv, NothingAhead
        <3> QED
            BY <1>1, <3>1, <3>2 DEF NothingAhead
    <2> QED
        BY <2>1, <2>2
<1>10. FlushedSoFar'
    <2>1. SUFFICES ASSUME at # L, NEW k \in 1..at PROVE Fresh(FlushOrder[k]) \subseteq db'[FlushOrder[k]]
        <3>1. at # L => at' - 1 = at /\ \A t : Fresh(t)' = Fresh(t)
            BY <1>1, <1>2 DEF Fresh, Last
        <3> QED
            BY <1>2, <2>1, <3>1 DEF FlushedSoFar
    <2>2. CASE k = at
        BY <1>1, <2>2
    <2>3. CASE k # at
        <3>1. k \in 1..(at - 1) /\ k \in 1..L
            BY <1>1, <2>1, <2>3
        <3>2. FlushOrder[k] # f /\ FlushOrder[k] \in Tables
            BY <1>1, <1>3, <2>3, <3>1
        <3> QED
            BY <1>1, <3>1, <3>2 DEF PromiseInv, FlushedSoFar
    <2> QED
        BY <2>2, <2>3
<1>11. FirstBatchInOrder'
    <2> SUFFICES ASSUME Watermark' = 0, NEW j \in 1..L, NEW k \in 1..L, j < k,
                        db'[FlushOrder[k]] # {}, NEW i \in rows[FlushOrder[j]], i <= BatchSize
                 PROVE  i \in db'[FlushOrder[j]]
        BY DEF FirstBatchInOrder
    <2>1. Watermark = 0
        BY <1>1
    <2>2. FlushOrder[j] \in Tables /\ db[FlushOrder[j]] \subseteq db'[FlushOrder[j]]
        BY <1>1, <1>3
    <2>3. CASE db[FlushOrder[k]] # {}
        BY <2>1, <2>2, <2>3 DEF PromiseInv, FirstBatchInOrder
    <2>4. CASE db[FlushOrder[k]] = {}
        <3>1. k = at
            BY <1>1, <1>3, <2>4
        <3>2. j \in 1..(at - 1)
            BY <3>1
        <3>3. Fresh(FlushOrder[j]) \subseteq db[FlushOrder[j]]
            BY <3>2 DEF PromiseInv, FlushedSoFar
        <3>4. lo = 1 /\ i <= Last /\ i >= 1
            <4>1. i \in 1..N
                BY <2>2, RowsType DEF Parents
            <4> QED
                BY <2>1, <2>2, <4>1, FirstBatch
        <3>5. i \in Fresh(FlushOrder[j])
            BY <3>4 DEF Fresh
        <3> QED
            BY <2>2, <3>3, <3>5
    <2> QED
        BY <2>3, <2>4
<1> QED
    BY <1>7, <1>8, <1>9, <1>10, <1>11 DEF PromiseInv

LEMMA PromiseStep ==
    ASSUME Disciplined
    PROVE  /\ TypeOK /\ TypeOK' /\ PhaseInv /\ PhaseInv' /\ ResumeInv /\ ResumeInv'
           /\ PromiseInv /\ [Next]_vars
           => PromiseInv'
<1> SUFFICES ASSUME TypeOK, TypeOK', PhaseInv, PhaseInv', ResumeInv, ResumeInv',
                    PromiseInv, [Next]_vars
             PROVE  PromiseInv'
    OBVIOUS
<1>k. ASSUME UNCHANGED <<rows, db>>, pc' # "cleanup", pc' # "generate", pc' # "flush",
             pinned' # {} => pinned # {} \/ Watermark = N
      PROVE  PromiseInv'
    BY <1>k, TheWatermark DEF PromiseInv, CleanedFromWatermark, WithinABatch, NothingAhead,
                              FirstBatchInOrder, FlushedSoFar, PinnedIsComplete
<1>1. CASE Start
    BY <1>1, <1>k DEF Start
<1>2. CASE TakeWatermark
    <2>1. /\ UNCHANGED <<rows, db, pinned>> /\ Watermark' = Watermark /\ Watermark \in Nat
          /\ wm' = Watermark /\ pc' = IF Watermark = 0 THEN "generate" ELSE "cleanup"
          /\ lo' = Watermark + 1 /\ N # 0
        BY <1>2, TheWatermark, WatermarkIsMin, ConstantFacts DEF TakeWatermark, TypeOK
    <2> QED
        BY <2>1 DEF PromiseInv, CleanedFromWatermark, WithinABatch, NothingAhead,
                    FirstBatchInOrder, FlushedSoFar, PinnedIsComplete
<1>3. CASE DeleteAbove
    BY <1>3, PromiseDelete
<1>4. CASE FillBatch
    BY <1>4, PromiseFill
<1>5. CASE FlushTable
    <2>1. pc = "flush" /\ UNCHANGED <<rows, pinned>>
        BY <1>5 DEF FlushTable
    <2>2. CASE Fail(Refusal(FlushOrder[at]))
        <3>1. pc' = "failed" /\ db' = db
            BY <2>2 DEF Fail
        <3> QED
            BY <1>k, <2>1, <3>1
    <2>3. CASE Refusal(FlushOrder[at]) = "none" /\ Flushed(FlushOrder[at], Fresh(FlushOrder[at]))
        BY <2>1, <2>3, PromiseFlush
    <2> QED
        BY <1>5, <2>2, <2>3 DEF FlushTable, Disciplined
<1>6. CASE Finish
    BY <1>6, <1>k DEF Finish
<1>7. CASE Crash
    BY <1>7, <1>k DEF Crash
<1>8. CASE LaterPhaseRefers
    BY <1>8, <1>k, ProgressIsDurable DEF LaterPhaseRefers, Disciplined
<1>9. CASE UNCHANGED vars
    <2>1. UNCHANGED <<rows, db, pinned, pc, wm, lo, at>> /\ Watermark' = Watermark /\ Last' = Last
          /\ \A t : Fresh(t)' = Fresh(t)
        BY <1>9, TheWatermark DEF vars, Last, Fresh
    <2> QED
        BY <2>1 DEF PromiseInv, CleanedFromWatermark, WithinABatch, NothingAhead,
                    FirstBatchInOrder, FlushedSoFar, PinnedIsComplete
<1> QED
    BY <1>1, <1>2, <1>3, <1>4, <1>5, <1>6, <1>7, <1>8, <1>9 DEF Next, Work

-----------------------------------------------------------------------------
(* The refinement.                                                         *)

\* Every step of the protocol is one of the promise, or none.
LEMMA StepIsPromised ==
    ASSUME Disciplined
    PROVE  /\ TypeOK /\ TypeOK' /\ PhaseInv /\ PhaseInv' /\ ResumeInv /\ PromiseInv /\ [Next]_vars
           => [Promise!Next]_<<Watermark, PhaseSeen>>
<1> SUFFICES ASSUME TypeOK, TypeOK', PhaseInv, PhaseInv', ResumeInv, PromiseInv, [Next]_vars
             PROVE  Promise!Next \/ UNCHANGED <<Watermark, PhaseSeen>>
    OBVIOUS
<1> USE DEF PhaseSeen
<1>1. CASE Start
    BY <1>1, TheWatermark DEF Start, Promise!Next, Promise!Begin
<1>2. CASE TakeWatermark
    BY <1>2, TheWatermark DEF TakeWatermark
<1>3. CASE DeleteAbove
    <2>1. pc = "cleanup" /\ pc' \in {"cleanup", "generate"} /\ Watermark' = Watermark
        BY <1>3, DeleteKeepsWatermark DEF DeleteAbove
    <2> QED
        BY <2>1
<1>4. CASE FillBatch
    BY <1>4, TheWatermark DEF FillBatch
<1>5. CASE FlushTable
    <2>1. pc = "flush" /\ UNCHANGED <<rows, pinned>>
        BY <1>5 DEF FlushTable
    <2>2. CASE Refusal(FlushOrder[at]) # "none" /\ Fail(Refusal(FlushOrder[at]))
        <3>1. pc' = "failed" /\ db' = db
            BY <2>2 DEF Fail
        <3>2. Watermark = 0
            BY <2>1, <2>2, RefusedAtNothing
        <3> QED
            BY <2>1, <3>1, <3>2, TheWatermark DEF Promise!Next, Promise!Refused
    <2>3. CASE Flushed(FlushOrder[at], Fresh(FlushOrder[at]))
        <3>1. PICK v, w \in Nat : v = Watermark /\ w = Watermark'
                                  /\ v <= w /\ w <= v + BatchSize /\ w <= N
            <4>1. /\ Watermark <= Watermark' /\ Watermark' <= Last /\ Last <= N
                  /\ Last <= Watermark + BatchSize /\ Last \in Nat
                  /\ Watermark \in Nat /\ Watermark' \in Nat
                BY <2>1, <2>3, FlushRaisesWatermark
            <4>2. \A v, w, l \in Nat : w <= l /\ l <= N /\ l <= v + BatchSize
                                       => w <= v + BatchSize /\ w <= N
                BY ConstantFacts
            <4> QED
                BY <4>1, <4>2
        <3>2. pc' \in {"generate", "flush"}
            BY <2>3 DEF Flushed
        <3>3. CASE w = v
            BY <2>1, <3>1, <3>2, <3>3
        <3>4. CASE w # v
            <4>0. \A x, y, b \in Nat : x <= y /\ y <= x + b /\ y # x => y - x \in 1..b /\ y = x + (y - x)
                OBVIOUS
            <4>1. w - v \in 1..BatchSize /\ w = v + (w - v)
                BY <3>1, <3>4, <4>0, ConstantFacts
            <4>2. \E k \in 1..BatchSize : Watermark' = Watermark + k /\ Watermark + k <= N
                BY <3>1, <4>1
            <4> QED
                BY <2>1, <3>2, <4>2 DEF Promise!Next, Promise!Advance
        <3> QED
            BY <3>3, <3>4
    <2> QED
        BY <1>5, <2>2, <2>3 DEF FlushTable, Disciplined
<1>6. CASE Finish
    <2>1. pc = "generate" /\ lo > N /\ pc' = "loaded" /\ Watermark' = Watermark
        BY <1>6, TheWatermark DEF Finish
    <2>2. Watermark = N
        <3>1. lo - 1 <= Watermark /\ Watermark \in 0..N /\ lo \in Nat
            BY <2>1, ProgressIsDurable, WatermarkIsMin DEF TypeOK, Disciplined
        <3> QED
            BY <2>1, <3>1, ConstantFacts
    <2> QED
        BY <2>1, <2>2 DEF Promise!Next, Promise!Succeed
<1>7. CASE Crash
    BY <1>7, TheWatermark DEF Crash, Promise!Next, Promise!Stop
<1>8. CASE LaterPhaseRefers
    BY <1>8, TheWatermark DEF LaterPhaseRefers
<1>9. CASE UNCHANGED vars
    BY <1>9, TheWatermark DEF vars
<1> QED
    BY <1>1, <1>2, <1>3, <1>4, <1>5, <1>6, <1>7, <1>8, <1>9 DEF Next, Work

LEMMA InitIsPromised == ASSUME Disciplined PROVE Init => Promise!Init
<1> SUFFICES ASSUME Init PROVE Watermark = 0 /\ PhaseSeen = "stopped"
    BY DEF Promise!Init
<1>1. db \in [Tables -> SUBSET Parents]
    BY DEF Init
<1>2. \A t \in Marks : \A i \in db[t] : i <= 0
    BY ConstantFacts DEF Init
<1>3. WatermarkOf(db) \in 0..N /\ WatermarkOf(db) <= 0
    BY <1>1, <1>2, WatermarkBetween, WatermarkOfIsMin, ConstantFacts
<1> QED
    BY <1>3, TheWatermark, ConstantFacts DEF Init, PhaseSeen

\* The invariant of the refinement.
THEOREM PromiseHolds == ASSUME Disciplined PROVE Spec => []PromiseInv
<1>1. Spec => [](TypeOK /\ PhaseInv /\ ResumeInv)
    BY TypeCorrect, CheckpointHolds, ResumeHolds, PTL DEF Disciplined
<1> QED
    BY <1>1, PromiseInit, PromiseStep, PTL DEF Spec

\* A phase whose marked tables are dense advances a durable prefix, by at most a
\* batch at a time; no crash, cleanup or re-run sets it back, and it is refused
\* only while the prefix is empty (resume.go, loadShops).
THEOREM PromiseIsKept == ASSUME Disciplined PROVE Spec => KeepsPromise
<1>1. Spec => [](TypeOK /\ PhaseInv /\ ResumeInv)
    BY TypeCorrect, CheckpointHolds, ResumeHolds, PTL DEF Disciplined
<1> QED
    BY <1>1, PromiseHolds, InitIsPromised, StepIsPromised, PTL DEF Spec, KeepsPromise, Promise!Spec
==============================================================================
