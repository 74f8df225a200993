---------------------------- MODULE DaemonProofs ----------------------------
(***************************************************************************)
(* The three guards every request of fortress-sub.py passes, for any       *)
(* number of threads, clients and slots and any durations.                 *)
(*                                                                         *)
(* AttemptLimiter: the table of failures stays bounded, a record is        *)
(* charged with a bounded number of guesses whatever the interleaving, and *)
(* no ban is lifted for free.  WorkerPool: the slots add up, and an        *)
(* exhausted pool drains.  TotpReplay: a code is accepted once, and        *)
(* refused only for cause.                                                 *)
(***************************************************************************)
EXTENDS AttemptLimiter, WorkerPool, TotpReplay, FiniteSetTheorems, TLAPS

\* The guesses of /sub at an address that are past the ban check.
Inside(a) ==
  {w \in Workers : pc[w] \in {"compare", "record"} /\ job[w].ip = a /\ job[w].route = "sub"}

\* A record bans exactly from MAX_FAILED on, and longer than the window.
RecordsBan ==
  \A a \in Addresses :
    /\ table[a].first <= now
    /\ table[a].count < MaxFailed => table[a].until = 0
    /\ table[a].count >= MaxFailed => table[a].until >= table[a].first + BanDuration

\* Guesses charged are among the failures counted.
ChargedCounted == \A a \in Addresses : charged[a] <= table[a].count

\* The guesses charged and those that may still be.
Budgeted ==
  \A a \in Addresses :
    charged[a] + Cardinality(Inside(a)) <= MaxFailed - 1 + Cardinality(Workers)

\* A worker inside a request has one.
Occupied == \A w \in Workers : pc[w] # "idle" => job[w] \in Job

LimiterInv == TypeOK /\ Occupied /\ TableBounded /\ RecordsBan /\ ChargedCounted /\ Budgeted

-----------------------------------------------------------------------------
\* A record after one more failure is a record, charged and banning as it should.
LEMMA ChargeRecord ==
  ASSUME TypeOK, RecordsBan, NEW a \in Addresses
  PROVE  /\ Charge(table[a]) \in Entry
         /\ Charge(table[a]).count = table[a].count + 1
         /\ Charge(table[a]).first <= now
         /\ Charge(table[a]).count < MaxFailed => Charge(table[a]).until = 0
         /\ Charge(table[a]).count >= MaxFailed => Charge(table[a]).until = now + BanDuration
<1>1. table[a] \in Entry \cup {Absent}
  BY DEF TypeOK
<1>2. now \in Nat /\ BanDuration \in Nat /\ MaxFailed \in Nat \ {0, 1}
  BY LimiterAssumption DEF TypeOK
<1>3. CASE table[a] = Absent
  BY <1>2, <1>3 DEF Charge, Absent, Entry
<1>4. CASE table[a] # Absent
  BY <1>1, <1>2, <1>4 DEF Charge, Entry, RecordsBan
<1> QED
  BY <1>3, <1>4

\* What a failure leaves in the table: the new record, at most one other one gone.
LEMMA FailureTable ==
  ASSUME TypeOK, NEW w \in Workers, RecordFailure(w), job[w].ip \in Addresses
  PROVE  \E b \in Addresses :
           /\ b \in Evicted(job[w].ip)
           /\ table' = [x \in Addresses |-> IF x = job[w].ip THEN Charge(table[x])
                                            ELSE IF x = b THEN Absent ELSE table[x]]
           /\ charged' = [x \in Addresses |->
                            IF x = job[w].ip THEN charged[x] + (IF job[w].route = "sub" THEN 1 ELSE 0)
                            ELSE IF x = b THEN 0 ELSE charged[x]]
<1>1. \A b \in Evicted(job[w].ip) : b \in Addresses
  BY DEF Evicted, Known
<1>2. PICK b \in Evicted(job[w].ip) :
        /\ table' = [x \in Addresses |-> IF x = job[w].ip THEN Charge(table[job[w].ip])
                                         ELSE IF x = b THEN Absent ELSE table[x]]
        /\ charged' = [x \in Addresses |->
                         IF x = job[w].ip
                         THEN charged[job[w].ip] + (IF job[w].route = "sub" THEN 1 ELSE 0)
                         ELSE IF x = b THEN 0 ELSE charged[x]]
  BY DEF RecordFailure
<1> QED
  BY <1>1, <1>2

\* The steps of IsBanned: nothing, or the record of an address not banned goes.
LEMMA BanCheckTable ==
  ASSUME NEW a, NEW P, NEW Q, IsBanned(a, P, Q)
  PROVE  \/ P /\ Banned(a) /\ UNCHANGED <<table, charged>>
         \/ Q /\ ~ Banned(a) /\ Forget(a)
         \/ /\ Q /\ ~ Banned(a) /\ UNCHANGED <<table, charged>>
            /\ a \notin Known \/ ~ (now - table[a].first > Window)
  BY DEF IsBanned

-----------------------------------------------------------------------------
LEMMA LimiterInvInit == Init => LimiterInv
<1> SUFFICES ASSUME Init PROVE LimiterInv
  OBVIOUS
<1>1. TypeOK /\ Occupied
  BY DEF Init, TypeOK, Occupied, PC
<1>2. Known = {}
  BY DEF Init, Known
<1>3. TableBounded
  BY <1>2, FS_EmptySet, LimiterAssumption DEF TableBounded
<1>4. RecordsBan /\ ChargedCounted
  BY LimiterAssumption DEF Init, RecordsBan, ChargedCounted, Absent
<1>5. \A a \in Addresses : Inside(a) = {}
  BY DEF Init, Inside
<1>6. Cardinality({}) = 0 /\ Cardinality(Workers) \in Nat
  BY FS_EmptySet, FS_CardinalityType, LimiterAssumption
<1>7. Budgeted
  BY <1>5, <1>6, LimiterAssumption DEF Budgeted, Init
<1> QED
  BY <1>1, <1>3, <1>4, <1>7 DEF LimiterInv

LEMMA TypesStep == TypeOK /\ Occupied /\ RecordsBan /\ [Next]_vars => TypeOK' /\ Occupied'
<1> SUFFICES ASSUME TypeOK, Occupied, RecordsBan, [Next]_vars PROVE TypeOK' /\ Occupied'
  OBVIOUS
<1> USE DEF TypeOK, Occupied, PC
<1>1. CASE Tick
  BY <1>1 DEF Tick
<1>2. ASSUME NEW w \in Workers, Arrive(w) PROVE TypeOK' /\ Occupied'
  BY <1>2 DEF Arrive
<1>3. ASSUME NEW w \in Workers, CheckBan(w) \/ Recheck(w) PROVE TypeOK' /\ Occupied'
  <2>1. table' \in [Addresses -> Entry \cup {Absent}] /\ charged' \in [Addresses -> Nat]
    BY <1>3 DEF CheckBan, Recheck, IsBanned, Forget
  <2>2. now' = now /\ (Answer(w) \/ Goto(w, "compare")) /\ pc[w] \in {"check", "recheck"}
    BY <1>3 DEF CheckBan, Recheck, IsBanned
  <2> QED
    BY <2>1, <2>2 DEF Answer, Goto
<1>4. ASSUME NEW w \in Workers, Compare(w) PROVE TypeOK' /\ Occupied'
  BY <1>4 DEF Compare, Goto
<1>5. ASSUME NEW w \in Workers, RecordFailure(w) PROVE TypeOK' /\ Occupied'
  <2>1. job[w].ip \in Addresses /\ pc[w] = "record"
    BY <1>5 DEF RecordFailure, Job
  <2>2. PICK b \in Addresses :
           /\ b \in Evicted(job[w].ip)
           /\ table' = [x \in Addresses |-> IF x = job[w].ip THEN Charge(table[x])
                                            ELSE IF x = b THEN Absent ELSE table[x]]
           /\ charged' = [x \in Addresses |->
                            IF x = job[w].ip THEN charged[x] + (IF job[w].route = "sub" THEN 1 ELSE 0)
                            ELSE IF x = b THEN 0 ELSE charged[x]]
    BY <1>5, <2>1, FailureTable
  <2>3. Charge(table[job[w].ip]) \in Entry
    BY <2>1, ChargeRecord
  <2>4. table' \in [Addresses -> Entry \cup {Absent}] /\ charged' \in [Addresses -> Nat]
    BY <2>2, <2>3
  <2>5. now' = now /\ (Answer(w) \/ Goto(w, "recheck"))
    BY <1>5 DEF RecordFailure
  <2> QED
    BY <2>1, <2>4, <2>5 DEF Answer, Goto
<1>6. ASSUME NEW w \in Workers, Clear(w) PROVE TypeOK' /\ Occupied'
  BY <1>6 DEF Clear, Forget, Answer
<1>7. CASE UNCHANGED vars
  BY <1>7 DEF vars
<1> QED
  BY <1>1, <1>2, <1>3, <1>4, <1>5, <1>6, <1>7 DEF Next

\* Every step but a failure leaves each record as it is, or drops it.
LEMMA RecordsKept ==
  ASSUME TypeOK, Occupied, [Next]_vars, \A w \in Workers : ~ RecordFailure(w)
  PROVE  \A a \in Addresses : \/ table'[a] = table[a] /\ charged'[a] = charged[a]
                              \/ table'[a] = Absent /\ charged'[a] = 0
  BY DEF TypeOK, Next, vars, Tick, Arrive, CheckBan, Recheck, IsBanned, Forget, Compare, Clear

LEMMA RecordsStep == LimiterInv /\ [Next]_vars => RecordsBan' /\ ChargedCounted'
<1> SUFFICES ASSUME LimiterInv, [Next]_vars PROVE RecordsBan' /\ ChargedCounted'
  OBVIOUS
<1> USE DEF LimiterInv
<1>1. TypeOK /\ TypeOK' /\ Occupied
  BY TypesStep
<1>2. now \in Nat /\ now' \in Nat /\ now' >= now /\ MaxFailed \in Nat \ {0, 1}
  BY <1>1, LimiterAssumption
     DEF TypeOK, Next, vars, Tick, Arrive, CheckBan, Recheck, Compare, RecordFailure, Clear
<1>3. CASE \A w \in Workers : ~ RecordFailure(w)
  <2> SUFFICES ASSUME NEW a \in Addresses
               PROVE  /\ table'[a].first <= now'
                      /\ table'[a].count < MaxFailed => table'[a].until = 0
                      /\ table'[a].count >= MaxFailed => table'[a].until >= table'[a].first + BanDuration
                      /\ charged'[a] <= table'[a].count
    BY DEF RecordsBan, ChargedCounted
  <2>1. CASE table'[a] = table[a] /\ charged'[a] = charged[a]
    <3>1. table[a] \in Entry \cup {Absent}
      BY DEF TypeOK
    <3>2. table[a].first \in Nat
      BY <3>1 DEF Entry, Absent
    <3> QED
      BY <1>2, <2>1, <3>2 DEF RecordsBan, ChargedCounted
  <2>2. CASE table'[a] = Absent /\ charged'[a] = 0
    BY <1>2, <2>2 DEF Absent
  <2> QED
    BY <1>1, <1>3, <2>1, <2>2, RecordsKept
<1>4. ASSUME NEW w \in Workers, RecordFailure(w) PROVE RecordsBan' /\ ChargedCounted'
  <2>1. job[w].ip \in Addresses /\ now' = now
    BY <1>4 DEF RecordFailure, Occupied, Job
  <2>2. PICK b \in Addresses :
           /\ b \in Evicted(job[w].ip)
           /\ table' = [x \in Addresses |-> IF x = job[w].ip THEN Charge(table[x])
                                            ELSE IF x = b THEN Absent ELSE table[x]]
           /\ charged' = [x \in Addresses |->
                            IF x = job[w].ip THEN charged[x] + (IF job[w].route = "sub" THEN 1 ELSE 0)
                            ELSE IF x = b THEN 0 ELSE charged[x]]
    BY <1>4, <2>1, FailureTable
  <2> SUFFICES ASSUME NEW a \in Addresses
               PROVE  /\ table'[a].first <= now'
                      /\ table'[a].count < MaxFailed => table'[a].until = 0
                      /\ table'[a].count >= MaxFailed => table'[a].until >= table'[a].first + BanDuration
                      /\ charged'[a] <= table'[a].count
    BY DEF RecordsBan, ChargedCounted
  <2>3. CASE a = job[w].ip
    <3>1. table'[a] = Charge(table[a]) /\ charged'[a] <= charged[a] + 1
      BY <2>2, <2>3 DEF TypeOK
    <3>2. table[a] \in Entry \cup {Absent} /\ charged[a] \in Nat /\ charged'[a] \in Nat
      BY <1>1 DEF TypeOK
    <3>3. table[a].count \in Nat
      BY <3>2 DEF Entry, Absent
    <3>4. Charge(table[a]).first \in Nat
      BY ChargeRecord DEF Entry
    <3> QED
      BY <1>2, <2>1, <3>1, <3>2, <3>3, <3>4, ChargeRecord, LimiterAssumption DEF ChargedCounted
  <2>4. CASE a # job[w].ip
    <3>1. \/ table'[a] = table[a] /\ charged'[a] = charged[a]
          \/ table'[a] = Absent /\ charged'[a] = 0
      BY <2>2, <2>4
    <3> QED
      BY <1>2, <2>1, <3>1 DEF RecordsBan, ChargedCounted, Absent
  <2> QED
    BY <2>3, <2>4
<1> QED
  BY <1>3, <1>4

\* One address out and one in leave the number as it was.
LEMMA ExchangeCounts ==
  ASSUME NEW S, IsFiniteSet(S), NEW x \in S, NEW y, y \notin S
  PROVE  /\ IsFiniteSet((S \ {x}) \cup {y})
         /\ Cardinality((S \ {x}) \cup {y}) = Cardinality(S)
<1>1. IsFiniteSet(S \ {x}) /\ Cardinality(S \ {x}) = Cardinality(S) - 1
  BY FS_RemoveElement
<1>2. y \notin S \ {x}
  OBVIOUS
<1>3. /\ IsFiniteSet((S \ {x}) \cup {y})
      /\ Cardinality((S \ {x}) \cup {y}) = Cardinality(S \ {x}) + 1
  BY <1>1, <1>2, FS_AddElement
<1>4. Cardinality(S) \in Nat
  BY FS_CardinalityType
<1> QED
  BY <1>1, <1>3, <1>4

LEMMA BoundStep == LimiterInv /\ [Next]_vars => TableBounded'
<1> SUFFICES ASSUME LimiterInv, [Next]_vars PROVE TableBounded'
  OBVIOUS
<1> USE DEF LimiterInv
<1>1. IsFiniteSet(Known) /\ Cardinality(Known) \in Nat /\ Cardinality(Known) <= MaxRecords
  <2>1. Known \subseteq Addresses /\ IsFiniteSet(Addresses)
    BY LimiterAssumption DEF Known
  <2> QED
    BY <2>1, FS_Subset, FS_CardinalityType DEF TableBounded
<1>2. CASE \A w \in Workers : ~ RecordFailure(w)
  <2>1. Known' \subseteq Known
    BY <1>2, RecordsKept DEF Known
  <2> QED
    BY <1>1, <2>1, FS_Subset, FS_CardinalityType, LimiterAssumption DEF TableBounded
<1>3. ASSUME NEW w \in Workers, RecordFailure(w) PROVE TableBounded'
  <2>1. job[w].ip \in Addresses
    BY <1>3 DEF RecordFailure, Occupied, Job
  <2> DEFINE ip == job[w].ip
  <2>2. PICK b \in Addresses :
           /\ b \in Evicted(ip)
           /\ table' = [x \in Addresses |-> IF x = ip THEN Charge(table[x])
                                            ELSE IF x = b THEN Absent ELSE table[x]]
    BY <1>3, <2>1, FailureTable
  <2>3. Known' \subseteq Known \cup {ip}
    BY <2>2 DEF Known
  <2>4. CASE ip \in Known
    <3>1. Known' \subseteq Known
      BY <2>3, <2>4
    <3> QED
      BY <1>1, <3>1, FS_Subset, FS_CardinalityType, LimiterAssumption DEF TableBounded
  <2>5. CASE ip \notin Known /\ Cardinality(Known) >= MaxRecords
    <3>1. b \in Known /\ b # ip
      BY <2>2, <2>5 DEF Evicted
    <3>2. Known' \subseteq (Known \ {b}) \cup {ip}
      BY <2>2, <2>3, <3>1 DEF Known
    <3>3. /\ IsFiniteSet((Known \ {b}) \cup {ip})
          /\ Cardinality((Known \ {b}) \cup {ip}) = Cardinality(Known)
      BY <1>1, <2>5, <3>1, ExchangeCounts
    <3>4. Cardinality(Known') \in Nat /\ Cardinality(Known') <= Cardinality(Known)
      BY <3>2, <3>3, FS_Subset, FS_CardinalityType
    <3> QED
      BY <1>1, <3>4, LimiterAssumption DEF TableBounded
  <2>6. CASE ip \notin Known /\ ~ (Cardinality(Known) >= MaxRecords)
    <3>1. /\ IsFiniteSet(Known \cup {ip})
          /\ Cardinality(Known \cup {ip}) = Cardinality(Known) + 1
      BY <1>1, <2>6, FS_AddElement
    <3>2. Cardinality(Known') \in Nat /\ Cardinality(Known') <= Cardinality(Known) + 1
      BY <2>3, <3>1, FS_Subset, FS_CardinalityType
    <3> QED
      BY <1>1, <2>6, <3>2, LimiterAssumption DEF TableBounded
  <2> QED
    BY <2>4, <2>5, <2>6
<1> QED
  BY <1>2, <1>3

-----------------------------------------------------------------------------
LEMMA InsideFinite ==
  \A a : IsFiniteSet(Inside(a)) /\ Cardinality(Inside(a)) \in Nat
         /\ Cardinality(Inside(a)) <= Cardinality(Workers)
<1>1. \A a : Inside(a) \subseteq Workers
  BY DEF Inside
<1> QED
  BY <1>1, LimiterAssumption, FS_Subset, FS_CardinalityType

\* The budget of an address holds as long as neither count grows.
LEMMA BudgetShrinks ==
  ASSUME TypeOK, TypeOK', Budgeted, NEW a \in Addresses,
         Inside(a)' \subseteq Inside(a), charged'[a] <= charged[a]
  PROVE  charged'[a] + Cardinality(Inside(a)') <= MaxFailed - 1 + Cardinality(Workers)
<1>1. Cardinality(Inside(a)') \in Nat /\ Cardinality(Inside(a)') <= Cardinality(Inside(a))
  BY InsideFinite, FS_Subset, FS_CardinalityType
<1>2. charged[a] \in Nat /\ charged'[a] \in Nat
  BY DEF TypeOK
<1>3. Cardinality(Inside(a)) \in Nat /\ Cardinality(Workers) \in Nat /\ MaxFailed \in Nat
  BY InsideFinite, FS_CardinalityType, LimiterAssumption
<1> QED
  BY <1>1, <1>2, <1>3 DEF Budgeted

\* A record that holds no more than its limit leaves room for every worker.
LEMMA BudgetOfFew ==
  ASSUME TypeOK', NEW a \in Addresses, charged'[a] <= MaxFailed - 1
  PROVE  charged'[a] + Cardinality(Inside(a)') <= MaxFailed - 1 + Cardinality(Workers)
<1>1. Inside(a)' \subseteq Workers
  BY DEF Inside
<1>2. Cardinality(Inside(a)') \in Nat /\ Cardinality(Inside(a)') <= Cardinality(Workers)
  BY <1>1, LimiterAssumption, FS_Subset, FS_CardinalityType
<1>3. charged'[a] \in Nat /\ Cardinality(Workers) \in Nat /\ MaxFailed \in Nat
  BY FS_CardinalityType, LimiterAssumption DEF TypeOK
<1> QED
  BY <1>2, <1>3

\* A record that a worker passes by the ban check is below the limit: one at the
\* limit bans, or its ban is over, hence its window too, and it is dropped.
LEMMA PassedIsBelow ==
  ASSUME LimiterInv, NEW a \in Addresses, ~ Banned(a),
         a \notin Known \/ ~ (now - table[a].first > Window)
  PROVE  charged[a] <= MaxFailed - 1
<1>1. table[a] \in Entry \cup {Absent} /\ charged[a] \in Nat /\ now \in Nat
  BY DEF LimiterInv, TypeOK
<1>2. /\ table[a].count \in Nat /\ table[a].first \in Nat /\ table[a].until \in Nat
      /\ MaxFailed \in Nat \ {0, 1} /\ Window \in Nat /\ BanDuration \in Nat
      /\ BanDuration > Window
  BY <1>1, LimiterAssumption DEF Entry, Absent
<1>3. charged[a] <= table[a].count
  BY DEF LimiterInv, ChargedCounted
<1>4. CASE a \notin Known
  BY <1>1, <1>2, <1>3, <1>4 DEF Known, Absent
<1>5. CASE ~ (now - table[a].first > Window)
  <2>1. table[a].count >= MaxFailed => table[a].until >= table[a].first + BanDuration
    BY DEF LimiterInv, RecordsBan
  <2> QED
    BY <1>1, <1>2, <1>3, <1>5, <2>1 DEF Banned
<1> QED
  BY <1>4, <1>5

LEMMA BudgetStep == LimiterInv /\ [Next]_vars => Budgeted'
<1> SUFFICES ASSUME LimiterInv, [Next]_vars, NEW a \in Addresses
             PROVE  charged'[a] + Cardinality(Inside(a)') <= MaxFailed - 1 + Cardinality(Workers)
  BY DEF Budgeted
<1>1. TypeOK /\ TypeOK' /\ Occupied /\ Budgeted
  BY TypesStep DEF LimiterInv
<1>2. charged[a] \in Nat /\ charged'[a] \in Nat /\ MaxFailed \in Nat \ {0, 1}
  BY <1>1, LimiterAssumption DEF TypeOK
<1>3. CASE UNCHANGED vars \/ Tick
  <2>1. Inside(a)' = Inside(a) /\ charged'[a] = charged[a]
    BY <1>3 DEF vars, Tick, Inside
  <2> QED
    BY <1>1, <1>2, <2>1, BudgetShrinks
<1>4. ASSUME NEW w \in Workers, Arrive(w) \/ Compare(w) \/ Clear(w) \/ Recheck(w)
      PROVE charged'[a] + Cardinality(Inside(a)') <= MaxFailed - 1 + Cardinality(Workers)
  <2>1. CASE Arrive(w)
    <3>1. Inside(a)' \subseteq Inside(a)
      BY <1>1, <2>1 DEF Arrive, Inside, TypeOK
    <3> QED
      BY <1>1, <1>2, <2>1, <3>1, BudgetShrinks DEF Arrive
  <2>2. CASE Compare(w)
    <3>1. Inside(a)' \subseteq Inside(a)
      BY <1>1, <2>2 DEF Compare, Goto, Inside, TypeOK
    <3> QED
      BY <1>1, <1>2, <2>2, <3>1, BudgetShrinks DEF Compare
  <2>3. CASE Clear(w) \/ Recheck(w)
    <3>1. Answer(w)
      BY <2>3 DEF Clear, Recheck, IsBanned
    <3>2. Inside(a)' \subseteq Inside(a)
      BY <1>1, <3>1 DEF Answer, Inside, TypeOK
    <3>3. charged'[a] <= charged[a]
      BY <1>1, <1>2, <2>3 DEF Clear, Recheck, IsBanned, Forget, TypeOK
    <3> QED
      BY <1>1, <3>2, <3>3, BudgetShrinks
  <2> QED
    BY <1>4, <2>1, <2>2, <2>3
<1>5. ASSUME NEW w \in Workers, CheckBan(w)
      PROVE charged'[a] + Cardinality(Inside(a)') <= MaxFailed - 1 + Cardinality(Workers)
  <2> DEFINE ip == job[w].ip
  <2>1. pc[w] = "check" /\ IsBanned(ip, Answer(w), Goto(w, "compare"))
    BY <1>5 DEF CheckBan
  <2>2. ip \in Addresses
    BY <1>1, <2>1 DEF Occupied, Job
  <2>3. CASE Answer(w)
    <3>1. Inside(a)' \subseteq Inside(a)
      BY <1>1, <2>3 DEF Answer, Inside, TypeOK
    <3>2. charged'[a] <= charged[a]
      BY <1>1, <1>2, <2>1 DEF IsBanned, Forget, TypeOK
    <3> QED
      BY <1>1, <3>1, <3>2, BudgetShrinks
  <2>4. CASE Goto(w, "compare") /\ a # ip
    <3>1. Inside(a)' \subseteq Inside(a)
      BY <1>1, <2>4 DEF Goto, Inside, TypeOK
    <3>2. charged'[a] <= charged[a]
      BY <1>1, <1>2, <2>1 DEF IsBanned, Forget, TypeOK
    <3> QED
      BY <1>1, <3>1, <3>2, BudgetShrinks
  <2>5. CASE Goto(w, "compare") /\ ~ Answer(w) /\ a = ip
    <3>1. charged'[a] <= MaxFailed - 1
      <4>1. CASE Forget(a)
        BY <1>1, <1>2, <4>1 DEF Forget, TypeOK
      <4>2. CASE charged' = charged /\ ~ Banned(a)
                 /\ (a \notin Known \/ ~ (now - table[a].first > Window))
        BY <4>2, PassedIsBelow
      <4> QED
        BY <2>1, <2>5, <4>1, <4>2 DEF IsBanned
    <3> QED
      BY <1>1, <3>1, BudgetOfFew
  <2> QED
    BY <2>1, <2>3, <2>4, <2>5 DEF IsBanned
<1>6. ASSUME NEW w \in Workers, RecordFailure(w)
      PROVE charged'[a] + Cardinality(Inside(a)') <= MaxFailed - 1 + Cardinality(Workers)
  <2>1. job[w].ip \in Addresses /\ pc[w] = "record"
    BY <1>1, <1>6 DEF RecordFailure, Occupied, Job
  <2>2. Inside(a)' \subseteq Inside(a)
    <3>1. Answer(w) \/ Goto(w, "recheck")
      BY <1>6 DEF RecordFailure
    <3> QED
      BY <1>1, <3>1 DEF Answer, Goto, Inside, TypeOK
  <2>3. PICK b \in Addresses :
           charged' = [x \in Addresses |->
                         IF x = job[w].ip THEN charged[x] + (IF job[w].route = "sub" THEN 1 ELSE 0)
                         ELSE IF x = b THEN 0 ELSE charged[x]]
    BY <1>1, <1>6, <2>1, FailureTable
  <2>4. CASE a # job[w].ip \/ job[w].route # "sub"
    <3>1. charged'[a] <= charged[a]
      BY <1>2, <2>3, <2>4
    <3> QED
      BY <1>1, <2>2, <3>1, BudgetShrinks
  <2>5. CASE a = job[w].ip /\ job[w].route = "sub"
    <3>1. w \in Inside(a) /\ w \notin Inside(a)'
      <4>1. Answer(w)
        BY <1>6, <2>5 DEF RecordFailure
      <4> QED
        BY <1>1, <2>1, <2>5, <4>1 DEF Answer, Inside, TypeOK
    <3>2. Inside(a)' \subseteq Inside(a) \ {w}
      BY <2>2, <3>1
    <3>3. /\ IsFiniteSet(Inside(a) \ {w})
          /\ Cardinality(Inside(a) \ {w}) = Cardinality(Inside(a)) - 1
      BY <3>1, InsideFinite, FS_RemoveElement
    <3>4. Cardinality(Inside(a)') \in Nat
          /\ Cardinality(Inside(a)') <= Cardinality(Inside(a)) - 1
      BY <3>2, <3>3, FS_Subset, FS_CardinalityType
    <3>5. charged'[a] = charged[a] + 1
      BY <2>3, <2>5
    <3>6. /\ charged[a] + Cardinality(Inside(a)) <= MaxFailed - 1 + Cardinality(Workers)
          /\ Cardinality(Inside(a)) \in Nat /\ Cardinality(Workers) \in Nat
      BY <1>1, InsideFinite, FS_CardinalityType, LimiterAssumption DEF Budgeted
    <3> QED
      BY <1>2, <3>4, <3>5, <3>6
  <2> QED
    BY <2>4, <2>5
<1> QED
  BY <1>3, <1>4, <1>5, <1>6 DEF Next

-----------------------------------------------------------------------------
LEMMA LimiterKept == Spec => []LimiterInv
<1>1. LimiterInv /\ [Next]_vars => LimiterInv'
  BY TypesStep, RecordsStep, BoundStep, BudgetStep DEF LimiterInv
<1> QED
  BY <1>1, LimiterInvInit, PTL DEF Spec

\* FAILED_ATTEMPTS holds at most MAX_FAILED_RECORDS records, each with a failure, at
\* any moment (record_failed_attempt).
THEOREM TableStaysBounded == Spec => [](TypeOK /\ TableBounded)
<1>1. LimiterInv => TypeOK /\ TableBounded
  BY DEF LimiterInv
<1> QED
  BY <1>1, LimiterKept, PTL

\* One record is charged with at most MAX_FAILED - 1 guesses and one for each worker,
\* though ban check, comparison and charge are three critical sections.
THEOREM GuessesBudgeted == Spec => []GuessBudget
<1>1. LimiterInv => GuessBudget
  <2> SUFFICES ASSUME LimiterInv, NEW a \in Addresses
               PROVE  charged[a] <= MaxFailed - 1 + Cardinality(Workers)
    BY DEF GuessBudget
  <2>1. charged[a] \in Nat /\ Cardinality(Workers) \in Nat /\ MaxFailed \in Nat
    BY FS_CardinalityType, LimiterAssumption DEF LimiterInv, TypeOK
  <2>2. charged[a] + Cardinality(Inside(a)) <= MaxFailed - 1 + Cardinality(Workers)
    BY DEF LimiterInv, Budgeted
  <2>3. Cardinality(Inside(a)) \in Nat
    BY InsideFinite
  <2> QED
    BY <2>1, <2>2, <2>3
<1> QED
  BY <1>1, LimiterKept, PTL

\* A ban ends early only for a valid credential (clear_failed_attempts) or where a
\* full table drops its oldest record; another failure never lifts it.
THEOREM BansHold == Spec => BanEndsOnlyFor
<1> DEFINE Ends(a) ==
      \/ now' > now
      \/ \E w \in Workers : pc[w] = "clear" /\ job[w].ip = a /\ pc'[w] = "idle"
      \/ /\ table'[a] = Absent /\ Cardinality(Known) >= MaxRecords
         /\ \A b \in Known : table[a].first <= table[b].first
<1>1. LimiterInv /\ [Next]_vars => [\A a \in Addresses : Banned(a) /\ ~ Banned(a)' => Ends(a)]_vars
  <2> SUFFICES ASSUME LimiterInv, Next, NEW a \in Addresses, Banned(a), ~ Banned(a)' PROVE Ends(a)
    OBVIOUS
  <2>1. TypeOK /\ Occupied /\ RecordsBan
    BY DEF LimiterInv
  <2>2. now \in Nat
    BY <2>1 DEF TypeOK
  <2>3. CASE Tick
    BY <2>2, <2>3 DEF Tick
  <2>4. ASSUME NEW w \in Workers, Arrive(w) \/ Compare(w) PROVE Ends(a)
    BY <2>4 DEF Arrive, Compare, Banned
  <2>5. ASSUME NEW w \in Workers, CheckBan(w) \/ Recheck(w) PROVE Ends(a)
    BY <2>1, <2>5 DEF CheckBan, Recheck, IsBanned, Forget, Banned, TypeOK
  <2>6. ASSUME NEW w \in Workers, Clear(w) PROVE Ends(a)
    <3>1. CASE job[w].ip = a
      BY <2>1, <2>6, <3>1 DEF Clear, Answer, TypeOK
    <3>2. CASE job[w].ip # a
      BY <2>1, <2>6, <3>2 DEF Clear, Forget, Banned, TypeOK
    <3> QED
      BY <3>1, <3>2
  <2>7. ASSUME NEW w \in Workers, RecordFailure(w) PROVE Ends(a)
    <3>1. job[w].ip \in Addresses /\ now' = now
      BY <2>1, <2>7 DEF RecordFailure, Occupied, Job
    <3>2. PICK b \in Addresses :
            /\ b \in Evicted(job[w].ip)
            /\ table' = [x \in Addresses |-> IF x = job[w].ip THEN Charge(table[x])
                                             ELSE IF x = b THEN Absent ELSE table[x]]
      BY <2>1, <2>7, <3>1, FailureTable
    <3>3. CASE a = job[w].ip
      <4>1. table[a] \in Entry /\ MaxFailed \in Nat /\ BanDuration \in Nat \ {0}
        BY <2>1, <2>2, LimiterAssumption DEF TypeOK, Banned, Absent
      <4>2. table[a].count >= MaxFailed
        BY <2>1, <2>2, <4>1 DEF RecordsBan, Banned, Entry
      <4>3. Charge(table[a]).until = now + BanDuration
        BY <2>1, <4>1, <4>2, ChargeRecord DEF Entry
      <4> QED
        BY <2>2, <3>1, <3>2, <3>3, <4>1, <4>3 DEF Banned
    <3>4. CASE a # job[w].ip
      <4>1. a = b /\ table'[a] = Absent
        BY <3>1, <3>2, <3>4 DEF Banned
      <4> QED
        BY <3>2, <3>4, <4>1 DEF Evicted
    <3> QED
      BY <3>3, <3>4
  <2> QED
    BY <2>3, <2>4, <2>5, <2>6, <2>7 DEF Next
<1> QED
  BY <1>1, LimiterKept, PTL DEF Spec, BanEndsOnlyFor

-----------------------------------------------------------------------------
(* WorkerPool. *)

Places == {"closed", "queued", "accepted", "spawn", "undo", "handshake", "serve", "release"}
Held   == {"spawn", "undo", "handshake", "serve", "release"}

\* The accept loop holds the connection that is in its hands, and that only.
PoolInv ==
  /\ free \in Nat
  /\ conn \in [Conns -> Places]
  /\ main \in Conns \cup {NoConn}
  /\ \A c \in Conns : conn[c] \in {"accepted", "spawn", "undo"} <=> c = main
  /\ SlotsAccounted

\* Moving one connection changes the number of holders by at most one.
LEMMA MoveCounts ==
  ASSUME conn \in [Conns -> Places], NEW c \in Conns, NEW p \in Places, Move(c, p)
  PROVE  /\ conn' \in [Conns -> Places]
         /\ conn[c] \in Held /\ p \notin Held =>
              Cardinality(Holding') = Cardinality(Holding) - 1
         /\ conn[c] \notin Held /\ p \in Held =>
              Cardinality(Holding') = Cardinality(Holding) + 1
         /\ (conn[c] \in Held <=> p \in Held) =>
              Cardinality(Holding') = Cardinality(Holding)
<1>1. conn' = [conn EXCEPT ![c] = p]
  BY DEF Move
<1>2. conn' \in [Conns -> Places]
  BY <1>1
<1>3. Holding \subseteq Conns /\ IsFiniteSet(Holding)
  BY PoolAssumption, FS_Subset DEF Holding
<1>4. conn[c] \in Held /\ p \notin Held => c \in Holding /\ Holding' = Holding \ {c}
  BY <1>1 DEF Holding, Held
<1>5. conn[c] \notin Held /\ p \in Held => c \notin Holding /\ Holding' = Holding \cup {c}
  BY <1>1 DEF Holding, Held
<1>6. (conn[c] \in Held <=> p \in Held) => Holding' = Holding
  BY <1>1 DEF Holding, Held
<1> QED
  BY <1>2, <1>3, <1>4, <1>5, <1>6, FS_AddElement, FS_RemoveElement

LEMMA CountType == Cardinality(Holding) \in Nat
<1>1. Holding \subseteq Conns
  BY DEF Holding
<1> QED
  BY <1>1, PoolAssumption, FS_Subset, FS_CardinalityType

LEMMA PoolInvInit == PoolInit => PoolInv
<1> SUFFICES ASSUME PoolInit PROVE PoolInv
  OBVIOUS
<1>1. Holding = {}
  BY DEF PoolInit, Holding
<1>2. SlotsAccounted
  BY <1>1, FS_EmptySet, PoolAssumption DEF PoolInit, SlotsAccounted
<1> QED
  BY <1>2, PoolAssumption DEF PoolInit, PoolInv, Places

LEMMA PoolInvStep == PoolInv /\ [PoolNext]_poolVars => PoolInv'
<1> SUFFICES ASSUME PoolInv, [PoolNext]_poolVars PROVE PoolInv'
  OBVIOUS
<1> USE PoolAssumption, CountType DEF PoolInv, Places, Held, SlotsAccounted
<1>1. ASSUME NEW c \in Conns, Connect(c) PROVE PoolInv'
  BY <1>1, MoveCounts DEF Connect, Move
<1>2. CASE Accept
  <2>1. PICK c \in Queued : Move(c, "accepted") /\ main' = c
    BY <1>2 DEF Accept
  <2> QED
    BY <1>2, <2>1, MoveCounts DEF Accept, Move, Queued
<1>3. CASE Acquire
  <2>1. CASE free > 0
    <3>1. free' = free - 1 /\ Move(main, "spawn") /\ main' = main /\ main \in Conns
      BY <1>3, <2>1 DEF Acquire
    <3>2. conn[main] = "accepted"
      BY <1>3 DEF Acquire
    <3>3. Cardinality(Holding') = Cardinality(Holding) + 1
      BY <3>1, <3>2, MoveCounts
    <3>4. free' \in Nat
      BY <2>1, <3>1
    <3> QED
      BY <3>1, <3>2, <3>3, <3>4 DEF Move
  <2>2. CASE ~ (free > 0)
    <3>1. free' = free /\ Move(main, "closed") /\ main' = NoConn /\ main \in Conns
      BY <1>3, <2>2 DEF Acquire
    <3>2. Cardinality(Holding') = Cardinality(Holding)
      BY <1>3, <3>1, MoveCounts DEF Acquire
    <3> QED
      BY <1>3, <3>1, <3>2, MoveCounts DEF Acquire, Move
  <2> QED
    BY <2>1, <2>2
<1>4. CASE Spawn
  <2>1. CASE Move(main, "handshake") /\ main' = NoConn
    BY <1>4, <2>1, MoveCounts DEF Spawn, Move
  <2>2. CASE Move(main, "undo") /\ UNCHANGED main
    BY <1>4, <2>2, MoveCounts DEF Spawn, Move
  <2> QED
    BY <1>4, <2>1, <2>2 DEF Spawn
<1>5. CASE Undo
  <2>1. main \in Conns /\ conn[main] = "undo" /\ Move(main, "closed")
    BY <1>5 DEF Undo
  <2>2. Cardinality(Holding') = Cardinality(Holding) - 1
    BY <2>1, MoveCounts
  <2> QED
    BY <1>5, <2>1, <2>2 DEF Undo, Move
<1>6. ASSUME NEW c \in Conns, Handshake(c) PROVE PoolInv'
  <2>1. PICK p \in {"serve", "release"} : Move(c, p)
    BY <1>6 DEF Handshake
  <2> QED
    BY <1>6, <2>1, MoveCounts DEF Handshake, Move
<1>7. ASSUME NEW c \in Conns, Serve(c) PROVE PoolInv'
  BY <1>7, MoveCounts DEF Serve, Move
<1>8. ASSUME NEW c \in Conns, Release(c) PROVE PoolInv'
  <2>1. conn[c] = "release" /\ Move(c, "closed")
    BY <1>8 DEF Release
  <2>2. Cardinality(Holding') = Cardinality(Holding) - 1
    BY <2>1, MoveCounts
  <2> QED
    BY <1>8, <2>1, <2>2 DEF Release, Move
<1>9. CASE UNCHANGED poolVars
  BY <1>9 DEF poolVars, Holding
<1> QED
  BY <1>1, <1>2, <1>3, <1>4, <1>5, <1>6, <1>7, <1>8, <1>9 DEF PoolNext, Loop, Thread

\* On every path, success, timeout, failed thread or refusal, the free slots and
\* the connections that hold one make up the pool; so the semaphore is never given
\* back beyond its bound, where BoundedSemaphore would raise.
THEOREM SlotsKept == PoolSpec => [](PoolTypeOK /\ SlotsAccounted)
<1>1. PoolInv => PoolTypeOK /\ SlotsAccounted
  BY PoolAssumption, CountType DEF PoolInv, PoolTypeOK, Places, SlotsAccounted
<1> QED
  BY PoolInvInit, PoolInvStep, <1>1, PTL DEF PoolSpec

\* The steps until a connection gives its slot back.
UntilFree == [spawn |-> 4, handshake |-> 3, serve |-> 2, release |-> 1, undo |-> 1,
              closed |-> 0, queued |-> 0, accepted |-> 0]

\* With no slot left, somebody has one and can go on: a thread, or the accept loop, which
\* never waits for a slot.
SomeoneRuns ==
  free = 0 => \E c \in Conns : \/ conn[c] \in {"handshake", "serve", "release"}
                               \/ c = main /\ conn[c] \in {"spawn", "undo"}

\* Nobody who has one gets further from giving it back, and who goes on gets nearer.
Drains ==
  free = 0 => \A c \in Conns :
    /\ UntilFree[conn'[c]] <= UntilFree[conn[c]]
    /\ Thread(c) \/ (c = main /\ (Spawn \/ Undo)) => UntilFree[conn'[c]] < UntilFree[conn[c]]

LEMMA DrainsStep == PoolInv /\ [PoolNext]_poolVars => Drains
<1> SUFFICES ASSUME PoolInv, [PoolNext]_poolVars, free = 0, NEW c \in Conns
             PROVE  /\ UntilFree[conn'[c]] <= UntilFree[conn[c]]
                    /\ Thread(c) \/ (c = main /\ (Spawn \/ Undo)) =>
                         UntilFree[conn'[c]] < UntilFree[conn[c]]
  BY DEF Drains
<1> USE PoolAssumption DEF Move, UntilFree
<1>1. conn \in [Conns -> Places] /\ main \in Conns \cup {NoConn}
  BY DEF PoolInv
<1>2. \A p \in Places : UntilFree[p] \in Nat
  BY DEF Places
<1>3. ASSUME Thread(c) \/ (c = main /\ (Spawn \/ Undo))
      PROVE  UntilFree[conn'[c]] < UntilFree[conn[c]]
  <2>1. CASE Handshake(c)
    BY <1>1, <2>1 DEF Handshake
  <2>2. CASE Serve(c)
    BY <1>1, <2>2 DEF Serve
  <2>3. CASE Release(c)
    BY <1>1, <2>3 DEF Release
  <2>4. CASE c = main /\ Spawn
    BY <1>1, <2>4 DEF Spawn
  <2>5. CASE c = main /\ Undo
    BY <1>1, <2>5 DEF Undo
  <2> QED
    BY <1>3, <2>1, <2>2, <2>3, <2>4, <2>5 DEF Thread
<1>4. UntilFree[conn'[c]] <= UntilFree[conn[c]]
  <2>1. CASE UNCHANGED poolVars
    BY <1>1, <1>2, <2>1 DEF poolVars
  <2>2. ASSUME NEW d \in Conns, Connect(d) PROVE UntilFree[conn'[c]] <= UntilFree[conn[c]]
    BY <1>1, <1>2, <2>2 DEF Connect
  <2>3. CASE Accept
    BY <1>1, <1>2, <2>3 DEF Accept, Queued
  <2>4. CASE Acquire
    BY <1>1, <1>2, <2>4 DEF Acquire
  <2>5. CASE Spawn
    BY <1>1, <1>2, <2>5 DEF Spawn
  <2>6. CASE Undo
    BY <1>1, <1>2, <2>6 DEF Undo
  <2>7. ASSUME NEW d \in Conns, Handshake(d) PROVE UntilFree[conn'[c]] <= UntilFree[conn[c]]
    BY <1>1, <1>2, <2>7 DEF Handshake
  <2>8. ASSUME NEW d \in Conns, Serve(d) PROVE UntilFree[conn'[c]] <= UntilFree[conn[c]]
    BY <1>1, <1>2, <2>8 DEF Serve
  <2>9. ASSUME NEW d \in Conns, Release(d) PROVE UntilFree[conn'[c]] <= UntilFree[conn[c]]
    BY <1>1, <1>2, <2>9 DEF Release
  <2> QED
    BY <2>1, <2>2, <2>3, <2>4, <2>5, <2>6, <2>7, <2>8, <2>9 DEF PoolNext, Loop, Thread
<1> QED
  BY <1>3, <1>4

\* An exhausted pool comes nearer to a free slot with every step of a thread that holds
\* one, clients that keep coming take nothing from that, and some holder can always take
\* its step (process_request; with the threads' fairness, PoolRecovers).
THEOREM ExhaustedPoolDrains == PoolSpec => []SomeoneRuns /\ [][Drains]_poolVars
<1>1. PoolInv => SomeoneRuns
  <2> SUFFICES ASSUME PoolInv, free = 0
               PROVE  \E c \in Conns : \/ conn[c] \in {"handshake", "serve", "release"}
                                       \/ c = main /\ conn[c] \in {"spawn", "undo"}
    BY DEF SomeoneRuns
  <2>1. Cardinality(Holding) # 0
    BY PoolAssumption DEF PoolInv, SlotsAccounted
  <2>2. PICK c \in Holding : TRUE
    BY <2>1, FS_EmptySet
  <2> QED
    BY <2>2 DEF Holding, PoolInv
<1>2. PoolInv /\ [PoolNext]_poolVars => [Drains]_poolVars
  BY DrainsStep
<1> QED
  BY <1>1, <1>2, PoolInvInit, PoolInvStep, PTL DEF PoolSpec

-----------------------------------------------------------------------------
(* TotpReplay. *)

\* So late that no worker in flight, nor any later one, finds the code good.
Gone(c) == clock >= c + 2 * Step + Lag

\* A worker's clock value is past, and no older than Lag.
ClockFresh ==
  \A w \in Verifiers : at[w] <= clock /\ (stage[w] # "idle" => clock <= at[w] + Lag)

\* An entry outlives the window of its code by all but Lag.
EntryLasts == \A c \in Codes : used[c] # Free => used[c] >= c - Step + Hold

\* A spent code is remembered until it is gone.
SpentIsKnown ==
  \A c \in Codes : accepted[c] <= 1 /\ (accepted[c] > 0 => used[c] # Free \/ Gone(c))

TotpInv == TotpTypeOK /\ ClockFresh /\ EntryLasts /\ SpentIsKnown

USE TotpAssumption

LEMMA TotpInvInit == TotpInit => TotpInv
BY DEF TotpInit, TotpInv, TotpTypeOK, ClockFresh, EntryLasts, SpentIsKnown, Free

\* An entry that Purged drops belongs to a code that is gone.
LEMMA PurgedIsGone ==
  ASSUME TotpInv, NEW w \in Verifiers, NEW c \in Codes, used[c] # Free, used[c] < at[w]
  PROVE  Gone(c)
<1>1. /\ used[c] \in Nat /\ at[w] \in Nat /\ clock \in Nat /\ c \in Int
      /\ at[w] <= clock /\ used[c] >= c - Step + Hold
  BY DEF TotpInv, TotpTypeOK, ClockFresh, EntryLasts
<1> QED
  BY <1>1 DEF Gone

LEMMA TotpInvStep == TotpInv /\ [TotpNext]_totpVars => TotpInv'
<1> SUFFICES ASSUME TotpInv, [TotpNext]_totpVars PROVE TotpInv'
  OBVIOUS
<1> USE DEF TotpInv
<1>1. CASE ClockTick
  <2>1. clock' = clock + 1 /\ UNCHANGED <<used, stage, code, at, accepted>>
    BY <1>1 DEF ClockTick
  <2>2. ClockFresh'
    BY <1>1 DEF ClockTick, ClockFresh, TotpTypeOK
  <2>3. \A c \in Codes : Gone(c) => Gone(c)'
    BY <2>1 DEF Gone, TotpTypeOK
  <2> QED
    BY <2>1, <2>2, <2>3 DEF TotpTypeOK, EntryLasts, SpentIsKnown
<1>2. ASSUME NEW w \in Verifiers, Offer(w) PROVE TotpInv'
  BY <1>2 DEF Offer, TotpTypeOK, ClockFresh, EntryLasts, SpentIsKnown, Gone
<1>3. ASSUME NEW w \in Verifiers, Purge(w) PROVE TotpInv'
  <2>1. /\ used' = [c \in Codes |-> IF used[c] < at[w] THEN Free ELSE used[c]]
        /\ UNCHANGED <<clock, code, at, accepted>>
        /\ stage[w] = "purge"
        /\ \E l \in {"verify", "idle"} : stage' = [stage EXCEPT ![w] = l]
    BY <1>3 DEF Purge, Purged
  <2>2. TotpTypeOK' /\ ClockFresh' /\ EntryLasts'
    BY <2>1 DEF TotpTypeOK, ClockFresh, EntryLasts, Free
  <2>3. ASSUME NEW c \in Codes, accepted[c] > 0 PROVE used'[c] # Free \/ Gone(c)
    <3>1. CASE used[c] # Free /\ used[c] < at[w]
      BY <3>1, PurgedIsGone
    <3>2. CASE ~ (used[c] # Free /\ used[c] < at[w])
      BY <2>1, <2>3, <3>2 DEF SpentIsKnown, TotpTypeOK, Free
    <3> QED
      BY <3>1, <3>2
  <2> QED
    BY <2>1, <2>2, <2>3 DEF SpentIsKnown, Gone
<1>4. ASSUME NEW w \in Verifiers, Consume(w) PROVE TotpInv'
  <2>1. /\ stage[w] = "verify" /\ UNCHANGED <<clock, code, at>>
        /\ stage' = [stage EXCEPT ![w] = "idle"]
    BY <1>4 DEF Consume
  <2>2. CASE UNCHANGED <<used, accepted>>
    BY <2>1, <2>2 DEF TotpTypeOK, ClockFresh, EntryLasts, SpentIsKnown, Gone
  <2>3. CASE /\ Good(code[w], at[w]) /\ used[code[w]] = Free
             /\ used'     = [used EXCEPT ![code[w]] = at[w] + Hold]
             /\ accepted' = [accepted EXCEPT ![code[w]] = @ + 1]
    <3>1. /\ code[w] \in Codes /\ code[w] \in Int /\ at[w] \in Nat /\ clock \in Nat
          /\ clock <= at[w] + Lag
      BY <2>1 DEF TotpTypeOK, ClockFresh
    <3>2. ~ Gone(code[w])
      BY <2>3, <3>1 DEF Good, Gone
    <3>3. accepted[code[w]] = 0
      BY <2>3, <3>1, <3>2 DEF SpentIsKnown, TotpTypeOK
    <3>4. at[w] + Hold \in Nat /\ at[w] + Hold # Free
          /\ at[w] + Hold >= code[w] - Step + Hold
      BY <2>3, <3>1 DEF Good, Free
    <3>5. TotpTypeOK' /\ ClockFresh' /\ EntryLasts'
      BY <2>1, <2>3, <3>1, <3>4 DEF TotpTypeOK, ClockFresh, EntryLasts
    <3>6. SpentIsKnown'
      BY <2>1, <2>3, <3>1, <3>3, <3>4 DEF SpentIsKnown, TotpTypeOK, Gone
    <3> QED
      BY <3>5, <3>6
  <2> QED
    BY <1>4, <2>2, <2>3 DEF Consume
<1>5. CASE UNCHANGED totpVars
  BY <1>5 DEF totpVars, TotpTypeOK, ClockFresh, EntryLasts, SpentIsKnown, Gone
<1> QED
  BY <1>1, <1>2, <1>3, <1>4, <1>5 DEF TotpNext

\* A one-time code is accepted at most once, whichever workers verify it, as long
\* as none of them is delayed by more than Hold - 3 * Step + 1 after its clock
\* read: with the 120 s and the 30 s of the code, by more than 30 s.
THEOREM CodeAcceptedOnce == TotpSpec => []NoReplay
<1>1. TotpInv => NoReplay
  BY DEF TotpInv, SpentIsKnown, NoReplay
<1> QED
  BY <1>1, TotpInvInit, TotpInvStep, PTL DEF TotpSpec

\* What is remembered was spent: an entry appears with the acceptance it records.
EntryWasSpent == \A c \in Codes : used[c] # Free => accepted[c] > 0

LEMMA SpentInit == TotpInit => EntryWasSpent
BY DEF TotpInit, EntryWasSpent, Free

LEMMA SpentStep == TotpTypeOK /\ EntryWasSpent /\ [TotpNext]_totpVars => EntryWasSpent'
<1> SUFFICES ASSUME TotpTypeOK, EntryWasSpent, [TotpNext]_totpVars PROVE EntryWasSpent'
  OBVIOUS
<1> USE DEF TotpTypeOK, EntryWasSpent
<1>1. ASSUME UNCHANGED <<used, accepted>> PROVE EntryWasSpent'
  BY <1>1
<1>2. ASSUME NEW w \in Verifiers, Purge(w) PROVE EntryWasSpent'
  BY <1>2 DEF Purge, Purged
<1>3. ASSUME NEW w \in Verifiers, Consume(w) PROVE EntryWasSpent'
  BY <1>3 DEF Consume
<1> QED
  BY <1>1, <1>2, <1>3 DEF TotpNext, totpVars, ClockTick, Offer

\* A code is refused only when it is out of its window or was accepted before:
\* no purge, race or delay makes verify_totp refuse a good and unused code.
THEOREM RefusalsHaveCause == TotpSpec => RefusedForCause
<1>1. TotpTypeOK /\ EntryWasSpent /\ [TotpNext]_totpVars =>
        [\A w \in Verifiers :
           stage[w] # "idle" /\ stage'[w] = "idle" /\ UNCHANGED accepted =>
             ~ Good(code[w], at[w]) \/ accepted[code[w]] > 0]_totpVars
  <2> SUFFICES ASSUME TotpTypeOK, EntryWasSpent, TotpNext, NEW w \in Verifiers,
                      stage[w] # "idle", stage'[w] = "idle", UNCHANGED accepted, Good(code[w], at[w])
               PROVE  accepted[code[w]] > 0
    BY DEF TotpNext
  <2>1. code[w] \in Codes
    BY DEF TotpTypeOK
  <2>2. ~ ClockTick /\ \A v \in Verifiers : ~ Offer(v)
    BY DEF ClockTick, Offer, TotpTypeOK
  <2>3. ASSUME NEW v \in Verifiers, Purge(v) PROVE accepted[code[w]] > 0
    <3>1. v = w /\ used'[code[w]] # Free
      BY <2>3 DEF Purge, TotpTypeOK
    <3>2. used[code[w]] # Free
      BY <2>1, <2>3, <3>1 DEF Purge, Purged
    <3> QED
      BY <2>1, <3>2 DEF EntryWasSpent
  <2>4. ASSUME NEW v \in Verifiers, Consume(v) PROVE accepted[code[w]] > 0
    <3>1. v = w
      BY <2>4 DEF Consume, TotpTypeOK
    <3>2. accepted[code[w]] \in Nat /\ accepted \in [Codes -> Nat]
      BY <2>1 DEF TotpTypeOK
    <3>3. accepted # [accepted EXCEPT ![code[w]] = @ + 1]
      BY <2>1, <3>2
    <3>4. used[code[w]] # Free
      BY <2>4, <3>1, <3>3 DEF Consume
    <3> QED
      BY <2>1, <3>4 DEF EntryWasSpent
  <2> QED
    BY <2>2, <2>3, <2>4 DEF TotpNext
<1>2. TotpInv => TotpTypeOK
  BY DEF TotpInv
<1> QED
  BY <1>1, <1>2, TotpInvInit, TotpInvStep, SpentInit, SpentStep, PTL DEF TotpSpec, RefusedForCause
=============================================================================
