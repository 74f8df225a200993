---------------------------- MODULE AttemptLimiter ----------------------------
(***************************************************************************)
(* FAILED_ATTEMPTS of fortress-sub.py: how wrong credentials are charged to*)
(* an address, when it is banned, and how the bounded table forgets.       *)
(*                                                                         *)
(* A request checks the ban, compares the credential, and charges or clears*)
(* the address, each in its own critical section of FAILED_ATTEMPTS_LOCK;  *)
(* workers interleave between them.  A clock tick stands for the 300 s of  *)
(* the failure window, so a ban of 900 s lasts three ticks; the clock does *)
(* not tick between time.time() and the locked section that uses it.       *)
(***************************************************************************)
EXTENDS Integers, FiniteSets

CONSTANTS
  Workers,     \* request threads
  Addresses,   \* client addresses
  NoAddress,   \* of a worker without a request
  MaxFailed,   \* MAX_FAILED
  MaxRecords,  \* MAX_FAILED_RECORDS
  Window,      \* 300 s, in ticks
  BanDuration, \* BAN_DURATION, in ticks
  MaxTime,     \* bound: the clock stops here
  MaxCount     \* bound: a login begins only below this count

ASSUME LimiterAssumption ==
  /\ MaxFailed \in Nat \ {0, 1} /\ MaxRecords \in Nat \ {0}
  /\ Window \in Nat \ {0} /\ BanDuration \in Nat /\ BanDuration > Window
  /\ MaxTime \in Nat /\ MaxCount \in Nat
  /\ IsFiniteSet(Workers) /\ IsFiniteSet(Addresses)
  /\ NoAddress \notin Addresses

VARIABLES
  now,      \* time.time()
  table,    \* FAILED_ATTEMPTS: address -> [count, first, until], or Absent
  pc,       \* where each worker is
  job,      \* the request it serves
  charged   \* history: /sub guesses charged to the present record of an address

vars == <<now, table, pc, job, charged>>

Entry  == [count: Nat \ {0}, first: Nat, until: Nat]
Absent == [count |-> 0, first |-> 0, until |-> 0]
Job    == [ip: Addresses, route: {"sub", "login"}, good: BOOLEAN]
NoJob  == [ip |-> NoAddress, route |-> "sub", good |-> FALSE]
PC     == {"idle", "check", "compare", "record", "clear", "recheck"}

Known     == {a \in Addresses : table[a] # Absent}
Banned(a) == table[a].until > now

-----------------------------------------------------------------------------
Init ==
  /\ now = 0
  /\ table = [a \in Addresses |-> Absent]
  /\ pc = [w \in Workers |-> "idle"]
  /\ job = [w \in Workers |-> NoJob]
  /\ charged = [a \in Addresses |-> 0]

Goto(w, label) == pc' = [pc EXCEPT ![w] = label] /\ UNCHANGED job
Answer(w) == pc' = [pc EXCEPT ![w] = "idle"] /\ job' = [job EXCEPT ![w] = NoJob]

Forget(a) ==
  /\ table'   = [table EXCEPT ![a] = Absent]
  /\ charged' = [charged EXCEPT ![a] = 0]

Tick == now < MaxTime /\ now' = now + 1 /\ UNCHANGED <<table, pc, job, charged>>

\* GET /sub/<token> checks the ban first; POST /portal/login does not.
Arrive(w) ==
  /\ pc[w] = "idle"
  /\ \E j \in Job :
       /\ j.route = "login" => table[j.ip].count < MaxCount
       /\ job' = [job EXCEPT ![w] = j]
       /\ pc' = [pc EXCEPT ![w] = IF j.route = "sub" THEN "check" ELSE "compare"]
  /\ UNCHANGED <<now, table, charged>>

\* Mutant: an old record is dropped before its ban is looked at.
IsBanned_WindowFirst(a, onBan, otherwise) ==
  IF now - table[a].first > Window THEN otherwise /\ Forget(a)
  ELSE IF Banned(a) THEN onBan /\ UNCHANGED <<table, charged>>
  ELSE otherwise /\ UNCHANGED <<table, charged>>

\* is_ip_banned: a record that is neither banning nor recent is dropped.
IsBanned(a, onBan, otherwise) ==
  \/ Banned(a) /\ onBan /\ UNCHANGED <<table, charged>>
  \/ /\ ~ Banned(a) /\ otherwise
     /\ IF a \in Known /\ now - table[a].first > Window THEN Forget(a)
        ELSE UNCHANGED <<table, charged>>

CheckBan(w) ==
  /\ pc[w] = "check"
  /\ IsBanned(job[w].ip, Answer(w), Goto(w, "compare"))
  /\ UNCHANGED now

Compare(w) ==
  /\ pc[w] = "compare"
  /\ Goto(w, IF job[w].good THEN "clear" ELSE "record")
  /\ UNCHANGED <<now, table, charged>>

\* Mutant: a table of exactly MAX_FAILED_RECORDS still takes a new address.
Evicted_OffByOne(a) ==
  IF a \notin Known /\ Cardinality(Known) > MaxRecords
    THEN {b \in Known : \A c \in Known : table[b].first <= table[c].first}
    ELSE {a}

\* The addresses record_failed_attempt may drop to make room: the oldest ones.
Evicted(a) ==
  IF a \notin Known /\ Cardinality(Known) >= MaxRecords
    THEN {b \in Known : \A c \in Known : table[b].first <= table[c].first}
    ELSE {a}

\* Mutant: only the failure that reaches the limit bans; the next one unbans.
Charge_ExactLimit(r) ==
  IF r = Absent THEN [count |-> 1, first |-> now, until |-> 0]
  ELSE [count |-> r.count + 1, first |-> r.first,
        until |-> IF r.count + 1 = MaxFailed THEN now + BanDuration ELSE 0]

\* The record after one more failure.
Charge(r) ==
  IF r = Absent THEN [count |-> 1, first |-> now, until |-> 0]
  ELSE [count |-> r.count + 1, first |-> r.first,
        until |-> IF r.count + 1 >= MaxFailed THEN now + BanDuration ELSE 0]

RecordFailure(w) ==
  LET a == job[w].ip IN
  /\ pc[w] = "record"
  /\ \E b \in Evicted(a) :
       /\ table' = [x \in Addresses |-> IF x = a THEN Charge(table[a])
                                        ELSE IF x = b THEN Absent ELSE table[x]]
       /\ charged' = [x \in Addresses |->
                        IF x = a THEN charged[a] + (IF job[w].route = "sub" THEN 1 ELSE 0)
                        ELSE IF x = b THEN 0 ELSE charged[x]]
  /\ IF job[w].route = "sub" THEN Answer(w) ELSE Goto(w, "recheck")
  /\ UNCHANGED now

\* The login route looks at the ban only to choose between decoy and 401.
Recheck(w) ==
  /\ pc[w] = "recheck"
  /\ IsBanned(job[w].ip, Answer(w), Answer(w))
  /\ UNCHANGED now

Clear(w) ==
  /\ pc[w] = "clear"
  /\ Forget(job[w].ip)
  /\ Answer(w)
  /\ UNCHANGED now

Next ==
  \/ Tick
  \/ \E w \in Workers : \/ Arrive(w) \/ CheckBan(w) \/ Compare(w)
                        \/ RecordFailure(w) \/ Recheck(w) \/ Clear(w)

Spec == Init /\ [][Next]_vars

-----------------------------------------------------------------------------
\* Types; a record in the table counts at least one failure.
TypeOK ==
  /\ now \in Nat
  /\ table \in [Addresses -> Entry \cup {Absent}]
  /\ pc \in [Workers -> PC] /\ job \in [Workers -> Job \cup {NoJob}]
  /\ charged \in [Addresses -> Nat]

\* The table never outgrows MAX_FAILED_RECORDS ("prevent memory exhaustion").
TableBounded == Cardinality(Known) <= MaxRecords

\* However the workers race between check and charge, one record is charged with
\* at most MAX_FAILED - 1 guesses of /sub plus one for each worker already past
\* the check when the ban fell.
GuessBudget ==
  \A a \in Addresses : charged[a] <= MaxFailed - 1 + Cardinality(Workers)

\* A ban ends before its time only when the address presents a valid credential
\* or when a full table makes room and no known address is older.
BanEndsOnlyFor ==
  [][\A a \in Addresses :
       Banned(a) /\ ~ Banned(a)' =>
         \/ now' > now
         \/ \E w \in Workers : pc[w] = "clear" /\ job[w].ip = a /\ pc'[w] = "idle"
         \/ /\ table'[a] = Absent /\ Cardinality(Known) >= MaxRecords
            /\ \A b \in Known : table[a].first <= table[b].first]_vars
=============================================================================
