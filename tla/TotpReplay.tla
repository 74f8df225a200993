------------------------------ MODULE TotpReplay ------------------------------
(***************************************************************************)
(* verify_totp of fortress-sub.py: a one-time code is accepted once.       *)
(*                                                                         *)
(* A code is named by the instant its own step begins; it is good from one *)
(* step before that instant to one step after its step; that two steps may *)
(* have the same six digits is left out.                                   *)
(*                                                                         *)
(* A worker reads the clock once, purges and looks up the used codes in one*)
(* locked section, computes the three codes of its window without the lock,*)
(* and looks up and marks the code in a second one.  The clock runs on.    *)
(***************************************************************************)
EXTENDS Integers

CONSTANTS
  Verifiers,  \* request threads
  Codes,      \* bound: the codes (step beginnings) clients offer
  Step,       \* 30 s
  Hold,       \* 120 s: how long a used code is remembered
  Lag,        \* the longest delay between a worker's clock read and its marking
  LastTime    \* bound: the clock stops here

ASSUME TotpAssumption ==
  /\ Codes \subseteq Int
  /\ Step \in Nat \ {0} /\ Hold \in Nat /\ Lag \in Nat /\ LastTime \in Nat
  /\ Lag <= Hold - 3 * Step + 1

VARIABLES
  clock,        \* the wall clock, which does not step backwards
  used,         \* USED_TOTP_CODES: code -> expiry, or Free
  stage, code,  \* per worker: where it is, the code it verifies
  at,           \* per worker: the time it read
  accepted      \* history: how often a code was accepted

totpVars == <<clock, used, stage, code, at, accepted>>

Free == -1
Good(c, t) == c - Step <= t /\ t < c + 2 * Step

TotpInit ==
  /\ clock = 0
  /\ used = [c \in Codes |-> Free]
  /\ stage = [w \in Verifiers |-> "idle"]
  /\ code \in {[w \in Verifiers |-> c] : c \in Codes}
  /\ at = [w \in Verifiers |-> 0]
  /\ accepted = [c \in Codes |-> 0]

\* Time passes, while no worker in flight is delayed for longer than Lag.
ClockTick ==
  /\ clock < LastTime
  /\ \A w \in Verifiers : stage[w] # "idle" => clock < at[w] + Lag
  /\ clock' = clock + 1
  /\ UNCHANGED <<used, stage, code, at, accepted>>

Offer(w) ==
  /\ stage[w] = "idle"
  /\ \E c \in Codes : code' = [code EXCEPT ![w] = c]
  /\ at' = [at EXCEPT ![w] = clock]
  /\ stage' = [stage EXCEPT ![w] = "purge"]
  /\ UNCHANGED <<clock, used, accepted>>

\* Mutant: a used code is forgotten with the end of its own step.
Purged_Early(t) == [c \in Codes |-> IF used[c] < t + Hold - Step THEN Free ELSE used[c]]

\* The table without the entries that expired before t.
Purged(t) == [c \in Codes |-> IF used[c] < t THEN Free ELSE used[c]]

\* The first locked section.
Purge(w) ==
  /\ stage[w] = "purge"
  /\ used' = Purged(at[w])
  /\ stage' = [stage EXCEPT ![w] = IF used'[code[w]] = Free THEN "verify" ELSE "idle"]
  /\ UNCHANGED <<clock, code, at, accepted>>

\* Mutant: the code is marked without a second look.
Consume_Unchecked(w) ==
  /\ stage[w] = "verify"
  /\ IF Good(code[w], at[w])
       THEN /\ used'     = [used EXCEPT ![code[w]] = at[w] + Hold]
            /\ accepted' = [accepted EXCEPT ![code[w]] = @ + 1]
       ELSE UNCHANGED <<used, accepted>>
  /\ stage' = [stage EXCEPT ![w] = "idle"]
  /\ UNCHANGED <<clock, code, at>>

\* Mutant: the window loop leaves out the previous step.
Consume_NoPast(w) ==
  /\ stage[w] = "verify"
  /\ IF Good(code[w], at[w]) /\ at[w] < code[w] + Step /\ used[code[w]] = Free
       THEN /\ used'     = [used EXCEPT ![code[w]] = at[w] + Hold]
            /\ accepted' = [accepted EXCEPT ![code[w]] = @ + 1]
       ELSE UNCHANGED <<used, accepted>>
  /\ stage' = [stage EXCEPT ![w] = "idle"]
  /\ UNCHANGED <<clock, code, at>>

\* The codes of the previous, the present and the next step are compared; a
\* match is looked up again and marked in the second locked section.
Consume(w) ==
  /\ stage[w] = "verify"
  /\ IF Good(code[w], at[w]) /\ used[code[w]] = Free
       THEN /\ used'     = [used EXCEPT ![code[w]] = at[w] + Hold]
            /\ accepted' = [accepted EXCEPT ![code[w]] = @ + 1]
       ELSE UNCHANGED <<used, accepted>>
  /\ stage' = [stage EXCEPT ![w] = "idle"]
  /\ UNCHANGED <<clock, code, at>>

TotpNext == ClockTick \/ \E w \in Verifiers : Offer(w) \/ Purge(w) \/ Consume(w)

TotpSpec == TotpInit /\ [][TotpNext]_totpVars

-----------------------------------------------------------------------------
\* Types; a used code is held for Hold after the time it was offered.
TotpTypeOK ==
  /\ clock \in Nat
  /\ used \in [Codes -> {t \in Nat : t >= Hold} \cup {Free}]
  /\ stage \in [Verifiers -> {"idle", "purge", "verify"}]
  /\ code \in [Verifiers -> Codes] /\ at \in [Verifiers -> Nat]
  /\ accepted \in [Codes -> Nat]

\* "Strictly reject replay": no code is ever accepted twice, although its entry
\* is purged, two workers verify it at once, and each uses a clock value of its
\* own.
NoReplay == \A c \in Codes : accepted[c] <= 1

\* A code is refused only when it is out of its window or was accepted before.
RefusedForCause ==
  [][\A w \in Verifiers :
       stage[w] # "idle" /\ stage'[w] = "idle" /\ UNCHANGED accepted =>
         ~ Good(code[w], at[w]) \/ accepted[code[w]] > 0]_totpVars
=============================================================================
