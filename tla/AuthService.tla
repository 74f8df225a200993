----------------------------- MODULE AuthService -----------------------------
(***************************************************************************)
(* What the credential service promises, without files, locks or steps: a  *)
(* credential is in force, some are retired for good, and a request is     *)
(* granted only with a credential that was not yet retired when it came.   *)
(***************************************************************************)
CONSTANTS Clients, Credentials, Nobody

VARIABLES
  current,   \* the credential in force, or a value outside Credentials
  retired,   \* the credentials that can never be in force again
  request    \* per client: Nobody, or the request it waits on

promise == <<current, retired, request>>

Init ==
  /\ retired = {} /\ current \notin retired
  /\ request = [c \in Clients |-> Nobody]

\* A client asks; what is retired now stays barred to this request.
Ask(c) ==
  /\ request[c] = Nobody
  /\ request' = [request EXCEPT ![c] = [barred |-> retired, granted |-> Nobody]]
  /\ UNCHANGED <<current, retired>>

Grant(c, t) ==
  /\ request[c] # Nobody /\ request[c].granted = Nobody
  /\ t \in Credentials \ request[c].barred
  /\ request' = [request EXCEPT ![c] = [barred |-> request[c].barred, granted |-> t]]
  /\ UNCHANGED <<current, retired>>

Done(c) ==
  /\ request[c] # Nobody
  /\ request' = [request EXCEPT ![c] = Nobody]
  /\ UNCHANGED <<current, retired>>

\* Another credential comes into force, never a retired one.
Replace ==
  /\ current' \notin retired
  /\ UNCHANGED <<retired, request>>

\* A rotation completes: credentials other than the one in force are retired.
Retire ==
  /\ retired' \in SUBSET Credentials /\ retired \subseteq retired'
  /\ current \notin retired'
  /\ UNCHANGED <<current, request>>

\* All requests are lost, and a credential is recovered.
Restart ==
  /\ current' \notin retired
  /\ request' = [c \in Clients |-> Nobody]
  /\ UNCHANGED retired

Next ==
  \/ Replace \/ Retire \/ Restart
  \/ \E c \in Clients : Ask(c) \/ Done(c) \/ \E t \in Credentials : Grant(c, t)

Promise == Init /\ [][Next]_promise
=============================================================================
