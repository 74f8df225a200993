----------------------------- MODULE TokenPromise -----------------------------
(***************************************************************************)
(* The files, the lock and the steps of TokenRotation, seen by the clients:*)
(* the refinement mapping to AuthService.                                  *)
(***************************************************************************)
EXTENDS TokenRotation

CONSTANT Nobody   \* no request, and nothing granted

ASSUME NobodyAssumption ==
  Nobody \notin [barred : SUBSET Token, granted : Token \cup {Nobody}]

\* A request as its client sees it: open from Begin to Finish, granted once the
\* daemon serves the profile or is bound to mint a cookie.
Seen(p) ==
  IF pc[p] \notin (Working \cup Answered) \/ req[p].op \notin {"sub", "login"} THEN Nobody
  ELSE [barred  |-> req[p].barred,
        granted |-> IF pc[p] \in {"served", "mint", "minted"} THEN req[p].cred ELSE Nobody]

Auth == INSTANCE AuthService WITH
          Clients <- Threads, Credentials <- Token,
          current <- Effective, request <- [p \in Threads |-> Seen(p)]

\* To its clients the daemon is AuthService: of files, lock and steps they see
\* only which token is in force, and what is retired for good.
KeepsPromise == Auth!Promise
=============================================================================
