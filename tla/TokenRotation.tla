---------------------------- MODULE TokenRotation ----------------------------
(***************************************************************************)
(* The bearer credential and the portal sessions of fortress-sub.py.       *)
(*                                                                         *)
(* The token lives in three files: the durable state file, its copy on the *)
(* tmpfs, and a legacy file that is only ever read.  Worker threads read   *)
(* it at the start of a request and use it later; POST /portal/rotate-token*)
(* replaces it under TOKEN_LOCK, one system call after another, and draws  *)
(* a new SESSION_SECRET.  Every system call may fail, the process may die  *)
(* and the machine may lose power between any two of them.                 *)
(*                                                                         *)
(* A token is the number it was drawn with: secrets.token_urlsafe(24) never*)
(* repeats.  SESSION_SECRET is the number of the draw, for the same reason.*)
(***************************************************************************)
EXTENDS Integers, FiniteSets

CONSTANTS
  Threads,      \* request workers of ThreadingMixIn
  Main,         \* the main thread, which reads the token before it serves
  MaxToken,     \* bound: tokens drawn in a behaviour
  MaxSecret,    \* bound: the process starts only while fewer secrets are drawn
  MaxSessions,  \* bound: a login begins only while fewer cookies are issued
  Legacy,       \* content of /etc/fortress/sub_token
  Config,       \* "token" of fortress_config.json, as the installer wrote it
  DirSyncFails  \* whether the fsync of the state directory can fail

None  == 0                     \* no such file
Bad   == -1                    \* a file whose content is not a token
Token == 1..MaxToken
Content == Token \cup {None, Bad}

ASSUME TokenAssumption ==
  /\ MaxToken \in Nat \ {0} /\ MaxSecret \in Nat /\ MaxSessions \in Nat
  /\ Legacy \in {None, 1} /\ Config \in {None, 1}
  /\ Main \notin Threads /\ None \notin Threads \cup {Main}
  /\ DirSyncFails \in BOOLEAN

VARIABLES
  disk,      \* /var/lib/fortress/subscription/sub_token as the kernel shows it
  media,     \* the same file as a power loss would leave it
  ram,       \* /run/fortress/sub_token
  nextToken, \* the next token to draw
  secret,    \* SESSION_SECRET
  lock,      \* the holder of TOKEN_LOCK
  pc,        \* where each thread is
  req,       \* the request each thread serves
  tok,       \* the thread's master_token, or new_token of a rotation
  sessions,  \* the cookies clients hold
  seen,      \* history: tokens that were ever stored
  retired,   \* history: tokens replaced by a rotation that completed
  born       \* history: the first secret drawn after a rotation stored a token

files   == <<disk, media, ram>>
history == <<seen, retired, born>>
vars    == <<files, nextToken, secret, lock, pc, req, tok, sessions, history>>

Procs   == Threads \cup {Main}
Session == [key: Nat, cred: Token]

Ops == {"sub", "portal", "login", "rotate", "main"}
NoSession == [key |-> 0, cred |-> 1]
Request   == [op: Ops, cred: Token, ses: Session, barred: SUBSET Token]
NoRequest == [op |-> "main", cred |-> 1, ses |-> NoSession, barred |-> {}]

Saving    == {"write", "sync", "ram", "swap"}        \* inside TOKEN_LOCK
Answered  == {"served", "minted", "shown", "rotated", "refused", "unavailable"}
Working   == {"read", "check", "mint", "csrf", "lock"} \cup Saving
PC        == {"off", "idle", "serving"} \cup Working \cup Answered

-----------------------------------------------------------------------------
(* What the files mean.                                                     *)

\* The first readable token after the durable file, in the order of the paths.
Fallback ==
  IF ram \in Token THEN ram ELSE IF Legacy \in Token THEN Legacy ELSE Config

\* The token get_or_create_token would return now (None: it would draw one).
Effective == IF disk # None THEN disk ELSE Fallback

\* verify_session_cookie: the signature is under the present secret.
Verified(s) == s.key = secret

-----------------------------------------------------------------------------
Init ==
  /\ disk \in {None, 1} /\ media = disk /\ ram \in {None, 1}
  /\ nextToken = 2 /\ secret = 0 /\ lock = None
  /\ pc  = [p \in Procs |-> IF p = Main THEN "off" ELSE "idle"]
  /\ req = [p \in Procs |-> NoRequest]
  /\ tok = [p \in Procs |-> None]
  /\ sessions = {}
  /\ seen = {1} /\ retired = {}
  /\ born = [t \in Token |-> 0]

Goto(p, label) == pc' = [pc EXCEPT ![p] = label]

\* A process image begins: SESSION_SECRET is drawn, then main() reads the token.
Start ==
  /\ pc[Main] = "off" /\ secret < MaxSecret
  /\ secret' = secret + 1
  /\ Goto(Main, "read")
  /\ UNCHANGED <<files, nextToken, lock, req, tok, sessions, history>>

\* A worker takes a request.  A client offers any token drawn so far and any
\* cookie it holds; barred remembers what was already retired at that moment.
Begin(p) ==
  /\ pc[p] = "idle" /\ pc[Main] = "serving"
  /\ \E op \in {"sub", "login", "portal", "rotate"} :
       \E c \in 1..(nextToken - 1), s \in sessions \cup {NoSession} :
         /\ op \in {"sub", "login"} => s = NoSession
         /\ op = "login" => Cardinality(sessions) < MaxSessions
         /\ op \in {"portal", "rotate"} => c = 1
         /\ req' = [req EXCEPT ![p] =
                     [op |-> op, cred |-> c, ses |-> s, barred |-> retired]]
         /\ Goto(p, IF op = "rotate" THEN "check" ELSE "read")
  /\ UNCHANGED <<files, nextToken, secret, lock, tok, sessions, history>>

\* Mutant: the tmpfs copy is preferred to the durable file.
ReadDurable_RamFirst(p) ==
  /\ pc[p] = "read" /\ lock = None /\ disk \in Token
  /\ tok' = [tok EXCEPT ![p] = IF ram \in Token THEN ram ELSE disk]
  /\ Goto(p, IF p = Main THEN "serving" ELSE "check")
  /\ UNCHANGED <<files, nextToken, secret, lock, req, sessions, history>>

\* get_or_create_token finds a token in the durable file.
ReadDurable(p) ==
  /\ pc[p] = "read" /\ lock = None /\ disk \in Token
  /\ tok' = [tok EXCEPT ![p] = disk]
  /\ Goto(p, IF p = Main THEN "serving" ELSE "check")
  /\ UNCHANGED <<files, nextToken, secret, lock, req, sessions, history>>

\* The durable file holds something else: "refusing stale credentials".
RefuseDurable(p) ==
  /\ pc[p] = "read" /\ lock = None /\ disk = Bad
  /\ Goto(p, IF p = Main THEN "off" ELSE "unavailable")
  /\ UNCHANGED <<files, nextToken, secret, lock, req, tok, sessions, history>>

\* No durable file: another source, or a fresh token, must be saved first.
ReadFallback(p) ==
  /\ pc[p] = "read" /\ lock = None /\ disk = None
  /\ \/ /\ Fallback # None
        /\ tok' = [tok EXCEPT ![p] = Fallback] /\ UNCHANGED nextToken
     \/ /\ Fallback = None /\ nextToken <= MaxToken
        /\ tok' = [tok EXCEPT ![p] = nextToken] /\ nextToken' = nextToken + 1
  /\ lock' = p
  /\ Goto(p, "write")
  /\ UNCHANGED <<files, secret, req, sessions, history>>

\* _atomic_token_write(TOKEN_DISK): the new content replaces the name.
WriteDisk(p) ==
  /\ pc[p] = "write"
  /\ disk' = tok[p] /\ seen' = seen \cup {tok[p]}
  /\ born' = IF req[p].op = "rotate"
               THEN [born EXCEPT ![tok[p]] = secret + 1] ELSE born
  /\ Goto(p, "sync")
  /\ UNCHANGED <<media, ram, nextToken, secret, lock, req, tok, sessions, retired>>

\* Mutant: the directory is not synced after the rename.
SyncDir_Skipped(p) ==
  /\ pc[p] = "sync"
  /\ Goto(p, "ram")
  /\ UNCHANGED <<files, nextToken, secret, lock, req, tok, sessions, history>>

\* ... and the fsync of the directory makes that survive a power loss.
SyncDir(p) ==
  /\ pc[p] = "sync"
  /\ media' = disk
  /\ Goto(p, "ram")
  /\ UNCHANGED <<disk, ram, nextToken, secret, lock, req, tok, sessions, history>>

\* Mutant: the failing path keeps the lock.
SaveFails_KeepsLock(p) ==
  /\ pc[p] = "write" \/ (pc[p] = "sync" /\ DirSyncFails)
  /\ Goto(p, IF p = Main THEN "off" ELSE "unavailable")
  /\ UNCHANGED <<files, nextToken, secret, lock, req, tok, sessions, history>>

\* An OSError of either leaves the lock; the rotation answers 503, any other
\* caller loses its request, the main thread its process.
SaveFails(p) ==
  /\ pc[p] = "write" \/ (pc[p] = "sync" /\ DirSyncFails)
  /\ lock' = None
  /\ Goto(p, IF p = Main THEN "off" ELSE "unavailable")
  /\ UNCHANGED <<files, nextToken, secret, req, tok, sessions, history>>

\* Mutant: the secret is drawn after TOKEN_LOCK is released.
AfterSave_Unlocked(p) ==
  /\ Goto(p, IF req[p].op = "rotate" THEN "swap"
             ELSE IF p = Main THEN "serving" ELSE "check")
  /\ lock' = None

\* The rotation goes on inside the lock; any other caller returns its token.
AfterSave(p) ==
  IF req[p].op = "rotate" THEN /\ Goto(p, "swap") /\ UNCHANGED lock
  ELSE /\ Goto(p, IF p = Main THEN "serving" ELSE "check") /\ lock' = None

\* The refresh of the tmpfs copy, whose failure is ignored.
WriteRam(p) ==
  /\ pc[p] = "ram"
  /\ ram' \in {ram, tok[p]}
  /\ AfterSave(p)
  /\ UNCHANGED <<disk, media, nextToken, secret, req, tok, sessions, history>>

\* "Revoke every existing portal session after credential rotation."
SwapSecret(p) ==
  /\ pc[p] = "swap"
  /\ secret' = secret + 1
  /\ retired' = retired \cup (seen \ {tok[p]})
  /\ lock' = None
  /\ Goto(p, "rotated")
  /\ UNCHANGED <<files, nextToken, req, tok, sessions, seen, born>>

\* GET /sub/<token>: the offered token against the one read before.
CheckSub(p) ==
  /\ pc[p] = "check" /\ req[p].op = "sub"
  /\ Goto(p, IF req[p].cred = tok[p] THEN "served" ELSE "refused")
  /\ UNCHANGED <<files, nextToken, secret, lock, req, tok, sessions, history>>

\* POST /portal/login: the same comparison, then the second factor's answer.
CheckLogin(p) ==
  /\ pc[p] = "check" /\ req[p].op = "login"
  /\ \/ req[p].cred = tok[p] /\ Goto(p, "mint")
     \/ Goto(p, "refused")
  /\ UNCHANGED <<files, nextToken, secret, lock, req, tok, sessions, history>>

\* create_session_cookie signs under the secret of this moment.
Mint(p) ==
  /\ pc[p] = "mint"
  /\ sessions' = sessions \cup {[key |-> secret, cred |-> req[p].cred]}
  /\ Goto(p, "minted")
  /\ UNCHANGED <<files, nextToken, secret, lock, req, tok, history>>

\* GET /portal: a verified cookie is shown the token that was read before.  A
\* cookie older than two hours is refused whatever its signature.
CheckPortal(p) ==
  /\ pc[p] = "check" /\ req[p].op = "portal"
  /\ \/ Verified(req[p].ses) /\ Goto(p, "shown")
     \/ Goto(p, "refused")
  /\ UNCHANGED <<files, nextToken, secret, lock, req, tok, sessions, history>>

\* POST /portal/rotate-token verifies the cookie before it takes any lock,
CheckRotate(p) ==
  /\ pc[p] = "check" /\ req[p].op = "rotate"
  /\ \/ Verified(req[p].ses) /\ Goto(p, "csrf")
     \/ Goto(p, "refused")
  /\ UNCHANGED <<files, nextToken, secret, lock, req, tok, sessions, history>>

\* reads the secret again for the CSRF value, which the dashboard computed under
\* the secret of the cookie, and draws the new token.
CheckCsrf(p) ==
  /\ pc[p] = "csrf"
  /\ \/ /\ Verified(req[p].ses) /\ nextToken <= MaxToken
        /\ tok' = [tok EXCEPT ![p] = nextToken] /\ nextToken' = nextToken + 1
        /\ Goto(p, "lock")
     \/ Goto(p, "refused") /\ UNCHANGED <<tok, nextToken>>
  /\ UNCHANGED <<files, secret, lock, req, sessions, history>>

TakeLock(p) ==
  /\ pc[p] = "lock" /\ lock = None
  /\ lock' = p
  /\ Goto(p, "write")
  /\ UNCHANGED <<files, nextToken, secret, req, tok, sessions, history>>

\* The answer has been sent; the thread ends.
Finish(p) ==
  /\ pc[p] \in Answered
  /\ Goto(p, "idle")
  /\ req' = [req EXCEPT ![p] = NoRequest] /\ tok' = [tok EXCEPT ![p] = None]
  /\ UNCHANGED <<files, nextToken, secret, lock, sessions, history>>

-----------------------------------------------------------------------------
(* What happens to the process and to its files.                            *)

Stop == /\ pc' = [p \in Procs |-> IF p = Main THEN "off" ELSE "idle"]
        /\ lock' = None
        /\ req' = [p \in Procs |-> NoRequest] /\ tok' = [p \in Procs |-> None]

\* The process dies between any two steps; files and cookies remain.
Crash ==
  /\ pc[Main] # "off"
  /\ Stop
  /\ UNCHANGED <<files, nextToken, secret, sessions, history>>

\* fortress-init.sh: migrate the legacy file once, restore the tmpfs copy.
Restored(d) == IF d = None THEN Legacy ELSE d

\* Power is lost: an unsynced rename may or may not have reached the disk, the
\* tmpfs is gone, and fortress-init.sh runs before the services do.
PowerLoss ==
  /\ Stop
  /\ \E d \in {disk, media} :
       /\ media' = d
       /\ disk' = Restored(d)
       /\ ram' = Restored(d)
  /\ UNCHANGED <<nextToken, secret, sessions, history>>

\* The durable file is damaged from outside (a bad sector, a wrong edit).
Damage ==
  /\ lock = None /\ disk \in Token
  /\ disk' = Bad /\ media' = Bad
  /\ UNCHANGED <<ram, nextToken, secret, lock, pc, req, tok, sessions, history>>

Serve(p) ==
  \/ ReadDurable(p) \/ RefuseDurable(p) \/ ReadFallback(p)
  \/ WriteDisk(p) \/ SyncDir(p) \/ SaveFails(p) \/ WriteRam(p) \/ SwapSecret(p)
  \/ CheckSub(p) \/ CheckLogin(p) \/ Mint(p) \/ CheckPortal(p)
  \/ CheckRotate(p) \/ CheckCsrf(p) \/ TakeLock(p) \/ Finish(p)

Next ==
  \/ Start \/ Crash \/ PowerLoss \/ Damage
  \/ \E p \in Threads : Begin(p)
  \/ \E p \in Procs : Serve(p)

Spec == Init /\ [][Next]_vars

\* Threads run to their end: no client and no operator owes a step.
FairSpec == Spec /\ \A p \in Procs : WF_vars(Serve(p))

-----------------------------------------------------------------------------
(* Properties.                                                              *)

\* A thread is inside save_token exactly when it holds TOKEN_LOCK.
HolderSaves == \A p \in Procs : pc[p] \in Saving <=> lock = p

\* Every variable has its type, TOKEN_LOCK has the holder it should have, and
\* whoever is about to store a token has one.
TypeOK ==
  /\ disk \in Content /\ media \in Content /\ ram \in Content
  /\ nextToken \in 1..(MaxToken + 1) /\ secret \in Nat
  /\ lock \in Procs \cup {None}
  /\ pc \in [Procs -> PC] /\ req \in [Procs -> Request]
  /\ tok \in [Procs -> Token \cup {None}]
  /\ sessions \subseteq Session
  /\ seen \subseteq Token /\ retired \subseteq Token
  /\ born \in [Token -> Nat]
  /\ HolderSaves
  /\ \A p \in Procs : pc[p] \in {"lock", "write"} => tok[p] \in Token

\* A token that a completed rotation replaced is never again the one the daemon
\* would use, nor the one a power loss would bring back ("no longer ... reverts
\* to stale boot-restored RAM state").
RetiredStaysRetired ==
  /\ Effective \notin retired
  /\ media \notin retired

\* A request that began after a rotation completed is not granted with a token
\* that rotation replaced, however its read and its use interleave with others.
GrantedWasLive ==
  \A p \in Procs :
    pc[p] \in {"served", "mint", "minted"} => req[p].cred \notin req[p].barred

\* The dashboard never shows a token to a cookie that is older than the rotation
\* that drew this token: rotation revokes the sessions that existed.
ShownTokenNotNewer ==
  \A p \in Procs : pc[p] = "shown" => req[p].ses.key >= born[tok[p]]

\* Every cookie that verifies was bought with a credential still in force.
SessionsRevoked ==
  \A s \in sessions : Verified(s) => s.cred \notin retired

\* Every request is answered, also when a save fails while others wait for the
\* lock.
RequestsAnswered ==
  \A p \in Threads : (pc[p] \in Working) ~> (pc[p] \notin Working)
=============================================================================
