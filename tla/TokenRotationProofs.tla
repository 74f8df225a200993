------------------------- MODULE TokenRotationProofs -------------------------
(***************************************************************************)
(* Theorems about TokenRotation for any set of threads and any bounds:     *)
(* its safety invariants, that it implements AuthService, and that every   *)
(* step of a request brings its answer nearer.                             *)
(***************************************************************************)
EXTENDS TokenPromise, TLAPS

\* Where a rotation carries a token that no file has held yet.
Fresh(p) == pc[p] \in {"lock", "write"} /\ req[p].op = "rotate"

\* Every token in a file, and every retired one, was stored before; what was
\* stored was drawn before.
StoredWasSeen ==
  /\ {disk, media, ram} \cap Token \subseteq seen
  /\ retired \subseteq seen /\ 1 \in seen
  /\ \A t \in seen : t < nextToken
  /\ \A p \in Procs : tok[p] < nextToken

\* A token that waits to be stored by a rotation is new, and nobody else's.
FreshIsNew ==
  /\ \A p \in Procs : pc[p] \in {"csrf", "lock"} => req[p].op = "rotate"
  /\ \A p \in Procs : pc[p] = "read" => req[p].op # "rotate"
  /\ req[Main].op = "main"
  /\ \A p \in Procs : Fresh(p) => tok[p] \notin seen
  /\ \A p, q \in Procs :
       p # q /\ {pc[p], pc[q]} \subseteq {"lock", "write"} => tok[p] # tok[q]

\* What the files hold at each line of save_token.
SaveProgress ==
  \A p \in Procs :
    /\ pc[p] = "write" /\ req[p].op # "rotate" => disk = None
    /\ pc[p] \in {"sync", "ram", "swap"} => disk = tok[p] /\ disk \in Token
    /\ pc[p] \in {"ram", "swap"} => media = tok[p]

\* Once a rotation completed, the durable file exists and is not retired.
DurableInForce ==
  /\ retired # {} => disk # None /\ media # None
  /\ disk \notin retired /\ media \notin retired

\* The token a request carries was not retired when the request began.
CarriedWasLive ==
  \A p \in Procs :
    /\ req[p].barred \subseteq retired
    /\ pc[p] \in {"check"} \cup Saving /\ req[p].op # "rotate"
         => tok[p] \notin req[p].barred

Facts ==
  /\ StoredWasSeen /\ FreshIsNew /\ SaveProgress
  /\ DurableInForce /\ CarriedWasLive /\ GrantedWasLive

\* The inductive invariant.
IInv == TypeOK /\ Facts

-----------------------------------------------------------------------------
LEMMA NoneIsNobody == None \notin Procs
BY TokenAssumption DEF Procs

LEMMA FallbackType == TypeOK => Fallback \in Token \cup {None}
BY TokenAssumption DEF TypeOK, Fallback, Token, Content, None, Bad

USE DEF files, history, vars, Goto, PC, Working, Saving, Answered

LEMMA NoRequestType == NoRequest \in Request /\ NoSession \in Session
BY TokenAssumption DEF NoRequest, NoSession, Request, Session, Ops, Token

LEMMA InitType == Init => TypeOK
<1> SUFFICES ASSUME Init PROVE TypeOK
  OBVIOUS
<1>1. 1 \in Token /\ disk \in Content /\ media \in Content /\ ram \in Content
  BY TokenAssumption DEF Init, Content, Token
<1>2. pc \in [Procs -> PC] /\ HolderSaves
  BY NoneIsNobody DEF Init, Procs, HolderSaves
<1> QED
  BY <1>1, <1>2, NoRequestType, TokenAssumption DEF Init, TypeOK, Token

\* A worker's step keeps the types.
LEMMA ServeType ==
  ASSUME TypeOK, NEW p \in Procs, Serve(p)
  PROVE  TypeOK'
<1> USE TokenAssumption, NoneIsNobody, NoRequestType DEF TypeOK, HolderSaves
<1>0. nextToken <= MaxToken =>
        nextToken \in Token /\ nextToken + 1 \in 1..(MaxToken + 1)
  BY DEF Token
<1>1. CASE ReadDurable(p)
  BY <1>1 DEF ReadDurable
<1>2. CASE RefuseDurable(p)
  BY <1>2 DEF RefuseDurable
<1>3. CASE ReadFallback(p)
  BY <1>3, FallbackType, <1>0 DEF ReadFallback, None
<1>4. CASE WriteDisk(p)
  BY <1>4 DEF WriteDisk, Content, None
<1>5. CASE SyncDir(p)
  BY <1>5 DEF SyncDir
<1>6. CASE SaveFails(p)
  BY <1>6 DEF SaveFails
<1>7. CASE WriteRam(p)
  BY <1>7 DEF WriteRam, AfterSave, Content, None
<1>8. CASE SwapSecret(p)
  BY <1>8 DEF SwapSecret
<1>9. CASE CheckSub(p)
  BY <1>9 DEF CheckSub
<1>10. CASE CheckLogin(p)
  BY <1>10 DEF CheckLogin
<1>11. CASE Mint(p)
  <2>1. [key |-> secret, cred |-> req[p].cred] \in Session
    BY DEF Request, Session
  <2> QED
    BY <1>11, <2>1 DEF Mint
<1>12. CASE CheckPortal(p)
  BY <1>12 DEF CheckPortal
<1>13. CASE CheckRotate(p)
  BY <1>13 DEF CheckRotate
<1>14. CASE CheckCsrf(p)
  BY <1>14, <1>0 DEF CheckCsrf
<1>15. CASE TakeLock(p)
  BY <1>15 DEF TakeLock
<1>16. CASE Finish(p)
  BY <1>16 DEF Finish
<1> QED
  BY <1>1, <1>2, <1>3, <1>4, <1>5, <1>6, <1>7, <1>8, <1>9, <1>10, <1>11, <1>12, <1>13, <1>14, <1>15, <1>16 DEF Serve

LEMMA TypeStep == TypeOK /\ [Next]_vars => TypeOK'
<1> SUFFICES ASSUME TypeOK, [Next]_vars PROVE TypeOK'
  OBVIOUS
<1>1. CASE Start
  BY <1>1, NoneIsNobody DEF Start, TypeOK, HolderSaves, Procs
<1>2. ASSUME NEW p \in Threads, Begin(p) PROVE TypeOK'
  <2>1. PICK r : r \in Request /\ req' = [req EXCEPT ![p] = r]
    <3>1. \A c \in 1..(nextToken - 1) : c \in Token
      BY TokenAssumption DEF TypeOK, Token
    <3>2. PICK op \in {"sub", "login", "portal", "rotate"},
               c \in 1..(nextToken - 1), ses \in sessions \cup {NoSession} :
             req' = [req EXCEPT ![p] = [op |-> op, cred |-> c, ses |-> ses,
                                        barred |-> retired]]
      BY <1>2, ZenonT(60) DEF Begin
    <3>3. [op |-> op, cred |-> c, ses |-> ses, barred |-> retired] \in Request
      BY <3>1, NoRequestType DEF Request, Ops, TypeOK
    <3> QED
      BY <3>2, <3>3
  <2>2. PICK label \in {"check", "read"} : Goto(p, label)
    BY <1>2 DEF Begin
  <2> HIDE DEF Goto
  <2>3. p \in Procs /\ pc' = [pc EXCEPT ![p] = label] /\ pc[p] = "idle"
    BY <1>2, <2>2 DEF Procs, Begin, Goto
  <2>4. UNCHANGED <<disk, media, ram, nextToken, secret, lock, tok, sessions,
                    seen, retired, born>>
    BY <1>2 DEF Begin
  <2> QED
    BY <2>1, <2>3, <2>4 DEF TypeOK, HolderSaves
<1>3. ASSUME NEW p \in Procs, Serve(p) PROVE TypeOK'
  BY <1>3, ServeType
<1>4. ASSUME Stop PROVE /\ pc' \in [Procs -> PC] /\ req' \in [Procs -> Request]
                        /\ tok' \in [Procs -> Token \cup {None}]
                        /\ lock' = None /\ HolderSaves'
                        /\ \A p \in Procs : pc'[p] \notin {"lock", "write"}
  BY <1>4, NoneIsNobody, NoRequestType DEF Stop, HolderSaves
<1>5. CASE Crash
  BY <1>5, <1>4 DEF Crash, TypeOK
<1>6. CASE PowerLoss
  BY <1>6, <1>4, TokenAssumption
     DEF PowerLoss, Restored, TypeOK, Content, Token
<1>7. CASE Damage
  BY <1>7 DEF Damage, TypeOK, Content, HolderSaves
<1>8. CASE UNCHANGED vars
  BY <1>8 DEF TypeOK, HolderSaves
<1> QED
  BY <1>1, <1>2, <1>3, <1>5, <1>6, <1>7, <1>8 DEF Next

\* The types hold in every state: in particular TOKEN_LOCK is held exactly by a
\* thread inside save_token, through failures and crashes.
THEOREM TypeCorrect == Spec => []TypeOK
BY InitType, TypeStep, PTL DEF Spec

-----------------------------------------------------------------------------
\* A step of a thread keeps the facts, given that it keeps the types.
LEMMA ServeInv ==
  ASSUME IInv, NEW p \in Procs, Serve(p), TypeOK'
  PROVE  Facts'
<1> USE TokenAssumption, NoneIsNobody
    DEF IInv, Facts, TypeOK, HolderSaves, StoredWasSeen, FreshIsNew, Fresh,
        SaveProgress, DurableInForce, CarriedWasLive, GrantedWasLive,
        Token, Content, None, Bad
<1>1. CASE ReadDurable(p)
  <2>1. StoredWasSeen' /\ FreshIsNew' /\ SaveProgress' /\ DurableInForce'
    BY <1>1 DEF ReadDurable
  <2>2. disk \in Token /\ disk \notin retired /\ tok'[p] = disk
    BY <1>1 DEF ReadDurable
  <2>3. CarriedWasLive'
    BY <1>1, <2>2 DEF ReadDurable
  <2>4. GrantedWasLive'
    BY <1>1 DEF ReadDurable
  <2> QED
    BY <2>1, <2>3, <2>4
<1>2. CASE RefuseDurable(p)
  BY <1>2 DEF RefuseDurable
<1>3. CASE ReadFallback(p)
  <2>1. /\ lock = None /\ disk = None /\ retired = {} /\ pc[p] = "read"
        /\ pc' = [pc EXCEPT ![p] = "write"]
        /\ UNCHANGED <<files, req, seen, retired>>
    BY <1>3 DEF ReadFallback
  <2>2. PICK t \in Token :
          /\ tok' = [tok EXCEPT ![p] = t]
          /\ (t \in seen \/ t = nextToken)
          /\ t < nextToken' /\ nextToken <= nextToken'
    BY <1>3, FallbackType DEF ReadFallback, Fallback
  <2>3. \A q \in Procs : pc[q] # "write"
    BY <2>1
  <2>4. StoredWasSeen'
    <3>1. ASSUME NEW q \in Procs PROVE tok'[q] < nextToken'
      <4>1. CASE q = p
        BY <4>1, <2>2
      <4>2. CASE q # p
        <5>1. tok'[q] = tok[q] /\ tok[q] < nextToken
          BY <4>2, <2>2
        <5>2. tok[q] \in Int /\ nextToken \in Int /\ nextToken' \in Int
          OBVIOUS
        <5> QED
          BY <5>1, <5>2, <2>2
      <4> QED
        BY <4>1, <4>2
    <3>2. \A u \in seen' : u < nextToken'
      BY <2>1, <2>2
    <3> QED
      BY <2>1, <3>1, <3>2
  <2>5. FreshIsNew'
    <3>1. \A q \in Procs : pc[q] = "lock" => tok[q] # t
      BY <2>2
    <3>2. \A q \in Procs : Fresh(q)' => tok'[q] \notin seen'
      BY <2>1, <2>2
    <3>3. \A q, r \in Procs :
            q # r /\ {pc'[q], pc'[r]} \subseteq {"lock", "write"} => tok'[q] # tok'[r]
      BY <2>1, <2>2, <2>3, <3>1
    <3> QED
      BY <2>1, <3>2, <3>3
  <2>6. SaveProgress'
    BY <2>1, <2>2
  <2>7. DurableInForce' /\ CarriedWasLive' /\ GrantedWasLive'
    BY <2>1, <2>2
  <2> QED
    BY <2>4, <2>5, <2>6, <2>7
<1>4. CASE WriteDisk(p)
  BY <1>4 DEF WriteDisk
<1>5. CASE SyncDir(p)
  BY <1>5 DEF SyncDir
<1>6. CASE SaveFails(p)
  BY <1>6, SMTT(30) DEF SaveFails
<1>7. CASE WriteRam(p)
  <2>1. /\ pc[p] = "ram" /\ ram' \in {ram, tok[p]} /\ tok[p] = disk
        /\ UNCHANGED <<disk, media, nextToken, req, tok, seen, retired>>
    BY <1>7 DEF WriteRam
  <2>2. PICK label \in {"swap", "serving", "check"} :
          /\ pc' = [pc EXCEPT ![p] = label]
          /\ label = "check" => req[p].op # "rotate"
    BY <1>7 DEF WriteRam, AfterSave
  <2>3. StoredWasSeen' /\ FreshIsNew'
    BY <2>1, <2>2
  <2>4. SaveProgress' /\ DurableInForce'
    BY <2>1, <2>2
  <2>5. CarriedWasLive' /\ GrantedWasLive'
    BY <2>1, <2>2
  <2> QED
    BY <2>3, <2>4, <2>5
<1>8. CASE SwapSecret(p)
  BY <1>8 DEF SwapSecret
<1>9. CASE CheckSub(p)
  BY <1>9 DEF CheckSub
<1>10. CASE CheckLogin(p)
  BY <1>10 DEF CheckLogin
<1>11. CASE Mint(p)
  BY <1>11 DEF Mint
<1>12. CASE CheckPortal(p)
  BY <1>12 DEF CheckPortal
<1>13. CASE CheckRotate(p)
  BY <1>13 DEF CheckRotate
<1>14. CASE CheckCsrf(p)
  <2>1. CASE Goto(p, "refused") /\ UNCHANGED <<tok, nextToken>>
    BY <1>14, <2>1 DEF CheckCsrf
  <2>2. CASE /\ tok' = [tok EXCEPT ![p] = nextToken] /\ nextToken' = nextToken + 1
             /\ nextToken <= MaxToken /\ Goto(p, "lock")
    <3>1. pc[p] = "csrf" /\ UNCHANGED <<files, secret, lock, req, seen, retired>>
      BY <1>14 DEF CheckCsrf
    <3>2. StoredWasSeen'
      BY <2>2, <3>1, SMTT(30)
    <3>3. nextToken \notin seen /\ \A q \in Procs : tok[q] # nextToken
      BY <2>2
    <3>4. FreshIsNew'
      BY <2>2, <3>1, <3>3
    <3>5. SaveProgress' /\ DurableInForce'
      BY <2>2, <3>1
    <3>6. CarriedWasLive' /\ GrantedWasLive'
      BY <2>2, <3>1
    <3> QED
      BY <3>2, <3>4, <3>5, <3>6
  <2> QED
    BY <1>14, <2>1, <2>2 DEF CheckCsrf
<1>15. CASE TakeLock(p)
  <2>1. StoredWasSeen' /\ DurableInForce'
    BY <1>15 DEF TakeLock
  <2>2. FreshIsNew'
    BY <1>15 DEF TakeLock
  <2>3. SaveProgress'
    BY <1>15 DEF TakeLock
  <2>4. CarriedWasLive' /\ GrantedWasLive'
    BY <1>15 DEF TakeLock
  <2> QED
    BY <2>1, <2>2, <2>3, <2>4
<1>16. CASE Finish(p)
  BY <1>16 DEF Finish, NoRequest
<1> QED
  BY <1>1, <1>2, <1>3, <1>4, <1>5, <1>6, <1>7, <1>8, <1>9, <1>10, <1>11, <1>12, <1>13, <1>14, <1>15, <1>16 DEF Serve

LEMMA InvInit == Init => IInv
<1> SUFFICES ASSUME Init PROVE IInv
  OBVIOUS
<1>1. TypeOK
  BY InitType
<1>2. StoredWasSeen
  BY TokenAssumption DEF Init, StoredWasSeen, Token, None
<1>3. FreshIsNew /\ SaveProgress /\ DurableInForce /\ CarriedWasLive /\ GrantedWasLive
  BY TokenAssumption
     DEF Init, FreshIsNew, Fresh, SaveProgress, DurableInForce, CarriedWasLive,
         GrantedWasLive, NoRequest, Procs
<1> QED
  BY <1>1, <1>2, <1>3 DEF IInv, Facts

LEMMA InvStep == IInv /\ [Next]_vars => IInv'
<1> SUFFICES ASSUME IInv, [Next]_vars PROVE Facts'
  BY TypeStep DEF IInv, Facts
<1> USE DEF IInv, Facts
<1>1. TypeOK'
  BY TypeStep
<1>2. CASE Start
  BY <1>2, TokenAssumption
     DEF Start, TypeOK, StoredWasSeen, FreshIsNew, Fresh, SaveProgress,
         DurableInForce, CarriedWasLive, GrantedWasLive, Procs
<1>3. ASSUME NEW p \in Threads, Begin(p) PROVE Facts'
  <2>1. PICK op \in {"sub", "login", "portal", "rotate"},
             c \in 1..(nextToken - 1), ses \in sessions \cup {NoSession} :
          /\ req' = [req EXCEPT ![p] = [op |-> op, cred |-> c, ses |-> ses,
                                        barred |-> retired]]
          /\ Goto(p, IF op = "rotate" THEN "check" ELSE "read")
    BY <1>3 DEF Begin
  <2>2. /\ p \in Procs /\ p # Main /\ pc[p] = "idle"
        /\ UNCHANGED <<files, nextToken, lock, tok, seen, retired>>
    BY <1>3, TokenAssumption DEF Begin, Procs
  <2> QED
    BY <2>1, <2>2
       DEF TypeOK, StoredWasSeen, FreshIsNew, Fresh, SaveProgress,
           DurableInForce, CarriedWasLive, GrantedWasLive, Procs
<1>4. ASSUME NEW p \in Procs, Serve(p) PROVE Facts'
  BY <1>1, <1>4, ServeInv
<1>5. ASSUME Stop
      PROVE  /\ \A p \in Procs : tok'[p] = None
             /\ FreshIsNew' /\ SaveProgress' /\ CarriedWasLive' /\ GrantedWasLive'
  BY <1>5 DEF Stop, FreshIsNew, Fresh, SaveProgress, CarriedWasLive,
              GrantedWasLive, NoRequest, Procs
<1>6. CASE Crash
  <2>1. StoredWasSeen' /\ DurableInForce'
    BY <1>1, <1>5, <1>6 DEF Crash, StoredWasSeen, DurableInForce, TypeOK, None
  <2> QED
    BY <2>1, <1>5, <1>6 DEF Crash
<1>7. CASE PowerLoss
  <2>1. PICK d \in {disk, media} :
          media' = d /\ disk' = Restored(d) /\ ram' = Restored(d)
    BY <1>7 DEF PowerLoss
  <2>2. Restored(d) = d \/ (retired = {} /\ Restored(d) \in {None, 1})
    BY <2>1, TokenAssumption DEF Restored, DurableInForce
  <2>3. UNCHANGED <<nextToken, seen, retired>> /\ Stop
    BY <1>7 DEF PowerLoss
  <2>4. StoredWasSeen'
    BY <1>1, <1>5, <2>1, <2>2, <2>3 DEF StoredWasSeen, TypeOK, None, Token
  <2>5. DurableInForce'
    BY <2>1, <2>2, <2>3 DEF DurableInForce
  <2> QED
    BY <1>5, <2>3, <2>4, <2>5
<1>8. CASE Damage
  <2>1. /\ lock = None /\ disk' = Bad /\ media' = Bad
        /\ UNCHANGED <<ram, nextToken, pc, req, tok, seen, retired>>
    BY <1>8 DEF Damage
  <2>2. Bad \notin Token /\ Bad # None /\ Bad \notin retired
    BY DEF Bad, Token, None, TypeOK
  <2>3. StoredWasSeen' /\ DurableInForce'
    BY <2>1, <2>2 DEF StoredWasSeen, DurableInForce
  <2>4. \A p \in Procs : pc[p] \notin Saving
    BY <2>1, NoneIsNobody DEF TypeOK, HolderSaves
  <2>5. SaveProgress'
    BY <2>1, <2>4 DEF SaveProgress
  <2> QED
    BY <2>1, <2>3, <2>5 DEF FreshIsNew, Fresh, CarriedWasLive, GrantedWasLive
<1>9. CASE UNCHANGED vars
  BY <1>9 DEF StoredWasSeen, FreshIsNew, Fresh, SaveProgress, DurableInForce,
              CarriedWasLive, GrantedWasLive
<1> QED
  BY <1>2, <1>3, <1>4, <1>6, <1>7, <1>8, <1>9 DEF Next

\* A token that a completed rotation replaced is never in force again and never
\* what a power loss brings back, whatever fails, crashes or interleaves.
THEOREM RetiredForGood == Spec => []RetiredStaysRetired
<1>1. IInv => RetiredStaysRetired
  BY DEF IInv, Facts, DurableInForce, RetiredStaysRetired, Effective
<1> QED
  BY <1>1, InvInit, InvStep, PTL DEF Spec

\* A request is granted only with a token that was not retired when it began.
THEOREM GrantsAreLive == Spec => []GrantedWasLive
<1>1. IInv => GrantedWasLive
  BY DEF IInv, Facts
<1> QED
  BY <1>1, InvInit, InvStep, PTL DEF Spec

-----------------------------------------------------------------------------
(* What the dashboard shows.  If the sync of the directory cannot fail, a      *)
(* rotation that put a token in force always goes on to draw the new secret.   *)

\* A rotation of t that stored it and has not yet drawn the new secret.
Rotating(t) ==
  \E p \in Procs : pc[p] \in {"sync", "ram", "swap"} /\ req[p].op = "rotate" /\ tok[p] = t

\* No token is in the hands of a request before the secret it was born with: only
\* the one being rotated in is ahead, or one whose rotation the process's end cut.
BornInTime ==
  /\ pc[Main] \in {"off", "read", "write", "sync", "ram", "serving"}
  /\ pc[Main] # "serving" => \A p \in Threads : pc[p] = "idle"
  /\ \A t \in Token : born[t] <= secret + 1
  /\ pc[Main] # "off" => \A t \in Token : born[t] <= secret \/ Rotating(t)
  /\ \A p \in Procs :
       /\ pc[p] = "check" /\ req[p].op # "rotate" => tok[p] \in seen /\ born[tok[p]] <= secret
       /\ pc[p] = "shown" => tok[p] \in seen
  /\ ShownTokenNotNewer

LEMMA BornInit == Init => BornInTime
<1> SUFFICES ASSUME Init PROVE BornInTime
  OBVIOUS
<1>1. \A p \in Procs : pc[p] \in {"off", "idle"}
  BY DEF Init
<1> QED
  BY <1>1, TokenAssumption DEF Init, BornInTime, ShownTokenNotNewer, Procs, Token

\* A thread's step keeps what requests hold in time.
LEMMA ServeBorn ==
  ASSUME IInv, IInv', BornInTime, ~ DirSyncFails, NEW p \in Procs, Serve(p)
  PROVE  BornInTime'
<1> USE TokenAssumption, NoneIsNobody
    DEF IInv, Facts, TypeOK, HolderSaves, BornInTime, ShownTokenNotNewer, Rotating, Procs
<1>1. pc[Main] # "off"
  BY DEF Serve, ReadDurable, RefuseDurable, ReadFallback, WriteDisk, SyncDir, SaveFails,
         WriteRam, SwapSecret, CheckSub, CheckLogin, Mint, CheckPortal, CheckRotate,
         CheckCsrf, TakeLock, Finish
<1>2. lock = None => \A t \in Token : born[t] <= secret
  BY <1>1
<1>3. CASE ReadDurable(p)
  BY <1>2, <1>3 DEF ReadDurable, StoredWasSeen
<1>4. CASE RefuseDurable(p)
  BY <1>4 DEF RefuseDurable
<1>5. CASE ReadFallback(p)
  BY <1>5 DEF ReadFallback
<1>6. CASE WriteDisk(p)
  BY <1>6 DEF WriteDisk, FreshIsNew, Fresh
<1>7. CASE SyncDir(p)
  BY <1>7 DEF SyncDir
<1>8. CASE SaveFails(p)
  BY <1>8 DEF SaveFails
<1>9. CASE WriteRam(p)
  <2>1. /\ pc[p] = "ram" /\ lock = p /\ disk = tok[p] /\ disk \in Token /\ tok[p] \in seen
        /\ UNCHANGED <<secret, req, tok, sessions, seen, born>>
    BY <1>9 DEF WriteRam, SaveProgress, StoredWasSeen
  <2>2. CASE req[p].op = "rotate"
    <3>1. pc' = [pc EXCEPT ![p] = "swap"]
      BY <1>9, <2>2 DEF WriteRam, AfterSave
    <3>2. p # Main
      BY <2>2 DEF FreshIsNew
    <3> QED
      BY <2>1, <3>1, <3>2
  <2>3. CASE req[p].op # "rotate"
    <3>1. pc' = [pc EXCEPT ![p] = IF p = Main THEN "serving" ELSE "check"]
      BY <1>9, <2>3 DEF WriteRam, AfterSave
    <3>2. \A t \in Token : ~ Rotating(t)
      BY <2>1, <2>3
    <3>3. \A t \in Token : born[t] <= secret
      BY <1>1, <3>2
    <3> QED
      BY <2>1, <3>1, <3>3
  <2> QED
    BY <2>2, <2>3
<1>10. CASE SwapSecret(p)
  BY <1>10 DEF SwapSecret
<1>11. CASE CheckSub(p)
  BY <1>11 DEF CheckSub
<1>12. CASE CheckLogin(p)
  BY <1>12 DEF CheckLogin
<1>13. CASE Mint(p)
  BY <1>13 DEF Mint
<1>14. CASE CheckPortal(p)
  BY <1>14 DEF CheckPortal, Verified
<1>15. CASE CheckRotate(p)
  BY <1>15 DEF CheckRotate
<1>16. CASE CheckCsrf(p)
  BY <1>16 DEF CheckCsrf
<1>17. CASE TakeLock(p)
  BY <1>17 DEF TakeLock
<1>18. CASE Finish(p)
  BY <1>18 DEF Finish
<1> QED
  BY <1>3, <1>4, <1>5, <1>6, <1>7, <1>8, <1>9, <1>10, <1>11, <1>12, <1>13, <1>14, <1>15, <1>16, <1>17, <1>18 DEF Serve

LEMMA BornStep ==
  ASSUME ~ DirSyncFails
  PROVE  IInv /\ IInv' /\ BornInTime /\ [Next]_vars => BornInTime'
<1> SUFFICES ASSUME IInv, IInv', BornInTime, [Next]_vars PROVE BornInTime'
  OBVIOUS
<1> USE TokenAssumption, NoneIsNobody
    DEF IInv, TypeOK, HolderSaves, BornInTime, ShownTokenNotNewer, Rotating, Procs
<1>1. CASE Start
  BY <1>1 DEF Start
<1>2. ASSUME NEW p \in Threads, Begin(p) PROVE BornInTime'
  BY <1>2 DEF Begin
<1>3. ASSUME NEW p \in Procs, Serve(p) PROVE BornInTime'
  BY <1>3, ServeBorn
<1>4. CASE Crash
  BY <1>4 DEF Crash, Stop
<1>5. CASE PowerLoss
  BY <1>5 DEF PowerLoss, Stop
<1>6. CASE Damage
  BY <1>6 DEF Damage
<1>7. CASE UNCHANGED vars
  BY <1>7
<1> QED
  BY <1>1, <1>2, <1>3, <1>4, <1>5, <1>6, <1>7 DEF Next

\* As long as the sync of the state directory does not fail, the dashboard never
\* shows a token to a cookie older than the rotation that drew it, whatever
\* crashes between the storing of a token and the drawing of the secret.
THEOREM DashboardShowsOld ==
  ASSUME ~ DirSyncFails
  PROVE  Spec => []ShownTokenNotNewer
<1>1. IInv /\ IInv' /\ BornInTime /\ [Next]_vars => BornInTime'
  BY BornStep
<1>2. BornInTime => ShownTokenNotNewer
  BY DEF BornInTime
<1> QED
  BY <1>1, <1>2, InvInit, InvStep, BornInit, PTL DEF Spec

-----------------------------------------------------------------------------
(* The refinement of AuthService.                                             *)

LEMMA SeenType ==
  ASSUME TypeOK, NEW p \in Threads
  PROVE  Seen(p) = Nobody \/ (Seen(p) # Nobody /\ Seen(p).barred = req[p].barred)
<1>1. p \in Procs /\ req[p].barred \in SUBSET Token /\ req[p].cred \in Token
  BY DEF TypeOK, Procs, Request
<1> DEFINE r == [barred  |-> req[p].barred,
                 granted |-> IF pc[p] \in {"served", "mint", "minted"} THEN req[p].cred ELSE Nobody]
<1>2. r \in [barred : SUBSET Token, granted : Token \cup {Nobody}]
  BY <1>1
<1>3. r # Nobody /\ r.barred = req[p].barred
  BY <1>2, NobodyAssumption
<1>4. Seen(p) = Nobody \/ Seen(p) = r
  BY DEF Seen
<1> QED
  BY <1>3, <1>4

LEMMA PromiseInit == Init => Auth!Init
<1> SUFFICES ASSUME Init PROVE Auth!Init
  OBVIOUS
<1>1. \A p \in Threads : pc[p] = "idle"
  BY TokenAssumption DEF Init, Procs
<1>2. \A p \in Threads : Seen(p) = Nobody
  BY <1>1 DEF Seen
<1> QED
  BY <1>2 DEF Init, Auth!Init

\* Steps that no client sees, but for the token that comes into force.
LEMMA Unseen ==
  ASSUME IInv', UNCHANGED retired, \A p \in Threads : Seen(p)' = Seen(p)
  PROVE  Auth!Next
<1>1. Effective' \notin retired
  BY DEF IInv, Facts, DurableInForce, Effective
<1> QED
  BY <1>1 DEF Auth!Next, Auth!Replace

\* A client's request ends, is begun or granted, and nothing else is seen.
LEMMA OneSees ==
  ASSUME NEW p \in Threads, pc' = [pc EXCEPT ![p] = pc'[p]], req' = [req EXCEPT ![p] = req'[p]],
         TypeOK
  PROVE  [q \in Threads |-> Seen(q)]' = [[q \in Threads |-> Seen(q)] EXCEPT ![p] = Seen(p)']
<1>1. \A q \in Threads : q # p => pc'[q] = pc[q] /\ req'[q] = req[q]
  BY DEF TypeOK, Procs
<1>2. \A q \in Threads : q # p => Seen(q)' = Seen(q)
  BY <1>1 DEF Seen
<1> QED
  BY <1>2

\* A granted request: the credential was live when the request came.
LEMMA GrantSeen ==
  ASSUME IInv, IInv', NEW p \in Procs, CheckSub(p) \/ CheckLogin(p),
         pc'[p] \in {"served", "mint"}
  PROVE  Auth!Next
<1>1. /\ pc[p] = "check" /\ req' = req /\ retired' = retired /\ UNCHANGED files
      /\ pc' = [pc EXCEPT ![p] = pc'[p]] /\ req[p].op \in {"sub", "login"}
  BY DEF CheckSub, CheckLogin, IInv, TypeOK
<1>2. p \in Threads
  BY <1>1 DEF IInv, Facts, FreshIsNew, Procs
<1>3. req[p].cred \in Token \ req[p].barred
  BY <1>1 DEF IInv, Facts, TypeOK, GrantedWasLive, Request
<1>4. /\ Seen(p) = [barred |-> req[p].barred, granted |-> Nobody]
      /\ Seen(p)' = [barred |-> req[p].barred, granted |-> req[p].cred]
  BY <1>1 DEF Seen
<1>5. Seen(p) # Nobody
  BY <1>2, <1>4, SeenType, NobodyAssumption DEF IInv, TypeOK, Procs, Request
<1>6. [q \in Threads |-> Seen(q)][p] = Seen(p)
  BY <1>2
<1>7. [q \in Threads |-> Seen(q)]' = [[q \in Threads |-> Seen(q)] EXCEPT ![p] = Seen(p)']
  <2>1. req' = [req EXCEPT ![p] = req'[p]] /\ TypeOK
    BY <1>1 DEF IInv, TypeOK
  <2> QED
    BY <1>1, <1>2, <2>1, OneSees
<1>8. Effective' = Effective
  BY <1>1 DEF Effective, Fallback
<1>9. Auth!Grant(p, req[p].cred)
  <2>1. [q \in Threads |-> Seen(q)][p].barred = req[p].barred
        /\ [q \in Threads |-> Seen(q)][p].granted = Nobody
        /\ [q \in Threads |-> Seen(q)][p] # Nobody
    BY <1>4, <1>5, <1>6
  <2>2. [q \in Threads |-> Seen(q)]' =
          [[q \in Threads |-> Seen(q)] EXCEPT ![p] =
             [barred |-> [q \in Threads |-> Seen(q)][p].barred, granted |-> req[p].cred]]
    BY <1>4, <1>7, <2>1
  <2> HIDE DEF Seen
  <2> QED
    BY <1>1, <1>3, <1>8, <2>1, <2>2 DEF Auth!Grant
<1> QED
  BY <1>2, <1>3, <1>9 DEF Auth!Next

\* The answer of a request is sent.
LEMMA FinishSeen ==
  ASSUME IInv, IInv', NEW p \in Procs, Finish(p)
  PROVE  Auth!Next
<1>1. /\ pc' = [pc EXCEPT ![p] = pc'[p]] /\ req' = [req EXCEPT ![p] = req'[p]]
      /\ pc'[p] = "idle" /\ retired' = retired /\ UNCHANGED files
  BY DEF Finish, IInv, TypeOK
<1>2. CASE p \in Threads /\ Seen(p) # Nobody
  <2>1. Seen(p)' = Nobody
    BY <1>1 DEF Seen
  <2>2. [q \in Threads |-> Seen(q)]' = [[q \in Threads |-> Seen(q)] EXCEPT ![p] = Nobody]
    BY <1>1, <1>2, <2>1, OneSees DEF IInv
  <2>3. [q \in Threads |-> Seen(q)][p] # Nobody
    BY <1>2
  <2>4. Effective' = Effective
    BY <1>1 DEF Effective, Fallback
  <2>5. Auth!Done(p)
    BY <1>1, <2>2, <2>3, <2>4 DEF Auth!Done
  <2> QED
    BY <1>2, <2>5 DEF Auth!Next
<1>3. CASE ~ (p \in Threads /\ Seen(p) # Nobody)
  <2>1. ASSUME NEW q \in Threads PROVE Seen(q)' = Seen(q)
    <3>1. CASE q = p
      BY <1>1, <1>3, <3>1 DEF Seen
    <3>2. CASE q # p
      BY <1>1, <3>2 DEF Seen, IInv, TypeOK, Procs
    <3> QED
      BY <3>1, <3>2
  <2> QED
    BY <1>1, <2>1, Unseen
<1> QED
  BY <1>2, <1>3

LEMMA ServePromise ==
  ASSUME IInv, IInv', NEW p \in Procs, Serve(p)
  PROVE  Auth!Next
<1>1. CASE SwapSecret(p)
  <2>1. /\ pc[p] = "swap" /\ pc' = [pc EXCEPT ![p] = "rotated"] /\ req' = req /\ UNCHANGED files
        /\ retired \subseteq retired'
    BY <1>1 DEF SwapSecret
  <2>2. \A q \in Threads : Seen(q)' = Seen(q)
    BY <2>1 DEF Seen, IInv, TypeOK
  <2>3. Effective \notin retired' /\ Effective' = Effective /\ retired' \in SUBSET Token
    BY <2>1 DEF IInv, Facts, TypeOK, DurableInForce, Effective, Fallback
  <2> QED
    BY <2>1, <2>2, <2>3 DEF Auth!Next, Auth!Retire
<1>2. CASE Finish(p)
  BY <1>2, FinishSeen
<1>3. CASE (CheckSub(p) \/ CheckLogin(p)) /\ pc'[p] \in {"served", "mint"}
  BY <1>3, GrantSeen
<1>4. CASE ~ SwapSecret(p) /\ ~ Finish(p)
           /\ ~ ((CheckSub(p) \/ CheckLogin(p)) /\ pc'[p] \in {"served", "mint"})
  <2>1. /\ retired' = retired /\ req' = req
        /\ \A q \in Procs : q # p => pc'[q] = pc[q]
        /\ p \in Threads => Seen(p)' = Seen(p)
    <3> USE DEF Seen, IInv, TypeOK
    <3>1. CASE ReadDurable(p)
      BY <3>1, TokenAssumption DEF ReadDurable
    <3>2. CASE RefuseDurable(p)
      BY <3>2, TokenAssumption DEF RefuseDurable
    <3>3. CASE ReadFallback(p)
      BY <3>3 DEF ReadFallback
    <3>4. CASE WriteDisk(p)
      BY <3>4 DEF WriteDisk
    <3>5. CASE SyncDir(p)
      BY <3>5 DEF SyncDir
    <3>6. CASE SaveFails(p)
      BY <3>6, TokenAssumption DEF SaveFails
    <3>7. CASE WriteRam(p)
      BY <3>7, TokenAssumption DEF WriteRam, AfterSave
    <3>8. CASE CheckSub(p) \/ CheckLogin(p)
      BY <1>4, <3>8 DEF CheckSub, CheckLogin
    <3>9. CASE Mint(p)
      BY <3>9 DEF Mint
    <3>10. CASE CheckPortal(p)
      BY <3>10 DEF CheckPortal
    <3>11. CASE CheckRotate(p)
      BY <3>11 DEF CheckRotate
    <3>12. CASE CheckCsrf(p)
      BY <3>12 DEF CheckCsrf
    <3>13. CASE TakeLock(p)
      BY <3>13 DEF TakeLock
    <3> QED
      BY <1>4, <3>1, <3>2, <3>3, <3>4, <3>5, <3>6, <3>7, <3>8, <3>9, <3>10, <3>11, <3>12, <3>13
         DEF Serve
  <2>2. \A q \in Threads : Seen(q)' = Seen(q)
    BY <2>1 DEF Seen, Procs
  <2> QED
    BY <2>1, <2>2, Unseen
<1> QED
  BY <1>1, <1>2, <1>3, <1>4

LEMMA PromiseStep == IInv /\ IInv' /\ [Next]_vars => [Auth!Next]_(Auth!promise)
<1> SUFFICES ASSUME IInv, IInv', Next PROVE Auth!Next
  BY DEF Auth!promise, Seen, Effective, Fallback
<1>1. CASE Start
  <2>1. \A q \in Threads : Seen(q)' = Seen(q)
    BY <1>1, TokenAssumption DEF Start, Seen, IInv, TypeOK, Procs
  <2> QED
    BY <1>1, <2>1, Unseen DEF Start
<1>2. ASSUME NEW p \in Threads, Begin(p) PROVE Auth!Next
  <2>1. PICK op \in {"sub", "login", "portal", "rotate"},
             c \in 1..(nextToken - 1), ses \in sessions \cup {NoSession} :
          /\ req' = [req EXCEPT ![p] = [op |-> op, cred |-> c, ses |-> ses,
                                        barred |-> retired]]
          /\ Goto(p, IF op = "rotate" THEN "check" ELSE "read")
    BY <1>2 DEF Begin
  <2>2. /\ p \in Procs /\ pc[p] = "idle" /\ UNCHANGED <<files, retired>>
        /\ pc' = [pc EXCEPT ![p] = IF op = "rotate" THEN "check" ELSE "read"]
    BY <1>2, <2>1 DEF Begin, Procs
  <2>3. Seen(p) = Nobody
    BY <2>2 DEF Seen
  <2>4. [q \in Threads |-> Seen(q)]' = [[q \in Threads |-> Seen(q)] EXCEPT ![p] = Seen(p)']
    BY <2>1, <2>2, OneSees DEF IInv, TypeOK
  <2>5. CASE op \in {"sub", "login"}
    <3>1. Seen(p)' = [barred |-> retired, granted |-> Nobody]
      BY <2>1, <2>2, <2>5 DEF Seen, IInv, TypeOK
    <3>2. Auth!Ask(p)
      BY <2>2, <2>3, <2>4, <3>1 DEF Auth!Ask, Effective, Fallback
    <3> QED
      BY <3>2 DEF Auth!Next
  <2>6. CASE op \notin {"sub", "login"}
    <3>1. Seen(p)' = Nobody
      BY <2>1, <2>2, <2>6 DEF Seen, IInv, TypeOK
    <3>2. \A q \in Threads : Seen(q)' = Seen(q)
      BY <2>1, <2>2, <2>3, <3>1 DEF Seen, IInv, TypeOK
    <3> QED
      BY <2>2, <3>2, Unseen
  <2> QED
    BY <2>5, <2>6
<1>3. ASSUME NEW p \in Procs, Serve(p) PROVE Auth!Next
  BY <1>3, ServePromise
<1>4. CASE Crash \/ PowerLoss
  <2>1. \A q \in Threads : Seen(q)' = Nobody
    BY <1>4, TokenAssumption DEF Crash, PowerLoss, Stop, Seen, Procs
  <2>2. Effective' \notin retired /\ retired' = retired
    BY <1>4 DEF Crash, PowerLoss, IInv, Facts, DurableInForce, Effective
  <2> QED
    BY <2>1, <2>2 DEF Auth!Next, Auth!Restart
<1>5. CASE Damage
  <2>1. \A q \in Threads : Seen(q)' = Seen(q)
    BY <1>5 DEF Damage, Seen
  <2> QED
    BY <1>5, <2>1, Unseen DEF Damage
<1> QED
  BY <1>1, <1>2, <1>3, <1>4, <1>5 DEF Next

\* TokenRotation implements AuthService: whatever the threads, the failures of the
\* system calls, the crashes and the power losses do, its clients see a service
\* with one credential in force, that retires for good and grants accordingly.
THEOREM PromiseKept == Spec => KeepsPromise
BY InvInit, InvStep, PromiseInit, PromiseStep, PTL DEF Spec, KeepsPromise, Auth!Promise

-----------------------------------------------------------------------------
(* What can be proved of the answers: a request takes a bounded number of steps, *)
(* and whoever it waits for can go on.                                           *)

\* The steps a request has at most before it is answered.
StepsLeft(p) ==
  LET left == IF req[p].op = "rotate"
                THEN [check |-> 8, csrf |-> 7, lock |-> 6, write |-> 5, sync |-> 4, ram |-> 3,
                      swap |-> 2, read |-> 9, mint |-> 1]
                ELSE [csrf |-> 9, lock |-> 8, read |-> 7, write |-> 6, sync |-> 5, ram |-> 4,
                      check |-> 3, mint |-> 2, swap |-> 1]
  IN  IF pc[p] \in Working THEN left[pc[p]] ELSE 0

\* Whatever happens, no request gets further from its answer, and each of its own steps
\* brings it nearer.
Nearer ==
  \A p \in Procs : pc[p] \in Working =>
    /\ StepsLeft(p)' <= StepsLeft(p)
    /\ Serve(p) => StepsLeft(p)' < StepsLeft(p)

\* At "with TOKEN_LOCK:", while another thread has it.
WaitsForLock(p) == pc[p] \in {"read", "lock"} /\ lock # None

\* Whom a thread waits for is inside save_token or the rotation, and waits for nobody.
HolderRuns ==
  \A p \in Procs : WaitsForLock(p) =>
    lock \in Procs \ {p} /\ pc[lock] \in Saving /\ ~ WaitsForLock(lock)

LEMMA NearerStep == TypeOK /\ [Next]_vars => Nearer
<1> SUFFICES ASSUME TypeOK, [Next]_vars, NEW p \in Procs, pc[p] \in Working
             PROVE  /\ StepsLeft(p)' <= StepsLeft(p)
                    /\ Serve(p) => StepsLeft(p)' < StepsLeft(p)
  BY DEF Nearer
<1>1. /\ pc \in [Procs -> PC] /\ req \in [Procs -> Request] /\ StepsLeft(p) \in 1 .. 9
      /\ p = Main => pc[p] # "off"
  BY DEF TypeOK, StepsLeft
<1>2. ASSUME pc'[p] = pc[p], req'[p] = req[p] PROVE StepsLeft(p)' <= StepsLeft(p)
  BY <1>1, <1>2 DEF StepsLeft
<1>3. ASSUME pc'[p] \notin Working PROVE StepsLeft(p)' < StepsLeft(p)
  BY <1>1, <1>3 DEF StepsLeft
<1>4. ASSUME Serve(p) PROVE StepsLeft(p)' < StepsLeft(p)
  <2> USE <1>1
  <2>1. CASE ReadDurable(p) \/ RefuseDurable(p) \/ ReadFallback(p)
    BY <2>1 DEF ReadDurable, RefuseDurable, ReadFallback, StepsLeft
  <2>2. CASE WriteDisk(p) \/ SyncDir(p) \/ SaveFails(p)
    BY <2>2 DEF WriteDisk, SyncDir, SaveFails, StepsLeft
  <2>3. CASE WriteRam(p) \/ SwapSecret(p)
    BY <2>3 DEF WriteRam, AfterSave, SwapSecret, StepsLeft
  <2>4. CASE CheckSub(p) \/ CheckLogin(p) \/ Mint(p) \/ CheckPortal(p)
    BY <2>4 DEF CheckSub, CheckLogin, Mint, CheckPortal, StepsLeft
  <2>5. CASE CheckRotate(p) \/ CheckCsrf(p) \/ TakeLock(p)
    BY <2>5 DEF CheckRotate, CheckCsrf, TakeLock, StepsLeft
  <2>6. CASE Finish(p)
    BY <2>6 DEF Finish
  <2> QED
    BY <1>4, <2>1, <2>2, <2>3, <2>4, <2>5, <2>6 DEF Serve
<1>5. ASSUME NEW q \in Procs, q # p, Serve(q) PROVE pc'[p] = pc[p] /\ req'[p] = req[p]
  <2>1. \E label : Goto(q, label)
    BY <1>5 DEF Serve, ReadDurable, RefuseDurable, ReadFallback, WriteDisk, SyncDir, SaveFails,
                WriteRam, AfterSave, SwapSecret, CheckSub, CheckLogin, Mint, CheckPortal,
                CheckRotate, CheckCsrf, TakeLock, Finish
  <2>2. UNCHANGED req \/ req' = [req EXCEPT ![q] = NoRequest]
    BY <1>5 DEF Serve, ReadDurable, RefuseDurable, ReadFallback, WriteDisk, SyncDir, SaveFails,
                WriteRam, SwapSecret, CheckSub, CheckLogin, Mint, CheckPortal,
                CheckRotate, CheckCsrf, TakeLock, Finish
  <2> QED
    BY <1>1, <1>5, <2>1, <2>2
<1>6. ASSUME Start \/ Damage \/ UNCHANGED vars PROVE pc'[p] = pc[p] /\ req'[p] = req[p]
  <2>1. CASE Start
    BY <1>1, <2>1 DEF Start
  <2>2. CASE Damage \/ UNCHANGED vars
    BY <2>2 DEF Damage
  <2> QED
    BY <1>6, <2>1, <2>2
<1>7. ASSUME Crash \/ PowerLoss PROVE pc'[p] \notin Working
  <2>1. pc' = [q \in Procs |-> IF q = Main THEN "off" ELSE "idle"]
    BY <1>7 DEF Crash, PowerLoss, Stop
  <2> QED
    BY <2>1
<1>8. ASSUME NEW q \in Threads, Begin(q) PROVE pc'[p] = pc[p] /\ req'[p] = req[p]
  BY <1>1, <1>8 DEF Begin
<1> QED
  <2>1. StepsLeft(p)' \in Nat
    BY DEF StepsLeft
  <2>2. CASE \E q \in Procs : Serve(q)
    <3>1. CASE Serve(p)
      BY <1>1, <1>4, <2>1, <3>1
    <3>2. CASE ~ Serve(p)
      BY <1>2, <1>5, <2>2, <3>2
    <3> QED
      BY <3>1, <3>2
  <2>3. CASE ~ \E q \in Procs : Serve(q)
    BY <1>1, <1>2, <1>3, <1>6, <1>7, <1>8, <2>1, <2>3 DEF Next
  <2> QED
    BY <2>2, <2>3

\* A request is answered after at most nine steps of its thread, whatever others do, fail
\* or lose meanwhile; it can be kept from one only by TOKEN_LOCK, whose holder is never
\* kept from its own (get_or_create_token, save_token, /portal/rotate-token; with the
\* threads' fairness, RequestsAnswered).
THEOREM AnswersComeNearer == Spec => []HolderRuns /\ [][Nearer]_vars
<1>1. TypeOK => HolderRuns
  BY NoneIsNobody DEF TypeOK, HolderSaves, HolderRuns, WaitsForLock
<1>2. TypeOK /\ [Next]_vars => [Nearer]_vars
  BY NearerStep
<1> QED
  BY <1>1, <1>2, TypeCorrect, PTL DEF Spec
=============================================================================
