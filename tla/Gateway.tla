------------------------------- MODULE Gateway -------------------------------
(***************************************************************************)
(* The request handlers of fortress-sub.py over the state they share: what *)
(* a request may meet, in which order, and what it is answered.            *)
(*                                                                         *)
(* A step ends where the next access to shared state begins.  What a       *)
(* handler reads of its request is chosen in the step that first looks at  *)
(* it.  Token and SESSION_SECRET change together under TOKEN_LOCK and are  *)
(* one number, gen; TokenRotation has the system calls behind it,          *)
(* AttemptLimiter the table, TotpReplay the clock, and Profiles the bodies *)
(* of the answers.                                                         *)
(***************************************************************************)
EXTENDS Profiles

CONSTANTS
  Workers, Addresses,
  NoAddress,     \* of a worker without a request
  Configured,    \* the configurations the daemon may have been started with
  Codes,         \* bound: the one-time codes that are good in a behaviour
  TotpRequired,  \* PORTAL_TOTP_REQUIRED
  MaxFailed,     \* MAX_FAILED; further failures count no more
  MaxGen         \* bound: rotations

ASSUME GatewayAssumption ==
  /\ Configured \subseteq Settings /\ TotpRequired \in BOOLEAN
  /\ MaxFailed \in Nat \ {0} /\ MaxGen \in Nat \ {0}
  /\ IsFiniteSet(Codes) /\ IsFiniteSet(Workers)
  /\ NoAddress \notin Addresses

VARIABLES
  settings,  \* the configuration read at the start
  failed,    \* per address: failures in its record, banned at MaxFailed
  spent,     \* USED_TOTP_CODES
  gen,       \* the token and the SESSION_SECRET in force
  cookies,   \* the generations clients hold a cookie of
  pc, job,   \* per worker: where it is, its request
  answer,    \* per worker: what it answered
  logins,    \* history: cookies issued
  barred     \* history, per worker: its address was banned when it came and since

shared == <<settings, failed, spent, gen, cookies, logins>>
vars   == <<shared, pc, job, answer, barred>>

Public == {"page", "portal"}   \* portal_routes: assets, legal pages; the portal
Login  == "login"              \* POST /portal/login, POST /portal
Verb   == "verb"               \* OPTIONS, PUT, DELETE, TRACE
Gets   == Public \cup {"sub", "otherGet"}
Posts  == {Login, "rotate", "otherPost"}

\* tls: over TLS; host: the configured name, the bare address, or any other or
\* several (read over TLS only); token: the query has a token parameter, which
\* makes the URL of any route one with a credential.
Job == {j \in [route: Gets \cup Posts \cup {Verb}, ip: Addresses, tls: BOOLEAN,
               host: {"ours", "address", "alien"}, token: BOOLEAN] :
          (~ j.tls => j.host = "ours") /\ (j.token => j.route = "portal")}
NoJob == [route |-> "page", ip |-> NoAddress, tls |-> FALSE, host |-> "alien", token |-> FALSE]

Bodies  == {"profile", "links", "mobile", "wireguard", "wstunnel", "stamps"}
Answers == Bodies \cup {"misdirected", "refused", "upgrade", "decoy", "page", "loginPage",
                        "dashboard", "badRequest", "tooLarge", "forbidden", "cookie",
                        "denied", "rotated", "unavailable"}
PC == {"idle", "ban", "session", "csrf", "rotate", "totp", "clear", "mint", "record",
       "recheck", "answered"}

Banned(a) == failed[a] = MaxFailed

-----------------------------------------------------------------------------
Init ==
  /\ settings \in Configured
  /\ failed = [a \in Addresses |-> 0] /\ spent = {} /\ gen = 1 /\ cookies = {}
  /\ pc = [w \in Workers |-> "idle"] /\ job = [w \in Workers |-> NoJob]
  /\ answer = [w \in Workers |-> "decoy"]
  /\ logins = 0 /\ barred = [w \in Workers |-> FALSE]

Goto(w, label) == pc' = [pc EXCEPT ![w] = label] /\ UNCHANGED answer
Reply(w, what) == pc' = [pc EXCEPT ![w] = "answered"] /\ answer' = [answer EXCEPT ![w] = what]

\* The record of an address goes; who was barred by it is no longer.
Forgotten(a) ==
  /\ failed' = [failed EXCEPT ![a] = 0]
  /\ barred' = [w \in Workers |-> barred[w] /\ job[w].ip # a]

HasCredential(j) == j.route = "sub" \/ j.token

\* Mutant: a request for the bare address is sent to the name whatever it carries.
Transport_AllRaw(j) ==
  IF j.tls /\ j.host = "alien" THEN "misdirected"
  ELSE IF ~ j.tls /\ (j.route \in Posts \/ HasCredential(j)) THEN "refused"
  ELSE IF ~ j.tls \/ j.host = "address" \/ ~ settings.named THEN "upgrade"
  ELSE "pass"

\* Mutant: the request's host is compared with the wrong one of the two names.
Transport_Swapped(j) ==
  IF j.tls /\ j.host = "alien" THEN "misdirected"
  ELSE IF ~ j.tls /\ (j.route \in Posts \/ HasCredential(j)) THEN "refused"
  ELSE IF ~ j.tls \/ (~ HasCredential(j) /\ (j.host = "ours" \/ ~ settings.named)) THEN "upgrade"
  ELSE "pass"

\* enforce_https_upgrade.  Where the address stands for the name, every host that is
\* recognised is the bare address.
Transport(j) ==
  IF j.tls /\ j.host = "alien" THEN "misdirected"
  ELSE IF ~ j.tls /\ (j.route \in Posts \/ HasCredential(j)) THEN "refused"
  ELSE IF ~ j.tls \/ (~ HasCredential(j) /\ (j.host = "address" \/ ~ settings.named))
    THEN "upgrade"
  ELSE "pass"

\* A request whose checks so far need no shared state.  A login compares its
\* credential with the token it reads here; its body is framed as below.
Arrive(w, j) ==
  /\ pc[w] = "idle"
  /\ job' = [job EXCEPT ![w] = j]
  /\ IF j.route = Verb THEN Reply(w, "decoy")
     ELSE IF Transport(j) # "pass" THEN Reply(w, Transport(j))
     ELSE \/ j.route = "page" /\ Reply(w, "page")
          \/ j.route = "portal" /\ IF j.token THEN Reply(w, "badRequest") ELSE Goto(w, "session")
          \/ j.route \notin Public \cup {Login} /\ Goto(w, "ban")
          \/ j.route = Login /\ \E bad \in {"badRequest", "tooLarge"} : Reply(w, bad)
          \/ j.route = Login /\ \E right \in BOOLEAN :
               Goto(w, IF ~ right THEN "record" ELSE IF TotpRequired THEN "totp" ELSE "clear")
  /\ barred' = [barred EXCEPT ![w] = j.route # Verb /\ Transport(j) = "pass" /\ Banned(j.ip)]
  /\ UNCHANGED shared

\* Mutant: only the subscription route looks at the ban.
Ban_SubOnly(w) ==
  LET j == job[w] IN
  /\ pc[w] = "ban"
  /\ IF Banned(j.ip) /\ j.route = "sub" THEN Reply(w, "decoy")
     ELSE \/ j.route = "sub" /\ \E right \in BOOLEAN : Goto(w, IF right THEN "clear" ELSE "record")
          \/ j.route = "otherGet" /\ Reply(w, "decoy")
          \/ j.route \in Posts /\ \E bad \in {"forbidden", "badRequest", "tooLarge"} : Reply(w, bad)
          \/ j.route = "rotate" /\ Goto(w, "session")
          \/ j.route = "otherPost" /\ Reply(w, "decoy")
  /\ UNCHANGED <<shared, job, barred>>

\* is_ip_banned, then what follows without shared state: the comparison of the
\* token, or the checks of Origin, framing and length of a POST.
Ban(w) ==
  LET j == job[w] IN
  /\ pc[w] = "ban"
  /\ IF Banned(j.ip) THEN Reply(w, "decoy")
     ELSE \/ j.route = "sub" /\ \E right \in BOOLEAN : Goto(w, IF right THEN "clear" ELSE "record")
          \/ j.route = "otherGet" /\ Reply(w, "decoy")
          \/ j.route \in Posts /\ \E bad \in {"forbidden", "badRequest", "tooLarge"} : Reply(w, bad)
          \/ j.route = "rotate" /\ Goto(w, "session")
          \/ j.route = "otherPost" /\ Reply(w, "decoy")
  /\ UNCHANGED <<shared, job, barred>>

\* Mutant: the code is looked up but not marked.
Totp_NotMarked(w) ==
  /\ pc[w] = "totp"
  /\ \/ \E c \in Codes \ spent : Goto(w, "clear")
     \/ Goto(w, "record")
  /\ UNCHANGED <<shared, job, barred>>

\* verify_totp: a good code is taken once; see TotpReplay.
Totp(w) ==
  /\ pc[w] = "totp"
  /\ \/ \E c \in Codes \ spent : spent' = spent \cup {c} /\ Goto(w, "clear")
     \/ UNCHANGED spent /\ Goto(w, "record")
  /\ UNCHANGED <<settings, failed, gen, cookies, logins, job, barred>>

\* clear_failed_attempts; the format and the mode of a subscription.
Clear(w) ==
  /\ pc[w] = "clear"
  /\ Forgotten(job[w].ip)
  /\ IF job[w].route = Login THEN Goto(w, "mint")
     ELSE \/ Reply(w, "badRequest")
          \/ \E b \in Bodies \ {"profile"} : Reply(w, b)
          \/ \E o \in Modes \X Cores :
               Reply(w, IF Accepts(settings, o[1], o[2]) THEN "profile" ELSE "badRequest")
  /\ UNCHANGED <<settings, spent, gen, cookies, logins, job>>

\* create_session_cookie, under the secret of this moment.
Mint(w) ==
  /\ pc[w] = "mint"
  /\ cookies' = cookies \cup {gen} /\ logins' = logins + 1
  /\ Reply(w, "cookie")
  /\ UNCHANGED <<settings, failed, spent, gen, job, barred>>

\* record_failed_attempt.
Record(w) ==
  LET a == job[w].ip IN
  /\ pc[w] = "record"
  /\ failed' = [failed EXCEPT ![a] = IF Banned(a) THEN @ ELSE @ + 1]
  /\ IF job[w].route = Login THEN Goto(w, "recheck") ELSE Reply(w, "decoy")
  /\ UNCHANGED <<settings, spent, gen, cookies, logins, job, barred>>

Recheck(w) ==
  /\ pc[w] = "recheck"
  /\ Reply(w, IF Banned(job[w].ip) THEN "decoy" ELSE "denied")
  /\ UNCHANGED <<shared, job, barred>>

\* verify_session_cookie, for the dashboard or before a rotation; an expired cookie
\* counts as none (0).
Session(w) ==
  /\ pc[w] = "session"
  /\ \E c \in cookies \cup {0} :
       IF job[w].route = "portal" THEN Reply(w, IF c = gen THEN "dashboard" ELSE "loginPage")
       ELSE IF c = gen THEN Goto(w, "csrf") ELSE Reply(w, "forbidden")
  /\ UNCHANGED <<shared, job, barred>>

\* The CSRF value is computed from the secret of this moment.
Csrf(w) ==
  /\ pc[w] = "csrf"
  /\ Goto(w, "rotate") \/ Reply(w, "forbidden")
  /\ UNCHANGED <<shared, job, barred>>

Rotate(w) ==
  /\ pc[w] = "rotate"
  /\ \/ gen < MaxGen /\ gen' = gen + 1 /\ Reply(w, "rotated")
     \/ UNCHANGED gen /\ Reply(w, "unavailable")
  /\ UNCHANGED <<settings, failed, spent, cookies, logins, job, barred>>

Close(w) ==
  /\ pc[w] = "answered"
  /\ pc' = [pc EXCEPT ![w] = "idle"] /\ job' = [job EXCEPT ![w] = NoJob]
  /\ answer' = [answer EXCEPT ![w] = "decoy"] /\ barred' = [barred EXCEPT ![w] = FALSE]
  /\ UNCHANGED shared

\* The window of a record or a ban is over.
Expire(a) ==
  /\ failed[a] > 0 /\ Forgotten(a)
  /\ UNCHANGED <<settings, spent, gen, cookies, logins, pc, job, answer>>

Next ==
  \/ \E a \in Addresses : Expire(a)
  \/ \E w \in Workers :
       \/ \E j \in Job : Arrive(w, j)
       \/ Ban(w) \/ Totp(w) \/ Clear(w) \/ Mint(w) \/ Record(w) \/ Recheck(w)
       \/ Session(w) \/ Csrf(w) \/ Rotate(w) \/ Close(w)

Spec == Init /\ [][Next]_vars

-----------------------------------------------------------------------------
\* Types; only a login gets to the second factor and to a cookie, only a rotation
\* to the CSRF check and the new token.
TypeOK ==
  /\ settings \in Configured /\ failed \in [Addresses -> 0..MaxFailed]
  /\ spent \subseteq Codes /\ gen \in 1..MaxGen /\ cookies \subseteq 1..gen
  /\ pc \in [Workers -> PC] /\ job \in [Workers -> Job \cup {NoJob}]
  /\ answer \in [Workers -> Answers] /\ logins \in Nat /\ barred \in [Workers -> BOOLEAN]
  /\ \A w \in Workers : /\ pc[w] \in {"totp", "mint", "recheck"} => job[w].route = Login
                        /\ pc[w] \in {"csrf", "rotate"} => job[w].route = "rotate"

Secrets == Bodies \cup {"dashboard", "cookie", "rotated"}

\* However logins of several workers interleave, every session was paid for with
\* a one-time code of its own, and no code is spent on a login that fails.
SessionsPaid ==
  TotpRequired =>
    LET paid == {w \in Workers : pc[w] = "mint" \/ (pc[w] = "clear" /\ job[w].route = Login)}
    IN Cardinality(spent) = logins + Cardinality(paid)

\* A request off the portal that comes from a banned address is answered with the
\* decoy, whatever credential it carries, unless the ban ended meanwhile.
BannedSeesDecoy ==
  \A w \in Workers :
    pc[w] = "answered" /\ barred[w] /\ job[w].route \notin Public \cup {Login} =>
      answer[w] = "decoy"

\* Secrets are answered over TLS to a request for this host only, and a redirect
\* never repeats a URL that carries a credential.
SecretsStay ==
  \A w \in Workers :
    /\ pc[w] = "answered" /\ answer[w] \in Secrets => job[w].tls /\ job[w].host # "alien"
    /\ pc[w] = "answered" /\ answer[w] = "upgrade" => ~ HasCredential(job[w])

\* A client that follows the upgrade is not sent on again, when the portal has a
\* name of its own; when it has none, see README.md, section 5.
UpgradeEnds ==
  \A w \in Workers :
    pc[w] = "answered" /\ answer[w] = "upgrade" /\ settings.named =>
      Transport([job[w] EXCEPT !.tls = TRUE, !.host = "ours"]) = "pass"

\* Every offered profile connects: its rules, groups and resolver name only what it
\* contains, whatever was rewritten for the newer core; a client that starts from
\* nothing can bring the tunnel up (unless it must ask for the name of its servers
\* through the tunnel itself: README.md, section 5); and it trusts the installer's CA
\* exactly when that CA signed the certificate in force, whatever RAM and disk hold.
ProfilesConnect == settings \notin Dangling \cup Stuck \cup Mistrusting

\* "IPv6 is explicitly blocked in both modes"; in full mode no recognised DNS query
\* leaves beside the tunnel, in traffic-only mode neither DNS nor DNS over TLS or
\* HTTPS at a known provider enters it; and a traffic-only profile means the same
\* to the legacy and to the current core.  From any process, on any port.
TrafficAsPromised == settings \notin Passing6 \cup DnsAstray \cup Differing
=============================================================================
