# Sovereign Fortress: verification project

TLA+ models of the parts of Sovereign Fortress whose behaviour depends on order, concurrency,
crashes or limits; TLC configurations that check them on small instances; and theorems, proved
with TLAPS, that hold for every value of the constants. Line numbers refer to the repository's
files. `PROJECT.json` maps every definition to the lines it models and lists runs, mutants,
hazards and theorems.

    tlc -config token_safety.cfg MCTokenRotation     # one run
    tlapm TokenRotationProofs.tla                    # one proof module

## 1. The system

Sovereign Fortress is a private VPN gateway. A server runs a proxy core, WireGuard, a resolver
and one Python daemon that hands client profiles to whoever holds a bearer token. Around it are
tools an operator runs by hand: vaults that encrypt keys at rest, an upgrade of the core, a
firewall script, a remediation script. The client has a desktop window and its own vault.

| Component | Code | State | Operations | Module |
|---|---|---|---|---|
| Bearer token and portal sessions | `fortress-sub.py:559-632, 713-733, 1592-1990`, `fortress-init.sh:46-54` | token file in `/var/lib/fortress/subscription`, its tmpfs copy, legacy file, config; `TOKEN_LOCK`; `SESSION_SECRET`; cookies | `/sub/<token>`, `/portal`, login, rotate-token, start, boot restore | `TokenRotation`, `AuthService`, `TokenPromise` |
| Failed-attempt limiter | `fortress-sub.py:143-148, 682-711` | `FAILED_ATTEMPTS` under its lock | ban check, charge, evict, clear | `AttemptLimiter` |
| TOTP replay cache | `fortress-sub.py:151-153, 645-680` | `USED_TOTP_CODES` under its lock | purge, look up, mark | `TotpReplay` |
| Request gateway | `fortress-sub.py:1502-1990` | the above, together | every verb and route, in the order of its checks | `Gateway` |
| Profile generators | `fortress-sub.py:736-1500` | certificate directories, settings | settings to profiles | `Profiles` |
| HTTPS worker pool | `fortress-sub.py:1994-2024, 2055` | bounded semaphore of 64 slots, listening queue | accept, refuse, start thread, handshake, serve, release | `WorkerPool` |
| Server vault | `manage_server_vault.py` | `/etc/fortress`, `/run/fortress`, `vault.enc`, `STATE_DIR`; LUKS image, mapping, file system | lock, unlock, purge-ram, setup-luks, open-luks, close-luks, status | `ServerVault`, `ServerStorage` |
| Client vault and bundle installer | `fortress_vault.py`, `install_client_bundle.py` | a file, its `.enc` sibling | lock, unlock, shred, install | `ClientVault` |
| Core upgrade | `upgrade_server_core.py` | binary, active configuration, template, backups with a manifest | `--apply`, `--rollback-backup` | `CoreUpgrade` |
| Configuration migration | `upgrade_server_core.py:23-73` | none | old to new core configuration | `CoreMigration` |
| Boot script | `fortress-init.sh` | the tmpfs | part of every component it touches | |
| Firewall hardening | `apply_firewall_hardening.py` | iptables chains, a backup | append and insert rules, policies, restore | `Firewall`, `FirewallHardening` |
| Server remediation | `apply_server_remediation.py` | files, units, firewall, a manifest | staged migration, rollback | `Remediation` |
| AdGuard update | `fortress-adguard-update.sh` | binary, configuration | update, restart, rollback | its restart, in `HostMaintenance` |
| Privacy scanner | `check_repo_privacy.py` | two pipes, a git process, the list of findings | scan files and history | `RepoScan` |
| Installer | `deploy_server.sh` | the whole server | one linear run | (its rules, in `Firewall`) |
| Desktop application | `SovereignFortressApp.pyw` | windows, a probe thread | starts tools, shows latency | |
| SOCKS5 relay | `socks5_connect.py` | a socket, two copying loops | relay | |

How they interact:

* `fortress-sub.py` is one process with a thread per connection. Its threads share memory (the
  token lock, the secret, the two tables, the semaphore) and the token's files with the boot
  script and the server vault, which run as other processes and take no lock of the daemon.
* The boot script fills the tmpfs from `/etc/fortress` before the services start. The vault runs
  it again inside `lock` and, through systemd, inside `unlock`; the core upgrade relies on it: it
  copies the template over the active configuration at every boot.
* The core requires the resolver (`deploy_server.sh:647`), so that systemd stops and restarts
  it with the resolver: at the hands of the remediation and of the weekly update alike.
* The privacy scanner and `git cat-file --batch` are two processes joined by two bounded pipes.
* The desktop application starts `fortress_vault.py` as a subprocess and kills it after 120 s
  (`SovereignFortressApp.pyw:687`); a shell may run the same tool at the same time.

What makes it hard, and where it bites (each is a hazard in `PROJECT.json`, with its line and the
properties that watch it):

* values read under a lock and used after it: the token in every request, the ban before the
  comparison, the TOTP code before its marking, the source file before its removal;
* several system calls that should be one: rename, directory sync, tmpfs copy and new session
  secret of a rotation; three files of an upgrade; vault, staging and nine shreds of a lock;
  allocate, format, open, make a file system, mount and fill of a container;
* stale copies: four places that hold a token, an archive older than the state it overwrites, a
  template and an active configuration, a certificate in tmpfs and on disk;
* crashes, power losses, boots and kills between any two of those steps, and reruns after them;
* limits: the bounded tables, the slots of the pool, a hold time just longer than a window, two
  pipes that may both be full;
* order in data: the first rule that matches decides, in a profile, in the core's configuration
  and in a firewall chain, and each of them is rewritten by code.

What correctness means, per component:

* token: a rotated token never comes back, is never granted to a request that began after the
  rotation, and sessions older than the rotation do not see the new token; every request is
  answered;
* limiter: bounded memory, bounded guesses in spite of the races, no ban lifted early for free;
* TOTP: a code is accepted at most once, and refused only for a reason;
* gateway: one code per session, the decoy for a banned address whatever it carries, secrets over
  TLS to this host only, redirects that end and repeat no credential;
* profiles: complete, usable from nothing, trusting the right CA; DNS and IPv6 go where the
  documents say, and both cores give a traffic-only profile one meaning;
* pool: no slot leaked or returned twice, an exhausted pool recovers;
* server vault: nothing is shredded before the vault holds it, no file is ever lost, an unlock that
  ended brings every key to RAM, the token does not go backwards; no container that holds files is
  formatted, and the status line promises nothing that a boot would refute;
* client vault: no version of a file the user counts on is lost, a panic shred erases;
* upgrade: there is always a way back, failures restore what was found, successes survive a boot,
  and the new core admits and rejects what the old one did;
* host tools: access kept and nothing opened at any moment, and what a tool reports is so;
* scanner: a clean report means that everything was read, an alarm has a cause, the scan ends and
  leaves no process.

## 2. The modules

Each component has a module of its own, an `MC...` module that gives it to TLC, and where
theorems exist a `...Proofs` module that extends it. A module's mutants (operators such as
`SyncDir_Skipped`, each preceded by a comment "Mutant") are plausible bugs of the code; the
property named for it in `PROJECT.json` catches it.

### TokenRotation, with AuthService and TokenPromise

State: the durable file as the kernel shows it (`disk`) and as a power loss would leave it
(`media`), the tmpfs copy (`ram`), the legacy file and the config (constants: nothing writes
them), `secret` (`SESSION_SECRET`), `lock` (`TOKEN_LOCK`), per thread the line it is at (`pc`), its
request, and the local `master_token`/`new_token` (`tok`); cookies held by clients. A token or
secret is the number of its draw.

Each system call or critical section is an action. `ReadDurable`, `RefuseDurable` and
`ReadFallback` are `get_or_create_token`; `WriteDisk`, `SyncDir`, `SaveFails`, `WriteRam` are
`save_token` and `_atomic_token_write`; `CheckRotate`, `CheckCsrf`, `TakeLock`, `SwapSecret` the
rotation; `CheckSub`, `CheckLogin`, `Mint`, `CheckPortal` the other routes. `Crash` kills the
process; `PowerLoss` also loses the tmpfs and, perhaps, an unsynced rename, and runs the boot
script; `Damage` puts something unreadable in the durable file. The bans, the second factor and
CSRF values appear as a refusal that may always happen: components of their own cover them.

`AuthService` is the promise: a credential in force, credentials retired for good, and requests
granted only with a credential not retired when they came. `TokenPromise` gives the refinement
mapping (`current <- Effective`, and each thread's request as its client sees it); the promise is
both model-checked and proved.

### AttemptLimiter, TotpReplay, WorkerPool

The other shared structures of the daemon, one module each because they share no variable.
`AttemptLimiter` counts time in ticks of the 300 s window and splits a request into ban check,
comparison and charge, which are separate critical sections in the code; reading the clock and
entering the critical section is one step. `TotpReplay` names a code by the beginning of its
step, keeps the clock value each worker read, and lets time pass between that reading and the
marking by at most `Lag`. `WorkerPool` models the accept loop and the threads by the place each
connection is at. `DaemonProofs` extends all three, which is why what they would both call `Init` or
`Workers` has the name of its module in two of them (`PoolInit`, `TotpInit`, `Verifiers`).

### Gateway, over Profiles

`Gateway` composes what the handlers share: the failures of each address, the spent codes, the
token and secret (one number, `gen`), the cookies. A worker's step ends where the next access to
shared state begins, so that a ban, a used code and a rotation meet in one request. `Transport` is
`enforce_https_upgrade`; `Arrive` has the checks that need no shared state, `Ban`, `Totp`, `Clear`,
`Mint`, `Record`, `Recheck`, `Session`, `Csrf`, `Rotate` the others. The finer models above justify
its steps: the table's window and eviction are `Expire`, the marking of a code is one step.

`Profiles` has the bodies it answers: `Profile` is `get_singbox_json_config` for a mode, a core and
the settings, reduced to its DNS server, the ranges its TUN leaves out, its outbounds, endpoints
and rules in order. `Modern` is the rewriting for the newer core. `Verdict` is what sing-box does
with a connection (first matching rule; a name is known when given or after a sniff action), and
`Usable` the least fixed point of what a client that starts from nothing can bring up. The daemon
reads its configuration once, so `settings` is chosen in `Init` and the profiles' properties are
invariants over it.

### ServerVault and ServerStorage

`ServerVault`: what each sensitive file holds on disk, in RAM (under the names the services use), in
`vault.enc` and, for the token, in `STATE_DIR`: the content of the deployment, a later token, or
`Junk`; the tool's step, the tar file it holds and its position in the list of files. `lock` is
`LockBundle`, `WriteVault`, `Stage`, `ShredNext` and `ShredEnds` per file, `LockDone`; `unlock` is
`UnlockRead`, `UnpackNext` per file, `Restart`; `purge-ram` is one step. `Killed`, `Reboot` and
`Rotate` come between any two. `shred` overwrites before it removes, so that a kill between
`ShredNext` and `ShredEnds` leaves junk under the file's name, and so does a `shred` that fails,
whose fallback (`manage_server_vault.py:179-183`) appends random bytes and zeros and removes
nothing. `unlock` writes in place: stopped in the middle of a file it leaves that file torn
(`Torn`). `fortress-init.sh` and the next `lock` copy junk like anything else. Two constants speak
of the operator: `Careful`, he locks again only after a completed unlock, and `Tidies`, he looks for
junk in `/etc/fortress` and removes it (`Tidy`) before he starts the tool. Written files are taken
as durable: the tool does not sync them, which is listed with its hazard.

`ServerStorage` puts the container beside it: image, passphrase, file system, device, and the
external command the tool runs next, each of which may fail. `unlock` first opens the container,
`purge-ram` closes it afterwards, and both `umount` and `cryptsetup close` may fail with no effect
and no notice. Every step of `ServerStorage` is a step or a stutter of `ServerVault`
(`StorageIsVault`), so what is proved of the vault holds beside the container. `Banner` is the last
line of `get_status`.

### ClientVault

State: the version of a file in its plain and `.enc` form, and per tool its step, the version in
its memory and whether somebody touched its source since it read it. `Look`, `Read`, `Publish`,
`Verify`, `Remove` are `_convert_vault`; `LookInstall` and `Publish` the installer; `Overwrite`,
`Erase`, `Report` the panic shred; `Fail` any exception or kill; `Save` a user's program. With
`Disturbed = FALSE`, no save or installation falls between a tool's last comparison and its
`os.remove`, and no shred falls after a publication: the windows that the code leaves open (see
section 5).

### CoreUpgrade and CoreMigration

`CoreUpgrade`: the version of binary, active configuration and template; the version the core runs;
the backups that have a manifest; the tool's step. Every file copied, published or restored is an
action; `Except` is any exception of the `try` block, `End` the end of the tool, by report, by kill
or by an exception nobody catches; `RestartOld` is the last command of a failed upgrade, whose
result is not looked at, so that the core runs the restored files, what it ran, or nothing; `Reboot`
lets the boot script copy the template over the active configuration. Whether the converted
configuration works at run time is an unknown of the initial state, since `check` cannot tell.

`CoreMigration` adds the configuration: `Migrate` is `current_server_config`, applied to the active
configuration before the backup, and `Verdict` what a core does with a connection before and after.
Tags, their types, inbounds and the configurations `original` may be are constants; the run gives it
42 336, with one or two resolvers, custom DNS rules, block and WireGuard outbounds, sniffing inbounds
and deprecated fields, the refused ones among them. `ConfigAssumption` asks only that no outbound
is called as one of the model's two verdicts and that a tag has one type.

### HostMaintenance: Firewall, FirewallHardening, Remediation

`Firewall` is the state the two tools share, `live` rules and rules file (`boot`), with what a
command does to a chain (`Effect`) and what a chain does to a packet (`Passes`: first match, a jump
read in place, then the policy). Packets are classes: one per answer the rules can tell apart.
`FirewallHardening` is the script as a sequence of commands, `Harden`, executed one per step (a
deletion again until the rule is gone, as the loop of `remove_all` does), with `HExcept` and
`HRestore` for its handler. `Remediation` follows `main` of the other script: token, stop of the
resolver, `dnscrypt.yaml`, nine files, additive rules, rules file, restart, health, ownership;
`RExcept` at any of them, then `RestoreNext` per target, `RestoreRules`, `RestartBack`, the last two
with either outcome, since the script looks at neither. A file is the version it holds, `torn`
included. `HostMaintenance` lets an operator start either tool when none runs, kills it anywhere,
reboots the server, and lets the weekly update of AdGuard restart the resolver, and the core with
it, between any two steps (`WeeklyUpdate`). The servers it may start on are those with `Orderly`
rules: INPUT jumps nowhere, FORWARD only to the chain of the tools, and what FORWARD refuses of the
guarded packets it refuses by itself, not only because that chain drops it. The hardening needs
this, for it flushes the chain while traffic passes, and `deploy_server.sh:918-956` leaves such
rules (line 955 has the policy); on others the flush would open, until the chain is filled again,
what only the chain had closed. What a hardening has achieved at its end depends on the server too:
`Usual` says what the rules of `deploy_server.sh`, and those of the configuration before it, have in
common (no rule of INPUT admits undeclared ports; FORWARD accepts nothing but the broad forwarding
that the script removes, and refuses ahead of the tools' chain nothing that peers send past the WAN
or get back).

### RepoScan

The scanner's place in its sequence (names, walk, enumeration, batch protocol, end), the pipes piece
by piece (`header`, `content`, `newline`, `missing`), the git process, and the repository, where a
file or object may go away at any time. What is prohibited in a file or blob is a fact of the initial
state. Every external failure is a disjunct: a failed command, an unreadable file, a dead git, an end
of stream, a missing object, the timeout of 30 s at the end.

## 3. The runs

| Run | Instance | Distinct states | What it shows |
|---|---|---|---|
| `token_safety` | 2 workers and main, 3 tokens, 3 secrets, 2 cookies, a legacy file | 1 823 812 | `RetiredStaysRetired`; `ShownTokenNotNewer`; and `KeepsPromise`, the refinement of `AuthService` |
| `token_liveness` | 2 workers and main, 2 tokens, failing directory syncs | 75 955 | `RequestsAnswered`: no failure leaves the lock held |
| `limiter` | 2 workers, 3 addresses, a table of 2, a limit of 2 | 3 469 789 | `TableBounded`, `GuessBudget`, `BanEndsOnlyFor` |
| `totp_replay` | 2 workers, 3 overlapping codes | 2 132 709 | `NoReplay`, `RefusedForCause` |
| `gateway` | 2 workers, 2 addresses, 2 codes, a rotation, a limit of 2, 14 configurations | 3 793 720 | `SessionsPaid`, `BannedSeesDecoy`, `SecretsStay`, `UpgradeEnds`; `ProfilesConnect`, `TrafficAsPromised` |
| `pool` | 5 connections, 3 slots, a queue of 2 | 7 636 | `SlotsAccounted`, `PoolRecovers` |
| `vault_cycle` | 9 files, 1 rotation, a container; every external command may fail | 3 479 387 | `DurablyKept`, `UnlockLoads`, `ShredOnlyVaulted`, `DataKept`, `BannerHonest` |
| `client_races` | 3 tools, 3 versions | 196 415 | `TypeOK`, `NothingLost`, `PanicErases` |
| `upgrade_steps` | 3 backups, 42 336 configurations | 9 654 456 | `WayBack`, `FailureHarmless`, `SuccessSurvivesBoot`, `SamePolicy`, `RerunStable` |
| `host_tools` | 4 servers, 2 starts of either tool, weekly updates | 1 616 292 | `TypeOK`, `AccessKept`, `NothingOpened`, `HardenedOrRestored`, `RemediatedOrRestored` |
| `repo_scan` | 2 files, 3 blobs of 2 pieces, pipes of 1 | 3 139 072 | `TypeOK`, `CleanMeansScanned`, `AlarmForCause`, `ChildReaped`, `ScanEnds` |
| `vault_relock` | see section 5 | | finds a violation |

A type invariant that is a theorem is not checked again by a run; the others are.

Why these bounds are enough to be interesting:

* Three tokens are the one the installer wrote and two rotations: the second is needed for a
  retired token to meet a tmpfs copy and a legacy file that are both older. Three secrets give
  two rotations and a restart, in any order. Two workers race on every read and use; a third
  thread, main, reads at each start. Threads are symmetric.
* The limiter needs three addresses on a table of two for an eviction to have a choice, a ban
  longer than the window for the two expiries to cross (2 ticks against 1), and a clock that runs
  past the end of a ban.
* TOTP: the hold is four steps as in the code, the codes overlap pairwise, the clock runs until
  the last entry may be purged. `Lag = Hold - 3 * Step + 1` is the largest lag the assumption
  admits; one more and a code is accepted twice.
* Gateway: two workers and two codes let two logins want the same code, two addresses let one be
  banned while the other is served, one rotation lets a cookie be older than the secret. Failures
  are counted up to the limit, which is all that `is_ip_banned` asks. The configurations are every
  pair of certificate directories that a boot, a purge, a lock or a new certificate can leave, and
  every kind of address with and without WireGuard. Workers, addresses and codes are symmetric.
* The pool has more connections than slots plus the queue minus one, so that it is exhausted
  while others wait.
* `vault_cycle` has the real list of files. With `Careful`, one rotation lets the token of the
  archive be older than the one in force. A shred may fail, and a write be torn, for the files in
  `Fragile`: one that the boot script restores to RAM, one that it does not, and the token; any file
  may be caught in the middle of a shred. The container has every state of image, passphrase, file
  system and device; `OnePassphrase` and `~BlkidMisses` are assumptions on the operator and on
  `blkid`, and section 5 says what happens without them.
* Three client tools let a conversion, its reverse and a shred overlap; three versions let an
  older one be published while a newer one is saved and another installed.
* Three backups are a kill, a rerun and an explicit rollback to any of them. Two rules and two
  inbounds let a converted rule stand before and behind another and a sniffing inbound beside one
  that does not.
* Two starts of the host tools give each order of the two, each alone twice, and a rerun after a
  kill. The four servers have the four rule sets (bare or the provider's image, each after
  `deploy_server.sh` or with the broad forwarding the script removes) and, between them, the four
  sets of missing files: no command on the rules reads a file. With `TimerFalls = FALSE` the weekly
  update keeps out of one window, see section 5. It may fall any number of times.
* A scan of two files and three blobs has one before and one after the item in hand; a content of
  two pieces and pipes of one piece make both processes wait in the middle of an answer.

Fairness. Three runs need it. `token_liveness` gives weak fairness to each thread's steps: the
kernel runs every thread, and each wait for a lock ends because its holder runs. No client, no
crash and no operator owes a step. `pool` gives weak fairness to the accept loop and to each
thread: a thread's handshake and reads are under socket timeouts (`fortress-sub.py:2014-2021`),
which is what ends a stalled client's hold on a slot. `repo_scan` gives weak fairness to the scanner
and to git, two processes the kernel runs; no file owes a deletion and git owes no death. A git that
hangs without dying is outside of it: the scanner's `readline` has no timeout. Everything else is
safety and needs none.

`CHECK_DEADLOCK FALSE` stands in the token configurations and in `repo_scan.cfg` only: when the
bounds on tokens, secrets and cookies are spent and the process is down, or the scan has ended, the
model has nothing left to do.

## 4. The proofs

Each theorem holds for every value of the constants that satisfies the named assumptions
(`TokenAssumption`, `NobodyAssumption`, `LimiterAssumption`, `TotpAssumption`, `PoolAssumption`,
`GatewayAssumption`, `VaultAssumption`, `StorageAssumption`, `ClientAssumption`,
`UpgradeAssumption`, `ConfigAssumption`, `MaintenanceAssumption`, `ScanAssumption`). TLC evaluates
each of them in a run. Every safety property that a passing run checks is a theorem. Some have a
hypothesis, stated in the theorem and satisfied by the run; section 5 has what happens without it:
`~DirSyncFails` (`DashboardShowsOld`), `Careful /\ Tidies` (`CarefulKeepsAll`, `CarefulUnlocks`,
`StorageKeepsKeys`, `StorageUnlocks`, `StatusHonest`), `~BlkidMisses` (`ContainerFilesKept`),
`~Disturbed` (`VersionsKept`), `~TimerFalls` (`RemediationWholeOrUndone`). That of
`HardeningWholeOrUndone` is about the rules a server came with, that they are `Usual`;
`ChosenAssumption` has TLC check it of the servers of the run.

The three liveness properties need fairness, which is out of the prover's reach. What they say apart
from it is proved: whoever waits, waits for somebody who can go on, and whoever goes on comes nearer
to the end (`AnswersComeNearer`, `ExhaustedPoolDrains`, `NeverBothWait` with `EveryStepCounts`).

* `TokenRotationProofs`. `TypeCorrect`: `TypeOK` is inductive once it says that a thread is inside
  `save_token` exactly when it holds the lock. `RetiredForGood` and `GrantsAreLive` follow from
  `IInv`, five facts beside the types: what is in a file was stored and what was stored was drawn
  (`StoredWasSeen`); the token of a waiting rotation is new and nobody else's (`FreshIsNew`),
  without which a rotation could store a retired token; what the files hold at each line of
  `save_token` (`SaveProgress`); after a rotation the durable file exists, so that the older
  sources are never consulted (`DurableInForce`); and the token a request carries was not retired
  when it began (`CarriedWasLive`). They hold for `DirSyncFails` TRUE and FALSE.
  `DashboardShowsOld` needs `~DirSyncFails` and `BornInTime`: no token is ahead of the secret it
  belongs to, but for one being rotated in, or cut off by the end of the process.
  `PromiseKept` is the refinement of `AuthService`: `IInv` makes a grant one of a credential that
  was not barred (`GrantSeen`), and every other step a step of the promise or a stutter.
  `AnswersComeNearer`, the safety half of `RequestsAnswered`: a request has at most nine steps left
  (`StepsLeft`), each of its own steps lowers that and nothing anybody else does raises it; and the
  holder of the lock that it may wait for does not wait itself (`HolderRuns`, from `HolderSaves`).
* `DaemonProofs`, the limiter: `TableStaysBounded`, `GuessesBudgeted`, `BansHold`. A record bans
  from `MAX_FAILED` on, and longer than the window (`RecordsBan`); the guesses charged are among the
  failures counted (`ChargedCounted`); and the guesses charged, with the workers that have passed
  the ban check and not yet charged (`Inside`), stay within the budget (`Budgeted`). The last is
  what makes the race harmless: a worker passes the check only while the count is below the limit,
  because an expired record at the limit is dropped first. `BanDuration > Window` is used there. The
  TOTP cache: `CodeAcceptedOnce`: a spent code is remembered until it is `Gone`, so late that no
  verifier's clock value can find it good. It needs the age of each clock value (`ClockFresh`) and
  the life of each entry (`EntryLasts`); the assumption on `Lag` is used where one verifier's purge
  meets another's older clock value. `RefusalsHaveCause`: what is in the table was accepted
  (`EntryWasSpent`). The pool: `SlotsKept`: types, and free slots and holders make up the pool. The
  invariant adds that the accept loop has in its hands exactly the connection at one of its three
  places; the counting is one lemma, `MoveCounts`. `ExhaustedPoolDrains`, the safety half of
  `PoolRecovers`: with no slot free, some connection has one and its thread, or the accept loop for
  it, can go on (`SomeoneRuns`); the steps until it gives the slot back (`UntilFree`) get fewer with
  each of them and never more, however many clients come.
* `GatewayProofs`. `TypesKept`, `BannedGetDecoy`, `SecretsOverTls`, `NoRedirectLoop`: which route may
  stand at which place (`RouteKept`), what passed `Transport` (`TransportKept`), and that a barred
  request off the portal stands before its ban check or is answered with the decoy (`BarKept`).
  `EverySessionPaid`: spent codes are the logins and those that have spent one and not yet signed a
  cookie (`Balance`, over `Paid`), whichever two logins want one code. `ProfilesAlwaysConnect` and
  `TrafficAlwaysAsPromised`, for every configuration there can be: `Usable` is a least fixed point,
  written as the intersection of all sets closed under `Grow`, so that what is in each of them is in
  it (`Sniffed`, `Decides` for the rules).
* `ServerStorageProofs`. `ShredsAfterVaulting`: what lies whole on disk is, with the same content, in
  the archive about to be written and in the vault once written (`Vaulted`). `CarefulKeepsAll` and
  `CarefulUnlocks`, for any set of `Fragile` files: if the operator is careful and tidy, every file
  but the template and the token is whole on disk until the first vault is written and whole in the
  vault from then on, and after an unlock that ended it is whole in RAM. The invariant
  (`Recoverable`) also says what the archive holds at each step and what has reached RAM while an
  unlock unpacks: a lock takes a whole content of each file because what it finds on disk is not
  junk, by tidiness, and what it finds in RAM is whole, by the unlock before it. Each hypothesis is
  used there; section 5 has what happens without it. `StorageIsVault` carries all three over to the
  whole tool (`StorageShredsVaulted`, `StorageKeepsKeys`, `StorageUnlocks`). `StorageSafe` and
  `ContainerFilesKept` say what each command finds when it runs (`Stages`): above all, that `mkfs` is
  reached without a `blkid` only on an image just formatted. `StatusHonest`.
* `ClientVaultProofs`. `ClientTypes`, `ShredErases`, `VersionsKept` (under `~Disturbed`), for any
  number of tools and versions. A tool is `Ready` when it may still remove its source. At most one
  is, the source is what it has read, the destination has the same version, and while both files
  exist no other tool publishes one (`Removable`); so a removal never takes the last copy. `Known`
  and `Fresh` say what a tool's memory is worth before.
* `CoreUpgradeProofs`. `WayBackKept`, `FailuresHarmless` (the files, not the core, whose restart is
  unchecked), `SuccessKept`, for `MigrationSpec`. Every
  replacement is made after a completed backup (`Owed`), and the first backup is of one version,
  because without a backup nothing was touched (`Backed`); `Agree` says how far a loop over the
  three files has come. `MigrationIsUpgrade`: the configurations refine the upgrade without them.
  `RerunsAgree` and `PolicySurvives` are about the conversion itself, for any tags, inbounds and
  configurations: a converted configuration has nothing left to convert; and its rules are the old
  ones, each at its place or one further (`Shift`, by the sniff rule), so that the first of them that
  matches is the first that matched and leads to the same `Outcome`, or both fall to the default.
* `HostMaintenanceProofs`. `MaintenanceTypes`. `AccessIsKept` and `NothingIsOpened`: live rules,
  rules file and every backup are `Sound`, that is as safe as those the server came with, told from
  the lists themselves. First, what an appended, inserted or deleted rule does to a list of any
  length (`Appended`, `Inserted`, `Shortened`); then that each command is `Safe` (`SoundKept`). Two
  commands of the hardening are so only where they stand: DROP as the policy of INPUT, after the
  rules for everything the server admits, and the acceptance of established connections, after the
  rule that drops the metadata address; `Ensured` says which rules are there before each of the 18
  commands. What is read through a flushed FORTRESS_FORWARD is why the invariant needs FORWARD to
  refuse by itself (`RefusedNotRouted`). `RemediationWholeOrUndone` (under `~TimerFalls`): how far
  the files have been written (`Reviewed`), and that from the third on the resolver runs the new
  configuration or nothing, so that a stop of it cannot bring the old one back (`HarmlessStop`); and
  what the rollback has dealt with is as it was saved (`RestoreInv`); services and live rules are
  not in it, because the commands that restore them are unchecked. `HardeningWholeOrUndone` (on
  `Usual` servers): `Laid` says which rules of the script are in place before each of its commands,
  and `SettleInv` that this is so of the command it stands at, whatever failed, was killed, rebooted
  or remediated before. After the last command FORWARD reads the script's chain before anything that
  refuses what lies behind the WAN, and that chain accepts it and nothing else (`RoutesWan`); INPUT
  admits no undeclared port (`RestClosed`), peers are masqueraded (`PeersMasqueraded`), and each
  command finds its work done (`RerunsSame`, over `Run`, a recursive function on the place in the
  list).
* `RepoScanProofs`. `PassedMeansScanned`: as long as nothing is reported, every file and blob that
  is still there was examined, is in the list, or is in hand (`FilesAccounted`, `BlobsAccounted`);
  git runs only between its start and the finally clause (`GitBetween`), hence `GitReaped`.
  `TypesKept` and `AlarmsHaveCause`: what is in the pipes is the answer to what was asked for, piece
  by piece, or git has gone wrong (`InStep`). `NeverBothWait` and `EveryStepCounts` are the safety
  half of `ScanEnds`. While git lives, what the scanner has not yet read of an answer is in the pipe
  or still to be sent, or the request is on its way (`Answering`, `Missing`, `Asked`), so that the
  two never both wait. And five numbers (`Remaining`: the phase, the files or blobs to do, the place
  within one, requests on their way, pieces on theirs), compared from the first on, get smaller with
  every step of either process; a death of git or a file that vanishes raises none.

The invariants of `ClientVaultProofs`, `HostMaintenanceProofs` and `RepoScanProofs` were found with
TLC on the instances of the runs before they were proved for all.

Only model-checked: the liveness properties `RequestsAnswered`, `PoolRecovers` and `ScanEnds`, which
rest on fairness and on when an action is enabled. Out of this prover's reach too is induction over
data: what `Run` does to a list of commands of any length, say; the 18 commands of the script are
taken one by one. No module uses a RECURSIVE operator.

## 5. Where code and documents disagree

One run ends in a counterexample:

* `vault_relock` (`manage_server_vault.py:429`): lock, then lock again without an unlock between.
  What the first lock has shredded is by then nowhere but in the vault: `ca.key` at once, since the
  boot script does not copy it to RAM, and every other file after a reboot. The tool finds some
  other file (line 388) and replaces `vault.enc` by an archive without them. `README.md:337`
  promises the backup.

Properties that the modules state, that the code does not keep, and that no run lists; each shows
with the configuration given here:

* `RotationSticks` of `ServerVault` (`Careful = TRUE`, `MaxRotations = 1`): lock, rotate, unlock. The
  archived token is written over the newer one in `STATE_DIR` (`manage_server_vault.py:507`): the
  rotated token is in force again, against `SECURITY_REVIEW.md:49-51`.
* `RestoresOldCore` of `CoreUpgrade` (`MaxBackups = 2`): an upgrade killed between two replacements
  and run again backs up the mixture (`upgrade_server_core.py:156`); when that run fails, it
  restores the mixture and the core stays down. Lines 7-8 promise the old binary and
  configurations. An older backup still has them (`WayBack`).
* `ShownTokenNotNewer` with `DirSyncFails = TRUE`: the rename has put the new token in force when
  the directory sync fails (`fortress-sub.py:613`); the rotation answers 503 and keeps the secret,
  so that sessions it should have ended live on and are shown the new token.
* `SessionsRevoked` (2 tokens, 1 secret, 2 cookies): a login that compared the old token before a
  rotation signs its cookie after it, under the new secret (`fortress-sub.py:1918`).
* `NothingLost` of `ServerVault` with `Careful = TRUE`: unlock unpacks `config.json.template` as
  `config.json` (`manage_server_vault.py:512`), lock looks for it under its own name (line 378):
  lock, unlock, lock loses it. `DurablyKept` excepts it for this reason.
* `DurablyKept` of `ServerVault` with `Careful = TRUE`, `Tidies = FALSE` (`Fragile = {}`,
  `MaxRotations = 0`): a lock is killed while `shred` overwrites `key.pem` (line 174); the operator
  unlocks, which brings the good key from the vault to RAM, and locks again. The lock prefers what
  lies on disk (line 376), junk, and replaces the vault that had the key by one that has the junk.
  Its self-verification (line 421) compares the archive with itself and is content. A `shred` that
  fails does the same, through the fallback. Nothing in the tool tells the operator to look.
* `NoPlaintextLeft` of `ServerVault` with `Fragile = {"key.pem"}`: when `shred` fails, the fallback
  (`manage_server_vault.py:179`) opens the file for appending (`ba+`) and never removes it, so that a
  file, the plain text perhaps still in it, stays while line 445 reports that none remains.
  `vault_cycle` runs with that failure.
* `ColdLocked` of `ServerStorage`: `umount` and `cryptsetup close` run with `check=False`
  (`manage_server_vault.py:360, 363`). When either fails the container stays mapped, its key in the
  kernel, and the tool prints "closed and locked" (364) and "System is cold-locked" (570);
  `README.md:344` says that `purge-ram` locks the container.
* `UnlockReaches` of `ServerStorage`: `README.md:342` and `446` have unlock open the volume and
  unpack the vault. An image that set-up left without a header (`fallocate` ran out of space, line
  253, or the tool was killed), or that was given another passphrase, makes `open_luks` raise before
  the vault is read (lines 455-456), although the vault needs none of it.
* `DataKept` with `BlkidMisses = TRUE`: whatever goes wrong with `blkid` counts as "needs a file
  system" (`manage_server_vault.py:213-214`), and `mkfs.ext4` follows on a container with files.
* `UpgradeEnds` without its exception for a portal with no name: the redirect is taken whenever
  `DOMAIN` is set and the host is `SERVER_IP` (`fortress-sub.py:1566`). The target host treats a
  placeholder such as `<YOUR_DOMAIN>` (`fortress_config.example.json:3`) as no name, this test does
  not: every request without a credential is redirected to itself.
* `ProfilesConnect` without its exception for full mode and a server given by name: the 1.14 profile
  resolves names at `dns-remote`, whose detour is the tunnel that has yet to be built
  (`fortress-sub.py:1178-1180, 1200`). `DOMAIN` is never empty (line 87), against the comment at
  line 96.
* `SamePolicy` without its exception: a block outbound that stood first was the default and rejected
  what no rule matched; the conversion drops it, and the default becomes the next outbound.
* `NothingLost` of `ClientVault` with `Disturbed = TRUE`: a save between the last comparison and
  `os.remove` (`fortress_vault.py:185`) is deleted with the source.
* `RemediatedOrRestored` with `TimerFalls = TRUE`: the weekly update starts the resolver again after
  the remediation has stopped it (`apply_server_remediation.py:292`) and before it has written
  AdGuard's configuration; the resolver runs the old one, and when it is restarted at the end it may
  write that back over the new one, under a report of success. Nothing holds the timer off.
* `RemediatedOrRestored` without its exception for `ramAgh`: the rollback puts AdGuard's
  configuration back and then restarts it (`apply_server_remediation.py:394`); an AdGuard that
  writes its configuration at shutdown, as line 291 says it does, puts the new one in its place
  until the next boot.

Seen while reading, true by the shape of the code and so not a run:

* After a lock the token stays in plain text in `STATE_DIR`, which is not in the list of the vault's
  directories, though `README.md:336` counts it among what resides only in RAM; and the template is
  not on disk, so that `upgrade_server_core.py` stops at its first look at the file.
* `README.md:368` has requests for the raw server IP rejected with 421. The handler counts
  `SERVER_IP` among the known hosts (`fortress-sub.py:1547`): over TLS they are redirected to the
  domain (line 1566), and served when they carry a token or a subscription path.
* A failed upgrade and a failed remediation end with a restart whose result nobody looks at
  (`upgrade_server_core.py:181`, `apply_server_remediation.py:394`): the old files are back, and the
  service may be down or still run the new ones. Both tools tell the operator to inspect it.
* Two rotate requests whose cookie and CSRF value were checked before the lock both rotate.
* The subscription daemon takes `peers[0].public_key`, a client's key, for the server's
  (`fortress-sub.py:137-139`).
* A certificate put in RAM only, private on disk, makes profiles trust a CA that did not sign the
  leaf served; `Directories` leaves that order out, because a new certificate is put on disk first.
* The conversion does not rewrite `route.final`.
* The hardening script refills `FORTRESS_FORWARD` without the three private ranges that
  `deploy_server.sh:939-941` drops. `harden_adguard` binds `0.0.0.0` and serves plain DNS
  (`apply_server_remediation.py:116-120`), where `SECURITY_REVIEW.md:37-39` has private addresses and
  no plain DNS; its version guard admits any 1.x, where `HOST_MAINTENANCE.md:31-33` says 1.11.4.
* `systemctl stop adguard-home` stops the core with it; a remediation killed after it leaves both
  down until a boot, the next run or the weekly update, which starts the resolver only.
* `fortress-adguard-update.sh` hardly ever reaches the "service-health rollback" of `README.md:313`:
  `set -e` ends it when the update or the restart fails, and `is-active` succeeds right after the
  restart of a `Type=simple` unit (`deploy_server.sh:462`), before the binary could have failed.
* `RepoScan`: after a broken pipe the `finally` clause flushes the same pipe, and the exception
  escapes it: a traceback and status 1 instead of a report. A missing newline after a blob goes
  unnoticed.

## 6. What is not modelled, and why

* The text of pages, share links, QR codes, DNSCrypt stamps and cookies, and cryptography: data the
  properties do not tell apart. A signature verifies under the secret that made it, an archive
  decrypts to what was encrypted. `Profiles` has the decisions of a profile, not its syntax.
* Two time steps with the same six digits (TOTP), a wall clock that steps back, and a stall of
  more than 30 s between reading the clock and marking a code.
* A restart of the daemon in the limiter, the TOTP cache and the gateway: the tables are in memory
  only, and a restart forgets them by design.
* In `Gateway`, paths are in normal form, an expired cookie counts as none, and certificates do not
  change while the daemon runs. In `CoreMigration`, the resolver of the Reality handshake and the
  log section.
* An `iptables -C` that fails for another reason than the absence of the rule (a lock held by
  another program): `exists` takes it for "absent" (`apply_firewall_hardening.py:30-31`) and the
  rule is added twice or, in `remove_all`, left in place. `Effect` has a reliable check.
* A failed `git ls-files` without history and without `.git` is silent in the scanner
  (`check_repo_privacy.py:380`); in `RepoScan` it is a listing with nothing in it.
* IPv6 rules, which the hardening tool saves and does not change. What the remediation's new
  contents are is one version.
* The temporary file that a kill leaves behind in the client vault; the three files of a bundle (one
  is modelled); DPAPI.
* The binary of AdGuard with its backup and rollback: no other modelled state depends on it.
* The installer, the desktop application and the SOCKS5 relay are in the plan. Launchers, path
  lookups, the Windows report, documents and examples have no state.

## 7. Plan

Done, in this order: TokenRotation with AuthService; AttemptLimiter; TotpReplay; ServerVault;
ClientVault; CoreUpgrade; WorkerPool; HostMaintenance with its parts; then ServerStorage, the
refinement of AuthService as a theorem, CoreMigration, Profiles and Gateway, RepoScan, the weekly
update. The daemon came first because every client depends on its credential; then the tools whose
failure loses keys; then what they are composed of.

Left to model:

1. `ClientVault` with the temporary file of `_publish_new` and with the three files of a bundle.
2. `Relay` (two copying loops and half-closes) and `LatencyProbe` (a result that arrives for a
   profile no longer selected).
3. `AdGuardUpdate` with its binary: an abstract promise (all old or all new) that the tools'
   rollbacks implement.
4. The installer's order of publication and its guard against a second run.

Left to prove: that both host tools implement one abstract tool, whose target is what it found or
what it promises; the same for the three vaults.
