# openNDS in TLA+

A verification development kept beside the openNDS captive portal (`src/`): TLA+
modules translated from its code, TLC configurations that check them on small
instances, and TLAPS proofs for every value of the constants. `PROJECT.json` maps
every definition to the lines it models.

## The system

One daemon, `opennds`, runs four kinds of thread and many child processes.

| part | state | operations | correct when |
|---|---|---|---|
| client list (`client_list.c`) | linked list, `client_count`, `client_id`; per client the state, `refcount`, `dead`, session and quotas | append, find (by address pair, IP, MAC, token, id), pin, delete, unpin | nodes are freed once and unused; one entry per host; the count is the length |
| sessions (`auth.c`) | fields of a client: state, `session_end`, `session_end_explicit` | `auth_change_state`, `client_auth`, `auth_client_*`, the refresh walk | access rules exactly while there is a session; sessions end; explicit durations hold |
| HTTP server (`http_microhttpd.c`) | the pinned client of each request | find/add, dispatch, authenticate, deny, unpin | no use after free, no lost unpin |
| ndsctl thread (`ndsctl_thread.c`) | epoll slots, one command at a time | auth, deauth, trust, untrust, status | commands end and act on the client they named |
| watchdog (`auth.c`) | its place in the list | refresh every `checkinterval`, preemptive authentication, MHD restart | every session past its end is ended |
| firewall driver (`fw_iptables.c`) | nftables chains: access rules, trusted MACs, rate limits | authenticate, deauthenticate, trust, untrust, limit | only hosts with a session are let through |
| trusted MACs (`conf.c`) | `trustedmaclist` | add, remove, look up | agrees with the trusted chain |
| ndsctl lock, BinAuth (`util.c`, `ndsctl.c`, `auth.c`) | a lock file, `config->lockfd`; the quota file of a client | lock, unlock, run the script | mutual exclusion, no deadlock with the script |
| start and shutdown (`main.c`) | signals, the MHD handle, the chains | setup, main loop, `termination_handler`, restart of MHD | the firewall is complete while the threads run and gone after them; BinAuth hears every end |
| rate limits (`auth.c`, `fw_iptables.c`) | windows, buckets, `rate_exceeded` | measure, limit, unlimit | limits follow the measured rate |
| child processes (`util.c`) | sixteen pid slots | register, reap in SIGCHLD | every child is reaped by the right caller |
| authmon, libopennds (`libs/*.sh`) | the authentication list of a FAS, the preemptive database | poll, authenticate, acknowledge | what a FAS lists is authenticated and acknowledged |

How they interact: HTTP threads, the ndsctl thread and the watchdog share the
client list under one mutex, `client_list_mutex`; they call the same functions of
`auth.c`, which call scripts (BinAuth) and nft **while the mutex is held**. HTTP
requests keep a pointer to a client between critical sections, protected by
`refcount`, and read and write some of its fields without the mutex. `ndsctl`,
`authmon` and BinAuth scripts are other processes that come back through the
control socket.

Hard behaviours: the life of a node that one thread deletes while another uses it;
lookup and insertion in two critical sections; sessions written before, during and
after the critical section that authenticates; failing scripts and nft commands
half-way through a state change; rules that are deleted by IP while clients are
identified by IP and MAC; a thread that waits for a script that waits for the daemon.
`PROJECT.json` lists every such hazard at its line, with the properties that would
show it going wrong.

## Modules

| module | what it is |
|---|---|
| `PortalAccess` | the abstract specification: hosts become known, get access, lose it, are forgotten |
| `ClientSessions`, `MCClientSessions` | client list, sessions, access rules and the threads on them |
| `ClientSessions_proofs` | the inductive invariant: types, lock, list, reference counts |
| `SessionAccess_proofs` | access, lifecycle, refinement, explicit durations |
| `RateLimit`, `MCRateLimit`, `RateLimit_proofs` | measured rates, windows, limits and volume quotas of one client |
| `NdsctlLock`, `MCNdsctlLock`, `NdsctlLock_proofs` | the lock file, BinAuth scripts, ndsctl processes and the list mutex |
| `NdsctlLoop`, `MCNdsctlLoop`, `NdsctlLoop_proofs` | the epoll loop of the ndsctl thread |
| `Lifecycle`, `MCLifecycle`, `Lifecycle_proofs` | setup, threads, web server restarts, shutdown, death and restart |
| `Reaper`, `Reaper_proofs` | child processes, their slots and SIGCHLD |
| `Authmon`, `Authmon_proofs` | authmon, the entries of a FAS, the portals of its clients |

How they fit. `ClientSessions` has the sessions in detail, with the clock, the rates, the
scripts' use of ndsctl and the life of the process abstracted; each of the others takes
one of those, and keeps of a session what that part can see of it: `RateLimit` one client
and the lock, `NdsctlLock` who waits for whom, `Lifecycle` states, access and what
BinAuth has heard, `Authmon` whether a client is authenticated. `NdsctlLock` and
`NdsctlLoop` share the socket: the first shows that users come one by one, the second
what the loop does with those that come one by one, and with others.

`RateLimit`, `NdsctlLock`, `NdsctlLoop` and `Lifecycle` have a variable `setting` (`Authmon`
has `May`) that keeps its first value: what may happen in this behaviour and which options are on. TLC
explores a few settings in one run; the proofs hold for all of them. Properties say in
their premise of which settings they are claimed.

### ClientSessions and the code

A **step** is what one thread does between two points where another can interfere:
taking or releasing the list mutex, starting a script or an nft command whose result
matters, and each unlocked access of a request to its pinned client.

| variable | code |
|---|---|
| `clientList`, `clientCount`, `clientId` | `firstclient` list (ids grow towards the tail), `client_count`, `client_id` |
| `heap`, `node` | allocated `t_client`s and their fields; `FreeNode` stands for freed memory |
| `trusted`, `trustRules` | `config->trustedmaclist`, rules of the trusted chain |
| `rules` | hosts with access rules |
| `listLock` | holder of `client_list_mutex` |
| `pc`, `cur`, `req`, `keep`, `override`, `pos` | locals of the threads: where they are, the client they point to, the address of the request, `session_end_explicit` as read, the session length given by `do_binauth`, the place in the walk |

| actions | code |
|---|---|
| `HttpFind`, `HttpNotAllocated`, `HttpAdd`, `HttpDispatch` | `libmicrohttpd_cb`, `client_list_add_client_pinned` |
| `HttpAuthenticate`, `HttpBinAuth*`, `HttpLock`, `HttpAfterAuth` | `authenticate_client`, `do_binauth`, `auth_client_auth` |
| `HttpServe`, `HttpDeny`, `HttpUnpin` | `preauthenticated`, `authenticated`, `client_list_unpin` |
| `AuthStart`, `AuthNoClient`, `AuthRefused`, `AuthAccept`, `AuthCountersFail`, `AuthComplete` | `auth_client_auth_nolock` and `auth_change_state` to Authenticated, for any thread |
| `DeauthStart`, `DeauthNoClient`, `DeauthEnd` | `auth_client_deauth` and `auth_change_state` to Preauthenticated |
| `NdsctlAuth`, `NdsctlDeauth`, `NdsctlTrust`, `NdsctlUntrust` | the commands of `ndsctl_handler` |
| `WatchdogStart` ... `WatchdogSleep`, `WatchdogPreempt` | `fw_refresh_client_list` |
| `SessionElapses` | the clock passes `session_end` |

What is abstracted. A session end is where it came from (`session`) and whether it
has passed (`expired`). Quotas, idle times and counters are nondeterministic: the
watchdog may find any of them exceeded. Tokens are opaque: any request of a
preauthenticated client may carry the right one. BinAuth and the DHCP check give any
answer. A trusted MAC list starts empty or full. BinAuth is asked twice for an HTTP
authentication, by `do_binauth` before the lock and by `auth_change_state` under it.

What is assumed. The nft commands that delete access rules succeed; those that add
them may fail where `AddsMayFail` is TRUE, unnoticed, because `auth_change_state` ignores
the result of `iptables_fw_authenticate` (`auth.c:444`); reading the counters and
trusting may fail too. `MaxId` bounds `client_id`, a 32-bit counter in the
code: an append beyond it is refused like one at `maxclients`. The watchdog reads the
clock once per pass, so `SessionElapses` does not happen during the walk.
MHD runs one polling thread, so `Http` has one member in the runs; the proofs
hold for any finite set.

### RateLimit and the code

One client, its two directions, the threads that touch its rates, and, where the setting
says `shared`, what else is counted at its address. Actions of the
watchdog are the stages of its turn in `fw_refresh_client_list`: `PassStarts` (reads the
clock), `PassCounts`, `PassCountsFail` (`iptables_fw_counters_update`), `PassForgets`,
`PassEndsSession`, `PassThrottles`, `PassThrottleFails`, `PassKeeps` (quotas), `PassLimits`
(windows and limits), `PassCrashes` (a division by zero). `HttpRequest`, `HttpReset`,
`HttpAuth`, `HttpAssign` are `authenticate_client`, which resets and assigns rates without
the lock; `NdsctlAuth` and `AuthRefused`, `AuthCountersFail`, `AuthCompletes` are
`auth_change_state`; `AuthCrashes` is a limit from the start that divides by zero.
`Readings` are `iptables_fw_counters_update`: a line of a chain is kept when it has more bytes
than the last one, and belongs to the first entry with its address (`fw_iptables.c:937`,
`:993`). With a shared one there are lines of others (`Lines`), at any time of their own
sessions. `FailedReadings` has the failure between the two chains, after which the
outgoing counters are new. `Limit` is the arithmetic of `iptables_*_ratelimit_enable`:
averages, packets per minute, bucket, with unsigned subtraction. `Word` stands for 2^64 and
is scaled down: what matters is that a difference below zero becomes greater than
any bucket. Time, packets and rates are small numbers of the code's own units.

### NdsctlLock and the code

`ctl` and `file` are processes of `ndsctl.c`: open, lockf, busy, connect, wait for the
answer, unlock. `at`, `job`, `took` are the threads of the daemon around a script of
`binauth_action` or `do_binauth` (`ndsctl_lock`, `ndsctl_unlock` of `util.c`). lockf locks
belong to the process and go with any descriptor of the file: `owner`, `fds`, `others`,
`lockfd` (`config->lockfd`). `Begins` is why a script runs, `TakesList` and `listLock`
the list mutex, `Serves` the ndsctl thread that takes the command of an ndsctl.
A script is a process that may run `ndsctl`, for the reasons in `calls`. `Stops`
and `Starts` remove the lock file (`conf.c:412`), as does an ndsctl without daemon.

### NdsctlLoop and the code

`queue` is the backlog, `open` and `watched` the epoll set, `ready` the kernel's list of
what has become readable, `batch` the array that `epoll_wait` filled, `count` is
`current_fd_count`. `Waits`, `HangsUp`, `Accepts`, `AcceptFails`, `Handles`, `HandlesStop`,
`NoticesShutdown` are the loop of `ndsctl_thread.c`; `Connects`, `Sends`, `Closes` the
clients. Edge-triggered: a descriptor comes to `ready` once per arrival. Commands are
"part" or "all"; what they do is in `ClientSessions`.

### Lifecycle and the code

`at["main"]` walks through `setup_from_config`, `iptables_fw_init`, `main_loop` and
`termination_handler`; `Tests`, `Quiesces`, `Stops`, `Stopped` are `stop_mhd`, which the
watchdog runs as well (`ChecksWeb`, `StartsAgain`). `chains` are the parts of the firewall,
each added by a batch of nft commands that may fail. The failures of `iptables_fw_init`
are counted in `failed` (`rc`), those of the base chains before it and of the rule sets and
nft sets after it are not. `resolve_fqdn` is in the middle of the nat batch (`Resolves`).
`marked` says that `FW_MARK_*` are set: before it every client looks authenticated.
A reset of the firewall deletes three tables (`delete_chains`), and with "nft" may
leave any of them behind (`Resets`, `Kept`), at the start, at the end and after a failed
setup. `Removes` are the rules of clients, which may stay as well.
`Gone` is the end of a process: what stays is `chains`, `access`, `sessions` (what BinAuth
has heard) and `authmon`. `AuthBegins`/`AuthEnds` and `Ends` are the critical sections of
`auth.c`. The checks of the setup are one step that may fail (`SetupFails`);
`ChecksRouting` is the check that the watchdog repeats, which may exit.
`at["main"]` is "down" after an end through `termination_handler` and "dead" after
any other: `exit(1)`, a signal that kills, a pointer to a server that is gone.
`Listening` servers hold the port. What becomes of the port of a stopped server depends
on libmicrohttpd, and the setting `itc` has both cases. A library that can quiesce hands the
listening socket to its caller; the code drops it (`http_microhttpd.c:82`), nobody closes
it, and the next `start_mhd` exits. Quiescing takes an inter-thread channel
(`MHD_USE_ITC`), which the flags of `start_mhd` do not ask for; a library that does not add it by
itself refuses, and `MHD_stop_daemon` closes the socket.

### Reaper and the code

`slot` is `reap_pids`; `pass` is `reap_registered_children` in each thread, as the SIGCHLD
handler or after `reap_register`: `Reads`, `Waits`, `Tests`, `Clears`. `Spawns`,
`Registers`, `Overflows`, `Awaits` are `execute_ret` and `download_remotes`. One SIGCHLD
may be pending for many children. A child can be registered between the test and the store
with which a handler of another thread drops the slot (`AboutToDrop`): it is lost then,
and `raced` remembers it. The constant `PidReuse` says that a pid comes back while the
daemon still has it in a variable; the run and the proofs assume that it does not.

### Authmon and the code

`Views`, `Tries`, `Authenticates`, `Fails`, `Misses`, `Acks` are the loop of `authmon.sh`;
`Verifies`, `SeesNoEntry`, `TimesOut`, `Closes` the portal of `fas-aes-https.php`; `Restarts`
and `ClearsStale` a new authmon. A batch has 4 entries in the code and `batch`, 1 or 2, in the
run, which makes batches end earlier. `banned` are clients that BinAuth refuses every
time. `Verifies` also opens a portal again that timed out or was closed. A client that
leaves and returns is another visit, because an entry is named by a hash of its token.

## Runs

| run | instance | shows | distinct states |
|---|---|---|---|
| `sessions_shared` | two MACs on one IP, BinAuth, throttling, preemptive authentication, access rules that nft may fail to add, 2 clients, 2 ids | safety of nodes, access, lifecycle, explicit durations, refinement of `PortalAccess` | 1.6 million |
| `sessions_own` | two hosts with their own IPs, one trusted and untrusted by ndsctl, access rules are added | types, and `SessionHasAccess` | 2.9 million |
| `sessions_live` | one host, one entry, two ids | liveness | 45 thousand |
| `rate_limits` | limits from the start in two directions; bursts with failing counters; requests and ndsctl at once; a neighbour with the same address; two packet sizes, clock 0..1 | limits, bits, counters; limits are lifted, quotas have effect | 172 thousand |
| `ndsctl_lock` | two users with scripts that use ndsctl; two users with restarts; two files, two descriptors | exclusion, no deadlock, descriptors | 70 thousand |
| `ndsctl_loop` | three connections on two slots, backlog 2; in pieces one by one, or at once with the end of the daemon | slots, the listening socket, answers | 67 thousand |
| `lifecycle` | two clients, two starts, three servers; orderly ends with restarts of the web server, requests that race the end, deaths, failing nft commands with and without a FQDN; sockets closed or dropped | the firewall, BinAuth, the web server, the end | 694 thousand |
| `reaping` | watchdog and main, two slots, three pids | no child is lost, but in one race, or taken away | 110 thousand |
| `authmon` | two visits, batches of one and two, clients refused always; lost requests, busy lock, refusals, retries; restarts; neither | portals, service, acknowledgements | 57 thousand |
| `throttled_times_out` | one host | violated, see Findings | |
| `explicit_override` | as `sessions_shared` | violated | |
| `shared_ip` | as `sessions_shared` | violated | |

Bounds. Two hosts are the fewest that can share an address, be confused with each
other or compete for `maxclients`; two ids are the fewest with which an entry is
deleted while pinned and its host comes back as a new one. Three threads run in
every instance of `ClientSessions`. One address for both hosts and one for each are
separate runs, because `SessionHasAccess` is claimed only for the latter. The options
(BinAuth, throttling, preemptive authentication, a global session timeout) are all on:
each only adds actions, and the outcomes without it remain possible choices.
Three connections on two slots fill the loop with one to spare; two slots for
children overflow with three; two starts let a daemon find what another left; three servers
are two restarts, of which the second can meet a server that was lost to the first; a clock
of two values has a pass that read it before and one that read it after an authentication,
and windows of one and two passes end more than once.
Two visits let one entry stand before another in a batch of one, and share a batch of two.
Deadlock is checked where the system cannot stop (`reaping`, `authmon`), and not where
the instance stops at a bound or the daemon ends.

What the properties say:

- `NoUseAfterFree`, `NodesAccountedFor`: the protocol of `refcount`, `dead` and
  `client_count` across deletion and unpinning; nothing leaks, nothing is freed twice.
- `OneEntryPerHost`: the second look of `client_list_find_or_append` is enough.
- `AccessHasSession`: no failure path leaves access rules without a session.
- `SessionHasAccess`: conversely, with an address per host and an nft that adds what it is
  told to, a session has its rules.
- `SessionLifecycle`: states only go forward, rules are gone before the entry is.
- `ExplicitFlagTransient`, `ExplicitYieldsOnlyToRequest`: `session_end_explicit` ends
  with its command, and the quota file of that command does not outrank it.
- `ImplementsPortal`: the refinement mapping takes the hosts of the list as `known` and
  `rules` as `access`. Threads, locks, scripts and node states disappear.
- `SessionTimesOut`, `DeadNodesFreed`, `RequestsComplete`: liveness.
- `CountersOrdered`: for a client with an address of its own, no interleaving of
  authentication, throttling and failing counters makes a difference of counters wrap around
  or divide bytes by no packets. With a shared address only the bytes are in order.
- `LimitSane`: an installed limit lets something through. `BitMatchesRule`: between the
  critical sections, for a client with an address of its own, a bit of `rate_exceeded` has a
  rule where every client has a rate or no bit is set before there is a rule, whoever
  authenticates; a rule has a bit while only ndsctl does. `LimitLifts`: a limit does not
  outlast a quiet window. `OverQuotaIsSlowed`: a used up quota has its effect, also when
  throttling fails half-way.
- `OneNdsctl`: one ndsctl at a time; when the daemon restarts, which removes the file, one
  for each file. `ScriptExcludesNdsctl`, `ScriptsLockedOut`, `DescriptorsKept`: what the lock
  file is for, while requests are the only ones to lock it. `EverybodyReturns`: nobody waits
  for a script that waits for him, for reasons that take the lock.
- `SlotsExact`, `AcceptingWithRoom`: the count by hand agrees with the epoll set, and
  the listening socket comes back. `EverybodyAnswered`: no edge is lost.
- `CleanExit`, `SessionsClosed`: what `termination_handler` leaves behind while
  requests, commands and the watchdog race it. `CleanExit` in every setting, also after
  daemons that died: no authmon, and no rules if nft can delete its tables.
  `AccessHasEntry`: what a daemon that dies leaves does no harm to the next, as long as nft
  obeys. `FirewallComplete`: whatever fails, the threads only run on what
  `iptables_fw_init` adds, less what `resolve_fqdn` hides. `OneServer`: until the main thread
  has stopped the web server, nothing listens but what `webserver` points to, although the
  watchdog stops and starts it at the same time, or exits in trying. `SignalStops`:
  shutdown does not deadlock with the threads it waits for.
- `ChildrenTracked`, `CommandsKept`, `ZombiesCollected`: every child is collected, by
  the right thread, though handlers run in several threads at once; the one way to lose a
  child is to register it in a slot that is being dropped.
- `PortalTrue`, `ServedAcked`: what a FAS tells its clients is true, and an entry that was
  served is acknowledged. `VerifiedServed`: an entry of a client that BinAuth does not always
  refuse is served, unless entries that cannot succeed fill the batches before it.

Fairness. In `ClientSessions` each thread takes its next step when it can (weak fairness on
authentication, where the thread holds the lock); a thread that waits for the mutex
gets it when it is free again and again (strong fairness), which a futex mutex under
a fair scheduler gives in practice; scripts end. The preemptive loop
ends because each record is removed when it is read, hence strong fairness of
`WatchdogStep`, which includes `WatchdogSleep`. Nothing makes requests, commands or
records come. Passes in which the counters cannot be read are not modelled as steps:
nothing ends while that goes on. The other modules are the same: weak fairness of threads,
and strong fairness of what competes for a lock or may fail now and then:
`PassCounts` (the mutex; counters do not fail for ever) in `RateLimit`; `TakesList`,
`ScriptEnds` and `Serves` in `NdsctlLock`; `DeauthsAll` (the mutex) and `NdsctlEnds` (the
thread looks for the signal between commands) in `Lifecycle`; `Awaits` (`waitpid` looks
for the child each time it is entered again after a signal) in `Reaper`; `Views`,
`Acks` and `Authenticates` (requests and ndsctl do not fail for ever, but for clients in
`banned`, which BinAuth refuses every time) in `Authmon`. A client
that has connected to ndsctl sends or dies, as `ndsctl` does. Signals, restarts, faults
and time are never made to happen.

Operators marked "Fault" are deliberate faults, used to confirm that each property
can detect one; the specifications do not use them.

## Findings

Three have a run:

- A throttled client (AUTH_BLOCKED) is never deauthenticated: `auth_change_state`
  refuses every change from that state (`auth.c:631`), although the documentation
  says that clients are deauthenticated at the end of the session timeout
  (`throttled_times_out`). This is why `SessionTimesOut` speaks of `Authenticated`.
- `authenticate_client` writes the session length of its BinAuth call after
  `auth_client_auth`, whatever that returned, over a duration that `ndsctl auth` gave in
  between; a comment says it is never overridden (`explicit_override`).
- Two entries may have the same IP, although a comment at the insertion says
  otherwise (`shared_ip`). Rules are deleted by IP: deauthenticating one host takes
  the access of the other, which stays Authenticated.

The others explain the premises of the properties above, or are states that the models
reach. Each can be seen by adding or changing the setting, constant or formula that is named, in the run of its module.

| code | what it does | against | how to see it |
|---|---|---|---|
| `auth.c:867` | the pass reads the clock before its scripts and the lock; a window that starts later makes the duration 0, and the rates divide by it | "1 second added to prevent divide by zero" (`auth.c:868`) | `SecondAddedPreventsDivideByZero` in `rate_limits`; `PassCrashes` |
| `fw_iptables.c:601` | `packets - packet_limit` is unsigned: below the quota, the bucket becomes the maximum | "no memory is consumed" (config file) | `BucketForExcess` |
| `auth.c:954` | `ratecheckwindow` 0 limits as any other value does | "Setting to 0 disables all Data Rate Quotas" (`traffic.rst:71`) | `ZeroWindowDisables` with `window` 0 |
| `http_microhttpd.c:625` | a request resets `rate_exceeded` without the lock, also of a client that has just been limited | "Bit 0 matches the download limit rule" (`auth.c:603`) | `BitMatchesRule` without `"http" \notin Authenticators` |
| `auth.c:631` | with no rates configured and `unrestricted_bursting` 0, the direction that is throttled second has its rate and its bit, but its `auth_change_state` is refused: no rule until a window ends | "Bit 0 matches the download limit rule. It may already be set." (`auth.c:603`) | `BitsAlwaysMatch` with `ConfigRate` 0, `GivenRate` {}, `FupRate` 1 |
| `util.c:375` | the watchdog and a request hold the lock together; the second open replaces `lockfd` and the first close drops the lock | "ndsctl will deadlock if run within the BinAuth script so lock it" | add "preemptive_auth" or "throttle" to `jobs`, and drop `OneLocker` from `ScriptExcludesNdsctl` or `DescriptorsKept` |
| `auth.c:348` | scripts for `timeout_deauth`, `client_deauth` and such run without the lock | "all functions of ndsctl are locked from use within binauth" | `calls` beyond `LockedOut` |
| `auth.c:349` | the script runs also when `ndsctl_lock` failed | the same | `calls` with "client_auth" |
| `conf.c:412`, `ndsctl.c:256` | a lock file is removed while it is locked | "then it is locked already" (`auth.c:347`) | `OneNdsctl` without `file[p] = file[q]`, in the setting `Restarts` |
| `ndsctl_thread.c:400` | an incomplete command is executed, and then called invalid | "Invalid ndsctl request" | `ran[c] = "part"` is reached |
| `fw_iptables.c:692` | counters are attributed by address: with two clients on one, readings of the one follow those of the other, packet counts go back or stay equal, and the averages wrap or divide by zero | "This rule is for marking upload (outgoing) packets, and for upload byte accounting" (`fw_iptables.c:770`) of one client | `CountersOrdered` without `~IpShared`; `AuthCrashes` and `PassCrashes` in the setting `Neighbour` |
| `auth.c:444` | the result of `iptables_fw_authenticate` is ignored: a client is shown as authenticated and has no rules | "The allow rules are already installed." (`auth.c:543`) | `SessionHasAccess` in `sessions_own` with `AddsMayFail` TRUE |
| `fw_iptables.c:556` | a failing `delete_chains` is ignored: the daemon exits with rules in place | "there are no rules left over from a crash" (`fw_iptables.c:541`) | `CleanExit` without `~NftFails` |
| `main.c:926` | rule sets and nft sets are added after the result has been tested: they may be missing | "Error initializing firewall rules!" (`main.c:919`) | "sets" in `FirewallComplete` |
| `util.c:314` | the watchdog exits when it finds no route, with all rules in place | "Use this function anytime you need to exit" (`main.c:191`) | "unroutable" |
| `http_microhttpd.c:82` | the socket that `MHD_quiesce_daemon` returns is dropped: with a library that quiesces, the port stays taken and every restart of the web server exits | "MHD Restarted" (`auth.c:1130`) | `itc` TRUE with "unresponsive": `at["watchdog"] = "start"` ends in "dead" |
| `http_microhttpd.c:116` | a failing restart of the web server exits the process with all rules in place | "Use this function anytime you need to exit" (`main.c:191`) | `at["main"] = "dead"` with `chains` not empty is reached |
| `http_microhttpd.c:81` | the watchdog and the main thread stop the web server together | "Prevent reuse of stale pointer" | `Crashes` is reached |
| `http_microhttpd.c:86` | the main thread clears the pointer to a server that the watchdog has just started: it serves on while the daemon cleans up, and a further restart finds the port taken | "Prevent reuse of stale pointer" | `OneServer` without `WebDone` |
| `http_microhttpd.c:503` | before the marks are set, every client is served as authenticated | "for all request from authenticated clients" | `page[c] = "status"` of a client in `preauth` |
| `client_list.c:178` | a trusted client entered before the marks are set stays preauthenticated | "Trusted client does not trigger the splash page" | `page[c] = "splash"` of a trusted one |
| `fw_iptables.c:399` | the result of `resolve_fqdn` replaces the failures before it | "Error initializing firewall rules!" | `FirewallComplete` without `~FasFqdn` |
| `main.c:214`, `main.c:806` | authmon is started at any level from 3, and killed at 3 and 4 | | `FasLevel` 5 |
| `util.c:435` | a slot is tested and dropped in two steps without the mutex | "only when it still holds this pid" | `DropsOnlyItsPid`; `ChildrenTracked` without `p \in raced` |
| `util.c:431` | a handler waits for a pid that has become another child | "would take a child another thread is waiting for" | `PidReuse` TRUE, `CommandsKept` |
| `fas-aes-https.php:659`, `:423` | a second tab that times out, or a new authmon, removes an entry: the portal says success | "no list so must be authed" (`:644`) | `Tabs` 2, or "restart" |
| `authmon.sh:188` | a lost acknowledgement is never repeated | `fas-aes-https.php:347` | "lose" out of the premise of `ServedAcked` |
| `authmon.sh:197` | every batch starts with the same entries: those that fail for good, of clients that left or that BinAuth always refuses, starve the others | `fas.rst:67` | `Starved` out of `VerifiedServed` |
| `authmon.sh:25` | looks for "locked" where ndsctl says "busy" | `authmon.sh:194` | `status = "ready"` with "busy" |

## Proofs

### Sessions

For any sets of hosts and HTTP threads, any `MaxClients` and `MaxId` and any options
(`ConstantsAssumption`), TLAPS proves `Spec => []P` for `TypeOK`,
`NodesAccountedFor`, `NoUseAfterFree`, `OneEntryPerHost`, `AccessHasSession`,
`SessionHasAccess` and `ExplicitFlagTransient`, and `Spec => P` for the action
properties `SessionLifecycle` and `ExplicitYieldsOnlyToRequest` and for the refinement
`ImplementsPortal`.

The argument. `NodesAccountedFor` is not inductive: to know that a freed node has no
user one needs that requests point into the heap (`HeldInv`) and have a client exactly at
certain labels (`PinInv`); to know that a new id is unused, that ids grow (`ListInv`);
to delete a client after its script, that it is still listed and in the state that was
tested (`WorkInv`), which holds because only the thread that holds the lock is at a
critical label (`LockInv`). `IInv` is the conjunction of these. The proofs avoid 26
cases each: `ListSteps` shows that every step is quiet, pins, unpins, joins or leaves,
and `SessionSteps` that every step stands beside the sessions, joins a host, or is one
of eight actions that change a state or a rule. `AccessHasSession` and
`SessionHasAccess` are inductive with `IInv`, the latter (with `~AddsMayFail`) together with
`Installed` (the rules are in while the counters are read). The
refinement follows from `SessionSteps`, `OneEntryPerHost` (deleting an entry removes its host) and
`AccessHasSession` (an idle entry that is deleted has no rules).

`ExplicitYieldsOnlyToRequest` needs one more invariant, `GivenInv`: a command that has
been refused leaves its explicit length behind without the flag, so what matters is
that the next `ndsctl auth` or preemptive record overwrites the length before BinAuth is
asked, and that the flag it sets is the local `session_end_explicit` by the time the quota
file is read. `LengthSteps` sorts the steps: most leave the lengths of entries that stay
listed, two take the flag or let go, two are requests that write unlocked, and two give a
length, to a client that is not being authenticated yet (`Alone`) or is new.

### The other components

Each module has one inductive invariant, proved for every value of the constants under
the module's assumption, and every theorem follows from it.

| module | theorems (`Spec => []P`) | invariant and argument |
|---|---|---|
| `RateLimit_proofs` | `TypeOK`, `CountersOrdered`, `LimitSane`, `BitMatchesRule` | `CounterInv`: the bytes that are kept grow with every line that is read, whosever it is; where the lines are the client's own, every step starts the counters again, reads them, sends a packet, moves the start of the window to the last reading, or leaves them; being later is transitive, and a packet adds to both counts. `RateInv` adds the limits: whatever the averages and the wrapping subtraction give, what is divided by is at least 1, and `Limit` cuts the rest (`LimitIsSane`, `AverageSize`). `BitInv`: a client without access has neither bits nor rules, so what an authentication adds is all there is; with access, a critical section (`LockInv`) that changes one changes the other. `BackInv`, the half that requests cannot break: they take bits away, and a bit that is set has its rule, set with it or there from the start |
| `NdsctlLock_proofs` | `TypeOK`, `OneNdsctl`, `ScriptExcludesNdsctl`, `ScriptsLockedOut`, `DescriptorsKept` | `LockInv`: who owns a file has it open (`OwnInv`), what a thread at a label has locked and why (`JobInv`), where a single locker keeps its descriptor (`LockerInv`), that the ndsctl whose command runs waits with the lock held (`ServedInv`), and that without restarts there is one file (`CalmInv`). Two that are inside with the same file would both own it, and so would the daemon and an ndsctl beside its script |
| `NdsctlLoop_proofs` | `SlotsExact`, `AcceptingWithRoom` | `LoopInv` adds that queued connections are not open and events in the batch belong to open descriptors, once each (`QueueInv`, `BatchInv`): only what is open is counted out, and only once |
| `Lifecycle_proofs` | `TypeOK`, `AccessHasEntry`, `FirewallComplete`, `CleanExit` (for `FasLevel` up to 4, the documented values), `SessionsClosed`, `OneServer` | `StageInv`: without a failure that is known, the parts of the firewall are there that the main thread is past, those before `resolve_fqdn` only without a FQDN; the base chains are there because nothing can be added without them. `CleanInv`: authmon is killed before the end, chains go last where nft can delete them, and without them nobody gets access. `CloseInv`: the ndsctl thread has ended before the web server is stopped, and the server with its requests before `auth_client_deauth_all`, so a session that BinAuth has heard of is in the list by then and none begins after it; `HealthInv`: in these settings the server runs until it is stopped, so the process does not die on the way. `WebInv`: the watchdog begins after the first start, and while it waits for its server to stop nothing listens, so that clearing the pointer then loses nothing, whether or not the port is free |
| `Reaper_proofs` | `ChildrenTracked`, `CommandsKept`, assuming `Timely` (`~PidReuse`) | a pid in a slot or a handler is not awaited by another thread, and a slot that is about to be cleared holds a pid that has been collected, or one that has raced |
| `Authmon_proofs` | `PortalTrue` | without other tabs and restarts only an acknowledgement removes an entry that a portal waits on, and only served visits are acknowledged |

Every invariant and action property that a run checks is proved. Only model-checked:
liveness (fairness and ENABLED are beyond the prover), that is `SessionTimesOut`,
`DeadNodesFreed`, `RequestsComplete`, `LimitLifts`, `OverQuotaIsSlowed`, `EverybodyReturns`,
`EverybodyAnswered`, `SignalStops`, `ZombiesCollected`, `VerifiedServed` and `ServedAcked`.
Left to prove: that the auth and deauth steps of `Lifecycle` refine `PortalAccess`, which
would need the portal to lose everything at once when the firewall is reset.

## Not modelled

- Pages, templates, redirects, query strings, json and logging: wording and parsing.
- The library script `libopennds.sh`: shell commands around nft and the client info files.
  Only `delete_chains` has actions of its own (`Resets`). The models have the results that
  the daemon uses. Outside them stays, for instance, that a preemptive record is removed before the client has been authenticated.
- `dnsconfig.sh`, the walled garden and packaging: edits of other programs' files.
- The example BinAuth scripts: their answers are nondeterministic. That they are
  locked out of ndsctl is in `NdsctlLock`.
- The themes and the other FAS examples; the list of entries that a reply to authmon can
  hold (1024 characters).
- The configuration reader: its values are constants and settings. The reset of the
  firewall and of the lock file at the start are steps of `Lifecycle` and `NdsctlLock`.
- Not a property: sessions that the watchdog opens or throttles while the daemon shuts down are never
  closed for BinAuth; `SessionsClosed` leaves them out.
- That nft fails to delete the rules of one client is in `Lifecycle` and not in
  `ClientSessions`, where only adding them may fail. In `RateLimit` limit rules are put in
  place and lifted as told.
- Which sessions share an address is a setting of `RateLimit` for its one client; the
  mutual effect of two clients that are limited at one address is not modelled.
