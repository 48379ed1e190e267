------------------------------- MODULE Lifecycle -------------------------------
(***************************************************************************)
(* The daemon from its start to its end (main.c, conf.c, fw_iptables.c):   *)
(* the main thread sets up the web server and then the firewall, creates   *)
(* the watchdog and the ndsctl thread, waits for the latter, and cleans up *)
(* while the watchdog still runs.  The watchdog also stops and starts the  *)
(* web server (libmicrohttpd, MHD).  Clients are served by the thread of   *)
(* whichever server runs.  The process may die and be started again: what  *)
(* remains is the firewall, authmon, and what BinAuth has been told.  Most *)
(* results of nft commands are not looked at.                              *)
(***************************************************************************)
EXTENDS Integers, FiniteSets

CONSTANTS
  Settings,     \* the settings that are explored
  Client,
  FasLevel,     \* fas_secure_enabled; authmon runs at level 3
  MaxStarts,    \* bound: starts of the daemon
  MaxServer     \* bound: starts of a web server

Events == {"signal",      \* SIGTERM, SIGINT or SIGQUIT
           "stop",        \* the ndsctl thread ends by itself
           "kill",        \* the process dies
           "nft",         \* an nft command fails
           "setup",       \* a check of the setup, or creating a thread, fails
           "unresponsive",\* mhdcheck reports that the web server fails
           "unroutable",  \* check_routing finds no valid route
           "restart",     \* starting the web server again fails
           "early",       \* requests and signals come before the threads run
           "preemptive",  \* the watchdog authenticates
           "throttle"}    \* the watchdog throttles

\* Of a setting: what may happen, the clients on the list of trusted MACs,
\* whether fas_remotefqdn is set, and whether MHD has what it takes to quiesce a
\* server (MHD_USE_ITC, by the flags or by the library's own choice): if so, it
\* hands the socket over to its caller, who drops it.
Setting == [may : SUBSET Events, trusted : SUBSET Client, fqdn : BOOLEAN, itc : BOOLEAN]

ASSUME LifecycleConstants ==
  /\ IsFiniteSet(Client) /\ Settings \subseteq Setting
  /\ FasLevel \in Nat
  /\ MaxStarts \in Nat \ {0} /\ MaxServer \in Nat \ {0}

VARIABLES
  setting,    \* one of Settings, for the whole behaviour
  at,         \* where each thread is
  starts,     \* the daemons so far
  signalled,  \* shutdown_requested
  chains,     \* parts of the firewall that are there
  failed,     \* rc of iptables_fw_init is not 0
  marked,     \* FW_MARK_AUTHENTICATED and FW_MARK_TRUSTED are set
  web,        \* webserver: a server, or 0 for NULL
  server,     \* the state of each server
  victim,     \* the server that a thread is stopping
  http,       \* the client that waits for its authentication on each server
  state,      \* fw_connection_state of the clients in the list, "none" of others
  listLock,   \* who authenticates a client with the list locked
  authing,    \* and which
  access,     \* clients with rules that let them through
  sessions,   \* clients of which BinAuth has heard a start and no end
  page,       \* what each client was shown last
  authmon     \* authmon daemons that run

daemonVars == <<starts, signalled>>
fwVars == <<chains, failed, marked>>
webVars == <<web, server, victim>>
clientVars == <<http, state, listLock, authing, access, sessions, page>>
vars == <<setting, at, daemonVars, fwVars, webVars, clientVars, authmon>>

May == setting.may
TrustedMac == setting.trusted
FasFqdn == setting.fqdn
Itc == setting.itc
NftFails == "nft" \in May

Thread == {"main", "watchdog", "ndsctl"}
Server == 1..MaxServer
NoServer == 0
NoClient == "nobody"

\* Who has locked the list: a server, or one of the two other threads.
Nobody == 0
TheWatchdog == MaxServer + 1
TheNdsctl == MaxServer + 2

\* What is added to the firewall, in this order: the tables with their base
\* chains, the mangle chains, the nat chain and its marks, the rules for the FAS
\* and port 80, the filter chains, the rule sets with the nft sets.
Parts == {"base", "mangle", "nat", "redirect", "filter", "sets"}
Tables == {{"mangle"}, {"nat", "redirect"}, {"filter", "sets"}}

Goto(t, l) == at' = [at EXCEPT ![t] = l]

\* The process has ended: through termination_handler, or otherwise.
Alive == at["main"] \notin {"down", "dead"}

\* Everything the process kept in memory is gone; nobody's thread runs.
Gone(l) ==
  /\ at' = [t \in Thread |-> IF t = "main" THEN l ELSE "off"]
  /\ marked' = FALSE /\ failed' = FALSE /\ signalled' = FALSE
  /\ web' = NoServer /\ victim' = [t \in Thread |-> NoServer]
  /\ server' = [d \in Server |-> "none"] /\ http' = [d \in Server |-> NoClient]
  /\ state' = [c \in Client |-> "none"]
  /\ listLock' = Nobody /\ authing' = NoClient
  /\ page' = [c \in Client |-> "none"]

Init ==
  /\ setting \in Settings
  /\ at = [t \in Thread |-> IF t = "main" THEN "down" ELSE "off"]
  /\ starts = 0 /\ signalled = FALSE
  /\ chains = {} /\ failed = FALSE /\ marked = FALSE
  /\ web = NoServer /\ server = [d \in Server |-> "none"]
  /\ victim = [t \in Thread |-> NoServer]
  /\ http = [d \in Server |-> NoClient]
  /\ state = [c \in Client |-> "none"]
  /\ listLock = Nobody /\ authing = NoClient
  /\ access = {} /\ sessions = {} /\ page = [c \in Client |-> "none"]
  /\ authmon = 0

-----------------------------------------------------------------------------
(* Starting                                                                *)

\* Fault: the rules of the last daemon are kept.
KeepsRules ==
  /\ ~Alive /\ starts < MaxStarts
  /\ starts' = starts + 1
  /\ chains' = chains \cup {"base"}
  /\ Goto("main", "setup")
  /\ UNCHANGED <<signalled, failed, marked, webVars, clientVars, authmon>>

\* What iptables_fw_destroy leaves behind: it deletes the tables one by one and
\* does not look whether it could.
Kept(left) == IF left = {} THEN {} ELSE chains \cap ({"base"} \cup UNION left)

Resets(left) ==
  /\ left # {} => NftFails
  /\ access' = IF {"mangle"} \in left THEN access ELSE {}

\* config_init resets the firewall and adds the base chains, without looking at
\* the results.
Configures ==
  /\ ~Alive /\ starts < MaxStarts
  /\ starts' = starts + 1
  /\ \E left \in SUBSET Tables :
       /\ Resets(left)
       /\ \/ chains' = Kept(left) \cup {"base"}
          \/ NftFails /\ chains' = Kept(left)
  /\ Goto("main", "setup")
  /\ UNCHANGED <<signalled, failed, marked, webVars, http, state, listLock, authing,
                 sessions, page, authmon>>

\* exit(1): the process ends without cleaning up.
Quits == Gone("dead") /\ UNCHANGED <<starts, chains, access, sessions, authmon>>

SetupFails ==
  /\ "setup" \in May
  /\ at["main"] \in {"setup", "web", "fas"}
  /\ Quits

\* The library, its MHD, routing, the FAS lists and dnsmasq.
ChecksLibrary ==
  /\ at["main"] = "setup"
  /\ Goto("main", "web")
  /\ UNCHANGED <<daemonVars, fwVars, webVars, clientVars, authmon>>

\* A server that has not been stopped holds the port; a socket that has been
\* handed over is never closed.
Listening(d) == server[d] \in {"running", "quiesced"}
PortTaken == \E d \in Server : Listening(d) \/ (Itc /\ server[d] # "none")

\* start_mhd.
Started(d) ==
  /\ ~PortTaken
  /\ server[d] = "none" /\ \A e \in Server : server[e] = "none" => d <= e
  /\ server' = [server EXCEPT ![d] = "running"]
  /\ web' = d

StartsWeb ==
  /\ at["main"] = "web"
  /\ \E d \in Server : Started(d)
  /\ Goto("main", "fas")
  /\ UNCHANGED <<daemonVars, fwVars, victim, clientVars, authmon>>

\* The FAS: any authmon is killed, and one is started at level 3.
StartsAuthmon ==
  /\ at["main"] = "fas"
  /\ authmon' = IF FasLevel >= 3 THEN 1 ELSE authmon
  /\ Goto("main", "marks")
  /\ UNCHANGED <<daemonVars, fwVars, webVars, clientVars>>

SetsMarks ==
  /\ at["main"] = "marks"
  /\ marked' = TRUE /\ failed' = FALSE
  /\ Goto("main", "mangle")
  /\ UNCHANGED <<daemonVars, chains, webVars, clientVars, authmon>>

\* Without the tables nothing can be added to them.
Added(part) == "base" \in chains /\ chains' = chains \cup {part}
NotAdded == (NftFails \/ "base" \notin chains) /\ UNCHANGED chains

\* Fault: the failure of a command is not added up.
AddsUnnoticed(part) == (Added(part) \/ NotAdded) /\ UNCHANGED failed

\* A command of nftables_do_command, tried five times, succeeds or fails.
Adds(part) ==
  \/ Added(part) /\ UNCHANGED failed
  \/ NotAdded /\ failed' = TRUE

AddsMangle ==
  /\ at["main"] = "mangle"
  /\ Adds("mangle")
  /\ Goto("main", "nat")
  /\ UNCHANGED <<daemonVars, marked, webVars, clientVars, authmon>>

AddsNat ==
  /\ at["main"] = "nat"
  /\ Adds("nat")
  /\ Goto("main", IF FasFqdn THEN "resolve" ELSE "redirect")
  /\ UNCHANGED <<daemonVars, marked, webVars, clientVars, authmon>>

\* resolve_fqdn: its result takes the place of the results so far.
Resolves ==
  /\ at["main"] = "resolve"
  /\ \/ failed' = FALSE
     \/ "setup" \in May /\ failed' = TRUE
  /\ Goto("main", "redirect")
  /\ UNCHANGED <<daemonVars, chains, marked, webVars, clientVars, authmon>>

AddsRedirect ==
  /\ at["main"] = "redirect"
  /\ Adds("redirect")
  /\ Goto("main", "filter")
  /\ UNCHANGED <<daemonVars, marked, webVars, clientVars, authmon>>

AddsFilter ==
  /\ at["main"] = "filter"
  /\ Adds("filter")
  /\ Goto("main", "checked")
  /\ UNCHANGED <<daemonVars, marked, webVars, clientVars, authmon>>

\* "Error initializing firewall rules! Cleaning up".
FirewallFails ==
  /\ at["main"] = "checked" /\ failed
  /\ \E left \in SUBSET Tables : Resets(left) /\ chains' = Kept(left)
  /\ Gone("dead")
  /\ UNCHANGED <<starts, sessions, authmon>>

\* The rule sets, and the nft sets of the walled garden and the block list:
\* nobody looks whether they were added.
AddsSets ==
  /\ at["main"] = "checked" /\ ~failed
  /\ Added("sets") \/ NotAdded
  /\ Goto("main", "sets")
  /\ UNCHANGED <<daemonVars, failed, marked, webVars, clientVars, authmon>>

\* A signal is looked for; without one the two threads are created.
CreatesThreads ==
  /\ at["main"] = "sets"
  /\ \/ /\ signalled
        /\ Goto("main", "authmon")
     \/ /\ ~signalled
        /\ at' = [at EXCEPT !["main"] = "join", !["watchdog"] = "check",
                            !["ndsctl"] = "loop"]
     \/ /\ ~signalled /\ "setup" \in May
        /\ \E w \in {"off", "check"} :
             at' = [at EXCEPT !["main"] = "authmon", !["watchdog"] = w]
  /\ UNCHANGED <<daemonVars, fwVars, webVars, clientVars, authmon>>

-----------------------------------------------------------------------------
(* Stopping and starting the web server                                    *)

\* Where a thread goes when it has stopped the server.
After(t) == IF t = "main" THEN "authmon" ELSE "start"

\* stop_mhd does nothing when there is no server.
Tests(t) ==
  /\ at[t] = "test"
  /\ Goto(t, IF web = NoServer THEN After(t) ELSE "quiesce")
  /\ UNCHANGED <<daemonVars, fwVars, webVars, clientVars, authmon>>

Pointed == IF web = NoServer THEN "null" ELSE server[web]

\* The pointer is read again, and leads to a server that is gone.
Stale(t) == \/ at[t] = "quiesce" /\ Pointed \in {"null", "stopped"}
            \/ at[t] = "stop" /\ Pointed \in {"stopping", "stopped"}

Crashes(t) == Stale(t) /\ Quits

\* Fault: the pointer is cleared before the server is stopped.
ClearsFirst(t) ==
  /\ at[t] = "quiesce" /\ ~Stale(t)
  /\ server' = [server EXCEPT ![web] = IF Itc /\ @ = "running" THEN "quiesced" ELSE @]
  /\ web' = NoServer
  /\ Goto(t, "stop")
  /\ UNCHANGED <<daemonVars, fwVars, victim, clientVars, authmon>>

\* MHD_quiesce_daemon takes the socket away, or refuses to.
Quiesces(t) ==
  /\ at[t] = "quiesce" /\ ~Stale(t)
  /\ server' = [server EXCEPT ![web] = IF Itc /\ @ = "running" THEN "quiesced" ELSE @]
  /\ Goto(t, "stop")
  /\ UNCHANGED <<daemonVars, fwVars, web, victim, clientVars, authmon>>

\* MHD_stop_daemon joins the thread of the server; it closes a socket that has
\* not been handed over.
Stops(t) ==
  /\ at[t] = "stop" /\ ~Stale(t)
  /\ IF web = NoServer THEN UNCHANGED server
     ELSE server' = [server EXCEPT ![web] = "stopping"]
  /\ victim' = [victim EXCEPT ![t] = web]
  /\ Goto(t, "stopping")
  /\ UNCHANGED <<daemonVars, fwVars, web, clientVars, authmon>>

Stopped(t) ==
  /\ at[t] = "stopping"
  /\ victim[t] # NoServer => http[victim[t]] = NoClient
  /\ server' = [d \in Server |-> IF d = victim[t] THEN "stopped" ELSE server[d]]
  /\ victim' = [victim EXCEPT ![t] = NoServer]
  /\ web' = NoServer
  /\ Goto(t, After(t))
  /\ UNCHANGED <<daemonVars, fwVars, clientVars, authmon>>

StopsWeb(t) == Tests(t) \/ Crashes(t) \/ Quiesces(t) \/ Stops(t) \/ Stopped(t)

-----------------------------------------------------------------------------
(* The watchdog                                                            *)

ChecksWeb ==
  /\ at["watchdog"] = "check"
  /\ \/ Goto("watchdog", "route")
     \/ /\ "unresponsive" \in May /\ \E d \in Server : server[d] = "none"
        /\ Goto("watchdog", "test")
  /\ UNCHANGED <<daemonVars, fwVars, webVars, clientVars, authmon>>

\* Without a server the process exits.
StartsAgain ==
  /\ at["watchdog"] = "start"
  /\ \/ /\ \E d \in Server : Started(d)
        /\ Goto("watchdog", "route")
        /\ UNCHANGED <<daemonVars, fwVars, victim, clientVars>>
     \/ ("restart" \in May \/ PortTaken) /\ Quits
  /\ UNCHANGED authmon

\* fw_refresh_client_list begins with check_routing, which may exit.
ChecksRouting ==
  /\ at["watchdog"] = "route"
  /\ \/ /\ Goto("watchdog", "pass")
        /\ UNCHANGED <<daemonVars, fwVars, webVars, clientVars>>
     \/ "unroutable" \in May /\ Quits
  /\ UNCHANGED authmon

\* Rules of clients are deleted, or deleting them fails unnoticed.
Removes(cs) ==
  \E left \in SUBSET (access \cap cs) :
    /\ left # {} => NftFails
    /\ access' = (access \ cs) \cup left

\* A session ends: its rules, BinAuth and the list.
Ends(c) ==
  /\ listLock = Nobody /\ marked /\ state[c] = "auth"
  /\ Removes({c}) /\ sessions' = sessions \ {c}
  /\ state' = [state EXCEPT ![c] = "none"]
  /\ UNCHANGED <<http, listLock, authing, page>>

\* auth_change_state: BinAuth is asked, with the list locked.
AuthBegins(by, c) ==
  /\ listLock = Nobody
  /\ marked /\ state[c] = "preauth"
  /\ listLock' = by /\ authing' = c
  /\ sessions' = sessions \cup {c}
  /\ UNCHANGED <<access, page>>

\* Fault: the list stays locked.
AuthEndsLocked ==
  /\ listLock # Nobody /\ state[authing] = "preauth"
  /\ state' = [state EXCEPT ![authing] = "auth"]
  /\ http' = [d \in Server |-> IF d = listLock THEN NoClient ELSE http[d]]
  /\ UNCHANGED <<at, daemonVars, fwVars, webVars, listLock, authing, access, sessions,
                 page, authmon>>

\* The rules go in if their chains are there; nobody looks whether they did.
AuthEnds ==
  /\ listLock # Nobody
  /\ \/ "mangle" \in chains /\ access' = access \cup {authing}
     \/ ("mangle" \notin chains \/ NftFails) /\ UNCHANGED access
  /\ state' = [state EXCEPT ![authing] = "auth"]
  /\ http' = [d \in Server |-> IF d = listLock THEN NoClient ELSE http[d]]
  /\ listLock' = Nobody /\ authing' = NoClient
  /\ UNCHANGED <<at, daemonVars, fwVars, webVars, sessions, page, authmon>>

\* What a client gets when it is entered into the list.
EntryOf(c) == IF c \in TrustedMac /\ marked THEN "trusted" ELSE "preauth"

EndsInPass(c) ==
  /\ at["watchdog"] = "pass"
  /\ Ends(c)
  /\ UNCHANGED <<at, daemonVars, fwVars, webVars, authmon>>

Throttles(c) ==
  /\ "throttle" \in May /\ at["watchdog"] = "pass"
  /\ listLock = Nobody /\ state[c] = "auth"
  /\ state' = [state EXCEPT ![c] = "blocked"]
  /\ UNCHANGED <<at, daemonVars, fwVars, webVars, http, listLock, authing, access,
                 sessions, page, authmon>>

\* client_auth of the next record: the client is added if need be.
Preempts(c) ==
  /\ "preemptive" \in May /\ at["watchdog"] = "pass"
  /\ listLock = Nobody
  /\ \/ /\ state[c] = "none"
        /\ state' = [state EXCEPT ![c] = EntryOf(c)]
        /\ UNCHANGED <<listLock, authing, access, sessions, page>>
     \/ AuthBegins(TheWatchdog, c) /\ UNCHANGED state
  /\ UNCHANGED <<at, daemonVars, fwVars, webVars, http, authmon>>

PassEnds ==
  /\ at["watchdog"] = "pass" /\ listLock # TheWatchdog
  /\ Goto("watchdog", "check")
  /\ UNCHANGED <<daemonVars, fwVars, webVars, clientVars, authmon>>

-----------------------------------------------------------------------------
(* Requests                                                                *)

\* The two threads have not been created yet.
InSetup == at["main"] \in {"setup", "web", "fas", "marks", "mangle", "nat", "resolve",
                          "redirect", "filter", "checked", "sets"}

ServesNow(d) ==
  /\ server[d] = "running" /\ http[d] = NoClient
  /\ InSetup => "early" \in May

\* The states for which the page of authenticated clients is made: as long as
\* the marks are 0, every client has the mark of an authenticated one.
LooksAuthenticated(s) == ~marked \/ s \in {"auth", "trusted"}

\* A request of a client: it is added, and shown one of the two pages; a request
\* with its token goes on to authenticate it.
Requests(d, c) ==
  /\ ServesNow(d) /\ listLock = Nobody
  /\ LET s == IF state[c] = "none" THEN EntryOf(c) ELSE state[c]
     IN /\ state' = [state EXCEPT ![c] = s]
        /\ page' = [page EXCEPT ![c] = IF LooksAuthenticated(s) THEN "status" ELSE "splash"]
        /\ http' = [http EXCEPT ![d] = IF LooksAuthenticated(s) THEN NoClient ELSE c]
  /\ UNCHANGED <<at, daemonVars, fwVars, webVars, listLock, authing, access, sessions,
                 authmon>>

\* authenticate_client.
Authenticates(d) ==
  /\ http[d] # NoClient
  /\ listLock # d /\ AuthBegins(d, http[d])
  /\ UNCHANGED <<at, daemonVars, fwVars, webVars, http, state, authmon>>

\* The page alone was asked for, or the client cannot be authenticated any more.
Answers(d) ==
  /\ http[d] # NoClient /\ listLock # d
  /\ http' = [http EXCEPT ![d] = NoClient]
  /\ UNCHANGED <<at, daemonVars, fwVars, webVars, state, listLock, authing, access,
                 sessions, page, authmon>>

\* The link to end the session.
Denies(d, c) ==
  /\ ServesNow(d) /\ LooksAuthenticated(state[c])
  /\ Ends(c)
  /\ UNCHANGED <<at, daemonVars, fwVars, webVars, authmon>>

-----------------------------------------------------------------------------
(* Ending                                                                  *)

Signal ==
  /\ "signal" \in May /\ Alive /\ ~signalled
  /\ InSetup => "early" \in May
  /\ signalled' = TRUE
  /\ UNCHANGED <<at, starts, fwVars, webVars, clientVars, authmon>>

Killed == "kill" \in May /\ Alive /\ Quits

CommandAuth(c) ==
  /\ at["ndsctl"] = "loop"
  /\ AuthBegins(TheNdsctl, c)
  /\ UNCHANGED <<at, daemonVars, fwVars, webVars, http, state, authmon>>

CommandDeauth(c) ==
  /\ at["ndsctl"] = "loop"
  /\ Ends(c)
  /\ UNCHANGED <<at, daemonVars, fwVars, webVars, authmon>>

\* The ndsctl thread sees the signal, is told to stop, or fails.
NdsctlEnds ==
  /\ at["ndsctl"] = "loop" /\ listLock # TheNdsctl
  /\ signalled \/ "stop" \in May
  /\ Goto("ndsctl", "ended")
  /\ UNCHANGED <<daemonVars, fwVars, webVars, clientVars, authmon>>

Joins ==
  /\ at["main"] = "join" /\ at["ndsctl"] = "ended"
  /\ Goto("main", "test")
  /\ UNCHANGED <<daemonVars, fwVars, webVars, clientVars, authmon>>

\* Fault: authmon is killed at level 4 only.
KillsAtFour ==
  /\ at["main"] = "authmon"
  /\ authmon' = IF FasLevel = 4 THEN 0 ELSE authmon
  /\ Goto("main", "deauth")
  /\ UNCHANGED <<daemonVars, fwVars, webVars, clientVars>>

\* termination_handler.
KillsAuthmon ==
  /\ at["main"] = "authmon"
  /\ authmon' = IF FasLevel \in {3, 4} THEN 0 ELSE authmon
  /\ Goto("main", "deauth")
  /\ UNCHANGED <<daemonVars, fwVars, webVars, clientVars>>

\* Fault: the clients are dropped from the list only.
DropsAll ==
  /\ at["main"] = "deauth" /\ listLock = Nobody
  /\ state' = [c \in Client |-> IF state[c] = "auth" THEN "none" ELSE state[c]]
  /\ Goto("main", "destroy")
  /\ UNCHANGED <<daemonVars, fwVars, webVars, http, listLock, authing, access, sessions,
                 page, authmon>>

\* auth_client_deauth_all: those in state Authenticated.
DeauthsAll ==
  /\ at["main"] = "deauth" /\ listLock = Nobody
  /\ LET all == {c \in Client : state[c] = "auth"}
     IN /\ state' = [c \in Client |-> IF c \in all THEN "none" ELSE state[c]]
        /\ Removes(all) /\ sessions' = sessions \ all
  /\ Goto("main", "destroy")
  /\ UNCHANGED <<daemonVars, fwVars, webVars, http, listLock, authing, page, authmon>>

Destroys ==
  /\ at["main"] = "destroy"
  /\ \E left \in SUBSET Tables : Resets(left) /\ chains' = Kept(left)
  /\ Goto("main", "exit")
  /\ UNCHANGED <<daemonVars, failed, marked, webVars, http, state, listLock, authing,
                 sessions, page, authmon>>

Exits ==
  /\ at["main"] = "exit"
  /\ Gone("down") /\ UNCHANGED <<starts, chains, access, sessions, authmon>>

Main ==
  \/ ChecksLibrary \/ StartsWeb \/ StartsAuthmon \/ SetsMarks \/ AddsMangle
  \/ AddsNat \/ Resolves \/ AddsRedirect \/ AddsFilter \/ FirewallFails \/ AddsSets
  \/ CreatesThreads
  \/ Joins \/ StopsWeb("main") \/ KillsAuthmon \/ DeauthsAll \/ Destroys \/ Exits

Watchdog ==
  \/ ChecksWeb \/ StopsWeb("watchdog") \/ StartsAgain \/ ChecksRouting \/ PassEnds
  \/ \E c \in Client : EndsInPass(c) \/ Throttles(c) \/ Preempts(c)

Next ==
  /\ UNCHANGED setting
  /\ \/ Configures \/ SetupFails \/ Main \/ Watchdog \/ AuthEnds
     \/ \E d \in Server : \/ \E c \in Client : Requests(d, c) \/ Denies(d, c)
                          \/ Authenticates(d) \/ Answers(d)
     \/ Signal \/ Killed \/ NdsctlEnds
     \/ \E c \in Client : CommandAuth(c) \/ CommandDeauth(c)

Spec == Init /\ [][Next]_vars

Watching ==
  ChecksWeb \/ StopsWeb("watchdog") \/ StartsAgain \/ ChecksRouting \/ PassEnds

\* Threads go on; the ndsctl thread looks for a signal between commands, and the
\* main thread gets the list in the end.
FairSpec ==
  /\ Spec
  /\ WF_vars(UNCHANGED setting /\ Main) /\ SF_vars(UNCHANGED setting /\ DeauthsAll)
  /\ SF_vars(UNCHANGED setting /\ signalled /\ NdsctlEnds)
  /\ WF_vars(UNCHANGED setting /\ AuthEnds)
  /\ \A d \in Server : WF_vars(UNCHANGED setting /\ (Authenticates(d) \/ Answers(d)))
  /\ WF_vars(UNCHANGED setting /\ Watching)

-----------------------------------------------------------------------------
(* Properties                                                              *)

Label == {"down", "dead", "off", "setup", "web", "fas", "marks", "mangle", "nat",
          "resolve", "redirect", "filter", "checked", "sets", "join", "test", "quiesce",
          "stop", "stopping", "start", "route", "pass", "check", "loop", "ended",
          "authmon", "deauth", "destroy", "exit"}

\* The types of all variables.
TypeOK ==
  /\ setting \in Settings
  /\ at \in [Thread -> Label]
  /\ starts \in 0..MaxStarts /\ signalled \in BOOLEAN
  /\ chains \subseteq Parts /\ failed \in BOOLEAN /\ marked \in BOOLEAN
  /\ web \in {NoServer} \cup Server /\ victim \in [Thread -> {NoServer} \cup Server]
  /\ server \in [Server -> {"none", "running", "quiesced", "stopping", "stopped"}]
  /\ http \in [Server -> Client \cup {NoClient}]
  /\ state \in [Client -> {"none", "preauth", "auth", "blocked", "trusted"}]
  /\ listLock \in Nobody..TheNdsctl /\ authing \in Client \cup {NoClient}
  /\ access \subseteq Client /\ sessions \subseteq Client
  /\ page \in [Client -> {"none", "status", "splash"}]
  /\ authmon \in 0..1

\* "Exits cleanly after cleaning up the firewall. Use this function anytime you
\* need to exit after firewall initialization" (main.c:191): a daemon that ends
\* through termination_handler leaves no authmon behind, and no rules if nft can
\* delete its tables, whatever the daemons before it left.
CleanExit ==
  at["main"] = "down" => authmon = 0 /\ (~NftFails => chains = {} /\ access = {})

\* What a daemon leaves behind when it dies does no harm to the next one: as long
\* as nft does what it is told, access always belongs to a session of the
\* daemon's own list (conf.c:324).
AccessHasEntry ==
  Alive /\ ~NftFails => \A c \in access : state[c] \in {"auth", "blocked"}

\* When all the threads run, what iptables_fw_init adds is there, whichever of its
\* nft commands fail, and although nobody looks whether the base chains were
\* added.  With a FQDN, the result of resolve_fqdn hides the failures before it
\* (fw_iptables.c:399).  The rule sets and nft sets that follow may be missing.
FirewallComplete ==
  at["main"] = "join" =>
    /\ {"base", "redirect", "filter"} \subseteq chains
    /\ ~FasFqdn => {"mangle", "nat"} \subseteq chains

\* BinAuth hears the end of every session that it has heard the start of, when
\* the daemon stops on a signal or a command and nothing fails, and requests and
\* commands race it.  The premise leaves out the sessions that the watchdog opens
\* or throttles meanwhile: those are not closed.
SessionsClosed ==
  May \subseteq {"signal", "stop"} /\ at["main"] \in {"exit", "down"} => sessions = {}

\* The main thread has stopped the web server.
WebDone == {"authmon", "deauth", "destroy", "exit"}

\* "Prevent reuse of stale pointer" (http_microhttpd.c:86), while two threads stop
\* the web server and one starts it: until the main thread has stopped it, no
\* server accepts requests but the one the pointer leads to, and between its
\* restarts the watchdog always has one that runs.  When the socket of a stopped
\* server was handed over and dropped (http_microhttpd.c:82), this holds because
\* the process exits instead of restarting.
OneServer ==
  /\ at["main"] \notin WebDone => \A d \in Server : Listening(d) => web = d
  /\ at["main"] = "join" /\ at["watchdog"] \in {"check", "route", "pass"}
       => web # NoServer /\ server[web] = "running"

\* A signal ends the daemon, whatever its threads are doing.
SignalStops == signalled ~> ~Alive

=============================================================================
