---------------------------- MODULE Lifecycle_proofs ----------------------------
(***************************************************************************)
(* What the daemon leaves behind, for any clients, settings and numbers of *)
(* starts and servers: access belongs to the sessions of the daemon that   *)
(* runs, the firewall is complete when the threads are created, an orderly *)
(* end leaves nothing and closes every session, and no web server is lost  *)
(* while two threads stop and start it.  Where a result depends on nft     *)
(* doing what it is told, its property says so.                            *)
(***************************************************************************)
EXTENDS Lifecycle, TLAPS

\* Whoever authenticates a client has the list locked.
LockedInv == listLock # Nobody => authing \in Client

\* The main thread is past a part of the firewall.
AfterFilter == {"checked", "sets", "join"}
AfterRedirect == AfterFilter \cup {"filter"}
AfterNat == AfterRedirect \cup {"resolve", "redirect"}
AfterMangle == AfterNat \cup {"nat"}

\* The parts that have been added without failure when the main thread is past them:
\* those before resolve_fqdn only without a FQDN.
StageInv ==
  /\ ~failed =>
       /\ at["main"] \in AfterRedirect => {"base", "redirect"} \subseteq chains
       /\ at["main"] \in AfterFilter => "filter" \in chains
  /\ ~FasFqdn =>
       /\ at["main"] # "resolve"
       /\ ~failed =>
            /\ at["main"] \in AfterMangle => "mangle" \in chains
            /\ at["main"] \in AfterNat => "nat" \in chains
  /\ at["main"] \in {"sets", "join"} => ~failed

\* authmon is killed before the end, and the chains go last; without them nobody
\* gets access any more.
CleanInv ==
  /\ at["main"] \in {"exit", "down"} /\ ~NftFails => chains = {} /\ access = {}
  /\ at["main"] \in {"deauth", "destroy", "exit", "down"} => FasLevel > 4 \/ authmon = 0
  /\ FasLevel < 3 => authmon = 0

\* The invariant of any life.
LifeInv == TypeOK /\ LockedInv /\ AccessHasEntry /\ StageInv

\* A daemon that has never been started.
LEMMA LifeInit == Init => LifeInv /\ CleanInv
<1> SUFFICES ASSUME Init PROVE LifeInv /\ CleanInv
  OBVIOUS
<1>1. TypeOK
  <2>1. at \in [Thread -> Label]
    BY DEF Init, Label
  <2>2. listLock \in Nobody..TheNdsctl
    BY LifecycleConstants DEF Init, Nobody, TheNdsctl
  <2>3. /\ web \in {NoServer} \cup Server /\ victim \in [Thread -> {NoServer} \cup Server]
        /\ http \in [Server -> Client \cup {NoClient}] /\ authing \in Client \cup {NoClient}
    BY DEF Init
  <2>4. /\ server \in [Server -> {"none", "running", "quiesced", "stopping", "stopped"}]
        /\ state \in [Client -> {"none", "preauth", "auth", "blocked", "trusted"}]
        /\ page \in [Client -> {"none", "status", "splash"}]
    BY DEF Init
  <2>5. signalled \in BOOLEAN /\ failed \in BOOLEAN /\ marked \in BOOLEAN
    BY DEF Init
  <2>6. starts \in 0..MaxStarts /\ authmon \in 0..1
    BY LifecycleConstants DEF Init
  <2>7. /\ setting \in Settings /\ chains \subseteq Parts
        /\ access \subseteq Client /\ sessions \subseteq Client
    BY DEF Init
  <2> QED BY <2>1, <2>2, <2>3, <2>4, <2>5, <2>6, <2>7 DEF TypeOK
<1>2. LockedInv /\ AccessHasEntry /\ StageInv /\ CleanInv
  BY DEF Init, LockedInv, AccessHasEntry, StageInv, CleanInv, Thread, Alive, AfterFilter,
         AfterRedirect, AfterNat, AfterMangle
<1> QED BY <1>1, <1>2 DEF LifeInv

-----------------------------------------------------------------------------
(* Types                                                                   *)

\* The end of a process.
LEMMA GoneType ==
  ASSUME TypeOK, Gone("down") \/ Gone("dead"), UNCHANGED <<setting, starts, sessions>>,
         chains' \subseteq chains, access' \subseteq access, UNCHANGED authmon
  PROVE  TypeOK'
<1>1. at' \in [Thread -> Label]
  BY DEF Gone, Label
<1>2. listLock' \in Nobody..TheNdsctl
  BY LifecycleConstants DEF Gone, Nobody, TheNdsctl
<1>3. /\ web' \in {NoServer} \cup Server /\ victim' \in [Thread -> {NoServer} \cup Server]
      /\ http' \in [Server -> Client \cup {NoClient}] /\ authing' \in Client \cup {NoClient}
  BY DEF Gone
<1>4. /\ server' \in [Server -> {"none", "running", "quiesced", "stopping", "stopped"}]
      /\ state' \in [Client -> {"none", "preauth", "auth", "blocked", "trusted"}]
      /\ page' \in [Client -> {"none", "status", "splash"}]
  BY DEF Gone
<1>5. signalled' \in BOOLEAN /\ failed' \in BOOLEAN /\ marked' \in BOOLEAN
  BY DEF Gone
<1> QED BY <1>1, <1>2, <1>3, <1>4, <1>5 DEF TypeOK

\* What a reset of the firewall leaves was there.
LEMMA ResetLeaves ==
  ASSUME TypeOK, NEW left \in SUBSET Tables, Resets(left)
  PROVE  Kept(left) \subseteq chains /\ access' \subseteq access
         /\ (~NftFails => Kept(left) = {} /\ access' = {})
<1>1. left # {} => NftFails
  BY DEF Resets
<1>2. left = {} => Kept(left) = {} /\ access' = {}
  BY DEF Resets, Kept
<1>3. Kept(left) \subseteq chains
  BY DEF Kept
<1>4. access' \subseteq access
  BY DEF Resets
<1> QED BY <1>1, <1>2, <1>3, <1>4

\* Setting up.
LEMMA SetupType ==
  ASSUME TypeOK, UNCHANGED setting,
         \/ Configures \/ ChecksLibrary \/ StartsWeb \/ StartsAuthmon \/ SetsMarks
         \/ AddsMangle \/ AddsNat \/ Resolves \/ AddsRedirect \/ AddsFilter \/ AddsSets
         \/ CreatesThreads
  PROVE  TypeOK'
<1> USE LifecycleConstants
    DEF TypeOK, Goto, daemonVars, fwVars, webVars, clientVars, Thread, Parts, Label
<1>1. CASE Configures
  <2>1. PICK left \in SUBSET Tables :
          Resets(left) /\ chains' \subseteq Kept(left) \cup {"base"}
    BY <1>1 DEF Configures
  <2>2. chains' \subseteq Parts /\ access' \subseteq Client
    BY <2>1, ResetLeaves
  <2> QED BY <1>1, <2>2 DEF Configures
<1>2. CASE StartsWeb
  BY <1>2 DEF StartsWeb, Started
<1>3. CASE ChecksLibrary
  BY <1>3 DEF ChecksLibrary
<1>10. CASE SetsMarks
  BY <1>10 DEF SetsMarks
<1>7. CASE StartsAuthmon
  BY <1>7 DEF StartsAuthmon
<1>8. CASE Resolves
  <2>1. at' \in [Thread -> Label]
    BY <1>8 DEF Resolves
  <2> QED BY <1>8, <2>1 DEF Resolves
<1>4. CASE AddsMangle
  BY <1>4 DEF AddsMangle, Adds, Added, NotAdded
<1>5. CASE AddsNat
  BY <1>5 DEF AddsNat, Adds, Added, NotAdded
<1>9. CASE AddsRedirect
  BY <1>9 DEF AddsRedirect, Adds, Added, NotAdded
<1>12. CASE AddsFilter
  BY <1>12 DEF AddsFilter, Adds, Added, NotAdded
<1>11. CASE AddsSets
  BY <1>11 DEF AddsSets, Added, NotAdded
<1>6. CASE CreatesThreads
  BY <1>6 DEF CreatesThreads
<1> QED BY <1>1, <1>2, <1>3, <1>4, <1>5, <1>6, <1>7, <1>8, <1>9, <1>10, <1>11,
           <1>12

\* Stopping the web server, and the end.
LEMMA StopType ==
  ASSUME TypeOK, UNCHANGED setting,
         \/ \E t \in {"main", "watchdog"} : StopsWeb(t)
         \/ Joins \/ KillsAuthmon \/ DeauthsAll \/ Destroys \/ Signal \/ NdsctlEnds
         \/ ChecksWeb \/ StartsAgain \/ ChecksRouting \/ PassEnds
         \/ Exits \/ FirewallFails \/ SetupFails \/ Killed
  PROVE  TypeOK'
<1> USE LifecycleConstants
    DEF TypeOK, Goto, daemonVars, fwVars, webVars, clientVars, Thread, Parts, Label
<1>1. ASSUME NEW t \in {"main", "watchdog"}, Tests(t) PROVE TypeOK'
  BY <1>1 DEF Tests, After
<1>14. ASSUME NEW t \in {"main", "watchdog"}, Quiesces(t) PROVE TypeOK'
  <2>1. at' \in [Thread -> Label]
    BY <1>14 DEF Quiesces
  <2>2. server' \in [Server -> {"none", "running", "quiesced", "stopping", "stopped"}]
    BY <1>14 DEF Quiesces
  <2> QED BY <1>14, <2>1, <2>2 DEF Quiesces
<1>9. ASSUME NEW t \in {"main", "watchdog"}, Stops(t) PROVE TypeOK'
  BY <1>9 DEF Stops
<1>10. ASSUME NEW t \in {"main", "watchdog"}, Stopped(t) PROVE TypeOK'
  BY <1>10 DEF Stopped, After
<1>2. ASSUME NEW t \in {"main", "watchdog"}, Crashes(t) PROVE TypeOK'
  BY <1>2, GoneType DEF Crashes, Quits
<1>3. CASE Joins
  BY <1>3 DEF Joins
<1>15. CASE NdsctlEnds
  BY <1>15 DEF NdsctlEnds
<1>16. CASE PassEnds
  BY <1>16 DEF PassEnds
<1>11. CASE Signal
  BY <1>11 DEF Signal
<1>12. CASE KillsAuthmon
  BY <1>12 DEF KillsAuthmon
<1>13. CASE ChecksWeb
  BY <1>13 DEF ChecksWeb
<1>17. CASE ChecksRouting
  <2>1. CASE Quits
    BY <2>1, <1>17, GoneType DEF Quits
  <2>2. CASE ~Quits
    <3>1. /\ at' = [at EXCEPT !["watchdog"] = "pass"]
          /\ UNCHANGED <<daemonVars, fwVars, webVars, clientVars, authmon>>
      BY <1>17, <2>2 DEF ChecksRouting
    <3>2. at' \in [Thread -> Label]
      BY <3>1
    <3> QED BY <3>1, <3>2
  <2> QED BY <2>1, <2>2
<1>4. CASE DeauthsAll
  <2>1. access' \subseteq access
    BY <1>4 DEF DeauthsAll, Removes
  <2> QED BY <1>4, <2>1 DEF DeauthsAll
<1>5. CASE Destroys
  <2>1. chains' \subseteq chains /\ access' \subseteq access
    BY <1>5, ResetLeaves DEF Destroys
  <2> QED BY <1>5, <2>1 DEF Destroys
<1>6. CASE StartsAgain
  <2>1. CASE Quits
    BY <1>6, <2>1, GoneType DEF Quits
  <2>2. CASE ~Quits
    <3>1. PICK d \in Server : Started(d)
      BY <1>6, <2>2 DEF StartsAgain
    <3>2. server' \in [Server -> {"none", "running", "quiesced", "stopping", "stopped"}]
      BY <3>1 DEF Started
    <3>3. web' \in {NoServer} \cup Server
      BY <3>1 DEF Started
    <3>4. at' \in [Thread -> Label]
      BY <1>6, <2>2 DEF StartsAgain
    <3>5. UNCHANGED <<daemonVars, fwVars, victim, clientVars, authmon>>
      BY <1>6, <2>2 DEF StartsAgain
    <3> QED BY <3>2, <3>3, <3>4, <3>5
  <2> QED BY <2>1, <2>2
<1>7. CASE Exits \/ SetupFails \/ Killed
  BY <1>7, GoneType DEF Exits, SetupFails, Killed, Quits
<1>8. CASE FirewallFails
  <2>1. chains' \subseteq chains /\ access' \subseteq access
    BY <1>8, ResetLeaves DEF FirewallFails
  <2> QED BY <1>8, <2>1, GoneType DEF FirewallFails
<1> QED BY <1>1, <1>2, <1>3, <1>4, <1>5, <1>6, <1>7, <1>8, <1>9, <1>10, <1>11, <1>12,
           <1>13, <1>14, <1>15, <1>16, <1>17 DEF StopsWeb

\* Clients.
LEMMA ClientType ==
  ASSUME TypeOK, LockedInv, UNCHANGED setting,
         \/ AuthEnds
         \/ \E c \in Client : \/ EndsInPass(c) \/ Throttles(c) \/ Preempts(c)
                              \/ CommandAuth(c) \/ CommandDeauth(c)
         \/ \E d \in Server : \/ \E c \in Client : Requests(d, c) \/ Denies(d, c)
                              \/ Authenticates(d) \/ Answers(d)
  PROVE  TypeOK'
<1> USE LifecycleConstants
    DEF TypeOK, daemonVars, fwVars, webVars, Nobody, TheWatchdog, TheNdsctl, Server, NoClient
<1>1. CASE AuthEnds
  BY <1>1 DEF AuthEnds, LockedInv
<1>2. ASSUME NEW c \in Client, EndsInPass(c) \/ CommandDeauth(c) PROVE TypeOK'
  <2>1. access' \subseteq access
    BY <1>2 DEF EndsInPass, CommandDeauth, Ends, Removes
  <2> QED BY <1>2, <2>1 DEF EndsInPass, CommandDeauth, Ends
<1>3. ASSUME NEW c \in Client, Throttles(c) PROVE TypeOK'
  BY <1>3 DEF Throttles
<1>4. ASSUME NEW c \in Client, Preempts(c) PROVE TypeOK'
  <2>1. state' \in [Client -> {"none", "preauth", "auth", "blocked", "trusted"}]
    BY <1>4 DEF Preempts, EntryOf
  <2>2. /\ listLock' \in Nobody..TheNdsctl /\ authing' \in Client \cup {NoClient}
        /\ sessions' \subseteq Client /\ UNCHANGED <<access, page>>
    BY <1>4 DEF Preempts, AuthBegins
  <2>3. UNCHANGED <<at, daemonVars, fwVars, webVars, http, authmon>>
    BY <1>4 DEF Preempts
  <2> QED BY <2>1, <2>2, <2>3
<1>5. ASSUME NEW c \in Client, CommandAuth(c) PROVE TypeOK'
  BY <1>5 DEF CommandAuth, AuthBegins
<1>6. ASSUME NEW d \in Server, NEW c \in Client, Requests(d, c) PROVE TypeOK'
  BY <1>6 DEF Requests, EntryOf
<1>7. ASSUME NEW d \in Server, NEW c \in Client, Denies(d, c) PROVE TypeOK'
  <2>1. access' \subseteq access
    BY <1>7 DEF Denies, Ends, Removes
  <2> QED BY <1>7, <2>1 DEF Denies, Ends
<1>8. ASSUME NEW d \in Server, Authenticates(d) PROVE TypeOK'
  BY <1>8 DEF Authenticates, AuthBegins
<1>9. ASSUME NEW d \in Server, Answers(d) PROVE TypeOK'
  BY <1>9 DEF Answers
<1> QED BY <1>1, <1>2, <1>3, <1>4, <1>5, <1>6, <1>7, <1>8, <1>9

LEMMA TypeStep == ASSUME TypeOK, LockedInv, [Next]_vars PROVE TypeOK'
<1>1. CASE UNCHANGED vars
  BY <1>1 DEF vars, daemonVars, fwVars, webVars, clientVars, TypeOK
<1>2. CASE Next
  BY <1>2, SetupType, StopType, ClientType DEF Next, Main, Watchdog
<1> QED BY <1>1, <1>2

-----------------------------------------------------------------------------
(* Steps of the other threads                                              *)

\* Whatever leaves the main thread where it is, and the firewall and the list as
\* they are.
Elsewhere ==
  UNCHANGED <<setting, chains, failed, state, listLock, authing, access, authmon>>
    /\ at'["main"] = at["main"]

\* A session begins, changes or ends: the main thread, the chains and authmon stay.
Sessions ==
  \/ AuthEnds
  \/ \E c \in Client : \/ EndsInPass(c) \/ Throttles(c) \/ Preempts(c)
                       \/ CommandAuth(c) \/ CommandDeauth(c)
  \/ \E d \in Server : \/ \E c \in Client : Requests(d, c) \/ Denies(d, c)
                       \/ Authenticates(d)

\* The process ends: nothing is in memory any more. Unless it dies,
\* termination_handler has come to its end.
Ended ==
  /\ Gone("down") \/ Gone("dead")
  /\ chains' \subseteq chains /\ access' \subseteq access
  /\ at'["main"] = "dead" \/ at["main"] = "exit"
  /\ UNCHANGED <<setting, authmon>>

\* The main thread goes on.
MainGoes ==
  \/ ChecksLibrary \/ StartsWeb \/ StartsAuthmon \/ SetsMarks \/ AddsMangle
  \/ AddsNat \/ Resolves \/ AddsRedirect \/ AddsFilter \/ AddsSets \/ CreatesThreads
  \/ Joins \/ Tests("main") \/ Quiesces("main") \/ Stops("main") \/ Stopped("main")
  \/ KillsAuthmon

\* The rest of what happens is one of these.
LEMMA StepCases ==
  ASSUME TypeOK, UNCHANGED setting, Next
  PROVE  \/ Elsewhere \/ Sessions \/ Ended \/ Configures \/ MainGoes \/ DeauthsAll
         \/ Destroys
<1>1. ASSUME Tests("watchdog") \/ Quiesces("watchdog") \/ Stops("watchdog")
               \/ Stopped("watchdog")
      PROVE  Elsewhere
  BY <1>1 DEF Tests, Quiesces, Stops, Stopped, Elsewhere, TypeOK, Goto, fwVars, webVars,
              clientVars, Thread
<1>2. ASSUME NEW t, Crashes(t) PROVE Ended
  BY <1>2 DEF Crashes, Quits, Ended, Gone, Thread
<1>3. ASSUME ChecksWeb \/ PassEnds \/ NdsctlEnds \/ Signal PROVE Elsewhere
  BY <1>3 DEF ChecksWeb, PassEnds, NdsctlEnds, Signal, Elsewhere, TypeOK, Goto, fwVars,
              clientVars, Thread
<1>4. ASSUME StartsAgain \/ ChecksRouting PROVE Elsewhere \/ Ended
  BY <1>4 DEF StartsAgain, ChecksRouting, Quits, Ended, Elsewhere, TypeOK, Goto, fwVars,
              clientVars, Thread, Gone
<1>5. ASSUME Exits \/ SetupFails \/ Killed PROVE Ended
  BY <1>5 DEF Exits, SetupFails, Killed, Quits, Ended, Gone, Thread
<1>7. ASSUME FirewallFails PROVE Ended
  <2>1. chains' \subseteq chains /\ access' \subseteq access
    BY <1>7, ResetLeaves DEF FirewallFails
  <2> QED BY <1>7, <2>1 DEF FirewallFails, Ended, Gone, Thread
<1>6. ASSUME NEW d \in Server, Answers(d) PROVE Elsewhere
  BY <1>6 DEF Answers, Elsewhere, fwVars
<1> QED BY <1>1, <1>2, <1>3, <1>4, <1>5, <1>6, <1>7
        DEF Next, Main, Watchdog, StopsWeb, Sessions, MainGoes

\* Sessions leave the main thread and the firewall alone.
LEMMA SessionsFrame ==
  ASSUME Sessions
  PROVE  UNCHANGED <<at, chains, failed, authmon>>
BY DEF Sessions, AuthEnds, EndsInPass, Throttles, Preempts, CommandAuth, CommandDeauth,
       Requests, Denies, Authenticates, fwVars

\* The main thread leaves the list and the access of clients alone.
LEMMA MainFrame ==
  ASSUME TypeOK, MainGoes
  PROVE  UNCHANGED <<state, listLock, authing, access>> /\ Alive
BY DEF MainGoes, ChecksLibrary, StartsWeb, StartsAuthmon, SetsMarks, AddsMangle, Resolves,
       AddsNat, AddsRedirect, AddsFilter, AddsSets, CreatesThreads, Joins, Tests, Quiesces, Stops, Stopped,
       KillsAuthmon, clientVars, Alive

-----------------------------------------------------------------------------
(* Access                                                                  *)

LEMMA SessionsAccess ==
  ASSUME TypeOK, LockedInv, AccessHasEntry, UNCHANGED setting, Sessions
  PROVE  LockedInv' /\ AccessHasEntry'
<1> USE DEF TypeOK, LockedInv, AccessHasEntry, Nobody
<1>a. Alive' = Alive /\ NftFails' = NftFails
  BY SessionsFrame DEF Alive, NftFails, May
<1>1. CASE AuthEnds
  BY <1>1, <1>a DEF AuthEnds
<1>2. ASSUME NEW c \in Client, Ends(c) PROVE LockedInv' /\ AccessHasEntry'
  <2>1. ~NftFails => access' = access \ {c}
    BY <1>2 DEF Ends, Removes
  <2> QED BY <1>2, <1>a, <2>1 DEF Ends
<1>3. ASSUME NEW c \in Client, Throttles(c) PROVE LockedInv' /\ AccessHasEntry'
  BY <1>3, <1>a DEF Throttles
<1>4. ASSUME NEW by, NEW c \in Client, AuthBegins(by, c), UNCHANGED state
      PROVE  LockedInv' /\ AccessHasEntry'
  BY <1>4, <1>a DEF AuthBegins
<1>5. ASSUME NEW c \in Client, state[c] = "none",
             UNCHANGED <<listLock, authing, access>>,
             state' = [state EXCEPT ![c] = EntryOf(c)]
      PROVE  LockedInv' /\ AccessHasEntry'
  BY <1>5, <1>a
<1>6. ASSUME NEW d \in Server, NEW c \in Client, Requests(d, c)
      PROVE  LockedInv' /\ AccessHasEntry'
  BY <1>6, <1>a DEF Requests
<1>7. ASSUME NEW d \in Server, Authenticates(d) PROVE LockedInv' /\ AccessHasEntry'
  BY <1>7, <1>4 DEF Authenticates
<1> QED BY <1>1, <1>2, <1>3, <1>4, <1>5, <1>6, <1>7
        DEF Sessions, EndsInPass, CommandDeauth, Denies, Preempts, CommandAuth

LEMMA AccessStep ==
  ASSUME TypeOK, LockedInv, AccessHasEntry, [Next]_vars
  PROVE  LockedInv' /\ AccessHasEntry'
<1> USE DEF LockedInv, AccessHasEntry
<1>a. UNCHANGED setting /\ NftFails' = NftFails
  BY DEF Next, vars, NftFails, May
<1>1. CASE UNCHANGED vars
  BY <1>1, <1>a DEF vars, clientVars, Alive
<1>2. CASE Elsewhere
  BY <1>2, <1>a DEF Elsewhere, Alive
<1>3. CASE Ended
  BY <1>3 DEF Ended, Gone, Alive, Thread
<1>4. CASE Configures
  <2>1. ~NftFails => access' = {}
    BY <1>4, ResetLeaves DEF Configures
  <2> QED BY <1>4, <1>a, <2>1 DEF Configures
<1>5. CASE MainGoes
  BY <1>5, <1>a, MainFrame
<1>6. CASE DeauthsAll
  <2>1. ~NftFails => access' = access \ {c \in Client : state[c] = "auth"}
    BY <1>6 DEF DeauthsAll, Removes
  <2> QED BY <1>6, <1>a, <2>1 DEF DeauthsAll, TypeOK, Alive, Goto, Thread
<1>7. CASE Destroys
  <2>1. ~NftFails => access' = {}
    BY <1>7, ResetLeaves DEF Destroys
  <2> QED BY <1>7, <1>a, <2>1 DEF Destroys
<1>8. CASE Sessions
  BY <1>8, <1>a, SessionsAccess
<1> QED BY <1>1, <1>2, <1>3, <1>4, <1>5, <1>6, <1>7, <1>8, StepCases DEF Next

-----------------------------------------------------------------------------
(* The firewall                                                            *)

\* A part is added after those before it, and a failure keeps the threads from
\* being created.
LEMMA MainStage ==
  ASSUME TypeOK, StageInv, UNCHANGED setting, MainGoes
  PROVE  StageInv'
<1> USE DEF StageInv, FasFqdn, TypeOK, Goto, Thread, fwVars, AfterFilter, AfterRedirect,
            AfterNat, AfterMangle
<1>1. CASE ChecksLibrary \/ StartsWeb \/ StartsAuthmon
  BY <1>1 DEF ChecksLibrary, StartsWeb, StartsAuthmon
<1>2. CASE SetsMarks
  BY <1>2 DEF SetsMarks
<1>3. CASE AddsMangle
  BY <1>3 DEF AddsMangle, Adds, Added, NotAdded
<1>4. CASE Resolves
  BY <1>4 DEF Resolves
<1>5. CASE AddsNat
  BY <1>5 DEF AddsNat, Adds, Added, NotAdded
<1>10. CASE AddsRedirect
  BY <1>10 DEF AddsRedirect, Adds, Added, NotAdded
<1>6. CASE AddsFilter
  BY <1>6 DEF AddsFilter, Adds, Added, NotAdded
<1>11. CASE AddsSets
  BY <1>11 DEF AddsSets, Added, NotAdded
<1>7. CASE CreatesThreads
  BY <1>7 DEF CreatesThreads
<1>8. CASE Joins \/ KillsAuthmon
  BY <1>8 DEF Joins, KillsAuthmon
<1>9. CASE Tests("main") \/ Quiesces("main") \/ Stops("main") \/ Stopped("main")
  BY <1>9 DEF Tests, Quiesces, Stops, Stopped, After
<1> QED BY <1>1, <1>2, <1>3, <1>4, <1>5, <1>6, <1>7, <1>8, <1>9, <1>10, <1>11 DEF MainGoes

LEMMA StageStep ==
  ASSUME TypeOK, StageInv, [Next]_vars
  PROVE  StageInv'
<1> USE DEF StageInv, FasFqdn, AfterFilter, AfterRedirect, AfterNat, AfterMangle
<1>1. CASE UNCHANGED vars
  BY <1>1 DEF vars, fwVars
<1>2. CASE Elsewhere
  BY <1>2 DEF Elsewhere
<1>3. CASE Ended
  BY <1>3 DEF Ended, Gone, Thread
<1>4. CASE UNCHANGED setting /\ Configures
  BY <1>4 DEF Configures, Goto, TypeOK, Thread
<1>5. CASE UNCHANGED setting /\ MainGoes
  BY <1>5, MainStage
<1>6. CASE UNCHANGED setting /\ (DeauthsAll \/ Destroys)
  BY <1>6 DEF DeauthsAll, Destroys, Goto, TypeOK, Thread, fwVars
<1>7. CASE UNCHANGED setting /\ Sessions
  BY <1>7, SessionsFrame
<1> QED BY <1>1, <1>2, <1>3, <1>4, <1>5, <1>6, <1>7, StepCases DEF Next

-----------------------------------------------------------------------------
(* The end                                                                 *)

\* The main thread does not get to the end without Destroys, and kills authmon
\* before it.
LEMMA MainClean ==
  ASSUME TypeOK, CleanInv, UNCHANGED setting, MainGoes
  PROVE  CleanInv'
<1> USE DEF CleanInv, NftFails, May, TypeOK, Goto, Thread, fwVars
<1>1. CASE ChecksLibrary \/ StartsWeb
  BY <1>1 DEF ChecksLibrary, StartsWeb
<1>2. CASE StartsAuthmon
  BY <1>2, LifecycleConstants DEF StartsAuthmon
<1>3. CASE SetsMarks
  BY <1>3 DEF SetsMarks
<1>4. CASE AddsMangle
  BY <1>4 DEF AddsMangle
<1>5. CASE Resolves
  BY <1>5 DEF Resolves
<1>6. CASE AddsNat \/ AddsRedirect
  BY <1>6 DEF AddsNat, AddsRedirect
<1>7. CASE AddsFilter \/ AddsSets
  BY <1>7 DEF AddsFilter, AddsSets
<1>8. CASE CreatesThreads
  BY <1>8 DEF CreatesThreads
<1>9. CASE Joins
  BY <1>9 DEF Joins
<1>10. CASE KillsAuthmon
  BY <1>10, LifecycleConstants DEF KillsAuthmon
<1>11. CASE Tests("main") \/ Quiesces("main") \/ Stops("main") \/ Stopped("main")
  BY <1>11 DEF Tests, Quiesces, Stops, Stopped, After
<1> QED BY <1>1, <1>2, <1>3, <1>4, <1>5, <1>6, <1>7, <1>8, <1>9, <1>10, <1>11 DEF MainGoes

\* Sessions may end when the chains are gone; none is let through.
LEMMA SessionsClean ==
  ASSUME CleanInv, UNCHANGED setting, Sessions
  PROVE  CleanInv'
<1>1. ASSUME chains = {}, access = {} PROVE access' = {}
  BY <1>1 DEF Sessions, AuthEnds, EndsInPass, Throttles, Preempts, CommandAuth, CommandDeauth,
              Requests, Denies, Authenticates, Ends, Removes, AuthBegins
<1> QED BY <1>1, SessionsFrame DEF CleanInv, NftFails, May

LEMMA CleanStep ==
  ASSUME TypeOK, CleanInv, [Next]_vars
  PROVE  CleanInv'
<1> USE DEF CleanInv, NftFails, May
<1>1. CASE UNCHANGED vars
  BY <1>1 DEF vars, fwVars, clientVars
<1>2. CASE Elsewhere
  BY <1>2 DEF Elsewhere
<1>3. CASE Ended
  BY <1>3 DEF Ended, Gone, Thread
<1>4. CASE UNCHANGED setting /\ Configures
  BY <1>4 DEF Configures, Goto, TypeOK, Thread
<1>5. CASE UNCHANGED setting /\ MainGoes
  BY <1>5, MainClean
<1>6. CASE UNCHANGED setting /\ DeauthsAll
  BY <1>6 DEF DeauthsAll, Goto, TypeOK, Thread, fwVars
<1>7. CASE UNCHANGED setting /\ Destroys
  <2>1. ~NftFails => chains' = {} /\ access' = {}
    BY <1>7, ResetLeaves DEF Destroys
  <2> QED BY <1>7, <2>1 DEF Destroys, Goto, TypeOK, Thread
<1>8. CASE UNCHANGED setting /\ Sessions
  BY <1>8, SessionsClean
<1> QED BY <1>1, <1>2, <1>3, <1>4, <1>5, <1>6, <1>7, <1>8, StepCases DEF Next

-----------------------------------------------------------------------------
(* Sessions                                                                *)

\* The daemon stops on a signal or a command; nothing fails, the watchdog opens and
\* throttles no session, and the threads run before there are requests.
Quiet == May \subseteq {"signal", "stop"}

Early == {"down", "setup", "web", "fas", "marks", "mangle", "nat", "resolve", "redirect",
          "filter", "checked", "sets"}
Stopping == {"test", "quiesce", "stop", "stopping"}
Closing == {"authmon", "deauth", "destroy", "exit"}

\* The one server is started before the firewall, and stopped with nobody waiting on
\* it.
ServerInv ==
  /\ at["main"] \in {"down", "setup", "web"} => \A d \in Server : server[d] = "none"
  /\ at["main"] \in (Early \ {"down", "setup", "web"}) \cup {"join"} \cup Stopping =>
       web \in Server /\ \A d \in Server : d # web => server[d] = "none"
  /\ at["main"] = "stopping" => victim["main"] = web
  /\ at["main"] \in Closing => \A d \in Server : server[d] \in {"none", "stopped"}
  /\ \A d \in Server : http[d] # NoClient => server[d] \notin {"none", "stopped"}

\* The server runs until it is stopped, and nothing fails, so the process never dies.
HealthInv ==
  /\ at["main"] # "dead" /\ ~failed /\ (at["main"] \in Early \ {"down"} => "base" \in chains)
  /\ at["main"] \in (Early \ {"down", "setup", "web"}) \cup {"join", "test", "quiesce"} =>
       server[web] = "running"
  /\ at["main"] = "stop" => server[web] \in {"running", "quiesced"}

\* The ndsctl thread has ended when the server is stopped.
ThreadInv ==
  /\ at["watchdog"] \in {"off", "check", "route", "pass"}
  /\ at["main"] \in Early =>
       ~signalled /\ at["ndsctl"] = "off" /\ \A d \in Server : http[d] = NoClient
  /\ at["main"] \in Stopping \cup Closing => at["ndsctl"] # "loop"

\* What BinAuth has heard of is in the list, or on its way into it.
SessionInv ==
  /\ \A c \in sessions : state[c] = "auth" \/ (listLock # Nobody /\ authing = c)
  /\ at["main"] \in Early \cup {"destroy", "exit"} => sessions = {}

CloseInv == Quiet => ServerInv /\ HealthInv /\ ThreadInv /\ SessionInv

LEMMA CloseInit == Init => CloseInv
BY DEF Init, CloseInv, ServerInv, HealthInv, ThreadInv, SessionInv, Early, Stopping, Closing, Thread

\* Nothing kills the process.
LEMMA Survives ==
  ASSUME TypeOK, Quiet, ServerInv, HealthInv, ThreadInv, UNCHANGED setting, Next
  PROVE  /\ ~SetupFails /\ ~Killed /\ ~FirewallFails /\ ~StartsAgain
         /\ ~StopsWeb("watchdog") /\ ~Crashes("main") /\ "unroutable" \notin May
<1>1. "setup" \notin May /\ "kill" \notin May /\ "unroutable" \notin May
  BY DEF Quiet
<1>2. at["watchdog"] \notin {"start", "test", "quiesce", "stop", "stopping"}
  BY DEF ThreadInv
<1>3. ~Crashes("main")
  <2>1. ASSUME Stale("main") PROVE FALSE
    <3>1. at["main"] \in {"quiesce", "stop"} /\ web \in Server
      BY <2>1 DEF Stale, ServerInv, Stopping
    <3>2. web # NoServer
      BY <3>1 DEF Server, NoServer
    <3> QED BY <2>1, <3>1, <3>2 DEF Stale, Pointed, HealthInv
  <2> QED BY <2>1 DEF Crashes
<1> QED BY <1>1, <1>2, <1>3
        DEF SetupFails, Killed, FirewallFails, HealthInv, StartsAgain, StopsWeb, Tests,
            Crashes, Stale, Quiesces, Stops, Stopped

LEMMA ServerStep ==
  ASSUME TypeOK, Quiet, ServerInv, HealthInv, ThreadInv, UNCHANGED setting, Next
  PROVE  ServerInv'
<1> USE DEF TypeOK, Quiet, ServerInv, ThreadInv, Goto, Thread, daemonVars, webVars, clientVars,
            Early, Stopping, Closing
<1>1. CASE Exits
  BY <1>1 DEF Exits, Gone
<1>2. CASE Configures \/ ChecksLibrary
  BY <1>2 DEF Configures, ChecksLibrary, Alive, HealthInv
<1>3. CASE StartsWeb
  BY <1>3 DEF StartsWeb, Started
<1>4. CASE StartsAuthmon \/ SetsMarks \/ AddsMangle
  BY <1>4 DEF StartsAuthmon, SetsMarks, AddsMangle
<1>5. CASE Resolves \/ AddsNat \/ AddsRedirect \/ AddsFilter \/ AddsSets
  BY <1>5 DEF Resolves, AddsNat, AddsRedirect, AddsFilter, AddsSets
<1>6. CASE CreatesThreads
  BY <1>6 DEF CreatesThreads, May
<1>7. CASE Joins \/ KillsAuthmon \/ DeauthsAll \/ Destroys
  BY <1>7 DEF Joins, KillsAuthmon, DeauthsAll, Destroys
<1>8. CASE Tests("main")
  BY <1>8 DEF Tests, NoServer, Server
<1>17. CASE Quiesces("main")
  <2>1. web \in Server /\ \A d \in Server : d # web => server'[d] = server[d]
    BY <1>17 DEF Quiesces
  <2>2. server[web] \notin {"none", "stopped"} => server'[web] \notin {"none", "stopped"}
    BY <1>17, <2>1 DEF Quiesces
  <2>3. /\ at'["main"] = "stop"
        /\ UNCHANGED <<web, http>>
    BY <1>17 DEF Quiesces
  <2>4. \A d \in Server : http'[d] # NoClient => server'[d] \notin {"none", "stopped"}
    BY <2>1, <2>2, <2>3
  <2>5. web' \in Server /\ \A d \in Server : d # web' => server'[d] = "none"
    <3>1. at["main"] = "quiesce"
      BY <1>17 DEF Quiesces
    <3> QED BY <2>1, <2>3, <3>1
  <2> QED BY <2>3, <2>4, <2>5
<1>9. CASE Stops("main")
  <2>1. /\ at["main"] = "stop" /\ at'["main"] = "stopping" /\ UNCHANGED <<web, http>>
        /\ web # NoServer => server' = [server EXCEPT ![web] = "stopping"]
        /\ web = NoServer => server' = server
        /\ victim' = [victim EXCEPT !["main"] = web]
        /\ at'["watchdog"] = at["watchdog"] /\ at'["ndsctl"] = at["ndsctl"]
    BY <1>9 DEF Stops
  <2>2. web \in Server /\ \A d \in Server : d # web => server'[d] = server[d]
    BY <2>1 DEF NoServer, Server
  <2> QED BY <2>1, <2>2 DEF NoServer
<1>10. CASE Stopped("main")
  BY <1>10 DEF Stopped, After, NoServer, Server
<1>11. CASE ChecksWeb \/ ChecksRouting \/ PassEnds \/ NdsctlEnds \/ Signal
  BY <1>11 DEF ChecksWeb, ChecksRouting, PassEnds, NdsctlEnds, Signal
<1>13. CASE AuthEnds
  BY <1>13 DEF AuthEnds
<1>14. ASSUME NEW c \in Client,
              EndsInPass(c) \/ Throttles(c) \/ Preempts(c) \/ CommandAuth(c) \/ CommandDeauth(c)
       PROVE  ServerInv'
  BY <1>14 DEF EndsInPass, Throttles, Preempts, CommandAuth, CommandDeauth, Ends
<1>15. ASSUME NEW d \in Server, NEW c \in Client, Requests(d, c) \/ Denies(d, c)
       PROVE  ServerInv'
  BY <1>15 DEF Requests, Denies, ServesNow, Ends
<1>16. ASSUME NEW d \in Server, Authenticates(d) \/ Answers(d) PROVE ServerInv'
  BY <1>16 DEF Authenticates, Answers
<1> QED BY <1>1, <1>2, <1>3, <1>4, <1>5, <1>6, <1>7, <1>8, <1>9, <1>10, <1>11, <1>13,
           <1>14, <1>15, <1>16, <1>17, Survives DEF Next, Main, Watchdog, StopsWeb

LEMMA HealthStep ==
  ASSUME TypeOK, Quiet, ServerInv, HealthInv, ThreadInv, UNCHANGED setting, Next
  PROVE  HealthInv'
<1> USE DEF TypeOK, Quiet, HealthInv, Goto, Thread, fwVars, webVars, Early
<1>1. CASE Exits
  BY <1>1 DEF Exits, Gone
<1>2. CASE Configures \/ ChecksLibrary
  <2>1. Configures => "base" \in chains'
    BY DEF Configures, NftFails
  <2> QED BY <1>2, <2>1 DEF Configures, ChecksLibrary
<1>3. CASE StartsWeb
  BY <1>3 DEF StartsWeb, Started
<1>4. CASE StartsAuthmon \/ SetsMarks \/ AddsMangle
  BY <1>4 DEF StartsAuthmon, SetsMarks, AddsMangle, Adds, Added, NotAdded, NftFails
<1>5. CASE Resolves \/ AddsNat \/ AddsRedirect \/ AddsFilter \/ AddsSets
  BY <1>5 DEF Resolves, AddsNat, AddsRedirect, AddsFilter, AddsSets, Adds, Added, NotAdded,
              NftFails, May
<1>6. CASE CreatesThreads
  BY <1>6 DEF CreatesThreads
<1>7. CASE Joins \/ KillsAuthmon \/ DeauthsAll \/ Destroys
  BY <1>7 DEF Joins, KillsAuthmon, DeauthsAll, Destroys
<1>8. CASE Tests("main") \/ Stops("main") \/ Stopped("main")
  BY <1>8 DEF Tests, Stops, Stopped, After
<1>9. CASE Quiesces("main")
  <2>1. web \in Server /\ server[web] = "running"
    BY <1>9 DEF Quiesces, ServerInv, Stopping
  <2>2. /\ server'[web] \in {"running", "quiesced"} /\ at'["main"] = "stop"
        /\ UNCHANGED <<web, failed>>
    BY <1>9, <2>1 DEF Quiesces
  <2> QED BY <2>2
<1>10. CASE ChecksWeb \/ ChecksRouting \/ PassEnds \/ NdsctlEnds \/ Signal
  BY <1>10 DEF ChecksWeb, ChecksRouting, PassEnds, NdsctlEnds, Signal
<1>11. CASE AuthEnds
  BY <1>11 DEF AuthEnds
<1>12. ASSUME NEW c \in Client,
              EndsInPass(c) \/ Throttles(c) \/ Preempts(c) \/ CommandAuth(c) \/ CommandDeauth(c)
       PROVE  HealthInv'
  BY <1>12 DEF EndsInPass, Throttles, Preempts, CommandAuth, CommandDeauth
<1>13. ASSUME NEW d \in Server, NEW c \in Client, Requests(d, c) \/ Denies(d, c)
       PROVE  HealthInv'
  BY <1>13 DEF Requests, Denies
<1>14. ASSUME NEW d \in Server, Authenticates(d) \/ Answers(d) PROVE HealthInv'
  BY <1>14 DEF Authenticates, Answers
<1> QED BY <1>1, <1>2, <1>3, <1>4, <1>5, <1>6, <1>7, <1>8, <1>9, <1>10, <1>11, <1>12, <1>13,
           <1>14, Survives DEF Next, Main, Watchdog, StopsWeb

LEMMA ThreadStep ==
  ASSUME TypeOK, Quiet, ServerInv, HealthInv, ThreadInv, UNCHANGED setting, Next
  PROVE  ThreadInv'
<1> USE DEF TypeOK, Quiet, ServerInv, ThreadInv, Goto, Thread, daemonVars, webVars, clientVars,
            Early, Stopping, Closing
<1>1. CASE Exits
  BY <1>1 DEF Exits, Gone
<1>2. CASE Configures \/ ChecksLibrary
  BY <1>2 DEF Configures, ChecksLibrary, Alive, HealthInv
<1>3. CASE StartsWeb
  BY <1>3 DEF StartsWeb, Started
<1>4. CASE StartsAuthmon \/ SetsMarks \/ AddsMangle
  BY <1>4 DEF StartsAuthmon, SetsMarks, AddsMangle
<1>5. CASE Resolves \/ AddsNat \/ AddsRedirect \/ AddsFilter \/ AddsSets
  BY <1>5 DEF Resolves, AddsNat, AddsRedirect, AddsFilter, AddsSets
<1>6. CASE CreatesThreads
  BY <1>6 DEF CreatesThreads, May
<1>7. CASE Joins \/ KillsAuthmon \/ DeauthsAll \/ Destroys
  BY <1>7 DEF Joins, KillsAuthmon, DeauthsAll, Destroys
<1>8. CASE Tests("main") \/ Quiesces("main") \/ Stops("main") \/ Stopped("main")
  BY <1>8 DEF Tests, Quiesces, Stops, Stopped, After, NoServer, Server
<1>9. CASE ChecksWeb \/ ChecksRouting \/ PassEnds \/ NdsctlEnds
  BY <1>9, Survives DEF ChecksWeb, ChecksRouting, PassEnds, NdsctlEnds, May
<1>10. CASE Signal
  BY <1>10 DEF Signal, May, InSetup, Alive
<1>12. CASE AuthEnds
  BY <1>12 DEF AuthEnds
<1>13. ASSUME NEW c \in Client,
              EndsInPass(c) \/ Throttles(c) \/ Preempts(c) \/ CommandAuth(c) \/ CommandDeauth(c)
       PROVE  ThreadInv'
  BY <1>13 DEF EndsInPass, Throttles, Preempts, CommandAuth, CommandDeauth, Ends
<1>14. ASSUME NEW d \in Server, NEW c \in Client, Requests(d, c) \/ Denies(d, c)
       PROVE  ThreadInv'
  BY <1>14 DEF Requests, Denies, ServesNow, Ends, InSetup
<1>15. ASSUME NEW d \in Server, Authenticates(d) \/ Answers(d) PROVE ThreadInv'
  BY <1>15 DEF Authenticates, Answers
<1> QED BY <1>1, <1>2, <1>3, <1>4, <1>5, <1>6, <1>7, <1>8, <1>9, <1>10, <1>12, <1>13,
           <1>14, <1>15, Survives DEF Next, Main, Watchdog, StopsWeb

\* A session begins only when there is somebody to begin it.
LEMMA SessionStep ==
  ASSUME TypeOK, LockedInv, Quiet, ServerInv, HealthInv, ThreadInv, SessionInv,
         UNCHANGED setting, Next
  PROVE  SessionInv'
<1> USE DEF TypeOK, LockedInv, Quiet, SessionInv, Goto, Thread, daemonVars, clientVars,
            Early, Stopping, Closing
<1>1. CASE Exits
  BY <1>1 DEF Gone, Exits
<1>2. CASE Configures
  BY <1>2 DEF Configures, Alive, HealthInv
<1>4. CASE ChecksLibrary \/ StartsWeb
  BY <1>4 DEF ChecksLibrary, StartsWeb
<1>5. CASE StartsAuthmon \/ SetsMarks \/ AddsMangle
  BY <1>5 DEF StartsAuthmon, SetsMarks, AddsMangle
<1>6. CASE Resolves \/ AddsNat \/ AddsRedirect \/ AddsFilter \/ AddsSets
  BY <1>6 DEF Resolves, AddsNat, AddsRedirect, AddsFilter, AddsSets
<1>7. CASE CreatesThreads
  BY <1>7 DEF CreatesThreads, May
<1>8. CASE Joins \/ KillsAuthmon
  BY <1>8 DEF Joins, KillsAuthmon
<1>9. CASE DeauthsAll
  BY <1>9 DEF DeauthsAll
<1>10. CASE Destroys
  BY <1>10 DEF Destroys
<1>11. CASE Tests("main") \/ Quiesces("main") \/ Stops("main") \/ Stopped("main")
  BY <1>11 DEF Tests, Quiesces, Stops, Stopped, After
<1>12. CASE ChecksWeb \/ ChecksRouting \/ PassEnds \/ NdsctlEnds \/ Signal
  BY <1>12 DEF ChecksWeb, ChecksRouting, PassEnds, NdsctlEnds, Signal
<1>13. CASE AuthEnds
  <2>1. /\ UNCHANGED <<at, sessions>> /\ listLock # Nobody
        /\ state' = [state EXCEPT ![authing] = "auth"]
    BY <1>13 DEF AuthEnds
  <2> QED BY <2>1
<1>14. ASSUME NEW c \in Client, EndsInPass(c) \/ CommandDeauth(c) PROVE SessionInv'
  BY <1>14 DEF EndsInPass, CommandDeauth, Ends
<1>15. ASSUME NEW c \in Client, Throttles(c) \/ Preempts(c) PROVE SessionInv'
  BY <1>15 DEF Throttles, Preempts, May
<1>16. ASSUME NEW c \in Client, CommandAuth(c) PROVE SessionInv'
  <2>1. at["main"] \notin Early \cup {"destroy", "exit"}
    BY <1>16 DEF CommandAuth, ThreadInv
  <2>2. TheNdsctl # Nobody
    BY LifecycleConstants DEF TheNdsctl, Nobody
  <2>3. /\ UNCHANGED <<at, state>> /\ listLock = Nobody /\ listLock' = TheNdsctl
        /\ authing' = c /\ sessions' = sessions \cup {c}
    BY <1>16 DEF CommandAuth, AuthBegins
  <2> QED BY <2>1, <2>2, <2>3
<1>17. ASSUME NEW d \in Server, NEW c \in Client, Requests(d, c) PROVE SessionInv'
  BY <1>17 DEF Requests, EntryOf
<1>18. ASSUME NEW d \in Server, NEW c \in Client, Denies(d, c) PROVE SessionInv'
  BY <1>18 DEF Denies, Ends
<1>19. ASSUME NEW d \in Server, Authenticates(d) PROVE SessionInv'
  <2>1. at["main"] \notin Early \cup {"destroy", "exit"}
    BY <1>19 DEF Authenticates, ServerInv, ThreadInv
  <2>2. d # Nobody
    BY DEF Server, Nobody
  <2>3. /\ UNCHANGED <<at, state>> /\ listLock = Nobody /\ listLock' = d
        /\ authing' = http[d] /\ sessions' = sessions \cup {http[d]}
    BY <1>19 DEF Authenticates, AuthBegins
  <2> QED BY <2>1, <2>2, <2>3
<1>20. ASSUME NEW d \in Server, Answers(d) PROVE SessionInv'
  BY <1>20 DEF Answers
<1> QED BY <1>1, <1>2, <1>4, <1>5, <1>6, <1>7, <1>8, <1>9, <1>10, <1>11, <1>12, <1>13,
           <1>14, <1>15, <1>16, <1>17, <1>18, <1>19, <1>20, Survives
        DEF Next, Main, Watchdog, StopsWeb

LEMMA CloseStep ==
  ASSUME TypeOK, LockedInv, CloseInv, [Next]_vars
  PROVE  CloseInv'
<1>1. CASE UNCHANGED vars
  BY <1>1 DEF vars, daemonVars, webVars, clientVars, fwVars, CloseInv, Quiet, May, ServerInv,
              HealthInv, ThreadInv, SessionInv
<1>2. CASE UNCHANGED setting /\ Next
  BY <1>2, ServerStep, HealthStep, ThreadStep, SessionStep DEF CloseInv, Quiet, May
<1> QED BY <1>1, <1>2 DEF Next

-----------------------------------------------------------------------------
(* The web server                                                          *)

Unstarted == {"down", "dead", "setup", "web", "fas", "marks", "mangle", "nat", "resolve",
              "redirect", "filter", "checked", "sets"}

Served == web \in Server /\ server[web] = "running"

\* The watchdog begins after the first start of the server; while it waits for a server
\* to stop, none listens.
WebInv ==
  /\ at["main"] \in Unstarted => at["watchdog"] = "off"
  /\ at["main"] \in Unstarted \ {"down", "dead", "setup", "web"} => Served
  /\ at["main"] \notin WebDone =>
       /\ \A d \in Server : Listening(d) => web = d
       /\ at["watchdog"] = "stopping" => \A d \in Server : ~Listening(d)
  /\ at["main"] = "join" /\ at["watchdog"] \in {"check", "route", "pass"} => Served

LEMMA WebInit == Init => WebInv
BY DEF Init, WebInv, Unstarted, Thread, Listening

\* Nothing that concerns the web server.
WebAside ==
  /\ UNCHANGED <<web, server>>
  /\ \/ UNCHANGED at
     \/ /\ at'["watchdog"] = at["watchdog"]
        /\ \/ at'["main"] = at["main"]
           \/ at["main"] \in WebDone /\ at'["main"] \in WebDone
           \/ at["main"] = "join" /\ at'["main"] = "test"

LEMMA AsideWeb ==
  ASSUME WebInv, WebAside
  PROVE  WebInv'
BY DEF WebInv, WebAside, WebDone, Unstarted, Served, Listening

\* The end of a process is the end of its servers and threads.
LEMMA GoneWeb ==
  ASSUME Gone("down") \/ Gone("dead")
  PROVE  WebInv'
BY DEF Gone, WebInv, Unstarted, Thread, Listening, WebDone

\* A start takes the port when nobody has it, and the pointer leads to it.
LEMMA StartedWeb ==
  ASSUME TypeOK, NEW d \in Server, Started(d)
  PROVE  Served' /\ \A e \in Server : Listening(e)' => web' = e
BY DEF TypeOK, Started, PortTaken, Listening, Served

LEMMA SetupWeb ==
  ASSUME TypeOK, WebInv,
         \/ Configures \/ ChecksLibrary \/ StartsWeb \/ StartsAuthmon \/ SetsMarks
         \/ AddsMangle \/ AddsNat \/ Resolves \/ AddsRedirect \/ AddsFilter \/ AddsSets
         \/ CreatesThreads
  PROVE  WebInv'
<1> USE DEF TypeOK, Goto, Thread, webVars, Unstarted
<1>1. CASE StartsWeb
  <2>1. /\ at'["main"] = "fas" /\ at'["watchdog"] = "off"
        /\ Served' /\ \A e \in Server : Listening(e)' => web' = e
    BY <1>1, StartedWeb DEF StartsWeb, WebInv
  <2> QED BY <2>1 DEF WebInv
<1>2. CASE CreatesThreads
  <2>1. UNCHANGED <<web, server>> /\ at["main"] = "sets" /\ Served
    BY <1>2 DEF CreatesThreads, WebInv
  <2>2. \/ at'["main"] = "join" /\ at'["watchdog"] = "check"
        \/ at'["main"] = "authmon"
    BY <1>2 DEF CreatesThreads
  <2>3. Served' /\ \A d \in Server : Listening(d)' => web' = d
    BY <2>1 DEF WebInv, WebDone, Served, Listening
  <2> QED BY <2>2, <2>3 DEF WebInv, WebDone
<1>3. CASE Configures \/ ChecksLibrary
  <2>1. /\ at["main"] \in {"down", "dead", "setup"} /\ at'["main"] \in {"setup", "web"}
        /\ UNCHANGED <<web, server>> /\ at'["watchdog"] = at["watchdog"]
    BY <1>3 DEF Configures, ChecksLibrary, Alive
  <2> QED BY <2>1 DEF WebInv, WebDone, Listening
<1>4. CASE \/ StartsAuthmon \/ SetsMarks \/ AddsMangle \/ AddsNat \/ Resolves
          \/ AddsRedirect \/ AddsFilter \/ AddsSets
  <2>1. /\ at["main"] \in {"fas", "marks", "mangle", "nat", "resolve", "redirect", "filter",
                           "checked"}
        /\ at'["main"] \in {"marks", "mangle", "nat", "resolve", "redirect", "filter",
                            "checked", "sets"}
    BY <1>4 DEF StartsAuthmon, SetsMarks, AddsMangle, Resolves, AddsNat, AddsRedirect,
                AddsFilter, AddsSets
  <2>2. UNCHANGED <<web, server>> /\ at'["watchdog"] = at["watchdog"]
    BY <1>4 DEF StartsAuthmon, SetsMarks, AddsMangle, Resolves, AddsNat, AddsRedirect,
                AddsFilter, AddsSets
  <2> QED BY <2>1, <2>2 DEF WebInv, WebDone, Listening, Served
<1> QED BY <1>1, <1>2, <1>3, <1>4

\* A thread stops the server: what listens becomes less. Only the watchdog returns from
\* it while the main thread has not stopped the server.
LEMMA StoppingWeb ==
  ASSUME TypeOK, WebInv, NEW t \in {"main", "watchdog"}, StopsWeb(t)
  PROVE  WebInv'
<1> USE DEF TypeOK, Goto, Thread, webVars
<1> DEFINE u == IF t = "main" THEN "watchdog" ELSE "main"
<1>1. CASE Crashes(t)
  BY <1>1, GoneWeb DEF Crashes, Quits
<1>2. CASE Tests(t)
  <2>1. /\ UNCHANGED <<web, server>> /\ at'[u] = at[u] /\ at[t] = "test"
        /\ at'[t] \in {"quiesce", "authmon", "start"}
        /\ at'[t] = "authmon" => t = "main"
    BY <1>2 DEF Tests, After
  <2> QED BY <2>1 DEF WebInv, WebDone, Unstarted, Listening, Served
<1>3. CASE Quiesces(t)
  <2>1. web \in Server /\ at[t] = "quiesce" /\ at'[t] = "stop" /\ at'[u] = at[u] /\ web' = web
    BY <1>3 DEF Quiesces, Stale, Pointed, NoServer
  <2>2. \A d \in Server : Listening(d)' => Listening(d)
    BY <1>3, <2>1 DEF Quiesces, Listening
  <2> QED BY <2>1, <2>2 DEF WebInv, WebDone, Unstarted
<1>4. CASE Stops(t)
  <2>1. at[t] = "stop" /\ at'[t] = "stopping" /\ at'[u] = at[u] /\ web' = web
    BY <1>4 DEF Stops
  <2>2. \A d \in Server : Listening(d)' => Listening(d) /\ web # d
    <3>1. web = NoServer => UNCHANGED server
      BY <1>4 DEF Stops
    <3>2. web # NoServer => server' = [server EXCEPT ![web] = "stopping"]
      BY <1>4 DEF Stops
    <3>3. NoServer \notin Server
      BY DEF Server, NoServer
    <3> QED BY <3>1, <3>2, <3>3 DEF Listening
  <2> QED BY <2>1, <2>2 DEF WebInv, WebDone, Unstarted
<1>5. CASE Stopped(t)
  <2>1. /\ at[t] = "stopping" /\ at'[u] = at[u]
        /\ at'[t] = IF t = "main" THEN "authmon" ELSE "start"
    BY <1>5 DEF Stopped, After
  <2>2. \A d \in Server : Listening(d)' => Listening(d)
    BY <1>5 DEF Stopped, Listening
  <2> QED BY <2>1, <2>2 DEF WebInv, WebDone, Unstarted
<1> QED BY <1>1, <1>2, <1>3, <1>4, <1>5 DEF StopsWeb

\* The rest of what the watchdog does.
LEMMA WatchdogWeb ==
  ASSUME TypeOK, WebInv, ChecksWeb \/ StartsAgain \/ ChecksRouting \/ PassEnds
  PROVE  WebInv'
<1> USE DEF TypeOK, Goto, Thread, webVars
<1>1. at["main"] \notin Unstarted
  BY DEF WebInv, ChecksWeb, StartsAgain, ChecksRouting, PassEnds
<1>2. CASE ChecksWeb \/ PassEnds \/ (ChecksRouting /\ ~Quits)
  <2>1. /\ UNCHANGED <<web, server>> /\ at'["main"] = at["main"]
        /\ at["watchdog"] \in {"check", "route", "pass"}
        /\ at'["watchdog"] \in {"check", "route", "pass", "test"}
    BY <1>2 DEF ChecksWeb, ChecksRouting, PassEnds
  <2> QED BY <1>1, <2>1 DEF WebInv, Listening, Served
<1>3. CASE StartsAgain /\ ~Quits
  <2>1. PICK d \in Server : Started(d)
    BY <1>3 DEF StartsAgain
  <2>2. at'["main"] = at["main"] /\ at'["watchdog"] = "route"
    BY <1>3 DEF StartsAgain
  <2>3. Served' /\ \A e \in Server : Listening(e)' => web' = e
    BY <2>1, StartedWeb
  <2> QED BY <1>1, <2>2, <2>3 DEF WebInv
<1> QED BY <1>2, <1>3, GoneWeb DEF Quits

LEMMA WebStep ==
  ASSUME TypeOK, WebInv, [Next]_vars
  PROVE  WebInv'
<1>1. CASE UNCHANGED vars
  BY <1>1, AsideWeb DEF vars, webVars, WebAside
<1>2. CASE Next
  <2>1. CASE SetupFails \/ FirewallFails \/ Exits \/ Killed
    BY <2>1, GoneWeb DEF SetupFails, FirewallFails, Exits, Killed, Quits
  <2>2. CASE Joins \/ KillsAuthmon \/ DeauthsAll \/ Destroys
    <3>1. /\ UNCHANGED <<web, server>> /\ at'["watchdog"] = at["watchdog"]
          /\ \/ at["main"] = "join" /\ at'["main"] = "test"
             \/ at["main"] \in WebDone /\ at'["main"] \in WebDone
      BY <2>2 DEF Joins, KillsAuthmon, DeauthsAll, Destroys, WebDone, TypeOK, Goto, Thread,
                  webVars
    <3> QED BY <3>1, AsideWeb DEF WebAside
  <2>3. CASE Signal
    BY <2>3, AsideWeb DEF Signal, WebAside, webVars
  <2>4. CASE NdsctlEnds
    <3>1. UNCHANGED <<web, server>> /\ at' = [at EXCEPT !["ndsctl"] = "ended"]
      BY <2>4 DEF NdsctlEnds, Goto, webVars
    <3>2. at'["watchdog"] = at["watchdog"] /\ at'["main"] = at["main"]
      BY <3>1 DEF TypeOK, Thread
    <3> QED BY <3>1, <3>2, AsideWeb DEF WebAside
  <2>5. CASE Sessions \/ \E d \in Server : Answers(d)
    <3>1. UNCHANGED <<at, web, server>>
      BY <2>5 DEF Sessions, AuthEnds, EndsInPass, Throttles, Preempts, CommandAuth,
                  CommandDeauth, Requests, Denies, Authenticates, Answers, webVars
    <3> QED BY <3>1, AsideWeb DEF WebAside
  <2> QED BY <1>2, <2>1, <2>2, <2>3, <2>4, <2>5, SetupWeb, StoppingWeb, WatchdogWeb
          DEF Next, Main, Watchdog, Sessions
<1> QED BY <1>1, <1>2

-----------------------------------------------------------------------------
(* The theorems                                                            *)

LEMMA LifeAlways == Spec => [](LifeInv /\ CleanInv /\ CloseInv)
<1>1. LifeInv /\ CleanInv /\ CloseInv /\ [Next]_vars => (LifeInv /\ CleanInv /\ CloseInv)'
  BY TypeStep, AccessStep, StageStep, CleanStep, CloseStep DEF LifeInv
<1> QED BY LifeInit, CloseInit, <1>1, PTL DEF Spec

\* All variables have their types.
THEOREM TypeCorrect == Spec => []TypeOK
<1>1. LifeInv => TypeOK
  BY DEF LifeInv
<1> QED BY LifeAlways, <1>1, PTL

\* What a daemon leaves behind when it dies does no harm to the next one: as long
\* as nft does what it is told, access always belongs to a session of the
\* daemon's own list (conf.c:324).
THEOREM AccessOwned == Spec => []AccessHasEntry
<1>1. LifeInv => AccessHasEntry
  BY DEF LifeInv
<1> QED BY LifeAlways, <1>1, PTL

\* When all the threads run, what iptables_fw_init adds is there whichever nft
\* commands fail (main.c:918): with a FQDN, what comes after resolve_fqdn
\* (fw_iptables.c:399).
THEOREM FirewallThere == Spec => []FirewallComplete
<1>1. LifeInv => FirewallComplete
  BY DEF LifeInv, StageInv, TypeOK, FirewallComplete, AfterFilter, AfterRedirect, AfterNat,
         AfterMangle
<1> QED BY LifeAlways, <1>1, PTL

\* A daemon that ends through termination_handler leaves no authmon behind
\* (main.c:191), for the values that fas_secure_enabled may have, and no rules if
\* nft can delete its tables: iptables_fw_destroy does not look
\* (fw_iptables.c:556).
THEOREM ExitsClean ==
  ASSUME FasLevel \in 0..4
  PROVE  Spec => []CleanExit
<1>1. CleanInv => CleanExit
  BY DEF CleanInv, CleanExit
<1> QED BY LifeAlways, <1>1, PTL

\* BinAuth hears the end of every session that it has heard the start of, when the
\* daemon stops on a signal or a command, nothing fails, and requests and commands
\* race it (main.c:257, auth.c:1274): auth_client_deauth_all comes when neither the
\* server nor the ndsctl thread can begin a session any more.  The watchdog still
\* could: settings in which it opens or throttles sessions are left out.
THEOREM SessionsEnd == Spec => []SessionsClosed
<1>1. CloseInv => SessionsClosed
  BY DEF CloseInv, Quiet, SessionInv, SessionsClosed, Early
<1> QED BY LifeAlways, <1>1, PTL

\* Until the main thread has stopped the web server, no server accepts requests but
\* the one the pointer leads to, and between its restarts the watchdog has one that
\* runs (http_microhttpd.c:86), however the two threads stop and start it together,
\* and whether or not stopping it gives the port back (http_microhttpd.c:82): if
\* not, the process exits.
THEOREM ServerPointed == Spec => []OneServer
<1>1. Init => WebInv
  BY WebInit
<1>2. ASSUME LifeInv, WebInv, [Next]_vars PROVE WebInv'
  BY <1>2, WebStep DEF LifeInv
<1>3. WebInv => OneServer
  BY DEF WebInv, OneServer, Served, Server, NoServer
<1>4. Spec => []LifeInv
  BY LifeAlways, PTL
<1> QED BY <1>1, <1>2, <1>3, <1>4, PTL DEF Spec

=============================================================================
