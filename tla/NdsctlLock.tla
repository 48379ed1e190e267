----------------------------- MODULE NdsctlLock -----------------------------
(***************************************************************************)
(* The lock file of ndsctl. A run of ndsctl keeps it locked from before it *)
(* connects until it has its answer (ndsctl.c); the daemon locks it while  *)
(* a BinAuth script runs, so that the script cannot use ndsctl: the ndsctl *)
(* thread may need the client list, which is locked around most scripts    *)
(* (util.c, auth.c, http_microhttpd.c).                                    *)
(* lockf locks belong to a process and a file: the threads of the daemon   *)
(* share them, and closing any descriptor of the file drops the lock. The  *)
(* threads also share one variable for the descriptor, config->lockfd.     *)
(***************************************************************************)
EXTENDS Integers

CONSTANTS
  Settings,  \* the settings that are explored
  TmpMount,  \* the tmpfs is mounted on /tmp
  MaxFile,   \* bound: lock files that are created
  MaxFd      \* bound: descriptors of the daemon

HttpReason == {"auth_client", "client_auth", "client_deauth"}
WatchdogReason == {"preemptive_auth", "throttle", "timeout_deauth"}
NdsctlReason == {"ndsctl_auth", "ndsctl_deauth"}
Reason == HttpReason \cup WatchdogReason \cup NdsctlReason

Thread == {"http", "watchdog", "ndsctl"}

\* Runs of ndsctl by people, authmon and theme scripts.
Users == {"u1", "u2", "u3"}

\* Of a setting: those who run ndsctl, the reasons for which the daemon runs
\* BinAuth scripts and those for which a script uses ndsctl, and whether the
\* daemon may stop and start again.
Setting == [user : SUBSET Users, jobs : SUBSET Reason, calls : SUBSET Reason,
            restarting : BOOLEAN]

ASSUME LockConstants ==
  /\ Settings \subseteq Setting /\ TmpMount \in BOOLEAN
  /\ MaxFile \in Nat /\ MaxFd \in Nat \ {0}

VARIABLES
  setting,    \* one of Settings, for the whole behaviour
  up,         \* the daemon runs
  path,       \* the file that the path of the lock names, or 0
  files,      \* files created so far
  owner,      \* the process that has locked each file, or "none"
  ctl, file,  \* of each ndsctl: what it does next, the file it has open
  fds,        \* the descriptors of the daemon: a file, Closed or Other
  others,     \* descriptors that other code of the daemon has open
  lockfd,     \* config->lockfd
  listLock,   \* the holder of client_list_mutex, or "none"
  at, job,    \* what each thread does next, and why
  took,       \* its ndsctl_lock returned 0
  served      \* the ndsctl whose command the ndsctl thread runs, or "none"

fileVars == <<path, files, owner>>
fdVars == <<fds, others, lockfd>>
threadVars == <<listLock, at, job, took, served>>
vars == <<setting, up, fileVars, ctl, file, fdVars, threadVars>>

User == setting.user
Jobs == setting.jobs
ScriptCalls == setting.calls
Restarting == setting.restarting

\* A script runs at most one ndsctl at a time: it has the name of the thread.
Process == User \cup Thread

File == 1..MaxFile
Fd == 1..MaxFd
Closed == 0
Other == MaxFile + 1

Init ==
  /\ setting \in Settings
  /\ up = TRUE
  /\ path = 0 /\ files = 0 /\ owner = [f \in File |-> "none"]
  /\ ctl = [p \in Process |-> "idle"] /\ file = [p \in Process |-> 0]
  /\ fds = [d \in Fd |-> Closed] /\ others = {} /\ lockfd = 1
  /\ listLock = "none"
  /\ at = [t \in Thread |-> "idle"] /\ job = [t \in Thread |-> "none"]
  /\ took = [t \in Thread |-> FALSE] /\ served = "none"

-----------------------------------------------------------------------------
(* Files and descriptors                                                   *)

\* open with O_CREAT.
Opens(f) ==
  \/ path # 0 /\ f = path /\ UNCHANGED <<path, files>>
  \/ path = 0 /\ files < MaxFile /\ f = files + 1 /\ path' = f /\ files' = f

\* lockf F_TLOCK by process p would succeed.
CanLock(p, f) == owner[f] \in {"none", p}

\* The lock that p has on f is dropped.
Dropped(p, f) == [owner EXCEPT ![f] = IF @ = p THEN "none" ELSE @]

FirstClosed(d) == fds[d] = Closed /\ \A e \in 1..(d - 1) : fds[e] # Closed

\* close(config->lockfd), whatever that descriptor is by now.
CloseLockfd ==
  /\ fds' = [fds EXCEPT ![lockfd] = Closed]
  /\ owner' = IF fds[lockfd] \in File
              THEN Dropped("opennds", fds[lockfd]) ELSE owner

\* Other code of the daemon opens and closes descriptors: sockets, pipes.
OtherOpens(d) ==
  /\ up /\ FirstClosed(d) /\ others = {}
  /\ fds' = [fds EXCEPT ![d] = Other]
  /\ others' = {d}
  /\ UNCHANGED <<up, fileVars, ctl, file, lockfd, threadVars>>

OtherCloses(d) ==
  /\ d \in others
  /\ fds' = [fds EXCEPT ![d] = Closed]
  /\ owner' = IF fds[d] \in File THEN Dropped("opennds", fds[d]) ELSE owner
  /\ others' = others \ {d}
  /\ UNCHANGED <<up, path, files, ctl, file, lockfd, threadVars>>

-----------------------------------------------------------------------------
(* ndsctl                                                                  *)

GotoCtl(p, l) == ctl' = [ctl EXCEPT ![p] = l]

\* A user runs ndsctl, or the script of a thread does.
Runs(p) == p \in Thread => at[p] = "script" /\ job[p] \in ScriptCalls

CtlOpens(p) ==
  /\ ctl[p] = "idle" /\ Runs(p)
  /\ \E f \in File : Opens(f) /\ file' = [file EXCEPT ![p] = f]
  /\ GotoCtl(p, "open")
  /\ UNCHANGED <<up, owner, fdVars, threadVars>>

CtlLocks(p) ==
  /\ ctl[p] = "open" /\ CanLock(p, file[p])
  /\ owner' = [owner EXCEPT ![file[p]] = p]
  /\ GotoCtl(p, "locked")
  /\ UNCHANGED <<up, path, files, file, fdVars, threadVars>>

\* Faults: the answer of lockf is not looked at; the file stays open.
CtlGoesOn(p) ==
  /\ ctl[p] = "open" /\ ~CanLock(p, file[p])
  /\ GotoCtl(p, "locked")
  /\ UNCHANGED <<up, fileVars, file, fdVars, threadVars>>
CtlKeepsOpen(p) ==
  /\ ctl[p] = "open" /\ ~CanLock(p, file[p])
  /\ GotoCtl(p, "idle")
  /\ UNCHANGED <<up, fileVars, file, fdVars, threadVars>>

\* "ndsctl thread is busy, please try later."
CtlBusy(p) ==
  /\ ctl[p] = "open" /\ ~CanLock(p, file[p])
  /\ file' = [file EXCEPT ![p] = 0]
  /\ GotoCtl(p, "idle")
  /\ UNCHANGED <<up, fileVars, fdVars, threadVars>>

\* Fault: the lock is only kept while connecting.
CtlConnectsUnlocked(p) ==
  /\ ctl[p] = "locked" /\ up
  /\ GotoCtl(p, "waiting")
  /\ owner' = Dropped(p, file[p])
  /\ UNCHANGED <<up, path, files, file, fdVars, threadVars>>

CtlConnects(p) ==
  /\ ctl[p] = "locked" /\ up
  /\ GotoCtl(p, "waiting")
  /\ UNCHANGED <<up, fileVars, file, fdVars, threadVars>>

\* An unknown command, or arguments that do not fit.
CtlRefuses(p) ==
  /\ ctl[p] = "locked"
  /\ GotoCtl(p, "done")
  /\ UNCHANGED <<up, fileVars, file, fdVars, threadVars>>

\* No daemon: /tmp/ndsctl.lock is removed.
CtlNoDaemon(p) ==
  /\ ctl[p] = "locked" /\ ~up
  /\ path' = IF TmpMount THEN 0 ELSE path
  /\ GotoCtl(p, "done")
  /\ UNCHANGED <<up, files, owner, file, fdVars, threadVars>>

CtlUnlocks(p) ==
  /\ ctl[p] = "done"
  /\ owner' = Dropped(p, file[p])
  /\ file' = [file EXCEPT ![p] = 0]
  /\ GotoCtl(p, "idle")
  /\ UNCHANGED <<up, path, files, fdVars, threadVars>>

Ctl(p) == \/ CtlOpens(p) \/ CtlLocks(p) \/ CtlBusy(p) \/ CtlRefuses(p)
          \/ CtlConnects(p) \/ CtlNoDaemon(p) \/ CtlUnlocks(p)

-----------------------------------------------------------------------------
(* The threads of the daemon                                               *)

Goto(t, l) == at' = [at EXCEPT ![t] = l]

\* do_binauth runs its script without the list, binauth_action with it.
NeedsList(r) == r # "auth_client"

\* Reasons for which the file is locked: those without "deauth" or "ndsctl_auth".
Locks(r) == r \in {"auth_client", "client_auth", "preemptive_auth", "throttle"}

AfterList(r) == IF r = "query" THEN "release"
                ELSE IF Locks(r) THEN "open" ELSE "script"

\* A request, or the watchdog, comes to run a script.
Begins(t, r) ==
  /\ up /\ at[t] = "idle" /\ r \in Jobs
  /\ job' = [job EXCEPT ![t] = r]
  /\ took' = [took EXCEPT ![t] = FALSE]
  /\ Goto(t, IF NeedsList(r) THEN "list" ELSE AfterList(r))
  /\ UNCHANGED <<up, fileVars, ctl, file, fdVars, listLock, served>>

\* ndsctl_handler: auth and deauth run scripts, status and json ("query") need
\* the list, trust, untrust and debuglevel do not.
Serves(p) ==
  /\ up /\ at["ndsctl"] = "idle" /\ ctl[p] = "waiting"
  /\ took' = [took EXCEPT !["ndsctl"] = FALSE]
  /\ \/ /\ served' = p
        /\ \E r \in NdsctlReason \cup {"query"} :
             r \in Jobs \cup {"query"} /\ job' = [job EXCEPT !["ndsctl"] = r]
        /\ Goto("ndsctl", "list")
        /\ UNCHANGED ctl
     \/ GotoCtl(p, "done") /\ UNCHANGED <<served, job, at>>
  /\ UNCHANGED <<up, fileVars, file, fdVars, listLock>>

TakesList(t) ==
  /\ at[t] = "list" /\ listLock = "none"
  /\ listLock' = t
  /\ Goto(t, AfterList(job[t]))
  /\ UNCHANGED <<up, fileVars, ctl, file, fdVars, job, took, served>>

\* ndsctl_lock: the descriptor is kept in config.
OpensLock(t) ==
  /\ at[t] = "open"
  /\ \E d \in Fd, f \in File :
       /\ FirstClosed(d) /\ Opens(f)
       /\ fds' = [fds EXCEPT ![d] = f]
       /\ lockfd' = d
  /\ Goto(t, "lockf")
  /\ UNCHANGED <<up, owner, ctl, file, others, listLock, job, took, served>>

Lockable == fds[lockfd] \in File /\ CanLock("opennds", fds[lockfd])

GetsLock(t) ==
  /\ at[t] = "lockf" /\ Lockable
  /\ owner' = [owner EXCEPT ![fds[lockfd]] = "opennds"]
  /\ took' = [took EXCEPT ![t] = TRUE]
  /\ Goto(t, "script")
  /\ UNCHANGED <<up, path, files, ctl, file, fdVars, listLock, job, served>>

\* Fault: every answer of lockf is taken for success.
FailsUnnoticed(t) ==
  /\ at[t] = "lockf" /\ ~Lockable
  /\ took' = [took EXCEPT ![t] = TRUE]
  /\ Goto(t, "script")
  /\ UNCHANGED <<up, fileVars, ctl, file, fdVars, listLock, job, served>>

FailsToLock(t) ==
  /\ at[t] = "lockf" /\ ~Lockable
  /\ Goto(t, "refused")
  /\ UNCHANGED <<up, fileVars, ctl, file, fdVars, listLock, job, took, served>>

\* Fault: the descriptor of a file that is locked elsewhere is not closed.
KeepsRefused(t) ==
  /\ at[t] = "refused"
  /\ Goto(t, IF job[t] = "auth_client" THEN "release" ELSE "script")
  /\ UNCHANGED <<up, fileVars, ctl, file, fdVars, listLock, job, took, served>>

\* do_binauth gives up without the lock; binauth_action runs its script.
ClosesRefused(t) ==
  /\ at[t] = "refused"
  /\ CloseLockfd
  /\ Goto(t, IF job[t] = "auth_client" THEN "release" ELSE "script")
  /\ UNCHANGED <<up, path, files, ctl, file, others, lockfd, listLock, job, took,
                 served>>

\* Fault: the file is unlocked without a look at the result of ndsctl_lock.
ScriptEndsUnlocking(t) ==
  /\ at[t] = "script" /\ ctl[t] = "idle"
  /\ Goto(t, "unlock")
  /\ UNCHANGED <<up, fileVars, ctl, file, fdVars, listLock, job, took, served>>

ScriptEnds(t) ==
  /\ at[t] = "script" /\ ctl[t] = "idle"
  /\ Goto(t, IF took[t] THEN "unlock" ELSE "release")
  /\ UNCHANGED <<up, fileVars, ctl, file, fdVars, listLock, job, took, served>>

\* ndsctl_unlock: F_ULOCK, and then close.
Unlocks(t) ==
  /\ at[t] = "unlock"
  /\ owner' = IF fds[lockfd] \in File
              THEN Dropped("opennds", fds[lockfd]) ELSE owner
  /\ Goto(t, "close")
  /\ UNCHANGED <<up, path, files, ctl, file, fdVars, listLock, job, took, served>>

ClosesLock(t) ==
  /\ at[t] = "close"
  /\ CloseLockfd
  /\ Goto(t, "release")
  /\ UNCHANGED <<up, path, files, ctl, file, others, lockfd, listLock, job, took,
                 served>>

\* The list is released and the ndsctl has its answer.
Finishes(t) ==
  /\ at[t] = "release"
  /\ listLock' = IF listLock = t THEN "none" ELSE listLock
  /\ Goto(t, "idle")
  /\ took' = [took EXCEPT ![t] = FALSE]
  /\ IF t = "ndsctl" /\ served # "none"
     THEN GotoCtl(served, "done") /\ served' = "none"
     ELSE UNCHANGED <<ctl, served>>
  /\ UNCHANGED <<up, fileVars, file, fdVars, job>>

Working(t) ==
  \/ TakesList(t) \/ OpensLock(t) \/ GetsLock(t) \/ FailsToLock(t)
  \/ ClosesRefused(t) \/ Unlocks(t) \/ ClosesLock(t) \/ Finishes(t)

Beginning ==
  \/ \E r \in HttpReason : Begins("http", r)
  \/ \E r \in WatchdogReason : Begins("watchdog", r)

\* The daemon stops: its locks and descriptors are gone, ndsctl reads the end of
\* its connection, a script goes on and its ndsctl too.
Stops ==
  /\ Restarting /\ up
  /\ up' = FALSE
  /\ owner' = [f \in File |-> IF owner[f] = "opennds" THEN "none" ELSE owner[f]]
  /\ fds' = [d \in Fd |-> Closed] /\ others' = {}
  /\ ctl' = [p \in Process |-> IF ctl[p] = "waiting" THEN "done" ELSE ctl[p]]
  /\ listLock' = "none"
  /\ at' = [t \in Thread |-> "idle"]
  /\ took' = [t \in Thread |-> FALSE] /\ served' = "none"
  /\ UNCHANGED <<path, files, file, lockfd, job>>

\* config_init of the next daemon removes the lock file.
Starts ==
  /\ ~up
  /\ up' = TRUE
  /\ path' = 0
  /\ UNCHANGED <<files, owner, ctl, file, fdVars, threadVars>>

Next ==
  /\ UNCHANGED setting
  /\ \/ \E p \in Process : Ctl(p) \/ Serves(p)
     \/ Beginning
     \/ \E t \in Thread : Working(t) \/ ScriptEnds(t)
     \/ \E d \in Fd : OtherOpens(d) \/ OtherCloses(d)
     \/ Stops \/ Starts

Spec == Init /\ [][Next]_vars

\* Threads and ndsctl go on, the mutex and the ndsctl thread are handed to those
\* who wait, and scripts end.
FairSpec ==
  /\ Spec
  /\ \A t \in Thread : /\ SF_vars(UNCHANGED setting /\ TakesList(t))
                       /\ WF_vars(UNCHANGED setting /\ Working(t))
                       /\ SF_vars(UNCHANGED setting /\ ScriptEnds(t))
  /\ SF_vars(UNCHANGED setting /\ \E p \in Process : Serves(p))
  /\ \A p \in Users \cup Thread :
       WF_vars(UNCHANGED setting /\ p \in Process
                 /\ (CtlLocks(p) \/ CtlBusy(p) \/ CtlConnects(p)
                       \/ CtlNoDaemon(p) \/ CtlUnlocks(p)))

-----------------------------------------------------------------------------
(* Properties                                                              *)

\* The types of all variables; ndsctl has a file open while it runs.
TypeOK ==
  /\ setting \in Settings
  /\ up \in BOOLEAN
  /\ path \in 0..files /\ files \in 0..MaxFile
  /\ owner \in [File -> Process \cup {"opennds", "none"}]
  /\ ctl \in [Process -> {"idle", "open", "locked", "waiting", "done"}]
  /\ file \in [Process -> 0..files]
  /\ \A p \in Process : ctl[p] = "idle" <=> file[p] = 0
  /\ fds \in [Fd -> {Closed, Other} \cup File] /\ others \subseteq Fd
  /\ lockfd \in Fd
  /\ listLock \in Thread \cup {"none"}
  /\ at \in [Thread -> {"idle", "list", "open", "lockf", "refused", "script",
                        "unlock", "close", "release"}]
  /\ job \in [Thread -> Reason \cup {"none", "query"}]
  /\ took \in [Thread -> BOOLEAN]
  /\ served \in Process \cup {"none"}

Inside == {p \in Process : ctl[p] \in {"locked", "waiting", "done"}}

\* At most one ndsctl is between its lock and its unlock: another one is told
\* that ndsctl is busy (ndsctl.c:386). A daemon that starts removes the lock file
\* of an ndsctl that is still running (conf.c:412): there can then be one more,
\* but only with another file, and never two that have the same one.
OneNdsctl == \A p, q \in Inside : file[p] = file[q] \/ ~Restarting => p = q

\* The reasons for which the lock of the file is asked for by a single thread:
\* lockf and config->lockfd do not tell the watchdog from a request.
OneLocker == Jobs \cap {"preemptive_auth", "throttle"} = {}

\* "ndsctl will deadlock if run within the BinAuth script so lock it"
\* (http_microhttpd.c:207): while a script runs that ndsctl_lock returned 0 for,
\* no ndsctl has the lock; after a restart there may be one that has the lock of
\* a removed file. Only for a single thread that locks: of two, the first to
\* unlock lets ndsctl in while the script of the other still runs.
ScriptExcludesNdsctl ==
  OneLocker =>
    \A t \in Thread : at[t] = "script" /\ took[t] =>
      \A p \in Inside : Restarting /\ file[p] # fds[lockfd]

\* Reasons whose scripts find the lock taken: by the daemon for the portal of a
\* preauthenticated client, and by the ndsctl whose command runs the script.
\* binauth_action runs the others also when it could not or did not lock.
LockedOut == {"auth_client", "ndsctl_auth", "ndsctl_deauth"}

\* "all functions of ndsctl are locked from use within binauth"
\* (binauth_log.sh:179): no script that the list is locked around is served.
ScriptsLockedOut ==
  OneLocker /\ ~Restarting /\ ScriptCalls \subseteq LockedOut =>
    \A t \in Thread : at[t] = "script" /\ listLock = t => ctl[t] \in {"idle", "open"}

\* While requests are the only ones to lock the file, what other code of the
\* daemon has open is not closed by ndsctl_unlock through a config->lockfd that
\* was closed before, and no descriptor of the lock file is left behind, on any
\* of the ways through ndsctl_lock. With two threads that lock, one replaces the
\* config->lockfd of the other and neither holds.
DescriptorsKept ==
  OneLocker =>
    /\ \A d \in others : fds[d] = Other
    /\ (\A t \in Thread : at[t] \in {"idle", "list"}) =>
         \A d \in Fd : fds[d] \in {Closed, Other}

Returned(p) == p \in User => ctl[p] = "idle"

\* The list is released and ndsctl has its answer: nobody waits for a script that
\* waits for him.
EverybodyReturns ==
  OneLocker /\ ~Restarting /\ ScriptCalls \subseteq LockedOut =>
    /\ listLock # "none" ~> listLock = "none"
    /\ \A p \in Users : ~Returned(p) ~> Returned(p)
=============================================================================
