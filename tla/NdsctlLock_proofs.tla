--------------------------- MODULE NdsctlLock_proofs ---------------------------
(***************************************************************************)
(* Mutual exclusion of the lock file, for any settings and any numbers of  *)
(* files and descriptors: of two runs of ndsctl, and of an ndsctl and the  *)
(* scripts for which the daemon has locked the file.                       *)
(***************************************************************************)
EXTENDS NdsctlLock, TLAPS

\* An ndsctl between its lock and its unlock owns the file that it has open.
OwnInv == \A p \in Inside : owner[file[p]] = p

\* Each thread has its own reasons.
JobInv ==
  /\ job["http"] \in HttpReason \cup {"none"}
  /\ job["watchdog"] \in (WatchdogReason \cap Jobs) \cup {"none"}
  /\ job["ndsctl"] \in NdsctlReason \cup {"query", "none"}
  /\ \A t \in Thread :
       /\ at[t] # "idle" => job[t] # "none"
       /\ at[t] \in {"open", "lockf", "refused", "unlock", "close"} \/ took[t] =>
            Locks(job[t])
       /\ took[t] => at[t] \in {"script", "unlock", "close", "release"}
       /\ at[t] \in {"unlock", "close"} => took[t]
       /\ at[t] = "list" => NeedsList(job[t])
       /\ listLock = t => at[t] \notin {"idle", "list"} /\ NeedsList(job[t])

\* Where the requests have the file open, through config->lockfd.
Opened == \/ at["http"] \in {"lockf", "refused", "unlock", "close"}
          \/ at["http"] = "script" /\ took["http"]

\* Only requests lock the file: config->lockfd is the one descriptor of a lock
\* file exactly while they have it open, and the daemon owns the file from lockf
\* to the end of the script.
LockerInv ==
  OneLocker =>
    /\ Opened => fds[lockfd] \in File
    /\ took["http"] /\ at["http"] \in {"script", "unlock"} =>
         owner[fds[lockfd]] = "opennds"
    /\ \A d \in Fd : fds[d] \in File => d = lockfd /\ Opened
    /\ \A d \in others : fds[d] = Other

\* The command that the ndsctl thread executes is of an ndsctl that waits for it.
ServedInv ==
  at["ndsctl"] # "idle" => served \in Process /\ ctl[served] = "waiting"

\* There is one lock file, the scripts that run ndsctl still run, and the command
\* of such a script is not what the script runs for.
CalmInv ==
  ~Restarting =>
    /\ up /\ path = files /\ files \in {0, 1}
    /\ \A d \in Fd : fds[d] \in File => fds[d] = 1
    /\ \A t \in Thread : ctl[t] # "idle" => at[t] = "script" /\ job[t] \in ScriptCalls
    /\ at["ndsctl"] # "idle" => served # "ndsctl"

LockInv == TypeOK /\ OwnInv /\ JobInv /\ LockerInv /\ ServedInv /\ CalmInv

\* The names of processes are apart from "opennds" and "none".
LEMMA Names ==
  ASSUME TypeOK
  PROVE  /\ Thread \subseteq Process
         /\ "opennds" \notin Process /\ "none" \notin Process
         /\ Process \subseteq Users \cup Thread
BY LockConstants DEF TypeOK, Process, User, Thread, Setting, Users

LEMMA LockInit == Init => LockInv
<1> SUFFICES ASSUME Init PROVE LockInv
  OBVIOUS
<1>1. TypeOK
  BY LockConstants DEF Init, TypeOK, File, Fd, Closed
<1>2. OwnInv /\ JobInv
  BY DEF Init, OwnInv, JobInv, Inside, Thread
<1>3. LockerInv
  BY DEF Init, LockerInv, Opened, Closed, Other, File, Thread
<1>4. ServedInv /\ CalmInv
  BY <1>1, Names DEF Init, ServedInv, CalmInv, Thread, Closed, File
<1> QED BY <1>1, <1>2, <1>3, <1>4 DEF LockInv

-----------------------------------------------------------------------------
(* Types                                                                   *)

\* What opening the lock file does to the files.
LEMMA OpensType ==
  ASSUME TypeOK, NEW f \in File, Opens(f)
  PROVE  /\ path' \in 0..files' /\ files' \in 0..MaxFile
         /\ files <= files' /\ f \in 1..files'
BY LockConstants DEF TypeOK, Opens, File

\* Closing config->lockfd.
LEMMA CloseType ==
  ASSUME TypeOK, CloseLockfd
  PROVE  /\ fds' \in [Fd -> {Closed, Other} \cup File]
         /\ owner' \in [File -> Process \cup {"opennds", "none"}]
BY DEF TypeOK, CloseLockfd, Dropped

\* The steps of an ndsctl.
LEMMA CtlType ==
  ASSUME TypeOK, NEW p \in Process, UNCHANGED setting, Ctl(p)
  PROVE  TypeOK'
<1> USE LockConstants DEF TypeOK, GotoCtl, fdVars, threadVars, fileVars
<1>0. Process' = Process
  BY DEF Process, User
<1>1. CASE CtlOpens(p)
  <2> PICK f \in File : Opens(f) /\ file' = [file EXCEPT ![p] = f]
    BY <1>1 DEF CtlOpens
  <2>1. /\ path' \in 0..files' /\ files' \in 0..MaxFile
        /\ files <= files' /\ f \in 1..files'
    BY OpensType
  <2>2. file' \in [Process -> 0..files'] /\ ctl' = [ctl EXCEPT ![p] = "open"]
    BY <1>1, <2>1 DEF CtlOpens
  <2> QED BY <1>0, <1>1, <2>1, <2>2 DEF CtlOpens
<1>2. CASE CtlLocks(p)
  BY <1>0, <1>2 DEF CtlLocks
<1>3. CASE CtlBusy(p)
  BY <1>0, <1>3 DEF CtlBusy
<1>4. CASE CtlRefuses(p) \/ CtlConnects(p)
  BY <1>0, <1>4 DEF CtlRefuses, CtlConnects
<1>5. CASE CtlNoDaemon(p)
  BY <1>0, <1>5 DEF CtlNoDaemon
<1>6. CASE CtlUnlocks(p)
  <2>1. owner' \in [File -> Process \cup {"opennds", "none"}]
    BY <1>6 DEF CtlUnlocks, Dropped
  <2>2. /\ file' = [file EXCEPT ![p] = 0] /\ file' \in [Process -> 0..files]
        /\ ctl' = [ctl EXCEPT ![p] = "idle"]
    BY <1>6 DEF CtlUnlocks
  <2> QED BY <1>0, <1>6, <2>1, <2>2 DEF CtlUnlocks
<1> QED BY <1>1, <1>2, <1>3, <1>4, <1>5, <1>6 DEF Ctl

\* Where a thread goes with the list.
LEMMA AfterListType == \A r : AfterList(r) \in {"release", "open", "script"}
BY DEF AfterList

\* The steps of a thread.
LEMMA ThreadType ==
  ASSUME TypeOK, ServedInv, NEW t \in Thread, UNCHANGED setting,
         Working(t) \/ ScriptEnds(t)
  PROVE  TypeOK'
<1> USE LockConstants DEF TypeOK, Goto, fdVars, threadVars, fileVars
<1>0. Process' = Process
  BY DEF Process, User
<1>1. CASE TakesList(t)
  BY <1>0, <1>1, AfterListType DEF TakesList
<1>2. CASE OpensLock(t)
  <2> PICK d \in Fd, f \in File :
         Opens(f) /\ fds' = [fds EXCEPT ![d] = f] /\ lockfd' = d
    BY <1>2 DEF OpensLock
  <2>1. path' \in 0..files' /\ files' \in 0..MaxFile /\ files <= files'
    BY OpensType
  <2>2. file \in [Process -> 0..files']
    BY <2>1
  <2> QED BY <1>0, <1>2, <2>1, <2>2 DEF OpensLock
<1>3. CASE GetsLock(t)
  <2>1. owner' \in [File -> Process \cup {"opennds", "none"}]
    BY <1>3 DEF GetsLock
  <2>2. /\ took' \in [Thread -> BOOLEAN]
        /\ at' \in [Thread -> {"idle", "list", "open", "lockf", "refused", "script",
                               "unlock", "close", "release"}]
    BY <1>3 DEF GetsLock
  <2> QED BY <1>0, <1>3, <2>1, <2>2 DEF GetsLock
<1>7. CASE FailsToLock(t)
  BY <1>0, <1>7 DEF FailsToLock
<1>8. CASE ScriptEnds(t)
  BY <1>0, <1>8 DEF ScriptEnds
<1>4. CASE ClosesRefused(t) \/ ClosesLock(t)
  BY <1>0, <1>4, CloseType DEF ClosesRefused, ClosesLock
<1>5. CASE Unlocks(t)
  BY <1>0, <1>5 DEF Unlocks, Dropped
<1>6. CASE Finishes(t)
  <2>1. CASE t = "ndsctl" /\ served # "none"
    <3>1. ctl[served] = "waiting" /\ ctl' = [ctl EXCEPT ![served] = "done"]
      BY <1>6, <2>1 DEF Finishes, GotoCtl, ServedInv
    <3> QED BY <1>0, <1>6, <2>1, <3>1 DEF Finishes
  <2>2. CASE ~(t = "ndsctl" /\ served # "none")
    BY <1>0, <1>6, <2>2 DEF Finishes
  <2> QED BY <2>1, <2>2
<1> QED BY <1>1, <1>2, <1>3, <1>4, <1>5, <1>6, <1>7, <1>8 DEF Working

LEMMA TypeStep == ASSUME TypeOK, ServedInv, [Next]_vars PROVE TypeOK'
<1> USE LockConstants DEF TypeOK, Goto, fdVars, threadVars, fileVars
<1>0. Process' = Process /\ setting' = setting
  BY DEF Process, User, Next, vars
<1>1. ASSUME NEW p \in Process, Serves(p) PROVE TypeOK'
  BY <1>0, <1>1 DEF Serves, GotoCtl, Thread, Reason, NdsctlReason
<1>2. ASSUME NEW t \in Thread, NEW r \in Reason, Begins(t, r) PROVE TypeOK'
  BY <1>0, <1>2, AfterListType DEF Begins
<1>3. ASSUME NEW d \in Fd, OtherOpens(d) \/ OtherCloses(d) PROVE TypeOK'
  BY <1>0, <1>3 DEF OtherOpens, OtherCloses, Dropped
<1>4. CASE Stops
  BY <1>0, <1>4 DEF Stops
<1>5. CASE Starts
  BY <1>0, <1>5 DEF Starts
<1>6. CASE UNCHANGED vars
  BY <1>0, <1>6 DEF vars
<1>7. Beginning => \E t \in Thread, r \in Reason : Begins(t, r)
  BY DEF Beginning, Thread, Reason
<1> QED BY <1>0, <1>1, <1>2, <1>3, <1>4, <1>5, <1>6, <1>7, CtlType, ThreadType DEF Next

-----------------------------------------------------------------------------
(* Who has the lock, and for what                                          *)

\* A run of ndsctl that is inside has one of the files open.
LEMMA InsideFile ==
  ASSUME TypeOK, NEW p \in Inside
  PROVE  p \in Process /\ file[p] \in File
BY LockConstants DEF TypeOK, Inside, File

\* The steps of an ndsctl keep OwnInv.
LEMMA OwnCtl ==
  ASSUME TypeOK, OwnInv, UNCHANGED setting, NEW p \in Process, Ctl(p)
  PROVE  OwnInv'
<1>0. Process' = Process
  BY DEF Process, User
<1>1. ASSUME NEW q \in Inside', q # p PROVE q \in Inside /\ file'[q] = file[q]
  BY <1>0, <1>1 DEF Inside, TypeOK, Ctl, CtlOpens, CtlLocks, CtlBusy, CtlRefuses,
     CtlConnects, CtlNoDaemon, CtlUnlocks, GotoCtl
<1>2. ASSUME NEW q \in Inside', q # p PROVE owner'[file'[q]] = q
  <2>1. q \in Inside /\ file'[q] = file[q] /\ file[q] \in File /\ owner[file[q]] = q
    BY <1>1, <1>2, InsideFile DEF OwnInv
  <2>2. "none" # q
    BY <2>1, InsideFile, Names
  <2>3. owner'[file[q]] = q
    BY <1>2, <2>1, <2>2 DEF TypeOK, Ctl, CtlOpens, CtlLocks, CtlBusy, CtlRefuses,
       CtlConnects, CtlNoDaemon, CtlUnlocks, fileVars, CanLock, Dropped
  <2> QED BY <2>1, <2>3
<1>3. ASSUME p \in Inside' PROVE owner'[file'[p]] = p
  <2>1. CASE CtlLocks(p)
    BY <2>1, LockConstants DEF CtlLocks, TypeOK, File
  <2>2. CASE CtlRefuses(p) \/ CtlConnects(p) \/ CtlNoDaemon(p)
    BY <2>2 DEF CtlRefuses, CtlConnects, CtlNoDaemon, fileVars, OwnInv, Inside
  <2>3. CASE CtlOpens(p) \/ CtlBusy(p) \/ CtlUnlocks(p)
    BY <1>0, <1>3, <2>3 DEF CtlOpens, CtlBusy, CtlUnlocks, GotoCtl, Inside, TypeOK
  <2> QED BY <2>1, <2>2, <2>3 DEF Ctl
<1> QED BY <1>2, <1>3 DEF OwnInv

\* No other step takes a file from an ndsctl, or lets one in.
LEMMA OwnRest ==
  ASSUME TypeOK, ServedInv, OwnInv, UNCHANGED setting,
         \/ \E p \in Process : Serves(p)
         \/ Beginning
         \/ \E t \in Thread : Working(t) \/ ScriptEnds(t)
         \/ \E d \in Fd : OtherOpens(d) \/ OtherCloses(d)
         \/ Stops \/ Starts
  PROVE  OwnInv'
<1>0. Process' = Process
  BY DEF Process, User
<1>1. file' = file
  BY DEF Serves, Beginning, Begins, Working, ScriptEnds, OtherOpens, OtherCloses, Stops,
     Starts, TakesList, OpensLock, GetsLock, FailsToLock, ClosesRefused, Unlocks,
     ClosesLock, Finishes, fileVars
<1>2. Inside' \subseteq Inside
  <2>1. ASSUME NEW t \in Thread, Finishes(t) PROVE Inside' \subseteq Inside
    BY <1>0, <2>1 DEF Finishes, ServedInv, Inside, TypeOK, GotoCtl
  <2>2. ASSUME NEW p \in Process, Serves(p) PROVE Inside' \subseteq Inside
    BY <1>0, <2>2 DEF Serves, Inside, TypeOK, GotoCtl
  <2>3. CASE Stops
    BY <1>0, <2>3 DEF Stops, Inside
  <2>4. CASE ctl' = ctl
    BY <1>0, <2>4 DEF Inside
  <2> QED BY <2>1, <2>2, <2>3, <2>4 DEF Beginning, Begins, Working, ScriptEnds,
          OtherOpens, OtherCloses, Starts, TakesList, OpensLock, GetsLock, FailsToLock,
          ClosesRefused, Unlocks, ClosesLock
<1>3. \A f \in File : owner[f] \in Process => owner'[f] = owner[f]
  <2>1. "opennds" \notin Process /\ "none" \notin Process
    BY Names
  <2>2. CASE owner' = owner
    BY <2>2
  <2>3. ASSUME NEW t \in Thread, GetsLock(t)
        PROVE  \A f \in File : owner[f] \in Process => owner'[f] = owner[f]
    BY <2>1, <2>3 DEF GetsLock, Lockable, CanLock, TypeOK
  <2>4. ASSUME NEW t \in Thread, ClosesRefused(t) \/ ClosesLock(t) \/ Unlocks(t)
        PROVE  \A f \in File : owner[f] \in Process => owner'[f] = owner[f]
    BY <2>1, <2>4 DEF ClosesRefused, ClosesLock, Unlocks, CloseLockfd, Dropped, TypeOK
  <2>5. ASSUME NEW d \in Fd, OtherCloses(d)
        PROVE  \A f \in File : owner[f] \in Process => owner'[f] = owner[f]
    BY <2>1, <2>5 DEF OtherCloses, Dropped, TypeOK
  <2>6. CASE Stops
    BY <2>1, <2>6 DEF Stops, TypeOK
  <2> QED BY <2>2, <2>3, <2>4, <2>5, <2>6 DEF Serves, Beginning, Begins, Working,
          ScriptEnds, OtherOpens, Starts, TakesList, OpensLock, FailsToLock, Finishes,
          fileVars
<1> QED BY <1>1, <1>2, <1>3, InsideFile DEF OwnInv

LEMMA OwnStep ==
  ASSUME TypeOK, ServedInv, OwnInv, [Next]_vars
  PROVE  OwnInv'
<1>1. CASE UNCHANGED vars
  BY <1>1 DEF vars, fileVars, OwnInv, Inside, Process, User
<1>2. CASE Next
  BY <1>2, OwnCtl, OwnRest DEF Next
<1> QED BY <1>1, <1>2

\* An ndsctl changes nothing of the threads.
LEMMA CtlQuiet ==
  ASSUME NEW p \in Process, Ctl(p)
  PROVE  UNCHANGED <<up, fdVars, threadVars>>
BY DEF Ctl, CtlOpens, CtlLocks, CtlBusy, CtlRefuses, CtlConnects, CtlNoDaemon, CtlUnlocks

LEMMA JobStep ==
  ASSUME TypeOK, JobInv, [Next]_vars
  PROVE  JobInv'
<1> USE DEF Thread
<1>0. setting' = setting
  BY DEF Next, vars
<1>1. CASE UNCHANGED threadVars
  BY <1>0, <1>1 DEF threadVars, JobInv, Jobs
<1>2. ASSUME NEW p \in Process, Serves(p) PROVE JobInv'
  BY <1>0, <1>2 DEF Serves, JobInv, Jobs, Goto, TypeOK, NdsctlReason, NeedsList
<1>3. /\ \A r \in HttpReason : Begins("http", r) => JobInv'
      /\ \A r \in WatchdogReason : Begins("watchdog", r) => JobInv'
  BY <1>0 DEF Begins, JobInv, Jobs, Goto, TypeOK, AfterList, NeedsList, Locks, HttpReason,
     WatchdogReason
<1>4. ASSUME NEW t \in Thread, TakesList(t) PROVE JobInv'
  BY <1>0, <1>4 DEF TakesList, JobInv, Jobs, Goto, TypeOK, AfterList, NeedsList
<1>5. ASSUME NEW t \in Thread,
             OpensLock(t) \/ GetsLock(t) \/ FailsToLock(t) \/ ClosesRefused(t)
               \/ ScriptEnds(t) \/ Unlocks(t) \/ ClosesLock(t)
      PROVE  JobInv'
  BY <1>0, <1>5 DEF OpensLock, GetsLock, FailsToLock, ClosesRefused, ScriptEnds, Unlocks,
     ClosesLock, JobInv, Jobs, Goto, TypeOK
<1>6. ASSUME NEW t \in Thread, Finishes(t) PROVE JobInv'
  BY <1>0, <1>6 DEF Finishes, JobInv, Jobs, Goto, TypeOK
<1>7. CASE Stops
  BY <1>0, <1>7 DEF Stops, JobInv, Jobs, TypeOK
<1>8. (\E d \in Fd : OtherOpens(d) \/ OtherCloses(d)) \/ Starts => UNCHANGED threadVars
  BY DEF OtherOpens, OtherCloses, Starts
<1> QED BY <1>1, <1>2, <1>3, <1>4, <1>5, <1>6, <1>7, <1>8, CtlQuiet
        DEF Next, vars, Working, Beginning

\* The command of the ndsctl thread waits until the thread is done with it.
LEMMA ServedStep ==
  ASSUME TypeOK, ServedInv, [Next]_vars
  PROVE  ServedInv'
<1> USE DEF Thread, Goto, GotoCtl
<1>0. Process' = Process
  BY DEF Process, User, Next, vars
<1>1. ASSUME NEW p \in Process, Ctl(p) PROVE ServedInv'
  BY <1>0, <1>1 DEF Ctl, CtlOpens, CtlLocks, CtlBusy, CtlRefuses, CtlConnects, CtlNoDaemon,
     CtlUnlocks, ServedInv, TypeOK, threadVars
<1>2. ASSUME NEW p \in Process, Serves(p) PROVE ServedInv'
  BY <1>0, <1>2 DEF Serves, ServedInv, TypeOK
<1>3. ASSUME NEW t \in Thread, Finishes(t) PROVE ServedInv'
  BY <1>0, <1>3 DEF Finishes, ServedInv, TypeOK
<1>4. CASE Stops
  BY <1>0, <1>4 DEF Stops, ServedInv
<1>5. ASSUME UNCHANGED <<ctl, served>>, at["ndsctl"] = "idle" => at'["ndsctl"] = "idle"
      PROVE  ServedInv'
  BY <1>0, <1>5 DEF ServedInv
<1>6. ASSUME NEW t \in Thread, Working(t) \/ ScriptEnds(t), ~Finishes(t)
      PROVE  /\ UNCHANGED <<ctl, served>>
             /\ at["ndsctl"] = "idle" => at'["ndsctl"] = "idle"
  BY <1>6 DEF Working, ScriptEnds, TakesList, OpensLock, GetsLock, FailsToLock,
     ClosesRefused, Unlocks, ClosesLock, TypeOK
<1>7. ASSUME \/ Beginning \/ Starts \/ UNCHANGED vars
             \/ \E d \in Fd : OtherOpens(d) \/ OtherCloses(d)
      PROVE  UNCHANGED <<ctl, served>> /\ at'["ndsctl"] = at["ndsctl"]
  BY <1>7 DEF Beginning, Begins, Starts, OtherOpens, OtherCloses, threadVars, vars, TypeOK
<1> QED BY <1>1, <1>2, <1>3, <1>4, <1>5, <1>6, <1>7 DEF Next

\* Without restarts the lock file stays, and so do the scripts that run ndsctl.
LEMMA CalmStep ==
  ASSUME TypeOK, ServedInv, CalmInv, [Next]_vars
  PROVE  CalmInv'
<1> USE DEF Thread, Goto, GotoCtl
<1>0. Process' = Process /\ setting' = setting
  BY DEF Process, User, Next, vars
<1> SUFFICES ASSUME ~Restarting PROVE CalmInv'
  BY <1>0 DEF CalmInv, Restarting
<1> DEFINE Scripted == \A t \in Thread : ctl[t] # "idle" => at[t] = "script" /\ job[t] \in ScriptCalls
           OneFile == up /\ path = files /\ files \in {0, 1}
           OneOpen == \A d \in Fd : fds[d] \in File => fds[d] = 1
           Apart == at["ndsctl"] # "idle" => served # "ndsctl"
<1>1. OneFile /\ OneOpen /\ Scripted /\ Apart
  BY DEF CalmInv
<1>2. OneFile'
  <2>1. ASSUME NEW f \in File, Opens(f) PROVE path' = files' /\ files' \in {0, 1}
    BY <1>1, <2>1, LockConstants DEF Opens, File
  <2>2. ASSUME NEW p \in Process, Ctl(p) PROVE OneFile'
    BY <1>1, <2>1, <2>2 DEF Ctl, CtlOpens, CtlLocks, CtlBusy, CtlRefuses, CtlConnects,
       CtlNoDaemon, CtlUnlocks, fileVars
  <2>3. ASSUME NEW t \in Thread, Working(t) \/ ScriptEnds(t) PROVE OneFile'
    BY <1>1, <2>1, <2>3 DEF Working, ScriptEnds, TakesList, OpensLock, GetsLock,
       FailsToLock, ClosesRefused, Unlocks, ClosesLock, Finishes, fileVars
  <2>4. ~Stops /\ ~Starts
    BY <1>1 DEF Stops, Starts
  <2> QED BY <1>1, <2>2, <2>3, <2>4 DEF Next, vars, Beginning, Begins, Serves, OtherOpens,
          OtherCloses, fileVars
<1>3. Scripted' /\ Apart'
  <2>0. Thread \subseteq Process
    BY Names
  <2> USE <1>0, <1>1, <2>0 DEF TypeOK, ScriptCalls
  <2>1. ASSUME NEW p \in Process, Ctl(p) PROVE Scripted' /\ Apart'
    <3>1. UNCHANGED <<at, job, served>>
      BY <2>1, CtlQuiet DEF threadVars
    <3>2. \A t \in Thread : ctl'[t] = ctl[t] \/ ctl[t] # "idle" \/ (p = t /\ Runs(p))
      BY <2>1 DEF Ctl, CtlOpens, CtlLocks, CtlBusy, CtlRefuses, CtlConnects, CtlNoDaemon,
         CtlUnlocks
    <3> QED BY <3>1, <3>2 DEF Runs
  <2>2. ASSUME NEW p \in Process, Serves(p) PROVE Scripted' /\ Apart'
    BY <2>2 DEF Serves
  <2>3. ASSUME NEW t \in Thread, Working(t) \/ ScriptEnds(t), ~Finishes(t)
        PROVE  Scripted' /\ Apart'
    <3>1. UNCHANGED <<ctl, job, served>>
      BY <2>3 DEF Working, ScriptEnds, TakesList, OpensLock, GetsLock, FailsToLock,
         ClosesRefused, Unlocks, ClosesLock
    <3>2. \A u \in Thread : at'[u] = at[u] \/ (u = t /\ at[u] # "idle" /\ ctl[u] = "idle")
      BY <2>3 DEF Working, ScriptEnds, TakesList, OpensLock, GetsLock, FailsToLock,
         ClosesRefused, Unlocks, ClosesLock
    <3> QED BY <3>1, <3>2
  <2>4. ASSUME NEW t \in Thread, Finishes(t) PROVE Scripted' /\ Apart'
    <3>1. CASE t = "ndsctl" /\ served # "none"
      BY <2>4, <3>1 DEF Finishes, ServedInv
    <3>2. CASE ~(t = "ndsctl" /\ served # "none")
      BY <2>4, <3>2 DEF Finishes
    <3> QED BY <3>1, <3>2
  <2>5. ASSUME NEW t \in {"http", "watchdog"}, NEW r \in Reason, Begins(t, r)
        PROVE  Scripted' /\ Apart'
    BY <2>5 DEF Begins
  <2>6. CASE UNCHANGED <<ctl, at, job, served>>
    BY <2>6
  <2>7. ~Stops /\ ~Starts
    BY DEF Stops, Starts
  <2>8. (\E d \in Fd : OtherOpens(d) \/ OtherCloses(d)) \/ UNCHANGED vars
          => UNCHANGED <<ctl, at, job, served>>
    BY DEF OtherOpens, OtherCloses, vars, threadVars
  <2> QED BY <2>1, <2>2, <2>3, <2>4, <2>5, <2>6, <2>7, <2>8
          DEF Next, Beginning, Reason
<1>4. OneOpen'
  <2>1. Closed \notin File /\ Other \notin File
    BY LockConstants DEF Closed, Other, File
  <2>2. ASSUME NEW t \in Thread, OpensLock(t) PROVE OneOpen'
    BY <1>1, <2>2, LockConstants DEF OpensLock, Opens, TypeOK
  <2>3. ASSUME NEW t \in Thread, ClosesRefused(t) \/ ClosesLock(t) PROVE OneOpen'
    <3>1. fds' = [fds EXCEPT ![lockfd] = Closed]
      BY <2>3 DEF ClosesRefused, ClosesLock, CloseLockfd
    <3>2. fds \in [Fd -> {Closed, Other} \cup File]
      BY DEF TypeOK
    <3>3. \A d \in Fd : fds'[d] = fds[d] \/ fds'[d] = Closed
      BY <3>1, <3>2
    <3> QED BY <1>1, <2>1, <3>3
  <2>4. ASSUME NEW d \in Fd, OtherOpens(d) \/ OtherCloses(d) PROVE OneOpen'
    BY <1>1, <2>1, <2>4 DEF OtherOpens, OtherCloses, TypeOK
  <2>5. CASE fds' = fds
    BY <1>1, <2>5
  <2>6. ~Stops /\ ~Starts
    BY <1>1 DEF Stops, Starts
  <2> QED BY <2>2, <2>3, <2>4, <2>5, <2>6, CtlQuiet DEF Next, vars, Beginning, Begins, Serves,
          Working, ScriptEnds, TakesList, GetsLock, FailsToLock, Unlocks, Finishes, fdVars
<1> QED BY <1>2, <1>3, <1>4 DEF CalmInv

\* Only requests lock the file, when the watchdog has no reason to.
LEMMA OnlyHttp ==
  ASSUME JobInv, OneLocker, NEW t \in Thread, Locks(job[t])
  PROVE  t = "http"
BY DEF JobInv, OneLocker, Locks, Thread, WatchdogReason, NdsctlReason

\* The steps that open, lock, unlock and close the file.
LEMMA LockerFile ==
  ASSUME TypeOK, JobInv, LockerInv, OneLocker, UNCHANGED setting, NEW t \in Thread,
         \/ OpensLock(t) \/ GetsLock(t) \/ FailsToLock(t) \/ ClosesRefused(t)
         \/ Unlocks(t) \/ ClosesLock(t)
  PROVE  LockerInv'
<1> USE DEF Thread, Goto, Opened
<1>1. t = "http"
  <2>1. at[t] \in {"open", "lockf", "refused", "unlock", "close"}
    BY DEF OpensLock, GetsLock, FailsToLock, ClosesRefused, Unlocks, ClosesLock
  <2> QED BY <2>1, OnlyHttp DEF JobInv
<1>2. Closed \notin File /\ Other \notin File
  BY LockConstants DEF Closed, Other, File
<1>3. CASE OpensLock(t)
  <2> PICK d \in Fd, f \in File :
         fds[d] = Closed /\ fds' = [fds EXCEPT ![d] = f] /\ lockfd' = d
    BY <1>3 DEF OpensLock, FirstClosed
  <2>1. at["http"] = "open" /\ at'["http"] = "lockf" /\ others' = others
    BY <1>1, <1>3 DEF OpensLock, TypeOK
  <2>2. \A e \in Fd : fds[e] \notin File
    BY <2>1 DEF LockerInv
  <2>3. \A e \in others : e # d
    BY LockConstants DEF LockerInv, Closed, Other
  <2>4. \A e \in Fd : fds'[e] = IF e = d THEN f ELSE fds[e]
    BY DEF TypeOK
  <2>5. others \subseteq Fd /\ File' = File
    BY DEF TypeOK
  <2> QED BY <2>1, <2>2, <2>3, <2>4, <2>5 DEF LockerInv
<1>4. CASE GetsLock(t)
  BY <1>1, <1>4 DEF GetsLock, LockerInv, TypeOK, fdVars
<1>5. CASE FailsToLock(t)
  BY <1>1, <1>5 DEF FailsToLock, LockerInv, TypeOK, fdVars, fileVars
<1>6. CASE ClosesRefused(t) \/ ClosesLock(t)
  BY <1>1, <1>2, <1>6 DEF ClosesRefused, ClosesLock, CloseLockfd, LockerInv, TypeOK, JobInv
<1>7. CASE Unlocks(t)
  BY <1>1, <1>7 DEF Unlocks, LockerInv, TypeOK, fdVars
<1> QED BY <1>3, <1>4, <1>5, <1>6, <1>7

LEMMA LockerStep ==
  ASSUME TypeOK, JobInv, LockerInv, [Next]_vars
  PROVE  LockerInv'
<1> USE DEF Thread, Goto
<1>0. setting' = setting
  BY DEF Next, vars
<1> SUFFICES ASSUME OneLocker PROVE LockerInv'
  BY <1>0 DEF LockerInv, OneLocker, Jobs
<1>1. Closed \notin File /\ Other \notin File
  BY LockConstants DEF Closed, Other, File
<1>2. ASSUME NEW p \in Process, Ctl(p) PROVE LockerInv'
  <2>1. UNCHANGED <<fdVars, threadVars>> /\ p \notin {"opennds", "none"}
    BY <1>2, CtlQuiet, Names
  <2>2. \A f \in File : owner[f] = "opennds" => owner'[f] = "opennds"
    BY <1>2, <2>1 DEF Ctl, CtlOpens, CtlLocks, CtlBusy, CtlRefuses, CtlConnects,
       CtlNoDaemon, CtlUnlocks, fileVars, CanLock, Dropped, TypeOK
  <2> QED BY <2>1, <2>2 DEF LockerInv, Opened, fdVars, threadVars
<1>3. ASSUME UNCHANGED <<fds, others, lockfd, owner>>,
             Opened' <=> Opened,
             took'["http"] /\ at'["http"] \in {"script", "unlock"} =>
               took["http"] /\ at["http"] \in {"script", "unlock"}
      PROVE  LockerInv'
  BY <1>3 DEF LockerInv
<1>4. ASSUME NEW p \in Process, Serves(p) PROVE LockerInv'
  BY <1>3, <1>4 DEF Serves, fdVars, fileVars, Opened, TypeOK
<1>5. ASSUME NEW t \in Thread, NEW r \in Reason, Begins(t, r) PROVE LockerInv'
  BY <1>3, <1>5 DEF Begins, fdVars, fileVars, Opened, TypeOK, AfterList
<1>6. ASSUME NEW t \in Thread, TakesList(t) PROVE LockerInv'
  BY <1>3, <1>6 DEF TakesList, fdVars, fileVars, Opened, TypeOK, AfterList, JobInv
<1>7. ASSUME NEW t \in Thread, ScriptEnds(t) PROVE LockerInv'
  BY <1>3, <1>7 DEF ScriptEnds, fdVars, fileVars, Opened, TypeOK
<1>8. ASSUME NEW t \in Thread, Finishes(t) PROVE LockerInv'
  BY <1>3, <1>8 DEF Finishes, fdVars, fileVars, Opened, TypeOK
<1>9. ASSUME NEW d \in Fd, OtherOpens(d) PROVE LockerInv'
  BY <1>1, <1>9 DEF OtherOpens, FirstClosed, LockerInv, Opened, fileVars, threadVars, TypeOK
<1>10. ASSUME NEW d \in Fd, OtherCloses(d) PROVE LockerInv'
  BY <1>1, <1>10 DEF OtherCloses, LockerInv, Opened, threadVars, TypeOK
<1>11. CASE Stops
  BY <1>1, <1>11 DEF Stops, LockerInv, Opened
<1>12. CASE Starts \/ UNCHANGED vars
  BY <1>3, <1>12 DEF Starts, fdVars, fileVars, threadVars, vars, Opened
<1> QED BY <1>0, <1>2, <1>4, <1>5, <1>6, <1>7, <1>8, <1>9, <1>10, <1>11, <1>12, LockerFile
        DEF Next, Beginning, Working, Reason

-----------------------------------------------------------------------------
(* The theorems                                                            *)

LEMMA LockInvariance == Spec => []LockInv
<1>1. LockInv /\ [Next]_vars => LockInv'
  BY TypeStep, OwnStep, JobStep, LockerStep, ServedStep, CalmStep DEF LockInv
<1> QED BY <1>1, LockInit, PTL DEF Spec

\* The types, and that an ndsctl has a file open exactly while it runs.
THEOREM TypeCorrect == Spec => []TypeOK
<1>1. LockInv => TypeOK
  BY DEF LockInv
<1> QED BY <1>1, LockInvariance, PTL

\* Without restarts there is one file, and whoever is inside has it.
LEMMA Exclusion ==
  ASSUME LockInv, ~Restarting, NEW p \in Inside
  PROVE  file[p] = 1 /\ owner[1] = p
BY DEF LockInv, OwnInv, CalmInv, TypeOK, Inside

\* At most one ndsctl is between its lock and its unlock (ndsctl.c:386); when the
\* daemon restarts and removes lock files (conf.c:412), at most one for each file.
THEOREM NdsctlExclusive == Spec => []OneNdsctl
<1>1. LockInv => OneNdsctl
  <2> SUFFICES ASSUME LockInv, NEW p \in Inside, NEW q \in Inside,
                      file[p] = file[q] \/ ~Restarting
               PROVE  p = q
    BY DEF OneNdsctl
  <2>1. CASE file[p] = file[q]
    BY <2>1 DEF LockInv, OwnInv
  <2>2. CASE ~Restarting
    BY <2>2, Exclusion
  <2> QED BY <2>1, <2>2
<1> QED BY <1>1, LockInvariance, PTL

\* While a script runs for which the daemon took the lock (http_microhttpd.c:207),
\* no ndsctl has the lock of that file, and without restarts none has any, if
\* requests are the only ones to take it (OneLocker: the watchdog runs no script
\* that locks).
THEOREM ScriptsExclusive == Spec => []ScriptExcludesNdsctl
<1>1. LockInv => ScriptExcludesNdsctl
  <2> SUFFICES ASSUME LockInv, OneLocker,
                      NEW t \in Thread, at[t] = "script", took[t], NEW p \in Inside
               PROVE  Restarting /\ file[p] # fds[lockfd]
    BY DEF ScriptExcludesNdsctl
  <2>1. t = "http"
    BY OnlyHttp DEF LockInv, JobInv
  <2>2. fds[lockfd] \in File /\ owner[fds[lockfd]] = "opennds"
    BY <2>1 DEF LockInv, LockerInv, Opened
  <2>3. owner[file[p]] = p /\ p # "opennds"
    BY Names DEF LockInv, OwnInv, Inside
  <2>4. file[p] # fds[lockfd]
    BY <2>2, <2>3
  <2>5. ASSUME ~Restarting PROVE FALSE
    <3>1. fds[lockfd] = 1
      BY <2>2, <2>5 DEF LockInv, CalmInv, TypeOK
    <3> QED BY <2>4, <2>5, <3>1, Exclusion
  <2> QED BY <2>4, <2>5
<1> QED BY <1>1, LockInvariance, PTL

\* No script that runs under the list lock is served by ndsctl, where the scripts
\* that use it are those that find it locked.
THEOREM ScriptsRefused == Spec => []ScriptsLockedOut
<1>1. LockInv => ScriptsLockedOut
  <2> SUFFICES ASSUME LockInv, OneLocker, ~Restarting, ScriptCalls \subseteq LockedOut,
                      NEW t \in Thread, at[t] = "script", listLock = t
               PROVE  ctl[t] \in {"idle", "open"}
    BY DEF ScriptsLockedOut
  <2>1. CASE t = "ndsctl"
    <3>1. served \in Inside /\ served # "ndsctl"
      BY <2>1 DEF LockInv, ServedInv, CalmInv, Inside
    <3>2. "ndsctl" \notin Inside
      BY <3>1, Exclusion
    <3> QED BY <2>1, <3>2, Names DEF LockInv, TypeOK, Inside
  <2>2. CASE t # "ndsctl"
    <3>1. job[t] \notin LockedOut
      BY <2>2 DEF LockInv, JobInv, NeedsList, LockedOut, Thread, HttpReason, WatchdogReason
    <3> QED BY <3>1 DEF LockInv, CalmInv
  <2> QED BY <2>1, <2>2
<1> QED BY <1>1, LockInvariance, PTL

\* ndsctl_unlock closes the descriptor that ndsctl_lock opened, and none is left
\* behind, if requests are the only ones to lock the file (OneLocker).
THEOREM DescriptorsSafe == Spec => []DescriptorsKept
<1>1. LockInv => DescriptorsKept
  BY DEF LockInv, LockerInv, DescriptorsKept, Opened, TypeOK, Thread
<1> QED BY <1>1, LockInvariance, PTL
=============================================================================
