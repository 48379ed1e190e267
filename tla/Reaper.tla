-------------------------------- MODULE Reaper ---------------------------------
(***************************************************************************)
(* The children of the daemon (util.c, main.c).  Downloads run in the      *)
(* background: the watchdog starts one, records its pid in a slot, and the *)
(* SIGCHLD handler, which runs in any thread that has not blocked the      *)
(* signal, collects it.  Every other command is awaited by the thread that *)
(* started it.  The kernel is modelled as far as the daemon sees it: the   *)
(* children, one pending SIGCHLD however many children end, and pids that  *)
(* are used again.                                                         *)
(***************************************************************************)
EXTENDS Integers

CONSTANTS
  Thread,       \* threads beside the watchdog that run commands
  Pid,          \* what waitpid and posix_spawn call a child
  Slots,        \* REAP_SLOTS
  PidReuse      \* a pid is used again while the daemon still refers to it

NoPid == 0

ASSUME ReaperConstants ==
  /\ Slots \in Nat \ {0} /\ "watchdog" \notin Thread /\ NoPid \notin Pid
  /\ PidReuse \in BOOLEAN

VARIABLES
  child,    \* what has become of each pid: "none", "running", "zombie"
  sigchld,  \* SIGCHLD is pending for the process
  slot,     \* reap_pids
  at,       \* what each thread does when it is not in reap_registered_children
  mine,     \* the child that a thread has started and still cares for
  pass,     \* reap_registered_children in each thread: its step, slot and pid
  raced     \* history: children registered in a slot that a handler had tested
            \* and was about to drop; nothing in the code reads it

vars == <<child, sigchld, slot, at, mine, pass, raced>>

All == Thread \cup {"watchdog"}
NoPass == [step |-> "out", slot |-> 1, pid |-> NoPid]
Enter == [NoPass EXCEPT !.step = "read"]

Init ==
  /\ child = [p \in Pid |-> "none"]
  /\ sigchld = FALSE
  /\ slot = [i \in 1..Slots |-> NoPid]
  /\ at = [t \in All |-> "idle"]
  /\ mine = [t \in All |-> NoPid]
  /\ pass = [t \in All |-> NoPass]
  /\ raced = {}

-----------------------------------------------------------------------------
(* The kernel                                                              *)

\* Some variable of the daemon holds the pid.
Referred(p) ==
  \/ \E i \in 1..Slots : slot[i] = p
  \/ \E t \in All : mine[t] = p \/ pass[t].pid = p

MayBecome(p) == child[p] = "none" /\ (PidReuse \/ ~Referred(p))

Exits(p) ==
  /\ child[p] = "running"
  /\ child' = [child EXCEPT ![p] = "zombie"]
  /\ sigchld' = TRUE
  /\ UNCHANGED <<slot, at, mine, pass, raced>>

\* SIGCHLD is blocked in its own handler, and by download_remotes.
Interrupts(t) ==
  /\ sigchld /\ pass[t].step = "out"
  /\ t = "watchdog" => at[t] = "idle"
  /\ sigchld' = FALSE
  /\ pass' = [pass EXCEPT ![t] = Enter]
  /\ UNCHANGED <<child, slot, at, mine, raced>>

-----------------------------------------------------------------------------
(* reap_registered_children                                                *)

\* Fault: one slot too many.
NextSlotBeyond(t) ==
  IF pass[t].slot <= Slots
  THEN [step |-> "read", slot |-> pass[t].slot + 1, pid |-> NoPid]
  ELSE NoPass

NextSlot(t) ==
  IF pass[t].slot < Slots
  THEN [step |-> "read", slot |-> pass[t].slot + 1, pid |-> NoPid]
  ELSE NoPass

Reads(t) ==
  /\ pass[t].step = "read"
  /\ LET p == slot[pass[t].slot]
     IN pass' = [pass EXCEPT ![t] = IF p = NoPid THEN NextSlot(t)
                                    ELSE [@ EXCEPT !.step = "wait", !.pid = p]]
  /\ UNCHANGED <<child, sigchld, slot, at, mine, raced>>

\* Fault: waitpid(-1, WNOHANG).
WaitsForAny(t) ==
  /\ pass[t].step = "wait"
  /\ \/ \E p \in Pid : /\ child[p] = "zombie"
                       /\ child' = [child EXCEPT ![p] = "none"]
                       /\ pass' = [pass EXCEPT ![t] = [@ EXCEPT !.step = "test"]]
     \/ /\ \A p \in Pid : child[p] # "zombie"
        /\ pass' = [pass EXCEPT ![t] = NextSlot(t)]
        /\ UNCHANGED child
  /\ UNCHANGED <<sigchld, slot, at, mine, raced>>

\* waitpid(pid, WNOHANG): the child is collected, is gone, or runs on.
Waits(t) ==
  /\ pass[t].step = "wait"
  /\ LET p == pass[t].pid
     IN /\ child' = [child EXCEPT ![p] = IF @ = "zombie" THEN "none" ELSE @]
        /\ pass' = [pass EXCEPT ![t] = IF child[p] = "running" THEN NextSlot(t)
                                       ELSE [@ EXCEPT !.step = "test"]]
  /\ UNCHANGED <<sigchld, slot, at, mine, raced>>

\* Fault: the slot is not looked at again.
TestsNothing(t) ==
  /\ pass[t].step = "test"
  /\ pass' = [pass EXCEPT ![t] = [@ EXCEPT !.step = "clear"]]
  /\ UNCHANGED <<child, sigchld, slot, at, mine, raced>>

Tests(t) ==
  /\ pass[t].step = "test"
  /\ pass' = [pass EXCEPT ![t] = IF slot[pass[t].slot] = pass[t].pid
                                 THEN [@ EXCEPT !.step = "clear"] ELSE NextSlot(t)]
  /\ UNCHANGED <<child, sigchld, slot, at, mine, raced>>

Clears(t) ==
  /\ pass[t].step = "clear"
  /\ slot' = [slot EXCEPT ![pass[t].slot] = NoPid]
  /\ pass' = [pass EXCEPT ![t] = NextSlot(t)]
  /\ UNCHANGED <<child, sigchld, at, mine, raced>>

Reaps(t) == Reads(t) \/ Waits(t) \/ Tests(t) \/ Clears(t)

-----------------------------------------------------------------------------
(* The threads                                                             *)

\* posix_spawn, with SIGCHLD blocked for the watchdog's download.
Spawns(t, p) ==
  /\ at[t] = "idle" /\ pass[t].step = "out" /\ MayBecome(p)
  /\ child' = [child EXCEPT ![p] = "running"]
  /\ mine' = [mine EXCEPT ![t] = p]
  /\ at' = [at EXCEPT ![t] = IF t = "watchdog" THEN "register" ELSE "await"]
  /\ raced' = raced \ {p}
  /\ UNCHANGED <<sigchld, slot, pass>>

Free == {i \in 1..Slots : slot[i] = NoPid}

\* Fault: the slots are not gone through after the pid is recorded.
RegistersOnly ==
  /\ at["watchdog"] = "register" /\ Free # {}
  /\ \E i \in Free :
       /\ \A j \in Free : i <= j
       /\ slot' = [slot EXCEPT ![i] = mine["watchdog"]]
  /\ mine' = [mine EXCEPT !["watchdog"] = NoPid]
  /\ at' = [at EXCEPT !["watchdog"] = "reap"]
  /\ UNCHANGED <<child, sigchld, pass, raced>>

\* Some handler has tested the slot and is about to drop it.
AboutToDrop(i) == \E t \in All : pass[t].step = "clear" /\ pass[t].slot = i

\* reap_register takes the first free slot; the child may have exited already, so
\* the slots are gone through.  reap_mutex keeps no handler out.
Registers ==
  /\ at["watchdog"] = "register" /\ Free # {}
  /\ \E i \in Free :
       /\ \A j \in Free : i <= j
       /\ slot' = [slot EXCEPT ![i] = mine["watchdog"]]
       /\ raced' = IF AboutToDrop(i) THEN raced \cup {mine["watchdog"]} ELSE raced
  /\ mine' = [mine EXCEPT !["watchdog"] = NoPid]
  /\ pass' = [pass EXCEPT !["watchdog"] = Enter]
  /\ at' = [at EXCEPT !["watchdog"] = "reap"]
  /\ UNCHANGED <<child, sigchld>>

\* No slot is free: the download is awaited.
Overflows ==
  /\ at["watchdog"] = "register" /\ Free = {}
  /\ at' = [at EXCEPT !["watchdog"] = "await"]
  /\ UNCHANGED <<child, sigchld, slot, mine, pass, raced>>

Unblocks ==
  /\ at["watchdog"] = "reap" /\ pass["watchdog"].step = "out"
  /\ at' = [at EXCEPT !["watchdog"] = "idle"]
  /\ UNCHANGED <<child, sigchld, slot, mine, pass, raced>>

\* waitpid without WNOHANG: the child is collected, or there is none.
Awaits(t) ==
  /\ at[t] = "await" /\ pass[t].step = "out" /\ child[mine[t]] # "running"
  /\ child' = [child EXCEPT ![mine[t]] = "none"]
  /\ mine' = [mine EXCEPT ![t] = NoPid]
  /\ at' = [at EXCEPT ![t] = "idle"]
  /\ UNCHANGED <<sigchld, slot, pass, raced>>

Next ==
  \/ Registers \/ Overflows \/ Unblocks
  \/ \E p \in Pid : Exits(p) \/ \E t \in All : Spawns(t, p)
  \/ \E t \in All : Interrupts(t) \/ Reaps(t) \/ Awaits(t)

Spec == Init /\ [][Next]_vars

\* A pending signal is delivered to some thread, and threads go on; waitpid looks
\* for the child each time it is entered again after a signal, so signals cannot
\* hold it up for ever.  Children may run for ever.
FairSpec ==
  /\ Spec
  /\ WF_vars(\E t \in All : Interrupts(t))
  /\ WF_vars(Registers) /\ WF_vars(Overflows) /\ WF_vars(Unblocks)
  /\ \A t \in All : WF_vars(Reaps(t)) /\ SF_vars(Awaits(t))

-----------------------------------------------------------------------------
(* Properties                                                              *)

\* The types of all variables.
TypeOK ==
  /\ child \in [Pid -> {"none", "running", "zombie"}] /\ sigchld \in BOOLEAN
  /\ slot \in [1..Slots -> Pid \cup {NoPid}]
  /\ at \in [All -> {"idle", "register", "reap", "await"}]
  /\ mine \in [All -> Pid \cup {NoPid}]
  /\ pass \in [All -> [step : {"out", "read", "wait", "test", "clear"},
                       slot : 1..Slots, pid : Pid \cup {NoPid}]]
  /\ raced \subseteq Pid

\* Every child is in a slot or is the concern of the thread that started it: there
\* is one way to lose a child (to have a zombie that nobody collects), and that is
\* to register it in a slot between the test and the store with which another
\* thread's handler drops the slot (util.c:435-436 take no lock).
ChildrenTracked ==
  \A p \in Pid : child[p] # "none" =>
     \/ p \in raced
     \/ (\E i \in 1..Slots : slot[i] = p) \/ (\E t \in All : mine[t] = p)

\* "waitpid(-1) would take a child another thread is waiting for" (main.c:184): a
\* command that a thread waits for is collected by nobody else.
CommandsKept == \A t \in All : at[t] = "await" => child[mine[t]] # "none"

\* "Drop the slot only when it still holds this pid" (util.c:434).
DropsOnlyItsPid ==
  \A t \in All : pass[t].step = "clear" => slot[pass[t].slot] \in {pass[t].pid, NoPid}

\* A child that has exited is collected, however many exit before one signal is
\* handled, and even if it exits before its pid is recorded (util.c:538), or it is
\* registered in a slot that another thread's handler is about to drop.
ZombiesCollected ==
  \A p \in Pid : child[p] = "zombie" ~> child[p] = "none" \/ p \in raced

=============================================================================
