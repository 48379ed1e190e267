---------------------------- MODULE Reaper_proofs -----------------------------
(***************************************************************************)
(* A child of the daemon is lost in one way only, and no thread loses the  *)
(* command that it waits for, with any number of threads, children and     *)
(* slots, as long as no pid is used again while the daemon refers to it.   *)
(***************************************************************************)
EXTENDS Reaper, TLAPS

\* What reap_registered_children knows at each of its steps: from waitpid to the
\* drop of the slot the child is gone, and a slot that is dropped holds its pid
\* or nothing, or a child registered since the test.
PassInv ==
  \A t \in All :
    /\ pass[t].step \in {"wait", "test", "clear"} => pass[t].pid \in Pid
    /\ pass[t].step \in {"test", "clear"} => child[pass[t].pid] = "none"
    /\ pass[t].step = "clear" =>
         slot[pass[t].slot] \in {pass[t].pid, NoPid} \cup raced

\* The child that a thread has started and not registered or awaited yet is known
\* to nobody else, and nobody else has collected it.
MineInv ==
  \A t \in All :
    /\ at[t] \in {"idle", "reap"} => mine[t] = NoPid
    /\ at[t] \in {"register", "await"} =>
         /\ mine[t] \in Pid /\ child[mine[t]] # "none"
         /\ \A i \in 1..Slots : slot[i] # mine[t]
         /\ \A u \in All : pass[u].pid # mine[t]
         /\ \A u \in All \ {t} : mine[u] # mine[t]

ReaperInv == TypeOK /\ PassInv /\ MineInv /\ ChildrenTracked

\* The assumption: a pid is not used again while the daemon refers to it.
Timely == ~PidReuse

LEMMA ReaperInit == Init => ReaperInv
<1> SUFFICES ASSUME Init PROVE ReaperInv
  OBVIOUS
<1>1. \A t \in All : pass[t] = NoPass /\ at[t] = "idle" /\ mine[t] = NoPid
  BY DEF Init
<1>2. NoPass \in [step : {"out", "read", "wait", "test", "clear"},
                 slot : 1..Slots, pid : Pid \cup {NoPid}]
  BY ReaperConstants DEF NoPass
<1>3. TypeOK
  BY <1>2, ReaperConstants DEF Init, TypeOK
<1>4. PassInv /\ MineInv /\ ChildrenTracked
  BY <1>1 DEF Init, PassInv, MineInv, ChildrenTracked, NoPass
<1> QED BY <1>3, <1>4 DEF ReaperInv

LEMMA NextSlotType ==
  ASSUME TypeOK, NEW t \in All
  PROVE  /\ NextSlot(t).step \in {"out", "read"} /\ NextSlot(t).slot \in 1..Slots
         /\ NextSlot(t).pid = NoPid
         /\ NextSlot(t) \in [step : {"out", "read", "wait", "test", "clear"},
                             slot : 1..Slots, pid : Pid \cup {NoPid}]
BY ReaperConstants DEF TypeOK, NextSlot, NoPass, NoPid

\* The fields of a pass that a step changes.
LEMMA PassUpdates ==
  ASSUME TypeOK, NEW t \in All
  PROVE  /\ \A s \in {"wait", "test", "clear"} :
              [pass[t] EXCEPT !.step = s] \in
                [step : {"out", "read", "wait", "test", "clear"},
                 slot : 1..Slots, pid : Pid \cup {NoPid}]
         /\ \A p \in Pid \cup {NoPid} :
              [pass[t] EXCEPT !.step = "wait", !.pid = p] \in
                [step : {"out", "read", "wait", "test", "clear"},
                 slot : 1..Slots, pid : Pid \cup {NoPid}]
<1>1. pass[t] \in [step : {"out", "read", "wait", "test", "clear"},
                  slot : 1..Slots, pid : Pid \cup {NoPid}]
  BY DEF TypeOK
<1> QED BY <1>1

\* The types are kept by every step.
LEMMA TypeStep == ASSUME TypeOK, MineInv, [Next]_vars PROVE TypeOK'
<1> USE ReaperConstants DEF TypeOK, NoPid, All
<1>1. ASSUME NEW p \in Pid, Exits(p) PROVE TypeOK'
  BY <1>1 DEF Exits
<1>2. ASSUME NEW t \in All, NEW p \in Pid, Spawns(t, p) PROVE TypeOK'
  BY <1>2 DEF Spawns
<1>3. ASSUME NEW t \in All, Interrupts(t) PROVE TypeOK'
  <2>1. Enter \in [step : {"out", "read", "wait", "test", "clear"},
                  slot : 1..Slots, pid : Pid \cup {NoPid}]
    BY DEF Enter, NoPass
  <2> QED BY <1>3, <2>1 DEF Interrupts
<1>12. ASSUME NEW t \in All, Reaps(t)
       PROVE  pass' \in [All -> [step : {"out", "read", "wait", "test", "clear"},
                                slot : 1..Slots, pid : Pid \cup {NoPid}]]
  <2> DEFINE PassRecord == [step : {"out", "read", "wait", "test", "clear"},
                            slot : 1..Slots, pid : Pid \cup {NoPid}]
  <2> HIDE DEF All, PassRecord
  <2>1. pass \in [All -> PassRecord]
    BY DEF PassRecord
  <2>2. slot[pass[t].slot] \in Pid \cup {NoPid}
    BY <2>1 DEF PassRecord
  <2>3. PICK q : q \in PassRecord /\ pass' = [pass EXCEPT ![t] = q]
    <3>1. NextSlot(t) \in PassRecord
      BY NextSlotType DEF PassRecord
    <3>2. CASE Reads(t)
      BY <2>2, <3>1, <3>2, PassUpdates DEF Reads, PassRecord
    <3>3. CASE Waits(t)
      BY <3>1, <3>3, PassUpdates DEF Waits, PassRecord
    <3>4. CASE Tests(t)
      BY <3>1, <3>4, PassUpdates DEF Tests, PassRecord
    <3>5. CASE Clears(t)
      BY <3>1, <3>5 DEF Clears
    <3> QED BY <1>12, <3>2, <3>3, <3>4, <3>5 DEF Reaps
  <2>4. pass' \in [All -> PassRecord]
    BY <2>1, <2>3
  <2> QED BY <2>4 DEF PassRecord
<1>4. ASSUME NEW t \in All, Reads(t) PROVE TypeOK'
  BY <1>4, <1>12 DEF Reads, Reaps
<1>5. ASSUME NEW t \in All, Waits(t) PROVE TypeOK'
  <2>1. child' \in [Pid -> {"none", "running", "zombie"}]
    BY <1>5 DEF Waits
  <2> QED BY <1>5, <1>12, <2>1 DEF Waits, Reaps
<1>6. ASSUME NEW t \in All, Tests(t) PROVE TypeOK'
  BY <1>6, <1>12 DEF Tests, Reaps
<1>7. ASSUME NEW t \in All, Clears(t) PROVE TypeOK'
  <2>1. slot' \in [1..Slots -> Pid \cup {NoPid}]
    BY <1>7 DEF Clears
  <2> QED BY <1>7, <1>12, <2>1 DEF Clears, Reaps
<1>8. ASSUME NEW t \in All, Awaits(t) PROVE TypeOK'
  BY <1>8 DEF Awaits
<1>9. CASE Registers
  <2>1. mine["watchdog"] \in Pid
    BY <1>9 DEF Registers, MineInv
  <2>2. raced' \subseteq Pid
    BY <1>9, <2>1 DEF Registers
  <2> QED BY <1>9, <2>2 DEF Registers, Free, Enter, NoPass
<1>10. CASE Overflows \/ Unblocks
  BY <1>10 DEF Overflows, Unblocks
<1>11. CASE UNCHANGED vars
  BY <1>11 DEF vars
<1> QED BY <1>1, <1>2, <1>3, <1>4, <1>5, <1>6, <1>7, <1>8, <1>9, <1>10, <1>11
        DEF Next, Reaps

\* A step within reap_registered_children.
LEMMA ReapStep ==
  ASSUME Timely, ReaperInv, NEW t \in All, Reaps(t)
  PROVE  PassInv' /\ MineInv' /\ ChildrenTracked'
<1> USE ReaperConstants DEF ReaperInv, TypeOK, NoPid
<1>1. CASE Reads(t)
  <2>1. PassInv'
    <3>1. UNCHANGED <<child, slot, raced>> /\ \A u \in All \ {t} : pass'[u] = pass[u]
      BY <1>1 DEF Reads
    <3>2. pass'[t].step \notin {"test", "clear"}
      BY <1>1, NextSlotType DEF Reads
    <3>3. pass'[t].step = "wait" => pass'[t].pid \in Pid
      BY <1>1, NextSlotType DEF Reads
    <3> QED BY <3>1, <3>2, <3>3 DEF PassInv
  <2>2. MineInv'
    BY <1>1, NextSlotType DEF Reads, MineInv
  <2>3. ChildrenTracked'
    BY <1>1, PassInv DEF Reads, PassInv, ChildrenTracked
  <2> QED BY <2>1, <2>2, <2>3
<1>2. CASE Waits(t)
  <2>1. pass[t].pid \in Pid /\ \A u \in All : at[u] \in {"register", "await"} =>
          pass[t].pid # mine[u]
    BY <1>2 DEF Waits, PassInv, MineInv
  <2>2. PassInv'
    <3>1. UNCHANGED <<slot, raced>> /\ \A u \in All \ {t} : pass'[u] = pass[u]
      BY <1>2 DEF Waits
    <3>2. \A p \in Pid : child[p] = "none" => child'[p] = "none"
      BY <1>2 DEF Waits
    <3>3. CASE child[pass[t].pid] = "running"
      <4>1. pass'[t].step \in {"out", "read"}
        BY <1>2, <3>3, NextSlotType DEF Waits
      <4>2. SUFFICES ASSUME NEW u \in All \ {t} PROVE PassInv!(u)'
        BY <4>1 DEF PassInv
      <4> QED BY <3>1, <3>2, <4>2 DEF PassInv
    <3>4. CASE child[pass[t].pid] # "running"
      <4>1. pass'[t].step = "test" /\ pass'[t].pid = pass[t].pid
        BY <1>2, <3>4 DEF Waits
      <4>2. child'[pass[t].pid] = "none"
        BY <1>2, <2>1, <3>4 DEF Waits
      <4>3. ASSUME NEW u \in All \ {t} PROVE PassInv!(u)'
        BY <3>1, <3>2, <4>3 DEF PassInv
      <4>4. PassInv!(t)'
        BY <2>1, <4>1, <4>2
      <4> QED BY <4>3, <4>4 DEF PassInv
    <3> QED BY <3>3, <3>4
  <2>3. MineInv'
    BY <1>2, <2>1, NextSlotType DEF Waits, MineInv
  <2>4. ChildrenTracked'
    BY <1>2, <2>1 DEF Waits, ChildrenTracked
  <2> QED BY <2>2, <2>3, <2>4
<1>3. CASE Tests(t)
  <2>1. PassInv'
    <3>1. UNCHANGED <<child, slot, raced>> /\ \A u \in All \ {t} : pass'[u] = pass[u]
      BY <1>3 DEF Tests
    <3>2. CASE slot[pass[t].slot] = pass[t].pid
      <4>1. /\ pass'[t].step = "clear" /\ pass'[t].slot = pass[t].slot
            /\ pass'[t].pid = pass[t].pid
        BY <1>3, <3>2 DEF Tests
      <4> QED BY <1>3, <3>1, <3>2, <4>1 DEF Tests, PassInv
    <3>3. CASE slot[pass[t].slot] # pass[t].pid
      <4>1. pass'[t].step \in {"out", "read"}
        BY <1>3, <3>3, NextSlotType DEF Tests
      <4> QED BY <3>1, <4>1 DEF PassInv
    <3> QED BY <3>2, <3>3
  <2>2. MineInv'
    BY <1>3, NextSlotType DEF Tests, MineInv
  <2>3. ChildrenTracked'
    BY <1>3, PassInv DEF Tests, PassInv, ChildrenTracked
  <2> QED BY <2>1, <2>2, <2>3
<1>4. CASE Clears(t)
  <2>1. PassInv'
    BY <1>4, NextSlotType DEF Clears, PassInv
  <2>2. MineInv'
    BY <1>4, NextSlotType DEF Clears, MineInv
  <2>3. ChildrenTracked'
    BY <1>4, PassInv DEF Clears, PassInv, ChildrenTracked
  <2> QED BY <2>1, <2>2, <2>3
<1> QED BY <1>1, <1>2, <1>3, <1>4 DEF Reaps

\* Any other step.
LEMMA OtherStep ==
  ASSUME Timely, ReaperInv,
         \/ Registers \/ Overflows \/ Unblocks
         \/ \E p \in Pid : Exits(p) \/ \E t \in All : Spawns(t, p)
         \/ \E t \in All : Interrupts(t) \/ Awaits(t)
  PROVE  PassInv' /\ MineInv' /\ ChildrenTracked'
<1> USE ReaperConstants DEF ReaperInv, TypeOK, NoPid
<1>1. ASSUME NEW p \in Pid, Exits(p) PROVE PassInv' /\ MineInv' /\ ChildrenTracked'
  BY <1>1 DEF Exits, PassInv, MineInv, ChildrenTracked
<1>2. ASSUME NEW t \in All, NEW p \in Pid, Spawns(t, p)
      PROVE  PassInv' /\ MineInv' /\ ChildrenTracked'
  <2>1. ~Referred(p) /\ p \in Pid
    BY <1>2 DEF Spawns, MayBecome, Timely
  <2>2. PassInv'
    BY <1>2, <2>1 DEF Spawns, PassInv, Referred
  <2>3. MineInv'
    BY <1>2, <2>1 DEF Spawns, MineInv, Referred
  <2>4. ChildrenTracked'
    BY <1>2, <2>1 DEF Spawns, MineInv, ChildrenTracked
  <2> QED BY <2>2, <2>3, <2>4
<1>3. ASSUME NEW t \in All, Interrupts(t) PROVE PassInv' /\ MineInv' /\ ChildrenTracked'
  <2>1. /\ pass' = [pass EXCEPT ![t] = Enter] /\ Enter.step = "read" /\ Enter.pid = NoPid
        /\ UNCHANGED <<child, slot, at, mine, raced>>
    BY <1>3 DEF Interrupts, Enter, NoPass
  <2>2. PassInv'
    BY <2>1 DEF PassInv
  <2>3. MineInv'
    BY <2>1 DEF MineInv
  <2>4. ChildrenTracked'
    BY <2>1 DEF ChildrenTracked
  <2> QED BY <2>2, <2>3, <2>4
<1>4. ASSUME NEW t \in All, Awaits(t) PROVE PassInv' /\ MineInv' /\ ChildrenTracked'
  <2>1. mine[t] \in Pid
    BY <1>4 DEF Awaits, MineInv
  <2>2. PassInv'
    BY <1>4, <2>1 DEF Awaits, PassInv
  <2>3. MineInv'
    BY <1>4, <2>1 DEF Awaits, MineInv
  <2>4. ChildrenTracked'
    <3>1. /\ slot' = slot /\ child'[mine[t]] = "none"
          /\ \A p \in Pid \ {mine[t]} : child'[p] = child[p]
          /\ \A u \in All \ {t} : mine'[u] = mine[u]
      BY <1>4, <2>1 DEF Awaits
    <3>0. raced' = raced
      BY <1>4 DEF Awaits
    <3> SUFFICES ASSUME NEW p \in Pid \ ({mine[t]} \cup raced), child[p] # "none"
                 PROVE  (\E i \in 1..Slots : slot[i] = p) \/ (\E u \in All : mine'[u] = p)
      BY <3>0, <3>1 DEF ChildrenTracked
    <3>2. (\E i \in 1..Slots : slot[i] = p) \/ (\E u \in All \ {t} : mine[u] = p)
      BY DEF ChildrenTracked
    <3> QED BY <3>1, <3>2
  <2> QED BY <2>2, <2>3, <2>4
<1>5. CASE Registers
  <2>1. "watchdog" \in All
    BY DEF All
  <2>2. PICK i \in 1..Slots :
          /\ slot[i] = NoPid /\ slot' = [slot EXCEPT ![i] = mine["watchdog"]]
          /\ raced' = IF AboutToDrop(i) THEN raced \cup {mine["watchdog"]} ELSE raced
    BY <1>5 DEF Registers, Free
  <2>3. PassInv'
    <3>1. child' = child /\ raced \subseteq raced' /\ \A u \in All \ {"watchdog"} : pass'[u] = pass[u]
      BY <1>5, <2>2 DEF Registers
    <3>2. pass'["watchdog"].step = "read"
      BY <1>5, <2>1 DEF Registers, Enter, NoPass
    <3>3. ASSUME NEW u \in All \ {"watchdog"}, pass[u].step = "clear"
          PROVE  slot'[pass[u].slot] \in {pass[u].pid, NoPid} \cup raced'
      <4>1. CASE pass[u].slot = i
        BY <2>2, <3>3, <4>1 DEF AboutToDrop
      <4>2. CASE pass[u].slot # i
        BY <2>2, <3>1, <3>3, <4>2 DEF PassInv
      <4> QED BY <4>1, <4>2
    <3> QED BY <3>1, <3>2, <3>3 DEF PassInv
  <2>4. MineInv'
    BY <1>5, <2>1, <2>2 DEF Registers, MineInv, Enter, NoPass
  <2>5. ChildrenTracked'
    <3>1. /\ child' = child /\ mine' = [mine EXCEPT !["watchdog"] = NoPid]
          /\ slot'[i] = mine["watchdog"] /\ \A j \in 1..Slots \ {i} : slot'[j] = slot[j]
      BY <1>5, <2>2 DEF Registers
    <3>2. \A t \in All \ {"watchdog"} : mine'[t] = mine[t]
      BY <3>1
    <3>0. raced \subseteq raced'
      BY <2>2
    <3> SUFFICES ASSUME NEW p \in Pid \ raced, child[p] # "none"
                 PROVE  (\E j \in 1..Slots : slot'[j] = p) \/ (\E t \in All : mine'[t] = p)
      BY <3>0, <3>1 DEF ChildrenTracked
    <3>3. CASE \E j \in 1..Slots : slot[j] = p
      BY <2>2, <3>1, <3>3
    <3>4. CASE \E t \in All : mine[t] = p
      BY <3>1, <3>2, <3>4
    <3> QED BY <3>3, <3>4 DEF ChildrenTracked
  <2> QED BY <2>3, <2>4, <2>5
<1>6. CASE Overflows \/ Unblocks
  BY <1>6 DEF Overflows, Unblocks, PassInv, MineInv, ChildrenTracked
<1> QED BY <1>1, <1>2, <1>3, <1>4, <1>5, <1>6

LEMMA ReaperInvariance == Timely => (Spec => []ReaperInv)
<1>1. Timely /\ ReaperInv /\ [Next]_vars => ReaperInv'
  <2> SUFFICES ASSUME Timely, ReaperInv, [Next]_vars PROVE ReaperInv'
    OBVIOUS
  <2>1. TypeOK'
    BY TypeStep DEF ReaperInv
  <2>2. CASE UNCHANGED vars
    BY <2>1, <2>2 DEF vars, ReaperInv, PassInv, MineInv, ChildrenTracked
  <2>3. CASE Next
    BY <2>1, <2>3, ReapStep, OtherStep DEF Next, ReaperInv
  <2> QED BY <2>2, <2>3
<1>2. SUFFICES ASSUME Timely PROVE Spec => []ReaperInv
  OBVIOUS
<1> QED BY <1>1, <1>2, ReaperInit, PTL DEF Spec

\* Unless a pid is used again while the daemon refers to it, every child that has
\* not been collected is known to the slots or to the thread that started it, but
\* for those registered in a slot between the test and the store with which a
\* handler drops it (util.c:435-436).
THEOREM NoChildLost == Timely => (Spec => []ChildrenTracked)
<1>1. ReaperInv => ChildrenTracked
  BY DEF ReaperInv
<1> QED BY <1>1, ReaperInvariance, PTL

\* Unless a pid is used again while the daemon refers to it, no handler collects
\* the command that a thread waits for (main.c:184).
THEOREM CommandsSafe == Timely => (Spec => []CommandsKept)
<1>1. ReaperInv => CommandsKept
  BY DEF ReaperInv, MineInv, CommandsKept
<1> QED BY <1>1, ReaperInvariance, PTL
=============================================================================
