---------------------------- MODULE Authmon_proofs ----------------------------
(***************************************************************************)
(* That the portals of Authmon tell the truth, for any number of clients   *)
(* and any batch size, as long as each client has one portal open and      *)
(* authmon is not restarted.                                               *)
(***************************************************************************)
EXTENDS Authmon, TLAPS

\* One portal for each client, and no restart of authmon.
Undisturbed == Tabs = 1 /\ "restart" \notin May

\* A client that waits has its entry, unless it has been authenticated. Entries
\* are taken back by the one portal that waits for them, by an authmon that
\* starts, and by acknowledgements of clients that were authenticated.
WaitInv ==
  /\ portal \in [Visit -> [1..Tabs -> {"none", "waiting", "authed", "timedout", "closed"}]]
  /\ acks \subseteq served
  /\ Undisturbed =>
       /\ at # "clear"
       /\ \A v \in Visit, k \in 1..Tabs :
            /\ portal[v][k] = "waiting" => v \in queue \cup served
            /\ portal[v][k] = "authed" => v \in served

LEMMA WaitInit == Init => WaitInv
BY DEF Init, WaitInv

\* The steps of the portals.
LEMMA WaitPortal ==
  ASSUME WaitInv, UNCHANGED May, NEW v \in Visit, NEW k \in 1..Tabs,
         Verifies(v, k) \/ SeesNoEntry(v, k) \/ TimesOut(v, k) \/ Closes(v, k)
  PROVE  WaitInv'
<1>1. UNCHANGED <<at, acks, served>> /\ (Undisturbed' <=> Undisturbed)
  BY DEF Verifies, SeesNoEntry, TimesOut, Closes, daemonVars, authmonVars, Undisturbed
<1>2. PICK page \in {"waiting", "authed", "timedout", "closed"} : Shows(v, k, page)
  BY DEF Verifies, SeesNoEntry, TimesOut, Closes
<1>3. portal' \in [Visit -> [1..Tabs -> {"none", "waiting", "authed", "timedout", "closed"}]]
  BY <1>2 DEF Shows, WaitInv
<1>4. ASSUME Undisturbed, NEW w \in Visit, NEW j \in 1..Tabs
      PROVE  /\ portal'[w][j] = "waiting" => w \in queue' \cup served
             /\ portal'[w][j] = "authed" => w \in served
  <2>1. j = k
    BY <1>4 DEF Undisturbed
  <2>2. CASE w = v
    <3>1. portal'[w][j] = page
      BY <1>2, <2>1, <2>2 DEF Shows, WaitInv
    <3>2. page = "waiting" => v \in queue'
      BY <1>2, <3>1, <2>1, <2>2 DEF Verifies, SeesNoEntry, TimesOut, Closes, Shows, WaitInv
    <3>3. page = "authed" => v \notin queue /\ portal[v][k] = "waiting"
      BY <1>2, <3>1, <2>1, <2>2 DEF Verifies, SeesNoEntry, TimesOut, Closes, Shows, WaitInv
    <3> QED BY <1>4, <2>1, <2>2, <3>1, <3>2, <3>3 DEF WaitInv
  <2>3. CASE w # v
    <3>1. portal'[w][j] = portal[w][j]
      BY <1>2, <2>3 DEF Shows, WaitInv
    <3>2. queue' = queue \/ queue' = queue \cup {v} \/ queue' = queue \ {v}
      BY DEF Verifies, SeesNoEntry, TimesOut, Closes
    <3> QED BY <1>4, <2>3, <3>1, <3>2 DEF WaitInv
  <2> QED BY <2>2, <2>3
<1> QED BY <1>1, <1>3, <1>4 DEF WaitInv

\* The steps of the daemon and of authmon.
LEMMA WaitRest ==
  ASSUME WaitInv, UNCHANGED May,
         \/ Restarts \/ ClearsStale \/ Views \/ ViewFails \/ Acks \/ AckFails
         \/ \E v \in Visit : \/ Connects(v) \/ Leaves(v) \/ Authenticates(v)
                             \/ Fails(v) \/ Misses(v)
  PROVE  WaitInv'
<1>1. portal' = portal /\ (Undisturbed' <=> Undisturbed) /\ served \subseteq served'
  BY DEF Restarts, ClearsStale, Views, ViewFails, Acks, AckFails, Connects, Leaves,
     Authenticates, Fails, Misses, fasVars, daemonVars, authmonVars, Undisturbed
<1>2. acks' \subseteq served'
  BY DEF WaitInv, Restarts, ClearsStale, Views, ViewFails, Acks, AckFails, Connects,
     Leaves, Authenticates, Fails, Misses, fasVars, daemonVars, authmonVars
<1>3. Undisturbed => at' # "clear" /\ queue \subseteq queue' \cup served
  BY DEF WaitInv, Restarts, ClearsStale, Views, ViewFails, Acks, AckFails, Connects,
     Leaves, Authenticates, Fails, Misses, fasVars, authmonVars, Undisturbed
<1> QED BY <1>1, <1>2, <1>3 DEF WaitInv

\* "no list so must be authed" (fas-aes-https.php:644) is true if every client has
\* one portal (Tabs = 1) and authmon is never restarted, whatever requests are
\* lost, refused or find the lock of ndsctl taken. It says nothing otherwise: a
\* second portal that times out, or an authmon that starts, removes the entry of
\* a client that has not been authenticated.
THEOREM PortalsTellTruth == Spec => []PortalTrue
<1>1. WaitInv /\ [Next]_vars => WaitInv'
  <2>1. WaitInv /\ Next => WaitInv'
    BY WaitPortal, WaitRest DEF Next, fixedVars
  <2>2. WaitInv /\ UNCHANGED vars => WaitInv'
    BY DEF vars, fixedVars, daemonVars, fasVars, authmonVars, WaitInv, Undisturbed
  <2> QED BY <2>1, <2>2
<1>2. WaitInv => PortalTrue
  BY DEF WaitInv, PortalTrue, Undisturbed
<1> QED BY <1>1, <1>2, WaitInit, PTL DEF Spec
=============================================================================
