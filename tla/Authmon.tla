-------------------------------- MODULE Authmon --------------------------------
(***************************************************************************)
(* A forwarding authentication service of level 3 or 4 (fas-aes-https.php) *)
(* and the daemon authmon of the router (authmon.sh).  The portal of a     *)
(* client that has been verified writes an entry and waits until somebody  *)
(* removes it; authmon polls the entries, has the daemon authenticate each *)
(* client with ndsctl, and acknowledges those that it could.  An entry is  *)
(* named by a hash of the client's token, so a client that leaves the list *)
(* and returns is another visit.                                           *)
(***************************************************************************)
EXTENDS Integers, FiniteSets

CONSTANTS
  Visit,      \* clients of the daemon, in the order of their hashes
  Tabs,       \* portals that one visit may have open
  Batch,      \* the batch sizes that are explored; the code tries 4 entries in one go
  Settings    \* the settings that are explored: what may happen, of Events

Events == {"lose",     \* a request to the FAS fails
           "busy",     \* ndsctl finds its lock taken
           "refuse",   \* the daemon refuses a client, now or always: BinAuth
           "again",    \* a portal that timed out or was closed is opened again
           "restart"}  \* the daemon is restarted, and authmon with it

ASSUME AuthmonConstants ==
  /\ Visit \subseteq Nat /\ IsFiniteSet(Visit)
  /\ Tabs \in Nat \ {0} /\ Batch \subseteq Nat \ {0}
  /\ Settings \subseteq SUBSET Events

VARIABLES
  May,     \* one of Settings, for the whole behaviour
  banned,  \* visits that BinAuth refuses always, for the whole behaviour
  batch,   \* one of Batch, for the whole behaviour
  client,  \* each visit in the list of the daemon
  served,  \* visits that have been authenticated
  queue,   \* the entries at the FAS
  portal,  \* what each tab of a visit shows
  at,      \* where authmon is
  list,    \* entries it has fetched and not tried yet
  count,   \* authcount
  acks,    \* acklist
  status   \* ndsstatus

fasVars == <<queue, portal>>
daemonVars == <<client, served>>
authmonVars == <<at, list, count, acks, status>>
fixedVars == <<May, banned, batch>>
vars == <<fixedVars, daemonVars, fasVars, authmonVars>>

Init ==
  /\ May \in Settings
  /\ banned \in SUBSET Visit /\ ("refuse" \notin May => banned = {})
  /\ batch \in Batch
  /\ client = [v \in Visit |-> "new"] /\ served = {}
  /\ queue = {} /\ portal = [v \in Visit |-> [k \in 1..Tabs |-> "none"]]
  /\ at = "view" /\ list = {} /\ count = 0 /\ acks = {} /\ status = "none"

-----------------------------------------------------------------------------
(* The daemon                                                              *)

Connects(v) ==
  /\ client[v] = "new"
  /\ client' = [client EXCEPT ![v] = "preauth"]
  /\ UNCHANGED <<served, fasVars, authmonVars>>

\* The client is idle, its session ends, or it is deauthenticated.
Leaves(v) ==
  /\ client[v] \in {"preauth", "auth"}
  /\ client' = [client EXCEPT ![v] = "gone"]
  /\ UNCHANGED <<served, fasVars, authmonVars>>

\* The list is lost; authmon is killed and started anew.
Restarts ==
  /\ "restart" \in May
  /\ client' = [v \in Visit |-> IF client[v] = "new" THEN "new" ELSE "gone"]
  /\ at' = "clear" /\ list' = {} /\ count' = 0 /\ acks' = {} /\ status' = "none"
  /\ UNCHANGED <<served, fasVars>>

-----------------------------------------------------------------------------
(* The portal                                                              *)

Shows(v, k, page) == portal' = [portal EXCEPT ![v][k] = page]

\* The client is verified, which takes a redirection of the daemon.
Verifies(v, k) ==
  /\ client[v] # "new"
  /\ \/ portal[v][k] = "none"
     \/ "again" \in May /\ portal[v][k] \in {"timedout", "closed"}
  /\ queue' = queue \cup {v} /\ Shows(v, k, "waiting")
  /\ UNCHANGED <<daemonVars, authmonVars>>

\* "no list so must be authed".
SeesNoEntry(v, k) ==
  /\ portal[v][k] = "waiting" /\ v \notin queue
  /\ Shows(v, k, "authed")
  /\ UNCHANGED <<daemonVars, queue, authmonVars>>

TimesOut(v, k) ==
  /\ portal[v][k] = "waiting"
  /\ queue' = queue \ {v} /\ Shows(v, k, "timedout")
  /\ UNCHANGED <<daemonVars, authmonVars>>

\* The page is closed: the script ends at its next output and the entry stays.
Closes(v, k) ==
  /\ portal[v][k] = "waiting"
  /\ Shows(v, k, "closed")
  /\ UNCHANGED <<daemonVars, queue, authmonVars>>

-----------------------------------------------------------------------------
(* authmon and the service that answers it                                 *)

\* "clear", when authmon starts.
ClearsStale ==
  /\ at = "clear" /\ at' = "view"
  /\ queue' = {} \/ ("lose" \in May /\ UNCHANGED queue)
  /\ UNCHANGED <<daemonVars, portal, list, count, acks, status>>

\* "view" without acknowledgements; a failed request leaves the list empty.
Views ==
  /\ at = "view" /\ at' = "try"
  /\ list' = queue /\ count' = batch /\ acks' = {}
  /\ UNCHANGED <<daemonVars, fasVars, status>>

ViewFails ==
  /\ "lose" \in May
  /\ at = "view" /\ at' = "try"
  /\ list' = {} /\ count' = batch /\ acks' = {}
  /\ UNCHANGED <<daemonVars, fasVars, status>>

\* Fault: the entries are not counted.
TriesOn(v) ==
  /\ at = "try"
  /\ v \in list /\ \A w \in list : v <= w
  /\ list' = list \ {v} /\ count' = count - 1

\* The next entry of the list is done with.
Tries(v) ==
  /\ at = "try" /\ count > 0
  /\ v \in list /\ \A w \in list : v <= w
  /\ list' = list \ {v} /\ count' = count - 1

\* ndsctl auth: "Yes" of a client that is preauthenticated.
Authenticates(v) ==
  /\ Tries(v) /\ client[v] = "preauth" /\ v \notin banned
  /\ client' = [client EXCEPT ![v] = "auth"] /\ served' = served \cup {v}
  /\ status' = "authenticated" /\ acks' = acks \cup {v}
  /\ UNCHANGED <<fasVars, at>>

\* Fault: a client that could not be authenticated is acknowledged.
FailsAcked(v) ==
  /\ Tries(v) /\ (client[v] # "preauth" \/ "refuse" \in May)
  /\ status' = "failed" /\ acks' = acks \cup {v}
  /\ UNCHANGED <<daemonVars, fasVars, at>>

\* Fault: a failure ends the batch.
FailsAndBreaks(v) ==
  /\ at = "try" /\ count > 0
  /\ v \in list /\ \A w \in list : v <= w
  /\ client[v] # "preauth" \/ "refuse" \in May
  /\ list' = {} /\ count' = count - 1
  /\ status' = "failed"
  /\ UNCHANGED <<daemonVars, fasVars, at, acks>>

\* "Failed to authenticate": not in the list, authenticated already, or refused.
Fails(v) ==
  /\ Tries(v) /\ (client[v] # "preauth" \/ "refuse" \in May)
  /\ status' = "failed"
  /\ UNCHANGED <<daemonVars, fasVars, at, acks>>

\* "ndsctl thread is busy, please try later.": none of the words that do_ndsctl
\* looks for, so it does not try again.
Misses(v) ==
  /\ "busy" \in May
  /\ Tries(v)
  /\ status' = "ready"
  /\ UNCHANGED <<daemonVars, fasVars, at, acks>>

\* The batch is over.
Batched == at = "try" /\ (list = {} \/ count = 0)

\* Fault: the acknowledgements are not sent.
AcksNothing ==
  /\ Batched /\ at' = "view"
  /\ list' = {} /\ acks' = {}
  /\ UNCHANGED <<daemonVars, queue, portal, count, status>>

\* "view" with the acknowledgements.
Acks ==
  /\ Batched /\ at' = "view"
  /\ queue' = queue \ acks
  /\ list' = {} /\ acks' = {}
  /\ UNCHANGED <<daemonVars, portal, count, status>>

AckFails ==
  /\ "lose" \in May
  /\ Batched /\ at' = "view"
  /\ list' = {} /\ acks' = {}
  /\ UNCHANGED <<daemonVars, fasVars, count, status>>

Next ==
  /\ UNCHANGED fixedVars
  /\ \/ Restarts \/ ClearsStale \/ Views \/ ViewFails \/ Acks \/ AckFails
     \/ \E v \in Visit :
          \/ Connects(v) \/ Leaves(v) \/ Authenticates(v) \/ Fails(v) \/ Misses(v)
          \/ \E k \in 1..Tabs : \/ Verifies(v, k) \/ SeesNoEntry(v, k)
                                \/ TimesOut(v, k) \/ Closes(v, k)

Spec == Init /\ [][Next]_vars

Ended == AckFails \/ Acks \/ \E v \in Visit : Fails(v) \/ Misses(v) \/ Authenticates(v)

\* authmon goes on; requests, the lock of ndsctl and the daemon do not fail for
\* ever, but for the clients that BinAuth refuses always: Authenticates excepts them.
FairSpec ==
  /\ Spec
  /\ WF_vars(UNCHANGED fixedVars /\ ClearsStale)
  /\ SF_vars(UNCHANGED fixedVars /\ Views)
  /\ SF_vars(UNCHANGED fixedVars /\ Acks)
  /\ \A v \in Visit : SF_vars(UNCHANGED fixedVars /\ Authenticates(v))
  /\ WF_vars(UNCHANGED fixedVars /\ Ended)

-----------------------------------------------------------------------------
(* Properties                                                              *)

\* The types of all variables.
TypeOK ==
  /\ May \in Settings /\ banned \subseteq Visit /\ batch \in Batch
  /\ client \in [Visit -> {"new", "preauth", "auth", "gone"}]
  /\ served \subseteq Visit /\ queue \subseteq Visit
  /\ portal \in [Visit -> [1..Tabs -> {"none", "waiting", "authed", "timedout", "closed"}]]
  /\ at \in {"clear", "view", "try"} /\ list \subseteq Visit
  /\ count \in 0..batch /\ acks \subseteq Visit
  /\ status \in {"none", "authenticated", "failed", "ready"}

\* "no list so must be authed" (fas-aes-https.php:644): who is told so has been
\* authenticated. With several tabs, one that times out removes the entry of
\* another; an authmon that starts removes all of them.
PortalTrue ==
  Tabs = 1 /\ "restart" \notin May =>
    \A v \in Visit, k \in 1..Tabs : portal[v][k] = "authed" => v \in served

\* Entries before v that are tried in vain: their clients have left, or were
\* authenticated before, or are refused always.
Stale(v) == {w \in queue : w < v /\ (client[w] # "preauth" \/ w \in banned)}

\* Such entries fill a batch, and v is not reached.
Starved(v) == Cardinality(Stale(v)) >= batch

\* The entry of a client that could be authenticated is there to be fetched.
Verified(v) == v \in queue /\ client[v] = "preauth" /\ v \notin banned /\ at # "clear"

\* "to achieve NDS authentication" (fas.rst:67): a client that has been verified
\* and that BinAuth does not refuse always is authenticated, unless it leaves or
\* its portal times out and takes the entry back, or entries that cannot succeed
\* fill the batches before it again and again. An entry that disappears without
\* that does not count as served.
VerifiedServed ==
  \A v \in Visit :
    \/ []<>Starved(v)
    \/ Verified(v) ~> \/ client[v] # "preauth"
                      \/ \E k \in 1..Tabs : portal[v][k] = "timedout"

\* "Authmon will have sent the ack list as acknowledgement of all clients that
\* were successfully authenticated" (fas-aes-https.php:347): the entry of a client
\* that has been authenticated does not stay as long as the client does. There is
\* one acknowledgement: not another when it is lost, nor for a client that is
\* verified again.
ServedAcked ==
  \A v \in Visit : May \cap {"lose", "again"} = {} /\ v \in queue /\ client[v] = "auth"
                     ~> v \notin queue \/ client[v] # "auth"

=============================================================================
