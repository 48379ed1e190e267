----------------------- MODULE ClientSessions_proofs -----------------------
(***************************************************************************)
(* The inductive invariant of ClientSessions, for every number of clients, *)
(* hosts and HTTP threads: the types, the list lock, the client list with  *)
(* its reference counts, and what a thread works on under the lock. A step *)
(* is first classified by what it does to the list (ListSteps); the facts  *)
(* about the list are then proved by those few cases.                      *)
(***************************************************************************)
EXTENDS ClientSessions, FiniteSetTheorems, WellFoundedInduction, TLAPS


\* Labels at which a thread holds client_list_mutex.
Critical == {"auth", "binauth_action", "counters", "deauth_script", "walk"}

\* The mutex is held by the one thread that is in a critical section.
LockInv == \A t \in Thread : pc[t] \in Critical <=> listLock = t

\* A request points to a client from the moment it has found or added one until
\* client_list_unpin; while it has none it knows the host it came from.
PinInv ==
  \A h \in Http :
    /\ pc[h] \in {"idle", "add"} <=> cur[h] = 0
    /\ pc[h] = "add" => req[h] \in Host

\* What a request points to is allocated.
HeldInv == \A h \in Http : cur[h] # 0 => cur[h] \in heap

\* Ids are handed out upwards, and an entry of the list belongs to a host.
ListInv ==
  /\ \A i \in heap : i < clientId
  /\ \A i \in clientList : node[i].host \in Host

\* What auth_change_state works on, across its script and its nft commands: the
\* client is on the list and in the state that was tested when it began, and the
\* rules of a client that is being deauthenticated are gone.
Works(t) ==
  /\ pc[t] \in {"binauth_action", "counters"} => CanAuth(cur[t])
  /\ pc[t] = "auth" /\ t \notin Http => CanAuth(cur[t])
  /\ pc[t] = "deauth_script" =>
       CanDeauth(cur[t]) /\ node[cur[t]].host \notin rules

\* Every thread works on such a client.
WorkInv == \A t \in Thread : Works(t)

\* The inductive invariant. NodesAccountedFor alone is not inductive: that a
\* freed node has no user needs HeldInv, that a new id is unused needs ListInv,
\* and that the client of a deauthentication is still on the list after its
\* script needs WorkInv, which rests on LockInv.
IInv ==
  /\ TypeOK /\ LockInv /\ PinInv /\ HeldInv /\ ListInv /\ WorkInv
  /\ NodesAccountedFor

\* The order of the ids, as a relation.
Less == {ss \in Nat \X Nat : ss[1] < ss[2]}

\* First returns the smallest id of a set, the entry nearest the head.
LEMMA FirstIn ==
  ASSUME NEW S \in SUBSET Id, S # {}
  PROVE  First(S) \in S /\ \A j \in S : First(S) <= j
<1>1. IsWellFoundedOn(Less, Nat)
  BY NatLessThanWellFounded DEF OpToRel, Less
<1>2. S \subseteq Nat
  BY ConstantsAssumption DEF Id
<1>3. PICK x \in S : \A y \in S : ~ <<y, x>> \in Less
  BY <1>1, <1>2, WFMin
<1>4. \A j \in S : x <= j
  <2> TAKE j \in S
  <2>1. <<j, x>> \in Nat \X Nat /\ <<j, x>>[1] = j /\ <<j, x>>[2] = x
    BY <1>2
  <2>2. ~(j < x)
    BY <1>3, <2>1 DEF Less
  <2> QED BY <2>2, <1>2
<1> QED BY <1>4 DEF First

\* The list is finite, since ids are bounded.
LEMMA ListFinite ==
  ASSUME TypeOK
  PROVE  IsFiniteSet(clientList) /\ Cardinality(clientList) \in Nat
<1>1. IsFiniteSet(Id)
  BY FS_Interval, ConstantsAssumption DEF Id
<1> QED BY <1>1, FS_Subset, FS_CardinalityType DEF TypeOK

\* client_count can be decremented when there is an entry to delete.
LEMMA CountPositive ==
  ASSUME TypeOK, NodesAccountedFor, NEW i \in clientList
  PROVE  clientCount > 0
BY ListFinite, FS_EmptySet DEF TypeOK, NodesAccountedFor

\* client_list_find_by_any returns an entry of the host it is asked for.
LEMMA FindHostIn ==
  ASSUME TypeOK, NEW host, FindHost(host) # {}
  PROVE  /\ First(FindHost(host)) \in clientList
         /\ node[First(FindHost(host))].host = host
<1>1. FindHost(host) \in SUBSET Id
  BY DEF FindHost, TypeOK
<1> QED BY <1>1, FirstIn DEF FindHost

\* client_list_delete keeps the types of what it changes.
LEMMA DeleteType ==
  ASSUME TypeOK, NodesAccountedFor, NEW i \in clientList, ClientListDelete(i)
  PROVE  /\ clientList' \subseteq Id /\ heap' \subseteq Id
         /\ clientCount' \in 0..MaxClients
         /\ clientId' \in 1..(MaxId + 1)
         /\ node' \in [Id -> Node]
<1>1. clientCount > 0
  BY CountPositive
<1>2. FreeNode \in Node
  BY DEF FreeNode, Node, State, Session
<1>3. \A n \in Node : [n EXCEPT !.dead = TRUE] \in Node
  BY DEF Node
<1> QED BY <1>1, <1>2, <1>3, ConstantsAssumption DEF TypeOK, ClientListDelete,
           Free

\* Assigning to a field of a t_client keeps its type.
LEMMA NodeUpdates ==
  ASSUME NEW n \in Node
  PROVE  /\ \A s \in State : [n EXCEPT !.state = s] \in Node
         /\ \A s \in Session : [n EXCEPT !.session = s] \in Node
         /\ \A b \in BOOLEAN : [n EXCEPT !.expired = b] \in Node
         /\ \A b \in BOOLEAN : [n EXCEPT !.explicit = b] \in Node
         /\ \A k \in Nat : [n EXCEPT !.refcount = k] \in Node
BY DEF Node

\* A step that gives a client a session length keeps the type of the table.
LEMMA SessionType ==
  ASSUME TypeOK, NEW i \in Id, NEW s \in Session,
         node' = [node EXCEPT ![i].session = s, ![i].expired = FALSE]
  PROVE  node' \in [Id -> Node]
<1> DEFINE n == [node EXCEPT ![i].session = s]
<1>1. n \in [Id -> Node]
  BY NodeUpdates DEF TypeOK
<1>2. node' = [n EXCEPT ![i].expired = FALSE]
  OBVIOUS
<1>3. [n[i] EXCEPT !.expired = FALSE] \in Node
  BY <1>1 DEF Node
<1> HIDE DEF n
<1> QED BY <1>1, <1>2, <1>3

\* client_list_append makes a t_client.
LEMMA NewNodeType ==
  ASSUME NEW host \in Host, NEW pins \in Nat
  PROVE  NewNode(host, pins) \in Node
BY DEF NewNode, FreeNode, Node, State, Session

\* _client_list_append keeps the types of what it changes.
LEMMA AppendType ==
  ASSUME TypeOK, Append, NEW n \in Node, node' = [node EXCEPT ![clientId] = n]
  PROVE  /\ clientId \in Id
         /\ clientList' \subseteq Id /\ heap' \subseteq Id
         /\ clientCount' \in 0..MaxClients
         /\ clientId' \in 1..(MaxId + 1)
         /\ node' \in [Id -> Node]
BY ConstantsAssumption DEF TypeOK, Append, Full, Id

\* Setting the session of a client keeps its type.
LEMMA GrantType ==
  ASSUME NEW n \in Node, NEW length \in Session
  PROVE  Grant(n, length) \in Node
BY DEF Grant, Node

\* Pinning a client keeps the type of the table.
LEMMA PinType ==
  ASSUME TypeOK, NEW i \in Id, Pin(i)
  PROVE  node' \in [Id -> Node]
<1>1. node \in [Id -> Node] /\ node[i].refcount + 1 \in Nat
  BY DEF TypeOK, Node
<1>2. [node[i] EXCEPT !.refcount = node[i].refcount + 1] \in Node
  BY <1>1, NodeUpdates
<1>3. node' = [node EXCEPT ![i] = [node[i] EXCEPT !.refcount = node[i].refcount + 1]]
  BY DEF Pin
<1> QED BY <1>1, <1>2, <1>3

\* auth_client_auth_nolock on a client that is found keeps the types.
LEMMA FoundType ==
  ASSUME TypeOK, NEW t \in Thread, NEW i \in clientList, NEW length \in Session,
         AuthFound(t, i, length)
  PROVE  TypeOK'
<1>1. node' \in [Id -> Node]
  BY GrantType DEF TypeOK, AuthFound
<1> QED BY <1>1 DEF TypeOK, AuthFound, Acquire, Goto, Label, listVars, trustVars

\* auth_client_auth_nolock on a host that joins the list keeps the types.
LEMMA NewType ==
  ASSUME TypeOK, NEW t \in Thread, NEW host \in Host, NEW length \in Session,
         AuthNew(t, host, length)
  PROVE  TypeOK'
<1>1. NewNode(host, 0) \in Node /\ Grant(NewNode(host, 0), length) \in Node
  BY NewNodeType, GrantType
<1>2. Append
  BY DEF AuthNew
<1>3. CASE host.mac \in trusted
  BY <1>1, <1>2, <1>3, AppendType DEF TypeOK, AuthNew, trustVars
<1>4. CASE host.mac \notin trusted
  BY <1>1, <1>2, <1>4, AppendType DEF TypeOK, AuthNew, Goto, Label, trustVars
<1> QED BY <1>3, <1>4

\* Every step keeps the types.
LEMMA TypeStep ==
  ASSUME IInv, [Next]_vars
  PROVE  TypeOK'
<1> USE DEF listVars, trustVars
<1>1. TypeOK /\ LockInv /\ PinInv /\ ListInv /\ WorkInv /\ NodesAccountedFor
  BY DEF IInv
<1>2. ASSUME NEW t \in Thread, Authenticating(t)
      PROVE  TypeOK'
  <2>1. CASE AuthStart(t)
    <3>1. /\ node' = [node EXCEPT ![cur[t]].explicit = FALSE]
          /\ keep' \in BOOLEAN /\ cur[t] \in Id
      BY <1>1, <2>1 DEF TypeOK, AuthStart, CanAuth, TakeExplicit, Node
    <3>2. node' \in [Id -> Node]
      <4>1. node \in [Id -> Node] /\ [node[cur[t]] EXCEPT !.explicit = FALSE] \in Node
        BY <1>1, <3>1, NodeUpdates DEF TypeOK
      <4> QED BY <3>1, <4>1
    <3>3. pc' \in [Thread -> Label]
      BY <1>1, <2>1 DEF TypeOK, AuthStart, Goto, Label
    <3> QED BY <1>1, <2>1, <3>1, <3>2, <3>3 DEF TypeOK, AuthStart
  <2>2. CASE AuthNoClient(t)
    BY <1>1, <2>2 DEF TypeOK, AuthNoClient, AuthEnd, Release, Leave, AfterAuth,
       Goto, Label, Thread
  <2>3. CASE AuthRefused(t)
    BY <1>1, <2>3 DEF TypeOK, AuthRefused, AuthEnd, Release, Leave, AfterAuth,
       Goto, Label, Thread
  <2>4. CASE AuthAccept(t)
    <3>1. cur[t] \in Id /\ node[cur[t]].host \in Host
      BY <1>1, <2>4 DEF TypeOK, AuthAccept, WorkInv, Works, CanAuth, ListInv
    <3>2. node' \in [Id -> Node]
      BY <1>1, <2>4, <3>1, SessionType DEF TypeOK, AuthAccept, Session
    <3> QED BY <1>1, <2>4, <3>1, <3>2 DEF TypeOK, AuthAccept, FwAuthenticate,
               Goto, Label
  <2>5. CASE AuthCountersFail(t)
    BY <1>1, <2>5 DEF TypeOK, AuthCountersFail, FwDeauthenticate, AuthEnd,
       Release, Leave, AfterAuth, Goto, Label, Thread
  <2>6. CASE AuthComplete(t)
    <3>1. cur[t] \in Id
      BY <1>1, <2>6 DEF TypeOK, AuthComplete, WorkInv, Works, CanAuth
    <3>2. node' \in [Id -> Node]
      BY <1>1, <2>6, <3>1, NodeUpdates DEF TypeOK, AuthComplete, State
    <3> QED BY <1>1, <2>6, <3>2 DEF TypeOK, AuthComplete, AuthEnd, Release,
               Leave, AfterAuth, Goto, Label, Thread
  <2> QED BY <1>2, <2>1, <2>2, <2>3, <2>4, <2>5, <2>6 DEF Authenticating
<1>3. ASSUME NEW t \in Thread, Deauthenticating(t)
      PROVE  TypeOK'
  <2>1. CASE DeauthStart(t)
    BY <1>1, <2>1 DEF TypeOK, DeauthStart, Acquire, FwDeauthenticate, Goto,
       Label
  <2>2. CASE DeauthNoClient(t)
    BY <1>1, <2>2 DEF TypeOK, DeauthNoClient, Leave, AfterDeauth, Goto, Label,
       Thread
  <2>3. CASE DeauthEnd(t)
    <3>1. cur[t] \in clientList
      BY <1>1, <2>3 DEF DeauthEnd, WorkInv, Works, CanDeauth
    <3>2. ClientListDelete(cur[t])
      BY <2>3 DEF DeauthEnd
    <3> QED BY <1>1, <2>3, <3>1, <3>2, DeleteType DEF TypeOK, DeauthEnd,
               Release, Leave, AfterDeauth, Goto, Label, Thread
  <2> QED BY <1>3, <2>1, <2>2, <2>3 DEF Deauthenticating
<1>4. ASSUME NEW h \in Http, HttpRequest(h) \/ HttpStep(h)
      PROVE  TypeOK'
  <2>0. h \in Thread
    BY DEF Thread
  <2>1. ASSUME NEW host \in Host, HttpFind(h, host)
        PROVE  TypeOK'
    <3>1. CASE FindHost(host) # {}
      <4>1. First(FindHost(host)) \in Id
        BY <1>1, <3>1, FindHostIn DEF TypeOK
      <4>2. node' \in [Id -> Node]
        BY <1>1, <2>1, <3>1, <4>1, PinType DEF HttpFind
      <4> QED BY <1>1, <2>0, <2>1, <3>1, <4>1, <4>2 DEF TypeOK, HttpFind, Goto,
                 Label
    <3>2. CASE FindHost(host) = {}
      BY <1>1, <2>0, <2>1, <3>2 DEF TypeOK, HttpFind, Goto, Label
    <3> QED BY <3>1, <3>2
  <2>2. CASE HttpNotAllocated(h)
    BY <1>1, <2>0, <2>2 DEF TypeOK, HttpNotAllocated, Goto, Label
  <2>3. CASE HttpAdd(h)
    <3>1. CASE FindHost(req[h]) # {}
      <4>1. First(FindHost(req[h])) \in Id
        BY <1>1, <3>1, FindHostIn DEF TypeOK
      <4>2. node' \in [Id -> Node]
        BY <1>1, <2>3, <3>1, <4>1, PinType DEF HttpAdd, FindAgain
      <4> QED BY <1>1, <2>0, <2>3, <3>1, <4>1, <4>2 DEF TypeOK, HttpAdd,
                 FindAgain, Goto, Label
    <3>2. CASE FindHost(req[h]) = {} /\ Full
      BY <1>1, <2>0, <2>3, <3>2 DEF TypeOK, HttpAdd, FindAgain, Goto, Label
    <3>3. CASE FindHost(req[h]) = {} /\ ~Full
      <4>1. req[h] \in Host
        BY <1>1, <2>3 DEF HttpAdd, PinInv
      <4> QED BY <1>1, <2>0, <2>3, <3>3, <4>1, NewNodeType, AppendType
                 DEF TypeOK, HttpAdd, FindAgain, Goto, Label
    <3> QED BY <3>1, <3>2, <3>3
  <2>4. CASE HttpDispatch(h)
    BY <1>1, <2>0, <2>4 DEF TypeOK, HttpDispatch, Goto, Label
  <2>5. CASE HttpServe(h)
    BY <1>1, <2>0, <2>5 DEF TypeOK, HttpServe, Goto, Label
  <2>6. CASE HttpDeny(h)
    BY <1>1, <2>0, <2>6 DEF TypeOK, HttpDeny, Goto, Label
  <2>7. CASE HttpAuthenticate(h)
    <3>1. cur[h] \in Id
      BY <1>1, <2>0, <2>7 DEF TypeOK, HttpAuthenticate, PinInv
    <3>2. node' \in [Id -> Node]
      BY <1>1, <2>7, <3>1, SessionType DEF HttpAuthenticate, GlobalSession,
         Session
    <3> QED BY <1>1, <2>0, <2>7, <3>2 DEF TypeOK, HttpAuthenticate, Goto, Label
  <2>8. CASE HttpBinAuthRefused(h)
    BY <1>1, <2>0, <2>8 DEF TypeOK, HttpBinAuthRefused, Goto, Label
  <2>9. CASE HttpBinAuthAccepted(h)
    BY <1>1, <2>0, <2>9 DEF TypeOK, HttpBinAuthAccepted, Goto, Label
  <2>10. CASE HttpLock(h)
    BY <1>1, <2>0, <2>10 DEF TypeOK, HttpLock, Acquire, Goto, Label
  <2>11. CASE HttpAfterAuth(h)
    <3>1. cur[h] \in Id
      BY <1>1, <2>0, <2>11 DEF TypeOK, HttpAfterAuth, PinInv
    <3>2. node' \in [Id -> Node]
      BY <1>1, <2>11, <3>1, SessionType DEF TypeOK, HttpAfterAuth, Session
    <3> QED BY <1>1, <2>0, <2>11, <3>2 DEF TypeOK, HttpAfterAuth, Goto, Label
  <2>12. CASE HttpUnpin(h)
    <3>1. cur[h] \in Id
      BY <1>1, <2>0, <2>12 DEF TypeOK, HttpUnpin, PinInv
    <3>2. node[cur[h]].refcount \in Nat
      BY <1>1, <3>1 DEF TypeOK, Node
    <3>3. FreeNode \in Node
      BY DEF FreeNode, Node, State, Session
    <3>4. node' \in [Id -> Node] /\ heap' \subseteq Id
      <4> DEFINE left == IF node[cur[h]].refcount > 0
                         THEN node[cur[h]].refcount - 1 ELSE 0
      <4>1. [node[cur[h]] EXCEPT !.refcount = left] \in Node
        <5>1. node[cur[h]] \in Node /\ left \in Nat
          BY <1>1, <3>1, <3>2 DEF TypeOK
        <5> HIDE DEF left
        <5> QED BY <5>1, NodeUpdates
      <4>2. CASE LastUser(cur[h], left)
        BY <1>1, <2>12, <3>1, <3>3, <4>2 DEF TypeOK, HttpUnpin, Free
      <4>3. CASE ~LastUser(cur[h], left)
        BY <1>1, <2>12, <3>1, <4>1, <4>3 DEF TypeOK, HttpUnpin
      <4> QED BY <4>2, <4>3
    <3> QED BY <1>1, <2>0, <2>12, <3>4 DEF TypeOK, HttpUnpin, Goto, Label
  <2> QED BY <1>4, <2>1, <2>2, <2>3, <2>4, <2>5, <2>6, <2>7, <2>8, <2>9, <2>10,
             <2>11, <2>12 DEF HttpRequest, HttpStep
<1>5. CASE NdsctlCommand
  <2>1. CASE NdsctlAuth
    BY <1>1, <2>1, FoundType, NewType DEF NdsctlAuth, GlobalSession, Thread,
       Session
  <2>2. CASE NdsctlDeauth
    BY <1>1, <2>2 DEF TypeOK, NdsctlDeauth, Goto, Label, Thread
  <2>3. CASE NdsctlTrust
    BY <1>1, <2>3, ConstantsAssumption DEF TypeOK, NdsctlTrust
  <2>4. CASE NdsctlUntrust
    BY <1>1, <2>4 DEF TypeOK, NdsctlUntrust
  <2> QED BY <1>5, <2>1, <2>2, <2>3, <2>4 DEF NdsctlCommand
<1>6. CASE WatchdogStart
  BY <1>1, <1>6 DEF TypeOK, WatchdogStart, Acquire, Goto, Label, Thread
<1>7. CASE WatchdogStep
  <2>1. CASE WatchdogPass
    BY <1>1, <2>1 DEF TypeOK, WatchdogPass
  <2>2. CASE WatchdogPreauthIdle
    BY <1>1, <2>2, DeleteType DEF TypeOK, WatchdogPreauthIdle
  <2>3. CASE WatchdogDeauth
    BY <1>1, <2>3 DEF TypeOK, WatchdogDeauth, FwDeauthenticate, Goto, Label,
       Thread
  <2>4. CASE WatchdogThrottle
    <3>1. node' \in [Id -> Node]
      <4>1. PICK i \in clientList :
               node' = [node EXCEPT ![i].state = "AuthBlocked"]
        BY <2>4 DEF WatchdogThrottle
      <4> QED BY <1>1, <4>1, NodeUpdates DEF TypeOK, State
    <3> QED BY <1>1, <2>4, <3>1 DEF TypeOK, WatchdogThrottle
  <2>5. CASE WatchdogUnlock
    BY <1>1, <2>5 DEF TypeOK, WatchdogUnlock, Release, Goto, Label, Thread
  <2>6. CASE WatchdogSleep
    BY <1>1, <2>6 DEF TypeOK, WatchdogSleep, Goto, Label, Thread
  <2> QED BY <1>7, <2>1, <2>2, <2>3, <2>4, <2>5, <2>6 DEF WatchdogStep
<1>8. CASE WatchdogPreempt
  <2> PICK host \in Host, length \in {GlobalSession, "listed"} :
         IF FindMac(host.mac) # {}
         THEN AuthFound("watchdog", First(FindMac(host.mac)), length)
         ELSE AuthNew("watchdog", host, length)
    BY <1>8 DEF WatchdogPreempt
  <2>1. FindMac(host.mac) # {} => First(FindMac(host.mac)) \in clientList
    BY <1>1, FirstIn DEF TypeOK, FindMac
  <2> QED BY <1>1, <2>1, FoundType, NewType DEF GlobalSession, Thread, Session
<1>9. ASSUME NEW i \in Id, SessionElapses(i)
      PROVE  TypeOK'
  <2>1. node' \in [Id -> Node]
    BY <1>1, <1>9, NodeUpdates DEF TypeOK, SessionElapses
  <2> QED BY <1>1, <1>9, <2>1 DEF TypeOK, SessionElapses
<1>10. CASE UNCHANGED vars
  BY <1>1, <1>10 DEF TypeOK, vars
<1> QED BY <1>2, <1>3, <1>4, <1>5, <1>6, <1>7, <1>8, <1>9, <1>10 DEF Next

\* Every step keeps the mutex with the thread in the critical section, and the
\* pointer of a request with its place in libmicrohttpd_cb.
LEMMA ControlStep ==
  ASSUME IInv, [Next]_vars
  PROVE  LockInv' /\ PinInv'
<1> USE DEF listVars, trustVars, LockInv, PinInv, Critical
<1>1. TypeOK /\ LockInv /\ PinInv
  BY DEF IInv
<1>0. /\ "free" \notin Thread
      /\ Http \cap {"ndsctl", "watchdog"} = {}
      /\ Http \subseteq Thread /\ {"ndsctl", "watchdog"} \subseteq Thread
  BY ConstantsAssumption DEF Thread
<1>a. /\ pc \in [Thread -> Label]
      /\ cur \in [Thread -> Id \cup {0}]
      /\ req \in [Http -> Host \cup {NoHost}]
      /\ clientList \subseteq Id
      /\ clientId \in 1..(MaxId + 1)
      /\ 0 \notin Id
  BY <1>1 DEF TypeOK, Id
<1> HIDE DEF LockInv, PinInv
<1>2. ASSUME NEW t \in Thread, Authenticating(t)
      PROVE  LockInv' /\ PinInv'
  <2> USE <1>1, <1>0, <1>a DEF LockInv, PinInv
  <2>1. CASE AuthStart(t)
    BY <2>1 DEF AuthStart, Goto
  <2>2. CASE AuthNoClient(t)
    BY <2>2 DEF AuthNoClient, AuthEnd, Release, Leave, AfterAuth, Goto, Thread
  <2>3. CASE AuthRefused(t)
    BY <2>3 DEF AuthRefused, AuthEnd, Release, Leave, AfterAuth, Goto, Thread
  <2>4. CASE AuthAccept(t)
    BY <2>4 DEF AuthAccept, Goto
  <2>5. CASE AuthCountersFail(t)
    BY <2>5 DEF AuthCountersFail, AuthEnd, Release, Leave, AfterAuth, Goto,
       Thread
  <2>6. CASE AuthComplete(t)
    BY <2>6 DEF AuthComplete, AuthEnd, Release, Leave, AfterAuth, Goto, Thread
  <2> QED BY <1>2, <2>1, <2>2, <2>3, <2>4, <2>5, <2>6 DEF Authenticating
<1>3. ASSUME NEW t \in Thread, Deauthenticating(t)
      PROVE  LockInv' /\ PinInv'
  <2> USE <1>1, <1>0, <1>a DEF LockInv, PinInv
  <2>1. CASE DeauthStart(t)
    BY <2>1 DEF DeauthStart, Acquire, LockFree, Goto
  <2>2. CASE DeauthNoClient(t)
    BY <2>2 DEF DeauthNoClient, Leave, AfterDeauth, Goto, Thread
  <2>3. CASE DeauthEnd(t)
    BY <2>3 DEF DeauthEnd, Release, Leave, AfterDeauth, Goto, Thread
  <2> QED BY <1>3, <2>1, <2>2, <2>3 DEF Deauthenticating
<1>4. ASSUME NEW h \in Http, HttpRequest(h) \/ HttpStep(h)
      PROVE  LockInv' /\ PinInv'
  <2> USE <1>1, <1>0, <1>a DEF LockInv, PinInv
  <2>1. ASSUME NEW host \in Host, HttpFind(h, host)
        PROVE  LockInv' /\ PinInv'
    <3>1. FindHost(host) # {} => First(FindHost(host)) \in Id
      BY FindHostIn
    <3> QED BY <2>1, <3>1 DEF HttpFind, Goto
  <2>2. CASE HttpNotAllocated(h)
    BY <2>2 DEF HttpNotAllocated, Goto
  <2>3. CASE HttpAdd(h)
    <3>1. FindHost(req[h]) # {} => First(FindHost(req[h])) \in Id
      BY FindHostIn
    <3> QED BY <2>3, <3>1 DEF HttpAdd, FindAgain, Goto
  <2>4. CASE HttpDispatch(h)
    BY <2>4 DEF HttpDispatch, Goto
  <2>5. CASE HttpServe(h)
    BY <2>5 DEF HttpServe, Goto
  <2>6. CASE HttpDeny(h)
    BY <2>6 DEF HttpDeny, Goto
  <2>7. CASE HttpAuthenticate(h)
    BY <2>7 DEF HttpAuthenticate, Goto
  <2>8. CASE HttpBinAuthRefused(h)
    BY <2>8 DEF HttpBinAuthRefused, Goto
  <2>9. CASE HttpBinAuthAccepted(h)
    BY <2>9 DEF HttpBinAuthAccepted, Goto
  <2>10. CASE HttpLock(h)
    BY <2>10 DEF HttpLock, Acquire, LockFree, Goto
  <2>11. CASE HttpAfterAuth(h)
    BY <2>11 DEF HttpAfterAuth, Goto
  <2>12. CASE HttpUnpin(h)
    BY <2>12 DEF HttpUnpin, Goto
  <2> QED BY <1>4, <2>1, <2>2, <2>3, <2>4, <2>5, <2>6, <2>7, <2>8, <2>9, <2>10,
             <2>11, <2>12 DEF HttpRequest, HttpStep
<1>5. ASSUME NEW t \in {"ndsctl", "watchdog"}, NEW i, NEW length,
       AuthFound(t, i, length),
             pc[t] \in {"idle", "preempt"}
      PROVE  LockInv' /\ PinInv'
  BY <1>0, <1>1, <1>a, <1>5 DEF AuthFound, Acquire, LockFree, Goto, LockInv,
     PinInv
<1>6. ASSUME NEW t \in {"ndsctl", "watchdog"}, NEW host, NEW length,
       AuthNew(t, host, length),
             pc[t] \in {"idle", "preempt"}
      PROVE  LockInv' /\ PinInv'
  BY <1>0, <1>1, <1>a, <1>6 DEF AuthNew, LockFree, Goto, LockInv, PinInv
<1>7. CASE NdsctlCommand
  <2>1. CASE NdsctlAuth
    BY <1>5, <1>6, <2>1 DEF NdsctlAuth
  <2>2. CASE NdsctlDeauth
    BY <1>0, <1>1, <1>a, <2>2 DEF NdsctlDeauth, Goto, LockInv, PinInv
  <2>3. CASE NdsctlTrust
    BY <1>0, <1>1, <1>a, <2>3 DEF NdsctlTrust, LockInv, PinInv
  <2>4. CASE NdsctlUntrust
    BY <1>0, <1>1, <1>a, <2>4 DEF NdsctlUntrust, LockInv, PinInv
  <2> QED BY <1>7, <2>1, <2>2, <2>3, <2>4 DEF NdsctlCommand
<1>8. CASE WatchdogStart
  BY <1>0, <1>1, <1>a, <1>8 DEF WatchdogStart, Acquire, LockFree, Goto,
     LockInv, PinInv
<1>9. CASE WatchdogStep
  <2> USE <1>1, <1>0, <1>a DEF LockInv, PinInv
  <2>1. CASE WatchdogPass
    BY <2>1 DEF WatchdogPass
  <2>2. CASE WatchdogPreauthIdle
    BY <2>2 DEF WatchdogPreauthIdle
  <2>3. CASE WatchdogDeauth
    BY <2>3 DEF WatchdogDeauth, Visit, Goto
  <2>4. CASE WatchdogThrottle
    BY <2>4 DEF WatchdogThrottle
  <2>5. CASE WatchdogUnlock
    BY <2>5 DEF WatchdogUnlock, Release, Goto
  <2>6. CASE WatchdogSleep
    BY <2>6 DEF WatchdogSleep, Goto
  <2> QED BY <1>9, <2>1, <2>2, <2>3, <2>4, <2>5, <2>6 DEF WatchdogStep
<1>10. CASE WatchdogPreempt
  BY <1>5, <1>6, <1>10 DEF WatchdogPreempt
<1>11. ASSUME NEW i \in Id, SessionElapses(i)
      PROVE  LockInv' /\ PinInv'
  BY <1>1, <1>11 DEF SessionElapses, LockInv, PinInv
<1>12. CASE UNCHANGED vars
  BY <1>1, <1>12 DEF vars, LockInv, PinInv
<1> QED BY <1>2, <1>3, <1>4, <1>7, <1>8, <1>9, <1>10, <1>11, <1>12 DEF Next

-----------------------------------------------------------------------------
(* What a step does to the list                                            *)

\* An entry keeps its host, its mark and its reference count.
Kept(i) ==
  /\ node'[i].host = node[i].host
  /\ node'[i].dead = node[i].dead
  /\ node'[i].refcount = node[i].refcount

\* No request changes the client it points to.
HttpCurKept == \A h \in Http : cur'[h] = cur[h]

\* A step that leaves the list and the reference counts alone.
Quiet == UNCHANGED listVars /\ (\A i \in Id : Kept(i)) /\ HttpCurKept

\* A request pins a listed client.
PinStep == \E h \in Http, i \in clientList :
  /\ UNCHANGED listVars
  /\ Pin(i)
  /\ cur[h] = 0
  /\ cur' = [cur EXCEPT ![h] = i]

\* A host without an entry joins the list, pinned by its request or not.
JoinStep == \E host \in Host, n \in Node :
  /\ FindHost(host) = {}
  /\ Append
  /\ node' = [node EXCEPT ![clientId] = n]
  /\ n.host = host /\ n.dead = FALSE
  /\ \/ n.refcount = 0 /\ HttpCurKept
     \/ /\ n.refcount = 1
        /\ \E h \in Http : cur[h] = 0 /\ cur' = [cur EXCEPT ![h] = clientId]

\* A client is deleted from the list.
LeaveStep == \E i \in clientList : ClientListDelete(i) /\ HttpCurKept

\* What the steps of the program can do to the list.
ListStep ==
  Quiet \/ PinStep \/ JoinStep \/ LeaveStep \/ \E h \in Http : HttpUnpin(h)

\* ndsctl auth of a listed client leaves the list alone.
LEMMA FoundQuiet ==
  ASSUME TypeOK, NEW t \in {"ndsctl", "watchdog"}, NEW i \in clientList,
         NEW length \in Session, AuthFound(t, i, length)
  PROVE  Quiet
<1>1. i \in Id /\ node[i] \in Node
  BY DEF TypeOK
<1>2. /\ Grant(node[i], length).host = node[i].host
      /\ Grant(node[i], length).dead = node[i].dead
      /\ Grant(node[i], length).refcount = node[i].refcount
  BY <1>1 DEF Grant, Node
<1>3. \A j \in Id : Kept(j)
  BY <1>1, <1>2 DEF Kept, AuthFound, TypeOK
<1>4. t \notin Http
  BY ConstantsAssumption
<1> QED BY <1>3, <1>4 DEF Quiet, AuthFound, HttpCurKept, TypeOK, listVars

\* ndsctl auth of a host that is not listed makes it join.
LEMMA NewJoins ==
  ASSUME TypeOK, NEW t \in {"ndsctl", "watchdog"}, NEW host \in Host,
         NEW length \in Session, AuthNew(t, host, length)
  PROVE  JoinStep
<1> DEFINE n == NewNode(host, 0)
<1>1. n \in Node /\ Grant(n, length) \in Node
  BY NewNodeType, GrantType
<1>2. n.host = host /\ n.dead = FALSE /\ n.refcount = 0
  BY DEF NewNode, FreeNode
<1>3. /\ Grant(n, length).host = host /\ Grant(n, length).dead = FALSE
      /\ Grant(n, length).refcount = 0
  BY <1>1, <1>2 DEF Grant, Node
<1>4. FindHost(host) = {}
  BY DEF AuthNew, FindHost, FindMac, FindIp
<1>5. HttpCurKept
  <2>1. t \notin Http
    BY ConstantsAssumption
  <2>2. cur' \in {cur, [cur EXCEPT ![t] = clientId]}
    BY DEF AuthNew
  <2>3. Http \subseteq Thread /\ cur \in [Thread -> Id \cup {0}]
    BY DEF Thread, TypeOK
  <2> QED BY <2>1, <2>2, <2>3 DEF HttpCurKept
<1>6. Append /\ \E m \in {n, Grant(n, length)} : node' = [node EXCEPT ![clientId] = m]
  BY DEF AuthNew
<1> HIDE DEF n
<1> QED BY <1>1, <1>2, <1>3, <1>4, <1>5, <1>6 DEF JoinStep

\* Every step does one of these to the list.
LEMMA ListSteps ==
  ASSUME IInv, [Next]_vars
  PROVE  ListStep
<1> USE DEF listVars, trustVars
<1>1. TypeOK /\ PinInv /\ WorkInv
  BY DEF IInv
<1>0. Http \cap {"ndsctl", "watchdog"} = {}
  BY ConstantsAssumption DEF Thread
<1>a. /\ node \in [Id -> Node]
      /\ cur \in [Thread -> Id \cup {0}]
      /\ clientList \subseteq Id
  BY <1>1 DEF TypeOK
<1>2. ASSUME NEW t \in Thread, Authenticating(t)
      PROVE  Quiet
  <2> USE <1>0, <1>a DEF Quiet, HttpCurKept, Leave
  <2>1. CASE AuthStart(t)
    BY <2>1 DEF AuthStart, CanAuth, TakeExplicit, Kept, Node
  <2>2. CASE AuthNoClient(t)
    BY <2>2 DEF AuthNoClient, AuthEnd, Kept
  <2>3. CASE AuthRefused(t)
    BY <2>3 DEF AuthRefused, AuthEnd, Kept
  <2>4. CASE AuthAccept(t)
    BY <2>4 DEF AuthAccept, Kept, Node
  <2>5. CASE AuthCountersFail(t)
    BY <2>5 DEF AuthCountersFail, AuthEnd, Kept
  <2>6. CASE AuthComplete(t)
    BY <2>6 DEF AuthComplete, AuthEnd, Kept, Node
  <2> QED BY <1>2, <2>1, <2>2, <2>3, <2>4, <2>5, <2>6 DEF Authenticating
<1>3. ASSUME NEW t \in Thread, Deauthenticating(t)
      PROVE  Quiet \/ LeaveStep
  <2> USE <1>0, <1>a DEF Quiet, HttpCurKept, Leave
  <2>1. CASE DeauthStart(t)
    BY <2>1 DEF DeauthStart, Kept
  <2>2. CASE DeauthNoClient(t)
    BY <2>2 DEF DeauthNoClient, Kept
  <2>3. CASE DeauthEnd(t)
    <3>1. cur[t] \in clientList
      BY <1>1, <2>3 DEF DeauthEnd, WorkInv, Works, CanDeauth
    <3>2. HttpCurKept
      BY <2>3 DEF DeauthEnd, Thread
    <3> QED BY <2>3, <3>1, <3>2 DEF DeauthEnd, LeaveStep
  <2> QED BY <1>3, <2>1, <2>2, <2>3 DEF Deauthenticating
<1>4. ASSUME NEW h \in Http, HttpRequest(h) \/ HttpStep(h)
      PROVE  ListStep
  <2> USE <1>0, <1>a DEF Quiet, HttpCurKept, ListStep
  <2>0. h \in Thread
    BY DEF Thread
  <2>1. ASSUME NEW host \in Host, HttpFind(h, host)
        PROVE  Quiet \/ PinStep
    <3>1. cur[h] = 0
      BY <1>1, <2>1 DEF HttpFind, PinInv
    <3>2. CASE FindHost(host) # {}
      BY <1>1, <2>1, <3>1, <3>2, FindHostIn DEF HttpFind, PinStep
    <3>3. CASE FindHost(host) = {}
      BY <2>1, <3>3 DEF HttpFind, Kept
    <3> QED BY <3>2, <3>3
  <2>2. CASE HttpNotAllocated(h)
    BY <2>2 DEF HttpNotAllocated, Kept
  <2>3. ASSUME HttpAdd(h)
        PROVE  Quiet \/ PinStep \/ JoinStep
    <3>1. cur[h] = 0 /\ req[h] \in Host
      BY <1>1, <2>3 DEF HttpAdd, PinInv
    <3>2. CASE FindHost(req[h]) # {}
      BY <1>1, <2>3, <3>1, <3>2, FindHostIn DEF HttpAdd, FindAgain, PinStep
    <3>3. CASE FindHost(req[h]) = {} /\ Full
      BY <2>3, <3>3 DEF HttpAdd, FindAgain, Kept
    <3>4. CASE FindHost(req[h]) = {} /\ ~Full
      <4> DEFINE n == NewNode(req[h], 1)
      <4>1. n \in Node
        BY <3>1, NewNodeType
      <4>2. n.host = req[h] /\ n.dead = FALSE /\ n.refcount = 1
        BY DEF NewNode, FreeNode
      <4>3. /\ Append
            /\ node' = [node EXCEPT ![clientId] = n]
            /\ cur' = [cur EXCEPT ![h] = clientId]
        BY <2>3, <3>4 DEF HttpAdd, FindAgain
      <4> HIDE DEF n
      <4> QED BY <3>1, <3>4, <4>1, <4>2, <4>3 DEF JoinStep
    <3> QED BY <3>2, <3>3, <3>4
  <2>4. CASE HttpDispatch(h)
    BY <2>4 DEF HttpDispatch, Kept
  <2>5. CASE HttpServe(h)
    BY <2>5 DEF HttpServe, Kept
  <2>6. CASE HttpDeny(h)
    BY <2>6 DEF HttpDeny, Kept
  <2>7. CASE HttpAuthenticate(h)
    BY <2>7 DEF HttpAuthenticate, Kept, Node
  <2>8. CASE HttpBinAuthRefused(h)
    BY <2>8 DEF HttpBinAuthRefused, Kept
  <2>9. CASE HttpBinAuthAccepted(h)
    BY <2>9 DEF HttpBinAuthAccepted, Kept
  <2>10. CASE HttpLock(h)
    BY <2>10 DEF HttpLock, Kept
  <2>11. CASE HttpAfterAuth(h)
    BY <2>11 DEF HttpAfterAuth, Kept, Node
  <2> QED BY <1>4, <2>1, <2>2, <2>3, <2>4, <2>5, <2>6, <2>7, <2>8, <2>9, <2>10,
             <2>11 DEF HttpRequest, HttpStep, ListStep
<1>5. CASE NdsctlCommand
  <2>1. CASE NdsctlAuth
    BY <1>1, <2>1, FoundQuiet, NewJoins DEF NdsctlAuth, GlobalSession, Session,
       ListStep
  <2>2. CASE NdsctlDeauth
    BY <1>0, <1>a, <2>2 DEF NdsctlDeauth, ListStep, Quiet, HttpCurKept, Kept
  <2>3. CASE NdsctlTrust
    BY <2>3 DEF NdsctlTrust, ListStep, Quiet, HttpCurKept, Kept
  <2>4. CASE NdsctlUntrust
    BY <2>4 DEF NdsctlUntrust, ListStep, Quiet, HttpCurKept, Kept
  <2> QED BY <1>5, <2>1, <2>2, <2>3, <2>4 DEF NdsctlCommand
<1>6. CASE WatchdogStart
  BY <1>6 DEF WatchdogStart, ListStep, Quiet, HttpCurKept, Kept
<1>7. CASE WatchdogStep
  <2> USE <1>0, <1>a DEF ListStep, Quiet, HttpCurKept
  <2>1. CASE WatchdogPass
    BY <2>1 DEF WatchdogPass, Kept
  <2>2. CASE WatchdogPreauthIdle
    BY <2>2 DEF WatchdogPreauthIdle, LeaveStep
  <2>3. CASE WatchdogDeauth
    BY <2>3 DEF WatchdogDeauth, Kept
  <2>4. CASE WatchdogThrottle
    BY <2>4 DEF WatchdogThrottle, Kept, Node
  <2>5. CASE WatchdogUnlock
    BY <2>5 DEF WatchdogUnlock, Kept
  <2>6. CASE WatchdogSleep
    BY <2>6 DEF WatchdogSleep, Kept
  <2> QED BY <1>7, <2>1, <2>2, <2>3, <2>4, <2>5, <2>6 DEF WatchdogStep
<1>8. CASE WatchdogPreempt
  <2> PICK host \in Host, length \in {GlobalSession, "listed"} :
         IF FindMac(host.mac) # {}
         THEN AuthFound("watchdog", First(FindMac(host.mac)), length)
         ELSE AuthNew("watchdog", host, length)
    BY <1>8 DEF WatchdogPreempt
  <2>1. FindMac(host.mac) # {} => First(FindMac(host.mac)) \in clientList
    BY <1>1, FirstIn DEF TypeOK, FindMac
  <2> QED BY <1>1, <2>1, FoundQuiet, NewJoins DEF GlobalSession, Session,
             ListStep
<1>9. ASSUME NEW i \in Id, SessionElapses(i)
      PROVE  ListStep
  BY <1>9, <1>a DEF SessionElapses, ListStep, Quiet, HttpCurKept, Kept, Node
<1>10. CASE UNCHANGED vars
  BY <1>10 DEF vars, ListStep, Quiet, HttpCurKept, Kept
<1> QED BY <1>2, <1>3, <1>4, <1>5, <1>6, <1>7, <1>8, <1>9, <1>10 DEF Next,
           ListStep

-----------------------------------------------------------------------------
(* The list, the heap and the reference counts                             *)

\* The requests that point to a node.
Users(i) == {h \in Http : cur[h] = i}

\* There are finitely many of them.
LEMMA UsersFinite ==
  ASSUME NEW i
  PROVE  IsFiniteSet(Users(i)) /\ Cardinality(Users(i)) \in Nat
BY ConstantsAssumption, FS_Subset, FS_CardinalityType DEF Users

\* refcount is 0 for a node no request uses, and 1 for one with a single user.
LEMMA RefcountUsers ==
  ASSUME NodesAccountedFor, NEW i \in Id
  PROVE  /\ node[i].refcount = 0 <=> \A h \in Http : cur[h] # i
         /\ \A h \in Http : cur[h] = i /\ node[i].refcount = 1 =>
              \A g \in Http : cur[g] = i => g = h
<1>1. node[i].refcount = Cardinality(Users(i))
  BY DEF NodesAccountedFor, Users
<1>2. node[i].refcount = 0 <=> Users(i) = {}
  BY <1>1, UsersFinite, FS_EmptySet
<1>3. ASSUME NEW h \in Http, cur[h] = i, node[i].refcount = 1,
             NEW g \in Http, cur[g] = i
      PROVE  g = h
  <2>1. PICK x : Users(i) = {x}
    BY <1>1, <1>3, UsersFinite, FS_Singleton
  <2> QED BY <1>3, <2>1 DEF Users
<1> QED BY <1>2, <1>3 DEF Users

\* No step frees a node that a request points to: client_list_delete frees only
\* with refcount 0, and client_list_unpin only for the last user.
LEMMA HeldStep ==
  ASSUME IInv, [Next]_vars
  PROVE  HeldInv'
<1>1. TypeOK /\ HeldInv /\ NodesAccountedFor /\ PinInv
  BY DEF IInv
<1>0. Http \subseteq Thread /\ cur \in [Thread -> Id \cup {0}] /\ heap \subseteq Id
  BY <1>1 DEF Thread, TypeOK
<1>2. CASE Quiet
  BY <1>1, <1>2 DEF Quiet, HttpCurKept, HeldInv, listVars
<1>3. CASE PinStep
  BY <1>0, <1>1, <1>3 DEF PinStep, HeldInv, listVars, NodesAccountedFor
<1>4. CASE JoinStep
  BY <1>0, <1>1, <1>4 DEF JoinStep, Append, HttpCurKept, HeldInv
<1>5. CASE LeaveStep
  <2> PICK i \in clientList : ClientListDelete(i) /\ HttpCurKept
    BY <1>5 DEF LeaveStep
  <2>1. i \in Id
    BY <1>1 DEF TypeOK
  <2>2. node[i].refcount \in Nat
    BY <1>1, <2>1 DEF TypeOK, Node
  <2>3. CASE node[i].refcount > 0
    BY <1>1, <2>3 DEF ClientListDelete, HttpCurKept, HeldInv
  <2>4. CASE node[i].refcount = 0
    BY <1>1, <2>1, <2>4, RefcountUsers DEF ClientListDelete, Free, HttpCurKept,
       HeldInv
  <2> QED BY <2>2, <2>3, <2>4
<1>6. ASSUME NEW h \in Http, HttpUnpin(h)
      PROVE  HeldInv'
  <2> DEFINE i == cur[h]
             left == IF node[i].refcount > 0 THEN node[i].refcount - 1 ELSE 0
  <2>1. i \in Id
    BY <1>0, <1>1, <1>6 DEF HttpUnpin, PinInv
  <2>2. node[i].refcount \in Nat /\ node[i].refcount # 0
    BY <1>1, <2>1, RefcountUsers DEF TypeOK, Node
  <2>3. cur' = [cur EXCEPT ![h] = 0]
    BY <1>6 DEF HttpUnpin
  <2>4. CASE LastUser(i, left)
    <3>1. node[i].refcount = 1
      BY <2>2, <2>4 DEF LastUser
    <3>2. \A g \in Http : g # h => cur[g] # i
      BY <1>1, <2>1, <3>1, RefcountUsers
    <3>3. heap' = heap \ {i}
      BY <1>6, <2>4 DEF HttpUnpin, Free
    <3> QED BY <1>0, <1>1, <2>3, <3>2, <3>3 DEF HeldInv
  <2>5. CASE ~LastUser(i, left)
    <3>1. heap' = heap
      BY <1>6, <2>5 DEF HttpUnpin
    <3> QED BY <1>0, <1>1, <2>3, <3>1 DEF HeldInv
  <2> QED BY <2>4, <2>5
<1> QED BY <1>2, <1>3, <1>4, <1>5, <1>6, ListSteps DEF ListStep

\* The users of a node after a step that changes what one thread points to.
LEMMA UsersMove ==
  ASSUME TypeOK, NEW h \in Http, NEW k \in Id \cup {0}, k # cur[h],
         cur' = [cur EXCEPT ![h] = k], NEW i
  PROVE  Cardinality(Users(i)') =
           IF i = k THEN Cardinality(Users(i)) + 1
           ELSE IF i = cur[h] THEN Cardinality(Users(i)) - 1
           ELSE Cardinality(Users(i))
<1>1. cur \in [Thread -> Id \cup {0}] /\ Http \subseteq Thread
  BY DEF TypeOK, Thread
<1>2. CASE i = k
  <2>1. Users(i)' = Users(i) \cup {h} /\ h \notin Users(i)
    BY <1>1, <1>2 DEF Users
  <2> QED BY <1>2, <2>1, UsersFinite, FS_AddElement
<1>3. CASE i = cur[h]
  <2>1. Users(i)' = Users(i) \ {h} /\ h \in Users(i)
    BY <1>1, <1>3 DEF Users
  <2> QED BY <1>3, <2>1, UsersFinite, FS_RemoveElement
<1>4. CASE i # k /\ i # cur[h]
  <2>1. Users(i)' = Users(i)
    BY <1>1, <1>4 DEF Users
  <2> QED BY <1>4, <2>1
<1> QED BY <1>2, <1>3, <1>4

\* Every step keeps the ids growing and the entries with a host.
LEMMA ListInvStep ==
  ASSUME IInv, [Next]_vars
  PROVE  ListInv'
<1>1. TypeOK /\ ListInv /\ NodesAccountedFor /\ PinInv
  BY DEF IInv
<1>0. /\ clientList \subseteq Id /\ heap \subseteq Id /\ Id \subseteq Nat
      /\ clientId \in Nat /\ node \in [Id -> Node]
      /\ clientList \subseteq heap
  BY <1>1, ConstantsAssumption DEF TypeOK, Id, NodesAccountedFor
<1>2. CASE Quiet
  BY <1>0, <1>1, <1>2 DEF Quiet, Kept, ListInv, listVars
<1>3. CASE PinStep
  BY <1>0, <1>1, <1>3 DEF PinStep, Pin, ListInv, listVars, Node
<1>4. CASE JoinStep
  <2> PICK host \in Host, n \in Node :
         Append /\ node' = [node EXCEPT ![clientId] = n] /\ n.host = host
    BY <1>4 DEF JoinStep
  <2>1. clientId \in Id
    BY <1>1, AppendType
  <2> QED BY <1>0, <1>1, <2>1 DEF Append, ListInv
<1>5. CASE LeaveStep
  BY <1>0, <1>1, <1>5 DEF LeaveStep, ClientListDelete, Free, ListInv, Node
<1>6. ASSUME NEW h \in Http, HttpUnpin(h)
      PROVE  ListInv'
  BY <1>0, <1>1, <1>6 DEF HttpUnpin, Free, LastUser, ListInv,
     NodesAccountedFor, Node
<1> QED BY <1>2, <1>3, <1>4, <1>5, <1>6, ListSteps DEF ListStep

\* client_list_delete keeps client_count the length of the list.
LEMMA DeleteCount ==
  ASSUME TypeOK, NodesAccountedFor, NEW i \in clientList, ClientListDelete(i)
  PROVE  clientCount' = Cardinality(clientList')
BY ListFinite, FS_RemoveElement DEF ClientListDelete, NodesAccountedFor

\* The parts of NodesAccountedFor.
HeapInv == heap = clientList \cup {i \in Id : node[i].dead}

\* A node marked dead is off the list and in use.
DeadInv == \A i \in Id :
  node[i].dead => i \notin clientList /\ node[i].refcount > 0

\* refcount is the number of users.
RefInv == \A i \in Id : node[i].refcount = Cardinality(Users(i))

\* client_count is the length of the list.
CountInv == clientCount = Cardinality(clientList)

\* NodesAccountedFor is made of these parts.
LEMMA AccountParts ==
  /\ NodesAccountedFor <=> HeapInv /\ DeadInv /\ RefInv /\ CountInv
  /\ NodesAccountedFor' <=> HeapInv' /\ DeadInv' /\ RefInv' /\ CountInv'
BY DEF NodesAccountedFor, HeapInv, DeadInv, RefInv, CountInv, Users

\* Every step keeps the nodes accounted for, by the effect it has on the list.
LEMMA AccountStep ==
  ASSUME IInv, [Next]_vars
  PROVE  NodesAccountedFor'
<1>1. TypeOK /\ HeldInv /\ ListInv /\ NodesAccountedFor /\ PinInv
  BY DEF IInv
<1>2. HeapInv /\ DeadInv /\ RefInv /\ CountInv
  BY <1>1, AccountParts
<1>0. /\ clientList \subseteq Id /\ heap \subseteq Id /\ Id \subseteq Nat
      /\ clientId \in Nat /\ node \in [Id -> Node]
      /\ cur \in [Thread -> Id \cup {0}] /\ Http \subseteq Thread
      /\ \A i \in Id : node[i].refcount \in Nat /\ node[i].dead \in BOOLEAN
      /\ 0 \notin Id
  BY <1>1, ConstantsAssumption DEF TypeOK, Id, Node, Thread
<1>3. CASE Quiet
  <2>1. \A i \in Id : Users(i)' = Users(i)
    BY <1>3 DEF Quiet, HttpCurKept, Users
  <2>2. HeapInv' /\ DeadInv' /\ RefInv' /\ CountInv'
    BY <1>2, <1>3, <2>1 DEF Quiet, Kept, HeapInv, DeadInv, RefInv, CountInv,
       listVars
  <2> QED BY <2>2, AccountParts
<1>4. CASE PinStep
  <2> PICK h \in Http, i \in clientList :
         /\ UNCHANGED listVars
         /\ Pin(i)
         /\ cur[h] = 0
         /\ cur' = [cur EXCEPT ![h] = i]
    BY <1>4 DEF PinStep
  <2>1. i \in Id /\ i # 0
    BY <1>0
  <2>2. \A j \in Id :
          /\ node'[j].dead = node[j].dead
          /\ node'[j].refcount =
               IF j = i THEN node[j].refcount + 1 ELSE node[j].refcount
    BY <1>0, <2>1 DEF Pin, Node
  <2>3. \A j \in Id : Cardinality(Users(j)') =
          IF j = i THEN Cardinality(Users(j)) + 1 ELSE Cardinality(Users(j))
    <3> TAKE j \in Id
    <3>1. j # cur[h]
      BY <1>0
    <3>2. h \in Http /\ i \in Id \cup {0} /\ i # cur[h]
      BY <2>1
    <3>3. cur' = [cur EXCEPT ![h] = i]
      OBVIOUS
    <3> QED BY ONLY <1>1, <3>1, <3>2, <3>3, UsersMove
  <2>4. HeapInv' /\ DeadInv' /\ CountInv'
    BY <1>0, <1>2, <2>1, <2>2 DEF HeapInv, DeadInv, CountInv, listVars
  <2>5. RefInv'
    BY <1>2, <2>2, <2>3 DEF RefInv
  <2> QED BY <2>4, <2>5, AccountParts
<1>5. CASE JoinStep
  <2> PICK n \in Node :
         /\ Append
         /\ node' = [node EXCEPT ![clientId] = n]
         /\ n.dead = FALSE
         /\ \/ n.refcount = 0 /\ HttpCurKept
            \/ /\ n.refcount = 1
               /\ \E h \in Http : cur[h] = 0 /\ cur' = [cur EXCEPT ![h] = clientId]
    BY <1>5 DEF JoinStep
  <2>1. clientId \in Id /\ clientId \notin heap /\ clientId \notin clientList
    <3>1. clientId \in Id
      BY <1>1, AppendType
    <3>2. clientId \notin heap
      BY <1>0, <1>1 DEF ListInv
    <3> QED BY <1>2, <3>1, <3>2 DEF HeapInv
  <2>2. Users(clientId) = {}
    BY <1>0, <1>1, <2>1 DEF HeldInv, Users
  <2>3. Cardinality(Users(clientId)) = 0
    BY <2>2, FS_EmptySet
  <2>4. HeapInv' /\ DeadInv'
    BY <1>0, <1>2, <2>1 DEF HeapInv, DeadInv, Append
  <2>5. CountInv'
    BY <1>1, <1>2, <2>1, ListFinite, FS_AddElement DEF CountInv, Append
  <2>6. CASE n.refcount = 0 /\ HttpCurKept
    <3>1. \A i : Users(i)' = Users(i)
      BY <2>6 DEF HttpCurKept, Users
    <3>2. RefInv'
      BY <1>0, <1>2, <2>1, <2>3, <2>6, <3>1 DEF RefInv
    <3> QED BY <2>4, <2>5, <3>2, AccountParts
  <2>7. CASE /\ n.refcount = 1
             /\ \E h \in Http : cur[h] = 0 /\ cur' = [cur EXCEPT ![h] = clientId]
    <3>1. \A j \in Id : Cardinality(Users(j)') =
            IF j = clientId THEN 1 ELSE Cardinality(Users(j))
      <4> TAKE j \in Id
      <4> PICK h \in Http : cur[h] = 0 /\ cur' = [cur EXCEPT ![h] = clientId]
        BY <2>7
      <4>1. j # cur[h] /\ clientId # cur[h]
        BY <1>0, <2>1
      <4>2. Cardinality(Users(j)') =
              IF j = clientId THEN Cardinality(Users(j)) + 1
              ELSE Cardinality(Users(j))
        <5>1. clientId \in Id \cup {0} /\ cur' = [cur EXCEPT ![h] = clientId]
          BY <2>1
        <5> QED BY ONLY <1>1, <4>1, <5>1, UsersMove
      <4> QED BY <2>3, <4>2
    <3>2. RefInv'
      BY <1>0, <1>2, <2>1, <2>7, <3>1 DEF RefInv
    <3> QED BY <2>4, <2>5, <3>2, AccountParts
  <2> QED BY <2>6, <2>7
<1>6. CASE LeaveStep
  <2> PICK i \in clientList : ClientListDelete(i) /\ HttpCurKept
    BY <1>6 DEF LeaveStep
  <2>1. CountInv'
    BY <1>1, DeleteCount DEF CountInv
  <2>2. \A j : Users(j)' = Users(j)
    BY DEF HttpCurKept, Users
  <2>3. ~node[i].dead
    BY <1>0, <1>2 DEF DeadInv
  <2>4. CASE node[i].refcount > 0
    <3>1. \A j \in Id :
            /\ node'[j].refcount = node[j].refcount
            /\ node'[j].dead = IF j = i THEN TRUE ELSE node[j].dead
      <4>1. node' = [node EXCEPT ![i].dead = TRUE]
        BY <2>4 DEF ClientListDelete
      <4> QED BY <1>0, <4>1 DEF Node
    <3>2. HeapInv' /\ DeadInv'
      BY <1>0, <1>2, <2>4, <3>1 DEF HeapInv, DeadInv, ClientListDelete
    <3>3. RefInv'
      BY <1>2, <2>2, <3>1 DEF RefInv
    <3> QED BY <2>1, <3>2, <3>3, AccountParts
  <2>5. CASE ~ (node[i].refcount > 0)
    <3>1. node[i].refcount = 0
      BY <1>0, <2>5
    <3>2. \A j \in Id :
            /\ node'[j].refcount = node[j].refcount
            /\ node'[j].dead = node[j].dead
      <4>1. node' = [node EXCEPT ![i] = FreeNode]
        BY <2>5 DEF ClientListDelete, Free
      <4>2. node[i].dead = FALSE
        BY <1>0, <2>3
      <4> QED BY <1>0, <3>1, <4>1, <4>2 DEF FreeNode
    <3>3. HeapInv' /\ DeadInv'
      BY <1>0, <1>2, <2>3, <2>5, <3>2 DEF HeapInv, DeadInv, ClientListDelete,
         Free
    <3>4. RefInv'
      BY <1>2, <2>2, <3>2 DEF RefInv
    <3> QED BY <2>1, <3>3, <3>4, AccountParts
  <2> QED BY <2>4, <2>5
<1>7. ASSUME NEW h \in Http, HttpUnpin(h)
      PROVE  NodesAccountedFor'
  <2> DEFINE i == cur[h]
             left == IF node[i].refcount > 0 THEN node[i].refcount - 1 ELSE 0
  <2>1. i \in Id /\ i # 0
    BY <1>0, <1>1, <1>7 DEF HttpUnpin, PinInv
  <2>2. node[i].refcount \in Nat /\ node[i].refcount # 0
    BY <1>0, <1>1, <2>1, RefcountUsers
  <2>3. cur' = [cur EXCEPT ![h] = 0] /\ clientList' = clientList
        /\ clientCount' = clientCount
    BY <1>7 DEF HttpUnpin
  <2>4. \A j \in Id : Cardinality(Users(j)') =
          IF j = i THEN Cardinality(Users(j)) - 1 ELSE Cardinality(Users(j))
    BY <1>0, <1>1, <2>1, <2>3, UsersMove
  <2>5. CountInv'
    BY <1>2, <2>3 DEF CountInv
  <2>6. CASE LastUser(i, left)
    <3>1. node[i].refcount = 1 /\ node[i].dead
      BY <2>2, <2>6 DEF LastUser
    <3>2. Free(i)
      BY <1>7, <2>6 DEF HttpUnpin
    <3>3. i \notin clientList
      BY <1>2, <2>1, <3>1 DEF DeadInv
    <3>4. \A j \in Id :
            /\ node'[j].dead = IF j = i THEN FALSE ELSE node[j].dead
            /\ node'[j].refcount = IF j = i THEN 0 ELSE node[j].refcount
      BY <1>0, <2>1, <3>2 DEF Free, FreeNode
    <3>5. HeapInv' /\ DeadInv'
      <4>1. heap' = heap \ {i}
        BY <3>2 DEF Free
      <4>2. HeapInv'
        BY <1>0, <1>2, <2>1, <2>3, <3>3, <3>4, <4>1 DEF HeapInv
      <4>3. DeadInv'
        BY <1>0, <1>2, <2>1, <2>3, <3>4 DEF DeadInv
      <4> QED BY <4>2, <4>3
    <3>6. RefInv'
      <4>1. \A j \in Id : node[j].refcount = Cardinality(Users(j))
        BY <1>2 DEF RefInv
      <4>2. \A j \in Id : j = i => Cardinality(Users(j)') = 0
        BY <2>4, <3>1, <4>1
      <4>3. \A j \in Id : node'[j].refcount = Cardinality(Users(j)')
        BY <2>4, <3>4, <4>1, <4>2
      <4> QED BY <4>3 DEF RefInv
    <3> QED BY <2>5, <3>5, <3>6, AccountParts
  <2>7. CASE ~LastUser(i, left)
    <3>1. node' = [node EXCEPT ![i].refcount = left] /\ heap' = heap
      BY <1>7, <2>7 DEF HttpUnpin
    <3>2. \A j \in Id :
            /\ node'[j].dead = node[j].dead
            /\ node'[j].refcount =
                 IF j = i THEN node[j].refcount - 1 ELSE node[j].refcount
      BY <1>0, <2>1, <2>2, <3>1 DEF Node
    <3>3. HeapInv' /\ DeadInv'
      BY <1>0, <1>2, <2>1, <2>2, <2>3, <2>7, <3>1, <3>2 DEF HeapInv, DeadInv,
         LastUser
    <3>4. RefInv'
      BY <1>2, <2>4, <3>2 DEF RefInv
    <3> QED BY <2>5, <3>3, <3>4, AccountParts
  <2> QED BY <2>6, <2>7
<1> QED BY <1>3, <1>4, <1>5, <1>6, <1>7, ListSteps DEF ListStep

-----------------------------------------------------------------------------
(* What a thread works on under the lock                                   *)

\* Only the holder of the lock is at a critical label.
LEMMA Alone ==
  ASSUME LockInv
  PROVE  /\ LockFree => \A t \in Thread : pc[t] \notin Critical
         /\ \A t, u \in Thread : pc[t] \in Critical /\ pc[u] \in Critical => t = u
BY ConstantsAssumption DEF LockInv, LockFree, Thread

\* A step of the lock holder, or one that needs the lock free, can disturb only
\* the work of the thread that takes it.
LEMMA WorkAlone ==
  ASSUME TypeOK, LockInv, NEW t \in Thread, NEW l,
         LockFree \/ pc[t] \in Critical,
         pc' = [pc EXCEPT ![t] = l],
         Works(t)'
  PROVE  WorkInv'
<1>1. \A u \in Thread : u # t => pc[u] \notin Critical /\ pc'[u] = pc[u]
  BY Alone DEF TypeOK
<1>2. \A u \in Thread : u # t => Works(u)'
  BY <1>1 DEF Works, Critical
<1> QED BY <1>2 DEF WorkInv

\* A step beside the lock holder leaves it its work.
LEMMA WorkBeside ==
  ASSUME TypeOK, WorkInv, clientList' = clientList, rules' = rules,
         \A i \in clientList : node'[i].host = node[i].host
                               /\ node'[i].state = node[i].state,
         \A t \in Thread : pc'[t] \in Critical => pc'[t] = pc[t] /\ cur'[t] = cur[t]
  PROVE  WorkInv'
<1> SUFFICES ASSUME NEW t \in Thread PROVE Works(t)'
  BY DEF WorkInv
<1>1. Works(t)
  BY DEF WorkInv
<1>2. CASE pc'[t] \in Critical
  BY <1>1, <1>2 DEF Works, CanAuth, CanDeauth, Critical
<1>3. CASE pc'[t] \notin Critical
  BY <1>3 DEF Works, Critical
<1> QED BY <1>2, <1>3

\* A client that is found and preauthenticated is one to work on.
LEMMA FoundWork ==
  ASSUME TypeOK, LockInv, NEW t \in Thread, NEW i \in clientList,
         NEW length, AuthFound(t, i, length)
  PROVE  WorkInv'
<1>1. LockFree /\ pc' = [pc EXCEPT ![t] = "auth"] /\ node[i].state = "Preauthenticated"
      /\ cur' = [cur EXCEPT ![t] = i] /\ node' = [node EXCEPT ![i] = Grant(@, length)]
      /\ clientList' = clientList
  BY DEF AuthFound, Acquire, Goto, listVars
<1>2. CanAuth(i)'
  <2>1. node[i] \in Node /\ i \in Id
    BY DEF TypeOK
  <2>2. Grant(node[i], length).state = node[i].state
    BY <2>1 DEF Grant, Node
  <2> QED BY <1>1, <2>1, <2>2 DEF TypeOK, CanAuth
<1>3. pc'[t] = "auth" /\ cur'[t] = i
  BY <1>1 DEF TypeOK
<1>4. Works(t)'
  BY <1>2, <1>3 DEF Works, CanAuth
<1> QED BY <1>1, <1>4, WorkAlone

\* So is a host that has just joined the list.
LEMMA NewWork ==
  ASSUME TypeOK, LockInv, NEW t \in {"ndsctl", "watchdog"}, NEW host \in Host,
         NEW length \in Session, AuthNew(t, host, length),
         pc[t] \in {"idle", "preempt"}
  PROVE  WorkInv'
<1>0. t \in Thread /\ LockFree
  BY DEF Thread, AuthNew
<1>1. CASE host.mac \in trusted
  <2>1. pc' = pc
    BY <1>1 DEF AuthNew
  <2>2. \A u \in Thread : pc'[u] \notin Critical
    BY <1>0, <2>1, Alone
  <2> QED BY <2>2 DEF WorkInv, Works, Critical
<1>2. CASE host.mac \notin trusted
  <2> DEFINE n == NewNode(host, 0)
  <2>1. n \in Node /\ n.state = "Preauthenticated"
    BY <1>2, NewNodeType DEF NewNode, FreeNode
  <2>2. Grant(n, length) \in Node /\ Grant(n, length).state = "Preauthenticated"
    BY <2>1, GrantType DEF Grant, Node
  <2>3. /\ Append /\ node' = [node EXCEPT ![clientId] = Grant(n, length)]
        /\ cur' = [cur EXCEPT ![t] = clientId] /\ pc' = [pc EXCEPT ![t] = "auth"]
    BY <1>2 DEF AuthNew, Goto
  <2> HIDE DEF n
  <2>4. clientId \in Id /\ clientId \in clientList'
        /\ node'[clientId].state = "Preauthenticated"
    BY <2>2, <2>3, AppendType DEF Append, TypeOK
  <2>5. pc'[t] = "auth" /\ cur'[t] = clientId
    BY <1>0, <2>3 DEF TypeOK
  <2>6. Works(t)'
    BY <2>4, <2>5 DEF Works, CanAuth
  <2> QED BY <1>0, <2>3, <2>6, WorkAlone
<1> QED BY <1>1, <1>2

\* No step takes the client away from under a thread that waits for BinAuth or
\* for nft with the list locked.
LEMMA WorkStep ==
  ASSUME IInv, [Next]_vars
  PROVE  WorkInv'
<1> USE DEF listVars, trustVars
<1>1. TypeOK /\ LockInv /\ WorkInv /\ PinInv
  BY DEF IInv
<1>a. /\ node \in [Id -> Node] /\ pc \in [Thread -> Label]
      /\ cur \in [Thread -> Id \cup {0}] /\ clientList \subseteq Id
  BY <1>1 DEF TypeOK
<1>2. ASSUME NEW t \in Thread, Authenticating(t)
      PROVE  WorkInv'
  <2>1. CASE AuthStart(t)
    <3>1. cur[t] \in clientList /\ node[cur[t]].state = "Preauthenticated"
          /\ cur' = cur /\ clientList' = clientList
          /\ node' = [node EXCEPT ![cur[t]].explicit = FALSE]
          /\ pc' = [pc EXCEPT ![t] = "binauth_action"] /\ pc[t] \in Critical
      BY <2>1 DEF AuthStart, CanAuth, TakeExplicit, Goto, Critical
    <3>2. Works(t)'
      BY <1>a, <3>1 DEF Works, CanAuth, Node
    <3> QED BY <1>1, <3>1, <3>2, WorkAlone
  <2>2. ASSUME NEW l \in {"post", "idle", "preempt"},
         pc' = [pc EXCEPT ![t] = l],
               pc[t] \in Critical
        PROVE  WorkInv'
    <3>1. Works(t)'
      BY <1>a, <2>2 DEF Works
    <3> QED BY <1>1, <2>2, <3>1, WorkAlone
  <2>3. CASE AuthNoClient(t) \/ AuthRefused(t) \/ AuthCountersFail(t) \/ AuthComplete(t)
    <3>1. pc[t] \in Critical /\ pc' = [pc EXCEPT ![t] = AfterAuth(t)]
      BY <2>3 DEF AuthNoClient, AuthRefused, AuthCountersFail, AuthComplete,
         AuthEnd, Leave, Goto, Critical
    <3>2. AfterAuth(t) \in {"post", "idle", "preempt"}
      BY DEF AfterAuth, Thread
    <3> QED BY <2>2, <3>1, <3>2
  <2>4. CASE AuthAccept(t)
    <3>1. CanAuth(cur[t])
      BY <1>1, <2>4 DEF AuthAccept, WorkInv, Works
    <3>2. /\ cur' = cur /\ clientList' = clientList
          /\ pc' = [pc EXCEPT ![t] = "counters"] /\ pc[t] \in Critical
      BY <2>4 DEF AuthAccept, Goto, Critical
    <3>3. node'[cur[t]].state = node[cur[t]].state
      BY <1>a, <2>4, <3>1 DEF AuthAccept, CanAuth, Node
    <3>4. Works(t)'
      BY <1>a, <3>1, <3>2, <3>3 DEF Works, CanAuth
    <3> QED BY <1>1, <3>2, <3>4, WorkAlone
  <2> QED BY <1>2, <2>1, <2>3, <2>4 DEF Authenticating
<1>3. ASSUME NEW t \in Thread, Deauthenticating(t)
      PROVE  WorkInv'
  <2>1. CASE DeauthStart(t)
    <3>1. CanDeauth(cur[t]) /\ LockFree
          /\ cur' = cur /\ clientList' = clientList /\ node' = node
          /\ rules' = {r \in rules : r.ip # node[cur[t]].host.ip}
          /\ pc' = [pc EXCEPT ![t] = "deauth_script"]
      BY <2>1 DEF DeauthStart, Acquire, FwDeauthenticate, Goto
    <3>2. Works(t)'
      BY <1>a, <3>1 DEF Works, CanDeauth
    <3> QED BY <1>1, <3>1, <3>2, WorkAlone
  <2>2. CASE DeauthNoClient(t)
    <3>1. LockFree /\ pc' = [pc EXCEPT ![t] = AfterDeauth(t)]
      BY <2>2 DEF DeauthNoClient, Leave, Goto
    <3>2. AfterDeauth(t) \in {"unpin", "idle"}
      BY DEF AfterDeauth
    <3>3. Works(t)'
      BY <1>a, <3>1, <3>2 DEF Works
    <3> QED BY <1>1, <3>1, <3>3, WorkAlone
  <2>3. CASE DeauthEnd(t)
    <3>1. pc[t] \in Critical /\ \E l \in {"unpin", "idle", "walk"} : pc' = [pc EXCEPT ![t] = l]
      BY <2>3 DEF DeauthEnd, Leave, AfterDeauth, Goto, Critical
    <3>2. Works(t)'
      BY <1>a, <3>1 DEF Works
    <3> QED BY <1>1, <3>1, <3>2, WorkAlone
  <2> QED BY <1>3, <2>1, <2>2, <2>3 DEF Deauthenticating
<1>4. ASSUME NEW h \in Http, HttpRequest(h) \/ HttpStep(h)
      PROVE  WorkInv'
  <2>0. h \in Thread
    BY DEF Thread
  <2>1. ASSUME LockFree, NEW l \in {"check", "add", "idle", "auth"},
         pc' = [pc EXCEPT ![h] = l]
        PROVE  WorkInv'
    <3>1. Works(h)'
      BY <1>a, <2>0, <2>1 DEF Works
    <3> QED BY <1>1, <2>0, <2>1, <3>1, WorkAlone
  <2>2. ASSUME NEW l \in Label \ Critical, pc' = [pc EXCEPT ![h] = l],
               cur' = cur, clientList' = clientList, rules' = rules,
               \A i \in clientList : node'[i].host = node[i].host
                                     /\ node'[i].state = node[i].state
        PROVE  WorkInv'
    <3>1. \A t \in Thread : pc'[t] \in Critical => pc'[t] = pc[t] /\ cur'[t] = cur[t]
      BY <1>a, <2>0, <2>2
    <3> QED BY <1>1, <2>2, <3>1, WorkBeside
  <2>3. ASSUME NEW host \in Host, HttpFind(h, host)
        PROVE  WorkInv'
    BY <2>1, <2>3 DEF HttpFind, Goto
  <2>4. CASE HttpNotAllocated(h)
    BY <2>2, <2>4 DEF HttpNotAllocated, Goto, Label, Critical
  <2>5. CASE HttpAdd(h)
    BY <2>1, <2>5 DEF HttpAdd, Goto
  <2>6. CASE HttpDispatch(h)
    BY <2>2, <2>6 DEF HttpDispatch, Goto, Label, Critical
  <2>7. CASE HttpServe(h)
    BY <2>2, <2>7 DEF HttpServe, Goto, Label, Critical
  <2>8. CASE HttpDeny(h)
    BY <2>2, <2>8 DEF HttpDeny, Goto, Label, Critical
  <2>9. CASE HttpAuthenticate(h)
    <3>1. \A i \in clientList : node'[i].host = node[i].host
                                /\ node'[i].state = node[i].state
      BY <1>a, <2>9 DEF HttpAuthenticate, Node
    <3> QED BY <2>2, <2>9, <3>1 DEF HttpAuthenticate, Goto, Label, Critical
  <2>10. CASE HttpBinAuthRefused(h)
    BY <2>2, <2>10 DEF HttpBinAuthRefused, Goto, Label, Critical
  <2>11. CASE HttpBinAuthAccepted(h)
    BY <2>2, <2>11 DEF HttpBinAuthAccepted, Goto, Label, Critical
  <2>12. CASE HttpLock(h)
    BY <2>1, <2>12 DEF HttpLock, Acquire, Goto
  <2>13. CASE HttpAfterAuth(h)
    <3>1. \A i \in clientList : node'[i].host = node[i].host
                                /\ node'[i].state = node[i].state
      BY <1>a, <2>13 DEF HttpAfterAuth, Node
    <3> QED BY <2>2, <2>13, <3>1 DEF HttpAfterAuth, Goto, Label, Critical
  <2>14. CASE HttpUnpin(h)
    BY <2>1, <2>14 DEF HttpUnpin, Goto
  <2> QED BY <1>4, <2>3, <2>4, <2>5, <2>6, <2>7, <2>8, <2>9, <2>10, <2>11,
             <2>12,
             <2>13, <2>14 DEF HttpRequest, HttpStep
<1>5. CASE NdsctlCommand
  <2>1. CASE NdsctlAuth
    BY <1>1, <2>1, FoundWork, NewWork DEF NdsctlAuth, GlobalSession, Session,
       Thread
  <2>2. CASE NdsctlDeauth
    <3>1. Works("ndsctl")' /\ LockFree /\ pc' = [pc EXCEPT !["ndsctl"] = "deauth"]
      BY <1>a, <2>2 DEF NdsctlDeauth, Goto, Works, Thread
    <3> QED BY <1>1, <3>1, WorkAlone DEF Thread
  <2>3. CASE NdsctlTrust \/ NdsctlUntrust
    BY <1>1, <2>3, WorkBeside DEF NdsctlTrust, NdsctlUntrust
  <2> QED BY <1>5, <2>1, <2>2, <2>3 DEF NdsctlCommand
<1>6. ASSUME NEW l \in Label \ {"auth", "binauth_action", "counters", "deauth_script"},
             LockFree \/ pc["watchdog"] \in Critical,
                    pc' = [pc EXCEPT !["watchdog"] = l]
      PROVE  WorkInv'
  <2>1. Works("watchdog")'
    BY <1>a, <1>6 DEF Works, Thread
  <2> QED BY <1>1, <1>6, <2>1, WorkAlone DEF Thread
<1>7. CASE WatchdogStart
  BY <1>6, <1>7 DEF WatchdogStart, Acquire, Goto, Label
<1>8. CASE WatchdogStep
  <2>1. ASSUME pc["watchdog"] = "walk", pc' = pc
        PROVE  WorkInv'
    <3>1. pc' = [pc EXCEPT !["watchdog"] = "walk"]
      BY <1>a, <2>1 DEF Thread
    <3> QED BY <1>6, <2>1, <3>1 DEF Label, Critical
  <2>2. CASE WatchdogPass \/ WatchdogPreauthIdle \/ WatchdogThrottle
    BY <2>1, <2>2 DEF WatchdogPass, WatchdogPreauthIdle, WatchdogThrottle, Visit
  <2>3. CASE WatchdogDeauth
    <3> PICK i \in clientList :
           /\ Visit(i)
           /\ node[i].state = "Authenticated"
           /\ FwDeauthenticate(i)
           /\ cur' = [cur EXCEPT !["watchdog"] = i]
      BY <2>3 DEF WatchdogDeauth
    <3>1. pc["watchdog"] \in Critical /\ pc' = [pc EXCEPT !["watchdog"] = "deauth_script"]
          /\ clientList' = clientList /\ node' = node
      BY <2>3 DEF WatchdogDeauth, Visit, Goto, Critical
    <3>2. pc'["watchdog"] = "deauth_script" /\ cur'["watchdog"] = i
      BY <1>a, <3>1 DEF Thread
    <3>3. Works("watchdog")'
      BY <3>1, <3>2 DEF Works, CanDeauth, FwDeauthenticate
    <3> QED BY <1>1, <3>1, <3>3, WorkAlone DEF Thread
  <2>4. CASE WatchdogUnlock
    BY <1>6, <2>4 DEF WatchdogUnlock, Goto, Label, Critical
  <2>5. CASE WatchdogSleep
    <3>1. \A t \in Thread : pc'[t] \in Critical => pc'[t] = pc[t] /\ cur'[t] = cur[t]
      BY <1>a, <2>5 DEF WatchdogSleep, Goto, Thread, Critical
    <3> QED BY <1>1, <2>5, <3>1, WorkBeside DEF WatchdogSleep
  <2> QED BY <1>8, <2>2, <2>3, <2>4, <2>5 DEF WatchdogStep
<1>9. CASE WatchdogPreempt
  <2> PICK host \in Host, length \in {GlobalSession, "listed"} :
         IF FindMac(host.mac) # {}
         THEN AuthFound("watchdog", First(FindMac(host.mac)), length)
         ELSE AuthNew("watchdog", host, length)
    BY <1>9 DEF WatchdogPreempt
  <2>1. FindMac(host.mac) # {} => First(FindMac(host.mac)) \in clientList
    BY <1>1, FirstIn DEF TypeOK, FindMac
  <2> QED BY <1>1, <1>9, <2>1, FoundWork, NewWork DEF WatchdogPreempt,
             GlobalSession, Session, Thread
<1>10. ASSUME NEW i \in Id, SessionElapses(i)
      PROVE  WorkInv'
  <2>1. \A j \in clientList : node'[j].host = node[j].host
                              /\ node'[j].state = node[j].state
    BY <1>a, <1>10 DEF SessionElapses, Node
  <2> QED BY <1>1, <1>10, <2>1, WorkBeside DEF SessionElapses
<1>11. CASE UNCHANGED vars
  BY <1>1, <1>11, WorkBeside DEF vars
<1> QED BY <1>2, <1>3, <1>4, <1>5, <1>7, <1>8, <1>9, <1>10, <1>11 DEF Next

-----------------------------------------------------------------------------
(* The invariant and its theorems                                          *)

\* The daemon starts with an empty list, unlocked.
LEMMA InitIInv ==
  ASSUME Init
  PROVE  IInv
<1> USE ConstantsAssumption
<1>1. TypeOK
  <2>1. FreeNode \in Node
    BY DEF FreeNode, Node, State, Session
  <2>2. trusted \subseteq Mac /\ trustRules \subseteq Mac
    BY DEF Init
  <2>3. clientCount \in 0..MaxClients /\ clientId \in 1..(MaxId + 1)
    BY DEF Init
  <2>4. node \in [Id -> Node]
    BY <2>1 DEF Init
  <2> QED BY <2>2, <2>3, <2>4 DEF Init, TypeOK, Label
<1>2. LockInv
  BY DEF Init, LockInv, Critical, Thread
<1>3. PinInv /\ HeldInv
  BY DEF Init, PinInv, HeldInv, Thread
<1>4. ListInv
  BY DEF Init, ListInv
<1>5. WorkInv
  BY DEF Init, WorkInv, Works
<1>6. NodesAccountedFor
  <2>1. \A i \in Id : Users(i) = {}
    BY DEF Init, Users, Id, Thread
  <2>2. HeapInv /\ DeadInv /\ CountInv
    BY FS_EmptySet DEF Init, HeapInv, DeadInv, CountInv, FreeNode
  <2>3. RefInv
    BY <2>1, FS_EmptySet DEF Init, RefInv, FreeNode
  <2> QED BY <2>2, <2>3, AccountParts
<1> QED BY <1>1, <1>2, <1>3, <1>4, <1>5, <1>6 DEF IInv

\* The inductive invariant holds in every reachable state.
THEOREM Invariance == Spec => []IInv
<1>1. Init => IInv
  BY InitIInv
<1>2. IInv /\ [Next]_vars => IInv'
  BY TypeStep, ControlStep, HeldStep, ListInvStep, WorkStep, AccountStep
     DEF IInv
<1> QED BY <1>1, <1>2, PTL DEF Spec

\* Every variable keeps its type, and client_count stays within maxclients.
THEOREM TypeCorrect == Spec => []TypeOK
<1>1. IInv => TypeOK
  BY DEF IInv
<1> QED BY <1>1, Invariance, PTL

\* No node leaks or is freed twice: allocated nodes are listed, or dead and
\* pinned; refcount counts the requests; client_count counts the list.
THEOREM Accounted == Spec => []NodesAccountedFor
<1>1. IInv => NodesAccountedFor
  BY DEF IInv
<1> QED BY <1>1, Invariance, PTL

\* No request and no lock holder follows a pointer to a freed node, whoever
\* deletes the client meanwhile.
THEOREM UseIsSafe == Spec => []NoUseAfterFree
<1>1. IInv => NoUseAfterFree
  <2> SUFFICES ASSUME IInv PROVE NoUseAfterFree
    OBVIOUS
  <2>1. TypeOK /\ PinInv /\ HeldInv /\ WorkInv
    BY DEF IInv
  <2>2. \A h \in Http : pc[h] \in Pinned => cur[h] \in heap
    BY <2>1 DEF PinInv, HeldInv, Pinned
  <2>3. \A t \in Thread :
          pc[t] \in {"binauth_action", "counters", "deauth_script"} =>
            cur[t] \in clientList
    BY <2>1 DEF WorkInv, Works, CanAuth, CanDeauth
  <2> QED BY <2>2, <2>3 DEF NoUseAfterFree
<1> QED BY <1>1, Invariance, PTL

\* No step gives a listed host a second entry.
LEMMA HostStep ==
  ASSUME IInv, OneEntryPerHost, [Next]_vars
  PROVE  OneEntryPerHost'
<1>1. TypeOK /\ NodesAccountedFor
  BY DEF IInv
<1>0. clientList \subseteq Id /\ node \in [Id -> Node]
  BY <1>1 DEF TypeOK
<1>2. CASE Quiet
  BY <1>0, <1>2 DEF Quiet, Kept, OneEntryPerHost, listVars
<1>3. CASE PinStep
  BY <1>0, <1>3 DEF PinStep, Pin, OneEntryPerHost, listVars, Node
<1>4. CASE JoinStep
  <2> PICK host \in Host, n \in Node :
         FindHost(host) = {} /\ Append
         /\ node' = [node EXCEPT ![clientId] = n] /\ n.host = host
    BY <1>4 DEF JoinStep
  <2>1. clientId \in Id
    BY <1>1, AppendType
  <2>2. \A i \in clientList : node[i].host # host
    BY DEF FindHost
  <2> QED BY <1>0, <2>1, <2>2 DEF Append, OneEntryPerHost
<1>5. CASE LeaveStep
  BY <1>0, <1>5 DEF LeaveStep, ClientListDelete, Free, OneEntryPerHost, Node
<1>6. ASSUME NEW h \in Http, HttpUnpin(h)
      PROVE  OneEntryPerHost'
  BY <1>0, <1>1, <1>6 DEF HttpUnpin, Free, LastUser, OneEntryPerHost,
     NodesAccountedFor, Node
<1> QED BY <1>2, <1>3, <1>4, <1>5, <1>6, ListSteps DEF ListStep

\* A host never has two entries, although client_list_find_by_any and
\* client_list_add_client_pinned lock the list separately.
THEOREM HostsUnique == Spec => []OneEntryPerHost
<1>1. Init => OneEntryPerHost
  BY DEF Init, OneEntryPerHost
<1>2. IInv /\ OneEntryPerHost /\ [Next]_vars => OneEntryPerHost'
  BY HostStep
<1> QED BY <1>1, <1>2, Invariance, PTL DEF Spec
=============================================================================
