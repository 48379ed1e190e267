------------------------ MODULE SessionAccess_proofs ------------------------
(***************************************************************************)
(* The sessions of ClientSessions and their access rules: who is let       *)
(* through, how an entry lives, that the client list implements            *)
(* PortalAccess, the transience of session_end_explicit and the rank of    *)
(* the length it stands for. A step is first classified by what it does to *)
(* the sessions and the rules (SessionSteps), or to the session lengths    *)
(* (LengthSteps); the properties are then proved by those few cases.       *)
(***************************************************************************)
EXTENDS ClientSessions_proofs

(* What a step does to the sessions and the access rules                   *)

\* A listed entry keeps its host and its state.
Settled(i) == node'[i].host = node[i].host /\ node'[i].state = node[i].state

\* The threads that install rules or end a session, and the entries they do
\* it for.
Busy == {"counters", "deauth_script"}

\* No step of this kind involves a busy thread.
BusyKept == \A t \in Thread :
  pc[t] \in Busy \/ pc'[t] \in Busy => pc'[t] = pc[t] /\ cur'[t] = cur[t]

\* A step beside the sessions: states and access rules stay as they are.
Beside ==
  /\ clientList' = clientList /\ rules' = rules
  /\ \A i \in clientList : Settled(i)
  /\ BusyKept

\* A host joins the list, preauthenticated or trusted.
Joined == \E host \in Host :
  /\ clientList' = clientList \cup {clientId}
  /\ clientId \notin clientList
  /\ node'[clientId].host = host
  /\ node'[clientId].state \in {"Preauthenticated", "Trusted"}
  /\ rules' = rules
  /\ \A i \in clientList : Settled(i)
  /\ BusyKept

\* What the steps of the program can do to sessions and rules.
SessionStep ==
  \/ Beside \/ Joined
  \/ \E t \in Thread :
       \/ AuthAccept(t) \/ AuthCountersFail(t) \/ AuthComplete(t)
       \/ DeauthStart(t) \/ DeauthEnd(t)
  \/ WatchdogPreauthIdle \/ WatchdogDeauth \/ WatchdogThrottle

\* A thread that moves between labels that are not busy.
LEMMA BusyMove ==
  ASSUME TypeOK, NEW t \in Thread, NEW l, l \notin Busy, pc[t] \notin Busy,
         pc' = [pc EXCEPT ![t] = l],
         \A u \in Thread : u # t => cur'[u] = cur[u]
  PROVE  BusyKept
BY DEF TypeOK, BusyKept

\* An append is such a step.
LEMMA JoinedNew ==
  ASSUME IInv, NEW host \in Host, NEW n \in Node, Append,
         node' = [node EXCEPT ![clientId] = n],
         n.host = host, n.state \in {"Preauthenticated", "Trusted"},
         rules' = rules, BusyKept
  PROVE  Joined
<1>1. TypeOK /\ ListInv /\ NodesAccountedFor
  BY DEF IInv
<1>2. clientId \in Id
  BY <1>1, AppendType
<1>3. clientId \notin clientList
  BY <1>1, <1>2 DEF ListInv, NodesAccountedFor, Id
<1>4. \A i \in clientList : Settled(i)
  BY <1>1, <1>2, <1>3 DEF TypeOK, Settled
<1> QED BY <1>1, <1>2, <1>3, <1>4 DEF Joined, Append, TypeOK

\* ndsctl auth of a listed client first sets only its session length.
LEMMA FoundBeside ==
  ASSUME IInv, NEW t \in {"ndsctl", "watchdog"}, NEW i \in clientList,
         NEW length, AuthFound(t, i, length), pc[t] \in {"idle", "preempt"}
  PROVE  Beside
<1>1. TypeOK /\ t \in Thread
  BY DEF IInv, Thread
<1>2. node[i] \in Node /\ i \in Id
  BY <1>1 DEF TypeOK
<1>3. /\ Grant(node[i], length).state = node[i].state
      /\ Grant(node[i], length).host = node[i].host
  BY <1>2 DEF Grant, Node
<1>4. \A j \in clientList : Settled(j)
  BY <1>1, <1>2, <1>3 DEF TypeOK, AuthFound, Settled
<1>5. BusyKept
  BY <1>1, BusyMove DEF AuthFound, Goto, TypeOK, Busy
<1> QED BY <1>4, <1>5 DEF AuthFound, Beside, listVars

\* ndsctl auth of a host that is not listed makes it join.
LEMMA NewJoined ==
  ASSUME IInv, NEW t \in {"ndsctl", "watchdog"}, NEW host \in Host,
         NEW length \in Session, AuthNew(t, host, length),
         pc[t] \in {"idle", "preempt"}
  PROVE  Joined
<1> DEFINE n == NewNode(host, 0)
<1>1. TypeOK /\ t \in Thread
  BY DEF IInv, Thread
<1>2. n \in Node /\ n.host = host /\ n.state \in {"Preauthenticated", "Trusted"}
  BY NewNodeType DEF NewNode, FreeNode
<1>3. /\ Grant(n, length) \in Node
      /\ Grant(n, length).host = host /\ Grant(n, length).state = n.state
  <2>1. length \in Session
    OBVIOUS
  <2>2. Grant(n, length) \in Node
    BY <1>2, <2>1, GrantType
  <2>3. n = [n EXCEPT !.session = n.session] /\ n \in [host : Host \cup {NoHost},
          state : State, refcount : Nat, dead : BOOLEAN, session : Session,
          explicit : BOOLEAN, expired : BOOLEAN]
    BY <1>2 DEF Node
  <2> QED BY <1>2, <2>2, <2>3 DEF Grant
<1>4. Append /\ rules' = rules
      /\ \E m \in {n, Grant(n, length)} : node' = [node EXCEPT ![clientId] = m]
  BY DEF AuthNew
<1>5. BusyKept
  <2>1. CASE host.mac \in trusted
    BY <2>1 DEF AuthNew, BusyKept
  <2>2. CASE host.mac \notin trusted
    BY <1>1, <2>2, BusyMove DEF AuthNew, Goto, TypeOK, Busy
  <2> QED BY <2>1, <2>2
<1> HIDE DEF n
<1> QED BY <1>2, <1>3, <1>4, <1>5, JoinedNew

\* Every step does one of these to the sessions and the rules.
LEMMA SessionSteps ==
  ASSUME IInv, [Next]_vars
  PROVE  SessionStep
<1> USE DEF listVars, trustVars
<1>1. TypeOK /\ PinInv /\ NodesAccountedFor
  BY DEF IInv
<1>a. /\ node \in [Id -> Node] /\ pc \in [Thread -> Label]
      /\ cur \in [Thread -> Id \cup {0}] /\ clientList \subseteq Id
  BY <1>1 DEF TypeOK
<1>2. ASSUME NEW t \in Thread, NEW l, l \notin Busy, pc[t] \notin Busy,
             pc' = [pc EXCEPT ![t] = l],
             \A u \in Thread : u # t => cur'[u] = cur[u],
             clientList' = clientList, rules' = rules,
             \A i \in clientList : Settled(i)
      PROVE  SessionStep
  BY <1>1, <1>2, BusyMove DEF SessionStep, Beside
<1>3. ASSUME NEW t \in Thread, Authenticating(t)
      PROVE  SessionStep
  <2>1. CASE AuthStart(t)
    <3>1. \A i \in clientList : Settled(i)
      BY <1>a, <2>1 DEF AuthStart, CanAuth, TakeExplicit, Settled, Node
    <3> QED BY <1>2, <2>1, <3>1 DEF AuthStart, Goto, Busy
  <2>2. CASE AuthNoClient(t) \/ AuthRefused(t)
    <3>1. AfterAuth(t) \notin Busy
      BY DEF AfterAuth, Busy, Thread
    <3>2. \A u \in Thread : u # t => cur'[u] = cur[u]
      BY <1>a, <2>2 DEF AuthNoClient, AuthRefused, AuthEnd, Leave
    <3>3. \A i \in clientList : Settled(i)
      BY <2>2 DEF AuthNoClient, AuthRefused, Settled
    <3> QED BY <1>2, <2>2, <3>1, <3>2, <3>3
            DEF AuthNoClient, AuthRefused, AuthEnd, Leave, Goto, Busy
  <2> QED BY <1>3, <2>1, <2>2 DEF Authenticating, SessionStep
<1>4. ASSUME NEW t \in Thread, Deauthenticating(t)
      PROVE  SessionStep
  <2>1. CASE DeauthNoClient(t)
    <3>1. AfterDeauth(t) \notin Busy
      BY DEF AfterDeauth, Busy
    <3>2. \A u \in Thread : u # t => cur'[u] = cur[u]
      BY <1>a, <2>1 DEF DeauthNoClient, Leave
    <3>3. \A i \in clientList : Settled(i)
      BY <2>1 DEF DeauthNoClient, Settled
    <3> QED BY <1>2, <2>1, <3>1, <3>2, <3>3 DEF DeauthNoClient, Leave, Goto,
               Busy
  <2> QED BY <1>4, <2>1 DEF Deauthenticating, SessionStep
<1>5. ASSUME NEW h \in Http, HttpRequest(h) \/ HttpStep(h)
      PROVE  SessionStep
  <2>0. h \in Thread
    BY DEF Thread
  <2>1. ASSUME NEW l \in Label \ Busy, pc[h] \notin Busy,
         pc' = [pc EXCEPT ![h] = l],
               cur' = cur \/ \E k : cur' = [cur EXCEPT ![h] = k],
               clientList' = clientList, rules' = rules,
               \A i \in clientList : Settled(i)
        PROVE  SessionStep
    <3>1. \A u \in Thread : u # h => cur'[u] = cur[u]
      BY <1>a, <2>1
    <3> QED BY <1>2, <2>0, <2>1, <3>1
  <2> USE DEF Label, Busy, Goto
  <2>2. ASSUME node' = node PROVE \A i \in clientList : Settled(i)
    BY <2>2 DEF Settled
  <2>3. ASSUME NEW i \in clientList, Pin(i)
         PROVE \A j \in clientList : Settled(j)
    BY <1>a, <2>3 DEF Pin, Settled, Node
  <2>4. ASSUME NEW host \in Host, HttpFind(h, host)
        PROVE  SessionStep
    <3>1. CASE FindHost(host) # {}
      <4> DEFINE i == First(FindHost(host))
      <4>1. i \in clientList
        BY <1>1, <3>1, FindHostIn
      <4>2. Pin(i) /\ cur' = [cur EXCEPT ![h] = i]
        BY <2>4, <3>1 DEF HttpFind
      <4>3. \A j \in clientList : Settled(j)
        BY <2>3, <4>1, <4>2
      <4>4. pc' = [pc EXCEPT ![h] = "check"]
        BY <2>4, <3>1 DEF HttpFind
      <4> QED BY <2>1, <2>4, <4>2, <4>3, <4>4 DEF HttpFind
    <3>2. CASE FindHost(host) = {}
      BY <2>1, <2>2, <2>4, <3>2 DEF HttpFind
    <3> QED BY <3>1, <3>2
  <2>5. CASE HttpNotAllocated(h)
    BY <2>1, <2>2, <2>5 DEF HttpNotAllocated
  <2>6. CASE HttpAdd(h)
    <3>1. CASE FindHost(req[h]) # {}
      <4> DEFINE i == First(FindHost(req[h]))
      <4>1. i \in clientList
        BY <1>1, <3>1, FindHostIn
      <4>2. Pin(i) /\ cur' = [cur EXCEPT ![h] = i]
        BY <2>6, <3>1 DEF HttpAdd, FindAgain
      <4>3. \A j \in clientList : Settled(j)
        BY <2>3, <4>1, <4>2
      <4>4. pc' = [pc EXCEPT ![h] = "check"]
        BY <2>6, <3>1 DEF HttpAdd, FindAgain
      <4> QED BY <2>1, <2>6, <3>1, <4>2, <4>3, <4>4 DEF HttpAdd, FindAgain
    <3>2. CASE FindHost(req[h]) = {} /\ Full
      BY <2>1, <2>2, <2>6, <3>2 DEF HttpAdd, FindAgain
    <3>3. CASE FindHost(req[h]) = {} /\ ~Full
      <4> DEFINE n == NewNode(req[h], 1)
      <4>1. req[h] \in Host
        BY <1>1, <2>6 DEF HttpAdd, PinInv
      <4>2. n \in Node /\ n.host = req[h] /\ n.state \in {"Preauthenticated", "Trusted"}
        BY <4>1, NewNodeType DEF NewNode, FreeNode
      <4>3. /\ Append /\ node' = [node EXCEPT ![clientId] = n] /\ rules' = rules
            /\ pc' = [pc EXCEPT ![h] = "check"] /\ cur' = [cur EXCEPT ![h] = clientId]
        BY <2>6, <3>3 DEF HttpAdd, FindAgain
      <4>4. BusyKept
        <5>1. pc[h] \notin Busy /\ \A u \in Thread : u # h => cur'[u] = cur[u]
          BY <1>a, <2>0, <2>6, <4>3 DEF HttpAdd
        <5> QED BY <1>1, <2>0, <4>3, <5>1, BusyMove
      <4> HIDE DEF n
      <4> QED BY <4>1, <4>2, <4>3, <4>4, JoinedNew DEF SessionStep
    <3> QED BY <3>1, <3>2, <3>3
  <2>7. CASE HttpDispatch(h)
    BY <2>1, <2>2, <2>7 DEF HttpDispatch
  <2>8. CASE HttpServe(h)
    BY <2>1, <2>2, <2>8 DEF HttpServe
  <2>9. CASE HttpDeny(h)
    BY <2>1, <2>2, <2>9 DEF HttpDeny
  <2>10. CASE HttpAuthenticate(h)
    <3>1. \A i \in clientList : Settled(i)
      BY <1>a, <2>10 DEF HttpAuthenticate, Settled, Node
    <3> QED BY <2>1, <2>10, <3>1 DEF HttpAuthenticate
  <2>11. CASE HttpBinAuthRefused(h)
    BY <2>1, <2>2, <2>11 DEF HttpBinAuthRefused
  <2>12. CASE HttpBinAuthAccepted(h)
    BY <2>1, <2>2, <2>12 DEF HttpBinAuthAccepted
  <2>13. CASE HttpLock(h)
    BY <2>1, <2>2, <2>13 DEF HttpLock
  <2>14. CASE HttpAfterAuth(h)
    <3>1. \A i \in clientList : Settled(i)
      BY <1>a, <2>14 DEF HttpAfterAuth, Settled, Node
    <3> QED BY <2>1, <2>14, <3>1 DEF HttpAfterAuth
  <2>15. CASE HttpUnpin(h)
    <3>1. \A i \in clientList : ~node[i].dead
      BY <1>1, <1>a DEF NodesAccountedFor
    <3>2. \A i \in clientList : Settled(i)
      BY <1>a, <2>15, <3>1 DEF HttpUnpin, LastUser, Free, Settled, Node
    <3> QED BY <2>1, <2>15, <3>2 DEF HttpUnpin
  <2> QED BY <1>5, <2>4, <2>5, <2>6, <2>7, <2>8, <2>9, <2>10, <2>11, <2>12,
             <2>13,
             <2>14, <2>15 DEF HttpRequest, HttpStep
<1>6. CASE NdsctlCommand
  <2>1. CASE NdsctlAuth
    BY <2>1, FoundBeside, NewJoined DEF NdsctlAuth, GlobalSession, Session,
       SessionStep
  <2>2. CASE NdsctlDeauth
    <3>1. /\ \A u \in Thread : u # "ndsctl" => cur'[u] = cur[u]
          /\ \A i \in clientList : Settled(i)
      BY <1>a, <2>2 DEF NdsctlDeauth, Settled
    <3>2. /\ "ndsctl" \in Thread /\ pc["ndsctl"] \notin Busy /\ "deauth" \notin Busy
          /\ pc' = [pc EXCEPT !["ndsctl"] = "deauth"]
          /\ clientList' = clientList /\ rules' = rules
      BY <2>2 DEF NdsctlDeauth, Goto, Busy, Thread
    <3> QED BY <1>2, <3>1, <3>2
  <2>3. CASE NdsctlTrust \/ NdsctlUntrust
    BY <2>3 DEF NdsctlTrust, NdsctlUntrust, SessionStep, Beside, BusyKept,
       Settled
  <2> QED BY <1>6, <2>1, <2>2, <2>3 DEF NdsctlCommand
<1>7. CASE WatchdogStart
  BY <1>2, <1>7 DEF WatchdogStart, Goto, Busy, Thread, Settled
<1>8. CASE WatchdogStep
  <2>1. CASE WatchdogPass
    BY <2>1 DEF WatchdogPass, SessionStep, Beside, BusyKept, Settled
  <2>2. CASE WatchdogUnlock
    BY <1>2, <2>2 DEF WatchdogUnlock, Goto, Busy, Thread, Settled
  <2>3. CASE WatchdogSleep
    BY <1>2, <2>3 DEF WatchdogSleep, Goto, Busy, Thread, Settled
  <2> QED BY <1>8, <2>1, <2>2, <2>3 DEF WatchdogStep, SessionStep
<1>9. CASE WatchdogPreempt
  <2> PICK host \in Host, length \in {GlobalSession, "listed"} :
         IF FindMac(host.mac) # {}
         THEN AuthFound("watchdog", First(FindMac(host.mac)), length)
         ELSE AuthNew("watchdog", host, length)
    BY <1>9 DEF WatchdogPreempt
  <2>1. FindMac(host.mac) # {} => First(FindMac(host.mac)) \in clientList
    BY <1>1, FirstIn DEF TypeOK, FindMac
  <2> QED BY <1>9, <2>1, FoundBeside, NewJoined
          DEF WatchdogPreempt, GlobalSession, Session, SessionStep
<1>10. ASSUME NEW i \in Id, SessionElapses(i)
       PROVE  SessionStep
  <2>1. \A j \in clientList : Settled(j)
    BY <1>a, <1>10 DEF SessionElapses, Settled, Node
  <2> QED BY <1>10, <2>1 DEF SessionElapses, SessionStep, Beside, BusyKept
<1>11. CASE UNCHANGED vars
  BY <1>11 DEF vars, SessionStep, Beside, BusyKept, Settled
<1> QED BY <1>3, <1>4, <1>5, <1>6, <1>7, <1>8, <1>9, <1>10, <1>11 DEF Next

\* No step leaves the rules of a host behind when its session goes: a failed
\* counters update withdraws them, and an entry is deleted after its rules.
LEMMA AccessStep ==
  ASSUME IInv, AccessHasSession, [Next]_vars
  PROVE  AccessHasSession'
<1>1. TypeOK /\ LockInv /\ WorkInv
  BY DEF IInv
<1>a. /\ node \in [Id -> Node] /\ pc \in [Thread -> Label] /\ clientList \subseteq Id
      /\ cur \in [Thread -> Id \cup {0}]
  BY <1>1 DEF TypeOK
<1> DEFINE Open(i) == node[i].state \in {"Authenticated", "AuthBlocked"}
           Has(host, i) == /\ node[i].host = host
                           /\ Open(i) \/ \E t \in Thread : pc[t] = "counters" /\ cur[t] = i
<1>2. /\ \A host \in rules : \E i \in clientList : Has(host, i)
      /\ AccessHasSession' <=> \A host \in rules' : (\E i \in clientList' : Has(host, i)')
  BY DEF AccessHasSession
<1>3. CASE Beside \/ Joined
  <2>1. clientList \subseteq clientList' /\ rules' = rules /\ BusyKept
        /\ \A i \in clientList : Settled(i)
    BY <1>3 DEF Beside, Joined
  <2>2. \A host \in rules : \A i \in clientList : Has(host, i) => Has(host, i)'
    BY <2>1 DEF BusyKept, Busy, Settled
  <2> QED BY <1>2, <2>1, <2>2
<1>4. ASSUME NEW t \in Thread, AuthAccept(t)
      PROVE  AccessHasSession'
  <2>1. CanAuth(cur[t])
    BY <1>1, <1>4 DEF AuthAccept, WorkInv, Works
  <2>2. \A i \in clientList : Settled(i)
    BY <1>a, <1>4 DEF AuthAccept, Settled, Node
  <2>3. /\ pc' = [pc EXCEPT ![t] = "counters"] /\ pc[t] = "binauth_action"
        /\ cur' = cur /\ clientList' = clientList
        /\ rules' \subseteq rules \cup {node[cur[t]].host}
    BY <1>4 DEF AuthAccept, FwAuthenticate, Goto, listVars
  <2>5. \A host \in rules : \A i \in clientList : Has(host, i) => Has(host, i)'
    BY <1>a, <2>2, <2>3 DEF Settled
  <2>6. cur[t] \in clientList'
    BY <2>1, <2>3 DEF CanAuth
  <2> SUFFICES ASSUME NEW host \in rules'
               PROVE  \E i \in clientList' : Has(host, i)'
    BY <1>2
  <2>7. CASE host \in rules
    BY <1>2, <2>3, <2>5, <2>7
  <2>8. CASE host = node[cur[t]].host
    <3>1. node'[cur'[t]].host = host /\ cur'[t] = cur[t] /\ pc'[t] = "counters"
      BY <1>a, <2>1, <2>2, <2>3, <2>8 DEF Settled, CanAuth
    <3> QED BY <2>6, <3>1
  <2> QED BY <2>3, <2>7, <2>8
<1>5. ASSUME \A i \in clientList : Settled(i),
             rules' \subseteq rules, clientList' = clientList,
             \A host \in rules' : \A i \in clientList : Has(host, i) => Open(i)
      PROVE  AccessHasSession'
  BY <1>2, <1>5 DEF Settled
<1>6. ASSUME NEW t \in Thread, AuthCountersFail(t)
      PROVE  AccessHasSession'
  <2>1. \A i \in clientList : Settled(i)
    BY <1>6 DEF AuthCountersFail, Settled
  <2>2. \A u \in Thread : pc[u] = "counters" => u = t
    BY <1>1, <1>6, Alone DEF AuthCountersFail, Critical
  <2>3. rules' = {r \in rules : r.ip # node[cur[t]].host.ip} /\ clientList' = clientList
    BY <1>6 DEF AuthCountersFail, FwDeauthenticate, listVars
  <2> QED BY <1>5, <2>1, <2>2, <2>3
<1>7. ASSUME NEW t \in Thread, AuthComplete(t)
      PROVE  AccessHasSession'
  <2>1. CanAuth(cur[t])
    BY <1>1, <1>7 DEF AuthComplete, WorkInv, Works
  <2>2. \A u \in Thread : pc[u] = "counters" => u = t
    BY <1>1, <1>7, Alone DEF AuthComplete, Critical
  <2>3. rules' = rules /\ clientList' = clientList
        /\ node' = [node EXCEPT ![cur[t]].state = "Authenticated"]
    BY <1>7 DEF AuthComplete, listVars
  <2>4. \A i \in clientList : node'[i].host = node[i].host
                              /\ (Open(i) \/ i = cur[t] => Open(i)')
    BY <1>a, <2>1, <2>3 DEF CanAuth, Node
  <2> QED BY <1>2, <2>2, <2>3, <2>4
<1>8. ASSUME NEW t \in Thread, DeauthStart(t)
      PROVE  AccessHasSession'
  <2>1. \A u \in Thread : pc[u] # "counters"
    BY <1>1, <1>8, Alone DEF DeauthStart, Acquire, Critical
  <2>2. \A i \in clientList : Settled(i)
    BY <1>8 DEF DeauthStart, Settled
  <2> QED BY <1>5, <1>8, <2>1, <2>2 DEF DeauthStart, FwDeauthenticate, listVars
<1>9. ASSUME NEW i \in clientList, ClientListDelete(i), rules' = rules,
             ~Open(i) \/ node[i].host \notin rules,
             \A u \in Thread : pc[u] # "counters"
      PROVE  AccessHasSession'
  <2>1. clientList' = clientList \ {i} /\ \A j \in clientList : j # i => Settled(j)
    BY <1>a, <1>9 DEF ClientListDelete, Free, Settled
  <2> QED BY <1>2, <1>9, <2>1 DEF Settled
<1>10. ASSUME NEW t \in Thread, DeauthEnd(t)
       PROVE  AccessHasSession'
  <2>1. CanDeauth(cur[t]) /\ node[cur[t]].host \notin rules
    BY <1>1, <1>10 DEF DeauthEnd, WorkInv, Works
  <2>2. \A u \in Thread : pc[u] # "counters"
    <3>1. pc[t] = "deauth_script"
      BY <1>10 DEF DeauthEnd
    <3> QED BY <1>1, <3>1, Alone DEF Critical
  <2> QED BY <1>9, <1>10, <2>1, <2>2 DEF DeauthEnd, CanDeauth
<1>11. ASSUME pc["watchdog"] = "walk"
       PROVE  \A u \in Thread : pc[u] # "counters"
  BY <1>1, <1>11, Alone DEF Critical, Thread
<1>12. CASE WatchdogPreauthIdle
  BY <1>9, <1>11, <1>12 DEF WatchdogPreauthIdle, Visit, PreauthIdle
<1>13. CASE WatchdogDeauth
  <2>1. \A i \in clientList : Settled(i)
    BY <1>13 DEF WatchdogDeauth, Settled
  <2> QED BY <1>5, <1>11, <1>13, <2>1
          DEF WatchdogDeauth, Visit, FwDeauthenticate, listVars
<1>14. CASE WatchdogThrottle
  <2> PICK k \in clientList : /\ Visit(k)
                              /\ node' = [node EXCEPT ![k].state = "AuthBlocked"]
    BY <1>14 DEF WatchdogThrottle
  <2>1. \A i \in clientList : node'[i].host = node[i].host /\ (Open(i) => Open(i)')
    BY <1>a DEF Node
  <2>2. rules' = rules /\ clientList' = clientList
    BY <1>14 DEF WatchdogThrottle, listVars
  <2> QED BY <1>2, <1>11, <2>1, <2>2 DEF Visit
<1> QED BY <1>3, <1>4, <1>6, <1>7, <1>8, <1>10, <1>12, <1>13, <1>14,
           SessionSteps
        DEF SessionStep

\* The firewall lets through only hosts with a session on the client list,
\* whatever BinAuth and nft answer and however the threads interleave.
THEOREM AccessControlled == Spec => []AccessHasSession
<1>1. Init => AccessHasSession
  BY DEF Init, AccessHasSession
<1>2. IInv /\ AccessHasSession /\ [Next]_vars => AccessHasSession'
  BY AccessStep
<1> QED BY <1>1, <1>2, Invariance, PTL DEF Spec

-----------------------------------------------------------------------------
(* The client list implements the portal                                   *)

\* Every step is a step of the portal, or changes nothing that it sees.
LEMMA PortalStep ==
  ASSUME IInv, OneEntryPerHost, AccessHasSession, [Next]_vars
  PROVE  [Portal!Next]_(Portal!vars)
<1> USE DEF listVars
<1>1. TypeOK /\ LockInv /\ WorkInv /\ ListInv
  BY DEF IInv
<1>a. /\ node \in [Id -> Node] /\ clientList \subseteq Id
      /\ \A i \in clientList : node[i].host \in Host /\ node[i].host \in Known
  BY <1>1 DEF TypeOK, ListInv, Known
<1>2. ASSUME clientList' = clientList,
       \A i \in clientList : node'[i].host = node[i].host
      PROVE  Known' = Known
  BY <1>2 DEF Known
<1>3. ASSUME NEW i \in clientList, FwDeauthenticate(i), Known' = Known
      PROVE  Portal!Next
  BY <1>a, <1>3 DEF FwDeauthenticate, Portal!Next, Portal!Revoke
<1>4. ASSUME NEW i \in clientList, ClientListDelete(i), rules' = rules,
             node[i].host \notin rules
      PROVE  Portal!Next
  <2>1. clientList' = clientList \ {i}
        /\ \A j \in clientList : j # i => node'[j].host = node[j].host
    BY <1>a, <1>4 DEF ClientListDelete, Free
  <2>2. \A j \in clientList : j # i => node[j].host # node[i].host
    BY DEF OneEntryPerHost
  <2>3. Known' = Known \ {node[i].host}
    BY <2>1, <2>2 DEF Known
  <2> QED BY <1>a, <1>4, <2>3 DEF Portal!Next, Portal!Forget
<1>5. CASE Beside
  BY <1>2, <1>5 DEF Beside, Settled, Portal!vars
<1>6. CASE Joined
  <2> PICK host \in Host :
         /\ clientList' = clientList \cup {clientId}
         /\ clientId \notin clientList
         /\ node'[clientId].host = host
         /\ rules' = rules
         /\ \A i \in clientList : Settled(i)
    BY <1>6 DEF Joined
  <2>1. Known' = Known \cup {host}
    BY DEF Known, Settled
  <2> QED BY <2>1 DEF Portal!Next, Portal!Appear
<1>7. ASSUME NEW t \in Thread, AuthAccept(t)
      PROVE  Portal!Next \/ UNCHANGED Portal!vars
  <2>1. CanAuth(cur[t])
    BY <1>1, <1>7 DEF AuthAccept, WorkInv, Works
  <2>2. Known' = Known
    BY <1>a, <1>2, <1>7 DEF AuthAccept, Node
  <2>3. CASE rules' = rules \cup {node[cur[t]].host}
    BY <1>a, <1>7, <2>1, <2>2, <2>3 DEF CanAuth, AuthAccept, Portal!Next, Portal!Grant
  <2>4. CASE rules' = rules
    BY <2>2, <2>4 DEF Portal!vars
  <2> QED BY <1>7, <2>3, <2>4 DEF AuthAccept, FwAuthenticate
<1>8. ASSUME NEW t \in Thread, AuthCountersFail(t)
      PROVE  Portal!Next
  <2>1. CanAuth(cur[t])
    BY <1>1, <1>8 DEF AuthCountersFail, WorkInv, Works
  <2> QED BY <1>2, <1>3, <1>8, <2>1 DEF CanAuth, AuthCountersFail
<1>9. ASSUME NEW t \in Thread, AuthComplete(t)
      PROVE  UNCHANGED Portal!vars
  BY <1>a, <1>2, <1>9 DEF AuthComplete, Node, Portal!vars
<1>10. ASSUME NEW t \in Thread, DeauthStart(t)
       PROVE  Portal!Next
  BY <1>2, <1>3, <1>10 DEF DeauthStart, CanDeauth
<1>11. ASSUME NEW t \in Thread, DeauthEnd(t)
       PROVE  Portal!Next
  <2>1. CanDeauth(cur[t]) /\ node[cur[t]].host \notin rules
    BY <1>1, <1>11 DEF DeauthEnd, WorkInv, Works
  <2> QED BY <1>4, <1>11, <2>1 DEF DeauthEnd, CanDeauth
<1>12. CASE WatchdogPreauthIdle
  <2> PICK i \in clientList :
         Visit(i) /\ PreauthIdle(i) /\ ClientListDelete(i)
    BY <1>12 DEF WatchdogPreauthIdle
  <2>1. \A u \in Thread : pc[u] # "counters"
    BY <1>1, Alone DEF Visit, Critical, Thread
  <2>2. node[i].host \notin rules
    BY <2>1 DEF AccessHasSession, OneEntryPerHost, PreauthIdle
  <2> QED BY <1>4, <1>12, <2>2 DEF WatchdogPreauthIdle
<1>13. CASE WatchdogDeauth
  BY <1>2, <1>3, <1>13 DEF WatchdogDeauth
<1>14. CASE WatchdogThrottle
  BY <1>a, <1>2, <1>14 DEF WatchdogThrottle, Node, Portal!vars
<1> QED BY <1>5, <1>6, <1>7, <1>8, <1>9, <1>10, <1>11, <1>12, <1>13, <1>14,
           SessionSteps
        DEF SessionStep

\* The client list and the access rules implement the portal: every step is
\* Appear, Grant, Revoke or Forget of PortalAccess, or changes nothing it sees.
THEOREM Implementation == Spec => ImplementsPortal
<1>1. Init => Portal!Init
  BY DEF Init, Portal!Init, Known
<1>2. IInv /\ OneEntryPerHost /\ AccessHasSession /\ [Next]_vars
        => [Portal!Next]_(Portal!vars)
  BY PortalStep
<1> QED BY <1>1, <1>2, Invariance, HostsUnique, AccessControlled, PTL
        DEF Spec, ImplementsPortal, Portal!Spec

-----------------------------------------------------------------------------
(* The life of an entry                                                    *)

\* Every step treats each entry of the list as LifeStep says.
LEMMA LifeSteps ==
  ASSUME IInv, OneEntryPerHost, AccessHasSession, [Next]_vars
  PROVE  LifeStep
<1> USE DEF listVars
<1>1. TypeOK /\ LockInv /\ WorkInv
  BY DEF IInv
<1>a. /\ node \in [Id -> Node] /\ clientList \subseteq Id
      /\ \A i \in clientList : node[i].state \in State
  BY <1>1 DEF TypeOK, Node
<1>2. ASSUME clientList \subseteq clientList',
       \A i \in clientList : node'[i].state = node[i].state
      PROVE  LifeStep
  BY <1>a, <1>2 DEF LifeStep
<1>3. ASSUME NEW i \in clientList, ClientListDelete(i),
       node[i].host \notin rules,
             node[i].state # "Trusted"
      PROVE  LifeStep
  <2>1. clientList' = clientList \ {i}
        /\ \A j \in clientList : j # i => node'[j].state = node[j].state
    BY <1>a, <1>3 DEF ClientListDelete, Free
  <2> QED BY <1>a, <1>3, <2>1 DEF LifeStep
<1>4. CASE Beside \/ Joined
  BY <1>2, <1>4 DEF Beside, Joined, Settled
<1>5. ASSUME NEW t \in Thread, AuthAccept(t)
      PROVE  LifeStep
  BY <1>a, <1>2, <1>5 DEF AuthAccept, Node
<1>6. ASSUME NEW t \in Thread, AuthCountersFail(t) \/ DeauthStart(t)
      PROVE  LifeStep
  BY <1>2, <1>6 DEF AuthCountersFail, DeauthStart
<1>7. ASSUME NEW t \in Thread, AuthComplete(t)
      PROVE  LifeStep
  <2>1. CanAuth(cur[t])
    BY <1>1, <1>7 DEF AuthComplete, WorkInv, Works
  <2> QED BY <1>a, <1>7, <2>1 DEF AuthComplete, CanAuth, LifeStep, Node
<1>8. ASSUME NEW t \in Thread, DeauthEnd(t)
      PROVE  LifeStep
  <2>1. CanDeauth(cur[t]) /\ node[cur[t]].host \notin rules
    BY <1>1, <1>8 DEF DeauthEnd, WorkInv, Works
  <2> QED BY <1>3, <1>8, <2>1 DEF DeauthEnd, CanDeauth
<1>9. CASE WatchdogPreauthIdle
  <2> PICK i \in clientList :
         Visit(i) /\ PreauthIdle(i) /\ ClientListDelete(i)
    BY <1>9 DEF WatchdogPreauthIdle
  <2>1. \A u \in Thread : pc[u] # "counters"
    BY <1>1, Alone DEF Visit, Critical, Thread
  <2>2. node[i].host \notin rules
    BY <2>1 DEF AccessHasSession, OneEntryPerHost, PreauthIdle
  <2> QED BY <1>3, <2>2 DEF PreauthIdle
<1>10. CASE WatchdogDeauth
  BY <1>2, <1>10 DEF WatchdogDeauth
<1>11. CASE WatchdogThrottle
  BY <1>a, <1>11 DEF WatchdogThrottle, LifeStep, Node
<1> QED BY <1>4, <1>5, <1>6, <1>7, <1>8, <1>9, <1>10, <1>11, SessionSteps
           DEF SessionStep

\* A session goes from preauthenticated to authenticated to throttled, and an
\* entry leaves the list only without access rules and never while trusted.
THEOREM Lifecycle == Spec => SessionLifecycle
<1>1. IInv /\ OneEntryPerHost /\ AccessHasSession /\ [Next]_vars => [LifeStep]_vars
  BY LifeSteps
<1> QED BY <1>1, Invariance, HostsUnique, AccessControlled, PTL
        DEF Spec, SessionLifecycle

-----------------------------------------------------------------------------
(* The rules of a session, when no two hosts share an address              *)

\* While a thread reads the counters of a client its rules are in.
Installed == \A t \in Thread : pc[t] = "counters" => node[cur[t]].host \in rules

\* The two facts that every step keeps together.
RulesInv == SessionHasAccess /\ Installed

\* With an address for each host, no step takes the rules of one session away
\* for another, and a session that becomes authenticated has its rules if the
\* commands that add them succeed.
LEMMA RulesStep ==
  ASSUME IInv, OneEntryPerHost, RulesInv, IpsUnique, ~AddsMayFail, [Next]_vars
  PROVE  RulesInv'
<1> USE DEF listVars
<1>1. TypeOK /\ LockInv /\ WorkInv /\ ListInv
  BY DEF IInv
<1>a. /\ node \in [Id -> Node] /\ pc \in [Thread -> Label] /\ clientList \subseteq Id
      /\ cur \in [Thread -> Id \cup {0}]
      /\ \A i \in clientList : node[i].host \in Host
  BY <1>1 DEF TypeOK, ListInv
<1> DEFINE Open(i) == node[i].state \in {"Authenticated", "AuthBlocked"}
           Ending(i) == \E t \in Thread : pc[t] = "deauth_script" /\ cur[t] = i
           Covered == \A i \in clientList' : Open(i)' => node'[i].host \in rules' \/ Ending(i)'
<1>2. /\ \A i \in clientList : Open(i) => node[i].host \in rules \/ Ending(i)
      /\ Covered /\ Installed' => RulesInv'
      /\ Installed
  BY DEF RulesInv, SessionHasAccess
<1>3. ASSUME NEW i \in clientList, NEW j \in clientList, i # j
      PROVE  node[i].host.ip # node[j].host.ip
  BY <1>a, <1>3 DEF OneEntryPerHost, IpsUnique
<1>4. CASE Beside
  <2>1. Covered
    BY <1>2, <1>4 DEF Beside, BusyKept, Busy, Settled
  <2>2. Installed'
    <3> SUFFICES ASSUME NEW t \in Thread, pc'[t] = "counters"
                 PROVE  node'[cur'[t]].host \in rules'
      BY DEF Installed
    <3>1. pc[t] = "counters" /\ cur'[t] = cur[t]
      BY <1>4 DEF Beside, BusyKept, Busy
    <3>2. cur[t] \in clientList
      BY <1>1, <3>1 DEF WorkInv, Works, CanAuth
    <3> QED BY <1>2, <1>4, <3>1, <3>2 DEF Beside, Settled, Installed
  <2> QED BY <1>2, <2>1, <2>2
<1>5. CASE Joined
  <2> PICK host \in Host :
         /\ clientList' = clientList \cup {clientId}
         /\ clientId \notin clientList
         /\ node'[clientId].state \in {"Preauthenticated", "Trusted"}
         /\ rules' = rules
         /\ \A i \in clientList : Settled(i)
         /\ BusyKept
    BY <1>5 DEF Joined
  <2>1. Covered
    BY <1>2 DEF BusyKept, Busy, Settled
  <2>2. Installed'
    <3> SUFFICES ASSUME NEW t \in Thread, pc'[t] = "counters"
                 PROVE  node'[cur'[t]].host \in rules'
      BY DEF Installed
    <3>1. pc[t] = "counters" /\ cur'[t] = cur[t]
      BY DEF BusyKept, Busy
    <3>2. cur[t] \in clientList
      BY <1>1, <3>1 DEF WorkInv, Works, CanAuth
    <3> QED BY <1>2, <3>1, <3>2 DEF Settled, Installed
  <2> QED BY <1>2, <2>1, <2>2
<1>6. ASSUME NEW t \in Thread, pc[t] \in Critical
      PROVE  \A u \in Thread : u # t => pc[u] \notin Critical
  BY <1>1, <1>6, Alone
<1>7. ASSUME NEW t \in Thread, AuthAccept(t)
      PROVE  RulesInv'
  <2>1. CanAuth(cur[t])
    BY <1>1, <1>7 DEF AuthAccept, WorkInv, Works
  <2>2. \A i \in clientList : Settled(i)
    BY <1>a, <1>7 DEF AuthAccept, Settled, Node
  <2>3. /\ pc' = [pc EXCEPT ![t] = "counters"] /\ pc[t] = "binauth_action"
        /\ cur' = cur /\ clientList' = clientList
        /\ rules' = rules \cup {node[cur[t]].host}
    BY <1>7 DEF AuthAccept, FwAuthenticate, Goto
  <2>4. Covered
    BY <1>a, <1>2, <2>2, <2>3 DEF Settled
  <2>5. Installed'
    <3>1. \A u \in Thread : pc'[u] = "counters" => u = t
      BY <1>a, <1>6, <2>3 DEF Critical
    <3> QED BY <2>1, <2>2, <2>3, <3>1 DEF CanAuth, Settled, Installed
  <2> QED BY <1>2, <2>4, <2>5
<1>8. ASSUME NEW t \in Thread, AuthCountersFail(t)
      PROVE  RulesInv'
  <2>1. CanAuth(cur[t]) /\ pc[t] = "counters"
    BY <1>1, <1>8 DEF AuthCountersFail, WorkInv, Works
  <2>2. \A u \in Thread : u # t => pc[u] \notin Critical
    BY <1>6, <2>1 DEF Critical
  <2>3. /\ AfterAuth(t) \notin {"counters", "deauth_script"}
        /\ pc' = [pc EXCEPT ![t] = AfterAuth(t)]
        /\ node' = node /\ clientList' = clientList
        /\ rules' = {r \in rules : r.ip # node[cur[t]].host.ip}
    BY <1>8 DEF AuthCountersFail, AuthEnd, Leave, AfterAuth, Goto,
       FwDeauthenticate, Thread
  <2>4. Covered
    <3> SUFFICES ASSUME NEW i \in clientList, Open(i)
                 PROVE  node[i].host \in rules'
      BY <2>3
    <3>1. i # cur[t] /\ ~Ending(i)
      BY <2>1, <2>2 DEF CanAuth, Critical
    <3> QED BY <1>2, <1>3, <2>1, <2>3, <3>1 DEF CanAuth
  <2>5. Installed'
    BY <1>a, <2>2, <2>3 DEF Installed, Critical
  <2> QED BY <1>2, <2>4, <2>5
<1>9. ASSUME NEW t \in Thread, AuthComplete(t)
      PROVE  RulesInv'
  <2>1. CanAuth(cur[t]) /\ pc[t] = "counters" /\ node[cur[t]].host \in rules
    BY <1>1, <1>2, <1>9 DEF AuthComplete, WorkInv, Works, Installed
  <2>2. \A u \in Thread : u # t => pc[u] \notin Critical
    BY <1>6, <2>1 DEF Critical
  <2>3. /\ AfterAuth(t) \notin {"counters", "deauth_script"}
        /\ pc' = [pc EXCEPT ![t] = AfterAuth(t)]
        /\ clientList' = clientList /\ rules' = rules
        /\ node' = [node EXCEPT ![cur[t]].state = "Authenticated"]
    BY <1>9 DEF AuthComplete, AuthEnd, Leave, AfterAuth, Goto, Thread
  <2>4. \A i \in clientList : node'[i].host = node[i].host
                              /\ (i # cur[t] => (Open(i)' => Open(i)))
    BY <1>a, <2>1, <2>3 DEF CanAuth, Node
  <2>5. \A i : ~Ending(i)
    BY <2>1, <2>2 DEF Critical
  <2>6. Covered
    <3> SUFFICES ASSUME NEW i \in clientList, Open(i)'
                 PROVE  node[i].host \in rules
      BY <2>3, <2>4
    <3>1. CASE i = cur[t]
      BY <2>1, <3>1
    <3>2. CASE i # cur[t]
      BY <1>2, <2>4, <2>5, <3>2
    <3> QED BY <3>1, <3>2
  <2>7. Installed'
    BY <1>a, <2>2, <2>3 DEF Installed, Critical
  <2> QED BY <1>2, <2>6, <2>7
<1>10. ASSUME NEW t \in Thread, NEW i \in clientList,
              \A u \in Thread : u # t => pc[u] \notin Critical,
              FwDeauthenticate(i),
              pc' = [pc EXCEPT ![t] = "deauth_script"], cur'[t] = i,
              pc[t] # "deauth_script", node' = node, clientList' = clientList
       PROVE  RulesInv'
  <2>1. Covered
    <3> SUFFICES ASSUME NEW j \in clientList, Open(j)
                 PROVE  node[j].host \in rules' \/ Ending(j)'
      BY <1>10
    <3>1. CASE j = i
      BY <1>a, <1>10, <3>1
    <3>2. CASE j # i
      <4>1. node[j].host \in rules
        BY <1>2, <1>10 DEF Critical
      <4> QED BY <1>3, <1>10, <3>2, <4>1 DEF FwDeauthenticate
    <3> QED BY <3>1, <3>2
  <2>2. Installed'
    BY <1>a, <1>10 DEF Installed, Critical
  <2> QED BY <1>2, <2>1, <2>2
<1>11. ASSUME NEW t \in Thread, DeauthStart(t)
       PROVE  RulesInv'
  <2>1. \A u \in Thread : pc[u] \notin Critical
    BY <1>1, <1>11, Alone DEF DeauthStart, Acquire
  <2> QED BY <1>10, <1>11, <2>1 DEF DeauthStart, CanDeauth, Goto, Critical
<1>12. ASSUME NEW t \in Thread, NEW i \in clientList, ClientListDelete(i),
              rules' = rules, \A u \in Thread : u # t => pc[u] \notin Critical,
              pc'[t] \notin Busy, \A u \in Thread : u # t => pc'[u] = pc[u],
              pc[t] = "deauth_script" => cur[t] = i
       PROVE  RulesInv'
  <2>1. clientList' = clientList \ {i}
        /\ \A j \in clientList : j # i => Settled(j)
    BY <1>a, <1>12 DEF ClientListDelete, Free, Settled
  <2>2. \A j \in clientList : j # i => ~Ending(j)
    BY <1>12 DEF Critical
  <2>3. Covered
    BY <1>2, <1>12, <2>1, <2>2 DEF Settled
  <2>4. Installed'
    BY <1>12 DEF Installed, Busy, Critical
  <2> QED BY <1>2, <2>3, <2>4
<1>13. ASSUME NEW t \in Thread, DeauthEnd(t)
       PROVE  RulesInv'
  <2>1. CanDeauth(cur[t]) /\ pc[t] = "deauth_script"
    BY <1>1, <1>13 DEF DeauthEnd, WorkInv, Works
  <2>2. \A u \in Thread : u # t => pc[u] \notin Critical
    BY <1>6, <2>1 DEF Critical
  <2>3. \E l \in {"walk", "unpin", "idle"} : pc' = [pc EXCEPT ![t] = l]
    BY <1>13 DEF DeauthEnd, Leave, AfterDeauth, Goto
  <2>4. pc'[t] \notin Busy /\ \A u \in Thread : u # t => pc'[u] = pc[u]
    BY <1>a, <2>3 DEF Busy
  <2> QED BY <1>12, <1>13, <2>1, <2>2, <2>4 DEF DeauthEnd, CanDeauth
<1>14. ASSUME pc["watchdog"] = "walk"
       PROVE  \A u \in Thread : u # "watchdog" => pc[u] \notin Critical
  BY <1>6, <1>14 DEF Critical, Thread
<1>15. CASE WatchdogPreauthIdle
  <2> PICK i \in clientList : Visit(i) /\ ClientListDelete(i)
    BY <1>15 DEF WatchdogPreauthIdle
  <2>1. pc["watchdog"] = "walk" /\ pc' = pc /\ rules' = rules
    BY <1>15 DEF WatchdogPreauthIdle, Visit
  <2> QED BY <1>12, <1>14, <2>1 DEF Busy, Thread
<1>16. CASE WatchdogDeauth
  <2> PICK i \in clientList :
         /\ Visit(i) /\ FwDeauthenticate(i)
         /\ cur' = [cur EXCEPT !["watchdog"] = i]
    BY <1>16 DEF WatchdogDeauth
  <2>1. /\ pc["watchdog"] = "walk" /\ "watchdog" \in Thread
        /\ pc' = [pc EXCEPT !["watchdog"] = "deauth_script"]
        /\ node' = node /\ clientList' = clientList
    BY <1>16 DEF WatchdogDeauth, Visit, Goto, Thread
  <2>2. cur'["watchdog"] = i
    BY <1>a, <2>1
  <2> QED BY <1>10, <1>14, <2>1, <2>2
<1>17. CASE WatchdogThrottle
  <2> PICK k \in clientList :
         /\ Visit(k) /\ node[k].state = "Authenticated"
         /\ node' = [node EXCEPT ![k].state = "AuthBlocked"]
    BY <1>17 DEF WatchdogThrottle
  <2>1. /\ rules' = rules /\ clientList' = clientList /\ pc' = pc /\ cur' = cur
        /\ pc["watchdog"] = "walk"
    BY <1>17 DEF WatchdogThrottle, Visit
  <2>2. \A i \in clientList : node'[i].host = node[i].host /\ (Open(i)' => Open(i))
    BY <1>a DEF Node
  <2>3. \A t \in Thread : pc[t] # "counters"
    BY <1>14, <2>1 DEF Critical
  <2>4. Covered
    BY <1>2, <2>1, <2>2
  <2>5. Installed'
    BY <2>1, <2>3 DEF Installed
  <2> QED BY <1>2, <2>4, <2>5
<1> QED BY <1>4, <1>5, <1>7, <1>8, <1>9, <1>11, <1>13, <1>15, <1>16, <1>17,
           SessionSteps
        DEF SessionStep

\* As long as no two hosts share an address and the nft commands that add access
\* rules succeed (auth.c:444 does not look), a client shown as authenticated or
\* throttled has its access rules or is being deauthenticated.
THEOREM SessionsHaveAccess == Spec => []SessionHasAccess
<1>1. CASE ~(IpsUnique /\ ~AddsMayFail)
  <2>1. SessionHasAccess
    BY <1>1 DEF SessionHasAccess
  <2> QED BY <2>1, PTL
<1>2. CASE IpsUnique /\ ~AddsMayFail
  <2>1. Init => RulesInv
    BY DEF Init, RulesInv, SessionHasAccess, Installed
  <2>2. IInv /\ OneEntryPerHost /\ RulesInv /\ [Next]_vars => RulesInv'
    BY <1>2, RulesStep
  <2>3. RulesInv => SessionHasAccess
    BY DEF RulesInv
  <2> QED BY <2>1, <2>2, <2>3, Invariance, HostsUnique, PTL DEF Spec
<1> QED BY <1>1, <1>2

-----------------------------------------------------------------------------
(* The session_end_explicit flag                                           *)

\* No step leaves session_end_explicit set: auth_change_state reads and clears
\* it before it can be refused, and no other command sets it.
LEMMA ExplicitStep ==
  ASSUME IInv, ExplicitFlagTransient, [Next]_vars
  PROVE  ExplicitFlagTransient'
<1> USE DEF listVars, trustVars
<1>1. TypeOK /\ WorkInv /\ LockInv /\ PinInv /\ NodesAccountedFor
  BY DEF IInv
<1>0. "ndsctl" \in Thread /\ "watchdog" \in Thread
      /\ "ndsctl" \notin Http /\ "watchdog" \notin Http
  BY ConstantsAssumption DEF Thread
<1>a. /\ node \in [Id -> Node] /\ pc \in [Thread -> Label] /\ clientList \subseteq Id
      /\ cur \in [Thread -> Id \cup {0}]
  BY <1>1 DEF TypeOK
<1> DEFINE NoNew == \A i \in Id : node'[i].explicit => node[i].explicit
           NdsctlStays == pc'["ndsctl"] = pc["ndsctl"] /\ cur'["ndsctl"] = cur["ndsctl"]
\* No step but ndsctl auth sets the flag, and no other thread moves ndsctl.
<1>2. ASSUME NoNew, NdsctlStays \/ pc["ndsctl"] # "auth"
      PROVE  ExplicitFlagTransient'
  BY <1>2 DEF ExplicitFlagTransient
<1>3. ASSUME NEW t \in Thread, Authenticating(t)
      PROVE  ExplicitFlagTransient'
  <2>1. CASE AuthStart(t)
    <3>1. /\ cur[t] \in clientList /\ pc[t] = "auth" /\ cur' = cur
          /\ node' = [node EXCEPT ![cur[t]].explicit = FALSE]
          /\ pc' = [pc EXCEPT ![t] = "binauth_action"]
      BY <2>1 DEF AuthStart, CanAuth, TakeExplicit, Goto
    <3>2. \A i \in Id : node'[i].explicit = (i # cur[t] /\ node[i].explicit)
      BY <1>a, <3>1 DEF Node
    <3> QED BY <1>a, <1>0, <3>1, <3>2 DEF ExplicitFlagTransient
  <2>2. CASE AuthNoClient(t)
    <3>1. t # "ndsctl"
      BY <1>0, <1>1, <2>2 DEF AuthNoClient, WorkInv, Works
    <3>2. NdsctlStays /\ NoNew
      BY <1>a, <1>0, <2>2, <3>1 DEF AuthNoClient, AuthEnd, Leave, Goto
    <3> QED BY <1>2, <3>2
  <2>3. CASE AuthRefused(t) \/ AuthAccept(t) \/ AuthCountersFail(t) \/ AuthComplete(t)
    <3>1. pc[t] # "auth"
      BY <2>3 DEF AuthRefused, AuthAccept, AuthCountersFail, AuthComplete
    <3>2. t # "ndsctl" => NdsctlStays
      BY <1>a, <1>0, <2>3 DEF AuthRefused, AuthAccept, AuthCountersFail,
         AuthComplete,
                              AuthEnd, Leave, Goto
    <3>3. NoNew
      BY <1>a, <2>3 DEF AuthRefused, AuthAccept, AuthCountersFail,
         AuthComplete, Node
    <3> QED BY <1>2, <3>1, <3>2, <3>3
  <2> QED BY <1>3, <2>1, <2>2, <2>3 DEF Authenticating
<1>4. ASSUME NEW i \in clientList, ClientListDelete(i)
      PROVE  NoNew
  BY <1>a, <1>4 DEF ClientListDelete, Free, FreeNode, Node
<1>5. ASSUME NEW t \in Thread, Deauthenticating(t)
      PROVE  ExplicitFlagTransient'
  <2>1. pc[t] # "auth"
    BY <1>5 DEF Deauthenticating, DeauthStart, DeauthNoClient, DeauthEnd
  <2>2. t # "ndsctl" => NdsctlStays
    BY <1>a, <1>0, <1>5 DEF Deauthenticating, DeauthStart, DeauthNoClient,
       DeauthEnd, Leave, Goto
  <2>3. CASE DeauthStart(t) \/ DeauthNoClient(t)
    BY <1>2, <2>1, <2>2, <2>3 DEF DeauthStart, DeauthNoClient
  <2>4. CASE DeauthEnd(t)
    <3>1. cur[t] \in clientList
      BY <1>1, <2>4 DEF DeauthEnd, WorkInv, Works, CanDeauth
    <3> QED BY <1>2, <1>4, <2>1, <2>2, <2>4, <3>1 DEF DeauthEnd
  <2> QED BY <1>5, <2>3, <2>4 DEF Deauthenticating
<1>6. ASSUME NEW h \in Http, HttpRequest(h) \/ HttpStep(h)
      PROVE  ExplicitFlagTransient'
  <2>0. h \in Thread /\ h # "ndsctl"
    BY <1>0 DEF Thread
  <2>1. NdsctlStays
    <3>1. \E l : pc' = [pc EXCEPT ![h] = l]
      BY <1>6 DEF HttpRequest, HttpStep, HttpFind, HttpNotAllocated, HttpAdd,
         HttpDispatch,
                  HttpServe, HttpDeny, HttpAuthenticate, HttpBinAuthRefused,
                  HttpBinAuthAccepted, HttpLock, HttpAfterAuth, HttpUnpin, Goto
    <3>2. cur' = cur \/ \E k : cur' = [cur EXCEPT ![h] = k]
      BY <1>6 DEF HttpRequest, HttpStep, HttpFind, HttpNotAllocated, HttpAdd,
         HttpDispatch,
                  HttpServe, HttpDeny, HttpAuthenticate, HttpBinAuthRefused,
                  HttpBinAuthAccepted, HttpLock, HttpAfterAuth, HttpUnpin
    <3> QED BY <1>a, <1>0, <2>0, <3>1, <3>2
  <2>2. ASSUME NEW host \in Host, HttpFind(h, host)
        PROVE  NoNew
    BY <1>a, <2>2 DEF HttpFind, Pin, Node
  <2>3. ASSUME HttpAdd(h) PROVE NoNew
    <3>1. CASE FindHost(req[h]) # {} \/ Full
      BY <1>a, <2>3, <3>1 DEF HttpAdd, FindAgain, Pin, Node
    <3>2. CASE FindHost(req[h]) = {} /\ ~Full
      <4>1. node' = [node EXCEPT ![clientId] = NewNode(req[h], 1)]
        BY <2>3, <3>2 DEF HttpAdd, FindAgain
      <4>2. ~NewNode(req[h], 1).explicit
        BY DEF NewNode, FreeNode
      <4> QED BY <1>a, <4>1, <4>2
    <3> QED BY <3>1, <3>2
  <2>4. ASSUME HttpUnpin(h) PROVE NoNew
    BY <1>a, <2>4 DEF HttpUnpin, Free, FreeNode, Node
  <2>5. ASSUME HttpAuthenticate(h) \/ HttpAfterAuth(h) PROVE NoNew
    BY <1>a, <2>5 DEF HttpAuthenticate, HttpAfterAuth, Node
  <2>6. ASSUME node' = node PROVE NoNew
    BY <2>6
  <2>7. HttpNotAllocated(h) \/ HttpDispatch(h) \/ HttpServe(h) \/ HttpDeny(h)
          \/ HttpBinAuthRefused(h) \/ HttpBinAuthAccepted(h) \/ HttpLock(h)
        => node' = node
    BY DEF HttpNotAllocated, HttpDispatch, HttpServe, HttpDeny,
       HttpBinAuthRefused,
           HttpBinAuthAccepted, HttpLock
  <2>8. NoNew
    BY <1>6, <2>2, <2>3, <2>4, <2>5, <2>6, <2>7 DEF HttpRequest, HttpStep
  <2> QED BY <1>2, <2>1, <2>8
<1>7. ASSUME NEW t \in {"ndsctl", "watchdog"}, NEW i \in clientList,
             NEW length, AuthFound(t, i, length),
             pc[t] \in {"idle", "preempt"},
                    t = "watchdog" => length # "explicit"
      PROVE  ExplicitFlagTransient'
  <2>1. LockFree /\ pc["ndsctl"] # "auth"
    BY <1>0, <1>1, <1>7, Alone DEF AuthFound, Acquire, Critical
  <2>2. \A j \in Id : ~node[j].explicit
    BY <2>1 DEF ExplicitFlagTransient
  <2>3. i \in Id /\ node[i] \in Node
    BY <1>a
  <2>4. Grant(node[i], length).explicit = (length = "explicit")
    BY <2>3 DEF Grant, Node
  <2>5. \A j \in Id : node'[j].explicit => j = i /\ t = "ndsctl"
    BY <1>a, <1>7, <2>2, <2>3, <2>4 DEF AuthFound
  <2>6. t = "ndsctl" => pc'["ndsctl"] = "auth" /\ cur'["ndsctl"] = i
    BY <1>a, <1>0, <1>7 DEF AuthFound, Goto
  <2> QED BY <2>5, <2>6 DEF ExplicitFlagTransient
<1>8. ASSUME NEW t \in {"ndsctl", "watchdog"}, NEW host \in Host,
             NEW length \in Session, AuthNew(t, host, length),
             pc[t] \in {"idle", "preempt"},
                    t = "watchdog" => length # "explicit"
      PROVE  ExplicitFlagTransient'
  <2> DEFINE n == NewNode(host, 0)
  <2>1. LockFree /\ pc["ndsctl"] # "auth"
    BY <1>0, <1>1, <1>8, Alone DEF AuthNew, Critical
  <2>2. \A j \in Id : ~node[j].explicit
    BY <2>1 DEF ExplicitFlagTransient
  <2>3. n \in Node /\ ~n.explicit
    BY NewNodeType DEF NewNode, FreeNode
  <2>4. Grant(n, length).explicit = (length = "explicit")
    BY <2>3 DEF Grant, Node
  <2>5. CASE host.mac \in trusted
    <3>1. node' = [node EXCEPT ![clientId] = n]
      BY <1>8, <2>5 DEF AuthNew
    <3>2. \A j \in Id : ~node'[j].explicit
      BY <1>a, <2>2, <2>3, <3>1
    <3> QED BY <3>2 DEF ExplicitFlagTransient
  <2>6. CASE host.mac \notin trusted
    <3>1. /\ node' = [node EXCEPT ![clientId] = Grant(n, length)]
          /\ cur' = [cur EXCEPT ![t] = clientId] /\ pc' = [pc EXCEPT ![t] = "auth"]
      BY <1>8, <2>6 DEF AuthNew, Goto
    <3> HIDE DEF n
    <3>2. \A j \in Id : node'[j].explicit => j = clientId /\ t = "ndsctl"
      BY <1>a, <1>8, <2>2, <2>4, <3>1
    <3>3. t = "ndsctl" => pc'["ndsctl"] = "auth" /\ cur'["ndsctl"] = clientId
      BY <1>a, <1>0, <3>1
    <3> QED BY <3>2, <3>3 DEF ExplicitFlagTransient
  <2> QED BY <2>5, <2>6
<1>9. CASE NdsctlCommand
  <2>1. CASE NdsctlAuth
    <3>1. PICK length \in {GlobalSession, "explicit"} :
            \/ \E i \in clientList : AuthFound("ndsctl", i, length)
            \/ \E host \in Host : AuthNew("ndsctl", host, length)
      BY <2>1 DEF NdsctlAuth
    <3>2. length \in Session /\ pc["ndsctl"] = "idle"
      BY <2>1 DEF NdsctlAuth, GlobalSession, Session
    <3> QED BY <1>7, <1>8, <3>1, <3>2
  <2>2. CASE NdsctlDeauth \/ NdsctlTrust \/ NdsctlUntrust
    BY <1>2, <2>2 DEF NdsctlDeauth, NdsctlTrust, NdsctlUntrust
  <2> QED BY <1>9, <2>1, <2>2 DEF NdsctlCommand
<1>10. CASE WatchdogStart
  BY <1>2, <1>10, <1>a, <1>0 DEF WatchdogStart, Goto
<1>11. CASE WatchdogStep
  <2>1. NdsctlStays
    BY <1>a, <1>0, <1>11 DEF WatchdogStep, WatchdogPass, WatchdogPreauthIdle,
       WatchdogDeauth,
                             WatchdogThrottle, WatchdogUnlock, WatchdogSleep,
                                    Goto
  <2>2. NoNew
    <3>1. CASE WatchdogPreauthIdle
      BY <1>4, <3>1 DEF WatchdogPreauthIdle
    <3>2. CASE WatchdogThrottle
      BY <1>a, <3>2 DEF WatchdogThrottle, Node
    <3>3. node' = node => NoNew
      OBVIOUS
    <3> QED BY <1>11, <3>1, <3>2, <3>3 DEF WatchdogStep, WatchdogPass,
               WatchdogDeauth,
                                           WatchdogUnlock, WatchdogSleep
  <2> QED BY <1>2, <2>1, <2>2
<1>12. CASE WatchdogPreempt
  <2> PICK host \in Host, length \in {GlobalSession, "listed"} :
         IF FindMac(host.mac) # {}
         THEN AuthFound("watchdog", First(FindMac(host.mac)), length)
         ELSE AuthNew("watchdog", host, length)
    BY <1>12 DEF WatchdogPreempt
  <2>1. FindMac(host.mac) # {} => First(FindMac(host.mac)) \in clientList
    BY <1>1, FirstIn DEF TypeOK, FindMac
  <2>2. length \in Session /\ length # "explicit" /\ pc["watchdog"] = "preempt"
    BY <1>12 DEF WatchdogPreempt, GlobalSession, Session
  <2> QED BY <1>7, <1>8, <2>1, <2>2
<1>13. ASSUME NEW i \in Id, SessionElapses(i)
       PROVE  ExplicitFlagTransient'
  <2>1. NoNew
    BY <1>a, <1>13 DEF SessionElapses, Node
  <2> QED BY <1>2, <1>13, <2>1 DEF SessionElapses
<1>14. CASE UNCHANGED vars
  BY <1>2, <1>14 DEF vars
<1> QED BY <1>3, <1>5, <1>6, <1>9, <1>10, <1>11, <1>12, <1>13, <1>14 DEF Next

\* session_end_explicit is set only between the ndsctl auth that set it and the
\* auth_change_state of the same command.
THEOREM ExplicitIsTransient == Spec => []ExplicitFlagTransient
<1>1. Init => ExplicitFlagTransient
  BY DEF Init, ExplicitFlagTransient, FreeNode
<1>2. IInv /\ ExplicitFlagTransient /\ [Next]_vars => ExplicitFlagTransient'
  BY ExplicitStep
<1> QED BY <1>1, <1>2, Invariance, PTL DEF Spec

-----------------------------------------------------------------------------
(* What outranks the session length of ndsctl auth                         *)

\* The threads that give a session length of their own to a client.
Giver == {"ndsctl", "watchdog"}

\* Labels between that and the moment BinAuth has been asked.
Asking == {"auth", "binauth_action"}

\* The explicit length of the client such a thread works on is its own: a
\* length that an earlier command left has been overwritten, so that
\* session_end_explicit is set, and then keeps the quota file out.
GivenInv ==
  \A t \in Giver :
    /\ pc[t] = "auth" /\ node[cur[t]].session = "explicit" =>
         node[cur[t]].explicit
    /\ pc[t] = "binauth_action" /\ node[cur[t]].session = "explicit" => keep

\* A step that leaves alone the lengths of the entries that stay listed, and
\* who is asking for whom.
LengthsKept ==
  /\ \A i \in clientList \cap clientList' :
       /\ node'[i].session = node[i].session
       /\ node'[i].explicit = node[i].explicit
  /\ keep' = keep
  /\ \A t \in Giver : pc'[t] \in Asking => pc'[t] = pc[t] /\ cur'[t] = cur[t]

\* What the steps of the program can do to session lengths.
LengthStep ==
  \/ LengthsKept
  \/ \E t \in Thread : AuthStart(t) \/ AuthRefused(t) \/ AuthAccept(t)
  \/ \E h \in Http : HttpAuthenticate(h) \/ HttpAfterAuth(h)
  \/ \E t \in Giver, length \in Session :
       \/ \E i \in clientList : AuthFound(t, i, length)
       \/ \E host \in Host : AuthNew(t, host, length)

\* No entry has the next id yet.
LEMMA NextIdUnused ==
  ASSUME IInv
  PROVE  clientId \notin clientList
<1>1. clientList \subseteq heap /\ \A i \in heap : i < clientId
  BY DEF IInv, NodesAccountedFor, ListInv
<1>2. clientId \in Int
  BY ConstantsAssumption DEF IInv, TypeOK
<1>3. ~(clientId < clientId)
  BY <1>2
<1> QED BY <1>1, <1>3

\* Every step does one of these to the session lengths.
LEMMA LengthSteps ==
  ASSUME IInv, [Next]_vars
  PROVE  LengthStep
<1> USE DEF listVars, trustVars
<1>1. TypeOK /\ PinInv /\ NodesAccountedFor /\ WorkInv
  BY DEF IInv
<1>0. Giver \subseteq Thread /\ Giver \cap Http = {} /\ Http \subseteq Thread
  BY ConstantsAssumption DEF Thread, Giver
<1>a. /\ node \in [Id -> Node] /\ pc \in [Thread -> Label] /\ clientList \subseteq Id
      /\ cur \in [Thread -> Id \cup {0}]
  BY <1>1 DEF TypeOK
<1> DEFINE Same == \A i \in clientList \cap clientList' :
                     /\ node'[i].session = node[i].session
                     /\ node'[i].explicit = node[i].explicit
\* A thread that does not come to ask leaves those who do where they are.
<1>2. ASSUME NEW t \in Thread, NEW l, pc' = [pc EXCEPT ![t] = l],
             t \in Giver => l \notin Asking,
             \A u \in Thread : u # t => cur'[u] = cur[u],
             Same, keep' = keep
      PROVE  LengthStep
  <2>1. \A u \in Giver : pc'[u] \in Asking => pc'[u] = pc[u] /\ cur'[u] = cur[u]
    BY <1>0, <1>a, <1>2
  <2> QED BY <1>2, <2>1 DEF LengthStep, LengthsKept
<1>3. ASSUME NEW i \in Id, ClientListDelete(i)
      PROVE  Same
  BY <1>a, <1>3 DEF ClientListDelete, Free
<1>4. ASSUME NEW t \in Thread, Authenticating(t)
      PROVE  LengthStep
  <2>1. AfterAuth(t) \notin Asking
    BY <1>0 DEF AfterAuth, Asking, Thread
  <2>2. ASSUME AuthEnd(t)
        PROVE  pc' = [pc EXCEPT ![t] = AfterAuth(t)]
               /\ \A u \in Thread : u # t => cur'[u] = cur[u]
    BY <1>a, <2>2 DEF AuthEnd, Leave, Goto
  <2>3. CASE AuthNoClient(t)
    BY <1>2, <2>1, <2>2, <2>3 DEF AuthNoClient
  <2>4. CASE AuthCountersFail(t)
    BY <1>2, <2>1, <2>2, <2>4 DEF AuthCountersFail
  <2>5. CASE AuthComplete(t)
    <3>1. Same
      BY <1>a, <2>5 DEF AuthComplete, Node
    <3> QED BY <1>2, <2>1, <2>2, <2>5, <3>1 DEF AuthComplete
  <2> QED BY <1>4, <2>3, <2>4, <2>5 DEF Authenticating, LengthStep
<1>5. ASSUME NEW t \in Thread, Deauthenticating(t)
      PROVE  LengthStep
  <2>1. ASSUME NEW l, Leave(t, l)
        PROVE  pc' = [pc EXCEPT ![t] = l] /\ \A u \in Thread : u # t => cur'[u] = cur[u]
    BY <1>a, <2>1 DEF Leave, Goto
  <2>2. AfterDeauth(t) \notin Asking
    BY DEF AfterDeauth, Asking
  <2>3. CASE DeauthStart(t)
    BY <1>2, <2>3 DEF DeauthStart, Goto, Asking
  <2>4. CASE DeauthNoClient(t)
    BY <1>2, <2>1, <2>2, <2>4 DEF DeauthNoClient
  <2>5. CASE DeauthEnd(t)
    <3>1. cur[t] \in Id
      BY <1>a, <1>1, <2>5 DEF DeauthEnd, WorkInv, Works, CanDeauth
    <3>2. Same /\ keep' = keep
      BY <1>3, <2>5, <3>1 DEF DeauthEnd
    <3>3. \E l : l \notin Asking /\ Leave(t, l)
      BY <2>2, <2>5 DEF DeauthEnd, Asking
    <3> QED BY <1>2, <2>1, <3>2, <3>3
  <2> QED BY <1>5, <2>3, <2>4, <2>5 DEF Deauthenticating
<1>6. ASSUME NEW h \in Http, HttpRequest(h) \/ HttpStep(h)
      PROVE  LengthStep
  <2>1. \E l : pc' = [pc EXCEPT ![h] = l]
    BY <1>6 DEF HttpRequest, HttpStep, HttpFind, HttpNotAllocated, HttpAdd,
       HttpDispatch, HttpServe, HttpDeny, HttpAuthenticate, HttpBinAuthRefused,
       HttpBinAuthAccepted, HttpLock, HttpAfterAuth, HttpUnpin, Goto
  <2>2. cur' = cur \/ \E k : cur' = [cur EXCEPT ![h] = k]
    BY <1>6 DEF HttpRequest, HttpStep, HttpFind, HttpNotAllocated, HttpAdd,
       HttpDispatch, HttpServe, HttpDeny, HttpAuthenticate, HttpBinAuthRefused,
       HttpBinAuthAccepted, HttpLock, HttpAfterAuth, HttpUnpin
  <2>3. h \in Thread /\ h \notin Giver
    BY <1>0
  <2>4. ASSUME Same, keep' = keep
        PROVE  LengthStep
    BY <1>2, <1>a, <2>1, <2>2, <2>3, <2>4
  <2>5. keep' = keep
    BY <1>6 DEF HttpRequest, HttpStep, HttpFind, HttpNotAllocated, HttpAdd,
       HttpDispatch, HttpServe, HttpDeny, HttpAuthenticate, HttpBinAuthRefused,
       HttpBinAuthAccepted, HttpLock, HttpAfterAuth, HttpUnpin
  <2>6. ASSUME NEW host \in Host, HttpFind(h, host)
        PROVE  Same
    BY <1>a, <2>6 DEF HttpFind, Pin, Node
  <2>7. ASSUME HttpAdd(h) PROVE Same
    <3>1. CASE FindHost(req[h]) # {} \/ Full
      BY <1>a, <2>7, <3>1 DEF HttpAdd, FindAgain, Pin, Node
    <3>2. CASE FindHost(req[h]) = {} /\ ~Full
      <4>1. node' = [node EXCEPT ![clientId] = NewNode(req[h], 1)]
        BY <2>7, <3>2 DEF HttpAdd, FindAgain
      <4>2. clientId \notin clientList
        BY NextIdUnused
      <4> QED BY <1>a, <4>1, <4>2
    <3> QED BY <3>1, <3>2
  <2>8. ASSUME HttpUnpin(h) PROVE Same
    BY <1>a, <1>1, <2>8 DEF HttpUnpin, LastUser, Free, Node, NodesAccountedFor
  <2>9. ASSUME node' = node PROVE Same
    BY <2>9
  <2>10. HttpNotAllocated(h) \/ HttpDispatch(h) \/ HttpServe(h) \/ HttpDeny(h)
          \/ HttpBinAuthRefused(h) \/ HttpBinAuthAccepted(h) \/ HttpLock(h)
        => node' = node
    BY DEF HttpNotAllocated, HttpDispatch, HttpServe, HttpDeny,
       HttpBinAuthRefused, HttpBinAuthAccepted, HttpLock
  <2>11. CASE HttpAuthenticate(h) \/ HttpAfterAuth(h)
    BY <2>11 DEF LengthStep
  <2> QED BY <1>6, <2>4, <2>5, <2>6, <2>7, <2>8, <2>9, <2>10, <2>11
          DEF HttpRequest, HttpStep
<1>7. CASE NdsctlCommand
  <2>1. CASE NdsctlAuth
    BY <2>1 DEF NdsctlAuth, LengthStep, Giver, GlobalSession, Session
  <2>2. CASE NdsctlDeauth
    <3>1. pc' = [pc EXCEPT !["ndsctl"] = "deauth"] /\ Same /\ keep' = keep
      BY <2>2 DEF NdsctlDeauth, Goto
    <3>2. "ndsctl" \in Thread /\ \E k : cur' = [cur EXCEPT !["ndsctl"] = k]
      BY <2>2 DEF NdsctlDeauth, Thread
    <3> QED BY <1>2, <1>a, <3>1, <3>2 DEF Asking
  <2>3. CASE NdsctlTrust \/ NdsctlUntrust
    BY <2>3 DEF NdsctlTrust, NdsctlUntrust, LengthStep, LengthsKept
  <2> QED BY <1>7, <2>1, <2>2, <2>3 DEF NdsctlCommand
<1>8. CASE WatchdogStart
  BY <1>2, <1>8 DEF WatchdogStart, Goto, Asking, Thread
<1>9. CASE WatchdogStep
  <2>0. "watchdog" \in Thread
    BY DEF Thread
  <2>1. Same
    <3>1. CASE WatchdogPreauthIdle
      BY <1>a, <1>3, <3>1 DEF WatchdogPreauthIdle
    <3>2. CASE WatchdogThrottle
      BY <1>a, <3>2 DEF WatchdogThrottle, Node
    <3>3. node' = node => Same
      OBVIOUS
    <3> QED BY <1>9, <3>1, <3>2, <3>3 DEF WatchdogStep, WatchdogPass,
               WatchdogDeauth, WatchdogUnlock, WatchdogSleep
  <2>2. keep' = keep
    BY <1>9 DEF WatchdogStep, WatchdogPass, WatchdogPreauthIdle,
       WatchdogDeauth, WatchdogThrottle, WatchdogUnlock, WatchdogSleep
  <2>3. pc' = pc \/ \E l \in {"deauth_script", "preempt", "idle"} :
                      pc' = [pc EXCEPT !["watchdog"] = l]
    BY <1>9 DEF WatchdogStep, WatchdogPass, WatchdogPreauthIdle,
       WatchdogDeauth, WatchdogThrottle, WatchdogUnlock, WatchdogSleep, Goto
  <2>4. \A u \in Thread : u # "watchdog" => cur'[u] = cur[u]
    BY <1>a, <1>9 DEF WatchdogStep, WatchdogPass, WatchdogPreauthIdle,
       WatchdogDeauth, WatchdogThrottle, WatchdogUnlock, WatchdogSleep
  <2>5. pc' = pc => cur' = cur
    BY <1>a, <1>9, <2>0 DEF WatchdogStep, WatchdogPass, WatchdogPreauthIdle,
       WatchdogDeauth, WatchdogThrottle, WatchdogUnlock, WatchdogSleep, Visit,
       Goto
  <2>6. CASE pc' = pc
    BY <2>1, <2>2, <2>5, <2>6 DEF LengthStep, LengthsKept
  <2>7. CASE \E l \in {"deauth_script", "preempt", "idle"} :
               pc' = [pc EXCEPT !["watchdog"] = l]
    BY <1>2, <2>0, <2>1, <2>2, <2>4, <2>7 DEF Asking
  <2> QED BY <2>3, <2>6, <2>7
<1>10. CASE WatchdogPreempt
  <2> PICK host \in Host, length \in {GlobalSession, "listed"} :
         IF FindMac(host.mac) # {}
         THEN AuthFound("watchdog", First(FindMac(host.mac)), length)
         ELSE AuthNew("watchdog", host, length)
    BY <1>10 DEF WatchdogPreempt
  <2>1. FindMac(host.mac) # {} => First(FindMac(host.mac)) \in clientList
    BY <1>1, FirstIn DEF TypeOK, FindMac
  <2>2. length \in Session
    BY DEF GlobalSession, Session
  <2> QED BY <2>1, <2>2 DEF LengthStep, Giver
<1>11. ASSUME NEW i \in Id, SessionElapses(i)
       PROVE  LengthStep
  <2>1. Same
    BY <1>a, <1>11 DEF SessionElapses, Node
  <2> QED BY <1>11, <2>1 DEF SessionElapses, LengthStep, LengthsKept
<1>12. CASE UNCHANGED vars
  BY <1>12 DEF vars, LengthStep, LengthsKept
<1> QED BY <1>4, <1>5, <1>6, <1>7, <1>8, <1>9, <1>10, <1>11, <1>12 DEF Next

\* The requests set lengths unlocked, but never the explicit one.
LEMMA RequestLength ==
  ASSUME TypeOK, NEW h \in Http, HttpAuthenticate(h) \/ HttpAfterAuth(h)
  PROVE  /\ clientList' = clientList /\ keep' = keep
         /\ pc'[h] # pc[h]
         /\ pc[h] \in {"preauthenticated", "post"}
         /\ \A t \in Giver : pc'[t] = pc[t] /\ cur'[t] = cur[t]
         /\ \A i \in Id : i # cur[h] => node'[i] = node[i]
         /\ \A i \in Id :
              /\ node'[i].explicit = node[i].explicit
              /\ node'[i].session = "explicit" => node[i].session = "explicit"
<1> USE DEF listVars
<1>1. /\ node \in [Id -> Node] /\ pc \in [Thread -> Label]
      /\ h \in Thread /\ Giver \subseteq Thread /\ h \notin Giver
  BY ConstantsAssumption DEF TypeOK, Thread, Giver
<1>2. /\ clientList' = clientList /\ keep' = keep /\ cur' = cur
      /\ pc[h] \in {"preauthenticated", "post"}
  BY DEF HttpAuthenticate, HttpAfterAuth
<1>3. \E l \in {"do_binauth", "lock", "unpin"} : pc' = [pc EXCEPT ![h] = l]
  BY DEF HttpAuthenticate, HttpAfterAuth, Goto
<1>4. \/ node' = node
      \/ \E s \in {"none", "global", "script"} :
           node' = [node EXCEPT ![cur[h]].session = s,
                                ![cur[h]].expired = FALSE]
  BY DEF HttpAuthenticate, HttpAfterAuth, GlobalSession
<1>5. /\ \A i \in Id : i # cur[h] => node'[i] = node[i]
      /\ \A i \in Id :
           /\ node'[i].explicit = node[i].explicit
           /\ node'[i].session = "explicit" => node[i].session = "explicit"
  BY <1>1, <1>4 DEF Node
<1> QED BY <1>1, <1>2, <1>3, <1>5

\* No step lets a thread lose the explicit length it gave.
LEMMA GivenStep ==
  ASSUME IInv, GivenInv, [Next]_vars
  PROVE  GivenInv'
<1> USE DEF listVars
<1>1. TypeOK /\ LockInv /\ WorkInv /\ WorkInv'
  BY WorkStep DEF IInv
<1>0. Giver \subseteq Thread /\ Giver \cap Http = {}
  BY ConstantsAssumption DEF Thread, Giver
<1>a. /\ node \in [Id -> Node] /\ pc \in [Thread -> Label] /\ clientList \subseteq Id
      /\ cur \in [Thread -> Id \cup {0}]
  BY <1>1 DEF TypeOK
<1>2. \A t \in Giver : pc[t] \in Asking => cur[t] \in clientList
  BY <1>0, <1>1 DEF WorkInv, Works, CanAuth, Asking
<1>3. \A t \in Giver : pc'[t] \in Asking => cur'[t] \in clientList'
  BY <1>0, <1>1 DEF WorkInv, Works, CanAuth, Asking
<1>4. CASE LengthsKept
  BY <1>2, <1>3, <1>4 DEF LengthsKept, GivenInv, Asking
\* The holder of the lock moves, and no other thread is asking.
<1>5. ASSUME NEW t \in Thread, LockFree \/ pc[t] \in Critical, NEW l,
             pc' = [pc EXCEPT ![t] = l]
      PROVE  \A u \in Giver : u # t => pc'[u] \notin Asking
  BY <1>0, <1>1, <1>a, <1>5, Alone DEF Critical, Asking
<1>6. ASSUME NEW t \in Thread, AuthStart(t)
      PROVE  GivenInv'
  <2>1. /\ cur[t] \in Id /\ pc[t] = "auth" /\ cur' = cur
        /\ keep' = node[cur[t]].explicit
        /\ node' = [node EXCEPT ![cur[t]].explicit = FALSE]
        /\ pc' = [pc EXCEPT ![t] = "binauth_action"]
    BY <1>a, <1>6 DEF AuthStart, CanAuth, TakeExplicit, Goto
  <2>2. node'[cur[t]].session = node[cur[t]].session
    BY <1>a, <2>1 DEF Node
  <2>3. \A u \in Giver : u # t => pc'[u] \notin Asking
    BY <1>5, <2>1 DEF Critical
  <2> QED BY <1>0, <1>a, <2>1, <2>2, <2>3 DEF GivenInv, Asking
<1>7. ASSUME NEW t \in Thread, AuthRefused(t) \/ AuthAccept(t)
      PROVE  GivenInv'
  <2>1. AfterAuth(t) \notin Asking
    BY <1>0 DEF AfterAuth, Asking, Thread
  <2>2. pc[t] = "binauth_action"
        /\ \E l : l \notin Asking /\ pc' = [pc EXCEPT ![t] = l]
    BY <1>7, <2>1 DEF AuthRefused, AuthAccept, AuthEnd, Leave, Goto, Asking
  <2>3. \A u \in Giver : pc'[u] \notin Asking
    BY <1>0, <1>a, <1>5, <2>2 DEF Critical
  <2> QED BY <2>3 DEF GivenInv, Asking
<1>8. ASSUME NEW h \in Http, HttpAuthenticate(h) \/ HttpAfterAuth(h)
      PROVE  GivenInv'
  BY <1>1, <1>2, <1>a, <1>8, RequestLength DEF GivenInv, Asking
<1>9. ASSUME NEW t \in Giver, NEW length \in Session, NEW i \in clientList,
             AuthFound(t, i, length)
      PROVE  GivenInv'
  <2>1. /\ LockFree /\ pc' = [pc EXCEPT ![t] = "auth"]
        /\ cur' = [cur EXCEPT ![t] = i]
        /\ node' = [node EXCEPT ![i] = Grant(node[i], length)]
    BY <1>a, <1>9 DEF AuthFound, Acquire, Goto
  <2>2. i \in Id /\ node[i] \in Node
    BY <1>a
  <2>3. LET n == Grant(node[i], length) IN n.session = "explicit" => n.explicit
    BY <2>2 DEF Grant, Node
  <2>4. pc'[t] = "auth" /\ cur'[t] = i /\ node'[i] = Grant(node[i], length)
    BY <1>0, <1>a, <2>1, <2>2
  <2>5. \A u \in Giver : u # t => pc'[u] \notin Asking
    BY <1>0, <1>5, <2>1
  <2> QED BY <2>3, <2>4, <2>5 DEF GivenInv, Asking
<1>10. ASSUME NEW t \in Giver, NEW length \in Session, NEW host \in Host,
              AuthNew(t, host, length)
       PROVE  GivenInv'
  <2> DEFINE n == NewNode(host, 0)
  <2>0. LockFree /\ Append
    BY <1>10 DEF AuthNew
  <2>1. CASE host.mac \in trusted
    <3>1. \A u \in Giver : pc'[u] \notin Asking
      BY <1>0, <1>1, <1>10, <2>0, <2>1, Alone DEF AuthNew, Critical, Asking
    <3> QED BY <3>1 DEF GivenInv, Asking
  <2>2. CASE host.mac \notin trusted
    <3>1. n \in Node
      BY NewNodeType
    <3>2. LET m == Grant(n, length) IN m.session = "explicit" => m.explicit
      BY <3>1 DEF Grant, Node
    <3>3. /\ pc' = [pc EXCEPT ![t] = "auth"] /\ cur' = [cur EXCEPT ![t] = clientId]
          /\ node' = [node EXCEPT ![clientId] = Grant(n, length)]
      BY <1>10, <2>2 DEF AuthNew, Goto
    <3> HIDE DEF n
    <3>4. clientId \in Id
      BY <1>1, <2>0, <3>1, <3>3, GrantType, AppendType
    <3>5. pc'[t] = "auth" /\ cur'[t] = clientId /\ node'[clientId] = Grant(n, length)
      BY <1>0, <1>a, <3>3, <3>4
    <3>6. \A u \in Giver : u # t => pc'[u] \notin Asking
      BY <1>0, <1>5, <2>0, <3>3
    <3> QED BY <3>2, <3>5, <3>6 DEF GivenInv, Asking
  <2> QED BY <2>1, <2>2
<1> QED BY <1>4, <1>6, <1>7, <1>8, <1>9, <1>10, LengthSteps DEF LengthStep

\* The lengths of the entries that stay listed, and who may replace one.
LengthYields ==
  \A i \in clientList \cap clientList' :
    Granting(i) /\ node[i].session = "explicit" /\ node'[i].session # "explicit" =>
      \E h \in Http :
        /\ cur[h] = i /\ pc'[h] # pc[h]
        /\ pc[h] \in {"preauthenticated", "binauth_action", "post"}

\* A step that replaces an explicit length is one of a request of the client.
LEMMA YieldStep ==
  ASSUME IInv, GivenInv, [Next]_vars
  PROVE  LengthYields
<1> USE DEF listVars
<1>1. TypeOK /\ LockInv /\ WorkInv
  BY DEF IInv
<1>0. Thread = Http \cup Giver
  BY DEF Thread, Giver
<1>a. /\ node \in [Id -> Node] /\ pc \in [Thread -> Label] /\ clientList \subseteq Id
      /\ cur \in [Thread -> Id \cup {0}]
  BY <1>1 DEF TypeOK
<1>2. ASSUME \A i \in clientList \cap clientList' :
               node[i].session = "explicit" => node'[i].session = "explicit"
      PROVE  LengthYields
  BY <1>2 DEF LengthYields
<1>3. CASE LengthsKept
  BY <1>2, <1>3 DEF LengthsKept
<1>4. ASSUME NEW t \in Thread, AuthStart(t) \/ AuthRefused(t)
      PROVE  LengthYields
  BY <1>a, <1>2, <1>4 DEF AuthStart, CanAuth, TakeExplicit, AuthRefused, Node
<1>5. ASSUME NEW t \in Thread, AuthAccept(t)
      PROVE  LengthYields
  <2>1. /\ cur[t] \in clientList /\ pc[t] = "binauth_action"
        /\ pc' = [pc EXCEPT ![t] = "counters"]
    BY <1>1, <1>5 DEF AuthAccept, WorkInv, Works, CanAuth, Goto
  <2>2. CASE node' = node
    BY <1>2, <2>2
  <2>3. CASE /\ ~keep
             /\ node' = [node EXCEPT ![cur[t]].session = "script",
                                     ![cur[t]].expired = FALSE]
    <3>1. \A i \in Id : i # cur[t] => node'[i] = node[i]
      BY <1>a, <2>3
    <3>2. CASE t \in Http
      BY <1>a, <2>1, <3>1, <3>2 DEF LengthYields
    <3>3. CASE t \in Giver
      <4>1. node[cur[t]].session # "explicit"
        BY <2>1, <2>3, <3>3 DEF GivenInv
      <4> QED BY <1>2, <1>a, <3>1, <4>1
    <3> QED BY <1>0, <3>2, <3>3
  <2> QED BY <1>5, <2>2, <2>3 DEF AuthAccept, QuotaMayReplace
<1>6. ASSUME NEW h \in Http, HttpAuthenticate(h) \/ HttpAfterAuth(h)
      PROVE  LengthYields
  BY <1>1, <1>a, <1>6, RequestLength DEF LengthYields
<1>7. ASSUME NEW t \in Giver, NEW length \in Session, NEW i \in clientList,
             AuthFound(t, i, length)
      PROVE  LengthYields
  <2>1. /\ LockFree /\ node[i].state = "Preauthenticated"
        /\ node' = [node EXCEPT ![i] = Grant(node[i], length)]
    BY <1>a, <1>7 DEF AuthFound, Acquire
  <2>2. ~Granting(i)
    BY <1>1, <2>1, Alone DEF Granting, Critical
  <2>3. \A j \in Id : j # i => node'[j] = node[j]
    BY <1>a, <2>1
  <2> QED BY <1>a, <2>2, <2>3 DEF LengthYields
<1>8. ASSUME NEW t \in Giver, NEW length \in Session, NEW host \in Host,
             AuthNew(t, host, length)
      PROVE  LengthYields
  <2>1. clientId \notin clientList
    BY NextIdUnused
  <2>2. \E n : node' = [node EXCEPT ![clientId] = n]
    BY <1>8 DEF AuthNew
  <2>3. \A j \in clientList : node'[j] = node[j]
    BY <1>a, <2>1, <2>2
  <2> QED BY <1>2, <2>3
<1> QED BY <1>3, <1>4, <1>5, <1>6, <1>7, <1>8, LengthSteps DEF LengthStep

\* The session length that ndsctl auth gave is replaced by nothing but a
\* request of the client itself, from that ndsctl auth on.
THEOREM ExplicitOutranks == Spec => ExplicitYieldsOnlyToRequest
<1>1. Init => GivenInv
  BY DEF Init, GivenInv, Giver, Thread
<1>2. IInv /\ GivenInv /\ [Next]_vars => GivenInv'
  BY GivenStep
<1>3. IInv /\ GivenInv /\ [Next]_vars => [LengthYields]_vars
  BY YieldStep
<1>4. Spec => [][LengthYields]_vars
  BY <1>1, <1>2, <1>3, Invariance, PTL DEF Spec
<1> QED BY <1>4 DEF ExplicitYieldsOnlyToRequest, LengthYields
=============================================================================
