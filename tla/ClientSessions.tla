--------------------------- MODULE ClientSessions ---------------------------
(***************************************************************************)
(* The client list of openNDS (client_list.c), the sessions of its clients *)
(* (auth.c) and the access rules these sessions have in nftables           *)
(* (fw_iptables.c), as the threads of the daemon work on them:             *)
(*   - the threads in Http serve HTTP requests (libmicrohttpd_cb),         *)
(*   - "ndsctl" runs the commands that arrive on the control socket,       *)
(*   - "watchdog" refreshes the list every checkinterval seconds.          *)
(* A step is what a thread does between two points where another thread    *)
(* can see or change what it works on: taking or releasing the list lock,  *)
(* starting a script or an nft command, and each unlocked access of an     *)
(* HTTP request to the client it has pinned.                               *)
(***************************************************************************)
EXTENDS Integers, FiniteSets

CONSTANTS
  Ip, Mac,         \* addresses
  Host,            \* the (ip, mac) pairs that requests come from
  NoHost,          \* no pair
  Http,            \* HTTP threads: MHD runs one internal polling thread
  MaxClients,      \* config->maxclients
  MaxId,           \* bound: client ids the model hands out
  BinAuth,         \* config->binauth is set
  Preemptive,      \* config->allow_preemptive_authentication == 1
  SessionTimeout,  \* config->sessiontimeout > 0
  FupThrottle,     \* a fup_*_throttle_rate is set: quotas throttle
  AddsMayFail,     \* an nft command that adds access rules may fail
  TrustOps         \* MACs that ndsctl trust and untrust are used with

ASSUME ConstantsAssumption ==
  /\ Host \subseteq [ip : Ip, mac : Mac]
  /\ NoHost \notin Host
  /\ IsFiniteSet(Http) /\ Http \cap {"ndsctl", "watchdog", "free"} = {}
  /\ MaxClients \in Nat
  /\ MaxId \in Nat
  /\ BinAuth \in BOOLEAN
  /\ Preemptive \in BOOLEAN
  /\ SessionTimeout \in BOOLEAN
  /\ FupThrottle \in BOOLEAN
  /\ AddsMayFail \in BOOLEAN
  /\ TrustOps \subseteq Mac

Id == 1..MaxId
Thread == Http \cup {"ndsctl", "watchdog"}

\* fw_connection_state
State == {"Preauthenticated", "Authenticated", "AuthBlocked", "Trusted"}

\* Where session_end comes from: "none" is 0 (no end), "global" sessiontimeout,
\* "explicit" a duration given to ndsctl auth, "listed" one of the preemptive
\* authentication database, "script" one that BinAuth assigned.
Session == {"none", "global", "explicit", "listed", "script"}

VARIABLES
  clientList,   \* ids of the linked list; ids grow towards its tail
  clientCount,  \* client_count
  clientId,     \* client_id, the next id
  heap,         \* ids of the nodes that are allocated
  node,         \* the t_client of each id
  trusted,      \* config->trustedmaclist
  trustRules,   \* MACs with a rule in the trusted chain
  rules,        \* hosts whose access rules are installed
  listLock,     \* holder of client_list_mutex
  pc,           \* what each thread does next
  cur,          \* the id of the client each thread points to, or 0
  req,          \* the host an HTTP request came from, while it has no client
  keep,         \* the lock holder's local session_end_explicit
  override,     \* the HTTP thread's BinAuth gave a session length of its own
  pos           \* the watchdog's place in the list

listVars == <<clientList, clientCount, clientId, heap>>
trustVars == <<trusted, trustRules>>
vars == <<clientList, clientCount, clientId, heap, node, trusted, trustRules,
          rules, listLock, pc, cur, req, keep, override, pos>>

Node == [host : Host \cup {NoHost}, state : State, refcount : Nat,
         dead : BOOLEAN, session : Session, explicit : BOOLEAN,
         expired : BOOLEAN]

FreeNode == [host |-> NoHost, state |-> "Preauthenticated", refcount |-> 0,
             dead |-> FALSE, session |-> "none", explicit |-> FALSE,
             expired |-> FALSE]

Init ==
  /\ clientList = {} /\ clientCount = 0 /\ clientId = 1 /\ heap = {}
  /\ node = [i \in Id |-> FreeNode]
  /\ trusted \in {{}, TrustOps} /\ trustRules = trusted
  /\ rules = {}
  /\ listLock = "free"
  /\ pc = [t \in Thread |-> "idle"]
  /\ cur = [t \in Thread |-> 0]
  /\ req = [h \in Http |-> NoHost]
  /\ keep = FALSE
  /\ override = [h \in Http |-> FALSE]
  /\ pos = 0

-----------------------------------------------------------------------------
(* The linked list                                                         *)

\* The first entry of a set of entries: ids grow along the list.
First(S) == CHOOSE i \in S : \A j \in S : i <= j

FindHost(host) == {i \in clientList : node[i].host = host}
FindMac(mac) == {i \in clientList : node[i].host.mac = mac}
FindIp(ip) == {i \in clientList : node[i].host.ip = ip}

\* _client_list_append refuses; MaxId stands in for the range of client_id.
Full == clientCount >= MaxClients \/ clientId > MaxId

NewNode(host, pins) ==
  [FreeNode EXCEPT
     !.host = host,
     !.state = IF host.mac \in trusted THEN "Trusted" ELSE "Preauthenticated",
     !.refcount = pins]

\* The list and heap after an append; the caller gives the new node.
Append ==
  /\ ~Full
  /\ clientList' = clientList \cup {clientId}
  /\ heap' = heap \cup {clientId}
  /\ clientId' = clientId + 1
  /\ clientCount' = clientCount + 1

\* _client_list_free_node.
Free(i) == heap' = heap \ {i} /\ node' = [node EXCEPT ![i] = FreeNode]

\* Fault: the entry is freed although a request still uses it.
FreeInUse(i) ==
  /\ clientList' = clientList \ {i}
  /\ clientCount' = clientCount - 1
  /\ UNCHANGED clientId
  /\ Free(i)

\* Fault: an entry in use is also counted out when it is marked dead.
CountOutTwice(i) ==
  /\ clientList' = clientList \ {i}
  /\ clientCount' = clientCount - (IF node[i].refcount > 0 THEN 2 ELSE 1)
  /\ UNCHANGED clientId
  /\ IF node[i].refcount > 0
     THEN node' = [node EXCEPT ![i].dead = TRUE] /\ UNCHANGED heap
     ELSE Free(i)

\* client_list_delete: an entry that a request still uses is freed on unpin.
ClientListDelete(i) ==
  /\ clientList' = clientList \ {i}
  /\ clientCount' = clientCount - 1
  /\ UNCHANGED clientId
  /\ IF node[i].refcount > 0
     THEN node' = [node EXCEPT ![i].dead = TRUE] /\ UNCHANGED heap
     ELSE Free(i)

-----------------------------------------------------------------------------
(* Firewall: the rules of a client are found by its IP when deleted        *)

\* What the nft commands return is not looked at (auth.c:444).
FwAuthenticate(i) ==
  \/ rules' = rules \cup {node[i].host}
  \/ AddsMayFail /\ UNCHANGED rules

\* Fault: the whole chain is flushed.
FwFlush(i) == rules' = {}

FwDeauthenticate(i) == rules' = {r \in rules : r.ip # node[i].host.ip}

-----------------------------------------------------------------------------
(* Locking                                                                 *)

Goto(t, l) == pc' = [pc EXCEPT ![t] = l]
LockFree == listLock = "free"
Acquire(t) == LockFree /\ listLock' = t
Release == listLock' = "free"

\* A session_end taken from the configuration, or none when that is 0.
GlobalSession == IF SessionTimeout THEN "global" ELSE "none"

\* A thread leaves the list lock, or gives up before it took it, and goes on.
Leave(t, l) ==
  /\ Goto(t, l)
  /\ cur' = IF t \in Http THEN cur ELSE [cur EXCEPT ![t] = 0]

-----------------------------------------------------------------------------
(* auth_client_auth_nolock and auth_change_state to Authenticated, under   *)
(* the list lock, by any thread                                            *)

AfterAuth(t) == CASE t \in Http -> "post"
                  [] t = "ndsctl" -> "idle"
                  [] t = "watchdog" -> "preempt"

\* Fault: a return from auth_client_auth that leaves the list locked.
AuthEndLocked(t) == UNCHANGED listLock /\ Leave(t, AfterAuth(t))

AuthEnd(t) == Release /\ Leave(t, AfterAuth(t))

\* Faults: the pointer of the caller is used without looking for the client
\* again; a client is authenticated in any state.
CanAuthUnlisted(i) == node[i].state = "Preauthenticated"
CanAuthAgain(i) == i \in clientList

\* The client is still on the list, and auth_change_state accepts it.
CanAuth(i) == i \in clientList /\ node[i].state = "Preauthenticated"

\* Fault: the flag is left for a later return to clear.
ReadExplicit(i) == keep' = node[i].explicit /\ UNCHANGED node

\* The session_end_explicit flag is read and cleared.
TakeExplicit(i) ==
  /\ keep' = node[i].explicit
  /\ node' = [node EXCEPT ![i].explicit = FALSE]

\* That is done before BinAuth is asked.
AuthStart(t) ==
  /\ pc[t] = "auth"
  /\ CanAuth(cur[t])
  /\ TakeExplicit(cur[t])
  /\ Goto(t, "binauth_action")
  /\ UNCHANGED <<listVars, trustVars, rules, listLock, cur, req, override, pos>>

\* The client has left the list, or is in another state: nothing is changed.
AuthNoClient(t) ==
  /\ pc[t] = "auth"
  /\ ~CanAuth(cur[t])
  /\ AuthEnd(t)
  /\ UNCHANGED <<listVars, node, trustVars, rules, req, keep, override, pos>>

\* BinAuth exits nonzero.
AuthRefused(t) ==
  /\ pc[t] = "binauth_action"
  /\ BinAuth
  /\ AuthEnd(t)
  /\ keep' = FALSE
  /\ UNCHANGED <<listVars, node, trustVars, rules, req, override, pos>>

\* Fault: the quota file outranks every session length.
QuotaAlways == TRUE

\* session_end_explicit == 0
QuotaMayReplace == ~keep

\* BinAuth accepts, or there is none: the rules go in, and the quota file of
\* the client may hold a session length, which an explicit duration outranks.
AuthAccept(t) ==
  /\ pc[t] = "binauth_action"
  /\ FwAuthenticate(cur[t])
  /\ \/ UNCHANGED node
     \/ /\ QuotaMayReplace
        /\ node' = [node EXCEPT ![cur[t]].session = "script",
                                ![cur[t]].expired = FALSE]
  /\ keep' = FALSE
  /\ Goto(t, "counters")
  /\ UNCHANGED <<listVars, trustVars, listLock, cur, req, override, pos>>

\* iptables_fw_counters_update fails: the rules go out again.
AuthCountersFail(t) ==
  /\ pc[t] = "counters"
  /\ FwDeauthenticate(cur[t])
  /\ AuthEnd(t)
  /\ UNCHANGED <<listVars, node, trustVars, req, keep, override, pos>>

AuthComplete(t) ==
  /\ pc[t] = "counters"
  /\ node' = [node EXCEPT ![cur[t]].state = "Authenticated"]
  /\ AuthEnd(t)
  /\ UNCHANGED <<listVars, trustVars, rules, req, keep, override, pos>>

Authenticating(t) ==
  \/ AuthStart(t) \/ AuthNoClient(t) \/ AuthRefused(t)
  \/ AuthAccept(t) \/ AuthCountersFail(t) \/ AuthComplete(t)

-----------------------------------------------------------------------------
(* auth_client_deauth and auth_change_state back to Preauthenticated: the  *)
(* rules go out, BinAuth is told, and the client leaves the list           *)

\* What auth_change_state accepts; it refuses AuthBlocked and Trusted.
CanDeauth(i) == i \in clientList /\ node[i].state = "Authenticated"

AfterDeauth(t) == IF t \in Http THEN "unpin" ELSE "idle"

DeauthStart(t) ==
  /\ pc[t] = "deauth"
  /\ CanDeauth(cur[t])
  /\ Acquire(t)
  /\ FwDeauthenticate(cur[t])
  /\ Goto(t, "deauth_script")
  /\ UNCHANGED <<listVars, node, trustVars, cur, req, keep, override, pos>>

DeauthNoClient(t) ==
  /\ pc[t] = "deauth"
  /\ LockFree
  /\ ~CanDeauth(cur[t])
  /\ Leave(t, AfterDeauth(t))
  /\ UNCHANGED <<listVars, node, trustVars, rules, listLock, req, keep,
                 override, pos>>

DeauthEnd(t) ==
  /\ pc[t] = "deauth_script"
  /\ ClientListDelete(cur[t])
  /\ IF t = "watchdog"
     THEN Leave(t, "walk") /\ UNCHANGED listLock
     ELSE Leave(t, AfterDeauth(t)) /\ Release
  /\ UNCHANGED <<trustVars, rules, req, keep, override, pos>>

Deauthenticating(t) == DeauthStart(t) \/ DeauthNoClient(t) \/ DeauthEnd(t)

-----------------------------------------------------------------------------
(* HTTP: libmicrohttpd_cb                                                  *)

Pin(i) == node' = [node EXCEPT ![i].refcount = @ + 1]

\* The client of the request is looked up and pinned.
HttpFind(h, host) ==
  /\ pc[h] = "idle"
  /\ LockFree
  /\ IF FindHost(host) # {}
     THEN LET i == First(FindHost(host)) IN
          /\ Pin(i)
          /\ cur' = [cur EXCEPT ![h] = i]
          /\ Goto(h, "check")
          /\ UNCHANGED req
     ELSE /\ req' = [req EXCEPT ![h] = host]
          /\ Goto(h, "add")
          /\ UNCHANGED <<node, cur>>
  /\ UNCHANGED <<listVars, trustVars, rules, listLock, keep, override, pos>>

\* The DHCP check refuses the address: 403, before the lock is taken.
HttpNotAllocated(h) ==
  /\ pc[h] = "add"
  /\ req' = [req EXCEPT ![h] = NoHost]
  /\ Goto(h, "idle")
  /\ UNCHANGED <<listVars, node, trustVars, rules, listLock, cur, keep,
                 override, pos>>

\* Fault: the host is appended without another look at the list.
AppendBlindly(host) == {}

\* client_list_find_or_append
FindAgain(host) == FindHost(host)

\* client_list_add_client_pinned looks again: another thread may have added
\* the host since HttpFind.
HttpAdd(h) ==
  /\ pc[h] = "add"
  /\ LockFree
  /\ req' = [req EXCEPT ![h] = NoHost]
  /\ IF FindAgain(req[h]) # {}
     THEN LET i == First(FindAgain(req[h])) IN
          /\ Pin(i)
          /\ cur' = [cur EXCEPT ![h] = i]
          /\ Goto(h, "check")
          /\ UNCHANGED listVars
     ELSE IF Full
     THEN Goto(h, "idle") /\ UNCHANGED <<listVars, node, cur>>
     ELSE /\ Append
          /\ node' = [node EXCEPT ![clientId] = NewNode(req[h], 1)]
          /\ cur' = [cur EXCEPT ![h] = clientId]
          /\ Goto(h, "check")
  /\ UNCHANGED <<trustVars, rules, listLock, keep, override, pos>>

\* fw_connection_state is read without the lock.
HttpDispatch(h) ==
  /\ pc[h] = "check"
  /\ Goto(h, IF node[cur[h]].state \in {"Authenticated", "Trusted"}
             THEN "authenticated" ELSE "preauthenticated")
  /\ UNCHANGED <<listVars, node, trustVars, rules, listLock, cur, req, keep,
                 override, pos>>

\* A page, a redirect or an error; an invalid token too.
HttpServe(h) ==
  /\ pc[h] \in {"authenticated", "preauthenticated"}
  /\ Goto(h, "unpin")
  /\ UNCHANGED <<listVars, node, trustVars, rules, listLock, cur, req, keep,
                 override, pos>>

\* denydir: the client asks to be deauthenticated.
HttpDeny(h) ==
  /\ pc[h] = "authenticated"
  /\ Goto(h, "deauth")
  /\ UNCHANGED <<listVars, node, trustVars, rules, listLock, cur, req, keep,
                 override, pos>>

\* authenticate_client, with a valid token: the session is reset, unlocked.
HttpAuthenticate(h) ==
  /\ pc[h] = "preauthenticated"
  /\ node' = [node EXCEPT ![cur[h]].session = GlobalSession,
                          ![cur[h]].expired = FALSE]
  /\ Goto(h, IF BinAuth THEN "do_binauth" ELSE "lock")
  /\ UNCHANGED <<listVars, trustVars, rules, listLock, cur, req, keep,
                 override, pos>>

\* do_binauth: refused, or the ndsctl lock is taken.
HttpBinAuthRefused(h) ==
  /\ pc[h] = "do_binauth"
  /\ Goto(h, "unpin")
  /\ UNCHANGED <<listVars, node, trustVars, rules, listLock, cur, req, keep,
                 override, pos>>

HttpBinAuthAccepted(h) ==
  /\ pc[h] = "do_binauth"
  /\ \E own \in BOOLEAN : override' = [override EXCEPT ![h] = own]
  /\ Goto(h, "lock")
  /\ UNCHANGED <<listVars, node, trustVars, rules, listLock, cur, req, keep,
                 pos>>

\* auth_client_auth takes the list lock.
HttpLock(h) ==
  /\ pc[h] = "lock"
  /\ Acquire(h)
  /\ Goto(h, "auth")
  /\ UNCHANGED <<listVars, node, trustVars, rules, cur, req, keep, override,
                 pos>>

\* Whatever auth_client_auth returned, the session length that do_binauth
\* gave is written, unlocked.
HttpAfterAuth(h) ==
  /\ pc[h] = "post"
  /\ IF override[h]
     THEN node' = [node EXCEPT ![cur[h]].session = "script",
                               ![cur[h]].expired = FALSE]
     ELSE UNCHANGED node
  /\ override' = [override EXCEPT ![h] = FALSE]
  /\ Goto(h, "unpin")
  /\ UNCHANGED <<listVars, trustVars, rules, listLock, cur, req, keep, pos>>

\* Fault: refcount is tested before it is decremented.
LastUserEarly(i, left) == node[i].dead /\ node[i].refcount = 0

LastUser(i, left) == node[i].dead /\ left = 0

\* client_list_unpin: the last user of a dead node frees it.
HttpUnpin(h) ==
  /\ pc[h] = "unpin"
  /\ LockFree
  /\ LET i == cur[h]
         left == IF node[i].refcount > 0 THEN node[i].refcount - 1 ELSE 0 IN
     IF LastUser(i, left)
     THEN Free(i)
     ELSE node' = [node EXCEPT ![i].refcount = left] /\ UNCHANGED heap
  /\ cur' = [cur EXCEPT ![h] = 0]
  /\ Goto(h, "idle")
  /\ UNCHANGED <<clientList, clientCount, clientId, trustVars, rules, listLock,
                 req, keep, override, pos>>

HttpRequest(h) == \E host \in Host : HttpFind(h, host)

HttpStep(h) ==
  \/ HttpNotAllocated(h) \/ HttpAdd(h) \/ HttpDispatch(h) \/ HttpServe(h)
  \/ HttpDeny(h) \/ HttpAuthenticate(h) \/ HttpBinAuthRefused(h)
  \/ HttpBinAuthAccepted(h) \/ HttpLock(h) \/ HttpAfterAuth(h) \/ HttpUnpin(h)

-----------------------------------------------------------------------------
(* ndsctl auth, and the preemptive authentication of the watchdog          *)

\* The values that the caller of auth_client_auth_nolock gives the client.
Grant(n, length) ==
  [n EXCEPT !.session = length, !.expired = FALSE,
            !.explicit = (length = "explicit")]

\* The client is found (by token, ip or mac), and is authenticated with a
\* session length if it is preauthenticated.
AuthFound(t, i, length) ==
  /\ Acquire(t)
  /\ node[i].state = "Preauthenticated"
  /\ node' = [node EXCEPT ![i] = Grant(@, length)]
  /\ cur' = [cur EXCEPT ![t] = i]
  /\ Goto(t, "auth")
  /\ UNCHANGED <<listVars, trustVars, rules, req, keep, override, pos>>

\* No client is found by the ip or mac of a host that is connected: it joins
\* the list first. A trusted host joins it and is left as it is.
AuthNew(t, host, length) ==
  /\ Preemptive
  /\ FindMac(host.mac) = {} \/ (t = "ndsctl" /\ FindIp(host.ip) = {})
  /\ LockFree
  /\ Append
  /\ IF host.mac \in trusted
     THEN /\ node' = [node EXCEPT ![clientId] = NewNode(host, 0)]
          /\ UNCHANGED <<listLock, cur, pc>>
     ELSE /\ node' = [node EXCEPT ![clientId] = Grant(NewNode(host, 0), length)]
          /\ listLock' = t
          /\ cur' = [cur EXCEPT ![t] = clientId]
          /\ Goto(t, "auth")
  /\ UNCHANGED <<trustVars, rules, req, keep, override, pos>>

NdsctlAuth ==
  /\ pc["ndsctl"] = "idle"
  /\ \E length \in {GlobalSession, "explicit"} :
       \/ \E i \in clientList : AuthFound("ndsctl", i, length)
       \/ \E host \in Host : AuthNew("ndsctl", host, length)

\* The client is looked up under the lock; the lock is dropped and taken
\* again by auth_client_deauth, which looks for the id.
NdsctlDeauth ==
  /\ pc["ndsctl"] = "idle"
  /\ LockFree
  /\ \E i \in clientList : cur' = [cur EXCEPT !["ndsctl"] = i]
  /\ Goto("ndsctl", "deauth")
  /\ UNCHANGED <<listVars, node, trustVars, rules, listLock, req, keep,
                 override, pos>>

\* The list of trusted MACs changes first; when nft then fails it stays so.
NdsctlTrust ==
  /\ pc["ndsctl"] = "idle"
  /\ \E mac \in TrustOps \ trusted :
       /\ trusted' = trusted \cup {mac}
       /\ trustRules' \in {trustRules, trustRules \cup {mac}}
  /\ UNCHANGED <<listVars, node, rules, listLock, pc, cur, req, keep, override,
                 pos>>

NdsctlUntrust ==
  /\ pc["ndsctl"] = "idle"
  /\ \E mac \in trusted :
       /\ trusted' = trusted \ {mac}
       /\ trustRules' \in {trustRules, trustRules \ {mac}}
  /\ UNCHANGED <<listVars, node, rules, listLock, pc, cur, req, keep, override,
                 pos>>

NdsctlCommand == NdsctlAuth \/ NdsctlDeauth \/ NdsctlTrust \/ NdsctlUntrust

-----------------------------------------------------------------------------
(* The watchdog: fw_refresh_client_list                                    *)

Ahead == {i \in clientList : i > pos}

\* The counters are read under the lock; when that fails nothing is done.
WatchdogStart ==
  /\ pc["watchdog"] = "idle"
  /\ Acquire("watchdog")
  /\ pos' = 0
  /\ Goto("watchdog", "walk")
  /\ UNCHANGED <<listVars, node, trustVars, rules, cur, req, keep, override>>

Visit(i) == pc["watchdog"] = "walk" /\ Ahead # {} /\ i = First(Ahead)

\* Fault: only sessions of the configured length are timed.
DueGlobal(i) ==
  /\ node[i].state = "Authenticated"
  /\ node[i].expired
  /\ node[i].session = "global"

\* session_end has passed, and auth_change_state accepts to deauthenticate.
Due(i) == node[i].state = "Authenticated" /\ node[i].expired

\* Neither a timeout nor a quota applies, or auth_change_state refuses.
WatchdogPass ==
  /\ \E i \in clientList :
       /\ Visit(i)
       /\ ~Due(i)
       /\ pos' = i
  /\ UNCHANGED <<listVars, node, trustVars, rules, listLock, pc, cur, req, keep,
                 override>>

\* Fault: the idle timeout deletes a client in any state.
AnyIdle(i) == TRUE

PreauthIdle(i) == node[i].state = "Preauthenticated"

\* A preauthenticated client that has been idle is deleted.
WatchdogPreauthIdle ==
  /\ \E i \in clientList :
       /\ Visit(i)
       /\ PreauthIdle(i)
       /\ ClientListDelete(i)
       /\ pos' = i
  /\ UNCHANGED <<trustVars, rules, listLock, pc, cur, req, keep, override>>

\* Session end, a quota without throttling, or idle.
WatchdogDeauth ==
  /\ \E i \in clientList :
       /\ Visit(i)
       /\ node[i].state = "Authenticated"
       /\ FwDeauthenticate(i)
       /\ cur' = [cur EXCEPT !["watchdog"] = i]
       /\ pos' = i
  /\ Goto("watchdog", "deauth_script")
  /\ UNCHANGED <<listVars, node, trustVars, listLock, req, keep, override>>

\* A quota is used up and a throttle rate is set.
WatchdogThrottle ==
  /\ FupThrottle
  /\ \E i \in clientList :
       /\ Visit(i)
       /\ node[i].state = "Authenticated"
       /\ ~node[i].expired
       /\ node' = [node EXCEPT ![i].state = "AuthBlocked"]
       /\ pos' = i
  /\ UNCHANGED <<listVars, trustVars, rules, listLock, pc, cur, req, keep,
                 override>>

WatchdogUnlock ==
  /\ pc["watchdog"] = "walk"
  /\ Ahead = {}
  /\ Release
  /\ pos' = 0
  /\ Goto("watchdog", "preempt")
  /\ UNCHANGED <<listVars, node, trustVars, rules, cur, req, keep, override>>

\* client_auth for the next record of the preemptive authentication database.
WatchdogPreempt ==
  /\ pc["watchdog"] = "preempt"
  /\ \E host \in Host, length \in {GlobalSession, "listed"} :
       IF FindMac(host.mac) # {}
       THEN AuthFound("watchdog", First(FindMac(host.mac)), length)
       ELSE AuthNew("watchdog", host, length)

\* No record is left: the thread sleeps until the next interval.
WatchdogSleep ==
  /\ pc["watchdog"] = "preempt"
  /\ Goto("watchdog", "idle")
  /\ UNCHANGED <<listVars, node, trustVars, rules, listLock, cur, req, keep,
                 override, pos>>

WatchdogStep ==
  \/ WatchdogPass \/ WatchdogPreauthIdle \/ WatchdogDeauth \/ WatchdogThrottle
  \/ WatchdogUnlock \/ WatchdogSleep

-----------------------------------------------------------------------------
\* The watchdog's clock reaches the session_end of a client; the watchdog reads
\* the clock once, before it walks the list.
SessionElapses(i) ==
  /\ pc["watchdog"] \notin {"walk", "deauth_script"}
  /\ i \in clientList
  /\ node[i].state \in {"Authenticated", "AuthBlocked"}
  /\ node[i].session # "none"
  /\ ~node[i].expired
  /\ node' = [node EXCEPT ![i].expired = TRUE]
  /\ UNCHANGED <<listVars, trustVars, rules, listLock, pc, cur, req, keep,
                 override, pos>>

Next ==
  \/ \E t \in Thread : Authenticating(t) \/ Deauthenticating(t)
  \/ \E h \in Http : HttpRequest(h) \/ HttpStep(h)
  \/ NdsctlCommand
  \/ WatchdogStart \/ WatchdogStep \/ WatchdogPreempt
  \/ \E i \in Id : SessionElapses(i)

Spec == Init /\ [][Next]_vars

-----------------------------------------------------------------------------
(* Properties                                                              *)

Label == {"idle", "add", "check", "authenticated", "preauthenticated",
          "do_binauth", "lock", "auth", "binauth_action", "counters", "post",
          "unpin", "deauth", "deauth_script", "walk", "preempt"}

\* Every variable keeps its type (the globals of client_list.c and the fields
\* of t_client), and the list never holds more than maxclients entries.
TypeOK ==
  /\ clientList \subseteq Id /\ heap \subseteq Id
  /\ clientCount \in 0..MaxClients
  /\ clientId \in 1..(MaxId + 1)
  /\ node \in [Id -> Node]
  /\ trusted \subseteq Mac /\ trustRules \subseteq Mac
  /\ rules \subseteq Host
  /\ listLock \in Thread \cup {"free"}
  /\ pc \in [Thread -> Label]
  /\ cur \in [Thread -> Id \cup {0}]
  /\ req \in [Http -> Host \cup {NoHost}]
  /\ keep \in BOOLEAN
  /\ override \in [Http -> BOOLEAN]
  /\ pos \in Id \cup {0}

\* Labels at which an HTTP thread uses the client it has pinned.
Pinned == Label \ {"idle", "add", "walk", "preempt"}

\* No thread follows a pointer to a freed node: a request's client stays
\* allocated until its client_list_unpin, whoever deletes it from the list,
\* and what auth_change_state works on under the lock is on the list.
NoUseAfterFree ==
  /\ \A h \in Http : pc[h] \in Pinned => cur[h] \in heap
  /\ \A t \in Thread :
       pc[t] \in {"binauth_action", "counters", "deauth_script"} =>
         cur[t] \in clientList

\* Every allocated node is on the list, or is dead and waits for the unpin of
\* a request (nothing leaks); refcount counts the requests that use the node;
\* client_count is the length of the list.
NodesAccountedFor ==
  /\ heap = clientList \cup {i \in Id : node[i].dead}
  /\ \A i \in Id : node[i].dead => i \notin clientList /\ node[i].refcount > 0
  /\ \A i \in Id : node[i].refcount = Cardinality({h \in Http : cur[h] = i})
  /\ clientCount = Cardinality(clientList)

\* A host has one entry, although client_list_add_client_pinned runs the DHCP
\* check between two looks at the list.
OneEntryPerHost ==
  \A i, j \in clientList : node[i].host = node[j].host => i = j

\* The firewall lets through only hosts with a session on the list: no path
\* (refusal, failed counters, deauthentication, two hosts behind one address)
\* leaves the rules of a host behind. The one exception is the lock holder that
\* has installed the rules and is about to set the state.
AccessHasSession ==
  \A host \in rules : \E i \in clientList :
    /\ node[i].host = host
    /\ \/ node[i].state \in {"Authenticated", "AuthBlocked"}
       \/ \E t \in Thread : pc[t] = "counters" /\ cur[t] = i

\* No address is used by two hosts.
IpsUnique == \A g, h \in Host : g.ip = h.ip => g = h

\* As long as no address is used by two hosts and the nft commands that add access
\* rules succeed, a client that openNDS shows as authenticated has its access
\* rules, unless it is being deauthenticated: no other client's end, refusal or
\* failed counters takes them away. Without the second premise it is false of the
\* code: auth_change_state ignores what iptables_fw_authenticate returns
\* (auth.c:444), and the client is authenticated all the same.
SessionHasAccess ==
  IpsUnique /\ ~AddsMayFail =>
    \A i \in clientList : node[i].state \in {"Authenticated", "AuthBlocked"} =>
      \/ node[i].host \in rules
      \/ \E t \in Thread : pc[t] = "deauth_script" /\ cur[t] = i

\* session_end_explicit does not outlive the ndsctl auth that set it, refused
\* or not (auth.c: "Read and clear the flag here").
ExplicitFlagTransient ==
  \A i \in Id : node[i].explicit => pc["ndsctl"] = "auth" /\ cur["ndsctl"] = i

\* What may happen to an entry: it is authenticated from preauthenticated and
\* throttled from authenticated, never the other way, and it leaves the list
\* only with its access rules gone. A trusted client stays.
LifeStep ==
  /\ \A i \in clientList \cap clientList' :
       <<node[i].state, node'[i].state>> \in
         {<<s, s>> : s \in State} \cup
         {<<"Preauthenticated", "Authenticated">>,
          <<"Authenticated", "AuthBlocked">>}
  /\ \A i \in clientList \ clientList' :
       node[i].host \notin rules /\ node[i].state # "Trusted"

\* Every step of the program treats each entry of client_list like that.
SessionLifecycle == [][LifeStep]_vars

\* The client is authenticated, or auth_change_state is at work on that.
Granting(i) ==
  \/ node[i].state # "Preauthenticated"
  \/ \E t \in Thread : pc[t] \in {"binauth_action", "counters"} /\ cur[t] = i

\* From ndsctl auth on, the session length it gave is replaced by nothing but a
\* request of the client itself: the quotas that BinAuth assigns in the course
\* of that ndsctl auth do not outrank it.
ExplicitYieldsOnlyToRequest ==
  [][\A i \in clientList \cap clientList' :
       Granting(i) /\ node[i].session = "explicit"
                   /\ node'[i].session # "explicit" =>
         \E h \in Http :
           /\ cur[h] = i /\ pc'[h] # pc[h]
           /\ pc[h] \in {"preauthenticated", "binauth_action", "post"}]_vars

\* The comment at the session override in auth_change_state says that BinAuth
\* never overrides a duration that was given to ndsctl auth.
ExplicitNeverOverridden ==
  [][\A i \in clientList \cap clientList' :
       node[i].state = "Authenticated" /\ node[i].session = "explicit" =>
         node'[i].session # "script"]_vars

\* client_list.c describes the insertion as returning "an existing entry if
\* one with the given IP already exists".
OneEntryPerIp ==
  \A i, j \in clientList : node[i].host.ip = node[j].host.ip => i = j

-----------------------------------------------------------------------------
(* Refinement                                                              *)

Known == {node[i].host : i \in clientList}

Portal == INSTANCE PortalAccess WITH known <- Known, access <- rules

\* The client list and the rules, whichever threads work on them, are those of
\* a portal that lets only known hosts through, and that forgets a host only
\* after its rules are gone.
ImplementsPortal == Portal!Spec

-----------------------------------------------------------------------------
(* Liveness                                                                *)

\* Each thread takes its next step: scripts end, and a thread that waits for
\* the list lock gets it when it is free again and again. The watchdog comes to
\* the end of the preemptive database, which loses each record it hands out.
\* Requests, commands and records need not come.
Fairness ==
  /\ \A t \in Thread : WF_vars(Authenticating(t))
  /\ \A t \in Thread : SF_vars(Deauthenticating(t))
  /\ \A h \in Http : SF_vars(HttpStep(h))
  /\ SF_vars(WatchdogStart)
  /\ SF_vars(WatchdogStep)

FairSpec == Spec /\ Fairness

\* Authenticated, past its session end, and not renewed.
Overdue(i) ==
  i \in clientList /\ node[i].state = "Authenticated" /\ node[i].expired

\* A session that reaches its end is ended by the watchdog (unless the client
\* is throttled or renewed before).
SessionTimesOut == \A i \in Id : Overdue(i) ~> ~Overdue(i)

\* A node that was deleted while a request used it is freed.
DeadNodesFreed == \A i \in Id : node[i].dead ~> ~node[i].dead

\* A request and a command come to an end: nobody keeps the list lock.
RequestsComplete ==
  /\ \A h \in Http : pc[h] # "idle" ~> pc[h] = "idle"
  /\ pc["ndsctl"] # "idle" ~> pc["ndsctl"] = "idle"

\* The documentation: "Clients will be deauthenticated at the end of this
\* period", throttled or not.
EverySessionTimesOut ==
  \A i \in Id :
    (i \in clientList /\ node[i].expired) ~> ~(i \in clientList /\ node[i].expired)
=============================================================================
