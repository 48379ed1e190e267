----------------------------- MODULE RateLimit -----------------------------
(***************************************************************************)
(* The data rate limits of one client: how the watchdog measures its rate  *)
(* and installs, refreshes and lifts the nftables limit rules (auth.c,     *)
(* fw_iptables.c), while the threads that authenticate clients read the    *)
(* clock, reset the measurement and assign rates of their own.             *)
(* Rates are in kbit/s and the clock in seconds, as in the code. A pass of *)
(* the watchdog reads the clock when it starts, and uses it later.         *)
(***************************************************************************)
EXTENDS Integers

CONSTANTS
  Settings,     \* the settings that are explored
  ConfigRate,   \* config->download_rate, config->upload_rate
  GivenRate,    \* rates that ndsctl auth and BinAuth may give
  FupRate,      \* config->fup_*_throttle_rate, 0 when quotas deauthenticate
  Ratio,        \* config->*_bucket_ratio
  MaxBucket,    \* config->max_*_bucket_size
  PacketSizes,  \* bytes of a packet
  MaxClock,     \* bound: seconds
  Word          \* 2^64, the range of unsigned long long int

\* What is explored at a time: the directions and the threads that authenticate,
\* config->*_unrestricted_bursting > 0, config->rate_check_window, whether
\* iptables_fw_counters_update may return -1, whether other entries of the list have
\* the client's IP address, and as a bound the packets of a session in one direction.
Setting == [dir : SUBSET {"down", "up"}, by : SUBSET {"http", "ndsctl"},
            bursting : BOOLEAN, window : Nat, failing : BOOLEAN, shared : BOOLEAN,
            packets : Nat \ {0}]

ASSUME RateConstants ==
  /\ Settings \subseteq Setting
  /\ ConfigRate \in Nat /\ GivenRate \subseteq Nat /\ FupRate \in Nat
  /\ Ratio \in Nat /\ MaxBucket \in Nat \ {0}
  /\ PacketSizes \subseteq Nat \ {0}
  /\ MaxClock \in Nat /\ Word \in Nat \ {0}

VARIABLES
  setting,        \* one of Settings, for the whole behaviour
  clock,          \* time(NULL)
  alive,          \* the daemon runs; a division by zero kills it (SIGFPE)
  state,          \* fw_connection_state, or "Gone": not on the client list
  over,           \* directions whose volume quota is used up
  rate,           \* download_rate, upload_rate; 0 is unlimited
  measured,       \* downrate, uprate
  limited,        \* bits of rate_exceeded
  rule,           \* the limit in the client's rule, or NoLimit
  sent,           \* counters of the client's rules in the kernel
  seen, previous, \* counters.incoming, inpackets, ..., and *_previous
  windowBytes,    \* counters.in_window_start, out_window_start
  windowStart, windowCounter,
  lock,           \* holder of client_list_mutex, or "free"
  pc,             \* what each thread does next
  now,            \* its local time
  pinned          \* the HTTP request's client is the one on the list

clientVars == <<state, over, rate, measured, limited, rule, sent, seen,
                previous, windowBytes, windowStart, windowCounter>>
threadVars == <<lock, pc, now, pinned>>
vars == <<setting, clock, alive, clientVars, threadVars>>

Dir == setting.dir
Authenticators == setting.by
Bursting == setting.bursting
RateCheckWindow == setting.window
CountersMayFail == setting.failing
IpShared == setting.shared
MaxPackets == setting.packets
Thread == Authenticators \cup {"watchdog"}

Counter == [bytes : Nat, packets : Nat]
Zero == [bytes |-> 0, packets |-> 0]
NoLimit == [packets |-> 0, bucket |-> 0]
HasAccess == state \in {"Authenticated", "AuthBlocked"}

Init ==
  /\ setting \in Settings
  /\ clock = 0 /\ alive = TRUE
  /\ state = "Gone" /\ over = {}
  /\ rate = [d \in Dir |-> 0] /\ measured = [d \in Dir |-> 0]
  /\ limited = {} /\ rule = [d \in Dir |-> NoLimit]
  /\ sent = [d \in Dir |-> Zero]
  /\ seen = [d \in Dir |-> Zero] /\ previous = [d \in Dir |-> Zero]
  /\ windowBytes = [d \in Dir |-> 0] /\ windowStart = 0 /\ windowCounter = 0
  /\ lock = "free"
  /\ pc = [t \in Thread |-> "idle"] /\ now = [t \in Thread |-> 0]
  /\ pinned = FALSE

Goto(t, l) == pc' = [pc EXCEPT ![t] = l]

-----------------------------------------------------------------------------
(* iptables_download_ratelimit_enable, iptables_upload_ratelimit_enable    *)

\* A reading of the counters and the one before it, and whether an average
\* packet size can be had from them; only the download side tests that packets
\* were counted in between.
AverageKnown(d, c, p) ==
  /\ c.bytes # 0 /\ c.packets # 0
  /\ c.bytes # p.bytes
  /\ d = "down" => c.packets # p.packets

Average(d, c, p) ==
  IF AverageKnown(d, c, p)
  THEN ((c.bytes - p.bytes) % Word) \div ((c.packets - p.packets) % Word) + 1
  ELSE 1500

\* "max allowed packet limit =300,000 per minute" (fw_iptables.c:610).
MaxPerMinute == 300 * 1000

\* Packets per minute at r kbit/s.
PerMinute(r, size) == ((r * 1024 * 60) \div size) \div 8

AtLeast(n, m) == IF n < m THEN m ELSE n
AtMost(n, m) == IF n > m THEN m ELSE n

\* Fault: the bucket is not raised to five packets.
UncheckedBucket(size) == AtMost(size % Word, MaxBucket)

\* A bucket has from five packets to the maximum that is configured.
Bucket(size) == AtMost(AtLeast(size % Word, 5), MaxBucket)

\* The limit for a quota r and a measured rate m. How far m is above r is
\* computed with unsigned numbers.
Limit(d, r, m, c, p) ==
  LET size == Average(d, c, p)
      limit == PerMinute(r, size)
      excess == IF AverageKnown(d, c, p)
                THEN ((PerMinute(m, size) - limit) % Word) \div limit
                ELSE 5
  IN  [packets |-> AtMost(limit, MaxPerMinute), bucket |-> Bucket(excess * Ratio)]

\* Computing that limit divides by zero.
LimitCrashes(d, r, c, p) ==
  /\ r > 0
  /\ AverageKnown(d, c, p)
  /\ (c.packets - p.packets) % Word # 0 => PerMinute(r, Average(d, c, p)) = 0

-----------------------------------------------------------------------------
(* iptables_fw_counters_update                                             *)

\* The readings that are kept of the client, and none.
Kept == [seen |-> seen, previous |-> previous]
Unread == [seen |-> [d \in Dir |-> Zero], previous |-> [d \in Dir |-> Zero]]

\* A packet of some size, or several of them.
Packets(n) == {[bytes |-> n * size, packets |-> n] : size \in PacketSizes}

\* What is read in the chains of the two directions: the counters of the client's
\* rules, and where it is the first on the list with a shared address also those of
\* the others who have it, at any time of their own sessions.
Lines(own) ==
  IF IpShared /\ state # "Gone"
  THEN [Dir -> {own[d] : d \in Dir} \cup {Zero} \cup UNION {Packets(n) : n \in 1..MaxPackets}]
  ELSE {own}

\* Fault: the packets of the previous reading are not kept with its bytes.
ReadingForgetsPackets(r, line) ==
  LET more == {d \in Dir : r.seen[d].bytes < line[d].bytes}
  IN  [seen     |-> [d \in Dir |-> IF d \in more THEN line[d] ELSE r.seen[d]],
       previous |-> [d \in Dir |-> IF d \in more
                                   THEN [r.seen[d] EXCEPT !.packets = line[d].packets]
                                   ELSE r.previous[d]]]

\* A line with more bytes is kept, and the reading before it.
Reading(r, line) ==
  LET more == {d \in Dir : r.seen[d].bytes < line[d].bytes}
  IN  [seen     |-> [d \in Dir |-> IF d \in more THEN line[d] ELSE r.seen[d]],
       previous |-> [d \in Dir |-> IF d \in more THEN r.seen[d] ELSE r.previous[d]]]

\* Up to two lines are attributed to the client, one after the other.
Readings(r, own) ==
  {Reading(Reading(r, first), second) : first \in Lines(own), second \in Lines(own)}

\* No chain can be listed, or only the outgoing one, which is read first.
FailedReadings(r, own) ==
  {r} \cup {[seen     |-> [d \in Dir |-> IF d = "up" THEN n.seen[d] ELSE r.seen[d]],
             previous |-> [d \in Dir |-> IF d = "up" THEN n.previous[d] ELSE r.previous[d]]] :
            n \in Readings(r, own)}

\* The readings are kept.
Keep(r) == seen' = r.seen /\ previous' = r.previous

-----------------------------------------------------------------------------
(* The world: time passes, the client joins, sends, and uses up its quota  *)

Tick ==
  /\ clock < MaxClock
  /\ clock' = clock + 1
  /\ UNCHANGED <<alive, clientVars, threadVars>>

\* A new client, as client_list_append makes it.
Join ==
  /\ state = "Gone" /\ lock = "free"
  /\ state' = "Preauthenticated"
  /\ UNCHANGED <<clock, alive, over, rate, measured, limited, rule, sent, seen,
                 previous, windowBytes, windowStart, windowCounter, threadVars>>

Transmit(d) ==
  /\ HasAccess /\ sent[d].packets < MaxPackets
  /\ \E size \in PacketSizes :
       sent' = [sent EXCEPT ![d] = [bytes |-> @.bytes + size,
                                    packets |-> @.packets + 1]]
  /\ \/ UNCHANGED over
     \/ over' = over \cup {d}
  /\ UNCHANGED <<clock, alive, state, rate, measured, limited, rule, seen,
                 previous, windowBytes, windowStart, windowCounter, threadVars>>

\* The client leaves the list; its rules are deleted with it.
Leave ==
  /\ state' = "Gone" /\ over' = {}
  /\ rate' = [d \in Dir |-> 0] /\ measured' = [d \in Dir |-> 0]
  /\ limited' = {} /\ rule' = [d \in Dir |-> NoLimit]
  /\ sent' = [d \in Dir |-> Zero]
  /\ seen' = [d \in Dir |-> Zero] /\ previous' = [d \in Dir |-> Zero]
  /\ windowBytes' = [d \in Dir |-> 0] /\ windowStart' = 0 /\ windowCounter' = 0
  /\ pinned' = FALSE

-----------------------------------------------------------------------------
(* Authentication                                                          *)

\* libmicrohttpd_cb: the request of a preauthenticated client.
HttpRequest ==
  /\ pc["http"] = "idle"
  /\ state = "Preauthenticated" /\ lock = "free"
  /\ pinned' = TRUE
  /\ Goto("http", "reset")
  /\ UNCHANGED <<clock, alive, clientVars, lock, now>>

\* authenticate_client resets what it finds, without the lock.
HttpReset ==
  /\ pc["http"] = "reset"
  /\ IF pinned
     THEN /\ windowCounter' = 0 /\ limited' = {} /\ over' = {}
          /\ rate' = [d \in Dir |-> 0] /\ measured' = [d \in Dir |-> 0]
     ELSE UNCHANGED <<windowCounter, limited, over, rate, measured>>
  /\ Goto("http", "auth")
  /\ UNCHANGED <<clock, alive, state, rule, sent, seen, previous,
                 windowBytes, windowStart, lock, now, pinned>>

\* ndsctl auth: the command gives the rates, or the configured ones.
NdsctlAuth ==
  /\ pc["ndsctl"] = "idle"
  /\ state = "Preauthenticated" /\ lock = "free"
  /\ lock' = "ndsctl"
  /\ rate' \in [Dir -> GivenRate \cup {ConfigRate}]
  /\ now' = [now EXCEPT !["ndsctl"] = clock]
  /\ Goto("ndsctl", "complete")
  /\ UNCHANGED <<clock, alive, state, over, measured, limited, rule, sent, seen,
                 previous, windowBytes, windowStart, windowCounter, pinned>>

\* auth_client_auth takes the lock; auth_change_state reads the clock and
\* asks BinAuth, or refuses a client in another state.
HttpAuth ==
  /\ pc["http"] = "auth"
  /\ lock = "free"
  /\ IF pinned /\ state = "Preauthenticated"
     THEN /\ lock' = "http"
          /\ now' = [now EXCEPT !["http"] = clock]
          /\ Goto("http", "complete")
     ELSE UNCHANGED <<lock, now>> /\ Goto("http", "assign")
  /\ UNCHANGED <<clock, alive, clientVars, pinned>>

AuthDone(t) == lock' = "free" /\ Goto(t, IF t = "http" THEN "assign" ELSE "idle")

\* BinAuth refuses.
AuthRefused(t) ==
  /\ pc[t] = "complete"
  /\ AuthDone(t)
  /\ UNCHANGED <<clock, alive, clientVars, now, pinned>>

\* The rates of the quota file, or else the ones it finds, or the configured ones.
AuthRates ==
  {[d \in Dir |-> IF quota[d] # 0 THEN quota[d]
                  ELSE IF rate[d] = 0 THEN ConfigRate ELSE rate[d]] :
     quota \in [Dir -> GivenRate \cup {0}]}

\* What the new rules have counted when they are read, after the quota file.
FirstCounters == [Dir -> {Zero} \cup Packets(1)]

\* auth_change_state to Authenticated: rules with fresh counters, and a new window.
AuthMeasures(t) ==
  /\ pc[t] = "complete"
  /\ windowBytes' = [d \in Dir |-> 0]
  /\ windowStart' = now[t] /\ windowCounter' = RateCheckWindow
  /\ rate' \in AuthRates
  /\ AuthDone(t)
  /\ UNCHANGED <<clock, alive, over, measured, now, pinned>>

\* The counters cannot be read: the rules go out again.
AuthCountersFail(t) ==
  /\ CountersMayFail
  /\ AuthMeasures(t)
  /\ \E own \in FirstCounters : \E r \in FailedReadings(Unread, own) :
       Keep(r) /\ sent' = r.seen
  /\ UNCHANGED <<state, rule, limited>>

\* The bits are toggled.
Toggle(bits) == (limited \ bits) \cup (bits \ limited)

\* Directions that are limited as soon as the client has access.
FromTheStart == IF Bursting \/ Ratio = 0 THEN {} ELSE Dir

FirstLimitCrashes(rates, r) ==
  \E d \in FromTheStart : LimitCrashes(d, rates[d], r.seen[d], r.previous[d])

AuthCompletes(t) ==
  /\ AuthMeasures(t)
  /\ state' = "Authenticated"
  /\ \E own \in FirstCounters : \E r \in Readings(Unread, own) :
       /\ Keep(r) /\ sent' = own
       /\ ~FirstLimitCrashes(rate', r)
       /\ rule' = [d \in Dir |->
                    IF d \in FromTheStart /\ rate'[d] > 0
                    THEN Limit(d, rate'[d], measured[d], r.seen[d], r.previous[d])
                    ELSE NoLimit]
  /\ limited' = Toggle(FromTheStart)

\* The daemon dies of a division by zero.
AuthCrashes(t) ==
  /\ pc[t] = "complete"
  /\ \E rates \in AuthRates, own \in FirstCounters : \E r \in Readings(Unread, own) :
       FirstLimitCrashes(rates, r)
  /\ alive' = FALSE
  /\ UNCHANGED <<clock, clientVars, threadVars>>

Authenticating(t) ==
  AuthRefused(t) \/ AuthCountersFail(t) \/ AuthCompletes(t) \/ AuthCrashes(t)

\* authenticate_client assigns the rates that do_binauth returned, whatever
\* auth_client_auth did, without the lock.
HttpAssign ==
  /\ pc["http"] = "assign"
  /\ \E given \in [Dir -> GivenRate \cup {0}] :
       rate' = [d \in Dir |-> IF pinned /\ given[d] > 0 THEN given[d] ELSE rate[d]]
  /\ pinned' = FALSE
  /\ Goto("http", "idle")
  /\ UNCHANGED <<clock, alive, state, over, measured, limited, rule, sent, seen,
                 previous, windowBytes, windowStart, windowCounter, lock, now>>

-----------------------------------------------------------------------------
(* fw_refresh_client_list                                                  *)

\* The pass reads the clock, and runs scripts before it takes the lock.
PassStarts ==
  /\ pc["watchdog"] = "idle"
  /\ now' = [now EXCEPT !["watchdog"] = clock]
  /\ Goto("watchdog", "lock")
  /\ UNCHANGED <<clock, alive, clientVars, lock, pinned>>

\* The counters are read. A client without access is not looked at further.
PassCounts ==
  /\ pc["watchdog"] = "lock" /\ lock = "free"
  /\ \E r \in Readings(Kept, sent) : Keep(r)
  /\ IF HasAccess
     THEN lock' = "watchdog" /\ Goto("watchdog", "quota")
     ELSE Goto("watchdog", "idle") /\ UNCHANGED lock
  /\ UNCHANGED <<clock, alive, state, over, rate, measured, limited, rule, sent,
                 windowBytes, windowStart, windowCounter, now, pinned>>

\* The counters cannot be read: nothing is looked at in this pass.
PassCountsFail ==
  /\ pc["watchdog"] = "lock" /\ lock = "free"
  /\ CountersMayFail
  /\ \E r \in FailedReadings(Kept, sent) : Keep(r)
  /\ Goto("watchdog", "idle")
  /\ UNCHANGED <<clock, alive, state, over, rate, measured, limited, rule, sent,
                 windowBytes, windowStart, windowCounter, lock, now, pinned>>

\* A preauthenticated client has been idle for too long.
PassForgets ==
  /\ pc["watchdog"] = "lock" /\ lock = "free"
  /\ state = "Preauthenticated"
  /\ Leave
  /\ Goto("watchdog", "idle")
  /\ UNCHANGED <<clock, alive, lock, now>>

\* Session end, idle, or a quota that deauthenticates; auth_change_state
\* refuses a blocked client, which is not looked at further.
PassEndsSession ==
  /\ pc["watchdog"] = "quota"
  /\ IF state = "Authenticated" THEN Leave ELSE UNCHANGED <<clientVars, pinned>>
  /\ lock' = "free" /\ Goto("watchdog", "idle")
  /\ UNCHANGED <<clock, alive, now>>

\* Directions whose quota is used up and that do not have the throttle rate yet.
Throttle == {d \in over : FupRate > 0 /\ rate[d] # FupRate}

\* Fault: the branch of the upload quota assigns the download rate.
ThrottledDownload == [d \in Dir |->
  IF d = "down" /\ Throttle # {} THEN FupRate ELSE rate[d]]

ThrottledRate == [d \in Dir |-> IF d \in Throttle THEN FupRate ELSE rate[d]]

\* The attempts that may change the state, by the directions that have the throttle
\* rate when the limits are computed and the readings that are kept by then: the
\* first direction's, or the second's where the first failed on the counters.
ThrottleTries ==
  LET once == IF "down" \in Throttle THEN {"down"} ELSE Throttle
  IN  [first : {once}, kept : {Kept}]
        \cup (IF CountersMayFail /\ Throttle # once
              THEN [first : {Throttle}, kept : FailedReadings(Kept, sent)] ELSE {})

RateAtThrottle(d, first) == IF d \in first THEN FupRate ELSE rate[d]

ThrottleCrashes(first, r) == \E d \in FromTheStart :
  LimitCrashes(d, RateAtThrottle(d, first), r.seen[d], r.previous[d])

Throttling ==
  pc["watchdog"] = "quota" /\ Throttle # {} /\ state = "Authenticated"

\* Fault: the bits are toggled, also where a limit is in place.
ToggleBits == Toggle(FromTheStart)

\* Bits that are set already stay set.
SetBits == limited \cup FromTheStart

\* auth_change_state to AuthBlocked starts a new window by the clock of now. The
\* idle check goes by the state before: a client it finds idle is not looked at
\* further, though it is not deauthenticated.
PassThrottles ==
  /\ Throttling
  /\ \E try \in ThrottleTries : \E r \in Readings(try.kept, sent) :
       /\ ~ThrottleCrashes(try.first, r)
       /\ rule' = [d \in Dir |->
                    IF d \in FromTheStart /\ RateAtThrottle(d, try.first) > 0
                    THEN Limit(d, RateAtThrottle(d, try.first), measured[d],
                               r.seen[d], r.previous[d])
                    ELSE rule[d]]
       /\ windowBytes' = [d \in Dir |-> try.kept.seen[d].bytes]
       /\ Keep(r)
  /\ rate' = ThrottledRate
  /\ state' = "AuthBlocked"
  /\ windowStart' = clock /\ windowCounter' = RateCheckWindow
  /\ limited' = SetBits
  /\ \/ Goto("watchdog", "rates") /\ UNCHANGED lock
     \/ Goto("watchdog", "idle") /\ lock' = "free"
  /\ UNCHANGED <<clock, alive, over, measured, sent, now, pinned>>

\* It fails on the counters: the rates and the window are already written.
PassThrottleFails ==
  /\ Throttling /\ CountersMayFail
  /\ rate' = ThrottledRate
  /\ windowStart' = clock /\ windowCounter' = RateCheckWindow
  /\ \E try \in ThrottleTries : \E r \in FailedReadings(try.kept, sent) :
       windowBytes' = [d \in Dir |-> try.kept.seen[d].bytes] /\ Keep(r)
  /\ Goto("watchdog", "rates")
  /\ UNCHANGED <<clock, alive, state, over, measured, limited, rule, sent, lock,
                 now, pinned>>

\* No quota is used up, or it was seen before; a blocked client gets the
\* throttle rate but stays as it is.
PassKeeps ==
  /\ pc["watchdog"] = "quota"
  /\ Throttle = {} \/ state = "AuthBlocked"
  /\ FupRate = 0 => over = {} \/ state = "AuthBlocked"
  /\ rate' = ThrottledRate
  /\ Goto("watchdog", "rates")
  /\ UNCHANGED <<clock, alive, state, over, measured, limited, rule, sent, seen,
                 previous, windowBytes, windowStart, windowCounter, lock, now,
                 pinned>>

\* Seconds of the window, one added; unsigned.
Duration == (now["watchdog"] - windowStart + 1) % Word

Rate(d) == (((seen[d].bytes - windowBytes[d]) % Word) \div 125) \div Duration

\* Fault: the end of the window is tested for one value of the counter.
WindowEndsAtOne == windowCounter = 1

WindowEnds == windowCounter < 2

Exceeds(d) == d \notin limited /\ rate[d] > 0 /\ rate[d] <= Rate(d) /\ Ratio > 0

\* Limited directions whose window ends: lifted or refreshed.
Due(d) == WindowEnds /\ rate[d] > 0 /\ (d \in limited \/ Exceeds(d))
Lifts(d) == Due(d) /\ rate[d] > Rate(d) /\ Bursting

RatesCrash ==
  \/ Duration = 0
  \/ /\ Duration # 0
     /\ \E d \in Dir : /\ Exceeds(d) \/ Due(d)
                       /\ LimitCrashes(d, rate[d], seen[d], previous[d])

\* Fault: the bit is left when a limit is lifted.
LiftedRuleOnly == limited \cup {d \in Dir : Exceeds(d)}

BitsAfterPass ==
  (limited \cup {d \in Dir : Exceeds(d)}) \ {d \in Dir : Lifts(d)}

PassLimits ==
  /\ pc["watchdog"] = "rates"
  /\ ~RatesCrash
  /\ measured' = [d \in Dir |-> Rate(d)]
  /\ rule' = [d \in Dir |-> IF Lifts(d) THEN NoLimit
                            ELSE IF Exceeds(d) \/ Due(d)
                                 THEN Limit(d, rate[d], Rate(d), seen[d], previous[d])
                                 ELSE rule[d]]
  /\ limited' = BitsAfterPass
  /\ IF WindowEnds
     THEN /\ windowCounter' = RateCheckWindow
          /\ windowStart' = now["watchdog"]
          /\ windowBytes' = [d \in Dir |-> seen[d].bytes]
     ELSE /\ windowCounter' = windowCounter - 1
          /\ UNCHANGED <<windowStart, windowBytes>>
  /\ lock' = "free" /\ Goto("watchdog", "idle")
  /\ UNCHANGED <<clock, alive, state, over, rate, sent, seen, previous, now,
                 pinned>>

\* The daemon dies of a division by zero.
PassCrashes ==
  /\ \/ pc["watchdog"] = "rates" /\ RatesCrash
     \/ /\ Throttling
        /\ \E try \in ThrottleTries : \E r \in Readings(try.kept, sent) :
             ThrottleCrashes(try.first, r)
  /\ alive' = FALSE
  /\ UNCHANGED <<clock, clientVars, threadVars>>

Watchdog ==
  \/ PassStarts \/ PassCounts \/ PassCountsFail \/ PassForgets
  \/ PassEndsSession \/ PassThrottles \/ PassThrottleFails \/ PassKeeps
  \/ PassLimits \/ PassCrashes

HttpSteps == HttpRequest \/ HttpReset \/ HttpAuth \/ HttpAssign

Next ==
  /\ alive /\ UNCHANGED setting
  /\ \/ Tick \/ Join
     \/ \E d \in Dir : Transmit(d)
     \/ "http" \in Authenticators /\ HttpSteps
     \/ "ndsctl" \in Authenticators /\ NdsctlAuth
     \/ \E t \in Authenticators : Authenticating(t)
     \/ Watchdog

Spec == Init /\ [][Next]_vars

\* A pass that takes the lock again and again also reads the counters; threads
\* leave the lock. Nobody has to come, and time need not pass.
FairSpec ==
  /\ Spec
  /\ WF_vars(alive /\ UNCHANGED setting /\ Watchdog)
  /\ SF_vars(alive /\ UNCHANGED setting /\ PassCounts)
  /\ \A t \in {"http", "ndsctl"} :
       WF_vars(alive /\ UNCHANGED setting /\ t \in Authenticators /\ Authenticating(t))

-----------------------------------------------------------------------------
(* Properties                                                              *)

Label == {"idle", "reset", "auth", "complete", "assign", "lock", "quota", "rates"}

\* The types of all variables.
TypeOK ==
  /\ setting \in Settings
  /\ clock \in 0..MaxClock /\ alive \in BOOLEAN
  /\ state \in {"Gone", "Preauthenticated", "Authenticated", "AuthBlocked"}
  /\ over \subseteq Dir /\ limited \subseteq Dir
  /\ rate \in [Dir -> Nat] /\ measured \in [Dir -> Nat]
  /\ rule \in [Dir -> [packets : Nat, bucket : Nat]]
  /\ sent \in [Dir -> Counter]
  /\ seen \in [Dir -> Counter] /\ previous \in [Dir -> Counter]
  /\ windowBytes \in [Dir -> Nat]
  /\ windowStart \in 0..MaxClock /\ windowCounter \in Nat
  /\ lock \in Thread \cup {"free"}
  /\ pc \in [Thread -> Label] /\ now \in [Thread -> 0..MaxClock]
  /\ pinned \in BOOLEAN

\* c was read after p, and has a packet for whatever bytes it has more.
LaterCounter(p, c) ==
  /\ p.bytes <= c.bytes /\ p.packets <= c.packets
  /\ p.packets = c.packets => p.bytes = c.bytes

\* The bytes that are kept only grow, and the window starts at or before them. Where
\* nobody else has the client's address, the readings follow one another through
\* authentication, throttling, failures and passes: no difference of the measurement
\* wraps around, and the upload average, which does not test it, never divides by a
\* packet count of zero (fw_iptables.c:692). Counters are attributed by address
\* (fw_iptables.c:937, 993), so with a shared one both may happen.
CountersOrdered ==
  \A d \in Dir :
    /\ previous[d].bytes <= seen[d].bytes /\ windowBytes[d] <= seen[d].bytes
    /\ ~IpShared => /\ LaterCounter(previous[d], seen[d])
                    /\ LaterCounter(seen[d], sent[d])

\* A limit that is installed lets some packets through, and its bucket stays
\* within the configured range.
LimitSane ==
  \A d \in Dir : rule[d] # NoLimit =>
    /\ rule[d].packets \in 1..MaxPerMinute
    /\ rule[d].bucket \in AtMost(5, MaxBucket)..MaxBucket

\* The bits of rate_exceeded are those of the rules, in directions with a rate.
BitsMatch == \A d \in Dir : rate[d] > 0 => (d \in limited <=> rule[d] # NoLimit)

\* Between the critical sections of the lock, of a client with an address of its own:
\* limit rules are replaced by address.
BitsSettled == alive /\ lock = "free" /\ HasAccess /\ ~IpShared

\* "Bit 0 matches the download limit rule" (auth.c:603). A bit that is set has a rule,
\* where every client has a rate or bits are not set from the start. A rule has a bit
\* as long as only ndsctl authenticates: a request resets the bits without the lock,
\* also of a client that ndsctl has just authenticated and limited.
BitMatchesRule ==
  BitsSettled =>
    /\ ConfigRate > 0 \/ FromTheStart = {} => \A d \in limited : rule[d] # NoLimit
    /\ /\ "http" \notin Authenticators
       /\ ConfigRate > 0 \/ FupRate = 0 \/ FromTheStart = {}
       => BitsMatch

\* "Bit 0 matches the download limit rule. It may already be set." (auth.c:603),
\* for all configurations where only ndsctl authenticates.
BitsAlwaysMatch == BitsSettled /\ "http" \notin Authenticators => BitsMatch

\* "1 second added to prevent divide by zero if this code runs within 1 second
\* of the client being authenticated" (auth.c:868).
SecondAddedPreventsDivideByZero == pc["watchdog"] = "rates" => Duration # 0

\* "If the client's average rate does not exceed its configured value ... no
\* memory is consumed" (the config file): such a client has no more than the
\* least bucket, times the ratio.
BucketForExcess ==
  \A d \in Dir : rule[d] # NoLimit /\ rate[d] > measured[d] /\ lock = "free"
                   => rule[d].bucket <= 5 * Ratio

\* ratecheckwindow: "Setting to 0 disables all Data Rate Quotas" (traffic.rst).
ZeroWindowDisables == RateCheckWindow = 0 => \A d \in Dir : rule[d] = NoLimit

\* With unrestricted bursting, a limit is lifted once the client is quiet; the
\* traffic of a session ends at its bound.
LimitLifts ==
  \A d \in {"down", "up"} : Bursting /\ d \in limited /\ state = "Authenticated"
                   ~> d \notin limited \/ state # "Authenticated" \/ ~alive

\* A client that has used up its volume quota gets the throttle rate, also when
\* throttling fails on the counters, or is deauthenticated. A client that is
\* blocked already may be past the end of its session, where passes skip it; a
\* request may reset the quotas.
OverQuotaIsSlowed ==
  \A d \in {"down", "up"} : d \in over /\ state = "Authenticated"
                   ~> d \notin over \/ rate[d] = FupRate \/ ~HasAccess \/ ~alive
=============================================================================
