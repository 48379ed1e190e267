---------------------------- MODULE RateLimit_proofs ----------------------------
(***************************************************************************)
(* For any rates, packets and settings: the readings of the counters of a  *)
(* client with an address of its own follow one another, which the         *)
(* measurement of the rates rests on; a limit that is installed is one     *)
(* that lets something through; and a bit of rate_exceeded has its rule.   *)
(***************************************************************************)
EXTENDS RateLimit, TLAPS

\* The readings are of the directions that are explored.
CounterTypes ==
  /\ setting \in Settings
  /\ sent \in [Dir -> Counter] /\ seen \in [Dir -> Counter]
  /\ previous \in [Dir -> Counter] /\ windowBytes \in [Dir -> Nat]

CounterInv == CounterTypes /\ CountersOrdered

counters == <<setting, sent, seen, previous, windowBytes>>

\* Later readings of later readings are later.
LEMMA LaterTransitive ==
  ASSUME NEW p \in Counter, NEW c \in Counter, NEW e \in Counter,
         LaterCounter(p, c), LaterCounter(c, e)
  PROVE  LaterCounter(p, e)
BY DEF LaterCounter, Counter

LEMMA LaterSame == \A c \in Counter : LaterCounter(c, c)
BY DEF LaterCounter, Counter

LEMMA ZeroCounter == Zero \in Counter
BY DEF Zero, Counter

LEMMA CounterInit == Init => CounterInv
<1> SUFFICES ASSUME Init PROVE CounterInv
  OBVIOUS
<1>1. CounterTypes
  BY ZeroCounter DEF Init, CounterTypes
<1>2. CountersOrdered
  BY LaterSame, ZeroCounter DEF Init, CountersOrdered, Zero
<1> QED BY <1>1, <1>2 DEF CounterInv

-----------------------------------------------------------------------------
(* What a step does to the counters                                        *)

\* The rules of a client are made or deleted, and its counters with them.
Restarted ==
  /\ sent' = [d \in Dir |-> Zero] /\ seen' = [d \in Dir |-> Zero]
  /\ previous' = [d \in Dir |-> Zero] /\ windowBytes' = [d \in Dir |-> 0]

\* The window starts again at the reading that there is.
WindowAtSeen == windowBytes' = [d \in Dir |-> seen[d].bytes]

LEMMA RestartedOrdered ==
  ASSUME CounterInv, UNCHANGED setting, Restarted
  PROVE  CounterInv'
<1>1. Dir' = Dir
  BY DEF Dir
<1>2. CounterTypes'
  BY <1>1, ZeroCounter DEF CounterInv, CounterTypes, Restarted
<1>3. CountersOrdered'
  BY <1>1, LaterSame, ZeroCounter DEF CountersOrdered, Restarted, Zero
<1> QED BY <1>2, <1>3 DEF CounterInv

\* A packet raises both counts of the kernel.
LEMMA SentOrdered ==
  ASSUME CounterInv, UNCHANGED setting, NEW d \in Dir, Transmit(d)
  PROVE  CounterInv'
<1>1. Dir' = Dir /\ IpShared' = IpShared
  BY DEF Dir, IpShared
<1>2. PICK size \in PacketSizes :
        sent' = [sent EXCEPT ![d] = [bytes |-> @.bytes + size, packets |-> @.packets + 1]]
  BY DEF Transmit
<1>3. size \in Nat /\ size > 0
  BY RateConstants
<1>4. UNCHANGED <<seen, previous, windowBytes>>
  BY DEF Transmit
<1>5. /\ sent[d] \in Counter /\ seen[d] \in Counter
      /\ ~IpShared => LaterCounter(seen[d], sent[d])
  BY DEF CounterInv, CounterTypes, CountersOrdered
<1>6. sent'[d] = [bytes |-> sent[d].bytes + size, packets |-> sent[d].packets + 1]
  BY <1>2 DEF CounterInv, CounterTypes
<1>7. sent'[d] \in Counter /\ (~IpShared => LaterCounter(seen[d], sent'[d]))
  BY <1>3, <1>5, <1>6 DEF Counter, LaterCounter
<1>8. \A e \in Dir : e # d => sent'[e] = sent[e]
  BY <1>2 DEF CounterInv, CounterTypes
<1>9. sent' \in [Dir -> Counter]
  BY <1>2, <1>6, <1>7, <1>8 DEF CounterInv, CounterTypes
<1>10. CounterTypes'
  BY <1>1, <1>4, <1>9 DEF CounterInv, CounterTypes
<1>11. CountersOrdered'
  BY <1>1, <1>4, <1>7, <1>8 DEF CounterInv, CountersOrdered
<1> QED BY <1>10, <1>11 DEF CounterInv

\* Readings that may be kept of a client whose rules count own.
Sound(r, own) ==
  /\ r.seen \in [Dir -> Counter] /\ r.previous \in [Dir -> Counter]
  /\ \A d \in Dir :
       /\ r.previous[d].bytes <= r.seen[d].bytes
       /\ ~IpShared => LaterCounter(r.previous[d], r.seen[d]) /\ LaterCounter(r.seen[d], own[d])

\* n is read after r.
Grows(r, n) == \A d \in Dir : r.seen[d].bytes <= n.seen[d].bytes

LEMMA KeptSound ==
  ASSUME CounterInv
  PROVE  Sound(Kept, sent) /\ Kept.seen = seen
BY DEF CounterInv, CounterTypes, CountersOrdered, Sound, Kept

LEMMA GrowsFurther ==
  ASSUME NEW r, NEW m, NEW n, NEW own, Sound(r, own), Sound(m, own), Sound(n, own),
         Grows(r, m), Grows(m, n)
  PROVE  Grows(r, n)
BY DEF Sound, Grows, Counter

\* A reading of more bytes takes the place of the last one, which takes the place of
\* the one before.
LEMMA ReadingSound ==
  ASSUME NEW r, NEW own \in [Dir -> Counter], Sound(r, own),
         NEW line \in [Dir -> Counter], ~IpShared => line = own
  PROVE  Sound(Reading(r, line), own) /\ Grows(r, Reading(r, line))
<1> DEFINE n == Reading(r, line)
<1>1. n.seen = [d \in Dir |-> IF r.seen[d].bytes < line[d].bytes THEN line[d] ELSE r.seen[d]]
  BY DEF Reading
<1>2. n.previous = [d \in Dir |-> IF r.seen[d].bytes < line[d].bytes
                                  THEN r.seen[d] ELSE r.previous[d]]
  BY DEF Reading
<1> HIDE DEF n
<1>3. n.seen \in [Dir -> Counter] /\ n.previous \in [Dir -> Counter]
  BY <1>1, <1>2 DEF Sound
<1>4. ASSUME NEW d \in Dir
      PROVE  /\ r.seen[d].bytes <= n.seen[d].bytes /\ n.previous[d].bytes <= n.seen[d].bytes
             /\ ~IpShared => LaterCounter(n.previous[d], n.seen[d]) /\ LaterCounter(n.seen[d], own[d])
  <2>1. /\ r.seen[d] \in Counter /\ r.previous[d] \in Counter /\ line[d] \in Counter
        /\ own[d] \in Counter /\ r.previous[d].bytes <= r.seen[d].bytes
        /\ ~IpShared => LaterCounter(r.previous[d], r.seen[d]) /\ LaterCounter(r.seen[d], own[d])
    BY DEF Sound
  <2>2. CASE r.seen[d].bytes < line[d].bytes
    <3>1. n.seen[d] = line[d] /\ n.previous[d] = r.seen[d]
      BY <1>1, <1>2, <2>2
    <3>2. ~IpShared => line[d] = own[d] /\ LaterCounter(own[d], own[d])
      BY <2>1, LaterSame
    <3> QED BY <2>1, <2>2, <3>1, <3>2 DEF Counter
  <2>3. CASE ~(r.seen[d].bytes < line[d].bytes)
    <3>1. n.seen[d] = r.seen[d] /\ n.previous[d] = r.previous[d]
      BY <1>1, <1>2, <2>3
    <3> QED BY <2>1, <3>1 DEF Counter
  <2> QED BY <2>2, <2>3
<1> QED BY <1>3, <1>4 DEF Sound, Grows, n

LEMMA PacketCounters ==
  ASSUME NEW k \in Nat
  PROVE  Packets(k) \subseteq Counter
<1>1. \A size \in PacketSizes : k * size \in Nat
  BY RateConstants
<1> QED BY <1>1 DEF Packets, Counter

LEMMA LinesTypes ==
  ASSUME setting \in Settings, NEW own \in [Dir -> Counter], NEW line \in Lines(own)
  PROVE  line \in [Dir -> Counter] /\ (~IpShared => line = own)
<1>1. CASE IpShared /\ state # "Gone"
  <2>1. MaxPackets \in Nat
    BY RateConstants DEF Setting, MaxPackets
  <2>2. UNION {Packets(k) : k \in 1..MaxPackets} \subseteq Counter
    BY <2>1, PacketCounters
  <2>3. {own[d] : d \in Dir} \cup {Zero} \subseteq Counter
    BY ZeroCounter
  <2> QED BY <1>1, <2>2, <2>3 DEF Lines
<1>2. CASE ~(IpShared /\ state # "Gone")
  BY <1>2 DEF Lines
<1> QED BY <1>1, <1>2

LEMMA ReadingsSound ==
  ASSUME setting \in Settings, NEW r, NEW own \in [Dir -> Counter], Sound(r, own),
         NEW n \in Readings(r, own)
  PROVE  Sound(n, own) /\ Grows(r, n)
<1>1. PICK first \in Lines(own), second \in Lines(own) : n = Reading(Reading(r, first), second)
  BY DEF Readings
<1>2. Sound(Reading(r, first), own) /\ Grows(r, Reading(r, first))
  BY LinesTypes, ReadingSound
<1>3. Sound(n, own) /\ Grows(Reading(r, first), n)
  BY <1>1, <1>2, LinesTypes, ReadingSound
<1> QED BY <1>2, <1>3, GrowsFurther

LEMMA FailedReadingsSound ==
  ASSUME setting \in Settings, NEW r, NEW own \in [Dir -> Counter], Sound(r, own),
         NEW n \in FailedReadings(r, own)
  PROVE  Sound(n, own) /\ Grows(r, n)
<1>1. CASE n = r
  BY <1>1 DEF Sound, Grows, Counter
<1>2. CASE n # r
  <2>1. PICK m \in Readings(r, own) :
          n = [seen     |-> [d \in Dir |-> IF d = "up" THEN m.seen[d] ELSE r.seen[d]],
               previous |-> [d \in Dir |-> IF d = "up" THEN m.previous[d] ELSE r.previous[d]]]
    BY <1>2 DEF FailedReadings
  <2>2. Sound(m, own) /\ Grows(r, m)
    BY ReadingsSound
  <2>3. \A d \in Dir : \/ n.seen[d] = m.seen[d] /\ n.previous[d] = m.previous[d]
                       \/ n.seen[d] = r.seen[d] /\ n.previous[d] = r.previous[d]
    BY <2>1
  <2>4. n.seen \in [Dir -> Counter] /\ n.previous \in [Dir -> Counter]
    BY <2>1, <2>2 DEF Sound
  <2>5. ASSUME NEW d \in Dir
        PROVE  /\ n.previous[d].bytes <= n.seen[d].bytes /\ r.seen[d].bytes <= n.seen[d].bytes
               /\ ~IpShared => /\ LaterCounter(n.previous[d], n.seen[d])
                               /\ LaterCounter(n.seen[d], own[d])
    <3>1. CASE n.seen[d] = m.seen[d] /\ n.previous[d] = m.previous[d]
      BY <2>2, <3>1 DEF Sound, Grows
    <3>2. CASE n.seen[d] = r.seen[d] /\ n.previous[d] = r.previous[d]
      BY <3>2 DEF Sound, Counter
    <3> QED BY <2>3, <3>1, <3>2
  <2> QED BY <2>4, <2>5 DEF Sound, Grows
<1> QED BY <1>1, <1>2

\* Sound readings are kept, and the window starts at or before them.
LEMMA KeepOrdered ==
  ASSUME CounterInv, UNCHANGED setting, NEW r, Keep(r), Sound(r, sent'),
         sent' \in [Dir -> Counter], windowBytes' \in [Dir -> Nat],
         \A d \in Dir : windowBytes'[d] <= r.seen[d].bytes
  PROVE  CounterInv'
<1>1. Dir' = Dir /\ IpShared' = IpShared
  BY DEF Dir, IpShared
<1>2. CounterTypes'
  BY <1>1 DEF CounterInv, CounterTypes, Keep, Sound
<1>3. CountersOrdered'
  BY <1>1 DEF CountersOrdered, Keep, Sound
<1> QED BY <1>2, <1>3 DEF CounterInv

\* The counters are read after the readings k, which were sound.
LEMMA ReadOrdered ==
  ASSUME CounterInv, UNCHANGED <<setting, sent>>, NEW k, Sound(k, sent), Grows(Kept, k),
         NEW r, r \in Readings(k, sent) \/ r \in FailedReadings(k, sent), Keep(r),
         \/ UNCHANGED windowBytes
         \/ windowBytes' = [d \in Dir |-> k.seen[d].bytes]
  PROVE  CounterInv'
<1>1. setting \in Settings /\ sent \in [Dir -> Counter]
  BY DEF CounterInv, CounterTypes
<1>2. Sound(r, sent) /\ Grows(k, r)
  BY <1>1, ReadingsSound, FailedReadingsSound
<1>3. Sound(Kept, sent) /\ Kept.seen = seen
  BY KeptSound
<1>4. Grows(Kept, r)
  BY <1>2, <1>3, GrowsFurther
<1>5. ASSUME NEW d \in Dir
      PROVE  windowBytes'[d] \in Nat /\ windowBytes'[d] <= r.seen[d].bytes
  <2>1. /\ windowBytes[d] \in Nat /\ windowBytes[d] <= seen[d].bytes
        /\ seen[d] \in Counter /\ k.seen[d] \in Counter /\ r.seen[d] \in Counter
    BY <1>2 DEF CounterInv, CounterTypes, CountersOrdered, Sound
  <2>2. seen[d].bytes <= r.seen[d].bytes /\ k.seen[d].bytes <= r.seen[d].bytes
    BY <1>2, <1>3, <1>4 DEF Grows
  <2>3. windowBytes'[d] = windowBytes[d] \/ windowBytes'[d] = k.seen[d].bytes
    OBVIOUS
  <2> QED BY <2>1, <2>2, <2>3 DEF Counter
<1>6. windowBytes' \in [Dir -> Nat]
  BY <1>5 DEF CounterInv, CounterTypes
<1> QED BY <1>1, <1>2, <1>5, <1>6, KeepOrdered

\* The readings that a throttling attempt starts from.
LEMMA TriesSound ==
  ASSUME CounterInv, NEW try \in ThrottleTries
  PROVE  Sound(try.kept, sent) /\ Grows(Kept, try.kept) /\ try.first \subseteq Throttle
<1>1. setting \in Settings /\ sent \in [Dir -> Counter] /\ Sound(Kept, sent)
  BY KeptSound DEF CounterInv, CounterTypes
<1>2. /\ try.kept = Kept \/ try.kept \in FailedReadings(Kept, sent)
      /\ try.first \subseteq Throttle
  BY DEF ThrottleTries
<1>3. Grows(Kept, Kept)
  BY <1>1 DEF Sound, Grows, Counter
<1> QED BY <1>1, <1>2, <1>3, FailedReadingsSound

LEMMA FirstCounterTypes ==
  ASSUME NEW own \in FirstCounters
  PROVE  own \in [Dir -> Counter] /\ Sound(Unread, own)
<1>1. {Zero} \cup Packets(1) \subseteq Counter
  BY PacketCounters, ZeroCounter
<1>2. own \in [Dir -> Counter]
  BY <1>1 DEF FirstCounters
<1>3. \A c \in {Zero} \cup Packets(1) : LaterCounter(Zero, c)
  BY ZeroCounter, LaterSame, RateConstants DEF Zero, Packets, LaterCounter
<1>4. \A d \in Dir : LaterCounter(Zero, own[d]) /\ LaterCounter(Zero, Zero)
  BY <1>3, ZeroCounter, LaterSame DEF FirstCounters
<1>5. Zero \in Counter /\ Zero.bytes <= Zero.bytes
  BY ZeroCounter DEF Zero
<1> QED BY <1>2, <1>4, <1>5 DEF Sound, Unread

\* The first reading of a client that gets access, and one that fails.
LEMMA AuthOrdered ==
  ASSUME CounterInv, UNCHANGED setting, NEW t, AuthCountersFail(t) \/ AuthCompletes(t)
  PROVE  CounterInv'
<1>1. setting \in Settings
  BY DEF CounterInv, CounterTypes
<1>2. windowBytes' = [d \in Dir |-> 0]
  BY DEF AuthCountersFail, AuthCompletes, AuthMeasures
<1>3. PICK own \in FirstCounters :
        \E r : /\ r \in Readings(Unread, own) \/ r \in FailedReadings(Unread, own)
               /\ Keep(r) /\ (sent' = own \/ sent' = r.seen)
  BY DEF AuthCountersFail, AuthCompletes
<1>4. PICK r : /\ r \in Readings(Unread, own) \/ r \in FailedReadings(Unread, own)
               /\ Keep(r) /\ (sent' = own \/ sent' = r.seen)
  BY <1>3
<1>5. own \in [Dir -> Counter]
  BY FirstCounterTypes
<1>6. Sound(r, own)
  BY <1>1, <1>4, <1>5, FirstCounterTypes, ReadingsSound, FailedReadingsSound
<1>7. Sound(r, sent') /\ sent' \in [Dir -> Counter]
  BY <1>4, <1>5, <1>6, LaterSame DEF Sound
<1>8. \A d \in Dir : windowBytes'[d] = 0 /\ r.seen[d].bytes \in Nat
  BY <1>2, <1>6 DEF Sound, Counter
<1>9. windowBytes' \in [Dir -> Nat]
  BY <1>2
<1>10. \A d \in Dir : windowBytes'[d] <= r.seen[d].bytes
  BY <1>8
<1> QED BY <1>4, <1>7, <1>9, <1>10, KeepOrdered

LEMMA WindowOrdered ==
  ASSUME CounterInv, UNCHANGED <<setting, sent, seen, previous>>, WindowAtSeen
  PROVE  CounterInv'
<1>1. Dir' = Dir /\ IpShared' = IpShared
  BY DEF Dir, IpShared
<1>2. CounterTypes'
  BY <1>1 DEF CounterInv, CounterTypes, WindowAtSeen, Counter
<1>3. CountersOrdered'
  BY <1>1 DEF CounterInv, CounterTypes, CountersOrdered, WindowAtSeen, Counter
<1> QED BY <1>2, <1>3 DEF CounterInv

LEMMA SameOrdered ==
  ASSUME CounterInv, UNCHANGED counters
  PROVE  CounterInv'
BY DEF counters, CounterInv, CounterTypes, CountersOrdered, Dir, IpShared

-----------------------------------------------------------------------------
(* The theorem                                                             *)

LEMMA CounterStep ==
  ASSUME CounterInv, [Next]_vars
  PROVE  CounterInv'
<1>1. CASE UNCHANGED vars
  BY <1>1, SameOrdered DEF vars, clientVars, counters
<1>2. CASE Next
  <2>1. UNCHANGED setting
    BY <1>2 DEF Next
  <2>2. CASE Tick \/ Join
    BY <2>1, <2>2, SameOrdered DEF Tick, Join, clientVars, counters
  <2>3. ASSUME NEW d \in Dir, Transmit(d) PROVE CounterInv'
    BY <2>1, <2>3, SentOrdered
  <2>4. CASE HttpSteps
    BY <2>1, <2>4, SameOrdered
       DEF HttpSteps, HttpRequest, HttpReset, HttpAuth, HttpAssign, clientVars, counters
  <2>5. CASE NdsctlAuth
    BY <2>1, <2>5, SameOrdered DEF NdsctlAuth, counters
  <2>6. ASSUME NEW t, Authenticating(t) PROVE CounterInv'
    <3>1. CASE AuthRefused(t)
      BY <2>1, <3>1, SameOrdered DEF AuthRefused, clientVars, counters
    <3>2. CASE AuthCrashes(t)
      BY <2>1, <3>2, SameOrdered DEF AuthCrashes, clientVars, counters
    <3> QED BY <2>1, <2>6, <3>1, <3>2, AuthOrdered DEF Authenticating
  <2>7. CASE PassStarts \/ PassKeeps \/ PassCrashes
    BY <2>1, <2>7, SameOrdered DEF PassStarts, PassKeeps, PassCrashes, clientVars, counters
  <2>8. CASE PassCounts \/ PassCountsFail
    <3>1. Sound(Kept, sent) /\ Grows(Kept, Kept)
      BY KeptSound DEF Sound, Grows, Counter
    <3>2. PICK r : /\ r \in Readings(Kept, sent) \/ r \in FailedReadings(Kept, sent)
                   /\ Keep(r)
      BY <2>8 DEF PassCounts, PassCountsFail
    <3>3. UNCHANGED <<sent, windowBytes>>
      BY <2>8 DEF PassCounts, PassCountsFail
    <3> QED BY <2>1, <3>1, <3>2, <3>3, ReadOrdered
  <2>9. CASE Leave
    BY <2>1, <2>9, RestartedOrdered DEF Leave, Restarted
  <2>10. CASE PassEndsSession
    BY <2>1, <2>9, <2>10, SameOrdered DEF PassEndsSession, clientVars, counters
  <2>11. CASE PassThrottles \/ PassThrottleFails
    <3>1. PICK try \in ThrottleTries :
            \E r : /\ \/ r \in Readings(try.kept, sent)
                      \/ r \in FailedReadings(try.kept, sent)
                   /\ Keep(r) /\ windowBytes' = [d \in Dir |-> try.kept.seen[d].bytes]
      BY <2>11 DEF PassThrottles, PassThrottleFails
    <3>2. UNCHANGED sent
      BY <2>11 DEF PassThrottles, PassThrottleFails
    <3> QED BY <2>1, <3>1, <3>2, TriesSound, ReadOrdered
  <2>13. CASE PassLimits
    <3>1. UNCHANGED <<sent, seen, previous>> /\ (UNCHANGED windowBytes \/ WindowAtSeen)
      BY <2>13 DEF PassLimits, WindowAtSeen
    <3> QED BY <2>1, <3>1, SameOrdered, WindowOrdered DEF counters
  <2> QED BY <1>2, <2>2, <2>3, <2>4, <2>5, <2>6, <2>7, <2>8, <2>9, <2>10, <2>11, <2>13
          DEF Next, Watchdog, PassForgets
<1> QED BY <1>1, <1>2

\* The bytes that are kept only grow. Where no other entry of the list has the client's
\* address, the readings of its counters follow one another through authentication,
\* throttling, failures and passes: no difference of the measurement wraps around,
\* and the upload average never divides by a packet count of zero (fw_iptables.c:692).
THEOREM ReadingsOrdered == Spec => []CountersOrdered
<1>1. CounterInv => CountersOrdered
  BY DEF CounterInv
<1> QED BY CounterInit, CounterStep, <1>1, PTL DEF Spec

-----------------------------------------------------------------------------
(* The limits that are installed                                           *)

\* The limits that let packets through and have a bucket in the configured range.
SaneLimit ==
  {l \in [packets : Nat, bucket : Nat] :
     l.packets \in 1..MaxPerMinute /\ l.bucket \in AtMost(5, MaxBucket)..MaxBucket}

RulesSane == rule \in [Dir -> SaneLimit \cup {NoLimit}]

LEMMA MaxPerMinuteNat == MaxPerMinute \in Nat \ {0}
BY DEF MaxPerMinute

LEMMA SaneIsLimit == NoLimit \notin SaneLimit
BY DEF NoLimit, SaneLimit

\* The bucket of any excess.
LEMMA BucketRange ==
  ASSUME NEW size \in Nat
  PROVE  Bucket(size) \in Nat /\ Bucket(size) \in AtMost(5, MaxBucket)..MaxBucket
<1>1. size % Word \in Nat
  BY RateConstants
<1>2. MaxBucket \in Nat
  BY RateConstants
<1> QED BY <1>1, <1>2 DEF Bucket, AtLeast, AtMost

LEMMA PerMinuteNat ==
  ASSUME NEW r \in Nat, NEW size \in Nat \ {0}
  PROVE  PerMinute(r, size) \in Nat
BY DEF PerMinute

\* Any rate lets packets of the assumed size through.
LEMMA PerMinuteAssumed ==
  ASSUME NEW r \in Nat \ {0}
  PROVE  PerMinute(r, 1500) > 0
BY DEF PerMinute

\* Where nothing divides by zero, packets have a size and the limit lets some through.
LEMMA AverageSize ==
  ASSUME NEW d, NEW r \in Nat \ {0}, NEW c \in Counter, NEW p \in Counter,
         ~LimitCrashes(d, r, c, p)
  PROVE  Average(d, c, p) \in Nat \ {0} /\ PerMinute(r, Average(d, c, p)) \in Nat \ {0}
<1>1. CASE AverageKnown(d, c, p)
  <2> DEFINE more == (c.bytes - p.bytes) % Word
             packets == (c.packets - p.packets) % Word
  <2>1. c.bytes - p.bytes \in Int /\ c.packets - p.packets \in Int
    BY DEF Counter
  <2>2. more \in Nat /\ packets \in Nat
    BY <2>1, RateConstants
  <2>3. packets # 0 /\ PerMinute(r, Average(d, c, p)) # 0
    BY <1>1 DEF LimitCrashes
  <2>4. Average(d, c, p) = more \div packets + 1
    BY <1>1 DEF Average
  <2> HIDE DEF more, packets
  <2>5. more \div packets \in Nat
    BY <2>2, <2>3
  <2>6. Average(d, c, p) \in Nat \ {0}
    BY <2>4, <2>5
  <2> QED BY <2>3, <2>6, PerMinuteNat
<1>2. CASE ~AverageKnown(d, c, p)
  <2>1. Average(d, c, p) = 1500
    BY <1>2 DEF Average
  <2>2. PerMinute(r, 1500) \in Nat /\ PerMinute(r, 1500) > 0
    BY PerMinuteNat, PerMinuteAssumed
  <2> QED BY <2>1, <2>2
<1> QED BY <1>1, <1>2

LEMMA LimitIsSane ==
  ASSUME NEW d, NEW r \in Nat \ {0}, NEW m \in Nat, NEW c \in Counter, NEW p \in Counter,
         ~LimitCrashes(d, r, c, p)
  PROVE  Limit(d, r, m, c, p) \in SaneLimit
<1> DEFINE size == Average(d, c, p)
           limit == PerMinute(r, size)
           wrapped == (PerMinute(m, size) - limit) % Word
           excess == IF AverageKnown(d, c, p) THEN wrapped \div limit ELSE 5
<1>1. size \in Nat \ {0} /\ limit \in Nat \ {0}
  BY AverageSize
<1>2. PerMinute(m, size) \in Nat
  BY <1>1, PerMinuteNat
<1> HIDE DEF size, limit
<1>3. wrapped \in Nat
  BY <1>1, <1>2, RateConstants
<1> HIDE DEF wrapped
<1>4. excess \in Nat
  BY <1>1, <1>3
<1> HIDE DEF excess
<1>5. excess * Ratio \in Nat
  BY <1>4, RateConstants
<1>6. AtMost(limit, MaxPerMinute) \in 1..MaxPerMinute
  BY <1>1, MaxPerMinuteNat DEF AtMost
<1>7. Bucket(excess * Ratio) \in Nat /\ Bucket(excess * Ratio) \in AtMost(5, MaxBucket)..MaxBucket
  BY <1>5, BucketRange
<1>8. Limit(d, r, m, c, p) = [packets |-> AtMost(limit, MaxPerMinute), bucket |-> Bucket(excess * Ratio)]
  BY DEF Limit, size, limit, wrapped, excess
<1> QED BY <1>6, <1>7, <1>8 DEF SaneLimit

RateInv == TypeOK /\ CountersOrdered /\ RulesSane

LEMMA RateCounters == RateInv => CounterInv
BY DEF RateInv, TypeOK, CounterInv, CounterTypes

LEMMA RateInit == Init => RateInv
<1> SUFFICES ASSUME Init PROVE RateInv
  OBVIOUS
<1>1. Zero \in Counter /\ NoLimit \in [packets : Nat, bucket : Nat]
  BY ZeroCounter DEF NoLimit
<1>2. 0 \in 0..MaxClock
  BY RateConstants
<1>3. RulesSane
  BY DEF Init, RulesSane
<1>4. TypeOK
  BY <1>1, <1>2 DEF Init, TypeOK, Label
<1> QED BY <1>3, <1>4, CounterInit DEF RateInv, CounterInv

\* What is known of a direction that is limited: its rate, its measured rate and its
\* last two readings.
LEMMA DirectionTypes ==
  ASSUME RateInv, NEW d \in Dir
  PROVE  /\ rate[d] \in Nat /\ measured[d] \in Nat
         /\ rule[d] \in SaneLimit \cup {NoLimit}
         /\ seen[d] \in Counter /\ previous[d] \in Counter
BY DEF RateInv, TypeOK, CountersOrdered, RulesSane

\* The readings that a throttled client is limited by, and those of a new one.
LEMMA NewReadings ==
  ASSUME RateInv, NEW d \in Dir
  PROVE  /\ \A try \in ThrottleTries : \A r \in Readings(try.kept, sent) :
              r.seen[d] \in Counter /\ r.previous[d] \in Counter
         /\ \A own \in FirstCounters : \A r \in Readings(Unread, own) :
              r.seen[d] \in Counter /\ r.previous[d] \in Counter
<1>1. CounterInv /\ setting \in Settings /\ sent \in [Dir -> Counter]
  BY RateCounters DEF CounterInv, CounterTypes
<1>2. ASSUME NEW try \in ThrottleTries, NEW r \in Readings(try.kept, sent)
      PROVE  r.seen[d] \in Counter /\ r.previous[d] \in Counter
  <2>1. Sound(r, sent)
    BY <1>1, TriesSound, ReadingsSound
  <2> QED BY <2>1 DEF Sound
<1>3. ASSUME NEW own \in FirstCounters, NEW r \in Readings(Unread, own)
      PROVE  r.seen[d] \in Counter /\ r.previous[d] \in Counter
  <2>1. Sound(r, own)
    BY <1>1, FirstCounterTypes, ReadingsSound
  <2> QED BY <2>1 DEF Sound
<1> QED BY <1>2, <1>3

\* The rates that an authentication leaves.
LEMMA NewRates ==
  ASSUME RateInv, NEW t, AuthMeasures(t)
  PROVE  rate' \in [Dir -> Nat]
<1>1. \E quota \in [Dir -> GivenRate \cup {0}] :
        rate' = [d \in Dir |-> IF quota[d] # 0 THEN quota[d]
                               ELSE IF rate[d] = 0 THEN ConfigRate ELSE rate[d]]
  BY DEF AuthMeasures, AuthRates
<1>2. GivenRate \cup {0} \subseteq Nat /\ ConfigRate \in Nat
  BY RateConstants
<1>3. \A d \in Dir : rate[d] \in Nat
  BY DEF RateInv, TypeOK
<1> QED BY <1>1, <1>2, <1>3

\* The rate that the throttled directions have when their limits are computed.
LEMMA ThrottleRates ==
  ASSUME RateInv, NEW d \in Dir, NEW first
  PROVE  RateAtThrottle(d, first) \in Nat /\ ThrottledRate[d] \in Nat
BY RateConstants DEF RateAtThrottle, ThrottledRate, RateInv, TypeOK

\* A client that gets access has a limit in the directions that are limited from the
\* start and have a rate, and no other.
LEMMA AuthLimits ==
  ASSUME RateInv, NEW t, AuthCompletes(t)
  PROVE  /\ rule' \in [Dir -> SaneLimit \cup {NoLimit}]
         /\ \A d \in Dir : IF d \in FromTheStart /\ rate'[d] > 0
                           THEN rule'[d] \in SaneLimit ELSE rule'[d] = NoLimit
<1>1. rate' \in [Dir -> Nat]
  BY NewRates DEF AuthCompletes
<1> DEFINE Limits(r) ==
             /\ ~FirstLimitCrashes(rate', r)
             /\ rule' = [d \in Dir |->
                          IF d \in FromTheStart /\ rate'[d] > 0
                          THEN Limit(d, rate'[d], measured[d], r.seen[d], r.previous[d])
                          ELSE NoLimit]
<1>0. PICK own \in FirstCounters : \E r \in Readings(Unread, own) : Limits(r)
  BY DEF AuthCompletes
<1>2. PICK r \in Readings(Unread, own) : Limits(r)
  BY <1>0
<1>3. ASSUME NEW d \in Dir, d \in FromTheStart, rate'[d] > 0
      PROVE  Limit(d, rate'[d], measured[d], r.seen[d], r.previous[d]) \in SaneLimit
  <2>1. ~LimitCrashes(d, rate'[d], r.seen[d], r.previous[d])
    BY <1>2, <1>3 DEF FirstLimitCrashes
  <2>2. rate'[d] \in Nat \ {0} /\ measured[d] \in Nat
    BY <1>1, <1>3, DirectionTypes
  <2>3. r.seen[d] \in Counter /\ r.previous[d] \in Counter
    BY NewReadings
  <2> QED BY <2>1, <2>2, <2>3, LimitIsSane
<1> QED BY <1>2, <1>3

LEMMA AuthRules ==
  ASSUME RateInv, UNCHANGED setting, NEW t, AuthCompletes(t)
  PROVE  RulesSane'
BY AuthLimits DEF RulesSane, Dir

\* A throttled client gets a limit in the directions that are limited from the start
\* and have a rate; one without a rate has what it had, or a limit.
LEMMA ThrottleLimits ==
  ASSUME RateInv, PassThrottles, NEW d \in Dir
  PROVE  /\ d \in FromTheStart /\ rate[d] > 0 => rule'[d] \in SaneLimit
         /\ rule'[d] \in SaneLimit \/ rule'[d] = rule[d]
         /\ d \notin FromTheStart => rule'[d] = rule[d]
<1> DEFINE Limits(try, r) ==
             /\ ~ThrottleCrashes(try.first, r)
             /\ rule' = [e \in Dir |->
                          IF e \in FromTheStart /\ RateAtThrottle(e, try.first) > 0
                          THEN Limit(e, RateAtThrottle(e, try.first), measured[e],
                                     r.seen[e], r.previous[e])
                          ELSE rule[e]]
<1>0. PICK try \in ThrottleTries : \E r \in Readings(try.kept, sent) : Limits(try, r)
  BY DEF PassThrottles
<1>1. PICK r \in Readings(try.kept, sent) : Limits(try, r)
  BY <1>0
<1>2. ASSUME d \in FromTheStart, RateAtThrottle(d, try.first) > 0
      PROVE  rule'[d] \in SaneLimit
  <2>1. ~LimitCrashes(d, RateAtThrottle(d, try.first), r.seen[d], r.previous[d])
    BY <1>1, <1>2 DEF ThrottleCrashes
  <2>2. RateAtThrottle(d, try.first) \in Nat \ {0} /\ measured[d] \in Nat
    BY <1>2, ThrottleRates, DirectionTypes
  <2>3. r.seen[d] \in Counter /\ r.previous[d] \in Counter
    BY NewReadings
  <2>4. rule'[d] = Limit(d, RateAtThrottle(d, try.first), measured[d], r.seen[d], r.previous[d])
    BY <1>1, <1>2
  <2> QED BY <2>1, <2>2, <2>3, <2>4, LimitIsSane
<1>3. rate[d] > 0 => RateAtThrottle(d, try.first) > 0
  <2>1. d \in try.first => FupRate > 0
    BY RateCounters, TriesSound DEF Throttle
  <2> QED BY <2>1 DEF RateAtThrottle
<1> QED BY <1>1, <1>2, <1>3

LEMMA ThrottleRules ==
  ASSUME RateInv, UNCHANGED setting, PassThrottles
  PROVE  RulesSane'
<1>1. \A d \in Dir : rule'[d] \in SaneLimit \cup {NoLimit}
  BY ThrottleLimits, DirectionTypes
<1>2. rule' = [d \in Dir |-> rule'[d]]
  BY DEF PassThrottles
<1> QED BY <1>1, <1>2 DEF RulesSane, Dir

\* A pass that does not crash measures a rate.
LEMMA MeasuredRate ==
  ASSUME RateInv, pc["watchdog"] = "rates", ~RatesCrash, NEW d \in Dir
  PROVE  Rate(d) \in Nat
<1>1. now["watchdog"] \in Int /\ windowStart \in Int
  BY DEF RateInv, TypeOK, Thread
<1>2. Duration \in Nat
  BY <1>1, RateConstants DEF Duration
<1>3. Duration \in Nat \ {0}
  BY <1>2 DEF RatesCrash
<1>4. seen[d].bytes - windowBytes[d] \in Int
  BY DEF RateInv, TypeOK, Counter
<1>5. (seen[d].bytes - windowBytes[d]) % Word \in Nat
  BY <1>4, RateConstants
<1>6. ((seen[d].bytes - windowBytes[d]) % Word) \div 125 \in Nat
  BY <1>5
<1> QED BY <1>3, <1>6 DEF Rate

LEMMA PassRules ==
  ASSUME RateInv, UNCHANGED setting, PassLimits
  PROVE  RulesSane'
<1>1. /\ pc["watchdog"] = "rates" /\ ~RatesCrash
      /\ rule' = [d \in Dir |->
                   IF Lifts(d) THEN NoLimit
                   ELSE IF Exceeds(d) \/ Due(d)
                        THEN Limit(d, rate[d], Rate(d), seen[d], previous[d])
                        ELSE rule[d]]
  BY DEF PassLimits
<1>2. ASSUME NEW d \in Dir, Exceeds(d) \/ Due(d)
      PROVE  Limit(d, rate[d], Rate(d), seen[d], previous[d]) \in SaneLimit
  <2>1. ~LimitCrashes(d, rate[d], seen[d], previous[d])
    BY <1>1, <1>2 DEF RatesCrash
  <2>2. rate[d] > 0
    BY <1>2 DEF Exceeds, Due
  <2>3. rate[d] \in Nat \ {0} /\ Rate(d) \in Nat
    BY <1>1, <2>2, MeasuredRate, DirectionTypes
  <2> QED BY <2>1, <2>3, LimitIsSane, DirectionTypes
<1>3. \A d \in Dir : rule[d] \in SaneLimit \cup {NoLimit}
  BY DirectionTypes
<1> QED BY <1>1, <1>2, <1>3 DEF RulesSane, Dir

LEMMA SameRules ==
  ASSUME RateInv, UNCHANGED <<setting, rule>>
  PROVE  RulesSane'
BY DEF RateInv, RulesSane, Dir

LEMMA LeaveRules ==
  ASSUME UNCHANGED setting, Leave
  PROVE  RulesSane'
BY DEF Leave, RulesSane, Dir

LEMMA RulesStep ==
  ASSUME RateInv, [Next]_vars
  PROVE  RulesSane'
<1>1. CASE UNCHANGED vars
  BY <1>1, SameRules DEF vars, clientVars
<1>2. CASE Next
  <2>1. UNCHANGED setting
    BY <1>2 DEF Next
  <2>2. CASE Tick \/ Join \/ HttpSteps \/ NdsctlAuth
    BY <2>1, <2>2, SameRules
       DEF Tick, Join, HttpSteps, HttpRequest, HttpReset, HttpAuth, HttpAssign,
           NdsctlAuth, clientVars
  <2>3. ASSUME NEW d \in Dir, Transmit(d) PROVE RulesSane'
    BY <2>1, <2>3, SameRules DEF Transmit
  <2>4. ASSUME NEW t, Authenticating(t) PROVE RulesSane'
    <3>1. CASE AuthRefused(t) \/ AuthCountersFail(t) \/ AuthCrashes(t)
      BY <2>1, <3>1, SameRules DEF AuthRefused, AuthCountersFail, AuthCrashes, clientVars
    <3> QED BY <2>1, <2>4, <3>1, AuthRules DEF Authenticating
  <2>5. CASE PassStarts \/ PassCounts \/ PassCountsFail \/ PassThrottleFails
             \/ PassKeeps \/ PassCrashes
    BY <2>1, <2>5, SameRules
       DEF PassStarts, PassCounts, PassCountsFail, PassThrottleFails, PassKeeps,
           PassCrashes, clientVars
  <2>6. CASE PassForgets \/ PassEndsSession
    BY <2>1, <2>6, SameRules, LeaveRules DEF PassForgets, PassEndsSession, clientVars
  <2>7. CASE PassThrottles \/ PassLimits
    BY <2>1, <2>7, ThrottleRules, PassRules
  <2> QED BY <1>2, <2>2, <2>3, <2>4, <2>5, <2>6, <2>7 DEF Next, Watchdog
<1> QED BY <1>1, <1>2

-----------------------------------------------------------------------------
(* The types                                                               *)

LEMMA ModelSets ==
  ASSUME UNCHANGED setting
  PROVE  /\ Dir' = Dir /\ Authenticators' = Authenticators /\ Thread' = Thread
         /\ RateCheckWindow' = RateCheckWindow
BY DEF Dir, Authenticators, Thread, RateCheckWindow

LEMMA SettingTypes ==
  ASSUME RateInv
  PROVE  /\ setting \in Settings /\ RateCheckWindow \in Nat
         /\ "watchdog" \in Thread /\ Authenticators \subseteq Thread
         /\ clock \in 0..MaxClock /\ 0 \in 0..MaxClock
BY RateConstants
   DEF RateInv, TypeOK, Setting, RateCheckWindow, Authenticators, Thread

\* The variables of the rates and those of the threads, apart.
RateTypes ==
  /\ state \in {"Gone", "Preauthenticated", "Authenticated", "AuthBlocked"}
  /\ over \subseteq Dir /\ limited \subseteq Dir
  /\ rate \in [Dir -> Nat] /\ measured \in [Dir -> Nat]
  /\ windowStart \in 0..MaxClock /\ windowCounter \in Nat

ThreadTypes ==
  /\ clock \in 0..MaxClock /\ alive \in BOOLEAN
  /\ lock \in Thread \cup {"free"}
  /\ pc \in [Thread -> Label] /\ now \in [Thread -> 0..MaxClock]
  /\ pinned \in BOOLEAN

LEMMA SameThreads ==
  ASSUME RateInv, UNCHANGED <<setting, clock, alive, lock, pc, now, pinned>>
  PROVE  ThreadTypes'
BY ModelSets DEF RateInv, TypeOK, ThreadTypes

LEMMA SameRates ==
  ASSUME RateInv, UNCHANGED <<setting, state, over, limited, rate, measured,
                              windowStart, windowCounter>>
  PROVE  RateTypes'
BY ModelSets DEF RateInv, TypeOK, RateTypes

LEMMA ThreadStep ==
  ASSUME RateInv, Next
  PROVE  ThreadTypes'
<1> USE DEF ThreadTypes
<1>1. UNCHANGED setting
  BY DEF Next
<1>2. Dir' = Dir /\ Authenticators' = Authenticators /\ Thread' = Thread
  BY <1>1, ModelSets
<1>3. ThreadTypes /\ "watchdog" \in Thread /\ Authenticators \subseteq Thread
  BY SettingTypes DEF RateInv, TypeOK
<1>4. CASE Tick
  <2>1. clock' \in 0..MaxClock
    BY <1>3, <1>4, RateConstants DEF Tick
  <2> QED BY <1>2, <1>3, <1>4, <2>1 DEF Tick, threadVars
<1>5. CASE Join
  BY <1>2, <1>3, <1>5 DEF Join, threadVars
<1>6. ASSUME NEW d \in Dir, Transmit(d) PROVE ThreadTypes'
  BY <1>2, <1>3, <1>6 DEF Transmit, threadVars
<1>7. CASE "http" \in Authenticators /\ HttpSteps
  <2>1. UNCHANGED <<clock, alive>>
    BY <1>7 DEF HttpSteps, HttpRequest, HttpReset, HttpAuth, HttpAssign
  <2>2. lock' \in Thread \cup {"free"} /\ now' \in [Thread -> 0..MaxClock] /\ pinned' \in BOOLEAN
    BY <1>3, <1>7 DEF HttpSteps, HttpRequest, HttpReset, HttpAuth, HttpAssign, clientVars
  <2>3. pc' \in [Thread -> Label]
    BY <1>3, <1>7
       DEF HttpSteps, HttpRequest, HttpReset, HttpAuth, HttpAssign, Goto, Label
  <2> QED BY <1>2, <1>3, <2>1, <2>2, <2>3
<1>8. CASE "ndsctl" \in Authenticators /\ NdsctlAuth
  <2>1. UNCHANGED <<clock, alive, pinned>>
    BY <1>8 DEF NdsctlAuth
  <2>2. lock' \in Thread \cup {"free"} /\ now' \in [Thread -> 0..MaxClock]
    BY <1>3, <1>8 DEF NdsctlAuth
  <2>3. pc' \in [Thread -> Label]
    BY <1>3, <1>8 DEF NdsctlAuth, Goto, Label
  <2> QED BY <1>2, <1>3, <2>1, <2>2, <2>3
<1>9. ASSUME NEW t \in Authenticators, Authenticating(t) PROVE ThreadTypes'
  <2>1. /\ AuthDone(t) \/ UNCHANGED <<pc, lock>>
        /\ UNCHANGED <<clock, now, pinned>> /\ alive' \in {alive, FALSE}
    BY <1>9 DEF Authenticating, AuthRefused, AuthCountersFail, AuthCompletes, AuthMeasures,
                AuthCrashes, threadVars
  <2>2. pc' \in [Thread -> Label]
    BY <1>3, <2>1 DEF AuthDone, Goto, Label
  <2>3. lock' \in {lock, "free"}
    BY <2>1 DEF AuthDone
  <2> QED BY <1>2, <1>3, <2>1, <2>2, <2>3
<1>10. CASE Watchdog
  <2>1. clock' = clock /\ alive' \in BOOLEAN /\ pinned' \in BOOLEAN
    BY <1>3, <1>10
       DEF Watchdog, PassStarts, PassCounts, PassCountsFail, PassForgets, PassEndsSession,
           PassThrottles, PassThrottleFails, PassKeeps, PassLimits, PassCrashes, Leave,
           threadVars
  <2>2. lock' \in Thread \cup {"free"}
    BY <1>3, <1>10
       DEF Watchdog, PassStarts, PassCounts, PassCountsFail, PassForgets, PassEndsSession,
           PassThrottles, PassThrottleFails, PassKeeps, PassLimits, PassCrashes, threadVars
  <2>3. now' \in [Thread -> 0..MaxClock]
    BY <1>3, <1>10
       DEF Watchdog, PassStarts, PassCounts, PassCountsFail, PassForgets, PassEndsSession,
           PassThrottles, PassThrottleFails, PassKeeps, PassLimits, PassCrashes, threadVars
  <2>4. \/ UNCHANGED pc
        \/ \E l \in {"lock", "quota", "rates", "idle"} : Goto("watchdog", l)
    BY <1>10
       DEF Watchdog, PassStarts, PassCounts, PassCountsFail, PassForgets, PassEndsSession,
           PassThrottles, PassThrottleFails, PassKeeps, PassLimits, PassCrashes, threadVars
  <2>5. pc' \in [Thread -> Label]
    BY <1>3, <2>4 DEF Goto, Label
  <2> QED BY <1>2, <2>1, <2>2, <2>3, <2>5, <1>3
<1> QED BY <1>4, <1>5, <1>6, <1>7, <1>8, <1>9, <1>10 DEF Next

LEMMA AuthTypes ==
  ASSUME RateInv, UNCHANGED setting, NEW t \in Authenticators, Authenticating(t)
  PROVE  RateTypes'
<1>1. Dir' = Dir
  BY ModelSets
<1>2. CASE AuthRefused(t) \/ AuthCrashes(t)
  BY <1>2, SameRates DEF AuthRefused, AuthCrashes, clientVars
<1>3. ASSUME AuthMeasures(t)
      PROVE  /\ rate' \in [Dir' -> Nat] /\ over' \subseteq Dir' /\ measured' \in [Dir' -> Nat]
             /\ windowStart' \in 0..MaxClock /\ windowCounter' \in Nat
  <2>1. UNCHANGED <<over, measured>> /\ windowStart' = now[t] /\ windowCounter' = RateCheckWindow
    BY <1>3 DEF AuthMeasures
  <2>2. now[t] \in 0..MaxClock /\ RateCheckWindow \in Nat
    BY SettingTypes DEF RateInv, TypeOK
  <2>3. over \subseteq Dir /\ measured \in [Dir -> Nat]
    BY DEF RateInv, TypeOK
  <2> QED BY <1>1, <1>3, <2>1, <2>2, <2>3, NewRates
<1>4. CASE AuthCountersFail(t)
  <2>1. AuthMeasures(t) /\ UNCHANGED <<state, limited>>
    BY <1>4 DEF AuthCountersFail
  <2> QED BY <1>1, <1>3, <2>1 DEF RateInv, TypeOK, RateTypes
<1>5. CASE AuthCompletes(t)
  <2>1. AuthMeasures(t) /\ state' = "Authenticated" /\ limited' = Toggle(FromTheStart)
    BY <1>5 DEF AuthCompletes
  <2>2. limited' \subseteq Dir
    BY <2>1 DEF Toggle, FromTheStart, RateInv, TypeOK
  <2> QED BY <1>1, <1>3, <2>1, <2>2 DEF RateTypes
<1> QED BY <1>2, <1>4, <1>5 DEF Authenticating

LEMMA RateStep ==
  ASSUME RateInv, Next
  PROVE  RateTypes'
<1>1. UNCHANGED setting
  BY DEF Next
<1>2. Dir' = Dir
  BY <1>1, ModelSets
<1>3. RateTypes /\ RateCheckWindow \in Nat /\ clock \in 0..MaxClock /\ 0 \in 0..MaxClock
  BY SettingTypes DEF RateInv, TypeOK, RateTypes
<1>4. CASE Tick
  BY <1>1, <1>4, SameRates DEF Tick, clientVars
<1>5. CASE Join
  BY <1>2, <1>3, <1>5 DEF Join, RateTypes
<1>6. ASSUME NEW d \in Dir, Transmit(d) PROVE RateTypes'
  <2>1. over' \subseteq Dir
    BY <1>3, <1>6 DEF Transmit, RateTypes
  <2> QED BY <1>2, <1>3, <1>6, <2>1 DEF Transmit, RateTypes
<1>7. CASE HttpRequest \/ HttpAuth
  BY <1>1, <1>7, SameRates DEF HttpRequest, HttpAuth, clientVars
<1>8. CASE HttpReset
  BY <1>2, <1>3, <1>8 DEF HttpReset, RateTypes
<1>9. CASE HttpAssign
  <2>1. GivenRate \cup {0} \subseteq Nat
    BY RateConstants
  <2>2. \E given \in [Dir -> GivenRate \cup {0}] :
          rate' = [d \in Dir |-> IF pinned /\ given[d] > 0 THEN given[d] ELSE rate[d]]
    BY <1>9 DEF HttpAssign
  <2>3. rate' \in [Dir -> Nat]
    BY <1>3, <2>1, <2>2 DEF RateTypes
  <2> QED BY <1>2, <1>3, <1>9, <2>3 DEF HttpAssign, RateTypes
<1>10. CASE NdsctlAuth
  <2>1. rate' \in [Dir -> Nat]
    BY <1>10, RateConstants DEF NdsctlAuth
  <2> QED BY <1>2, <1>3, <1>10, <2>1 DEF NdsctlAuth, RateTypes
<1>11. ASSUME NEW t \in Authenticators, Authenticating(t) PROVE RateTypes'
  BY <1>1, <1>11, AuthTypes
<1>12. CASE PassStarts \/ PassCounts \/ PassCountsFail \/ PassCrashes
  BY <1>1, <1>12, SameRates DEF PassStarts, PassCounts, PassCountsFail, PassCrashes, clientVars
<1>13. CASE Leave
  BY <1>2, <1>3, <1>13 DEF Leave, RateTypes
<1>14. CASE PassForgets \/ PassEndsSession
  BY <1>1, <1>13, <1>14, SameRates DEF PassForgets, PassEndsSession, clientVars
<1>15. ThrottledRate \in [Dir -> Nat]
  BY ThrottleRates DEF ThrottledRate
<1>16. CASE PassThrottles
  <2>1. /\ UNCHANGED <<over, measured>> /\ rate' = ThrottledRate /\ state' = "AuthBlocked"
        /\ windowStart' = clock /\ windowCounter' = RateCheckWindow /\ limited' = SetBits
    BY <1>16 DEF PassThrottles
  <2>2. limited' \subseteq Dir
    BY <1>3, <2>1 DEF SetBits, FromTheStart, RateTypes
  <2> QED BY <1>2, <1>3, <1>15, <2>1, <2>2 DEF RateTypes
<1>17. CASE PassThrottleFails
  BY <1>2, <1>3, <1>15, <1>17 DEF PassThrottleFails, RateTypes
<1>18. CASE PassKeeps
  BY <1>2, <1>3, <1>15, <1>18 DEF PassKeeps, RateTypes
<1>19. CASE PassLimits
  <2>1. measured' \in [Dir -> Nat]
    BY <1>19, MeasuredRate DEF PassLimits
  <2>2. limited' \subseteq Dir
    BY <1>3, <1>19 DEF PassLimits, BitsAfterPass, RateTypes
  <2>3. windowStart' \in 0..MaxClock
    BY <1>3, <1>19, SettingTypes DEF PassLimits, RateTypes, RateInv, TypeOK
  <2>4. windowCounter' \in Nat
    BY <1>3, <1>19 DEF PassLimits, WindowEnds, RateTypes
  <2> QED BY <1>2, <1>3, <1>19, <2>1, <2>2, <2>3, <2>4 DEF PassLimits, RateTypes
<1> QED BY <1>4, <1>5, <1>6, <1>7, <1>8, <1>9, <1>10, <1>11, <1>12, <1>14, <1>16, <1>17,
           <1>18, <1>19
        DEF Next, HttpSteps, Watchdog

LEMMA RateInvStep ==
  ASSUME RateInv, [Next]_vars
  PROVE  RateInv'
<1>1. CounterInv' /\ RulesSane'
  BY RateCounters, CounterStep, RulesStep
<1>2. RateTypes' /\ ThreadTypes'
  <2>1. CASE UNCHANGED vars
    BY <2>1, SameRates, SameThreads DEF vars, clientVars, threadVars
  <2> QED BY <2>1, RateStep, ThreadStep
<1>3. TypeOK'
  <2>1. NoLimit \in [packets : Nat, bucket : Nat]
    BY DEF NoLimit
  <2>2. SaneLimit \subseteq [packets : Nat, bucket : Nat]
    BY DEF SaneLimit
  <2>3. rule' \in [Dir' -> [packets : Nat, bucket : Nat]]
    BY <1>1, <2>1, <2>2 DEF RulesSane
  <2> QED BY <1>1, <1>2, <2>3 DEF CounterInv, CounterTypes, RateTypes, ThreadTypes, TypeOK
<1> QED BY <1>1, <1>3 DEF RateInv, CounterInv

\* Every variable keeps its type; no counter of the measurement is ever negative.
THEOREM RatesTyped == Spec => []TypeOK
<1>1. RateInv => TypeOK
  BY DEF RateInv
<1> QED BY RateInit, RateInvStep, <1>1, PTL DEF Spec

\* Whatever is measured, a limit that is installed lets some packets through, no more
\* than nftables allows, and its bucket stays within the configured range.
THEOREM LimitsSane == Spec => []LimitSane
<1>1. RateInv => LimitSane
  BY DEF RateInv, RulesSane, LimitSane, SaneLimit
<1> QED BY RateInit, RateInvStep, <1>1, PTL DEF Spec

-----------------------------------------------------------------------------
(* The critical sections of client_list_mutex                              *)

\* A thread that completes an authentication holds the lock over a client that has no
\* access yet, and a pass that looks at quotas and rates over one that has.
LockInv ==
  /\ \A t \in Authenticators :
       pc[t] = "complete" => lock = t /\ state = "Preauthenticated"
  /\ pc["watchdog"] \in {"quota", "rates"} => lock = "watchdog" /\ HasAccess

LEMMA Names ==
  ASSUME RateInv
  PROVE  Authenticators \subseteq {"http", "ndsctl"} /\ "watchdog" \in Thread
BY RateConstants DEF RateInv, TypeOK, Setting, Authenticators, Thread

LEMMA LockInit == Init => LockInv
BY RateConstants DEF Init, LockInv, Thread, Setting, Authenticators

LEMMA LockStep ==
  ASSUME RateInv, LockInv, [Next]_vars
  PROVE  LockInv'
<1> USE DEF LockInv, HasAccess
<1>1. CASE UNCHANGED vars
  BY <1>1, ModelSets DEF vars, clientVars, threadVars
<1>2. CASE Next
  <2>1. Authenticators' = Authenticators /\ Thread' = Thread
    BY <1>2, ModelSets DEF Next
  <2>2. /\ Authenticators \subseteq {"http", "ndsctl"} /\ Authenticators \subseteq Thread
        /\ "watchdog" \in Thread /\ pc \in [Thread -> Label]
    BY Names, SettingTypes DEF RateInv, TypeOK
  <2>3. CASE Tick
    BY <2>1, <2>3 DEF Tick, clientVars, threadVars
  <2>4. CASE Join
    BY <2>1, <2>2, <2>4 DEF Join, threadVars
  <2>5. ASSUME NEW d \in Dir, Transmit(d) PROVE LockInv'
    BY <2>1, <2>5 DEF Transmit, threadVars
  <2>6. CASE HttpRequest \/ HttpReset
    BY <2>1, <2>2, <2>6 DEF HttpRequest, HttpReset, Goto, clientVars
  <2>7. CASE HttpAuth
    BY <2>1, <2>2, <2>7 DEF HttpAuth, Goto, clientVars
  <2>8. CASE HttpAssign
    BY <2>1, <2>2, <2>8 DEF HttpAssign, Goto
  <2>9. CASE NdsctlAuth
    BY <2>1, <2>2, <2>9 DEF NdsctlAuth, Goto
  <2>10. ASSUME NEW t \in Authenticators, Authenticating(t) PROVE LockInv'
    <3>1. CASE AuthCrashes(t)
      BY <2>1, <3>1 DEF AuthCrashes, clientVars, threadVars
    <3>2. CASE ~AuthCrashes(t)
      <4>1. pc[t] = "complete" /\ AuthDone(t)
        BY <2>10, <3>2
           DEF Authenticating, AuthRefused, AuthCountersFail, AuthCompletes, AuthMeasures
      <4>2. \A u \in Authenticators : pc'[u] # "complete"
        BY <2>2, <4>1 DEF AuthDone, Goto
      <4>3. pc'["watchdog"] = pc["watchdog"] /\ lock = t /\ t # "watchdog"
        BY <2>2, <4>1 DEF AuthDone, Goto
      <4> QED BY <2>1, <4>2, <4>3
    <3> QED BY <3>1, <3>2
  <2>11. CASE PassStarts \/ PassCounts \/ PassCountsFail
    BY <2>1, <2>2, <2>11 DEF PassStarts, PassCounts, PassCountsFail, Goto, clientVars
  <2>12. CASE PassForgets
    BY <2>1, <2>2, <2>12 DEF PassForgets, Leave, Goto
  <2>13. ASSUME pc["watchdog"] \in {"quota", "rates"},
                \/ Goto("watchdog", "rates") /\ UNCHANGED lock /\ HasAccess'
                \/ Goto("watchdog", "idle")
         PROVE  LockInv'
    <3>1. \A u \in Authenticators : pc'[u] = pc[u] /\ pc[u] # "complete"
      BY <2>2, <2>13 DEF Goto
    <3> QED BY <2>1, <2>2, <2>13, <3>1 DEF Goto
  <2>14. CASE PassEndsSession
    BY <2>13, <2>14 DEF PassEndsSession
  <2>15. CASE PassThrottles
    BY <2>13, <2>15 DEF PassThrottles, Throttling
  <2>16. CASE PassThrottleFails
    BY <2>13, <2>16 DEF PassThrottleFails, Throttling
  <2>17. CASE PassKeeps
    BY <2>13, <2>17 DEF PassKeeps
  <2>18. CASE PassLimits
    BY <2>13, <2>18 DEF PassLimits
  <2>19. CASE PassCrashes
    BY <2>1, <2>19 DEF PassCrashes, clientVars, threadVars
  <2> QED BY <1>2, <2>3, <2>4, <2>5, <2>6, <2>7, <2>8, <2>9, <2>10, <2>11, <2>12, <2>14,
             <2>15, <2>16, <2>17, <2>18, <2>19
          DEF Next, HttpSteps, Watchdog
<1> QED BY <1>1, <1>2

-----------------------------------------------------------------------------
(* The bits of rate_exceeded                                               *)

\* Every client has a rate, gets none later, or has no bits without a rule.
RuleFollows == ConfigRate > 0 \/ FupRate = 0 \/ FromTheStart = {}

\* A client without access has neither bits nor rules; one with access has a rate
\* where rates are configured, and its bits are those of its rules. Where no bits are
\* set from the start they are also in directions without a rate, which may get one.
BitInv ==
  /\ ~HasAccess => limited = {} /\ \A d \in Dir : rule[d] = NoLimit
  /\ ConfigRate > 0 /\ HasAccess => \A d \in Dir : rate[d] > 0
  /\ RuleFollows /\ HasAccess =>
       \A d \in Dir : rate[d] > 0 \/ FromTheStart = {}
                        => (d \in limited <=> rule[d] # NoLimit)

LEMMA BitInit == Init => BitInv
BY DEF Init, BitInv, HasAccess

LEMMA SameBits ==
  ASSUME BitInv, UNCHANGED <<setting, state, limited, rule>>,
         UNCHANGED rate \/ ~HasAccess
  PROVE  BitInv'
BY DEF BitInv, HasAccess, RuleFollows, FromTheStart, Bursting, Dir

\* Where rates are configured, a client that gets access has one.
LEMMA AuthHasRate ==
  ASSUME RateInv, NEW t, AuthMeasures(t), ConfigRate > 0, NEW d \in Dir
  PROVE  rate'[d] > 0
<1>1. \E quota \in [Dir -> GivenRate \cup {0}] :
        rate' = [e \in Dir |-> IF quota[e] # 0 THEN quota[e]
                               ELSE IF rate[e] = 0 THEN ConfigRate ELSE rate[e]]
  BY DEF AuthMeasures, AuthRates
<1>2. rate'[d] # 0
  BY <1>1
<1>3. rate'[d] \in Nat
  BY NewRates
<1> QED BY <1>2, <1>3

\* The bits of a client that gets access are those of its rules.
LEMMA AuthBits ==
  ASSUME RateInv, BitInv, UNCHANGED setting, ~HasAccess, NEW t, AuthCompletes(t)
  PROVE  BitInv'
<1>1. Dir' = Dir /\ FromTheStart' = FromTheStart /\ state' = "Authenticated"
  BY DEF Dir, FromTheStart, Bursting, AuthCompletes
<1>2. limited' = FromTheStart
  BY DEF AuthCompletes, Toggle, BitInv
<1>4. ConfigRate > 0 => \A d \in Dir : rate'[d] > 0
  BY AuthHasRate DEF AuthCompletes
<1>5. \A d \in Dir : IF d \in FromTheStart /\ rate'[d] > 0
                     THEN rule'[d] \in SaneLimit ELSE rule'[d] = NoLimit
  BY AuthLimits
<1>6. \A d \in Dir : rate'[d] > 0 \/ FromTheStart = {}
                       => (d \in limited' <=> rule'[d] # NoLimit)
  BY <1>2, <1>5, SaneIsLimit
<1> QED BY <1>1, <1>4, <1>6 DEF BitInv, HasAccess

\* A quota that throttles leaves a direction with the rate it had or with FupRate.
LEMMA ThrottleKeeps ==
  ASSUME RateInv, BitInv, HasAccess, rate' = ThrottledRate
  PROVE  /\ ConfigRate > 0 => \A d \in Dir : rate'[d] > 0
         /\ RuleFollows => \A d \in Dir :
              rate'[d] > 0 => rate[d] > 0 \/ FromTheStart = {}
<1>1. FupRate \in Nat /\ \A d \in Dir : rate[d] \in Nat
  BY RateConstants DEF RateInv, TypeOK
<1>2. \A d \in Dir : rate'[d] = rate[d] \/ (rate'[d] = FupRate /\ FupRate > 0)
  BY DEF ThrottledRate, Throttle
<1> QED BY <1>1, <1>2 DEF BitInv, RuleFollows

\* Throttling that changes neither bits nor rules.
LEMMA ThrottleSameBits ==
  ASSUME RateInv, BitInv, HasAccess, UNCHANGED <<setting, state, limited, rule>>,
         rate' = ThrottledRate
  PROVE  BitInv'
<1>1. /\ Dir' = Dir /\ FromTheStart' = FromTheStart /\ RuleFollows' = RuleFollows
      /\ HasAccess' = HasAccess
  BY DEF Dir, FromTheStart, Bursting, RuleFollows, HasAccess
<1>2. /\ ConfigRate > 0 => \A d \in Dir : rate'[d] > 0
      /\ RuleFollows => \A d \in Dir :
           rate'[d] > 0 => rate[d] > 0 \/ FromTheStart = {}
  BY ThrottleKeeps
<1> QED BY <1>1, <1>2 DEF BitInv

\* A client that is throttled is limited from the start, where that is configured, at
\* the rates it has by then.
LEMMA ThrottleBits ==
  ASSUME RateInv, BitInv, HasAccess, UNCHANGED setting, PassThrottles
  PROVE  BitInv'
<1>1. /\ Dir' = Dir /\ FromTheStart' = FromTheStart /\ RuleFollows' = RuleFollows /\ HasAccess'
  BY DEF Dir, FromTheStart, Bursting, RuleFollows, HasAccess, PassThrottles
<1>2. /\ ConfigRate > 0 => \A d \in Dir : rate'[d] > 0
      /\ RuleFollows => \A d \in Dir :
           rate'[d] > 0 => rate[d] > 0 \/ FromTheStart = {}
  BY ThrottleKeeps DEF PassThrottles
<1>3. ASSUME RuleFollows, NEW d \in Dir, rate'[d] > 0 \/ FromTheStart = {}
      PROVE  d \in limited' <=> rule'[d] # NoLimit
  <2>1. rate[d] > 0 \/ FromTheStart = {}
    BY <1>2, <1>3
  <2>2. d \in limited <=> rule[d] # NoLimit
    BY <1>3, <2>1 DEF BitInv
  <2>3. d \in limited' <=> d \in limited \/ d \in FromTheStart
    BY DEF PassThrottles, SetBits
  <2>4. CASE d \notin FromTheStart
    <3>1. rule'[d] = rule[d]
      BY <2>4 DEF PassThrottles
    <3> QED BY <2>2, <2>3, <2>4, <3>1
  <2>5. CASE d \in FromTheStart
    <3>1. rule'[d] \in SaneLimit
      BY <2>1, <2>5, ThrottleLimits
    <3> QED BY <2>3, <2>5, <3>1, SaneIsLimit
  <2> QED BY <2>4, <2>5
<1> QED BY <1>1, <1>2, <1>3 DEF BitInv

\* A pass installs the rules whose bits it sets, and takes out those whose bits it clears.
LEMMA PassMoves ==
  ASSUME RateInv, PassLimits, NEW d \in Dir
  PROVE  \/ Lifts(d) /\ d \notin limited' /\ rule'[d] = NoLimit
         \/ d \in limited' /\ rule'[d] # NoLimit
         \/ (d \in limited' <=> d \in limited) /\ rule'[d] = rule[d]
<1>1. limited' = (limited \cup {e \in Dir : Exceeds(e)}) \ {e \in Dir : Lifts(e)}
  BY DEF PassLimits, BitsAfterPass
<1>2. rule'[d] = IF Lifts(d) THEN NoLimit
                 ELSE IF Exceeds(d) \/ Due(d)
                      THEN Limit(d, rate[d], Rate(d), seen[d], previous[d])
                      ELSE rule[d]
  BY DEF PassLimits
<1>3. CASE Lifts(d)
  BY <1>1, <1>2, <1>3
<1>4. CASE ~Lifts(d) /\ (Exceeds(d) \/ Due(d))
  <2>1. d \in limited'
    BY <1>1, <1>4 DEF Due
  <2>2. rate[d] > 0 /\ ~LimitCrashes(d, rate[d], seen[d], previous[d])
    BY <1>4 DEF Exceeds, Due, PassLimits, RatesCrash
  <2>3. rate[d] \in Nat \ {0} /\ Rate(d) \in Nat
    BY <2>2, MeasuredRate, DirectionTypes DEF PassLimits
  <2>4. rule'[d] \in SaneLimit
    BY <1>2, <1>4, <2>2, <2>3, LimitIsSane, DirectionTypes
  <2> QED BY <2>1, <2>4, SaneIsLimit
<1>5. CASE ~Lifts(d) /\ ~Exceeds(d) /\ ~Due(d)
  BY <1>1, <1>2, <1>5
<1> QED BY <1>3, <1>4, <1>5

LEMMA PassBits ==
  ASSUME RateInv, BitInv, HasAccess, UNCHANGED setting, PassLimits
  PROVE  BitInv'
<1>1. /\ Dir' = Dir /\ FromTheStart' = FromTheStart /\ RuleFollows' = RuleFollows /\ HasAccess'
      /\ rate' = rate
  BY DEF Dir, FromTheStart, Bursting, RuleFollows, HasAccess, PassLimits
<1>2. \A d \in Dir : (d \in limited <=> rule[d] # NoLimit)
                       => (d \in limited' <=> rule'[d] # NoLimit)
  BY PassMoves
<1>3. ConfigRate > 0 => \A d \in Dir : rate[d] > 0
  BY DEF BitInv
<1>4. RuleFollows => \A d \in Dir : rate[d] > 0 \/ FromTheStart = {}
                                     => (d \in limited <=> rule[d] # NoLimit)
  BY DEF BitInv
<1> QED BY <1>1, <1>2, <1>3, <1>4 DEF BitInv

LEMMA LeaveBits ==
  ASSUME UNCHANGED setting, Leave
  PROVE  BitInv'
BY DEF Leave, BitInv, HasAccess, Dir

LEMMA BitStep ==
  ASSUME RateInv, LockInv, BitInv, "http" \notin Authenticators, [Next]_vars
  PROVE  BitInv'
<1>1. CASE UNCHANGED vars
  BY <1>1, SameBits DEF vars, clientVars
<1>2. CASE Next
  <2>1. UNCHANGED setting
    BY <1>2 DEF Next
  <2>2. CASE Tick
    BY <2>1, <2>2, SameBits DEF Tick, clientVars
  <2>3. CASE Join
    BY <2>1, <2>3 DEF Join, BitInv, HasAccess, Dir
  <2>4. ASSUME NEW d \in Dir, Transmit(d) PROVE BitInv'
    BY <2>1, <2>4, SameBits DEF Transmit
  <2>5. CASE NdsctlAuth
    BY <2>1, <2>5, SameBits DEF NdsctlAuth, HasAccess
  <2>6. ASSUME NEW t \in Authenticators, Authenticating(t) PROVE BitInv'
    <3>1. ~HasAccess
      BY <2>6 DEF LockInv, HasAccess, Authenticating, AuthRefused, AuthCountersFail,
                  AuthCompletes, AuthCrashes, AuthMeasures
    <3>2. CASE AuthRefused(t) \/ AuthCountersFail(t) \/ AuthCrashes(t)
      BY <2>1, <3>1, <3>2, SameBits DEF AuthRefused, AuthCountersFail, AuthCrashes, clientVars
    <3> QED BY <2>1, <2>6, <3>1, <3>2, AuthBits DEF Authenticating
  <2>7. CASE PassStarts \/ PassCounts \/ PassCountsFail \/ PassCrashes
    BY <2>1, <2>7, SameBits DEF PassStarts, PassCounts, PassCountsFail, PassCrashes, clientVars
  <2>8. CASE PassForgets \/ PassEndsSession
    BY <2>1, <2>8, LeaveBits, SameBits DEF PassForgets, PassEndsSession, clientVars
  <2>9. pc["watchdog"] \in {"quota", "rates"} => HasAccess
    BY DEF LockInv
  <2>10. CASE PassThrottles
    BY <2>1, <2>9, <2>10, ThrottleBits DEF PassThrottles, Throttling
  <2>11. CASE PassThrottleFails
    BY <2>1, <2>9, <2>11, ThrottleSameBits DEF PassThrottleFails, Throttling
  <2>12. CASE PassKeeps
    BY <2>1, <2>9, <2>12, ThrottleSameBits DEF PassKeeps
  <2>13. CASE PassLimits
    BY <2>1, <2>9, <2>13, PassBits DEF PassLimits
  <2> QED BY <1>2, <2>2, <2>3, <2>4, <2>5, <2>6, <2>7, <2>8, <2>10, <2>11, <2>12, <2>13
          DEF Next, Watchdog
<1> QED BY <1>1, <1>2

-----------------------------------------------------------------------------
(* The bits, also of clients that requests authenticate                    *)

\* A bit that is set has its rule: where no bits are set from the start it is set with
\* the rule, and where they are and rates are configured every client has the rules.
BackInv ==
  /\ ~HasAccess => limited = {} /\ \A d \in Dir : rule[d] = NoLimit
  /\ HasAccess /\ FromTheStart = {} => \A d \in limited : rule[d] # NoLimit
  /\ HasAccess /\ FromTheStart # {} /\ ConfigRate > 0 => \A d \in Dir : rule[d] # NoLimit

LEMMA BackInit == Init => BackInv
BY DEF Init, BackInv, HasAccess

\* Bits are only reset.
LEMMA FewerBits ==
  ASSUME BackInv, UNCHANGED <<setting, state, rule>>, limited' \subseteq limited
  PROVE  BackInv'
BY DEF BackInv, HasAccess, FromTheStart, Bursting, Dir

LEMMA AuthBack ==
  ASSUME RateInv, BackInv, UNCHANGED setting, ~HasAccess, NEW t, AuthCompletes(t)
  PROVE  BackInv'
<1>1. Dir' = Dir /\ FromTheStart' = FromTheStart /\ HasAccess'
  BY DEF Dir, FromTheStart, Bursting, HasAccess, AuthCompletes
<1>2. limited' = FromTheStart
  BY DEF AuthCompletes, Toggle, BackInv
<1>3. ASSUME FromTheStart # {}, ConfigRate > 0, NEW d \in Dir
      PROVE  rule'[d] # NoLimit
  <2>1. d \in FromTheStart
    BY <1>3 DEF FromTheStart
  <2>2. rate'[d] > 0
    BY <1>3, AuthHasRate DEF AuthCompletes
  <2> QED BY <2>1, <2>2, AuthLimits, SaneIsLimit
<1> QED BY <1>1, <1>2, <1>3 DEF BackInv

LEMMA ThrottleBack ==
  ASSUME RateInv, BackInv, HasAccess, UNCHANGED setting, PassThrottles
  PROVE  BackInv'
<1>1. Dir' = Dir /\ FromTheStart' = FromTheStart /\ HasAccess'
  BY DEF Dir, FromTheStart, Bursting, HasAccess, PassThrottles
<1>2. limited \subseteq Dir
  BY DEF RateInv, TypeOK
<1>3. FromTheStart = {} => limited' = limited /\ \A d \in Dir : rule'[d] = rule[d]
  BY ThrottleLimits DEF PassThrottles, SetBits
<1>4. \A d \in Dir : rule[d] # NoLimit => rule'[d] # NoLimit
  BY ThrottleLimits, SaneIsLimit
<1> QED BY <1>1, <1>2, <1>3, <1>4 DEF BackInv

LEMMA PassBack ==
  ASSUME RateInv, BackInv, HasAccess, UNCHANGED setting, PassLimits
  PROVE  BackInv'
<1>1. Dir' = Dir /\ FromTheStart' = FromTheStart /\ HasAccess'
  BY DEF Dir, FromTheStart, Bursting, HasAccess, PassLimits
<1>2. limited' \subseteq Dir
  BY DEF RateInv, TypeOK, PassLimits, BitsAfterPass
<1>3. ASSUME FromTheStart = {}, NEW d \in limited' PROVE rule'[d] # NoLimit
  BY <1>2, <1>3, PassMoves DEF BackInv
<1>4. ASSUME FromTheStart # {}, ConfigRate > 0, NEW d \in Dir PROVE rule'[d] # NoLimit
  <2>1. ~Lifts(d) /\ rule[d] # NoLimit
    BY <1>4 DEF BackInv, Lifts, FromTheStart
  <2> QED BY <2>1, PassMoves
<1> QED BY <1>1, <1>3, <1>4 DEF BackInv

LEMMA LeaveBack ==
  ASSUME UNCHANGED setting, Leave
  PROVE  BackInv'
BY DEF Leave, BackInv, HasAccess, Dir

LEMMA BackStep ==
  ASSUME RateInv, LockInv, BackInv, [Next]_vars
  PROVE  BackInv'
<1>1. CASE UNCHANGED vars
  BY <1>1, FewerBits DEF vars, clientVars
<1>2. CASE Next
  <2>1. UNCHANGED setting
    BY <1>2 DEF Next
  <2>2. CASE Tick \/ HttpRequest \/ HttpAuth \/ HttpAssign \/ NdsctlAuth
    BY <2>1, <2>2, FewerBits
       DEF Tick, HttpRequest, HttpAuth, HttpAssign, NdsctlAuth, clientVars
  <2>3. CASE Join
    BY <2>1, <2>3 DEF Join, BackInv, HasAccess, Dir
  <2>4. ASSUME NEW d \in Dir, Transmit(d) PROVE BackInv'
    BY <2>1, <2>4, FewerBits DEF Transmit
  <2>5. CASE HttpReset
    BY <2>1, <2>5, FewerBits DEF HttpReset
  <2>6. ASSUME NEW t \in Authenticators, Authenticating(t) PROVE BackInv'
    <3>1. ~HasAccess
      BY <2>6 DEF LockInv, HasAccess, Authenticating, AuthRefused, AuthCountersFail,
                  AuthCompletes, AuthCrashes, AuthMeasures
    <3>2. CASE AuthRefused(t) \/ AuthCountersFail(t) \/ AuthCrashes(t)
      BY <2>1, <3>2, FewerBits DEF AuthRefused, AuthCountersFail, AuthCrashes, clientVars
    <3> QED BY <2>1, <2>6, <3>1, <3>2, AuthBack DEF Authenticating
  <2>7. CASE PassStarts \/ PassCounts \/ PassCountsFail \/ PassCrashes
             \/ PassThrottleFails \/ PassKeeps
    BY <2>1, <2>7, FewerBits
       DEF PassStarts, PassCounts, PassCountsFail, PassCrashes, PassThrottleFails,
           PassKeeps, clientVars
  <2>8. CASE PassForgets \/ PassEndsSession
    BY <2>1, <2>8, LeaveBack, FewerBits DEF PassForgets, PassEndsSession, clientVars
  <2>9. pc["watchdog"] \in {"quota", "rates"} => HasAccess
    BY DEF LockInv
  <2>10. CASE PassThrottles
    BY <2>1, <2>9, <2>10, ThrottleBack DEF PassThrottles, Throttling
  <2>11. CASE PassLimits
    BY <2>1, <2>9, <2>11, PassBack DEF PassLimits
  <2> QED BY <1>2, <2>2, <2>3, <2>4, <2>5, <2>6, <2>7, <2>8, <2>10, <2>11
          DEF Next, HttpSteps, Watchdog
<1> QED BY <1>1, <1>2

\* "Bit 0 matches the download limit rule. It may already be set." (auth.c:603), of
\* clients with an address of their own, in any sequence of authentications, throttling,
\* failing counters and passes: a bit that is set has a rule, where rates are configured
\* or no bits are set from the start; a rule has a bit as well, where only ndsctl
\* authenticates and every client has a rate, gets none later, or has no bits without
\* a rule.
THEOREM BitsTrue == Spec => []BitMatchesRule
<1> DEFINE Settled == "http" \notin Authenticators => BitInv
           Inv == RateInv /\ LockInv /\ BackInv /\ Settled
<1>1. Init => Inv
  BY RateInit, LockInit, BackInit, BitInit
<1>2. ASSUME Inv, [Next]_vars PROVE Inv'
  <2>1. Authenticators' = Authenticators
    BY <1>2 DEF Next, vars, Authenticators
  <2>2. Settled'
    BY <1>2, <2>1, BitStep
  <2> QED BY <1>2, <2>2, RateInvStep, LockStep, BackStep
<1>3. ASSUME Inv PROVE BitMatchesRule
  <2>1. limited \subseteq Dir
    BY <1>3 DEF RateInv, TypeOK
  <2>2. ASSUME BitsSettled, ConfigRate > 0 \/ FromTheStart = {}
        PROVE  \A d \in limited : rule[d] # NoLimit
    BY <1>3, <2>1, <2>2 DEF BitsSettled, BackInv
  <2>3. ASSUME BitsSettled, "http" \notin Authenticators, RuleFollows
        PROVE  BitsMatch
    BY <1>3, <2>3 DEF BitsSettled, BitsMatch, BitInv
  <2> QED BY <2>2, <2>3 DEF BitMatchesRule, RuleFollows
<1> QED BY <1>1, <1>2, <1>3, PTL DEF Spec
=============================================================================
