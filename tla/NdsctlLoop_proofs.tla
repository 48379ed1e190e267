--------------------------- MODULE NdsctlLoop_proofs ---------------------------
(***************************************************************************)
(* The slots of the event loop of the ndsctl thread are counted right, and *)
(* the listening socket is watched whenever there is room, for any number  *)
(* of connections, slots and clients that wait.                            *)
(***************************************************************************)
EXTENDS NdsctlLoop, FiniteSetTheorems, SequenceTheorems, TLAPS

\* A connection waits in one place, and has not been accepted.
QueueInv ==
  /\ \A i \in 1..Len(queue) : queue[i] \in used \ open
  /\ \A i, j \in 1..Len(queue) : queue[i] = queue[j] => i = j

\* epoll_wait returns an event at most for each descriptor, a hang-up only for a
\* connection, and the listening socket only while somebody waits: the loop
\* accepts once for each of its events.
BatchInv ==
  /\ \A e, f \in batch : e.fd = f.fd => e = f
  /\ \A e \in batch : /\ e.hup => e.fd # Listen
                      /\ e.fd = Listen => queue # <<>>

\* SlotsExact is inductive with these: an event is of a descriptor that is still
\* open (TypeOK and BatchInv), and who is accepted was not open before (QueueInv).
LoopInv == TypeOK /\ QueueInv /\ BatchInv /\ SlotsExact /\ AcceptingWithRoom

LEMMA LoopInit == Init => LoopInv
<1> SUFFICES ASSUME Init PROVE LoopInv
  OBVIOUS
<1>1. Cardinality(open) = 0
  BY FS_EmptySet DEF Init
<1>2. TypeOK
  <2>1. <<>> \in Seq(Conn)
    BY EmptySeq
  <2> QED BY <2>1, LoopConstants DEF Init, TypeOK
<1>3. QueueInv /\ BatchInv
  BY DEF Init, QueueInv, BatchInv
<1>4. SlotsExact /\ AcceptingWithRoom
  BY <1>1, LoopConstants DEF Init, SlotsExact, AcceptingWithRoom
<1> QED BY <1>2, <1>3, <1>4 DEF LoopInv

\* The accepted connections are finitely many.
LEMMA OpenFinite ==
  ASSUME TypeOK
  PROVE  IsFiniteSet(open) /\ Cardinality(open) \in Nat
BY FS_Subset, FS_CardinalityType, LoopConstants DEF TypeOK

\* The clients take no slot and no event.
LEMMA ClientStep ==
  ASSUME LoopInv, UNCHANGED setting, NEW c \in Conn, Connects(c) \/ Sends(c) \/ Closes(c)
  PROVE  LoopInv'
<1>1. UNCHANGED <<open, watched, batch, count, accepting, shutdown, alive, ran>>
  BY DEF Connects, Sends, Closes
<1>2. SlotsExact' /\ AcceptingWithRoom'
  BY <1>1 DEF LoopInv, SlotsExact, AcceptingWithRoom
<1>3. CASE Connects(c)
  <2>1. queue' = Append(queue, c) /\ queue \in Seq(Conn) /\ used' = used \cup {c} /\ c \notin used
    BY <1>3 DEF Connects, LoopInv, TypeOK
  <2>2. /\ queue' \in Seq(Conn) /\ queue' # <<>> /\ Len(queue') = Len(queue) + 1
        /\ \A i \in 1..Len(queue') :
             queue'[i] = IF i = Len(queue) + 1 THEN c ELSE queue[i]
    BY <2>1
  <2>3. TypeOK'
    BY <1>1, <1>3, <2>1, <2>2 DEF Connects, LoopInv, TypeOK
  <2>4. QueueInv'
    BY <1>1, <2>1, <2>2 DEF LoopInv, TypeOK, QueueInv
  <2>5. BatchInv'
    BY <1>1, <2>2 DEF LoopInv, BatchInv
  <2> QED BY <1>2, <2>3, <2>4, <2>5 DEF LoopInv
<1>4. CASE Sends(c) \/ Closes(c)
  <2>1. TypeOK'
    BY <1>1, <1>4 DEF Sends, Closes, Wakes, LoopInv, TypeOK
  <2>2. QueueInv' /\ BatchInv'
    BY <1>1, <1>4 DEF Sends, Closes, LoopInv, QueueInv, BatchInv
  <2> QED BY <1>2, <2>1, <2>2 DEF LoopInv
<1> QED BY <1>3, <1>4

\* A connection is closed: its slot is free, and the listening socket comes back.
LEMMA CloseStep ==
  ASSUME LoopInv, UNCHANGED <<setting, clientVars, shutdown, alive>>, alive,
         NEW e \in batch, e.fd # Listen,
         open' = open \ {e.fd}, batch' = batch \ {e},
         count' = count - 1, Resumes(count'),
         ran' \in [Conn -> {"nothing", "part", "all"}]
  PROVE  LoopInv'
<1>1. e.fd \in open
  BY DEF LoopInv, TypeOK
<1>2. count' = 1 + Cardinality(open') /\ count' <= MaxEvents /\ count' \in Nat
  <2>1. Cardinality(open') = Cardinality(open) - 1
    BY <1>1, OpenFinite, FS_RemoveElement DEF LoopInv
  <2>2. open' \subseteq Conn /\ IsFiniteSet(open')
    BY OpenFinite, FS_RemoveElement DEF LoopInv, TypeOK
  <2> QED BY <2>1, <2>2, OpenFinite, FS_CardinalityType, LoopConstants
          DEF LoopInv, SlotsExact
<1>3. SlotsExact' /\ AcceptingWithRoom'
  BY <1>2 DEF LoopInv, SlotsExact, AcceptingWithRoom, Resumes
<1>4. TypeOK'
  <2>1. batch' \subseteq [fd : open' \cup {Listen}, hup : BOOLEAN]
    BY DEF LoopInv, TypeOK, BatchInv
  <2>2. ready' \subseteq open' \cup {Listen} /\ watched' \in BOOLEAN /\ accepting' \in BOOLEAN
    BY <1>1 DEF Resumes, LoopInv, TypeOK
  <2> QED BY <1>2, <2>1, <2>2 DEF LoopInv, TypeOK, clientVars
<1>5. QueueInv' /\ BatchInv'
  BY DEF LoopInv, QueueInv, BatchInv, clientVars
<1> QED BY <1>3, <1>4, <1>5 DEF LoopInv

\* One of those who wait is accepted.
LEMMA AcceptStep ==
  ASSUME LoopInv, UNCHANGED setting, NEW e \in batch, Accepts(e)
  PROVE  LoopInv'
<1>1. /\ alive /\ e.fd = Listen /\ queue \in Seq(Conn) /\ queue # <<>>
      /\ UNCHANGED <<used, arrived, gone, shutdown, alive, ran>>
      /\ batch' = batch \ {e}
  BY DEF Accepts, LoopInv, BatchInv, TypeOK
<1>2. BatchInv'
  BY <1>1 DEF LoopInv, BatchInv
<1>3. CASE count >= MaxEvents
  <2>1. UNCHANGED <<queue, open, count>> /\ ready' = ready \ {Listen}
        /\ watched' = FALSE /\ accepting' = FALSE
    BY <1>3 DEF Accepts
  <2>2. watched' = accepting' /\ ~(count' < MaxEvents)
    <3>1. watched' = accepting'
      BY <2>1
    <3>2. ~(count' < MaxEvents)
      BY <1>3, <2>1, LoopConstants DEF LoopInv, TypeOK
    <3> QED BY <3>1, <3>2
  <2>3. TypeOK'
    BY <1>1, <1>3, <2>1 DEF Accepts, LoopInv, TypeOK
  <2>4. QueueInv'
    BY <1>1, <2>1 DEF LoopInv, QueueInv
  <2>5. SlotsExact' /\ AcceptingWithRoom'
    BY <1>1, <2>1, <2>2 DEF LoopInv, SlotsExact, AcceptingWithRoom
  <2> QED BY <1>2, <2>3, <2>4, <2>5 DEF LoopInv
<1>4. CASE ~(count >= MaxEvents)
  <2> DEFINE c == Head(queue)
             full == count + 1 >= MaxEvents
  <2>1. /\ queue' = Tail(queue) /\ open' = open \cup {c} /\ count' = count + 1
        /\ ready' \subseteq ready \cup {c}
        /\ watched' = (watched /\ ~full) /\ accepting' = (accepting /\ ~full)
    BY <1>4 DEF Accepts
  <2>2. /\ Len(queue) \in Nat \ {0} /\ c = queue[1] /\ c \in Conn
        /\ queue' \in Seq(Conn) /\ Len(queue') = Len(queue) - 1
        /\ \A i \in 1..Len(queue') : queue'[i] = queue[i + 1] /\ i + 1 \in 1..Len(queue)
    BY <1>1, <2>1, EmptySeq, HeadTailProperties, LenProperties
  <2>3. c \in used \ open
    BY <2>2 DEF LoopInv, QueueInv
  <2>4. Cardinality(open') = Cardinality(open) + 1
    BY <2>1, <2>3, OpenFinite, FS_AddElement DEF LoopInv
  <2>5. count' \in Nat /\ count' <= MaxEvents /\ (full <=> ~(count' < MaxEvents))
    BY <1>4, <2>1, LoopConstants DEF LoopInv, TypeOK
  <2> HIDE DEF c, full
  <2>6. TypeOK'
    BY <1>1, <2>1, <2>2, <2>3, <2>5 DEF LoopInv, TypeOK
  <2>7. QueueInv'
    <3>1. \A i \in 1..Len(queue') : queue'[i] \in used \ open /\ queue'[i] # c
      BY <2>2 DEF LoopInv, QueueInv
    <3>2. \A i, j \in 1..Len(queue') : queue'[i] = queue'[j] => i = j
      BY <2>2 DEF LoopInv, QueueInv
    <3> QED BY <1>1, <2>1, <3>1, <3>2 DEF QueueInv
  <2>8. SlotsExact' /\ AcceptingWithRoom'
    <3>1. watched = accepting /\ accepting
      BY <1>1, <1>4, LoopConstants DEF LoopInv, TypeOK, AcceptingWithRoom
    <3>2. watched' = accepting' /\ (~full => accepting')
      BY <2>1, <3>1
    <3>3. count' = 1 + Cardinality(open')
      BY <1>1, <2>1, <2>4, OpenFinite DEF LoopInv, SlotsExact
    <3> QED BY <2>5, <3>2, <3>3 DEF SlotsExact, AcceptingWithRoom
  <2> QED BY <1>2, <2>6, <2>7, <2>8 DEF LoopInv
<1> QED BY <1>3, <1>4

\* The steps after which the thread has ended, or that take no slot.
LEMMA EndStep ==
  ASSUME LoopInv, UNCHANGED setting,
         \/ Waits \/ NoticesShutdown \/ ShutsDown
         \/ \E e \in batch : AcceptFails(e) \/ HandlesStop(e)
  PROVE  LoopInv'
<1>1. CASE Waits
  <2>1. UNCHANGED <<clientVars, open, watched, count, accepting, shutdown, alive, ran>>
        /\ ready' = {} /\ batch' = {EventOf(f) : f \in {g \in ready : Reports(g)}}
    BY <1>1 DEF Waits
  <2>2. batch' \subseteq [fd : open \cup {Listen}, hup : BOOLEAN]
    <3>1. \A f \in ready : EventOf(f) \in [fd : open \cup {Listen}, hup : BOOLEAN]
      <4> TAKE f \in ready
      <4>1. f \in open \cup {Listen}
        BY DEF LoopInv, TypeOK
      <4>2. (f \in gone) \in BOOLEAN
        OBVIOUS
      <4> QED BY <4>1, <4>2, Zenon DEF EventOf
    <3> QED BY <2>1, <3>1
  <2>3. BatchInv'
    <3> DEFINE B == {EventOf(f) : f \in {g \in ready : Reports(g)}}
    <3>1. \A f : EventOf(f).fd = f /\ EventOf(f).hup = (f \in gone)
      BY Zenon DEF EventOf
    <3>2. \A e, f \in B : e.fd = f.fd => e = f
      BY <3>1
    <3>3. Listen \notin gone
      BY LoopConstants DEF LoopInv, TypeOK
    <3>4. \A e \in B : e.hup => e.fd # Listen
      <4> TAKE e \in B
      <4> PICK f : e = EventOf(f)
        OBVIOUS
      <4>1. e.fd = f /\ e.hup = (f \in gone)
        BY <3>1
      <4> QED BY <3>3, <4>1, Zenon
    <3>5. Reports(Listen) => queue # <<>>
      BY LoopConstants DEF Reports
    <3>6. \A e \in B : e.fd = Listen => queue # <<>>
      BY <3>1, <3>5
    <3> HIDE DEF B
    <3>7. batch' = B /\ queue' = queue
      BY <2>1 DEF B, clientVars
    <3> QED BY <3>2, <3>4, <3>6, <3>7 DEF BatchInv
  <2>4. TypeOK' /\ QueueInv'
    BY <2>1, <2>2 DEF LoopInv, TypeOK, QueueInv, clientVars
  <2> QED BY <2>1, <2>3, <2>4 DEF LoopInv, SlotsExact, AcceptingWithRoom
<1>2. CASE ShutsDown
  BY <1>2 DEF ShutsDown, LoopInv, TypeOK, QueueInv, BatchInv, SlotsExact, AcceptingWithRoom,
     clientVars
<1>3. CASE NoticesShutdown \/ \E e \in batch : AcceptFails(e)
  BY <1>3 DEF NoticesShutdown, AcceptFails, Exits, LoopInv, TypeOK, QueueInv, BatchInv,
     SlotsExact, AcceptingWithRoom, clientVars
<1>4. ASSUME NEW e \in batch, HandlesStop(e) PROVE LoopInv'
  <2>1. /\ ran' \in [Conn -> {"nothing", "part", "all"}]
        /\ open' \subseteq open /\ ready' \subseteq open' \cup {Listen}
        /\ alive' = FALSE /\ batch' = {}
    BY <1>4 DEF HandlesStop, Exits, LoopInv, TypeOK
  <2>2. UNCHANGED <<clientVars, watched, count, accepting, shutdown>>
    BY <1>4 DEF HandlesStop
  <2>3. TypeOK'
    BY <2>1, <2>2 DEF LoopInv, TypeOK, clientVars
  <2>4. QueueInv' /\ BatchInv'
    BY <2>1, <2>2 DEF LoopInv, QueueInv, BatchInv, clientVars
  <2> QED BY <2>1, <2>3, <2>4 DEF LoopInv, SlotsExact, AcceptingWithRoom
<1> QED BY <1>1, <1>2, <1>3, <1>4

LEMMA LoopStep == ASSUME LoopInv, [Next]_vars PROVE LoopInv'
<1>1. ASSUME UNCHANGED setting, NEW e \in batch, HangsUp(e) PROVE LoopInv'
  <2>1. e.fd \in open /\ e.fd # Listen
    BY <1>1 DEF HangsUp, LoopInv, BatchInv, TypeOK
  <2>2. count > 1
    <3>1. Cardinality(open) # 0
      BY <2>1, OpenFinite, FS_EmptySet DEF LoopInv
    <3> QED BY <1>1, <3>1, OpenFinite DEF HangsUp, LoopInv, SlotsExact
  <2> QED BY <1>1, <2>1, <2>2, CloseStep DEF HangsUp, CountAfterHangUp, LoopInv, TypeOK
<1>2. ASSUME UNCHANGED setting, NEW e \in batch, Handles(e) PROVE LoopInv'
  BY <1>2, CloseStep, LoopConstants DEF Handles, LoopInv, TypeOK
<1>3. CASE UNCHANGED vars
  BY <1>3 DEF vars, clientVars, LoopInv, TypeOK, QueueInv, BatchInv, SlotsExact,
     AcceptingWithRoom
<1> QED BY <1>1, <1>2, <1>3, ClientStep, AcceptStep, EndStep DEF Next, Loop

LEMMA LoopInvariance == Spec => []LoopInv
BY LoopInit, LoopStep, PTL DEF Spec

\* current_fd_count counts the listening socket and the accepted connections and
\* never exceeds the events that epoll_wait has room for.
THEOREM SlotsCounted == Spec => []SlotsExact
<1>1. LoopInv => SlotsExact
  BY DEF LoopInv
<1> QED BY <1>1, LoopInvariance, PTL

\* The listening socket is in the epoll set whenever a slot is free.
THEOREM ListensWithRoom == Spec => []AcceptingWithRoom
<1>1. LoopInv => AcceptingWithRoom
  BY DEF LoopInv
<1> QED BY <1>1, LoopInvariance, PTL
=============================================================================
