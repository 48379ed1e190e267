----------------------------- MODULE NdsctlLoop -----------------------------
(***************************************************************************)
(* The event loop of the ndsctl thread (ndsctl_thread.c): a listening      *)
(* socket with a backlog, an epoll set in which every descriptor is edge-  *)
(* triggered, and at most MaxEvents descriptors that are counted by hand.  *)
(* An edge-triggered descriptor is reported once for what has arrived      *)
(* until then; the loop accepts one connection for each report, reads a    *)
(* command once, and closes the connection.                                *)
(***************************************************************************)
EXTENDS Integers, Sequences, FiniteSets

CONSTANTS
  Settings,    \* the settings that are explored
  Conn,        \* connections; each is made once
  Listen,      \* the listening socket
  MaxEvents,   \* MAX_EVENT_SIZE
  Backlog      \* connections that wait to be accepted

\* Of a setting: a client connects when nobody waits to be accepted; a command
\* may arrive in two pieces; a command is "stop", accept fails, or the daemon
\* shuts down.
Setting == [serialised : BOOLEAN, pieces : BOOLEAN, exit : BOOLEAN]

ASSUME LoopConstants ==
  /\ Settings \subseteq Setting
  /\ IsFiniteSet(Conn) /\ Listen \notin Conn
  /\ MaxEvents \in Nat /\ MaxEvents > 1 /\ Backlog \in Nat

VARIABLES
  setting,    \* one of Settings, for the whole behaviour
  queue,      \* connections that wait to be accepted
  used,       \* connections that have been made
  arrived,    \* what has arrived on each: "nothing", "part" or "all"
  gone,       \* connections whose client has closed
  open,       \* accepted connections, in the epoll set
  watched,    \* the listening socket is in the epoll set
  ready,      \* descriptors on the ready list of epoll
  batch,      \* the events that are left of the last epoll_wait
  count,      \* current_fd_count
  accepting,
  shutdown,   \* the shutdown pipe is readable
  alive,      \* the thread runs
  ran         \* what of each connection's command was executed

clientVars == <<queue, used, arrived, gone>>
vars == <<setting, clientVars, open, watched, ready, batch, count, accepting, shutdown,
          alive, ran>>

Serialised == setting.serialised
InPieces == setting.pieces
MayExit == setting.exit

Init ==
  /\ setting \in Settings
  /\ queue = <<>> /\ used = {} /\ gone = {}
  /\ arrived = [c \in Conn |-> "nothing"] /\ ran = [c \in Conn |-> "nothing"]
  /\ open = {} /\ watched = TRUE
  /\ ready = {} /\ batch = {}
  /\ count = 1 /\ accepting = TRUE
  /\ shutdown = FALSE /\ alive = TRUE

-----------------------------------------------------------------------------
(* The clients                                                             *)

\* Fault: what comes before the descriptor is waited for is not reported.
WakesLate(c) == ready' = IF c \in open /\ batch = {} THEN ready \cup {c} ELSE ready

\* A descriptor in the epoll set comes to the ready list.
Wakes(c) == ready' = IF c \in open THEN ready \cup {c} ELSE ready

Connects(c) ==
  /\ alive /\ c \notin used
  /\ Len(queue) <= Backlog
  /\ Serialised => queue = <<>>
  /\ queue' = Append(queue, c)
  /\ used' = used \cup {c}
  /\ ready' = IF watched THEN ready \cup {Listen} ELSE ready
  /\ UNCHANGED <<arrived, gone, open, watched, batch, count, accepting, shutdown,
                 alive, ran>>

Sends(c) ==
  /\ c \in used \ gone
  /\ \/ InPieces /\ arrived[c] = "nothing" /\ arrived' = [arrived EXCEPT ![c] = "part"]
     \/ arrived[c] # "all" /\ arrived' = [arrived EXCEPT ![c] = "all"]
  /\ Wakes(c)
  /\ UNCHANGED <<queue, used, gone, open, watched, batch, count, accepting,
                 shutdown, alive, ran>>

\* The client is killed.
Closes(c) ==
  /\ c \in used \ gone
  /\ gone' = gone \cup {c}
  /\ Wakes(c)
  /\ UNCHANGED <<queue, used, arrived, open, watched, batch, count, accepting,
                 shutdown, alive, ran>>

-----------------------------------------------------------------------------
(* The thread                                                              *)

\* There is something to report of a descriptor.
Reports(f) == CASE f = Listen -> queue # <<>>
                [] f \in Conn -> arrived[f] # "nothing" \/ f \in gone

EventOf(f) == [fd |-> f, hup |-> f \in gone]

\* epoll_wait reports what is on the ready list and takes it off.
Waits ==
  /\ alive /\ batch = {}
  /\ ~shutdown
  /\ ready # {}
  /\ batch' = {EventOf(f) : f \in {g \in ready : Reports(g)}}
  /\ ready' = {}
  /\ UNCHANGED <<clientVars, open, watched, count, accepting, shutdown, alive, ran>>

Exits == alive' = FALSE /\ batch' = {}

\* request_termination writes to the pipe. The loop notices when it comes to wait
\* again, or among the events of the batch.
ShutsDown ==
  /\ MayExit /\ alive /\ ~shutdown
  /\ shutdown' = TRUE
  /\ UNCHANGED <<clientVars, open, watched, ready, batch, count, accepting, alive, ran>>

NoticesShutdown ==
  /\ alive /\ shutdown
  /\ Exits
  /\ UNCHANGED <<clientVars, open, watched, ready, count, accepting, shutdown, ran>>

\* Fault: a slot that frees does not bring the listening socket back.
StaysFull(fewer) ==
  UNCHANGED <<watched, accepting>> /\ ready' = ready \ (open \ open')

\* A descriptor has left the set: when the set was full, the listening socket
\* comes back, and is reported if anybody waits there.
Resumes(fewer) ==
  IF ~accepting /\ fewer < MaxEvents
  THEN /\ watched' = TRUE /\ accepting' = TRUE
       /\ ready' = (ready \ (open \ open'))
                     \cup (IF queue = <<>> THEN {} ELSE {Listen})
  ELSE UNCHANGED <<watched, accepting>> /\ ready' = ready \ (open \ open')

\* Faults: a client that hangs up keeps its slot; it is counted out twice.
HungUpCount == count
CountedOutTwice == count - 2

CountAfterHangUp == IF count > 1 THEN count - 1 ELSE count

\* An event with EPOLLHUP: the connection is closed, whatever has arrived.
HangsUp(e) ==
  /\ alive /\ e \in batch
  /\ e.hup
  /\ open' = open \ {e.fd}
  /\ batch' = batch \ {e}
  /\ count' = CountAfterHangUp
  /\ Resumes(count')
  /\ UNCHANGED <<clientVars, shutdown, alive, ran>>

\* One connection is accepted; when the set is full then, or was before, the
\* listening socket leaves it.
Accepts(e) ==
  /\ alive /\ e \in batch
  /\ e.fd = Listen
  /\ batch' = batch \ {e}
  /\ IF count >= MaxEvents
     THEN /\ watched' = FALSE /\ accepting' = FALSE
          /\ ready' = ready \ {Listen}
          /\ UNCHANGED <<queue, open, count>>
     ELSE LET c == Head(queue)
              full == count + 1 >= MaxEvents
          IN /\ queue' = Tail(queue)
             /\ open' = open \cup {c}
             /\ count' = count + 1
             /\ ready' = (IF full THEN ready \ {Listen} ELSE ready)
                           \cup (IF Reports(c) THEN {c} ELSE {})
             /\ watched' = (watched /\ ~full) /\ accepting' = (accepting /\ ~full)
  /\ UNCHANGED <<used, arrived, gone, shutdown, alive, ran>>

\* No descriptor is left for the connection.
AcceptFails(e) ==
  /\ MayExit /\ alive /\ e \in batch
  /\ e.fd = Listen /\ count < MaxEvents
  /\ Exits
  /\ UNCHANGED <<clientVars, open, watched, ready, count, accepting, shutdown, ran>>

\* ndsctl_handler executes what has arrived, a complete line or not, and
\* closes the connection.
Handles(e) ==
  /\ alive /\ e \in batch
  /\ e.fd \in Conn /\ ~e.hup
  /\ ran' = [ran EXCEPT ![e.fd] = arrived[e.fd]]
  /\ open' = open \ {e.fd}
  /\ batch' = batch \ {e}
  /\ count' = count - 1
  /\ Resumes(count')
  /\ UNCHANGED <<clientVars, shutdown, alive>>

\* "stop"
HandlesStop(e) ==
  /\ MayExit /\ alive /\ e \in batch
  /\ e.fd \in Conn /\ ~e.hup /\ arrived[e.fd] = "all"
  /\ ran' = [ran EXCEPT ![e.fd] = "all"]
  /\ open' = open \ {e.fd} /\ ready' = ready \ {e.fd}
  /\ Exits
  /\ UNCHANGED <<clientVars, watched, count, accepting, shutdown>>

Loop ==
  \/ Waits \/ NoticesShutdown
  \/ \E e \in batch : \/ HangsUp(e) \/ Accepts(e) \/ AcceptFails(e)
                      \/ Handles(e) \/ HandlesStop(e)

Next ==
  /\ UNCHANGED setting
  /\ \/ \E c \in Conn : Connects(c) \/ Sends(c) \/ Closes(c)
     \/ Loop \/ ShutsDown

Spec == Init /\ [][Next]_vars

\* The thread goes on; a client that is connected sends its command or dies.
FairSpec ==
  /\ Spec
  /\ WF_vars(UNCHANGED setting /\ Loop)
  /\ \A c \in Conn :
       WF_vars(UNCHANGED setting /\ arrived[c] = "nothing" /\ (Sends(c) \/ Closes(c)))

-----------------------------------------------------------------------------
(* Properties                                                              *)

\* The types of all variables.
TypeOK ==
  /\ setting \in Settings
  /\ queue \in Seq(Conn) /\ used \subseteq Conn /\ gone \subseteq used
  /\ arrived \in [Conn -> {"nothing", "part", "all"}]
  /\ ran \in [Conn -> {"nothing", "part", "all"}]
  /\ open \subseteq used /\ watched \in BOOLEAN
  /\ ready \subseteq open \cup {Listen}
  /\ batch \subseteq [fd : open \cup {Listen}, hup : BOOLEAN]
  /\ count \in Nat /\ accepting \in BOOLEAN
  /\ shutdown \in BOOLEAN /\ alive \in BOOLEAN

\* current_fd_count is the listening socket and the accepted connections,
\* through hang-ups and commands in any order, and never exceeds the array of
\* epoll_wait.
SlotsExact == alive => count = 1 + Cardinality(open) /\ count <= MaxEvents

\* The listening socket is out of the epoll set only while all slots are taken:
\* every path that frees a slot brings it back.
AcceptingWithRoom ==
  alive => watched = accepting /\ (count < MaxEvents => accepting)

\* A connection for which there is something to do is on the ready list or in
\* the batch: no edge is lost between reading and adding to the set.
NoEdgeLost ==
  alive => \A c \in open : Reports(c) =>
    c \in ready \/ \E e \in batch : e.fd = c

Waiting(c) == \E i \in 1..Len(queue) : queue[i] = c

\* Who is accepted is answered. Who connects while nobody waits to be accepted,
\* as the lock of ndsctl arranges, is accepted too, also when all slots were
\* taken: the listening socket is reported once for several that wait.
EverybodyAnswered ==
  \A c \in Conn : c \in open \/ (Serialised /\ Waiting(c))
                    ~> (c \notin open /\ ~Waiting(c)) \/ ~alive
=============================================================================
