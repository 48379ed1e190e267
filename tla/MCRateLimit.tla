---------------------------- MODULE MCRateLimit ----------------------------
(***************************************************************************)
(* The settings of RateLimit that TLC explores.                            *)
(***************************************************************************)
EXTENDS RateLimit

\* Limits from the start, in both directions, set by ndsctl; counters that cannot be
\* read.
Metered == [dir |-> {"down", "up"}, by |-> {"ndsctl"}, bursting |-> FALSE,
            window |-> 2, failing |-> TRUE, shared |-> FALSE, packets |-> 1]

\* Bursts until a window ends.
Bursty == [dir |-> {"up"}, by |-> {"ndsctl"}, bursting |-> TRUE,
           window |-> 2, failing |-> TRUE, shared |-> FALSE, packets |-> 2]

\* Requests that authenticate without the lock, beside ndsctl.
Raced == [dir |-> {"down"}, by |-> {"http", "ndsctl"}, bursting |-> TRUE,
          window |-> 1, failing |-> TRUE, shared |-> FALSE, packets |-> 2]

\* Another client with the same address, whose counters are taken for this one's.
Neighbour == [dir |-> {"up"}, by |-> {"ndsctl"}, bursting |-> FALSE,
              window |-> 2, failing |-> FALSE, shared |-> TRUE, packets |-> 1]

MCSettings == {Metered, Bursty, Raced, Neighbour}
=============================================================================
