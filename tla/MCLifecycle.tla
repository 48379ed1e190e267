---------------------------- MODULE MCLifecycle ----------------------------
(***************************************************************************)
(* The settings of Lifecycle that TLC explores.                            *)
(***************************************************************************)
EXTENDS Lifecycle

\* The ways that lead through termination_handler, at any time.
Stopping == [may |-> {"signal", "stop", "early", "preemptive", "throttle", "unresponsive"},
             trusted |-> {"b"}, fqdn |-> FALSE, itc |-> FALSE]

\* Requests and commands of two clients race the end of the daemon.
Closing == [may |-> {"signal", "stop"}, trusted |-> {}, fqdn |-> TRUE, itc |-> TRUE]

\* The ways that lead past it: the daemon starts again on what is left.
Dying == [may |-> {"unresponsive", "restart", "kill", "setup", "early", "preemptive",
                   "throttle", "unroutable"},
          trusted |-> {"b"}, fqdn |-> FALSE, itc |-> TRUE]

\* Commands of nft fail, with and without a FQDN.
Failing(named) == [may |-> {"nft", "setup", "signal"},
                   trusted |-> {"b"}, fqdn |-> named, itc |-> FALSE]

MCSettings == {Stopping, Closing, Dying, Failing(TRUE), Failing(FALSE)}
=============================================================================
