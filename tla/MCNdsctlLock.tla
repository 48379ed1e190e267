---------------------------- MODULE MCNdsctlLock ----------------------------
(***************************************************************************)
(* The settings of NdsctlLock that TLC explores.                           *)
(***************************************************************************)
EXTENDS NdsctlLock

\* Scripts use ndsctl where the lock is meant to stop them.
Scripts == [user |-> {"u1", "u2"},
            jobs |-> {"auth_client", "client_auth", "timeout_deauth", "ndsctl_auth"},
            calls |-> {"auth_client", "ndsctl_auth"},
            restarting |-> FALSE]

\* The daemon stops and starts, and lock files are removed.
Restarts == [user |-> {"u1", "u2"},
             jobs |-> {"auth_client", "client_auth", "client_deauth", "ndsctl_deauth"},
             calls |-> {}, restarting |-> TRUE]

MCSettings == {Scripts, Restarts}
=============================================================================
