---------------------------- MODULE PortalAccess ----------------------------
(***************************************************************************)
(* What a captive portal promises: the hosts that the firewall lets        *)
(* through are hosts that the portal knows. A host is let through only     *)
(* while it is known, and it is forgotten only after its access is gone.   *)
(* Access is taken away by IP address, so that two hosts that come to use  *)
(* the same address lose it together.                                      *)
(***************************************************************************)
CONSTANT Host   \* records with a field ip

VARIABLES
  known,        \* hosts on the client list
  access        \* hosts that the firewall lets through

vars == <<known, access>>

Init == known = {} /\ access = {}

\* A host joins the client list.
Appear(host) ==
  /\ known' = known \cup {host}
  /\ UNCHANGED access

\* A known host gets its access rules.
Grant(host) ==
  /\ host \in known
  /\ access' = access \cup {host}
  /\ UNCHANGED known

\* The access rules of the address of a known host are removed.
Revoke(host) ==
  /\ host \in known
  /\ access' = {h \in access : h.ip # host.ip}
  /\ UNCHANGED known

\* A host without access leaves the list.
Forget(host) ==
  /\ host \notin access
  /\ known' = known \ {host}
  /\ UNCHANGED access

Next == \E host \in Host :
  Appear(host) \/ Grant(host) \/ Revoke(host) \/ Forget(host)

Spec == Init /\ [][Next]_vars
=============================================================================
