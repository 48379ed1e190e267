-------------------------- MODULE MCClientSessions --------------------------
(* Small instances of ClientSessions for TLC.                              *)
EXTENDS ClientSessions

\* Two devices that DHCP may give the same address, one after the other.
SharedAddress == {[ip |-> "ip1", mac |-> "m1"], [ip |-> "ip1", mac |-> "m2"]}

\* Two devices with an address each.
OwnAddresses == {[ip |-> "ip1", mac |-> "m1"], [ip |-> "ip2", mac |-> "m2"]}

\* One device.
OneHost == {[ip |-> "ip1", mac |-> "m1"]}
=============================================================================
