---------------------------- MODULE MCUdpEndpoint ----------------------------
(* Small instances of UdpEndpoint: a datagram that is cut, one that fits and  *)
(* an empty one; a buffer with a header in front of its payload.              *)
EXTENDS UdpEndpoint
CONSTANTS h1, h2, c1

AllSizes == {[cmd |-> c1, size |-> n] : n \in {0, 1, 3}}
NoEmpty == {[cmd |-> c1, size |-> n] : n \in {1, 3}}
One == {[cmd |-> c1, size |-> 1]}
HalfRead == {[offset |-> 1, len |-> 1, size |-> 3]}
Full == {[offset |-> 0, len |-> 3, size |-> 3]}
==============================================================================
