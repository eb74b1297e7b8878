----------------------------- MODULE MCGateway ------------------------------
(* Gateway on small instances.  Requests are interchangeable. *)
EXTENDS Gateway, TLC

CONSTANTS r1, r2, r3, d1, d2

TwoRequests == {r1, r2}
ThreeRequests == {r1, r2, r3}
OneDevice == {d1}
TwoDevices == {d1, d2}
Anybody == {d1, Phantom}
(* The others appear when a checkup callback does not fill in its answer. *)
QueryingKinds == {"DATA_SEND", "PEND_REQ", "STAT"}
AnyLength == QueryingKinds \cup {"SHORT"}
Symmetry == Permutations(ThreeRequests)
=============================================================================
