-------------------------- MODULE MCSourceEndpoints --------------------------
(* Two requests that use the same stream id and two results that carry it. *)
EXTENDS SourceEndpoints

CONSTANTS r1, r2, q1, q2, i1

TwoRequests == {r1, r2}
TwoResults == {q1, q2}
OneId == {i1}
RequestIdOf == [r \in Requests |-> i1]
ResultIdOf == [q \in Results |-> i1]
OneTimed == {r1}
OneOrTwo == {1, 2}
AllTransports == {"producer", "http", "grpc"}
=============================================================================
