---------------------------- MODULE MCTelemetry ----------------------------
(* An instance of the telemetry of a lobby for TLC. *)
EXTENDS Telemetry, TLC

CONSTANTS t1, t2, x1, x2

TwoTracks  == {t1, t2}

\* The second track may come with the source of the first.
Sources == [t \in TwoTracks |-> IF t = t1 THEN {x1} ELSE {x1, x2}]
============================================================================
