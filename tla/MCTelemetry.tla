----------------------------- MODULE MCTelemetry -----------------------------
(* Telemetry for TLC. *)
EXTENDS Telemetry

\* A gRPC error in a response of status 200, and no response at all.
MCResults == {[err |-> FALSE, some |-> TRUE, grpc |-> "5", code |-> 200],
              [err |-> FALSE, some |-> FALSE, grpc |-> "", code |-> 0]}
=============================================================================
