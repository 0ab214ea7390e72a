---------------------------- MODULE MCDispatcher ----------------------------
(* Instances of Dispatcher for TLC. *)
EXTENDS Dispatcher, TLC

\* Identities are only compared: permuting any of the pools is sound.
Symmetry == Permutations(Callers) \cup Permutations(Workers) \cup Permutations(Jobs)

-----------------------------------------------------------------------------
\* Calls return: SendSync once its context ended or its result arrived, Stop
\* although frames keep arriving and workers may be in the middle of one.
CallsReturn == SendSyncReturns /\ StopReturns

\* Known not to hold: "Close cancels all pending jobs and shuts down the
\* dispatcher" (dispatcher.go:226): when Close has returned, no job is pending.
CloseLeavesNoJob == closer = "done" => Pending = {}
=============================================================================
