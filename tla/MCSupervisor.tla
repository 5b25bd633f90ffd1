---------------------------- MODULE MCSupervisor ----------------------------
(* Instances of Supervisor for TLC: a service s, and a deferred one d. *)
EXTENDS Supervisor, TLC

CONSTANTS s, d

Never == [p \in Services |-> "never"]
OnFailure == [p \in Services |-> "on-failure"]
Always == [p \in Services |-> "always"]
=============================================================================
