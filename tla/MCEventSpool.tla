---------------------------- MODULE MCEventSpool ----------------------------
(* Instances of EventSpool for TLC: PAIs 1 and 2, of which 2 is the        *)
(* fallback.                                                               *)
EXTENDS EventSpool, TLC

CONSTANTS e1, e2, e3

\* e1 is addressed to PAI 1; e2 and e3 are driver events.
MCTarget == [e \in Events |-> IF e = e1 THEN {1} ELSE {}]

\* Both PAIs listen to e3's kind; nobody listens to the others'.
MCWakes == [e \in Events |-> IF e = e3 THEN {1, 2} ELSE {}]

\* e3 comes from a script that writes its YAML by hand.
MCContents == [e \in Events |-> IF e = e3 THEN {"malformed", "undecodable"} ELSE {"event"}]
=============================================================================
