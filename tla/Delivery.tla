------------------------------ MODULE Delivery ------------------------------
(***************************************************************************)
(* What the spool promises about a file, whatever boots, queues, observers *)
(* and clean phases lie between its emitter and a PAI: it waits from the   *)
(* moment it is posted, unless it is lost there and then; those that wait  *)
(* are lost only all together, with the kernel; a lost file never comes    *)
(* back.  What waits is taken in the order of the names, once, and nudges  *)
(* its readers once; or a summary takes its place, whose reader finds in   *)
(* the archive exactly what it claims.                                     *)
(***************************************************************************)
CONSTANTS PAIs, Events, Summaries, Readers   \* Readers[i]: who is nudged for i

VARIABLES
    status,    \* status[i]: how far i has come
    after,     \* after[i]: the items that were out when i got its name
    told,      \* told[i][p]: how often p was nudged for i
    claims,    \* claims[s]: the events that summary s stands for
    archived   \* archived[s]: those that are in its archive

Items == Events \cup Summaries

Statuses == {"unsent", "named", "waiting", "lost", "taken", "archived"}

Waiting == {i \in Items : status[i] = "waiting"}

Init ==
    /\ status = [i \in Items |-> "unsent"] /\ after = [i \in Items |-> {}]
    /\ told = [i \in Items |-> [p \in PAIs |-> 0]]
    /\ claims = [s \in Summaries |-> {}] /\ archived = [s \in Summaries |-> {}]

Becomes(i, st) == status' = [status EXCEPT ![i] = st]

Named(i) == after' = [after EXCEPT ![i] = {j \in Items : status[j] \notin {"unsent", "named"}}]

\* An emitter takes a name, and later shows the file.
Name(e) ==
    /\ status[e] = "unsent" /\ Becomes(e, "named") /\ Named(e)
    /\ UNCHANGED <<told, claims, archived>>

Post(e) ==
    /\ status[e] = "named" /\ (Becomes(e, "waiting") \/ Becomes(e, "lost"))
    /\ UNCHANGED <<after, told, claims, archived>>

\* Before it is shown a file may be lost alone ...
Withdraw(e) ==
    /\ status[e] = "named" /\ Becomes(e, "lost")
    /\ UNCHANGED <<after, told, claims, archived>>

\* ... afterwards only with all that wait.
Lose ==
    /\ status' = [i \in Items |-> IF i \in Waiting THEN "lost" ELSE status[i]]
    /\ UNCHANGED <<after, told, claims, archived>>

\* A summary of files that wait; then they leave for its archive.
Summarise(s, S) ==
    /\ status[s] = "unsent" /\ S # {} /\ S \subseteq Waiting \cap Events
    /\ Becomes(s, "waiting") /\ Named(s)
    /\ claims' = [claims EXCEPT ![s] = S]
    /\ UNCHANGED <<told, archived>>

Archive(s, e) ==
    /\ s \in Waiting /\ e \in Waiting /\ e \in claims[s]
    /\ Becomes(e, "archived")
    /\ archived' = [archived EXCEPT ![s] = @ \cup {e}]
    /\ UNCHANGED <<after, told, claims>>

\* The next item: nothing that was out before it waits, and a summary has
\* its archive.
Due(i) == i \in Waiting /\ after[i] \cap Waiting = {} /\ (i \in Summaries => archived[i] = claims[i])

Take(i) ==
    /\ Due(i) /\ Becomes(i, "taken")
    /\ told' = [told EXCEPT ![i] = [p \in PAIs |-> IF p \in Readers[i] THEN 1 ELSE 0]]
    /\ UNCHANGED <<after, claims, archived>>

\* Taken, and nobody is nudged: it is malformed, or its handler raises.
Refuse(i) ==
    /\ Due(i) /\ Becomes(i, "taken")
    /\ UNCHANGED <<after, told, claims, archived>>

Next ==
    \/ \E e \in Events : Name(e) \/ Post(e) \/ Withdraw(e)
    \/ Lose
    \/ \E s \in Summaries : (\E S \in SUBSET Events : Summarise(s, S)) \/ \E e \in Events : Archive(s, e)
    \/ \E i \in Items : Take(i) \/ Refuse(i)

Spec == Init /\ [][Next]_<<status, after, told, claims, archived>>
=============================================================================
