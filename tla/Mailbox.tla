------------------------------ MODULE Mailbox -------------------------------
(***************************************************************************)
(* What the kernel promises about a message addressed to a PAI, whichever  *)
(* way it travels (event file, queued nudge, mid-turn injection): it is    *)
(* read at most once and never returns to the mailbox after it was read;   *)
(* once it is in a PAI's history it stays there; it is lost only by being  *)
(* withdrawn with its own queued nudge or with the turn that was reading   *)
(* it.                                                                     *)
(***************************************************************************)
CONSTANTS PAIs, Msgs, To

VARIABLE status   \* status[m]

Statuses == {"unsent", "pending", "read", "kept", "lost"}

For(p) == {m \in Msgs : To[m] = p}

\* The messages of S go from one status to the next, all in one step.
Move(S, from, to) ==
    /\ S # {} /\ \A m \in S : status[m] = from
    /\ status' = [m \in Msgs |-> IF m \in S THEN to ELSE status[m]]

Init == status = [m \in Msgs |-> "unsent"]

Send(m) == Move({m}, "unsent", "pending")

\* One nudge is cancelled before its turn: only its own message goes.
Withdraw(m) == Move({m}, "pending", "lost")

\* One PAI's turn takes, saves or drops what it holds.
Take(p) == \E S \in SUBSET For(p) : Move(S, "pending", "read")
Keep(p) == \E S \in SUBSET For(p) : Move(S, "read", "kept")
Drop(p) == \E S \in SUBSET For(p) : Move(S, "read", "lost")

Next ==
    \/ \E m \in Msgs : Send(m) \/ Withdraw(m)
    \/ \E p \in PAIs : Take(p) \/ Keep(p) \/ Drop(p)

Spec == Init /\ [][Next]_status
=============================================================================
