------------------------------- MODULE Tools --------------------------------
(***************************************************************************)
(* What a turn of a PAI works with: the bash gate, the shell, the file     *)
(* tools, the subagents and the history.  These parts share no variable,   *)
(* so each behavior is one of one part, and the others rest.               *)
(***************************************************************************)
EXTENDS BashGate, Shell, FileTools, Subagents, History

VARIABLE part       \* the part that takes the steps

toolsVars == <<part, gateVars, shellVars, fileVars, kidVars, historyVars>>

Parts == {"gate", "shell", "files", "subagents", "history"}

Init ==
    /\ part \in Parts
    /\ GateInit /\ ShellInit /\ FileToolsInit /\ SubInit /\ HistoryInit
    /\ part # "files" => file = << >>
    /\ part # "history" => ~claude

Next ==
    \/ part = "gate" /\ GateNext
          /\ UNCHANGED <<part, shellVars, fileVars, kidVars, historyVars>>
    \/ part = "shell" /\ ShellNext
          /\ UNCHANGED <<part, gateVars, fileVars, kidVars, historyVars>>
    \/ part = "files" /\ FileToolsNext
          /\ UNCHANGED <<part, gateVars, shellVars, kidVars, historyVars>>
    \/ part = "subagents" /\ SubNext
          /\ UNCHANGED <<part, gateVars, shellVars, fileVars, historyVars>>
    \/ part = "history" /\ HistoryNext
          /\ UNCHANGED <<part, gateVars, shellVars, fileVars, kidVars>>

Spec == Init /\ [][Next]_toolsVars

\* The type invariants of the parts.
ToolsTypeOK ==
    /\ part \in Parts
    /\ GateTypeOK /\ ShellTypeOK /\ FileToolsTypeOK /\ SubTypeOK /\ HistoryTypeOK
=============================================================================
