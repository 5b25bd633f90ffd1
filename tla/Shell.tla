-------------------------------- MODULE Shell --------------------------------
(***************************************************************************)
(* The `shell` tool: one bash under a PTY for each PAI, kept between the   *)
(* calls.  A call writes one line to the PTY and waits for a line on the   *)
(* exit pipe; what the command prints comes over a pipe of its own.        *)
(* Nothing on the pipes says which command it is from.  A PAI has one turn *)
(* at a time and a turn one call, so the two locks are never contended     *)
(* within a slug; a call that was cancelled leaves its command behind.     *)
(***************************************************************************)
EXTENDS Naturals, Sequences, FiniteSets

CONSTANTS Calls,       \* calls in `command` mode, each of its own command
          SelfTest,    \* the `true` that a new session is tried with
          ShellKeys    \* bound: key strokes sent in `keys` mode

ASSUME ShellAssumption == SelfTest \notin Calls /\ IsFiniteSet(Calls) /\ ShellKeys \in Nat

Runs == Calls \cup {SelfTest}

VARIABLES
    bash,       \* none: no session; up; dead: exited, still in _sessions
    tty,        \* commands whose lines wait in the terminal's input queue
    prompt,     \* what keys without Enter have left there: "", word, quote
    front,      \* the foreground command: {} or a singleton
    exitPipe,   \* commands whose exit lines have not been read
    outPipe,    \* commands with output that has not been read
    exitBuf,    \* exit_buf: exit lines in order
    outBuf,     \* stdout_buf
    shellCall,  \* shellCall[c]: idle, test, write, wait, grace, done
    result,     \* result[c]: the code's command ({} is -1), the output's
    printed,    \* commands that have written output
    abandoned,  \* history: commands whose call ended without their exit line
    keysUsed    \* of the bound

shellVars == <<bash, tty, prompt, front, exitPipe, outPipe, exitBuf, outBuf,
               shellCall, result, printed, abandoned, keysUsed>>

ShellTypeOK ==
    /\ bash \in {"none", "up", "dead"} /\ prompt \in {"", "word", "quote"}
    /\ tty \in Seq(Runs) /\ exitPipe \in Seq(Runs) /\ exitBuf \in Seq(Runs)
    /\ front \subseteq Runs /\ Cardinality(front) <= 1
    /\ outPipe \subseteq Runs /\ outBuf \subseteq Runs /\ printed \subseteq Runs
    /\ abandoned \subseteq Runs /\ keysUsed \in 0..ShellKeys
    /\ shellCall \in [Runs -> {"idle", "test", "write", "wait", "grace", "done"}]
    /\ result \in [Runs -> [code : SUBSET Runs, out : SUBSET Runs]]

NoAnswer == [code |-> {}, out |-> {}]

ShellInit ==
    /\ bash = "none" /\ tty = << >> /\ prompt = "" /\ front = {}
    /\ exitPipe = << >> /\ outPipe = {} /\ exitBuf = << >> /\ outBuf = {}
    /\ shellCall = [c \in Runs |-> "idle"] /\ result = [c \in Runs |-> NoAnswer]
    /\ printed = {} /\ abandoned = {} /\ keysUsed = 0

-----------------------------------------------------------------------------
Terminal == <<tty, prompt, front>>
Pipes == <<exitPipe, outPipe>>
Buffers == <<exitBuf, outBuf>>
Between == \A c \in Runs : shellCall[c] \in {"idle", "done"}

\* A new session: a new PTY, new pipes, new buffers.
NewSession ==
    /\ tty' = << >> /\ prompt' = "" /\ front' = {} /\ exitPipe' = << >> /\ outPipe' = {}
    /\ exitBuf' = << >> /\ outBuf' = {}

\* run, with a session whose bash polls as alive.
Asks(c) ==
    /\ Between /\ shellCall[c] = "idle" /\ bash = "up" /\ shellCall' = [shellCall EXCEPT ![c] = "write"]
    /\ UNCHANGED <<bash, Terminal, Pipes, Buffers, result, printed, abandoned, keysUsed>>

\* _get_or_spawn: a dead session is torn down, bash forked, and the
\* self-test is the new session's first command.
SpawnsBash(c) ==
    /\ Between /\ shellCall[c] = "idle" /\ bash # "up" /\ bash' = "up" /\ NewSession
    /\ shellCall' = [shellCall EXCEPT ![c] = "test", ![SelfTest] = "write"]
    /\ result' = [result EXCEPT ![SelfTest] = NoAnswer]
    /\ UNCHANGED <<printed, abandoned, keysUsed>>

\* openpty, the fork or the write of the init script raises.
SpawnRaises(c) ==
    /\ Between /\ shellCall[c] = "idle" /\ bash # "up" /\ bash' = "none" /\ NewSession
    /\ shellCall' = [shellCall EXCEPT ![c] = "done"]
    /\ UNCHANGED <<result, printed, abandoned, keysUsed>>

\* The self-test must answer 0, or the session is torn down.
SelfTested(c) ==
    /\ shellCall[c] = "test" /\ shellCall[SelfTest] = "done"
    /\ \/ /\ result[SelfTest].code # {}
          /\ shellCall' = [shellCall EXCEPT ![c] = "write", ![SelfTest] = "idle"]
          /\ UNCHANGED <<bash, Terminal, Pipes, Buffers>>
       \/ /\ result[SelfTest].code = {} /\ bash' = "none" /\ NewSession
          /\ shellCall' = [shellCall EXCEPT ![c] = "done", ![SelfTest] = "idle"]
    /\ UNCHANGED <<result, printed, abandoned, keysUsed>>

\* A command with an FHS spelling is refused once the session is there.
Refuses(c) ==
    /\ c \in Calls /\ shellCall[c] = "write" /\ shellCall' = [shellCall EXCEPT ![c] = "done"]
    /\ UNCHANGED <<bash, Terminal, Pipes, Buffers, result, printed, abandoned, keysUsed>>

Line(c) == tty' = IF bash = "up" THEN Append(tty, c) ELSE tty

\* Mutant of WritesLine: the buffers of the last call are not cleared.
WritesOver(c) ==
    /\ shellCall[c] = "write" /\ Line(c) /\ shellCall' = [shellCall EXCEPT ![c] = "wait"]
    /\ UNCHANGED <<bash, prompt, front, Pipes, Buffers, result, printed, abandoned, keysUsed>>

\* _exec_via_session: clear the buffers, write the line.
WritesLine(c) ==
    /\ shellCall[c] = "write" /\ Line(c) /\ shellCall' = [shellCall EXCEPT ![c] = "wait"]
    /\ exitBuf' = << >> /\ outBuf' = {}
    /\ UNCHANGED <<bash, prompt, front, Pipes, result, printed, abandoned, keysUsed>>

\* The PTY of a bash that has died since takes no line.
WriteFails(c) ==
    /\ shellCall[c] = "write" /\ bash = "dead" /\ shellCall' = [shellCall EXCEPT ![c] = "done"]
    /\ exitBuf' = << >> /\ outBuf' = {}
    /\ UNCHANGED <<bash, Terminal, Pipes, result, printed, abandoned, keysUsed>>

-----------------------------------------------------------------------------
(* bash: external to the kernel. *)

\* At its prompt it reads a line.  One that follows typed characters is no
\* `_pai_run`: it answers on the terminal only; an open quote swallows it.
BashReads ==
    /\ bash = "up" /\ front = {} /\ tty # << >> /\ tty' = Tail(tty)
    /\ front' = IF prompt = "" THEN {Head(tty)} ELSE {}
    /\ prompt' = IF prompt = "word" THEN "" ELSE prompt
    /\ UNCHANGED <<bash, Pipes, Buffers, shellCall, result, printed, abandoned, keysUsed>>

Prints(d) ==
    /\ d \in front /\ d # SelfTest /\ outPipe' = outPipe \cup {d} /\ printed' = printed \cup {d}
    /\ UNCHANGED <<bash, Terminal, exitPipe, Buffers, shellCall, result, abandoned, keysUsed>>

\* The command ends; _pai_run prints its code.
Ends(d) ==
    /\ d \in front /\ front' = {} /\ exitPipe' = Append(exitPipe, d)
    /\ UNCHANGED <<bash, tty, prompt, outPipe, Buffers, shellCall, result, printed, abandoned, keysUsed>>

\* `exit`, a kill: bash is gone, and the exit pipe stays silent.
BashExits ==
    /\ bash = "up" /\ \E d \in Calls : d \in front
    /\ bash' = "dead" /\ front' = {} /\ tty' = << >> /\ prompt' = ""
    /\ UNCHANGED <<Pipes, Buffers, shellCall, result, printed, abandoned, keysUsed>>

\* ^C on the terminal flushes its input and clears the prompt.  Bash drops
\* the rest of the line, so a command that dies of it leaves no exit line;
\* one that handles it goes on.
Interrupt ==
    /\ tty' = << >> /\ prompt' = ""
    /\ \/ front' = {}
       \/ front' = front

-----------------------------------------------------------------------------
(* The event loop's readers. *)

ReadExit ==
    /\ exitPipe # << >> /\ exitBuf' = Append(exitBuf, Head(exitPipe)) /\ exitPipe' = Tail(exitPipe)
    /\ UNCHANGED <<bash, Terminal, outPipe, outBuf, shellCall, result, printed, abandoned, keysUsed>>

ReadOut ==
    /\ outPipe # {} /\ outBuf' = outBuf \cup outPipe /\ outPipe' = {}
    /\ UNCHANGED <<bash, Terminal, exitPipe, exitBuf, shellCall, result, printed, abandoned, keysUsed>>

\* The call's end: its result.
Answer(c, code, out) ==
    /\ shellCall' = [shellCall EXCEPT ![c] = "done"]
    /\ result' = [result EXCEPT ![c] = [code |-> code, out |-> out]]

\* exit_event: a few ticks let the readers take what the pipe holds, then
\* the first line of exit_buf is the code.
Answers(c) ==
    /\ shellCall[c] = "wait" /\ exitBuf # << >> /\ Answer(c, {Head(exitBuf)}, outBuf \cup outPipe)
    /\ outBuf' = outBuf \cup outPipe /\ outPipe' = {}
    /\ abandoned' = IF Head(exitBuf) = c THEN abandoned ELSE abandoned \cup {c}
    /\ UNCHANGED <<bash, Terminal, exitPipe, exitBuf, printed, keysUsed>>

\* wait_for gives up: ^C, then a tenth of a second.
CallTimesOut(c) ==
    /\ shellCall[c] = "wait" /\ exitBuf = << >> /\ shellCall' = [shellCall EXCEPT ![c] = "grace"]
    /\ IF bash = "up" THEN Interrupt ELSE UNCHANGED Terminal
    /\ UNCHANGED <<bash, Pipes, Buffers, result, printed, abandoned, keysUsed>>

GivesUp(c) ==
    /\ shellCall[c] = "grace" /\ Answer(c, {}, outBuf) /\ abandoned' = abandoned \cup {c}
    /\ UNCHANGED <<bash, Terminal, Pipes, Buffers, printed, keysUsed>>

\* The turn is cancelled: nobody sends ^C.  A cancel in the self-test
\* leaves the session in _sessions, its line in the terminal.
Cancelled(c) ==
    /\ c \in Calls /\ shellCall[c] \in {"test", "write", "wait", "grace"}
    /\ shellCall' = [shellCall EXCEPT ![c] = "done", ![SelfTest] = "idle"]
    /\ abandoned' = abandoned \cup {c} \cup (IF shellCall[c] = "test" THEN {SelfTest} ELSE {})
    /\ UNCHANGED <<bash, Terminal, Pipes, Buffers, result, printed, keysUsed>>

\* `keys` mode, in a session that is free: C-c, Enter, or text without Enter.
SendsKeys(keys) ==
    /\ bash = "up" /\ Between /\ keysUsed < ShellKeys /\ keysUsed' = keysUsed + 1
    /\ CASE keys = "C-c" -> Interrupt
         [] keys = "Enter" -> prompt' = (IF prompt = "word" THEN "" ELSE prompt) /\ UNCHANGED <<tty, front>>
         [] OTHER -> prompt' = (IF prompt = "quote" THEN "quote" ELSE keys) /\ UNCHANGED <<tty, front>>
    /\ UNCHANGED <<bash, Pipes, Buffers, shellCall, result, printed, abandoned>>

\* shutdown_all, and the next kernel.
ShutsDown ==
    /\ bash # "none" /\ Between /\ bash' = "none" /\ NewSession
    /\ UNCHANGED <<shellCall, result, printed, abandoned, keysUsed>>

ShellNext ==
    \/ \E c \in Calls : \/ Asks(c) \/ SpawnsBash(c) \/ SpawnRaises(c) \/ SelfTested(c)
                        \/ Refuses(c) \/ Cancelled(c)
    \/ \E c \in Runs : WritesLine(c) \/ WriteFails(c) \/ Answers(c) \/ CallTimesOut(c) \/ GivesUp(c)
    \/ \E d \in Runs : Prints(d) \/ Ends(d)
    \/ BashReads \/ BashExits \/ ReadExit \/ ReadOut \/ ShutsDown
    \/ \E keys \in {"C-c", "Enter", "word", "quote"} : SendsKeys(keys)

ShellSpec == ShellInit /\ [][ShellNext]_shellVars

-----------------------------------------------------------------------------
(* Correctness. *)

\* A call is answered with its own command's exit code, and all that the
\* command printed, unless an earlier call was given up before its command
\* ended: nothing that a finished call was told is told again
\* (shell_tool.py:315-318 clears the buffers, :343 waits for the readers).
OwnAnswer ==
    \A c \in Calls : result[c].code # {} =>
        /\ result[c].code \subseteq {c} \cup abandoned
        /\ result[c].out \subseteq {c} \cup abandoned
        /\ (c \in result[c].code /\ c \in printed) => c \in result[c].out
=============================================================================
