------------------------------ MODULE Command ------------------------------
(***************************************************************************)
(* How the agent executes a command: Command::execute, which the command   *)
(* thread runs for every request it processes, with the child process, the *)
(* two pipes and the descriptors that are left open.                       *)
(*                                                                         *)
(* A command is the amount it writes to its standard output and error.     *)
(* Its effect on the host is not modelled, only whether it was run.        *)
(*                                                                         *)
(* A definition named X_Slip is X with a mistake a programmer could make;  *)
(* nothing uses it: it is what a property is expected to notice.           *)
(***************************************************************************)
EXTENDS Naturals, Sequences, FiniteSets

CONSTANTS
  Outputs,    \* what commands write: a set of [out |-> ..., err |-> ...]
  PipeSize,   \* what a pipe holds
  Limit,      \* descriptors the process may have open for its pipes
  MaxCmds     \* bound: commands executed

ASSUME CommandAssumption ==
  /\ Outputs \subseteq [out : Nat, err : Nat]
  /\ PipeSize \in Nat \ {0} /\ Limit \in Nat /\ MaxCmds \in Nat

VARIABLES
  pc,         \* where execute is
  cmd,        \* the command being executed
  piped,      \* which of its two pipes could be made
  used,       \* descriptors of pipes that are open
  child,      \* the child process
  left,       \* what it still has to write
  pipe,       \* what is in the pipes
  text,       \* stdOutStr and stdErrStr
  answers     \* history: what each response said, and what happened

files == <<piped, used>>
vars == <<pc, cmd, files, child, left, pipe, text, answers>>

Nothing == [out |-> 0, err |-> 0]

Init ==
  /\ pc = "idle"
  /\ cmd = Nothing
  /\ piped = [out |-> TRUE, err |-> TRUE]
  /\ used = 0
  /\ child = "none"
  /\ left = Nothing
  /\ pipe = Nothing
  /\ text = Nothing
  /\ answers = <<>>

\* The response processCommand sends: an error with stdErrStr, or success.
Respond(isError) ==
  /\ answers' = Append(answers, [asked |-> cmd, ran |-> child = "exited",
                                 isError |-> isError, output |-> text.out,
                               pipes |-> piped.out /\ piped.err])
  /\ pc' = "idle"

Execute_InputToo(c) ==
  /\ pc = "idle"
  /\ Len(answers) < MaxCmds
  /\ cmd' = c
  /\ piped' = [out |-> used + 2 <= Limit, err |-> used + 4 <= Limit]
  /\ used' = used + (IF used + 6 <= Limit THEN 6 ELSE IF used + 4 <= Limit THEN 4 ELSE 0)
  /\ pc' = "fork"
  /\ child' = "none"
  /\ text' = Nothing
  /\ UNCHANGED <<left, pipe, answers>>

\* The two calls of pipe(), whose results nobody looks at.
Execute(c) ==
  /\ pc = "idle"
  /\ Len(answers) < MaxCmds
  /\ cmd' = c
  /\ piped' = [out |-> used + 2 <= Limit, err |-> used + 4 <= Limit]
  /\ used' = used + (IF used + 4 <= Limit THEN 4 ELSE IF used + 2 <= Limit THEN 2 ELSE 0)
  /\ pc' = "fork"
  /\ child' = "none"
  /\ text' = Nothing
  /\ UNCHANGED <<left, pipe, answers>>

\* Without a pipe the child uses two descriptors that were never set: with luck
\* they are open and the command runs, otherwise dup2 fails and it does not.
Fork ==
  /\ pc = "fork"
  /\ child' \in IF piped.out /\ piped.err THEN {"running"} ELSE {"running", "failed"}
  /\ left' = cmd
  /\ pc' = "wait"
  /\ UNCHANGED <<cmd, files, pipe, text, answers>>

\* fork() fails: an exception, and the descriptors stay open.
ForkFails ==
  /\ pc = "fork"
  /\ Respond(TRUE)
  /\ UNCHANGED <<cmd, files, child, left, pipe, text>>

\* The child writes to one of its ends, and waits while its pipe is full.
ChildWrites(end) ==
  /\ child = "running"
  /\ left[end] > 0
  /\ left' = [left EXCEPT ![end] = @ - 1]
  /\ IF piped[end]
     THEN pipe[end] < PipeSize /\ pipe' = [pipe EXCEPT ![end] = @ + 1]
     ELSE UNCHANGED pipe
  /\ UNCHANGED <<pc, cmd, files, child, text, answers>>

ChildExits ==
  /\ child = "running"
  /\ left = Nothing
  /\ child' = "exited"
  /\ UNCHANGED <<pc, cmd, files, left, pipe, text, answers>>

Wait_NotAtAll ==
  /\ pc = "wait"
  /\ pc' = "readOut"
  /\ UNCHANGED <<cmd, files, child, left, pipe, text, answers>>

\* wait(NULL): nothing is read before the child has ended.
Wait ==
  /\ pc = "wait"
  /\ child \in {"exited", "failed"}
  /\ pc' = "readOut"
  /\ UNCHANGED <<cmd, files, child, left, pipe, text, answers>>

ReadPipe_Blocking(end, here, next) ==
  /\ pc = here
  /\ pipe[end] > 0
  /\ text' = [text EXCEPT ![end] = @ + 1]
  /\ pipe' = [pipe EXCEPT ![end] = @ - 1]
  /\ UNCHANGED <<pc, cmd, files, child, left, answers>>

\* The loops that read until the pipe is empty, or the descriptor is no good.
ReadPipe(end, here, next) ==
  /\ pc = here
  /\ text' = [text EXCEPT ![end] = IF piped[end] THEN pipe[end] ELSE 0]
  /\ pipe' = [pipe EXCEPT ![end] = 0]
  /\ pc' = next
  /\ UNCHANGED <<cmd, files, child, left, answers>>

ReadPipes == ReadPipe("out", "readOut", "readErr") \/ ReadPipe("err", "readErr", "done")

Answer_WrongPipe ==
  /\ pc = "done"
  /\ Respond(text.out > 0)
  /\ used' = IF text.out > 0 THEN used
             ELSE used - (IF piped.out THEN 1 ELSE 0) - (IF piped.err THEN 1 ELSE 0)
  /\ UNCHANGED <<cmd, piped, child, left, pipe, text>>

\* With anything on the standard error execute throws and closes nothing; else
\* it closes the reading ends.  The writing ends are never closed.
Answer ==
  /\ pc = "done"
  /\ Respond(text.err > 0)
  /\ used' = IF text.err > 0 THEN used
             ELSE used - (IF piped.out THEN 1 ELSE 0) - (IF piped.err THEN 1 ELSE 0)
  /\ UNCHANGED <<cmd, piped, child, left, pipe, text>>

Parent == Fork \/ ForkFails \/ Wait \/ ReadPipes \/ Answer
Child == (\E end \in {"out", "err"} : ChildWrites(end)) \/ ChildExits

Next == (\E c \in Outputs : Execute(c)) \/ Parent \/ Child

\* Both processes are scheduled; requests may stop coming.
Spec == Init /\ [][Next]_vars /\ WF_vars(Parent) /\ WF_vars(Child)

-----------------------------------------------------------------------------
\* Types of the variables of Command.
TypeOK ==
  /\ pc \in {"idle", "fork", "wait", "readOut", "readErr", "done"}
  /\ cmd \in Outputs \cup {Nothing}
  /\ piped \in [out : BOOLEAN, err : BOOLEAN]
  /\ used \in 0..Limit
  /\ child \in {"none", "running", "failed", "exited"}
  /\ left \in [out : Nat, err : Nat]
  /\ pipe \in [out : 0..PipeSize, err : 0..PipeSize]
  /\ text \in [out : Nat, err : Nat]
  /\ answers \in Seq([asked : Outputs, ran : BOOLEAN, isError : BOOLEAN, output : Nat,
                      pipes : BOOLEAN])

\* "Listens for the commands from the host and executes them" (Agent.cpp:189):
\* a response that reports success means that the command was run, wrote nothing
\* to its standard error, and that the response has all its output.  It is not
\* so once the descriptors have run out: nobody looks at what pipe() returns.
SuccessMeansExecuted ==
  \A i \in DOMAIN answers :
    ~answers[i].isError /\ answers[i].pipes =>
      /\ answers[i].ran
      /\ answers[i].asked.err = 0
      /\ answers[i].output = answers[i].asked.out

\* An error is reported only of a command that failed or could not be started.
ErrorMeansFailure ==
  \A i \in DOMAIN answers :
    answers[i].isError => answers[i].asked.err > 0 \/ ~answers[i].ran

\* What a command leaves behind: its two writing ends if it succeeded, and all
\* four descriptors if it did not.
LeakOfEachCommand ==
  (pc = "idle" /\ \A i \in DOMAIN answers : answers[i].pipes) =>
    used = 2 * Len(answers) + 2 * Cardinality({i \in DOMAIN answers : answers[i].isError})

\* So the descriptors last for a quarter as many commands at the least.
DescriptorsLast == \A i \in DOMAIN answers : 4 * i <= Limit => answers[i].pipes

\* A command that writes more than a pipe holds: the agent waits for it to end,
\* and it waits for the agent to read, for ever.
TooMuch == cmd.out > PipeSize \/ cmd.err > PipeSize

\* Every other command comes to an end, so that the next one can be executed.
EveryCommandEnds == pc # "idle" ~> pc = "idle" \/ TooMuch

=============================================================================
