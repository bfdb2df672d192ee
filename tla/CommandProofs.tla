--------------------------- MODULE CommandProofs ---------------------------
(***************************************************************************)
(* Proofs about Command, for every set of commands, size of the pipes,     *)
(* limit of descriptors and number of commands.                            *)
(***************************************************************************)
EXTENDS Command, FiniteSetTheorems, TLAPS

Ends == {"out", "err"}
Answered == [asked : Outputs, ran : BOOLEAN, isError : BOOLEAN, output : Nat, pipes : BOOLEAN]

\* Where the child can be while execute is at pc.
ChildInv ==
  /\ pc # "idle" => cmd \in Outputs
  /\ pc = "fork" => child = "none"
  /\ pc = "wait" => child # "none"
  /\ pc \in {"readOut", "readErr", "done"} => child \in {"exited", "failed"}
  /\ pc = "idle" => child # "running"
  /\ child = "exited" => left = Nothing
  /\ child = "failed" /\ pc # "idle" => ~(piped.out /\ piped.err)

\* Every byte of the command is still to be written, in the pipe or in the text.
BytesInv ==
  \A end \in Ends :
    /\ (pc # "idle" /\ piped[end] /\ child \in {"running", "exited"})
         => left[end] + pipe[end] + text[end] = cmd[end]
    /\ pc # "idle" /\ ~piped[end] => text[end] = 0
    /\ pc \in {"idle", "fork", "done"} \/ child = "failed" => pipe[end] = 0
    /\ pc \in {"fork", "wait", "readOut"} => text[end] = 0

BetweenInv ==
  /\ pc = "readErr" => pipe.out = 0 /\ text.err = 0

\* What the pipes of the present command hold, and of the commands before.
Held == (IF piped.out THEN 2 ELSE 0) + (IF piped.err THEN 2 ELSE 0)
FilesInv ==
  /\ pc # "idle" => Held <= used /\ used <= 4 * Len(answers) + 4
  /\ pc # "idle" /\ 4 * (Len(answers) + 1) <= Limit => piped.out /\ piped.err
  /\ pc = "idle" => used <= 4 * Len(answers)

IInv == TypeOK /\ ChildInv /\ BytesInv /\ BetweenInv /\ FilesInv

LEMMA InitIInv == Init => IInv
BY CommandAssumption
DEF Init, IInv, TypeOK, ChildInv, BytesInv, BetweenInv, FilesInv, Held, Nothing, Ends

\* What a response adds to the history.
LEMMA RespondAnswered ==
  ASSUME TypeOK, NEW isError \in BOOLEAN, Respond(isError), cmd \in Outputs
  PROVE  /\ answers' \in Seq(Answered)
         /\ Len(answers') = Len(answers) + 1
         /\ \A i \in DOMAIN answers : answers'[i] = answers[i]
         /\ answers'[Len(answers')] =
              [asked |-> cmd, ran |-> child = "exited", isError |-> isError,
               output |-> text.out, pipes |-> piped.out /\ piped.err]
<1> DEFINE a == [asked |-> cmd, ran |-> child = "exited", isError |-> isError,
                 output |-> text.out, pipes |-> piped.out /\ piped.err]
<1>1. a \in Answered
  BY DEF TypeOK, Answered
<1>2. answers \in Seq(Answered) /\ answers' = Append(answers, a)
  BY DEF TypeOK, Answered, Respond
<1> HIDE DEF a
<1>3. /\ answers' \in Seq(Answered) /\ Len(answers') = Len(answers) + 1
      /\ \A i \in DOMAIN answers : answers'[i] = answers[i]
      /\ answers'[Len(answers')] = a
  BY <1>1, <1>2
<1> QED BY <1>3 DEF a

USE DEF Ends, files, Nothing

LEMMA ExecuteStep ==
  ASSUME IInv, NEW c \in Outputs, Execute(c)
  PROVE  IInv'
<1> USE CommandAssumption DEF IInv
<1>1. TypeOK'
  BY DEF Execute, TypeOK, Nothing
<1>2. ChildInv'
  BY DEF Execute, ChildInv
<1>3. BytesInv' /\ BetweenInv'
  BY DEF Execute, BytesInv, BetweenInv, Nothing, TypeOK
<1>4. FilesInv'
  <2>1. used \in 0..Limit /\ Len(answers) \in Nat /\ used <= 4 * Len(answers)
    BY DEF Execute, FilesInv, TypeOK
  <2>2. /\ piped' = [out |-> used + 2 <= Limit, err |-> used + 4 <= Limit]
        /\ used' = used + (IF used + 4 <= Limit THEN 4
                          ELSE IF used + 2 <= Limit THEN 2 ELSE 0)
        /\ pc' = "fork" /\ answers' = answers
    BY DEF Execute
  <2>p. /\ piped'.out <=> used + 2 <= Limit
        /\ piped'.err <=> used + 4 <= Limit
    BY <2>2
  <2>h. Held' = (IF used + 2 <= Limit THEN 2 ELSE 0) + (IF used + 4 <= Limit THEN 2 ELSE 0)
    BY <2>p DEF Held
  <2>3. Held' <= used' /\ used' <= 4 * Len(answers') + 4
    BY <2>1, <2>2, <2>h
  <2>4. 4 * (Len(answers') + 1) <= Limit => piped'.out /\ piped'.err
    BY <2>1, <2>2, <2>p
  <2> QED BY <2>2, <2>3, <2>4 DEF FilesInv
<1> QED BY <1>1, <1>2, <1>3, <1>4

LEMMA ForkStep ==
  ASSUME IInv, Fork
  PROVE  IInv'
<1> USE CommandAssumption DEF IInv
<1>1. TypeOK'
  BY DEF Fork, TypeOK, Nothing, ChildInv
<1>2. ChildInv'
  BY DEF Fork, ChildInv, TypeOK
<1>3. BytesInv' /\ BetweenInv'
  BY DEF Fork, BytesInv, BetweenInv, ChildInv, TypeOK
<1>4. FilesInv'
  BY DEF Fork, FilesInv, Held
<1> QED BY <1>1, <1>2, <1>3, <1>4

LEMMA ForkFailsStep ==
  ASSUME IInv, ForkFails
  PROVE  IInv'
<1> USE DEF IInv
<1>0. cmd \in Outputs /\ Respond(TRUE) /\ pc' = "idle"
  BY DEF ForkFails, ChildInv, Respond
<1>1. answers' \in Seq(Answered) /\ Len(answers') = Len(answers) + 1
  BY <1>0, RespondAnswered
<1>2. TypeOK'
  BY <1>0, <1>1 DEF ForkFails, TypeOK, Answered
<1>3. ChildInv'
  BY <1>0 DEF ForkFails, ChildInv
<1>4. BytesInv' /\ BetweenInv'
  BY <1>0 DEF ForkFails, BytesInv, BetweenInv
<1>5. FilesInv'
  BY <1>0, <1>1 DEF ForkFails, FilesInv, TypeOK
<1> QED BY <1>2, <1>3, <1>4, <1>5

LEMMA ChildWritesStep ==
  ASSUME IInv, NEW end \in Ends, ChildWrites(end)
  PROVE  IInv'
<1> USE DEF IInv
<1>a. /\ left \in [Ends -> Nat] /\ pipe \in [Ends -> 0..PipeSize]
      /\ text \in [Ends -> Nat] /\ cmd \in [Ends -> Nat] /\ piped \in [Ends -> BOOLEAN]
  BY CommandAssumption DEF TypeOK
<1>b. left' = [left EXCEPT ![end] = left[end] - 1] /\ left[end] > 0
  BY DEF ChildWrites
<1>c. pipe' = IF piped[end] THEN [pipe EXCEPT ![end] = pipe[end] + 1] ELSE pipe
  BY DEF ChildWrites
<1>d. piped[end] => pipe[end] < PipeSize
  BY DEF ChildWrites
<1>e. left' \in [Ends -> Nat] /\ pipe' \in [Ends -> 0..PipeSize]
  BY <1>a, <1>b, <1>c, <1>d, CommandAssumption
<1>1. TypeOK'
  BY <1>e DEF ChildWrites, TypeOK
<1>2. ChildInv'
  BY DEF ChildWrites, ChildInv
<1>3. BytesInv' /\ BetweenInv'
  <2>1. pc = "wait" /\ child = "running"
    BY DEF ChildWrites, ChildInv, TypeOK
  <2>2. UNCHANGED <<pc, cmd, piped, child, text>>
    BY DEF ChildWrites
  <2>3. \A e \in Ends : piped[e] => left'[e] + pipe'[e] = left[e] + pipe[e]
    BY <1>a, <1>b, <1>c
  <2>4. \A e \in Ends : piped[e] => left'[e] + pipe'[e] + text[e] = cmd[e]
    BY <1>a, <1>e, <2>1, <2>3 DEF BytesInv
  <2> QED BY <2>1, <2>2, <2>4 DEF BytesInv, BetweenInv
<1>4. FilesInv'
  BY DEF ChildWrites, FilesInv, Held
<1> QED BY <1>1, <1>2, <1>3, <1>4

LEMMA ChildExitsStep ==
  ASSUME IInv, ChildExits
  PROVE  IInv'
<1> USE DEF IInv
<1>1. TypeOK'
  BY DEF ChildExits, TypeOK
<1>2. ChildInv'
  BY DEF ChildExits, ChildInv, TypeOK
<1>3. BytesInv' /\ BetweenInv'
  BY DEF ChildExits, BytesInv, BetweenInv, ChildInv
<1>4. FilesInv'
  BY DEF ChildExits, FilesInv, Held
<1> QED BY <1>1, <1>2, <1>3, <1>4

LEMMA WaitStep ==
  ASSUME IInv, Wait
  PROVE  IInv'
<1> USE DEF IInv
<1>1. TypeOK'
  BY DEF Wait, TypeOK
<1>2. ChildInv'
  BY DEF Wait, ChildInv
<1>3. BytesInv' /\ BetweenInv'
  BY DEF Wait, BytesInv, BetweenInv
<1>4. FilesInv'
  BY DEF Wait, FilesInv, Held
<1> QED BY <1>1, <1>2, <1>3, <1>4

LEMMA ReadPipesStep ==
  ASSUME IInv, ReadPipes
  PROVE  IInv'
<1> USE DEF IInv
<1>1. CASE ReadPipe("out", "readOut", "readErr")
  <2>a. /\ text' = [text EXCEPT !.out = IF piped.out THEN pipe.out ELSE 0]
        /\ pipe' = [pipe EXCEPT !.out = 0]
    BY <1>1 DEF ReadPipe
  <2>b. text' \in [out : Nat, err : Nat] /\ pipe' \in [out : 0..PipeSize, err : 0..PipeSize]
    <3>1. text \in [out : Nat, err : Nat] /\ pipe \in [out : 0..PipeSize, err : 0..PipeSize]
      BY DEF TypeOK
    <3>2. /\ (IF piped.out THEN pipe.out ELSE 0) \in Nat
          /\ (IF piped.err THEN pipe.err ELSE 0) \in Nat /\ 0 \in 0..PipeSize
      BY <3>1, CommandAssumption
    <3> QED BY <2>a, <3>1, <3>2
  <2>1. TypeOK'
    <3>1. pc' = "readErr" /\ UNCHANGED <<cmd, piped, used, child, left, answers>>
      BY <1>1 DEF ReadPipe
    <3> QED BY <3>1, <2>b DEF TypeOK
  <2>2. ChildInv'
    BY <1>1 DEF ReadPipe, ChildInv
  <2>3. BytesInv' /\ BetweenInv'
    <3>1. /\ text'.out = (IF piped.out THEN pipe.out ELSE 0) /\ text'.err = text.err
          /\ pipe'.out = 0 /\ pipe'.err = pipe.err
      BY <2>a DEF TypeOK
    <3>2. pc = "readOut" /\ pc' = "readErr" /\ UNCHANGED <<cmd, piped, child, left>>
      BY <1>1 DEF ReadPipe
    <3> QED BY <3>1, <3>2 DEF BytesInv, BetweenInv, TypeOK
  <2>4. FilesInv'
    BY <1>1 DEF ReadPipe, FilesInv, Held
  <2> QED BY <2>1, <2>2, <2>3, <2>4
<1>2. CASE ReadPipe("err", "readErr", "done")
  <2>a. /\ text' = [text EXCEPT !.err = IF piped.err THEN pipe.err ELSE 0]
        /\ pipe' = [pipe EXCEPT !.err = 0]
    BY <1>2 DEF ReadPipe
  <2>b. text' \in [out : Nat, err : Nat] /\ pipe' \in [out : 0..PipeSize, err : 0..PipeSize]
    <3>1. text \in [out : Nat, err : Nat] /\ pipe \in [out : 0..PipeSize, err : 0..PipeSize]
      BY DEF TypeOK
    <3>2. /\ (IF piped.out THEN pipe.out ELSE 0) \in Nat
          /\ (IF piped.err THEN pipe.err ELSE 0) \in Nat /\ 0 \in 0..PipeSize
      BY <3>1, CommandAssumption
    <3> QED BY <2>a, <3>1, <3>2
  <2>1. TypeOK'
    <3>1. pc' = "done" /\ UNCHANGED <<cmd, piped, used, child, left, answers>>
      BY <1>2 DEF ReadPipe
    <3> QED BY <3>1, <2>b DEF TypeOK
  <2>2. ChildInv'
    BY <1>2 DEF ReadPipe, ChildInv
  <2>3. BytesInv' /\ BetweenInv'
    <3>1. /\ text'.err = (IF piped.err THEN pipe.err ELSE 0) /\ text'.out = text.out
          /\ pipe'.err = 0 /\ pipe'.out = pipe.out
      BY <2>a DEF TypeOK
    <3>2. pc = "readErr" /\ pc' = "done" /\ UNCHANGED <<cmd, piped, child, left>>
      BY <1>2 DEF ReadPipe
    <3> QED BY <3>1, <3>2 DEF BytesInv, BetweenInv, TypeOK
  <2>4. FilesInv'
    BY <1>2 DEF ReadPipe, FilesInv, Held
  <2> QED BY <2>1, <2>2, <2>3, <2>4
<1> QED BY <1>1, <1>2 DEF ReadPipes

LEMMA AnswerStep ==
  ASSUME IInv, Answer
  PROVE  IInv'
<1> USE DEF IInv
<1>0. cmd \in Outputs /\ Respond(text.err > 0) /\ pc' = "idle"
  BY DEF Answer, ChildInv, Respond
<1>a. (text.err > 0) \in BOOLEAN
  OBVIOUS
<1>1. answers' \in Seq(Answered) /\ Len(answers') = Len(answers) + 1
  BY <1>0, <1>a, RespondAnswered
<1>2. used' \in 0..used
  BY DEF Answer, FilesInv, Held, TypeOK
<1>3. TypeOK'
  <2>1. used' \in 0..Limit
    BY <1>2, CommandAssumption DEF TypeOK
  <2>2. UNCHANGED <<cmd, piped, child, left, pipe, text>>
    BY DEF Answer
  <2> HIDE DEF Answer, IInv
  <2> QED BY <1>0, <1>1, <2>1, <2>2 DEF IInv, TypeOK, Answered
<1>4. ChildInv'
  BY <1>0 DEF Answer, ChildInv
<1>5. BytesInv' /\ BetweenInv'
  BY <1>0 DEF Answer, BytesInv, BetweenInv
<1>6. FilesInv'
  BY <1>0, <1>1, <1>2 DEF Answer, FilesInv, TypeOK
<1> QED BY <1>3, <1>4, <1>5, <1>6

LEMMA NextIInv == IInv /\ [Next]_vars => IInv'
<1> SUFFICES ASSUME IInv, [Next]_vars PROVE IInv'
  OBVIOUS
<1>1. CASE UNCHANGED vars
  BY <1>1 DEF vars, files, IInv, TypeOK, ChildInv, BytesInv, BetweenInv, FilesInv, Held
<1>2. CASE \E c \in Outputs : Execute(c)
  BY <1>2, ExecuteStep
<1>3. CASE Parent
  BY <1>3, ForkStep, ForkFailsStep, WaitStep, ReadPipesStep, AnswerStep DEF Parent
<1>4. CASE Child
  BY <1>4, ChildWritesStep, ChildExitsStep DEF Child
<1> QED BY <1>1, <1>2, <1>3, <1>4 DEF Next

-----------------------------------------------------------------------------
(* What the responses say *)

Told == SuccessMeansExecuted /\ ErrorMeansFailure /\ DescriptorsLast

\* A step other than a response leaves them as they were.
LEMMA OtherStepsTellNothing ==
  ASSUME Told, UNCHANGED answers
  PROVE  Told'
BY DEF Told, SuccessMeansExecuted, ErrorMeansFailure, DescriptorsLast

\* A response adds one, about which the present command decides.
LEMMA ResponseTells ==
  ASSUME IInv, Told, NEW isError \in BOOLEAN, Respond(isError), cmd \in Outputs,
         isError => cmd.err > 0 \/ child # "exited",
         ~isError /\ piped.out /\ piped.err =>
           child = "exited" /\ cmd.err = 0 /\ text.out = cmd.out,
         pc # "idle"
  PROVE  Told'
<1> DEFINE n == Len(answers)
           a == [asked |-> cmd, ran |-> child = "exited", isError |-> isError,
                 output |-> text.out, pipes |-> piped.out /\ piped.err]
<1>1. /\ answers' \in Seq(Answered) /\ Len(answers') = n + 1 /\ n \in Nat
      /\ \A i \in DOMAIN answers : answers'[i] = answers[i]
      /\ answers'[n + 1] = a
      /\ DOMAIN answers = 1..n /\ DOMAIN answers' = 1..(n + 1)
  BY RespondAnswered DEF IInv, TypeOK
<1>2. /\ a.asked = cmd /\ a.ran = (child = "exited") /\ a.isError = isError
      /\ a.output = text.out /\ a.pipes = (piped.out /\ piped.err)
  OBVIOUS
<1> HIDE DEF a, n
<1>3. SuccessMeansExecuted'
  <2> SUFFICES ASSUME NEW i \in 1..(n + 1), ~answers'[i].isError, answers'[i].pipes
               PROVE  /\ answers'[i].ran /\ answers'[i].asked.err = 0
                      /\ answers'[i].output = answers'[i].asked.out
    BY <1>1 DEF SuccessMeansExecuted
  <2>1. CASE i = n + 1
    BY <2>1, <1>1, <1>2
  <2>2. CASE i \in 1..n
    BY <2>2, <1>1 DEF Told, SuccessMeansExecuted
  <2> QED BY <2>1, <2>2, <1>1
<1>4. ErrorMeansFailure'
  <2> SUFFICES ASSUME NEW i \in 1..(n + 1), answers'[i].isError
               PROVE  answers'[i].asked.err > 0 \/ ~answers'[i].ran
    BY <1>1 DEF ErrorMeansFailure
  <2>1. CASE i = n + 1
    BY <2>1, <1>1, <1>2
  <2>2. CASE i \in 1..n
    BY <2>2, <1>1 DEF Told, ErrorMeansFailure
  <2> QED BY <2>1, <2>2, <1>1
<1>5. DescriptorsLast'
  <2> SUFFICES ASSUME NEW i \in 1..(n + 1), 4 * i <= Limit
               PROVE  answers'[i].pipes
    BY <1>1 DEF DescriptorsLast
  <2>1. CASE i = n + 1
    BY <2>1, <1>1, <1>2 DEF IInv, FilesInv, n
  <2>2. CASE i \in 1..n
    BY <2>2, <1>1 DEF Told, DescriptorsLast
  <2> QED BY <2>1, <2>2, <1>1
<1> QED BY <1>3, <1>4, <1>5 DEF Told

LEMMA NextTold == IInv /\ Told /\ [Next]_vars => Told'
<1> SUFFICES ASSUME IInv, Told, [Next]_vars PROVE Told'
  OBVIOUS
<1>1. CASE UNCHANGED vars
  BY <1>1, OtherStepsTellNothing DEF vars
<1>2. CASE \E c \in Outputs : Execute(c)
  BY <1>2, OtherStepsTellNothing DEF Execute
<1>3. CASE Fork \/ Wait \/ ReadPipes \/ Child
  BY <1>3, OtherStepsTellNothing
     DEF Fork, Wait, ReadPipes, ReadPipe, Child, ChildWrites, ChildExits
<1>4. CASE ForkFails
  <2>1. cmd \in Outputs /\ Respond(TRUE) /\ child # "exited" /\ pc # "idle"
    BY <1>4 DEF ForkFails, IInv, ChildInv
  <2> QED BY <2>1, ResponseTells
<1>5. CASE Answer
  <2> DEFINE isError == text.err > 0
  <2>1. cmd \in Outputs /\ Respond(isError) /\ pc = "done" /\ isError \in BOOLEAN
    BY <1>5 DEF Answer, IInv, ChildInv
  <2>2. /\ text \in [out : Nat, err : Nat] /\ cmd \in [out : Nat, err : Nat]
        /\ child \in {"exited", "failed"} /\ pipe.out = 0 /\ pipe.err = 0
        /\ child = "exited" => left.out = 0 /\ left.err = 0
        /\ child = "failed" => ~(piped.out /\ piped.err)
    BY <2>1, CommandAssumption DEF IInv, TypeOK, ChildInv, BytesInv
  <2>3. \A end \in Ends : piped[end] /\ child = "exited" => text[end] = cmd[end]
    BY <2>1, <2>2 DEF IInv, BytesInv
  <2>4. \A end \in Ends : ~piped[end] => text[end] = 0
    BY <2>1 DEF IInv, BytesInv
  <2>5. isError => cmd.err > 0 \/ child # "exited"
    BY <2>2, <2>3, <2>4 DEF IInv, TypeOK
  <2>6. ~isError /\ piped.out /\ piped.err =>
          child = "exited" /\ cmd.err = 0 /\ text.out = cmd.out
    BY <2>2, <2>3
  <2> HIDE DEF isError
  <2> QED BY <2>1, <2>5, <2>6, ResponseTells
<1> QED BY <1>1, <1>2, <1>3, <1>4, <1>5 DEF Next, Parent

\* The variables of Command have their types; the pipes never hold more than
\* they can, nor are more descriptors used than there are.
THEOREM CommandTypeOK == Spec => []TypeOK
<1>1. IInv => TypeOK
  BY DEF IInv
<1> QED BY InitIInv, NextIInv, <1>1, PTL DEF Spec

LEMMA SpecTold == Spec => []Told
<1>1. Init => Told
  BY DEF Init, Told, SuccessMeansExecuted, ErrorMeansFailure, DescriptorsLast
<1> QED BY InitIInv, NextIInv, <1>1, NextTold, PTL DEF Spec

\* execute and processCommand: while descriptors last, success is reported of
\* commands that were run, and with all their output.
THEOREM SuccessIsTrue == Spec => []SuccessMeansExecuted
<1>1. Told => SuccessMeansExecuted
  BY DEF Told
<1> QED BY SpecTold, <1>1, PTL

\* And errors of commands that failed.
THEOREM ErrorIsTrue == Spec => []ErrorMeansFailure
<1>1. Told => ErrorMeansFailure
  BY DEF Told
<1> QED BY SpecTold, <1>1, PTL

\* pipe() fails for no command before a quarter of the limit.
THEOREM DescriptorsDoLast == Spec => []DescriptorsLast
<1>1. Told => DescriptorsLast
  BY DEF Told
<1> QED BY SpecTold, <1>1, PTL

-----------------------------------------------------------------------------
(* What the commands leave open *)

Failed == {i \in DOMAIN answers : answers[i].isError}
AllPiped == \A i \in DOMAIN answers : answers[i].pipes
LeakInv ==
  AllPiped =>
    /\ pc = "idle" => used = 2 * Len(answers) + 2 * Cardinality(Failed)
    /\ pc # "idle" /\ piped.out /\ piped.err =>
         used = 2 * Len(answers) + 2 * Cardinality(Failed) + 4

LEMMA FailedIsFinite ==
  ASSUME TypeOK
  PROVE  IsFiniteSet(Failed) /\ Cardinality(Failed) \in Nat
<1>1. Len(answers) \in Nat /\ Failed \subseteq 1..Len(answers)
  BY DEF TypeOK, Failed
<1>2. IsFiniteSet(1..Len(answers))
  BY <1>1, FS_Interval
<1> QED BY <1>1, <1>2, FS_Subset, FS_CardinalityType

\* A response counts as one more answer and, if it is an error, as a failure.
LEMMA ResponseCounts ==
  ASSUME IInv, NEW isError \in BOOLEAN, Respond(isError), cmd \in Outputs
  PROVE  /\ Len(answers') = Len(answers) + 1
         /\ Cardinality(Failed') = Cardinality(Failed) + (IF isError THEN 1 ELSE 0)
         /\ AllPiped' => AllPiped /\ piped.out /\ piped.err
<1> DEFINE n == Len(answers)
           a == [asked |-> cmd, ran |-> child = "exited", isError |-> isError,
                 output |-> text.out, pipes |-> piped.out /\ piped.err]
<1>0. /\ Len(answers') = n + 1 /\ n \in Nat
      /\ \A i \in DOMAIN answers : answers'[i] = answers[i]
      /\ answers'[n + 1] = a
      /\ DOMAIN answers = 1..n /\ DOMAIN answers' = 1..(n + 1)
  BY RespondAnswered DEF IInv, TypeOK
<1>a. /\ a.isError <=> isError
      /\ a.pipes <=> piped.out /\ piped.err
  OBVIOUS
<1> HIDE DEF n, a
<1>1. /\ Len(answers') = n + 1 /\ n \in Nat
      /\ \A i \in DOMAIN answers : answers'[i] = answers[i]
      /\ answers'[n + 1].isError <=> isError
      /\ answers'[n + 1].pipes <=> piped.out /\ piped.err
      /\ DOMAIN answers = 1..n /\ DOMAIN answers' = 1..(n + 1)
  BY <1>0, <1>a
<1>2. Failed' = IF isError THEN Failed \cup {n + 1} ELSE Failed
  BY <1>1 DEF Failed
<1>3. n + 1 \notin Failed
  BY <1>1 DEF Failed
<1>4. Cardinality(Failed') = Cardinality(Failed) + (IF isError THEN 1 ELSE 0)
  BY <1>2, <1>3, FailedIsFinite, FS_AddElement DEF IInv
<1>5. AllPiped' => AllPiped /\ piped.out /\ piped.err
  <2>1. n + 1 \in 1..(n + 1) /\ 1..n \subseteq 1..(n + 1)
    BY <1>1
  <2> QED BY <1>1, <2>1 DEF AllPiped
<1> QED BY <1>1, <1>4, <1>5 DEF n

LEMMA NextLeakInv == IInv /\ LeakInv /\ [Next]_vars => LeakInv'
<1> SUFFICES ASSUME IInv, LeakInv, [Next]_vars PROVE LeakInv'
  OBVIOUS
<1>0. /\ Len(answers) \in Nat /\ used \in Nat /\ Limit \in Nat
      /\ Cardinality(Failed) \in Nat
  BY FailedIsFinite, CommandAssumption DEF IInv, TypeOK
<1>1. CASE UNCHANGED vars
  BY <1>1 DEF vars, LeakInv, AllPiped, Failed
<1>2. CASE \E c \in Outputs : Execute(c)
  <2>0. PICK c \in Outputs : Execute(c)
    BY <1>2
  <2>a. /\ piped' = [out |-> used + 2 <= Limit, err |-> used + 4 <= Limit]
        /\ used + 4 <= Limit => used' = used + 4
    BY <2>0 DEF Execute
  <2>c. piped'.err => used' = used + 4
    BY <2>a
  <2>1. /\ pc = "idle" /\ pc' # "idle" /\ answers' = answers
        /\ piped'.err => used' = used + 4
    BY <2>0, <2>c DEF Execute
  <2>2. Failed' = Failed
    BY <2>1 DEF Failed
  <2>3. Cardinality(Failed') = Cardinality(Failed) /\ Len(answers') = Len(answers)
    BY <2>1, <2>2
  <2>4. AllPiped => used = 2 * Len(answers) + 2 * Cardinality(Failed)
    BY <2>1 DEF LeakInv
  <2>b. AllPiped' <=> AllPiped
    BY <2>1 DEF AllPiped
  <2>5. AllPiped' /\ piped'.err => used' = 2 * Len(answers') + 2 * Cardinality(Failed') + 4
    BY <2>1, <2>b, <2>3, <2>4, <1>0
  <2> QED BY <2>1, <2>5 DEF LeakInv
<1>3. CASE Fork \/ Wait \/ ReadPipes \/ Child
  <2>1. pc # "idle" /\ pc' # "idle" /\ UNCHANGED <<piped, used, answers>>
    BY <1>3 DEF Fork, Wait, ReadPipes, ReadPipe, Child, ChildWrites, ChildExits,
                IInv, ChildInv
  <2> QED BY <2>1 DEF LeakInv, AllPiped, Failed
<1>4. CASE ForkFails
  <2>1. cmd \in Outputs /\ Respond(TRUE) /\ pc = "fork" /\ pc' = "idle" /\ used' = used
    BY <1>4 DEF ForkFails, Respond, IInv, ChildInv
  <2>2. /\ Len(answers') = Len(answers) + 1
        /\ Cardinality(Failed') = Cardinality(Failed) + 1
        /\ AllPiped' => AllPiped /\ piped.out /\ piped.err
    BY <2>1, ResponseCounts
  <2> QED BY <2>1, <2>2, <1>0 DEF LeakInv
<1>5. CASE Answer
  <2> DEFINE isError == text.err > 0
  <2>1. /\ cmd \in Outputs /\ Respond(isError) /\ isError \in BOOLEAN
        /\ pc = "done" /\ pc' = "idle"
        /\ piped.out /\ piped.err => used' = IF isError THEN used ELSE used - 2
    BY <1>5, <1>0 DEF Answer, Respond, IInv, ChildInv
  <2> HIDE DEF isError
  <2>2. /\ Len(answers') = Len(answers) + 1
        /\ Cardinality(Failed') = Cardinality(Failed) + (IF isError THEN 1 ELSE 0)
        /\ AllPiped' => AllPiped /\ piped.out /\ piped.err
    BY <2>1, ResponseCounts
  <2> QED BY <2>1, <2>2, <1>0 DEF LeakInv
<1> QED BY <1>1, <1>2, <1>3, <1>4, <1>5 DEF Next, Parent

\* execute closes neither writing end, and after an error no end at all: this is
\* how many descriptors it has lost, whatever the commands were.
THEOREM LeakIsAsLargeAsSaid == Spec => []LeakOfEachCommand
<1>1. Init => LeakInv
  BY FS_EmptySet DEF Init, LeakInv, Failed
<1>2. LeakInv => LeakOfEachCommand
  BY DEF LeakInv, LeakOfEachCommand, AllPiped, Failed
<1> QED BY InitIInv, NextIInv, <1>1, NextLeakInv, <1>2, PTL DEF Spec

=============================================================================
