-------------------------- MODULE FusedSolve_proofs --------------------------
(***************************************************************************)
(* The safety properties of FusedSolve for any set of ranks, any set of    *)
(* routines and any set of faults.                                         *)
(*                                                                         *)
(* The inductive invariant says, stage by stage, what a rank's own state   *)
(* is (OutcomeInv, CodeInv, HeldInv, NanInv) and what it implies of its    *)
(* peers (SolvedInv, VerdictInv, ReductionJoinedByAll).                    *)
(***************************************************************************)
EXTENDS FusedSolve, TLAPS

\* Stages whose status is settled: publication and what follows it.
Late == {"publish", "reverse", "restore", "returned"}

\* Between the library calls and the last agreement.
Solved == {"destroy", "agree_solved", "contribute", "reduce", "close",
           "agree_closed"}

\* The handler's outcome is known exactly when it has returned.
OutcomeInv == \A r \in Ranks : (outcome[r] = "running") <=> (pc[r] # "returned")

\* A rank that is still to call the library has not failed; one that gave up
\* initializing has.
CodeInv == \A r \in Ranks :
  /\ pc[r] \in {"allocate", "forward", "initialize", "prepare", "extract",
                "contribute"} \cup LibraryCalls => code[r] = kStatusOk
  /\ pc[r] = "abandon" => code[r] # kStatusOk

\* What a rank holds at each stage.
HeldInv == \A r \in Ranks :
  /\ pc[r] = "allocate" => held[r] = {}
  /\ pc[r] \in {"forward", "initialize"} \cup Late => held[r] \subseteq {"scratch"}
  /\ pc[r] = "agree_closed" => held[r] \subseteq {"scratch"}
  /\ pc[r] \in {"abandon", "agree_solved", "contribute", "reduce", "close"}
       => held[r] \subseteq {"scratch", "handle", "grid"}
  /\ outcome[r] = "ok" => held[r] = {}

\* What a failed rank publishes.
NanInv == \A r \in Ranks :
  \/ pc[r] \in {"reverse", "restore"}
  \/ outcome[r] = "ok"
  => (code[r] # kStatusOk => result[r] = "nan" /\ scalar[r] = "nan")

\* A rank past the library calls has its solution, unless some rank failed;
\* and its share or the whole of the reduced value, likewise.
SomeFailed == \E q \in Ranks : code[q] # kStatusOk
SolvedInv == \A r \in Ranks :
  /\ pc[r] \in Solved \/ (pc[r] = "extract" /\ FirstCall = LastCall) =>
       result[r] = "solution" \/ SomeFailed
  /\ pc[r] = "reduce" => scalar[r] = "share" \/ code[r] # kStatusOk
  /\ pc[r] \in {"close", "agree_closed"} /\ Reduces =>
       scalar[r] = "complete" \/ SomeFailed

\* A settled success is the success of all: every rank is settled, none has
\* failed, and all hold the whole result.
Succeeded(r) == pc[r] \in Late /\ outcome[r] # "error" /\ code[r] = kStatusOk
VerdictInv == \A r, q \in Ranks : Succeeded(r) =>
  /\ pc[q] \in Late
  /\ code[q] = kStatusOk
  /\ result[q] = "solution"
  /\ Reduces => scalar[q] = "complete"

IInv == /\ TypeOK /\ OutcomeInv /\ CodeInv /\ HeldInv /\ NanInv
        /\ SolvedInv /\ VerdictInv /\ ReductionJoinedByAll

USE DEF kStatusOk, kCreateHandleFailed, kCreateGridFailed,
        kDestroyMatrixDescFailed, kDestroyGridFailed, kDestroyHandleFailed,
        kDeviceAllocFailed, kPotrfInfoNonzero, kPotrsInfoNonzero,
        kSyevdInfoNonzero, kGetrfInfoNonzero, kGetrsInfoNonzero,
        kGesvdInfoNonzero, kGesvdDescriptorQueryFailed, kPolarInfoNonzero,
        kGelsInfoNonzero, kGeqrfInfoNonzero, kQrExtractFailed,
        kOrgqrInfoNonzero, kFactorExtractFailed, kPivotGatherFailed,
        Codes, Stages, Collectives, LibraryCalls, Resources, Goto

-----------------------------------------------------------------------------
(***************************************************************************)
(* The table of routines.                                                  *)
(***************************************************************************)

\* A routine's calls are library calls.
LEMMA ProgramCalls ==
  ASSUME routine \in Routines
  PROVE  FirstCall \in LibraryCalls /\ LastCall \in LibraryCalls
  <1> DEFINE Calls(p) == p.first \in LibraryCalls /\ p.last \in LibraryCalls
  <1>1. /\ Calls(Potrf) /\ Calls(Potrs) /\ Calls(PotrsLogdet) /\ Calls(Getrf)
        /\ Calls(LuSolve) /\ Calls(Qr)
    BY DEF Routine, Potrf, Potrs, PotrsLogdet, Getrf, LuSolve, Qr
  <1>2. /\ Calls(Syevd) /\ Calls(SyevdValues) /\ Calls(Gesvd)
        /\ Calls(GesvdValues) /\ Calls(Polar) /\ Calls(Gels)
    BY DEF Routine, Syevd, SyevdValues, Gesvd, GesvdValues, Polar, Gels
  <1>3. routine \in DOMAIN Program BY RoutinesAssumption
  <1>4. Calls(Program[routine]) BY <1>1, <1>2, <1>3 DEF Program
  <1> QED BY <1>4 DEF FirstCall, LastCall

\* Every library call has a code of its own for its failure.
LEMMA CallFailureCodes ==
  ASSUME NEW call \in LibraryCalls
  PROVE  InfoNonzero(call) \in Codes \ {kStatusOk}
  BY DEF InfoNonzero

\* So has the step after it.
LEMMA ExtractFailureCode == ExtractFailed \in Codes \ {kStatusOk}
  BY DEF ExtractFailed

-----------------------------------------------------------------------------
(***************************************************************************)
(* The type invariant.                                                     *)
(***************************************************************************)

\* It holds when the handler is entered.
LEMMA TypeInit == Init => TypeOK
  BY RoutinesAssumption DEF Init, TypeOK

\* A step of one rank preserves it: its successors are stages, its codes codes.
LEMMA TypeLocal ==
  ASSUME TypeOK, NEW r \in Ranks, Local(r)
  PROVE  TypeOK'
  <1>1. CASE Allocate(r) BY <1>1 DEF Allocate, TypeOK
  <1>2. CASE AllocateFails(r) BY <1>2 DEF AllocateFails, TypeOK
  <1>3. CASE CudaError(r) BY <1>3 DEF CudaError, Return, TypeOK
  <1>4. CASE Initialize(r) BY <1>4 DEF Initialize, TypeOK
  <1>5. CASE InitializeFails(r) BY <1>5 DEF InitializeFails, TypeOK
  <1>6. CASE Prepare(r) BY <1>6, ProgramCalls DEF Prepare, TypeOK
  <1>7. CASE PrepareFails(r) BY <1>7 DEF PrepareFails, TypeOK
  <1>8. CASE DestroyDescriptors(r)
    BY <1>8 DEF DestroyDescriptors, Record, AfterSolver, TypeOK
  <1>9. CASE Contribute(r) BY <1>9 DEF Contribute, TypeOK
  <1>10. CASE GatherFails(r) BY <1>10 DEF GatherFails, TypeOK
  <1>11. CASE LogdetFails(r) BY <1>11 DEF LogdetFails, Return, TypeOK
  <1>12. CASE Close(r)
    BY <1>12 DEF Close, CloseErrors, Record, AfterClose, TypeOK
  <1>13. CASE Publish(r) BY <1>13 DEF Publish, AfterPublish, TypeOK
  <1>14. CASE Restore(r) BY <1>14 DEF Restore, Return, TypeOK
  <1>15. CASE Extract(r) BY <1>15, ProgramCalls DEF Extract, AfterExtract, TypeOK
  <1>16. CASE ExtractFails(r)
    BY <1>16, ExtractFailureCode DEF ExtractFails, TypeOK
  <1> QED
    BY <1>1, <1>2, <1>3, <1>4, <1>5, <1>6, <1>7, <1>8, <1>9, <1>10, <1>11,
       <1>12, <1>13, <1>14, <1>15, <1>16 DEF Local

\* An operation on the communicator preserves it.
LEMMA TypeJoint ==
  ASSUME TypeOK, Joint
  PROVE  TypeOK'
  <1>1. CASE Forward BY <1>1 DEF Forward, TypeOK
  <1>2. ASSUME NEW call \in LibraryCalls, LibraryCall(call)
        PROVE  TypeOK'
    BY <1>2, ProgramCalls, CallFailureCodes DEF LibraryCall, AfterCall, TypeOK
  <1>3. CASE AgreeSolved
    BY <1>3 DEF AgreeSolved, SynchronizeSolverStatus, Record, TypeOK
  <1>4. CASE Reduce BY <1>4 DEF Reduce, TypeOK
  <1>5. CASE AgreeClosed
    BY <1>5 DEF AgreeClosed, SynchronizeSolverStatus, Record, TypeOK
  <1>6. CASE Reverse BY <1>6 DEF Reverse, TypeOK
  <1> QED BY <1>1, <1>2, <1>3, <1>4, <1>5, <1>6 DEF Joint

\* A step of the environment preserves it.
LEMMA TypeStutter == ASSUME TypeOK, UNCHANGED vars PROVE TypeOK'
  BY DEF TypeOK, vars

\* Every variable of every behaviour has its type, for any set of ranks.
THEOREM TypeCorrect == Spec => []TypeOK
  <1>1. TypeOK /\ [Next]_vars => TypeOK'
    BY TypeLocal, TypeJoint, TypeStutter DEF Next, Terminated
  <1> QED BY TypeInit, <1>1, PTL DEF Spec

-----------------------------------------------------------------------------
(***************************************************************************)
(* Each step, the invariant.                                               *)
(***************************************************************************)
\* It holds when the handler is entered: no rank has failed or acquired anything.
LEMMA InvInit == Init => IInv
  <1> SUFFICES ASSUME Init PROVE IInv OBVIOUS
  <1>1. TypeOK BY TypeInit
  <1>2. OutcomeInv /\ CodeInv /\ HeldInv /\ NanInv
    BY DEF Init, OutcomeInv, CodeInv, HeldInv, NanInv, Late
  <1>3. SolvedInv /\ VerdictInv /\ ReductionJoinedByAll
    BY SMTT(60) DEF Init, SolvedInv, VerdictInv, ReductionJoinedByAll, Solved,
           Succeeded, Late
  <1> QED BY <1>1, <1>2, <1>3 DEF IInv

(***************************************************************************)
(* A step of one rank.  The parts that speak of one rank follow from its   *)
(* own stage; a peer's settled success (VerdictInv) rules the step out or  *)
(* leaves its conclusion alone.                                            *)
(***************************************************************************)
LEMMA InvLocal ==
  ASSUME IInv, TypeOK', NEW r \in Ranks, Local(r)
  PROVE  IInv'
  <1> USE DEF IInv, OutcomeInv, CodeInv, HeldInv, NanInv, SolvedInv, VerdictInv,
              ReductionJoinedByAll, Solved, Succeeded, Late, SomeFailed, Reduces,
              FirstCall, LastCall, TypeOK
  <1>1. CASE Allocate(r) BY <1>1 DEF Allocate
  <1>2. CASE AllocateFails(r) BY <1>2 DEF AllocateFails
  <1>3. CASE CudaError(r) BY <1>3 DEF CudaError, Return
  <1>4. CASE Initialize(r) BY <1>4 DEF Initialize
  <1>5. CASE InitializeFails(r) BY <1>5 DEF InitializeFails
  <1>6. CASE Prepare(r) BY <1>6, ProgramCalls DEF Prepare
  <1>7. CASE PrepareFails(r) BY <1>7 DEF PrepareFails
  <1>8. CASE DestroyDescriptors(r) BY <1>8 DEF DestroyDescriptors, Record, AfterSolver
  <1>9. CASE Contribute(r) BY <1>9 DEF Contribute
  <1>10. CASE GatherFails(r) BY <1>10 DEF GatherFails
  <1>11. CASE LogdetFails(r) BY <1>11 DEF LogdetFails, Return
  <1>12. CASE Close(r) BY <1>12 DEF Close, CloseErrors, Record, AfterClose
  <1>13. CASE Publish(r) BY <1>13 DEF Publish, AfterPublish
  <1>14. CASE Restore(r) BY <1>14 DEF Restore, Return
  <1>15. CASE Extract(r) BY <1>15, ProgramCalls DEF Extract, AfterExtract
  <1>16. CASE ExtractFails(r) BY <1>16, ExtractFailureCode DEF ExtractFails
  <1> QED
    BY <1>1, <1>2, <1>3, <1>4, <1>5, <1>6, <1>7, <1>8, <1>9, <1>10, <1>11,
       <1>12, <1>13, <1>14, <1>15, <1>16 DEF Local

(***************************************************************************)
(* An operation on the communicator.  An agreement on success means no     *)
(* rank has failed, because no code exceeds the worst one.                 *)
(***************************************************************************)
LEMMA InvJoint ==
  ASSUME IInv, TypeOK', Joint
  PROVE  IInv'
  <1> USE DEF IInv, OutcomeInv, CodeInv, HeldInv, NanInv, SolvedInv, VerdictInv,
              ReductionJoinedByAll, Solved, Succeeded, Late, SomeFailed, Reduces,
              FirstCall, LastCall, TypeOK
  <1>1. CASE Forward BY <1>1 DEF Forward
  <1>2. ASSUME NEW call \in LibraryCalls, LibraryCall(call)
        PROVE  IInv'
    BY <1>2, ProgramCalls, CallFailureCodes DEF LibraryCall, AfterCall
  <1>3. CASE AgreeSolved
    BY <1>3 DEF AgreeSolved, SynchronizeSolverStatus, IsWorst, Record
  <1>4. CASE Reduce BY <1>4 DEF Reduce
  <1>5. CASE AgreeClosed
    BY <1>5 DEF AgreeClosed, SynchronizeSolverStatus, IsWorst, Record
  <1>6. CASE Reverse BY <1>6 DEF Reverse
  <1> QED BY <1>1, <1>2, <1>3, <1>4, <1>5, <1>6 DEF Joint

\* A step of the environment changes none of it.
LEMMA InvStutter == ASSUME IInv, UNCHANGED vars PROVE IInv'
  BY DEF vars, IInv, TypeOK, OutcomeInv, CodeInv, HeldInv, NanInv, SolvedInv,
         SomeFailed, VerdictInv, Succeeded, Reduces, FirstCall, LastCall,
         ReductionJoinedByAll

\* Every step preserves the invariant.
LEMMA InvNext == ASSUME IInv, [Next]_vars PROVE IInv'
  <1>1. TypeOK' BY TypeLocal, TypeJoint, TypeStutter DEF IInv, Next, Terminated
  <1> QED BY <1>1, InvLocal, InvJoint, InvStutter DEF Next, Terminated

\* The invariant holds throughout every behaviour.
LEMMA Invariance == Spec => []IInv
  BY InvInit, InvNext, PTL DEF Spec

-----------------------------------------------------------------------------
\* Whatever the ranks, the routine and the faults, ranks that publish agree on
\* success: a settled success is everyone's.
THEOREM VerdictIsShared == Spec => []SameVerdict
  <1>1. IInv => SameVerdict
    BY DEF IInv, VerdictInv, Succeeded, SameVerdict, Decided, Late
  <1> QED BY <1>1, Invariance, PTL

\* A success returned by a rank stands for the whole solution, and for a log
\* determinant or pivots to which every rank contributed.
THEOREM SuccessStandsForAll == Spec => []SuccessIsGenuine
  <1>1. IInv => SuccessIsGenuine
    BY DEF IInv, TypeOK, OutcomeInv, VerdictInv, Succeeded, SuccessIsGenuine, Late
  <1> QED BY <1>1, Invariance, PTL

\* A rank never returns numbers with a failed status.
THEOREM FailureLeavesNan == Spec => []FailureInvalidatesResults
  <1>1. IInv => FailureInvalidatesResults
    BY DEF IInv, NanInv, FailureInvalidatesResults
  <1> QED BY <1>1, Invariance, PTL

\* The first agreement makes the ranks branch together.
THEOREM ReductionIsJoint == Spec => []ReductionJoinedByAll
  <1>1. IInv => ReductionJoinedByAll BY DEF IInv
  <1> QED BY <1>1, Invariance, PTL

\* Whatever fails, what a rank acquired is released, the scratch excepted
\* when freeing it is what failed; the runtime before the last agreement.
THEOREM NothingIsLeaked == Spec => []ReleasedOnReturn
  <1>1. IInv => ReleasedOnReturn
    BY DEF IInv, HeldInv, ReleasedOnReturn, Late
  <1> QED BY <1>1, Invariance, PTL

\* A rank's first failure is the one it reports.
THEOREM FirstFailureIsKept == Spec => OwnCodeKept
  <1> DEFINE Kept == \A r \in Ranks : code[r] # kStatusOk => code'[r] = code[r]
  <1>1. ASSUME IInv, NEW r \in Ranks, Local(r) PROVE Kept
    BY <1>1 DEF IInv, TypeOK, CodeInv, Local, Allocate, AllocateFails, CudaError,
       Initialize, InitializeFails, Prepare, PrepareFails, DestroyDescriptors,
       Contribute, GatherFails, LogdetFails, Close, Publish, Restore, Extract,
       ExtractFails, Record
  <1>2. ASSUME IInv, Joint PROVE Kept
    BY <1>2 DEF IInv, TypeOK, CodeInv, Joint, Forward, LibraryCall, AgreeSolved,
       Reduce, AgreeClosed, Reverse, SynchronizeSolverStatus, Record
  <1>3. ASSUME UNCHANGED vars PROVE Kept BY <1>3 DEF vars
  <1>4. IInv /\ [Next]_vars => [Kept]_vars
    BY <1>1, <1>2, <1>3 DEF Next, Terminated
  <1> QED BY <1>4, Invariance, PTL DEF Spec, OwnCodeKept

(***************************************************************************)
(* FusedSolve implements CollectiveSolve, for any non-empty set of ranks,  *)
(* any routines and any faults.  Steps fall into three kinds: those that   *)
(* return nothing (they settle the verdict or stutter), those that return  *)
(* an error (GiveUp), and the return of an answer (Answer).                *)
(***************************************************************************)
Answers == [r \in Ranks |-> AnswerOf(r)]

\* No rank returns in a step, and what the returned ones hold is theirs.
NoneReturns ==
  /\ outcome' = outcome
  /\ routine' = routine
  /\ \A q \in Ranks : outcome[q] # "running" =>
       code'[q] = code[q] /\ result'[q] = result[q] /\ scalar'[q] = scalar[q]

\* What settles the verdict, for a state in which not all ranks gave up.
IsSolved == /\ ~SomeFailed
            /\ \E r \in Ranks : pc[r] \in Late /\ outcome[r] # "error"
AllGaveUp == \A r \in Ranks : outcome[r] = "error"

-----------------------------------------------------------------------------
\* The verdict, case by case.
LEMMA VerdictCases ==
  /\ SomeFailed \/ AllGaveUp => Verdict = "failed"
  /\ ~SomeFailed /\ ~AllGaveUp /\ IsSolved => Verdict = "solved"
  /\ ~SomeFailed /\ ~AllGaveUp /\ ~IsSolved => Verdict = "open"
  BY DEF Verdict, SomeFailed, AllGaveUp, IsSolved, Settled, Late

\* So in the next state.
LEMMA VerdictCasesNext ==
  /\ SomeFailed' \/ AllGaveUp' => Verdict' = "failed"
  /\ ~SomeFailed' /\ ~AllGaveUp' /\ IsSolved' => Verdict' = "solved"
  /\ ~SomeFailed' /\ ~AllGaveUp' /\ ~IsSolved' => Verdict' = "open"
  BY DEF Verdict, SomeFailed, AllGaveUp, IsSolved, Settled, Late

\* A rank's answer stays what it is while its outcome does.
LEMMA AnswersStay ==
  ASSUME NoneReturns
  PROVE  Answers' = Answers
  <1>1. ASSUME NEW r \in Ranks PROVE AnswerOf(r)' = AnswerOf(r)
    BY DEF NoneReturns, AnswerOf, HoldsSolution, HoldsFailure, Reduces, kStatusOk
  <1> QED BY <1>1 DEF Answers

\* A success leaves no rank with a failure and none before the last agreement.
LEMMA SolvedMeans ==
  ASSUME IInv, IsSolved
  PROVE  \A q \in Ranks : pc[q] \in Late /\ code[q] = kStatusOk
  BY DEF IInv, IsSolved, SomeFailed, VerdictInv, Succeeded

-----------------------------------------------------------------------------
(***************************************************************************)
(* The step shapes of CollectiveSolve.                                     *)
(***************************************************************************)
Abstractly == [Call!Next]_(Call!cvars)

\* A step in which no rank returns either leaves the verdict, or settles it
\* from "open", for success only with every rank still pending.
LEMMA QuietStep ==
  ASSUME NoneReturns,
         \/ Verdict' = Verdict
         \/ Verdict = "open" /\ Verdict' = "failed"
         \/ /\ Verdict = "open" /\ Verdict' = "solved"
            /\ \A r \in Ranks : outcome[r] = "running"
  PROVE  Abstractly
  <1>1. Answers' = Answers BY AnswersStay
  <1>2. (\A r \in Ranks : outcome[r] = "running") =>
          \A r \in Ranks : Answers[r] = "pending"
    BY DEF Answers, AnswerOf
  <1> QED
    BY <1>1, <1>2 DEF Abstractly, Answers, Call!Next, Call!cvars, Call!Succeed, Call!Fail

\* A rank that leaves with an error gives up.
LEMMA ErrorStep ==
  ASSUME TypeOK, NEW r \in Ranks, outcome[r] = "running",
         outcome' = [outcome EXCEPT ![r] = "error"],
         UNCHANGED <<routine, code, result, scalar>>,
         Verdict' = IF AllGaveUp' THEN "failed" ELSE Verdict
  PROVE  Abstractly
  <1> DEFINE A == Answers
  <1>1. A' = [A EXCEPT ![r] = "error"]
    BY DEF Answers, AnswerOf, HoldsSolution, HoldsFailure, Reduces, TypeOK, kStatusOk
  <1>2. A[r] = "pending" BY DEF Answers, AnswerOf
  <1>3. AllGaveUp' <=> \A q \in Ranks : A'[q] = "error"
    BY DEF Answers, AnswerOf, AllGaveUp
  <1>4. Call!GiveUp(r) BY <1>1, <1>2, <1>3 DEF Answers, Call!GiveUp
  <1> QED BY <1>4 DEF Abstractly, Call!Next

\* A rank that returns what it holds answers with the verdict.
LEMMA AnswerStep ==
  ASSUME TypeOK, NEW r \in Ranks, outcome[r] = "running",
         outcome' = [outcome EXCEPT ![r] = "ok"],
         UNCHANGED <<routine, code, result, scalar>>,
         Verdict' = Verdict,
         \/ Verdict = "solved" /\ HoldsSolution(r)
         \/ Verdict = "failed" /\ HoldsFailure(r)
  PROVE  Abstractly
  <1> DEFINE A == Answers
  <1>1. A' = [A EXCEPT ![r] = Verdict]
    BY DEF Answers, AnswerOf, HoldsSolution, HoldsFailure, Reduces, TypeOK, kStatusOk
  <1>2. A[r] = "pending" BY DEF Answers, AnswerOf
  <1>3. Call!Answer(r) BY <1>1, <1>2 DEF Answers, Call!Answer
  <1> QED BY <1>3 DEF Abstractly, Call!Next

-----------------------------------------------------------------------------
(***************************************************************************)
(* The steps of the call, one kind after another.                          *)
(***************************************************************************)
\* A rank that moves on, possibly recording a failure, before publication.
LEMMA EarlyStep ==
  ASSUME IInv, NEW r \in Ranks, pc[r] \notin Late,
         pc' \in [Ranks -> Stages],
         \A q \in Ranks \ {r} : pc'[q] = pc[q] /\ code'[q] = code[q],
         pc'[r] \in Late => code'[r] # kStatusOk,
         code[r] # kStatusOk => code'[r] # kStatusOk,
         UNCHANGED <<routine, outcome, result>>,
         \A q \in Ranks \ {r} : scalar'[q] = scalar[q]
  PROVE  Abstractly
  <1>1. ~IsSolved BY SolvedMeans
  <1>2. outcome[r] = "running" BY DEF IInv, OutcomeInv, Late
  <1>3. NoneReturns BY <1>2 DEF NoneReturns
  <1>4. ~AllGaveUp /\ ~AllGaveUp' BY <1>2 DEF AllGaveUp
  <1>5. SomeFailed => SomeFailed' BY DEF SomeFailed
  <1>6. ~SomeFailed' => ~IsSolved'
    <2> SUFFICES ASSUME ~SomeFailed', IsSolved' PROVE FALSE OBVIOUS
    <2>1. PICK q \in Ranks : pc'[q] \in Late /\ outcome[q] # "error"
      BY DEF IsSolved
    <2>2. q # r BY <2>1 DEF SomeFailed
    <2>3. pc[q] \in Late BY <2>1, <2>2
    <2>4. ~SomeFailed BY <1>5
    <2> QED BY <2>1, <2>3, <2>4, <1>1 DEF IsSolved
  <1>7. \/ Verdict' = Verdict
        \/ Verdict = "open" /\ Verdict' = "failed"
    BY <1>1, <1>4, <1>5, <1>6, VerdictCases, VerdictCasesNext
  <1> QED BY <1>3, <1>7, QuietStep

\* A handler that leaves with an error.
LEMMA ErrorReturn ==
  ASSUME IInv, NEW r \in Ranks, pc[r] # "returned",
         pc' = [pc EXCEPT ![r] = "returned"],
         outcome' = [outcome EXCEPT ![r] = "error"],
         UNCHANGED <<routine, code, result, scalar>>
  PROVE  Abstractly
  <1>1. TypeOK /\ outcome[r] = "running" BY DEF IInv, OutcomeInv
  <1>2. SomeFailed' <=> SomeFailed BY DEF SomeFailed
  <1>3. ~AllGaveUp BY <1>1 DEF AllGaveUp
  <1>4. ~AllGaveUp' => (IsSolved' <=> IsSolved)
    <2>1. ASSUME IsSolved, ~AllGaveUp' PROVE IsSolved'
      <3>1. PICK q \in Ranks : outcome'[q] # "error" BY <2>1 DEF AllGaveUp
      <3>2. pc'[q] \in Late BY <2>1, <1>1, SolvedMeans DEF TypeOK, Late
      <3> QED BY <2>1, <3>1, <3>2, <1>2 DEF IsSolved
    <2>2. ASSUME IsSolved' PROVE IsSolved
      BY <2>2, <1>1, <1>2 DEF IsSolved, TypeOK
    <2> QED BY <2>1, <2>2
  <1>5. Verdict' = IF AllGaveUp' THEN "failed" ELSE Verdict
    BY <1>2, <1>3, <1>4, VerdictCases, VerdictCasesNext
  <1> QED BY <1>1, <1>5, ErrorStep

\* A rank that publishes, and what it holds then.
LEMMA PublishStep ==
  ASSUME IInv, NEW r \in Ranks, Publish(r)
  PROVE  Abstractly
  <1> USE DEF Publish, AfterPublish, Goto
  <1>1. TypeOK /\ outcome[r] = "running" BY DEF IInv, OutcomeInv
  <1>2. NoneReturns BY <1>1 DEF NoneReturns, TypeOK
  <1>3. SomeFailed' <=> SomeFailed BY DEF SomeFailed
  <1>4. AllGaveUp' <=> AllGaveUp BY DEF AllGaveUp
  <1>5. \A q \in Ranks : pc'[q] \in Late <=> pc[q] \in Late
    BY <1>1 DEF TypeOK, Late
  <1>6. IsSolved' <=> IsSolved BY <1>3, <1>5 DEF IsSolved
  <1>7. Verdict' = Verdict
    BY <1>3, <1>4, <1>6, VerdictCases, VerdictCasesNext
  <1> QED BY <1>2, <1>7, QuietStep

\* A handler that succeeds: with the invariant, it holds the verdict.
LEMMA RestoreStep ==
  ASSUME IInv, NEW r \in Ranks, Restore(r)
  PROVE  Abstractly
  <1> USE DEF Restore, Return, Goto
  <1>1. TypeOK /\ outcome[r] = "running" BY DEF IInv, OutcomeInv
  <1>2. CASE outcome' = [outcome EXCEPT ![r] = "error"]
    BY <1>2, ErrorReturn
  <1>3. CASE outcome' = [outcome EXCEPT ![r] = "ok"]
    <2>1. SomeFailed' <=> SomeFailed BY DEF SomeFailed
    <2>2. ~AllGaveUp /\ ~AllGaveUp' BY <1>1, <1>3 DEF AllGaveUp, TypeOK
    <2>3. CASE code[r] = kStatusOk
      <3>1. /\ ~SomeFailed /\ HoldsSolution(r)
        BY <2>3, <1>1 DEF IInv, VerdictInv, Succeeded, Late, SomeFailed, HoldsSolution
      <3>2. IsSolved /\ IsSolved'
        BY <3>1, <2>1, <1>1, <1>3 DEF IsSolved, Late, TypeOK
      <3> QED
        BY <1>1, <1>3, <2>1, <2>2, <3>1, <3>2, VerdictCases, VerdictCasesNext, AnswerStep
    <2>4. CASE code[r] # kStatusOk
      <3>1. SomeFailed /\ HoldsFailure(r)
        BY <2>4 DEF SomeFailed, IInv, NanInv, HoldsFailure
      <3> QED
        BY <1>1, <1>3, <2>1, <3>1, VerdictCases, VerdictCasesNext, AnswerStep
    <2> QED BY <2>3, <2>4
  <1> QED BY <1>2, <1>3

\* A step of one rank.
LEMMA LocalStep ==
  ASSUME IInv, IInv', NEW r \in Ranks, Local(r)
  PROVE  Abstractly
  <1>0. TypeOK /\ pc' \in [Ranks -> Stages] BY DEF IInv, TypeOK
  <1> USE DEF Late, Goto, LibraryCalls
  <1>1. CASE Allocate(r) BY <1>0, <1>1, EarlyStep DEF Allocate, TypeOK
  <1>2. CASE AllocateFails(r) BY <1>2, ErrorReturn DEF AllocateFails
  <1>3. CASE CudaError(r) BY <1>3, ErrorReturn DEF CudaError, Return
  <1>4. CASE Initialize(r) BY <1>0, <1>4, EarlyStep DEF Initialize, TypeOK
  <1>5. CASE InitializeFails(r)
    BY <1>0, <1>5, EarlyStep
    DEF InitializeFails, TypeOK, kCreateHandleFailed, kCreateGridFailed, kStatusOk
  <1>6. CASE Prepare(r) BY <1>0, <1>6, ProgramCalls, EarlyStep DEF Prepare, TypeOK
  <1>7. CASE PrepareFails(r)
    BY <1>0, <1>7, EarlyStep DEF PrepareFails, TypeOK, kDeviceAllocFailed, kStatusOk
  <1>8. CASE DestroyDescriptors(r)
    BY <1>0, <1>8, EarlyStep DEF DestroyDescriptors, AfterSolver, Record, TypeOK,
       kDestroyMatrixDescFailed, kStatusOk
  <1>9. CASE Contribute(r) BY <1>0, <1>9, EarlyStep DEF Contribute, TypeOK
  <1>10. CASE GatherFails(r)
    BY <1>0, <1>10, EarlyStep DEF GatherFails, TypeOK, kPivotGatherFailed, kStatusOk
  <1>11. CASE LogdetFails(r) BY <1>11, ErrorReturn DEF LogdetFails, Return
  <1>12. CASE Close(r)
    <2>1. code[r] # kStatusOk => code'[r] # kStatusOk
      BY <1>0, <1>12 DEF Close, Record, TypeOK
    <2>2. pc'[r] \in Late => code'[r] # kStatusOk
      BY <1>0, <1>12, <2>1 DEF Close, AfterClose, IInv, CodeInv, TypeOK
    <2> QED BY <1>0, <1>12, <2>1, <2>2, EarlyStep DEF Close, TypeOK
  <1>13. CASE Publish(r) BY <1>13, PublishStep
  <1>14. CASE Restore(r) BY <1>14, RestoreStep
  <1>15. CASE Extract(r)
    BY <1>0, <1>15, ProgramCalls, EarlyStep DEF Extract, AfterExtract, TypeOK
  <1>16. CASE ExtractFails(r)
    BY <1>0, <1>16, ExtractFailureCode, EarlyStep DEF ExtractFails, TypeOK
  <1> QED
    BY <1>1, <1>2, <1>3, <1>4, <1>5, <1>6, <1>7, <1>8, <1>9, <1>10, <1>11,
       <1>12, <1>13, <1>14, <1>15, <1>16 DEF Local

-----------------------------------------------------------------------------
\* An operation on the communicator before the last agreement: every rank is
\* in the call, and nobody returns.
LEMMA JointEarly ==
  ASSUME IInv, \A r \in Ranks : pc[r] \notin Late,
         UNCHANGED <<routine, outcome>>,
         SomeFailed => SomeFailed'
  PROVE  Abstractly
  <1>1. \A r \in Ranks : outcome[r] = "running" BY DEF IInv, OutcomeInv, Late
  <1>2. NoneReturns BY <1>1 DEF NoneReturns
  <1>3. ~AllGaveUp /\ ~AllGaveUp' BY <1>1, RanksAssumption DEF AllGaveUp
  <1>4. ~IsSolved BY DEF IsSolved
  <1> QED BY <1>1, <1>2, <1>3, <1>4, VerdictCases, VerdictCasesNext, QuietStep

\* Any operation on the communicator.
LEMMA JointStep ==
  ASSUME IInv, Joint
  PROVE  Abstractly
  <1>0. TypeOK BY DEF IInv
  <1> USE DEF Late, LibraryCalls
  <1>1. CASE Forward BY <1>1, JointEarly DEF Forward, SomeFailed
  <1>2. ASSUME NEW call \in LibraryCalls, LibraryCall(call)
        PROVE  Abstractly
    <2>1. SomeFailed => SomeFailed'
      BY <1>0, <1>2, CallFailureCodes DEF LibraryCall, SomeFailed, TypeOK
    <2> QED BY <1>2, <2>1, JointEarly DEF LibraryCall
  <1>3. CASE AgreeSolved
    <2>1. SomeFailed => SomeFailed'
      BY <1>0, <1>3 DEF AgreeSolved, SynchronizeSolverStatus, Record, SomeFailed
    <2> QED BY <1>3, <2>1, JointEarly DEF AgreeSolved
  <1>4. CASE Reduce BY <1>4, JointEarly DEF Reduce, SomeFailed
  <1>5. CASE AgreeClosed
    <2>1. SomeFailed => SomeFailed'
      BY <1>0, <1>5 DEF AgreeClosed, SynchronizeSolverStatus, Record, SomeFailed
    <2> QED BY <1>5, <2>1, JointEarly DEF AgreeClosed
  <1>6. CASE Reverse
    <2>1. \A r \in Ranks : outcome[r] = "running" BY <1>6 DEF Reverse, IInv, OutcomeInv
    <2>2. NoneReturns BY <1>6, <2>1 DEF NoneReturns, Reverse
    <2>3. /\ SomeFailed' <=> SomeFailed
          /\ AllGaveUp' <=> AllGaveUp
          /\ IsSolved' <=> IsSolved
      BY <1>6 DEF Reverse, SomeFailed, AllGaveUp, IsSolved
    <2>4. Verdict' = Verdict BY <2>3, VerdictCases, VerdictCasesNext
    <2> QED BY <2>2, <2>4, QuietStep
  <1> QED BY <1>1, <1>2, <1>3, <1>4, <1>5, <1>6 DEF Joint

-----------------------------------------------------------------------------
\* Every behaviour of the detailed call is one of the abstract call: the ranks
\* are given one verdict, and success only when it is everyone's.
THEOREM CallImplemented == Spec => ImplementsCollectiveSolve
  <1>1. Init => Call!Init
    <2> SUFFICES ASSUME Init PROVE Call!Init OBVIOUS
    <2>1. ~SomeFailed /\ ~AllGaveUp /\ ~IsSolved
      BY RanksAssumption DEF Init, SomeFailed, AllGaveUp, IsSolved, Late
    <2>2. \A r \in Ranks : AnswerOf(r) = "pending" BY DEF Init, AnswerOf
    <2> QED BY <2>1, <2>2, VerdictCases DEF Call!Init
  <1>2. ASSUME IInv, IInv', [Next]_vars PROVE Abstractly
    <2>1. CASE UNCHANGED vars
      BY <2>1 DEF vars, Abstractly, Call!cvars, Verdict, AnswerOf, HoldsSolution,
         HoldsFailure, Reduces
    <2> QED
      BY <1>2, <2>1, LocalStep, JointStep DEF Next, Terminated
  <1> QED BY <1>1, <1>2, Invariance, PTL
          DEF Spec, ImplementsCollectiveSolve, Call!Spec, Abstractly
=============================================================================
