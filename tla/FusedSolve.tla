----------------------------- MODULE FusedSolve -----------------------------
(***************************************************************************)
(* One fused solver call as every rank of the process grid runs it: the    *)
(* FFI dispatch (scratch, forward redistribution, solver, reverse          *)
(* redistribution) around the solver stage (runtime, descriptors,          *)
(* collective library calls, status agreement, publication).  The ranks    *)
(* run independently and meet only in the operations on XLA's borrowed     *)
(* communicator.  A rank may fail at any stage; the module says what the   *)
(* others then learn, what is released and what the results hold.          *)
(*                                                                         *)
(* The routines share this skeleton, which each cusolvermp_*.cc repeats;   *)
(* Program says where each departs from it.  Checks on attributes that are *)
(* the same on every rank (shapes, dtypes, n <= 0) are assumed to have     *)
(* passed.                                                                 *)
(***************************************************************************)
EXTENDS Integers

CONSTANTS
  Ranks,      \* the ranks of the communicator
  Routines,   \* the routines a behaviour may call
  Faults      \* the points at which a rank may fail

(***************************************************************************)
(* CusolverMpStatusCode: one code for each way of failing told apart.      *)
(* kCreateHandleFailed stands for every failure before there is a handle,  *)
(* kCreateGridFailed for those between handle and grid, kDeviceAllocFailed *)
(* for every failure before the first library call, a routine's            *)
(* InfoNonzero for its Failed as well.                                     *)
(***************************************************************************)
kStatusOk == 0
kCreateHandleFailed == 10
kCreateGridFailed == 12
kDestroyMatrixDescFailed == 14
kDestroyGridFailed == 15
kDestroyHandleFailed == 16
kDeviceAllocFailed == 24
kPotrfInfoNonzero == 27
kPotrsInfoNonzero == 29
kSyevdInfoNonzero == 35
kGetrfInfoNonzero == 39
kGetrsInfoNonzero == 41
kGesvdInfoNonzero == 46
kGesvdDescriptorQueryFailed == 48
kPolarInfoNonzero == 51
kGelsInfoNonzero == 54
kGeqrfInfoNonzero == 57
kQrExtractFailed == 58
kOrgqrInfoNonzero == 61
kFactorExtractFailed == 62
kPivotGatherFailed == 63

Codes == {kStatusOk, kCreateHandleFailed, kCreateGridFailed,
          kDestroyMatrixDescFailed, kDestroyGridFailed, kDestroyHandleFailed,
          kDeviceAllocFailed, kPotrfInfoNonzero, kPotrsInfoNonzero,
          kSyevdInfoNonzero, kGetrfInfoNonzero, kGetrsInfoNonzero,
          kGesvdInfoNonzero, kGesvdDescriptorQueryFailed, kPolarInfoNonzero,
          kGelsInfoNonzero, kGeqrfInfoNonzero, kQrExtractFailed,
          kOrgqrInfoNonzero, kFactorExtractFailed, kPivotGatherFailed}

(***************************************************************************)
(* Where a rank may fail.  A first library call is one that another        *)
(* follows; "extract_between" comes between two of them, "extract" after   *)
(* the last.                                                               *)
(***************************************************************************)
FaultPoints == {"scratch", "initialize", "prepare", "first_call", "last_call",
                "extract_between", "extract", "destroy", "gather", "logdet",
                "close", "cuda", "free"}

Resources == {"scratch", "handle", "grid", "descriptors"}

(***************************************************************************)
(* Operations on the communicator: none completes before every rank has    *)
(* reached it.  The library calls are collective over the grid.            *)
(***************************************************************************)
LibraryCalls == {"potrf", "potrs", "getrf", "getrs", "geqrf", "orgqr", "syevd",
                 "gesvd", "polar", "gels"}
Collectives == {"forward", "agree_solved", "reduce", "agree_closed", "reverse"}
                 \cup LibraryCalls
Stages == {"allocate", "initialize", "abandon", "prepare", "extract",
           "destroy", "contribute", "close", "publish", "restore",
           "returned"}
            \cup Collectives

(***************************************************************************)
(* The routines: the library calls in order (first = last if there is only *)
(* one); whether a local step follows the first call and may fail (the     *)
(* zeroing of the upper triangle, the copy of R, the query of the SVD      *)
(* descriptor); whether the ranks agree and reduce a value before closing; *)
(* whether a matrix result is redistributed back; whether a descriptor     *)
(* that cannot be destroyed is reported.                                   *)
(***************************************************************************)
Routine(first, last) == [first |-> first, last |-> last, extracts |-> FALSE,
                         reduces |-> FALSE, reverses |-> TRUE, reports |-> TRUE]

Potrf == [Routine("potrf", "potrf") EXCEPT !.extracts = TRUE]
Potrs == Routine("potrf", "potrs")
PotrsLogdet == [Potrs EXCEPT !.reduces = TRUE]
Getrf == [Routine("getrf", "getrf") EXCEPT !.reduces = TRUE]
LuSolve == Routine("getrf", "getrs")
Qr == [Routine("geqrf", "orgqr") EXCEPT !.extracts = TRUE]
Syevd == Routine("syevd", "syevd")
SyevdValues == [Syevd EXCEPT !.reverses = FALSE]
Gesvd == [Routine("gesvd", "gesvd") EXCEPT !.extracts = TRUE]
GesvdValues == [Gesvd EXCEPT !.reverses = FALSE]
Polar == Routine("polar", "polar")
Gels == [Routine("gels", "gels") EXCEPT !.reports = FALSE]

Program ==
  [potrf |-> Potrf, potrs |-> Potrs, potrs_logdet |-> PotrsLogdet,
   getrf |-> Getrf, lu_solve |-> LuSolve, qr |-> Qr,
   syevd |-> Syevd, syevd_values |-> SyevdValues,
   gesvd |-> Gesvd, gesvd_values |-> GesvdValues,
   polar |-> Polar, least_squares |-> Gels]

ASSUME RanksAssumption == Ranks # {}
ASSUME RoutinesAssumption == Routines \subseteq DOMAIN Program
ASSUME FaultsAssumption == Faults \subseteq FaultPoints

VARIABLES
  routine,   \* the routine being called, the same on every rank
  pc,        \* the stage each rank has reached
  code,      \* status_words[0] of each rank
  held,      \* what each rank has acquired and not released
  result,    \* each rank's part of the solution or factor
  scalar,    \* each rank's log determinant or replicated pivots
  outcome    \* what the handler returned to XLA, "running" before

vars == <<routine, pc, code, held, result, scalar, outcome>>

-----------------------------------------------------------------------------
(***************************************************************************)
(* The control flow of a routine.                                          *)
(***************************************************************************)
FirstCall == Program[routine].first
LastCall == Program[routine].last
Reduces == Program[routine].reduces
Reverses == Program[routine].reverses

\* Where a rank goes when a library call succeeds, or the step after it.
AfterExtract == IF FirstCall = LastCall THEN "destroy" ELSE LastCall
AfterCall(call) ==
  IF call = FirstCall /\ Program[routine].extracts THEN "extract"
  ELSE IF call = LastCall THEN "destroy"
  ELSE LastCall

\* Mutant: the library's info itself is reported.
InfoNonzero_Raw(call) == 1

InfoNonzero(call) ==
  [potrf |-> kPotrfInfoNonzero, potrs |-> kPotrsInfoNonzero,
   getrf |-> kGetrfInfoNonzero, getrs |-> kGetrsInfoNonzero,
   geqrf |-> kGeqrfInfoNonzero, orgqr |-> kOrgqrInfoNonzero,
   syevd |-> kSyevdInfoNonzero, gesvd |-> kGesvdInfoNonzero,
   polar |-> kPolarInfoNonzero, gels |-> kGelsInfoNonzero][call]

ExtractFailed == IF routine = "potrf" THEN kFactorExtractFailed
                 ELSE IF routine = "qr" THEN kQrExtractFailed
                 ELSE kGesvdDescriptorQueryFailed

\* A failure is recorded only over a success: the first one is kept.
Record(r, c) == IF code[r] = kStatusOk THEN c ELSE code[r]

Goto(r, stage) == pc' = [pc EXCEPT ![r] = stage]

-----------------------------------------------------------------------------
Init ==
  /\ routine \in Routines
  /\ pc = [r \in Ranks |-> "allocate"]
  /\ code = [r \in Ranks |-> kStatusOk]
  /\ held = [r \in Ranks |-> {}]
  /\ result = [r \in Ranks |-> "input"]
  /\ scalar = [r \in Ranks |-> "unset"]
  /\ outcome = [r \in Ranks |-> "running"]

(***************************************************************************)
(* Leaving the handler.  return_after_cleanup frees the scratch and        *)
(* reports a failed free unless there is an earlier error to report; the   *)
(* destructors have released the rest.                                     *)
(***************************************************************************)
Return(r, status) ==
  /\ Goto(r, "returned")
  /\ \/ /\ held' = [held EXCEPT ![r] = {}]
        /\ outcome' = [outcome EXCEPT ![r] = status]
     \/ /\ "free" \in Faults
        /\ "scratch" \in held[r]
        /\ held' = [held EXCEPT ![r] = {"scratch"}]
        /\ outcome' = [outcome EXCEPT ![r] = "error"]

(***************************************************************************)
(* The dispatch allocates the redistribution scratch, copies the inputs if *)
(* XLA did not alias them and converts the local storage in place.         *)
(***************************************************************************)
Allocate(r) ==
  /\ pc[r] = "allocate"
  /\ held' = [held EXCEPT ![r] = {"scratch"}]
  /\ Goto(r, "forward")
  /\ UNCHANGED <<routine, code, result, scalar, outcome>>

AllocateFails(r) ==
  /\ "scratch" \in Faults
  /\ pc[r] = "allocate"
  /\ Goto(r, "returned")
  /\ outcome' = [outcome EXCEPT ![r] = "error"]
  /\ UNCHANGED <<routine, code, held, result, scalar>>

(***************************************************************************)
(* A CUDA or NCCL call fails where the code gives up at once: the handler  *)
(* returns an error without entering the operations that remain.           *)
(***************************************************************************)
CudaError(r) ==
  /\ "cuda" \in Faults
  /\ pc[r] \notin {"allocate", "initialize", "abandon", "contribute", "close",
                   "returned"}
  /\ Return(r, "error")
  /\ UNCHANGED <<routine, code, result, scalar>>

\* Forward redistribution: every rank exchanges its shards with its peers.
Forward ==
  /\ \A r \in Ranks : pc[r] = "forward"
  /\ pc' = [r \in Ranks |-> "initialize"]
  /\ UNCHANGED <<routine, code, held, result, scalar, outcome>>

(***************************************************************************)
(* CusolverMpExecution::Initialize creates the handle, then the grid.  On  *)
(* failure the routine closes what there is and publishes at once, without *)
(* any agreement with its peers.                                           *)
(***************************************************************************)
Initialize(r) ==
  /\ pc[r] = "initialize"
  /\ held' = [held EXCEPT ![r] = @ \cup {"handle", "grid"}]
  /\ Goto(r, "prepare")
  /\ UNCHANGED <<routine, code, result, scalar, outcome>>

InitializeFails(r) ==
  /\ "initialize" \in Faults
  /\ pc[r] = "initialize"
  /\ \/ /\ code' = [code EXCEPT ![r] = kCreateHandleFailed]
        /\ UNCHANGED held
     \/ /\ code' = [code EXCEPT ![r] = kCreateGridFailed]
        /\ held' = [held EXCEPT ![r] = @ \cup {"handle"}]
  /\ Goto(r, "abandon")
  /\ UNCHANGED <<routine, result, scalar, outcome>>

(***************************************************************************)
(* Descriptors, workspace sizes and workspace: all local to the rank.      *)
(***************************************************************************)
Prepare(r) ==
  /\ pc[r] = "prepare"
  /\ held' = [held EXCEPT ![r] = @ \cup {"descriptors"}]
  /\ Goto(r, FirstCall)
  /\ UNCHANGED <<routine, code, result, scalar, outcome>>

PrepareFails(r) ==
  /\ "prepare" \in Faults
  /\ pc[r] = "prepare"
  /\ code' = [code EXCEPT ![r] = kDeviceAllocFailed]
  /\ held' \in {held, [held EXCEPT ![r] = @ \cup {"descriptors"}]}
  /\ Goto(r, "destroy")
  /\ UNCHANGED <<routine, result, scalar, outcome>>

(***************************************************************************)
(* A collective library call: each rank receives its own info.  A rank     *)
(* that is told of a failure makes no further library call.                *)
(***************************************************************************)
LibraryCall(call) ==
  /\ \A r \in Ranks : pc[r] = call
  /\ \E failing \in SUBSET Ranks :
       /\ \/ failing = {}
          \/ (IF call = LastCall THEN "last_call" ELSE "first_call") \in Faults
       /\ code' = [r \in Ranks |-> IF r \in failing THEN InfoNonzero(call)
                                                    ELSE code[r]]
       /\ pc' = [r \in Ranks |-> IF r \in failing THEN "destroy"
                                                  ELSE AfterCall(call)]
       /\ result' = IF failing = {} /\ call = LastCall
                    THEN [r \in Ranks |-> "solution"]
                    ELSE [r \in Ranks |-> "partial"]
  /\ UNCHANGED <<routine, held, scalar, outcome>>

(***************************************************************************)
(* The local step on what the call left.                                   *)
(***************************************************************************)
Extract(r) ==
  /\ pc[r] = "extract"
  /\ Goto(r, AfterExtract)
  /\ UNCHANGED <<routine, code, held, result, scalar, outcome>>

ExtractFails(r) ==
  /\ (IF FirstCall = LastCall THEN "extract" ELSE "extract_between") \in Faults
  /\ pc[r] = "extract"
  /\ code' = [code EXCEPT ![r] = ExtractFailed]
  /\ Goto(r, "destroy")
  /\ UNCHANGED <<routine, held, result, scalar, outcome>>

AfterSolver == IF Reduces THEN "agree_solved" ELSE "close"

\* Every way out destroys the descriptors; a failure to do so is recorded.
DestroyDescriptors(r) ==
  /\ pc[r] = "destroy"
  /\ held' = [held EXCEPT ![r] = @ \ {"descriptors"}]
  /\ \/ UNCHANGED code
     \/ /\ "destroy" \in Faults
        /\ Program[routine].reports
        /\ "descriptors" \in held[r]
        /\ code' = [code EXCEPT ![r] = Record(r, kDestroyMatrixDescFailed)]
  /\ Goto(r, AfterSolver)
  /\ UNCHANGED <<routine, result, scalar, outcome>>

(***************************************************************************)
(* SynchronizeSolverStatus: an all-reduce of the maximum.  Ranks that had  *)
(* succeeded take it over, the others keep the code they had.              *)
(***************************************************************************)
IsWorst(c) == (\E r \in Ranks : code[r] = c) /\ (\A r \in Ranks : code[r] <= c)

\* Mutant: every rank takes the maximum over.
SynchronizeSolverStatus_Overwrite ==
  \E worst \in Codes :
    /\ IsWorst(worst)
    /\ code' = [r \in Ranks |-> worst]

\* Mutant: the maximum is computed and not taken over.
SynchronizeSolverStatus_Local ==
  \E worst \in Codes :
    /\ IsWorst(worst)
    /\ code' = code

SynchronizeSolverStatus ==
  \E worst \in Codes :
    /\ IsWorst(worst)
    /\ code' = [r \in Ranks |-> Record(r, worst)]

\* The first agreement decides whether the ranks enter the reduction at all.
AgreeSolved ==
  /\ \A r \in Ranks : pc[r] = "agree_solved"
  /\ SynchronizeSolverStatus
  /\ pc' = [r \in Ranks |-> IF code'[r] = kStatusOk THEN "contribute" ELSE "close"]
  /\ UNCHANGED <<routine, held, result, scalar, outcome>>

(***************************************************************************)
(* The rank's share of the log determinant or of the pivots.  A rank whose *)
(* gather failed still joins the reduction; one whose log determinant      *)
(* failed returns an error.                                                *)
(***************************************************************************)
Contribute(r) ==
  /\ pc[r] = "contribute"
  /\ scalar' = [scalar EXCEPT ![r] = "share"]
  /\ Goto(r, "reduce")
  /\ UNCHANGED <<routine, code, held, result, outcome>>

\* Mutant: the failing rank leaves its peers in the reduction.
GatherFails_Skips(r) ==
  /\ "gather" \in Faults
  /\ routine = "getrf"
  /\ pc[r] = "contribute"
  /\ code' = [code EXCEPT ![r] = kPivotGatherFailed]
  /\ Goto(r, "close")
  /\ UNCHANGED <<routine, held, result, scalar, outcome>>

\* Mutant: the failure is not recorded.
GatherFails_Silent(r) ==
  /\ "gather" \in Faults
  /\ routine = "getrf"
  /\ pc[r] = "contribute"
  /\ Goto(r, "reduce")
  /\ UNCHANGED <<routine, code, held, result, scalar, outcome>>

GatherFails(r) ==
  /\ "gather" \in Faults
  /\ routine = "getrf"
  /\ pc[r] = "contribute"
  /\ code' = [code EXCEPT ![r] = kPivotGatherFailed]
  /\ Goto(r, "reduce")
  /\ UNCHANGED <<routine, held, result, scalar, outcome>>

LogdetFails(r) ==
  /\ "logdet" \in Faults
  /\ routine = "potrs_logdet"
  /\ pc[r] = "contribute"
  /\ Return(r, "error")
  /\ UNCHANGED <<routine, code, result, scalar>>

\* The in-place all-reduce leaves the same value on every rank.
Reduce ==
  /\ \A r \in Ranks : pc[r] = "reduce"
  /\ scalar' = [r \in Ranks |-> IF \A q \in Ranks : scalar[q] = "share"
                                THEN "complete" ELSE "partial"]
  /\ pc' = [r \in Ranks |-> "close"]
  /\ UNCHANGED <<routine, code, held, result, outcome>>

(***************************************************************************)
(* CusolverMpExecution::Close destroys the grid and the handle the rank    *)
(* has; the first failure is recorded.  A rank that failed to initialize   *)
(* then publishes; the others agree once more.                             *)
(***************************************************************************)
CloseErrors(r) ==
  {c \in {kDestroyGridFailed, kDestroyHandleFailed} :
     \/ c = kDestroyGridFailed /\ "grid" \in held[r]
     \/ c = kDestroyHandleFailed /\ "handle" \in held[r]}

\* Mutant: no agreement follows the cleanup.
AfterClose_NoAgreement(stage) == "publish"

AfterClose(stage) == IF stage = "abandon" THEN "publish" ELSE "agree_closed"

\* Mutant: only the grid is destroyed.
Close_KeepsHandle(r) ==
  /\ pc[r] \in {"abandon", "close"}
  /\ held' = [held EXCEPT ![r] = @ \ {"grid"}]
  /\ UNCHANGED code
  /\ Goto(r, AfterClose(pc[r]))
  /\ UNCHANGED <<routine, result, scalar, outcome>>

Close(r) ==
  /\ pc[r] \in {"abandon", "close"}
  /\ held' = [held EXCEPT ![r] = @ \ {"grid", "handle"}]
  /\ \/ UNCHANGED code
     \/ /\ "close" \in Faults
        /\ \E c \in CloseErrors(r) :
             code' = [code EXCEPT ![r] = Record(r, c)]
  /\ Goto(r, AfterClose(pc[r]))
  /\ UNCHANGED <<routine, result, scalar, outcome>>

AgreeClosed ==
  /\ \A r \in Ranks : pc[r] = "agree_closed"
  /\ SynchronizeSolverStatus
  /\ pc' = [r \in Ranks |-> "publish"]
  /\ UNCHANGED <<routine, held, result, scalar, outcome>>

\* A values-only routine has no matrix to send back.
AfterPublish == IF Reverses THEN "reverse" ELSE "restore"

(***************************************************************************)
(* publish_status: a failed solve leaves nothing but NaN (or -1 pivots) in *)
(* the results of this rank.                                               *)
(***************************************************************************)
\* Mutant: the log determinant or the pivots stay as they are.
Publish_KeepsScalar(r) ==
  /\ pc[r] = "publish"
  /\ result' = IF code[r] = kStatusOk THEN result
               ELSE [result EXCEPT ![r] = "nan"]
  /\ Goto(r, AfterPublish)
  /\ UNCHANGED <<routine, code, held, scalar, outcome>>

Publish(r) ==
  /\ pc[r] = "publish"
  /\ IF code[r] = kStatusOk
     THEN UNCHANGED <<result, scalar>>
     ELSE /\ result' = [result EXCEPT ![r] = "nan"]
          /\ scalar' = [scalar EXCEPT ![r] = "nan"]
  /\ Goto(r, AfterPublish)
  /\ UNCHANGED <<routine, code, held, outcome>>

(***************************************************************************)
(* Reverse redistribution: every rank's result is assembled from the parts *)
(* of its peers, so it is whole only when theirs are.                      *)
(***************************************************************************)
Reverse ==
  /\ \A r \in Ranks : pc[r] = "reverse"
  /\ result' = [r \in Ranks |-> IF \A q \in Ranks : result[q] = result[r]
                                THEN result[r] ELSE "partial"]
  /\ pc' = [r \in Ranks |-> "restore"]
  /\ UNCHANGED <<routine, code, held, scalar, outcome>>

\* The row-major storage is restored and the scratch freed.
Restore(r) ==
  /\ pc[r] = "restore"
  /\ Return(r, "ok")
  /\ UNCHANGED <<routine, code, result, scalar>>

AllReturned == \A r \in Ranks : pc[r] = "returned"
Terminated == AllReturned /\ UNCHANGED vars

Local(r) ==
  \/ Allocate(r) \/ AllocateFails(r) \/ CudaError(r)
  \/ Initialize(r) \/ InitializeFails(r)
  \/ Prepare(r) \/ PrepareFails(r) \/ Extract(r)
  \/ ExtractFails(r) \/ DestroyDescriptors(r)
  \/ Contribute(r) \/ GatherFails(r) \/ LogdetFails(r)
  \/ Close(r) \/ Publish(r) \/ Restore(r)

Joint ==
  \/ Forward \/ (\E call \in LibraryCalls : LibraryCall(call))
  \/ AgreeSolved \/ Reduce \/ AgreeClosed \/ Reverse

Next == (\E r \in Ranks : Local(r)) \/ Joint \/ Terminated

Spec == Init /\ [][Next]_vars

(***************************************************************************)
(* A rank's host thread keeps running, and an operation every rank has     *)
(* reached completes.                                                      *)
(***************************************************************************)
FairSpec == Spec /\ WF_vars(Joint) /\ \A r \in Ranks : WF_vars(Local(r))

-----------------------------------------------------------------------------
\* Every variable holds a value the program can give it.
TypeOK ==
  /\ routine \in Routines
  /\ pc \in [Ranks -> Stages]
  /\ code \in [Ranks -> Codes]
  /\ held \in [Ranks -> SUBSET Resources]
  /\ result \in [Ranks -> {"input", "partial", "solution", "nan"}]
  /\ scalar \in [Ranks -> {"unset", "share", "partial", "complete", "nan"}]
  /\ outcome \in [Ranks -> {"running", "ok", "error"}]

\* A rank that has left the last agreement, or given up on reaching it.
Decided(r) == /\ pc[r] \in {"publish", "reverse", "restore", "returned"}
              /\ outcome[r] # "error"

\* Two ranks that publish a status agree on whether the solve succeeded,
\* whichever ranks failed and wherever (SynchronizeSolverStatus before
\* publish_status, and no agreement reached past a rank that skipped it).
SameVerdict ==
  \A r, q \in Ranks : Decided(r) /\ Decided(q) =>
    (code[r] = kStatusOk <=> code[q] = kStatusOk)

\* A rank that returns success holds the solution, and the log determinant or
\* pivots of all ranks: no failure of a peer, before, in or after the
\* library calls, can pass for a success.
SuccessIsGenuine ==
  \A r \in Ranks : outcome[r] = "ok" /\ code[r] = kStatusOk =>
    /\ result[r] = "solution"
    /\ Reduces => scalar[r] = "complete"

\* A rank that returns a failed status returns nothing but NaN, also after
\* the reverse redistribution has mixed the ranks' buffers.
FailureInvalidatesResults ==
  \A r \in Ranks : outcome[r] = "ok" /\ code[r] # kStatusOk =>
    result[r] = "nan" /\ scalar[r] = "nan"

\* The ranks branch together after the first agreement: a rank in the
\* reduction is never left there by a peer that went around it.
ReductionJoinedByAll ==
  \A r, q \in Ranks : pc[r] \in {"contribute", "reduce"} =>
    pc[q] \in {"contribute", "reduce"} \/ outcome[q] = "error"

\* A handler that returns success has released all it acquired; one that
\* returns an error may have leaked the scratch and nothing else.  No runtime
\* object is alive once the ranks agree on their cleanup.
ReleasedOnReturn ==
  \A r \in Ranks :
    /\ outcome[r] = "ok" => held[r] = {}
    /\ pc[r] \in {"agree_closed", "publish", "reverse", "restore", "returned"}
         => held[r] \subseteq {"scratch"}

\* The first failure a rank records is the one it reports: neither cleanup nor
\* an agreement overwrites it.
OwnCodeKept ==
  [][\A r \in Ranks : code[r] # kStatusOk => code'[r] = code[r]]_vars

\* Every rank returns, when ranks fail only where the code joins the remaining
\* operations (see the faults of the run).
Terminates == <>AllReturned

-----------------------------------------------------------------------------
(***************************************************************************)
(* The call as CollectiveSolve sees it.  The verdict is failure as soon as *)
(* a rank has recorded one, and success as soon as a rank is past the last *)
(* agreement without one.                                                  *)
(***************************************************************************)
Settled == {"publish", "reverse", "restore", "returned"}
Verdict ==
  IF (\E r \in Ranks : code[r] # kStatusOk) \/ (\A r \in Ranks : outcome[r] = "error")
  THEN "failed"
  ELSE IF \E r \in Ranks : pc[r] \in Settled /\ outcome[r] # "error"
  THEN "solved" ELSE "open"

\* What a caller can tell of a rank's outcome; "mixed" is neither a solution
\* with a successful status nor NaN with a failed one.
HoldsSolution(r) == /\ code[r] = kStatusOk
                    /\ result[r] = "solution"
                    /\ Reduces => scalar[r] = "complete"
HoldsFailure(r) == code[r] # kStatusOk /\ result[r] = "nan" /\ scalar[r] = "nan"
AnswerOf(r) == IF outcome[r] = "running" THEN "pending"
               ELSE IF outcome[r] = "error" THEN "error"
               ELSE IF HoldsSolution(r) THEN "solved"
               ELSE IF HoldsFailure(r) THEN "failed" ELSE "mixed"

Call == INSTANCE CollectiveSolve WITH
  verdict <- Verdict, answer <- [r \in Ranks |-> AnswerOf(r)]

\* Whatever fails where, the ranks see one verdict: success is settled while
\* all of them are in the call, a failure recorded by one dooms the call for
\* all, and what a rank returns, numbers and status, is that verdict.
ImplementsCollectiveSolve == Call!Spec

-----------------------------------------------------------------------------
\* _potrs.py: "If the native solver fails, the solution and ``logdet`` are
\* filled with NaN and ``status`` is non-zero."  Once a rank has a failed
\* status every rank returns one, and NaN with it.
FailureReportedEverywhere ==
  (\E r \in Ranks : code[r] # kStatusOk) ~>
    \A q \in Ranks : /\ outcome[q] = "ok"
                     /\ code[q] # kStatusOk
                     /\ result[q] = "nan"

\* cusolvermp_getrf.cc: "Local failures only set the status so every rank
\* reaches the shared status agreement below".
LocalFailureReachesAgreement ==
  \A r, q \in Ranks : code[r] = kDeviceAllocFailed ~>
    pc[q] \in {"close", "agree_closed", "publish", "reverse", "restore",
              "returned"}
=============================================================================
