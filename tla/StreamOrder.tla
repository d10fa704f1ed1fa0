---------------------------- MODULE StreamOrder ----------------------------
(***************************************************************************)
(* One rank's fused call as its host thread issues it and its device runs  *)
(* it.  The host appends commands to two streams and goes on at once; a    *)
(* stream runs its own commands in order; the two are ordered only by the  *)
(* waits RunRawNcclSendRecv and RunRawNcclAllReduceReal put around what    *)
(* they run on XLA's communication stream, and the host only by the        *)
(* synchronizations the dispatch makes.  Without a communication stream    *)
(* (what the registered handlers ask for today) everything is on the main  *)
(* stream.                                                                 *)
(*                                                                         *)
(* `log` holds every command in the order of issue.  Redistribution        *)
(* assumes that a rank's device works through that order; InProgramOrder   *)
(* says so.                                                                *)
(***************************************************************************)
EXTENDS Integers, Sequences

CONSTANTS
  CommStreams,   \* whether a communication stream may be absent or present
  MaxForward,    \* batches of the forward redistributions that concern this rank
  MaxReverse     \* batches of the reverse ones

ASSUME CommStreamsAssumption == CommStreams \subseteq BOOLEAN
ASSUME BatchesAssumption == MaxForward \in Nat /\ MaxReverse \in Nat

VARIABLES
  hasComm,   \* ChooseNcclStream found a communication stream
  at,        \* the stage the host has reached
  left,      \* batches the host has still to issue in this redistribution
  log,       \* commands issued so far
  done,      \* positions in log that have completed
  busy       \* positions that are running

vars == <<hasComm, at, left, log, done, busy>>

Streams == {"main", "comm"}
Work == {"malloc", "copy", "convert", "pack", "exchange", "unpack", "solve",
         "logdet", "allreduce", "agree", "publish", "free", "consume"}

OnMain(op) == [on |-> "main", op |-> op]
Wait(stream) == [on |-> stream, op |-> "wait"]
Commands == [on : Streams, op : Work \cup {"wait"}]

-----------------------------------------------------------------------------
(***************************************************************************)
(* What the host issues.                                                   *)
(***************************************************************************)
Issue(commands) == log' = log \o commands

\* Mutant: the exchange does not wait for the packs.
Collective_NoWaitBefore(op) ==
  IF hasComm THEN <<[on |-> "comm", op |-> op], Wait("main")>>
             ELSE <<OnMain(op)>>

\* RunRawNcclSendRecv and RunRawNcclAllReduceReal.
Collective(op) ==
  IF hasComm THEN <<Wait("comm"), [on |-> "comm", op |-> op], Wait("main")>>
             ELSE <<OnMain(op)>>

Pack   == <<OnMain("pack")>>
Unpack == <<OnMain("unpack")>>

\* The batches of both executors: a save packs; a move or restore within the
\* rank copies through scratch; otherwise a sender packs (unless the slab is
\* saved already), the group is exchanged and a receiver unpacks.
Batches ==
  {Pack, Pack \o Unpack, Unpack,
   Pack \o Collective("exchange"), Collective("exchange"),
   Collective("exchange") \o Unpack, Pack \o Collective("exchange") \o Unpack}

Idle == \A i \in DOMAIN log : log[i].on = "main" => i \in done

Init ==
  /\ hasComm \in CommStreams
  /\ at = "allocate"
  /\ left = 0
  /\ log = <<>>
  /\ done = {}
  /\ busy = {}

Go(stage) == at' = stage

\* The scratch is allocated in stream order, like everything after it.
Allocate ==
  /\ at = "allocate"
  /\ Issue(<<OnMain("malloc")>>)
  /\ Go("convert")
  /\ UNCHANGED <<hasComm, left, done, busy>>

\* CopyMatrixIfNeeded (XLA may alias the buffers), then the conversion.
Convert ==
  /\ at = "convert"
  /\ \/ Issue(<<OnMain("convert")>>)
     \/ Issue(<<OnMain("copy"), OnMain("convert")>>)
  /\ left' \in 0..MaxForward
  /\ Go("forward")
  /\ UNCHANGED <<hasComm, done, busy>>

Batch ==
  /\ at \in {"forward", "reverse"}
  /\ left > 0
  /\ \E batch \in Batches : Issue(batch)
  /\ left' = left - 1
  /\ UNCHANGED <<hasComm, at, done, busy>>

\* Mutant: the host does not wait before it calls the library.
Synchronize_Forward_NoWait ==
  /\ at = "forward"
  /\ left = 0
  /\ Go("solve")
  /\ UNCHANGED <<hasComm, left, log, done, busy>>

\* cudaStreamSynchronize on the main stream before the library is called.
Synchronize_Forward ==
  /\ at = "forward"
  /\ left = 0
  /\ Idle
  /\ Go("solve")
  /\ UNCHANGED <<hasComm, left, log, done, busy>>

\* The library calls work on the main stream; reading info synchronizes.
Solve ==
  /\ at = "solve"
  /\ Issue(<<OnMain("solve")>>)
  /\ Go("solving")
  /\ UNCHANGED <<hasComm, left, done, busy>>

\* The log determinant: the ranks agree, accumulate and reduce; every routine
\* agrees on its status once more.
ReadInfo ==
  /\ at = "solving"
  /\ Idle
  /\ \/ Issue(<<OnMain("agree")>>)
     \/ Issue(<<OnMain("agree"), OnMain("logdet")>> \o Collective("allreduce")
              \o <<OnMain("agree")>>)
  /\ Go("agreeing")
  /\ UNCHANGED <<hasComm, left, done, busy>>

\* SynchronizeSolverStatus reads the agreed status on the host; publication
\* follows.
Publish ==
  /\ at = "agreeing"
  /\ Idle
  /\ Issue(<<OnMain("publish")>>)
  /\ Go("published")
  /\ UNCHANGED <<hasComm, left, done, busy>>

Synchronize_Solved ==
  /\ at = "published"
  /\ Idle
  /\ left' \in 0..MaxReverse
  /\ Go("reverse")
  /\ UNCHANGED <<hasComm, log, done, busy>>

\* The storage is restored and the scratch freed, both in stream order; the
\* handler returns while they may still run.
Restore ==
  /\ at = "reverse"
  /\ left = 0
  /\ Issue(<<OnMain("convert"), OnMain("free")>>)
  /\ Go("returned")
  /\ UNCHANGED <<hasComm, left, done, busy>>

(***************************************************************************)
(* A call CUDA or NCCL refuses: return_after_cleanup frees the scratch on  *)
(* the main stream and the error is reported.  When the last wait of a     *)
(* collective is what was refused, the collective is left with nobody      *)
(* waiting for it.                                                         *)
(***************************************************************************)
InCall == {"convert", "forward", "solve", "solving", "agreeing", "published",
           "reverse"}

Abandoned(op) == <<Wait("comm"), [on |-> "comm", op |-> op], OnMain("free")>>

Refused ==
  /\ at \in InCall
  /\ \/ Issue(<<OnMain("free")>>)
     \/ /\ hasComm
        /\ \/ Issue(<<Wait("comm"), OnMain("free")>>)
           \/ /\ at \in {"forward", "reverse"}
              /\ left > 0
              /\ Issue(Abandoned("exchange"))
           \/ /\ at = "solving"
              /\ Idle
              /\ Issue(<<OnMain("agree"), OnMain("logdet")>> \o Abandoned("allreduce"))
  /\ Go("refused")
  /\ UNCHANGED <<hasComm, left, done, busy>>

\* XLA's next operation on the results is issued to the main stream.
Consume ==
  /\ at = "returned"
  /\ Issue(<<OnMain("consume")>>)
  /\ Go("consumed")
  /\ UNCHANGED <<hasComm, left, done, busy>>

Host ==
  \/ Allocate \/ Convert \/ Batch \/ Synchronize_Forward \/ Solve \/ ReadInfo
  \/ Publish \/ Synchronize_Solved \/ Restore \/ Refused \/ Consume

-----------------------------------------------------------------------------
(***************************************************************************)
(* What the device runs: a command starts when those before it on its      *)
(* stream are done.  A wait completes when what was on the other stream    *)
(* at the time of issue is done.  An operation takes time; a collective    *)
(* as long as its peers do.                                                *)
(***************************************************************************)
StreamReached(i) ==
  /\ i \in (DOMAIN log) \ (done \cup busy)
  /\ \A j \in 1..(i - 1) : log[j].on = log[i].on => j \in done

WaitDone(i) ==
  /\ StreamReached(i)
  /\ log[i].op = "wait"
  /\ \A j \in 1..(i - 1) : j \in done
  /\ done' = done \cup {i}
  /\ UNCHANGED <<hasComm, at, left, log, busy>>

Begin(i) ==
  /\ StreamReached(i)
  /\ log[i].op # "wait"
  /\ busy' = busy \cup {i}
  /\ UNCHANGED <<hasComm, at, left, log, done>>

\* Mutant: a command that has completed is still taken to be running.
End_StillBusy(i) ==
  /\ i \in busy
  /\ done' = done \cup {i}
  /\ UNCHANGED <<hasComm, at, left, log, busy>>

End(i) ==
  /\ i \in busy
  /\ busy' = busy \ {i}
  /\ done' = done \cup {i}
  /\ UNCHANGED <<hasComm, at, left, log>>

Device == \E i \in DOMAIN log : WaitDone(i) \/ Begin(i) \/ End(i)

AllDone == done = DOMAIN log
Terminated == at \in {"consumed", "refused"} /\ AllDone /\ UNCHANGED vars

Next == Host \/ Device \/ Terminated
Spec == Init /\ [][Next]_vars

-----------------------------------------------------------------------------
\* Every variable holds a value the program can give it.
TypeOK ==
  /\ hasComm \in BOOLEAN
  /\ at \in InCall \cup {"allocate", "returned", "refused", "consumed"}
  /\ left \in Nat
  /\ log \in Seq(Commands)
  /\ done \subseteq DOMAIN log
  /\ busy \subseteq (DOMAIN log) \ done

\* Position i is the release of scratch after an abandoned collective, and j is
\* on the stream that release does not wait for.
FreedUnder(i, j) ==
  /\ at = "refused"
  /\ i = Len(log)
  /\ log[i - 1].on = "comm"
  /\ log[j].on = "comm"

\* The two streams run the call as one: when a command runs, all issued before
\* it is done.  A pack never overwrites what is being sent, an unpack never
\* reads a slot before its payload is there, nobody reads results that are
\* still being written, and the communicator never has two operations at a
\* time.  The one exception is the release of scratch when the wait that ends a
\* collective was refused.
InProgramOrder ==
  \A i \in busy \cup done : \A j \in 1..(i - 1) : j \in done \/ FreedUnder(i, j)

\* Whenever the host relies on the device (to call the library, or to send
\* results back), nothing is left to run: synchronizing the main stream covers
\* the communication stream too.
NothingPending ==
  /\ at = "solve" => AllDone
  /\ at = "published" => \A i \in DOMAIN log : i \in done \/ log[i].op = "publish"
=============================================================================
