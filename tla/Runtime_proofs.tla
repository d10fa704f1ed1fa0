--------------------------- MODULE Runtime_proofs ---------------------------
(***************************************************************************)
(* The two components a process has before and around its calls: the order *)
(* of its device's streams, and the set-up of its backend.                 *)
(*                                                                         *)
(* StreamOrder, for every number of batches and with or without a          *)
(* communication stream.  Nothing in the waits says that a command follows *)
(* everything before it: a stream orders its own commands only.  What      *)
(* makes it so is the shape of what is issued: work on the communication   *)
(* stream always stands between a wait of that stream and a wait of the    *)
(* main one (Bracketed).                                                   *)
(*                                                                         *)
(* BackendSetup, for every number of threads and of targets and any        *)
(* faults.  What a thread may conclude at a step of _initialize is true of *)
(* the shared state no matter who brought it about, and stays true because *)
(* the shared state only grows.                                            *)
(***************************************************************************)
EXTENDS StreamOrder, BackendSetup, TLAPS

(***************************************************************************)
(* The streams of a device.                                                *)
(***************************************************************************)
IsWork(c) == c.on = "comm" /\ c.op # "wait"

\* Work on the communication stream follows a wait of that stream and is
\* followed by one of the main stream; a wait of the communication stream is
\* followed by work; the last command is on the main stream.  Only a refused
\* call may end in another way.
Bracketed(l, stage) ==
  /\ \A i \in 1..Len(l) : IsWork(l[i]) => i > 1 /\ l[i - 1] = Wait("comm")
  /\ \A i \in 1..Len(l) :
       /\ IsWork(l[i]) =>
            \/ i < Len(l) /\ l[i + 1] = Wait("main")
            \/ i = Len(l) - 1 /\ stage = "refused"
       /\ l[i] = Wait("comm") =>
            \/ i < Len(l) /\ IsWork(l[i + 1])
            \/ i = Len(l) - 1 /\ stage = "refused"
  /\ Len(l) > 0 => l[Len(l)].on = "main"

\* The inductive invariant.
IInv ==
  /\ log \in Seq(Commands)
  /\ done \subseteq 1..Len(log)
  /\ busy \subseteq 1..Len(log)
  /\ Bracketed(log, at)
  /\ InProgramOrder

-----------------------------------------------------------------------------
\* What is appended to a bracketed log is bracketed if its own part is.
LEMMA BracketedConcat ==
  ASSUME NEW l \in Seq(Commands), NEW c \in Seq(Commands), NEW a, NEW b,
         a # "refused", Bracketed(l, a), Bracketed(c, b), Len(c) > 0
  PROVE  /\ l \o c \in Seq(Commands)
         /\ Len(l \o c) > 0
         /\ Bracketed(l \o c, b)
  <1> DEFINE m == l \o c
  <1>1. /\ Len(m) = Len(l) + Len(c)
        /\ Len(l) \in Nat
        /\ Len(c) \in Nat
        /\ \A i \in 1..Len(l) : m[i] = l[i]
        /\ \A i \in 1..Len(c) : m[Len(l) + i] = c[i]
    OBVIOUS
  <1> HIDE DEF m
  <1>2. ASSUME NEW i \in 1..Len(m)
        PROVE  \/ i \in 1..Len(l) /\ m[i] = l[i]
               \/ i - Len(l) \in 1..Len(c) /\ m[i] = c[i - Len(l)]
    <2>1. i \in 1..Len(l) \/ i - Len(l) \in 1..Len(c) BY <1>1
    <2>2. i - Len(l) \in 1..Len(c) => m[Len(l) + (i - Len(l))] = c[i - Len(l)] BY <1>1
    <2>3. Len(l) + (i - Len(l)) = i BY <1>1
    <2> QED BY <2>1, <2>2, <2>3, <1>1
  <1>3. ASSUME NEW i \in 1..Len(m), IsWork(m[i])
        PROVE  /\ i > 1 /\ m[i - 1] = Wait("comm")
               /\ \/ i < Len(m) /\ m[i + 1] = Wait("main")
                  \/ i = Len(m) - 1 /\ b = "refused"
    <2>1. CASE i \in 1..Len(l) /\ m[i] = l[i]
      <3>1. i > 1 /\ l[i - 1] = Wait("comm") BY <2>1, <1>3 DEF Bracketed
      <3>2. i < Len(l) /\ l[i + 1] = Wait("main") BY <2>1, <1>3 DEF Bracketed
      <3>3. i - 1 \in 1..Len(l) /\ i + 1 \in 1..Len(l) BY <1>1, <2>1, <3>1, <3>2
      <3>4. i < Len(m) BY <1>1, <2>1, <3>2
      <3> QED BY <3>1, <3>2, <3>3, <3>4, <1>1
    <2>2. CASE i - Len(l) \in 1..Len(c) /\ m[i] = c[i - Len(l)]
      <3> DEFINE k == i - Len(l)
      <3>1. k \in 1..Len(c) /\ IsWork(c[k]) /\ i = Len(l) + k BY <2>2, <1>3, <1>1
      <3> HIDE DEF k
      <3>2. k > 1 /\ c[k - 1] = Wait("comm") BY <3>1 DEF Bracketed
      <3>3. \/ k < Len(c) /\ c[k + 1] = Wait("main")
            \/ k = Len(c) - 1 /\ b = "refused"
        BY <3>1 DEF Bracketed
      <3>4. m[i - 1] = c[k - 1]
        <4>1. k - 1 \in 1..Len(c) BY <1>1, <3>1, <3>2
        <4>2. Len(l) + (k - 1) = i - 1 BY <1>1, <3>1
        <4> QED BY <4>1, <4>2, <1>1
      <3>5. k < Len(c) => m[Len(l) + (k + 1)] = c[k + 1] /\ Len(l) + (k + 1) = i + 1
        <4>1. k < Len(c) => k + 1 \in 1..Len(c) BY <1>1, <3>1
        <4>2. Len(l) + (k + 1) = i + 1 BY <1>1, <3>1
        <4> QED BY <4>1, <4>2, <1>1
      <3>6. i > 1 /\ m[i - 1] = Wait("comm")
        <4>1. i > 1 BY <3>1, <3>2, <1>1
        <4> QED BY <4>1, <3>2, <3>4
      <3>7. k < Len(c) <=> i < Len(m) BY <3>1, <1>1
      <3>8. k = Len(c) - 1 => i = Len(m) - 1 BY <3>1, <1>1
      <3> QED BY <3>3, <3>5, <3>6, <3>7, <3>8
    <2> QED BY <2>1, <2>2, <1>2
  <1>4. ASSUME NEW i \in 1..Len(m), m[i] = Wait("comm")
        PROVE  \/ i < Len(m) /\ IsWork(m[i + 1])
               \/ i = Len(m) - 1 /\ b = "refused"
    <2>1. CASE i \in 1..Len(l) /\ m[i] = l[i]
      <3>0. l[i] = Wait("comm") BY <2>1, <1>4
      <3>1. i < Len(l) /\ IsWork(l[i + 1]) BY <2>1, <3>0 DEF Bracketed
      <3>2. i + 1 \in 1..Len(l) /\ m[i + 1] = l[i + 1] BY <3>1, <1>1, <2>1
      <3> QED BY <3>1, <3>2, <1>1
    <2>2. CASE i - Len(l) \in 1..Len(c) /\ m[i] = c[i - Len(l)]
      <3> DEFINE k == i - Len(l)
      <3>1. k \in 1..Len(c) /\ c[k] = Wait("comm") /\ i = Len(l) + k BY <2>2, <1>4, <1>1
      <3> HIDE DEF k
      <3>3. \/ k < Len(c) /\ IsWork(c[k + 1])
            \/ k = Len(c) - 1 /\ b = "refused"
        BY <3>1 DEF Bracketed
      <3>5. k < Len(c) => m[Len(l) + (k + 1)] = c[k + 1] /\ Len(l) + (k + 1) = i + 1
        <4>1. k < Len(c) => k + 1 \in 1..Len(c) BY <1>1, <3>1
        <4>2. Len(l) + (k + 1) = i + 1 BY <1>1, <3>1
        <4> QED BY <4>1, <4>2, <1>1
      <3>6. k < Len(c) <=> i < Len(m) BY <3>1, <1>1
      <3>7. k = Len(c) - 1 => i = Len(m) - 1 BY <3>1, <1>1
      <3> QED BY <3>3, <3>5, <3>6, <3>7
    <2> QED BY <2>1, <2>2, <1>2
  <1>5. m[Len(m)].on = "main"
    <2>1. c[Len(c)].on = "main" BY DEF Bracketed
    <2>2. Len(c) \in 1..Len(c) BY <1>1
    <2> QED BY <2>1, <2>2, <1>1
  <1>6. Bracketed(m, b) BY <1>3, <1>4, <1>5 DEF Bracketed
  <1>7. m \in Seq(Commands) /\ Len(m) > 0 BY <1>1 DEF m
  <1> QED BY <1>6, <1>7 DEF m

\* One command on the main stream is bracketed.
LEMMA BracketedMain ==
  ASSUME NEW op \in Work, NEW a
  PROVE  /\ <<OnMain(op)>> \in Seq(Commands)
         /\ Len(<<OnMain(op)>>) > 0
         /\ Bracketed(<<OnMain(op)>>, a)
  BY DEF Bracketed, OnMain, Wait, IsWork, Commands, Streams

\* So are two.
LEMMA BracketedPair ==
  ASSUME NEW first \in Work, NEW second \in Work, NEW a
  PROVE  /\ <<OnMain(first), OnMain(second)>> \in Seq(Commands)
         /\ Len(<<OnMain(first), OnMain(second)>>) > 0
         /\ Bracketed(<<OnMain(first), OnMain(second)>>, a)
  <1> DEFINE c == <<OnMain(first), OnMain(second)>>
  <1>1. c \in Seq(Commands) BY DEF OnMain, Commands, Streams
  <1>2. Len(c) = 2 /\ c[1].on = "main" /\ c[2].on = "main" BY DEF OnMain
  <1> HIDE DEF c
  <1>3. \A i \in 1..Len(c) : i = 1 \/ i = 2 BY <1>2
  <1>4. \A i \in 1..Len(c) : ~IsWork(c[i]) /\ c[i] # Wait("comm")
    BY <1>2, <1>3 DEF IsWork, Wait
  <1>5. Bracketed(c, a) BY <1>2, <1>4 DEF Bracketed
  <1> QED BY <1>1, <1>2, <1>5 DEF c

\* So is a collective, on either stream.
LEMMA BracketedCollective ==
  ASSUME NEW op \in Work, NEW a
  PROVE  /\ Collective(op) \in Seq(Commands)
         /\ Len(Collective(op)) > 0
         /\ Bracketed(Collective(op), a)
  <1>1. CASE hasComm
    <2> DEFINE c == <<Wait("comm"), [on |-> "comm", op |-> op], Wait("main")>>
    <2>1. Collective(op) = c BY <1>1 DEF Collective
    <2>2. c \in Seq(Commands) BY DEF Wait, Commands, Streams
    <2>3. /\ Len(c) = 3
          /\ c[1] = Wait("comm")
          /\ c[2] = [on |-> "comm", op |-> op]
          /\ c[3] = Wait("main")
      OBVIOUS
    <2>4. op # "wait" BY DEF Work
    <2> HIDE DEF c
    <2>5. /\ ~IsWork(c[1]) /\ IsWork(c[2]) /\ ~IsWork(c[3])
          /\ c[2] # Wait("comm") /\ c[3] # Wait("comm")
          /\ c[3].on = "main"
      BY <2>3, <2>4 DEF IsWork, Wait
    <2>6. \A i \in 1..Len(c) : i = 1 \/ i = 2 \/ i = 3 BY <2>3
    <2>7. Bracketed(c, a) BY <2>3, <2>5, <2>6 DEF Bracketed
    <2> QED BY <2>1, <2>2, <2>3, <2>7
  <1>2. CASE ~hasComm
    <2>1. Collective(op) = <<OnMain(op)>> BY <1>2 DEF Collective
    <2> QED BY <2>1, BracketedMain
  <1> QED BY <1>1, <1>2

\* So is every batch.
LEMMA BracketedBatches ==
  ASSUME NEW batch \in Batches, NEW a, a # "refused"
  PROVE  batch \in Seq(Commands) /\ Len(batch) > 0 /\ Bracketed(batch, a)
  <1> DEFINE Good(c) == c \in Seq(Commands) /\ Len(c) > 0 /\ Bracketed(c, a)
  <1>1. Good(Pack) /\ Good(Unpack)
    <2>1. "pack" \in Work /\ "unpack" \in Work BY DEF Work
    <2>2. Len(Pack) = 1 /\ Len(Unpack) = 1 BY DEF Pack, Unpack
    <2> QED BY <2>1, <2>2, BracketedMain DEF Pack, Unpack
  <1>2. Good(Collective("exchange")) BY BracketedCollective DEF Work
  <1>3. ASSUME NEW c, NEW d, Good(c), Good(d) PROVE Good(c \o d)
    BY <1>3, BracketedConcat
  <1> HIDE DEF Good
  <1>4. Good(batch) BY <1>1, <1>2, <1>3 DEF Batches
  <1> QED BY <1>4 DEF Good

\* What a host step appends keeps the invariant.
LEMMA IssueStep ==
  ASSUME IInv, at # "refused", NEW c \in Seq(Commands), Len(c) > 0,
         Bracketed(c, at'), Issue(c), UNCHANGED <<done, busy>>
  PROVE  IInv'
  <1>1. log' = log \o c BY DEF Issue
  <1>2. log' \in Seq(Commands) /\ Len(log') = Len(log) + Len(c) BY <1>1 DEF IInv
  <1>3. Bracketed(log', at') BY <1>1, BracketedConcat DEF IInv
  <1>4. done' \subseteq 1..Len(log') /\ busy' \subseteq 1..Len(log') BY <1>2 DEF IInv
  <1>5. InProgramOrder' BY DEF IInv, InProgramOrder, FreedUnder
  <1> QED BY <1>2, <1>3, <1>4, <1>5 DEF IInv

\* A step of the host that appends nothing keeps it too.
LEMMA QuietStep ==
  ASSUME IInv, at # "refused", at' # "refused", UNCHANGED <<log, done, busy>>
  PROVE  IInv'
  BY DEF IInv, InProgramOrder, FreedUnder, Bracketed

\* The host keeps the invariant.
LEMMA HostStep == ASSUME IInv, Host PROVE IInv'
  <1>1. ASSUME Allocate PROVE IInv'
    BY <1>1, IssueStep, BracketedMain DEF Allocate, Go, Work
  <1>2. ASSUME Convert PROVE IInv'
    <2>1. CASE Issue(<<OnMain("convert")>>)
      BY <1>2, <2>1, IssueStep, BracketedMain DEF Convert, Go, Work
    <2>2. CASE Issue(<<OnMain("copy"), OnMain("convert")>>)
      <3>1. at' = "forward" /\ at = "convert" BY <1>2 DEF Convert, Go
      <3>2. "copy" \in Work /\ "convert" \in Work BY DEF Work
      <3> QED BY <1>2, <2>2, <3>1, <3>2, BracketedPair, IssueStep DEF Convert
    <2> QED BY <1>2, <2>1, <2>2 DEF Convert
  <1>3. ASSUME Batch PROVE IInv'
    <2>1. PICK batch \in Batches : Issue(batch) BY <1>3 DEF Batch
    <2>2. at' = at /\ at # "refused" BY <1>3 DEF Batch
    <2> QED BY <1>3, <2>1, <2>2, BracketedBatches, IssueStep DEF Batch
  <1>4. ASSUME Synchronize_Forward PROVE IInv'
    BY <1>4, QuietStep DEF Synchronize_Forward, Go
  <1>5. ASSUME Solve PROVE IInv'
    BY <1>5, IssueStep, BracketedMain DEF Solve, Go, Work
  <1>6. ASSUME ReadInfo PROVE IInv'
    <2>1. at = "solving" /\ at' = "agreeing" /\ UNCHANGED <<done, busy>>
      BY <1>6 DEF ReadInfo, Go
    <2>2. CASE Issue(<<OnMain("agree")>>)
      BY <2>1, <2>2, IssueStep, BracketedMain DEF Work
    <2>3. CASE Issue(<<OnMain("agree"), OnMain("logdet")>> \o Collective("allreduce")
                     \o <<OnMain("agree")>>)
      <3> DEFINE head == <<OnMain("agree"), OnMain("logdet")>>
                 tail == <<OnMain("agree")>>
                 mid == Collective("allreduce")
      <3>1. "agree" \in Work /\ "logdet" \in Work BY DEF Work
      <3>2. head \in Seq(Commands) /\ Len(head) > 0 /\ Bracketed(head, at')
        BY <3>1, BracketedPair
      <3>4. tail \in Seq(Commands) /\ Len(tail) > 0 /\ Bracketed(tail, at')
        BY BracketedMain DEF Work
      <3>5. mid \in Seq(Commands) /\ Len(mid) > 0 /\ Bracketed(mid, at')
        BY BracketedCollective DEF Work
      <3> HIDE DEF head, tail, mid
      <3>6. /\ head \o mid \in Seq(Commands)
            /\ Len(head \o mid) > 0
            /\ Bracketed(head \o mid, at')
        BY <2>1, <3>2, <3>5, BracketedConcat
      <3>7. /\ (head \o mid) \o tail \in Seq(Commands)
            /\ Len((head \o mid) \o tail) > 0
            /\ Bracketed((head \o mid) \o tail, at')
        BY <2>1, <3>6, <3>4, BracketedConcat
      <3>8. Issue((head \o mid) \o tail) BY <2>3 DEF head, mid, tail
      <3> QED BY <2>1, <3>7, <3>8, IssueStep
    <2> QED BY <1>6, <2>2, <2>3 DEF ReadInfo
  <1>7. ASSUME Publish PROVE IInv'
    BY <1>7, IssueStep, BracketedMain DEF Publish, Go, Work
  <1>8. ASSUME Synchronize_Solved PROVE IInv'
    BY <1>8, QuietStep DEF Synchronize_Solved, Go
  <1>9. ASSUME Restore PROVE IInv'
    <2>1. at = "reverse" /\ at' = "returned" /\ UNCHANGED <<done, busy>>
      BY <1>9 DEF Restore, Go
    <2>2. "convert" \in Work /\ "free" \in Work BY DEF Work
    <2> QED BY <1>9, <2>1, <2>2, BracketedPair, IssueStep DEF Restore
  <1>10. ASSUME Refused PROVE IInv'
    <2>1. at # "refused" /\ at' = "refused" /\ UNCHANGED <<done, busy>>
      BY <1>10 DEF Refused, InCall, Go
    <2>2. CASE Issue(<<OnMain("free")>>)
      BY <2>1, <2>2, IssueStep, BracketedMain DEF Work
    <2>3. CASE Issue(<<Wait("comm"), OnMain("free")>>)
      <3>1. <<Wait("comm"), OnMain("free")>> \in Seq(Commands)
        BY DEF OnMain, Wait, Commands, Streams, Work
      <3>2. Bracketed(<<Wait("comm"), OnMain("free")>>, at')
        BY <2>1 DEF Bracketed, OnMain, Wait, IsWork
      <3>3. Len(<<Wait("comm"), OnMain("free")>>) > 0 OBVIOUS
      <3> QED BY <2>1, <2>3, <3>1, <3>2, <3>3, IssueStep
    <2>4. ASSUME NEW op \in Work
          PROVE  /\ Abandoned(op) \in Seq(Commands)
                 /\ Len(Abandoned(op)) > 0
                 /\ Bracketed(Abandoned(op), at')
      <3> DEFINE c == Abandoned(op)
      <3>1. c \in Seq(Commands) BY DEF Abandoned, Wait, OnMain, Commands, Streams, Work
      <3>2. /\ Len(c) = 3
            /\ c[1] = Wait("comm")
            /\ c[2] = [on |-> "comm", op |-> op]
            /\ c[3] = OnMain("free")
        BY DEF Abandoned
      <3>3. op # "wait" BY DEF Work
      <3> HIDE DEF c
      <3>4. /\ ~IsWork(c[1]) /\ IsWork(c[2]) /\ ~IsWork(c[3])
            /\ c[2] # Wait("comm") /\ c[3] # Wait("comm")
            /\ c[3].on = "main"
        BY <3>2, <3>3 DEF IsWork, Wait, OnMain
      <3>5. \A i \in 1..Len(c) : i = 1 \/ i = 2 \/ i = 3 BY <3>2
      <3>6. Bracketed(c, at') BY <2>1, <3>2, <3>4, <3>5 DEF Bracketed
      <3> QED BY <3>1, <3>2, <3>6 DEF c
    <2>5. CASE Issue(Abandoned("exchange"))
      BY <2>1, <2>4, <2>5, IssueStep DEF Work
    <2>6. CASE Issue(<<OnMain("agree"), OnMain("logdet")>> \o Abandoned("allreduce"))
      <3> DEFINE head == <<OnMain("agree"), OnMain("logdet")>>
                 rest == Abandoned("allreduce")
      <3>1. "agree" \in Work /\ "logdet" \in Work BY DEF Work
      <3>2. head \in Seq(Commands) /\ Len(head) > 0 /\ Bracketed(head, at)
        BY <3>1, BracketedPair
      <3>4. rest \in Seq(Commands) /\ Len(rest) > 0 /\ Bracketed(rest, at')
        BY <2>4 DEF Work
      <3> HIDE DEF head, rest
      <3>5. /\ head \o rest \in Seq(Commands)
            /\ Len(head \o rest) > 0
            /\ Bracketed(head \o rest, at')
        BY <2>1, <3>2, <3>4, BracketedConcat
      <3>6. Issue(head \o rest) BY <2>6 DEF head, rest
      <3> QED BY <2>1, <3>5, <3>6, IssueStep
    <2> QED BY <1>10, <2>2, <2>3, <2>5, <2>6 DEF Refused
  <1>11. ASSUME Consume PROVE IInv'
    BY <1>11, IssueStep, BracketedMain DEF Consume, Go, Work
  <1> QED
    BY <1>1, <1>2, <1>3, <1>4, <1>5, <1>6, <1>7, <1>8, <1>9, <1>10, <1>11 DEF Host

\* A command its stream has reached finds done everything issued before it.
LEMMA ReachedInOrder ==
  ASSUME IInv, NEW i \in 1..Len(log), StreamReached(i), log[i].op # "wait",
         NEW j \in 1..(i - 1)
  PROVE  j \in done \/ FreedUnder(i, j)
  <1>0. /\ Len(log) \in Nat
        /\ i - 1 \in 1..Len(log)
        /\ j \in 1..Len(log)
        /\ log[i] \in Commands /\ log[i - 1] \in Commands /\ log[j] \in Commands
    BY DEF IInv
  <1>1. CASE i - 1 \in done
    <2>1. ~FreedUnder(i - 1, j) BY <1>0 DEF FreedUnder
    <2>2. j = i - 1 \/ j \in 1..((i - 1) - 1) BY <1>0
    <2> QED BY <1>1, <2>1, <2>2 DEF IInv, InProgramOrder
  <1>2. CASE log[i].on = "comm"
    <2>1. log[i - 1] = Wait("comm") BY <1>2 DEF IInv, Bracketed, IsWork
    <2>2. i - 1 \in done BY <1>0, <1>2, <2>1 DEF StreamReached, Wait
    <2> QED BY <2>2, <1>1
  <1>3. CASE log[i].on = "main" /\ log[i - 1].on = "main"
    <2>1. i - 1 \in done BY <1>0, <1>3 DEF StreamReached
    <2> QED BY <2>1, <1>1
  <1>4. CASE log[i].on = "main" /\ log[i - 1].on = "comm"
    <2>1. i = Len(log) /\ at = "refused"
      <3>1. CASE IsWork(log[i - 1])
        <4>1. log[i] # Wait("main") BY DEF Wait
        <4>2. i = (i - 1) + 1 OBVIOUS
        <4> QED BY <1>0, <3>1, <4>1, <4>2 DEF IInv, Bracketed
      <3>2. CASE ~IsWork(log[i - 1])
        <4>1. log[i - 1] = Wait("comm")
          BY <1>0, <1>4, <3>2 DEF IsWork, Wait, Commands
        <4>2. ~IsWork(log[i]) BY <1>4 DEF IsWork
        <4>3. i = (i - 1) + 1 OBVIOUS
        <4> QED BY <1>0, <4>1, <4>2, <4>3 DEF IInv, Bracketed
      <3> QED BY <3>1, <3>2
    <2>2. CASE log[j].on = "main" BY <1>4, <2>2 DEF StreamReached
    <2>3. CASE log[j].on = "comm" BY <1>4, <2>1, <2>3 DEF FreedUnder
    <2> QED BY <1>0, <2>2, <2>3 DEF Commands, Streams
  <1> QED BY <1>0, <1>2, <1>3, <1>4 DEF Commands, Streams

\* The device keeps the invariant.
LEMMA DeviceStep == ASSUME IInv, Device PROVE IInv'
  <1>1. PICK i \in DOMAIN log : WaitDone(i) \/ Begin(i) \/ End(i) BY DEF Device
  <1>2. i \in 1..Len(log) BY <1>1 DEF IInv
  <1>3. UNCHANGED <<log, at>> BY <1>1 DEF WaitDone, Begin, End
  <1>4. \A k, j : FreedUnder(k, j)' <=> FreedUnder(k, j) BY <1>3 DEF FreedUnder
  <1>5. /\ log' \in Seq(Commands)
        /\ Bracketed(log', at')
        /\ done' \subseteq 1..Len(log')
        /\ busy' \subseteq 1..Len(log')
    BY <1>1, <1>2, <1>3 DEF IInv, WaitDone, Begin, End
  <1>6. done \subseteq done' BY <1>1 DEF WaitDone, Begin, End
  <1>7. CASE WaitDone(i)
    <2>1. \A j \in 1..(i - 1) : j \in done BY <1>7 DEF WaitDone
    <2>2. done' \cup busy' = (done \cup busy) \cup {i} BY <1>7 DEF WaitDone
    <2>3. InProgramOrder' BY <1>4, <1>6, <2>1, <2>2 DEF IInv, InProgramOrder
    <2> QED BY <1>5, <2>3 DEF IInv
  <1>8. CASE Begin(i)
    <2>1. \A j \in 1..(i - 1) : j \in done \/ FreedUnder(i, j)
      BY <1>2, <1>8, ReachedInOrder DEF Begin
    <2>2. done' \cup busy' = (done \cup busy) \cup {i} BY <1>8 DEF Begin
    <2>3. InProgramOrder' BY <1>4, <1>6, <2>1, <2>2 DEF IInv, InProgramOrder
    <2> QED BY <1>5, <2>3 DEF IInv
  <1>9. CASE End(i)
    <2>1. done' \cup busy' = done \cup busy BY <1>9 DEF End
    <2>2. InProgramOrder' BY <1>4, <1>6, <2>1 DEF IInv, InProgramOrder
    <2> QED BY <1>5, <2>2 DEF IInv
  <1> QED BY <1>1, <1>7, <1>8, <1>9

\* IInv is an invariant.
THEOREM Invariance == Spec => []IInv
  <1>1. Init => IInv
    BY DEF Init, IInv, Bracketed, InProgramOrder
  <1>2. IInv /\ [Next]_vars => IInv'
    <2> SUFFICES ASSUME IInv, [Next]_vars PROVE IInv' OBVIOUS
    <2>1. CASE UNCHANGED vars
      BY <2>1 DEF vars, IInv, Bracketed, InProgramOrder, FreedUnder
    <2> QED BY <2>1, HostStep, DeviceStep DEF Next, Terminated
  <1> QED BY <1>1, <1>2, PTL DEF Spec

\* On every rank, whichever streams it uses and however many batches it takes
\* part in, the device works through the call in the order of issue.
THEOREM ProgramOrder == Spec => []InProgramOrder
  <1>1. IInv => InProgramOrder BY DEF IInv
  <1> QED BY <1>1, Invariance, PTL

\* When the main stream is idle and the call goes on, everything is done.
LEMMA IdleIsDone == ASSUME IInv, Idle, at # "refused" PROVE AllDone
  <1>0. Len(log) \in Nat BY DEF IInv
  <1>1. DOMAIN log = 1..Len(log) BY DEF IInv
  <1>2. CASE Len(log) = 0
    <2>1. 1..Len(log) = {} BY <1>2
    <2> QED BY <1>1, <2>1 DEF IInv, AllDone
  <1>3. CASE Len(log) > 0
    <2>0. Len(log) \in 1..Len(log) BY <1>0, <1>3
    <2>1. Len(log) \in done BY <1>1, <1>3, <2>0 DEF IInv, Bracketed, Idle
    <2>2. \A j \in 1..(Len(log) - 1) : j \in done
      BY <2>1, SMTT(60) DEF IInv, InProgramOrder, FreedUnder
    <2>3. \A j \in 1..Len(log) : j = Len(log) \/ j \in 1..(Len(log) - 1) BY <1>0
    <2>4. \A j \in 1..Len(log) : j \in done BY <2>1, <2>2, <2>3
    <2> QED BY <1>1, <2>4 DEF IInv, AllDone
  <1> QED BY <1>0, <1>2, <1>3

\* The two synchronizations of the main stream cover both streams.
THEOREM Synchronized == Spec => []NothingPending
  <1>1. Init => NothingPending BY DEF Init, NothingPending
  <1>2. IInv /\ NothingPending /\ [Next]_vars => NothingPending'
    <2> SUFFICES ASSUME IInv, NothingPending, [Next]_vars PROVE NothingPending' OBVIOUS
    <2>1. CASE UNCHANGED vars BY <2>1 DEF vars, NothingPending, AllDone
    <2>2. CASE Device
      <3>1. done \subseteq done' /\ UNCHANGED <<at, log>>
        BY <2>2 DEF Device, WaitDone, Begin, End
      <3>2. done' \subseteq DOMAIN log'
        BY <2>2, <3>1, DeviceStep DEF IInv
      <3> QED BY <3>1, <3>2 DEF NothingPending, AllDone
    <2>3. CASE Synchronize_Forward
      <3>1. AllDone BY <2>3, IdleIsDone DEF Synchronize_Forward
      <3> QED BY <2>3, <3>1 DEF Synchronize_Forward, Go, NothingPending, AllDone
    <2>4. CASE Publish
      <3>1. AllDone BY <2>4, IdleIsDone DEF Publish
      <3>2. log' = log \o <<OnMain("publish")>> /\ done' = done /\ at' = "published"
        BY <2>4 DEF Publish, Issue, Go
      <3>3. \A i \in DOMAIN log' : i \in DOMAIN log \/ log'[i].op = "publish"
        BY <3>2 DEF IInv, OnMain
      <3> QED BY <3>1, <3>2, <3>3 DEF NothingPending, AllDone
    <2>5. CASE Allocate \/ Convert \/ Batch \/ Solve \/ ReadInfo \/ Synchronize_Solved
               \/ Restore \/ Refused \/ Consume
      BY <2>5 DEF Allocate, Convert, Batch, Solve, ReadInfo, Synchronize_Solved,
         Restore, Refused, Consume, Go, NothingPending
    <2> QED
      BY <2>1, <2>2, <2>3, <2>4, <2>5 DEF Next, Host, Terminated
  <1> QED BY <1>1, <1>2, Invariance, PTL DEF Spec
\* What the host does to the stages and the batches left, and what the device does to
\* the commands, stays of its type; in particular no command is both running and done.
LEMMA TypeStep ==
  ASSUME TypeOK, IInv, IInv', [Next]_vars
  PROVE  TypeOK'
  <1>1. log' \in Seq(Commands) /\ DOMAIN log' = 1..Len(log') /\ DOMAIN log = 1..Len(log)
    BY DEF IInv
  <1>2. done' \subseteq DOMAIN log' /\ busy' \subseteq DOMAIN log'
    BY <1>1 DEF IInv
  <1>3. CASE Host
    <2>1. UNCHANGED <<hasComm, done, busy>>
      BY <1>3 DEF Host, Allocate, Convert, Batch, Synchronize_Forward, Solve, ReadInfo,
                  Publish, Synchronize_Solved, Restore, Refused, Consume
    <2>2. at' \in InCall \cup {"allocate", "returned", "refused", "consumed"}
      BY <1>3 DEF Host, Allocate, Convert, Batch, Synchronize_Forward, Solve, ReadInfo,
                  Publish, Synchronize_Solved, Restore, Refused, Consume, Go, InCall, TypeOK
    <2>3. left' \in Nat
      BY <1>3, BatchesAssumption
         DEF Host, Allocate, Convert, Batch, Synchronize_Forward, Solve, ReadInfo,
             Publish, Synchronize_Solved, Restore, Refused, Consume, TypeOK
    <2> QED
      BY <1>1, <1>2, <2>1, <2>2, <2>3 DEF TypeOK
  <1>4. CASE Device
    <2>1. PICK i \in DOMAIN log : WaitDone(i) \/ Begin(i) \/ End(i)
      BY <1>4 DEF Device
    <2>2. busy' \cap done' = {}
      BY <2>1 DEF WaitDone, Begin, End, StreamReached, TypeOK
    <2>3. UNCHANGED <<hasComm, at, left>>
      BY <2>1 DEF WaitDone, Begin, End
    <2> QED
      BY <1>1, <1>2, <2>2, <2>3 DEF TypeOK
  <1>5. CASE UNCHANGED vars
    BY <1>5 DEF vars, TypeOK
  <1> QED
    BY <1>3, <1>4, <1>5 DEF Next, Terminated

\* Every variable holds a value the program can give it, however many batches there are.
THEOREM TypeCorrect == Spec => []TypeOK
  <1>1. Init => TypeOK
    BY CommStreamsAssumption DEF Init, TypeOK, Commands
  <1>2. TypeOK /\ IInv /\ IInv' /\ [Next]_vars => TypeOK'
    BY TypeStep
  <1> QED
    BY <1>1, <1>2, Invariance, PTL DEF Spec

(***************************************************************************)
(* The set-up of a backend.                                                *)
(***************************************************************************)
\* What has been established when a thread is at a step.
EnabledAt == {"validate"} \cup Registering
Reached(t) ==
  /\ pc[t] \in EnabledAt \cup {"enable"} => gpu
  /\ pc[t] \in EnabledAt => x64
  /\ pc[t] \in Registering =>
       /\ devices = 1
       /\ 1..(target[t] - 1) \subseteq registered
  /\ pc[t] = "register" => preloaded
  /\ pc[t] \in {"commit", "compile"} /\ gpu => SetUp
  /\ pc[t] = "execute" => gpu /\ SetUp

\* What the flag and the compiled executable stand for.
Shared ==
  /\ initialized /\ gpu => SetUp
  /\ compiled => gpu /\ SetUp

\* The inductive invariant.
SetUpInv == SetUpTypeOK /\ Shared /\ \A t \in Threads : Reached(t)

\* The shared state a thread relies on never shrinks.
Grows ==
  /\ gpu' = gpu /\ devices' = devices
  /\ x64 => x64'
  /\ preloaded => preloaded'
  /\ registered \subseteq registered'

\* No step undoes anything of the set-up.
LEMMA StepGrows == SetUpTypeOK /\ [SetUpNext]_setUpVars => Grows
  BY DEF SetUpTypeOK, SetUpNext, setUpVars, process, Grows, Raise, Call, Check, Detect,
     DetectFails, Enable, Validate, Locate, LocateFails, Preload, PreloadFails, Register,
     RegisterFails, Commit, Compile, CompileFails, Execute, Goto

\* What another thread has reached, it still has when the state has grown.
LEMMA ReachedStays ==
  ASSUME SetUpTypeOK, SetUpTypeOK', Grows, NEW t \in Threads, Reached(t),
         pc'[t] = pc[t], target'[t] = target[t]
  PROVE  Reached(t)'
  <1>1. SetUp => SetUp'
    BY DEF SetUp, Grows, SetUpTypeOK
  <1>2. pc'[t] \in Registering => 1..(target'[t] - 1) \subseteq registered'
    BY DEF Reached, Grows
  <1>3. /\ pc'[t] \in EnabledAt \cup {"enable"} => gpu'
        /\ pc'[t] \in EnabledAt => x64'
        /\ pc'[t] \in Registering => devices' = 1
        /\ pc'[t] = "register" => preloaded'
    BY DEF Reached, Grows
  <1>4. /\ pc'[t] \in {"commit", "compile"} /\ gpu' => SetUp'
        /\ pc'[t] = "execute" => gpu' /\ SetUp'
    BY <1>1 DEF Reached, Grows
  <1> QED
    BY <1>2, <1>3, <1>4 DEF Reached

\* The initial states satisfy the inductive invariant.
LEMMA SetUpBegins == SetUpInit => SetUpInv
  <1> SUFFICES ASSUME SetUpInit PROVE SetUpInv
    OBVIOUS
  <1>1. 1 \in Targets
    BY TargetsAssumption DEF Targets
  <1>2. SetUpTypeOK
    BY <1>1 DEF SetUpInit, SetUpTypeOK, Steps
  <1>3. Shared
    BY DEF SetUpInit, Shared
  <1>4. ASSUME NEW t \in Threads PROVE Reached(t)
    BY DEF SetUpInit, Reached, Registering, EnabledAt
  <1> QED
    BY <1>2, <1>3, <1>4 DEF SetUpInv

\* A step leaves every variable in its type.
LEMMA SetUpKeepsTypes == SetUpTypeOK /\ [SetUpNext]_setUpVars => SetUpTypeOK'
  <1> SUFFICES ASSUME SetUpTypeOK, [SetUpNext]_setUpVars PROVE SetUpTypeOK'
    OBVIOUS
  <1> USE TargetsAssumption DEF SetUpTypeOK, process, Goto, Steps, Registering, Targets
  <1>1. CASE UNCHANGED setUpVars
    BY <1>1 DEF setUpVars
  <1>2. ASSUME NEW t \in Threads, Call(t) \/ Check(t) \/ Detect(t) \/ Locate(t)
        PROVE  SetUpTypeOK'
    BY <1>2 DEF Call, Check, Detect, Locate
  <1>3. ASSUME NEW t \in Threads, Raise(t)
        PROVE  SetUpTypeOK'
    BY <1>3 DEF Raise
  <1>4. ASSUME NEW t \in Threads, Enable(t) \/ Preload(t)
        PROVE  SetUpTypeOK'
    BY <1>4 DEF Enable, Preload
  <1>5. ASSUME NEW t \in Threads, Commit(t) \/ Compile(t) \/ Execute(t)
        PROVE  SetUpTypeOK'
    BY <1>5 DEF Commit, Compile, Execute
  <1>6. ASSUME NEW t \in Threads, Validate(t)
        PROVE  SetUpTypeOK'
    <2>1. 1 \in Targets
      OBVIOUS
    <2>2. CASE devices = 1
      BY <1>6, <2>1, <2>2 DEF Validate
    <2>3. CASE devices # 1
      BY <1>6, <1>3, <2>3 DEF Validate
    <2> QED
      BY <2>2, <2>3
  <1>7. ASSUME NEW t \in Threads, Register(t)
        PROVE  SetUpTypeOK'
    <2>1. target[t] \in Targets /\ (target[t] # NumTargets => target[t] + 1 \in Targets)
      OBVIOUS
    <2> QED
      BY <1>7, <2>1 DEF Register
  <1> QED
    BY <1>1, <1>2, <1>3, <1>4, <1>5, <1>6, <1>7
       DEF SetUpNext, DetectFails, LocateFails, PreloadFails, RegisterFails, CompileFails

\* A step that does not complete the set-up keeps what the flag and the
\* executable stand for.
LEMMA StepKeepsShared == SetUpInv /\ [SetUpNext]_setUpVars => Shared'
  <1> SUFFICES ASSUME SetUpInv, [SetUpNext]_setUpVars PROVE Shared'
    OBVIOUS
  <1>1. Grows
    BY StepGrows DEF SetUpInv
  <1>2. SetUp => SetUp'
    BY <1>1, SetUpKeepsTypes DEF SetUp, Grows, SetUpInv, SetUpTypeOK
  <1>3. initialized' = initialized \/ \E t \in Threads : Commit(t)
    BY DEF SetUpNext, setUpVars, process, Raise, Call, Check, Detect, DetectFails, Enable,
       Validate, Locate, LocateFails, Preload, PreloadFails, Register,
       RegisterFails, Compile, CompileFails, Execute
  <1>4. compiled' = compiled \/ \E t \in Threads : Compile(t)
    BY DEF SetUpNext, setUpVars, process, Raise, Call, Check, Detect, DetectFails, Enable,
       Validate, Locate, LocateFails, Preload, PreloadFails, Register,
       RegisterFails, Commit, CompileFails, Execute
  <1>5. initialized' /\ gpu' => SetUp'
    BY <1>1, <1>2, <1>3 DEF SetUpInv, Shared, Reached, Commit, Grows
  <1>6. compiled' => gpu' /\ SetUp'
    BY <1>1, <1>2, <1>4 DEF SetUpInv, Shared, Reached, Compile, Grows
  <1> QED
    BY <1>5, <1>6 DEF Shared

\* The thread that takes a step has reached what its next step stands for.
LEMMA StepReaches ==
  ASSUME SetUpInv, SetUpTypeOK', Grows, NEW t \in Threads,
         \/ Call(t) \/ Check(t) \/ Detect(t) \/ DetectFails(t)
         \/ Enable(t) \/ Validate(t) \/ Locate(t) \/ LocateFails(t)
         \/ Preload(t) \/ PreloadFails(t) \/ Register(t) \/ RegisterFails(t)
         \/ Commit(t) \/ Compile(t) \/ CompileFails(t) \/ Execute(t)
  PROVE  Reached(t)'
  <1> USE DEF Goto, Registering, EnabledAt
  <1>1. SetUp => SetUp'
    BY DEF SetUp, Grows, SetUpInv, SetUpTypeOK
  <1>2. Reached(t) /\ Shared /\ SetUpTypeOK
    BY DEF SetUpInv
  <1>3. ASSUME pc'[t] \in {"idle", "raised", "check", "detect"} PROVE Reached(t)'
    BY <1>3 DEF Reached
  <1>4. CASE Call(t)
    <2>1. CASE pc'[t] = "check"
      BY <1>3, <2>1
    <2>2. CASE compiled /\ pc'[t] = "execute"
      BY <1>1, <1>2, <2>2 DEF Shared, Reached, SetUpTypeOK, Grows
    <2> QED
      BY <1>2, <1>4, <2>1, <2>2 DEF Call, SetUpTypeOK
  <1>5. CASE Check(t)
    BY <1>1, <1>2, <1>5 DEF Check, Shared, Reached, SetUpTypeOK, Grows
  <1>6. CASE Detect(t)
    BY <1>2, <1>6 DEF Detect, Reached, SetUpTypeOK, process
  <1>7. CASE Enable(t)
    BY <1>2, <1>7 DEF Enable, Reached, SetUpTypeOK, process
  <1>8. CASE Validate(t)
    <2>1. CASE devices = 1
      <3>1. target'[t] = 1 /\ pc'[t] = "locate" /\ gpu' /\ x64' /\ devices' = 1
        BY <1>2, <1>8, <2>1 DEF Validate, Reached, SetUpTypeOK, process
      <3>2. 1..(target'[t] - 1) = {}
        BY <3>1
      <3> QED
        BY <3>1, <3>2 DEF Reached
    <2>2. CASE devices # 1
      <3>1. pc'[t] = "raised"
        BY <1>2, <1>8, <2>2 DEF Validate, Raise, SetUpTypeOK
      <3> QED
        BY <1>3, <3>1
    <2> QED
      BY <2>1, <2>2
  <1>9. CASE Locate(t)
    BY <1>2, <1>9 DEF Locate, Reached, SetUpTypeOK, process
  <1>10. CASE Preload(t)
    BY <1>2, <1>10 DEF Preload, Reached, SetUpTypeOK, process
  <1>11. CASE Register(t)
    <2>1. /\ gpu' /\ x64' /\ devices' = 1 /\ preloaded'
          /\ registered' = registered \cup {target[t]}
          /\ 1..(target[t] - 1) \subseteq registered /\ target[t] \in 1..NumTargets
      BY <1>2, <1>11 DEF Register, Reached, SetUpTypeOK, process, Targets
    <2>2. 1..target[t] \subseteq registered'
      BY <2>1, TargetsAssumption
    <2>3. CASE target[t] = NumTargets
      <3>1. registered' = Targets
        BY <2>2, <2>3 DEF SetUpTypeOK, Targets
      <3>2. SetUp'
        BY <2>1, <3>1 DEF SetUp, Targets
      <3>3. pc'[t] = "commit"
        BY <1>2, <1>11, <2>3 DEF Register, SetUpTypeOK
      <3> QED
        BY <3>2, <3>3 DEF Reached
    <2>4. CASE target[t] # NumTargets
      <3>1. pc'[t] = "locate" /\ target'[t] = target[t] + 1
        BY <1>2, <1>11, <2>4 DEF Register, SetUpTypeOK
      <3>2. 1..(target'[t] - 1) \subseteq registered'
        BY <2>1, <2>2, <3>1, TargetsAssumption
      <3> QED
        BY <2>1, <3>1, <3>2 DEF Reached
    <2> QED
      BY <2>3, <2>4
  <1>12. CASE Commit(t)
    BY <1>1, <1>2, <1>12 DEF Commit, Reached, SetUpTypeOK, process
  <1>13. CASE Compile(t)
    BY <1>1, <1>2, <1>13 DEF Compile, Reached, SetUpTypeOK, process
  <1>14. CASE \/ DetectFails(t) \/ LocateFails(t) \/ PreloadFails(t)
              \/ RegisterFails(t) \/ CompileFails(t) \/ Execute(t)
    <2>1. pc'[t] \in {"idle", "raised"}
      BY <1>2, <1>14 DEF DetectFails, LocateFails, PreloadFails, RegisterFails,
         CompileFails, Execute, Raise, SetUpTypeOK
    <2> QED
      BY <1>3, <2>1
  <1> QED
    BY <1>4, <1>5, <1>6, <1>7, <1>8, <1>9, <1>10, <1>11, <1>12, <1>13, <1>14

\* A step of one thread leaves the others where they are.
LEMMA OneThreadSteps ==
  ASSUME SetUpTypeOK, [SetUpNext]_setUpVars
  PROVE  \/ UNCHANGED setUpVars
         \/ \E t \in Threads :
              /\ \/ Call(t) \/ Check(t) \/ Detect(t) \/ DetectFails(t)
                 \/ Enable(t) \/ Validate(t) \/ Locate(t) \/ LocateFails(t)
                 \/ Preload(t) \/ PreloadFails(t) \/ Register(t) \/ RegisterFails(t)
                 \/ Commit(t) \/ Compile(t) \/ CompileFails(t) \/ Execute(t)
              /\ \A u \in Threads \ {t} : pc'[u] = pc[u] /\ target'[u] = target[u]
  BY DEF SetUpTypeOK, SetUpNext, Goto, Raise, Call, Check, Detect, DetectFails, Enable,
     Validate,
     Locate, LocateFails, Preload, PreloadFails, Register, RegisterFails, Commit,
     Compile, CompileFails, Execute

\* The invariant is inductive.
THEOREM SetUpInvariance == SetUpSpec => []SetUpInv
  <1>1. SetUpInv /\ [SetUpNext]_setUpVars => SetUpInv'
    <2> SUFFICES ASSUME SetUpInv, [SetUpNext]_setUpVars PROVE SetUpInv'
      OBVIOUS
    <2>1. SetUpTypeOK' /\ Grows /\ Shared' /\ SetUpTypeOK
      BY SetUpKeepsTypes, StepGrows, StepKeepsShared DEF SetUpInv
    <2>2. ASSUME NEW u \in Threads PROVE Reached(u)'
      <3>1. Reached(u)
        BY DEF SetUpInv
      <3>2. CASE pc'[u] = pc[u] /\ target'[u] = target[u]
        BY <2>1, <3>1, <3>2, ReachedStays
      <3>3. CASE ~(pc'[u] = pc[u] /\ target'[u] = target[u])
        BY <2>1, <3>3, OneThreadSteps, StepReaches DEF setUpVars
      <3> QED
        BY <3>2, <3>3
    <2> QED
      BY <2>1, <2>2 DEF SetUpInv
  <1> QED
    BY SetUpBegins, <1>1, PTL DEF SetUpSpec

\* Every variable of every behaviour has its type, for any number of threads
\* and targets: no thread's loop runs past the list.
THEOREM SetUpTyped == SetUpSpec => []SetUpTypeOK
  <1>1. SetUpInv => SetUpTypeOK
    BY DEF SetUpInv
  <1> QED
    BY SetUpInvariance, <1>1, PTL

\* No call reaches the native code before the process is set up, whatever
\* threads race in the set-up and whatever failed before: ensure_init's flag is
\* set after the last registration.
THEOREM SetUpFirst == SetUpSpec => []SetUpBeforeUse
  <1>1. SetUpInv => SetUpBeforeUse
    BY DEF SetUpInv, Shared, Reached, SetUpBeforeUse
  <1> QED
    BY SetUpInvariance, <1>1, PTL
=============================================================================
