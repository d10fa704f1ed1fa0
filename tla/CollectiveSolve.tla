-------------------------- MODULE CollectiveSolve --------------------------
(***************************************************************************)
(* What a fused call promises the ranks that make it, without stages,      *)
(* codes or collectives.  The call has one verdict.  It is settled once:   *)
(* for success only while every rank is still in the call, for failure at  *)
(* any time before that.  A rank that is given an answer is given the      *)
(* verdict; any rank may instead leave with an error, and a call that all  *)
(* ranks left so has failed.                                               *)
(***************************************************************************)
CONSTANT Ranks

VARIABLES
  verdict,   \* "open" until settled
  answer     \* rank -> what it returned, "pending" before

cvars == <<verdict, answer>>

Init ==
  /\ verdict = "open"
  /\ answer = [r \in Ranks |-> "pending"]

Succeed ==
  /\ verdict = "open"
  /\ \A r \in Ranks : answer[r] = "pending"
  /\ verdict' = "solved"
  /\ UNCHANGED answer

Fail ==
  /\ verdict = "open"
  /\ verdict' = "failed"
  /\ UNCHANGED answer

Answer(r) ==
  /\ answer[r] = "pending"
  /\ verdict # "open"
  /\ answer' = [answer EXCEPT ![r] = verdict]
  /\ UNCHANGED verdict

GiveUp(r) ==
  /\ answer[r] = "pending"
  /\ answer' = [answer EXCEPT ![r] = "error"]
  /\ verdict' = IF \A q \in Ranks : answer'[q] = "error" THEN "failed" ELSE verdict

Next == Succeed \/ Fail \/ \E r \in Ranks : Answer(r) \/ GiveUp(r)

Spec == Init /\ [][Next]_cvars
=============================================================================
