--------------------------- MODULE ShardExchange ---------------------------
(***************************************************************************)
(* What a fused call promises about the placement of a matrix, without     *)
(* plans, batches or messages.  Every rank owns a shard of the caller's    *)
(* layout; it turns, at a moment of its own choosing, into that rank's     *)
(* shard of the solver's layout; when all ranks are there the solver runs; *)
(* then every rank's shard turns back.                                     *)
(*                                                                         *)
(* A rank may complete its new shard only after the ranks it takes entries *)
(* from have started: until then an entry is still where it was.           *)
(***************************************************************************)
CONSTANTS
  Calls,           \* the calls that may be made
  RankOf(_),       \* the ranks of a call
  Before(_, _),    \* the entries a rank owns in the caller's layout
  Between(_, _)    \* the entries it owns in the solver's layout

VARIABLES
  call,      \* the call this is
  view,      \* rank -> where it is in the call
  held       \* rank -> the entries in place there; none while it rearranges

absvars == <<call, view, held>>

Rank == RankOf(call)

\* A rank that owns the same entries in both layouts need not move at all.
Stays(r) == Before(call, r) = Between(call, r)

\* The ranks whose entries rank r takes over.
Takes(r) == {s \in Rank \ {r} : Before(call, s) \cap Between(call, r) # {}}

Init ==
  /\ call \in Calls
  /\ view \in [Rank -> {"given", "placed"}]
  /\ \A r \in Rank : view[r] = "placed" => Stays(r)
  /\ held = [r \in Rank |-> Before(call, r)]

Start(r, from, to) ==
  /\ view[r] = from
  /\ view' = [view EXCEPT ![r] = to]
  /\ held' = [held EXCEPT ![r] = {}]
  /\ UNCHANGED call

Arrive(r, from, to, shard, ready, peers) ==
  /\ view[r] \in from
  /\ \A s \in peers : view[s] \in ready
  /\ view' = [view EXCEPT ![r] = to]
  /\ held' = [held EXCEPT ![r] = shard]
  /\ UNCHANGED call

Depart(r)   == Start(r, "given", "moving")
Place(r)    == Arrive(r, {"given", "moving"}, "placed", Between(call, r),
                      {"moving", "placed"}, Takes(r))
SolveAll    ==
  /\ \A r \in Rank : view[r] = "placed"
  /\ view' \in [Rank -> {"solved", "restored"}]
  /\ \A r \in Rank : view'[r] = "restored" => Stays(r)
  /\ UNCHANGED <<call, held>>
DepartBack(r) == Start(r, "solved", "returning")
Return(r)     == Arrive(r, {"solved", "returning"}, "restored", Before(call, r),
                        {"returning", "restored"}, {s \in Rank : r \in Takes(s)})

Next ==
  \/ \E r \in Rank : Depart(r) \/ Place(r) \/ DepartBack(r) \/ Return(r)
  \/ SolveAll

Spec == Init /\ [][Next]_absvars
=============================================================================
