------------------------------ MODULE Coverage ------------------------------
(***************************************************************************)
(* What store/sync.py promises its callers about one channel's verified    *)
(* coverage: a set of ids that grows by whole ranges, and a query that     *)
(* answers with exactly the ids of a range that are not in it.  A call is  *)
(* for one range, is in hand from its start to its end, and changes        *)
(* nothing before it ends.  One that is killed may cost coverage, but only *)
(* ids joined to its own range by verified ids.  How the set is kept - as  *)
(* coalesced rows of sync_ranges - is RangeStore's business.               *)
(***************************************************************************)
EXTENDS Integers

CONSTANT MaxId

Ids    == 1..MaxId
Ranges == {r \in [lo : Ids, hi : Ids] : r.lo <= r.hi}
Span(r) == r.lo .. r.hi

VARIABLES
    covered,   \* the verified ids
    gaps,      \* what the last query returned
    call,      \* the call in hand: what it does, and its range
    kills      \* how often a call was killed

NoCall      == [op |-> "none"]
Call(op, r) == [op |-> op, range |-> r]

Init == covered = {} /\ gaps = {} /\ call = NoCall /\ kills = 0

\* Every id strictly between i and the range is verified.
Joined(i, r) ==
    \A j \in Ids : (i <= j /\ j < r.lo) \/ (r.hi < j /\ j <= i) => j \in covered

\* What recording a range does to the set, and what it may do when it is killed.
Grown(r) == covered' = covered \cup Span(r)
Cut(r)   == /\ covered' \subseteq covered
            /\ \A i \in covered \ covered' : Joined(i, r)

Begin(op, r) == call = NoCall /\ call' = Call(op, r) /\ UNCHANGED <<covered, gaps, kills>>

End(op) == call.op = op /\ call' = NoCall

Add    == End("add") /\ Grown(call.range) /\ UNCHANGED <<gaps, kills>>
Ask    == End("ask") /\ gaps' = Span(call.range) \ covered /\ UNCHANGED <<covered, kills>>
Killed == End("add") /\ Cut(call.range) /\ kills' = kills + 1 /\ UNCHANGED gaps

Next == \/ \E op \in {"add", "ask"}, r \in Ranges : Begin(op, r)
        \/ Add \/ Ask \/ Killed

Spec == Init /\ [][Next]_<<covered, gaps, call, kills>>
=============================================================================
