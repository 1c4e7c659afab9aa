----------------------------- MODULE RangeStore -----------------------------
(***************************************************************************)
(* sync_ranges (store/sync.py, add_range and missing_ids), one channel's   *)
(* rows.  add_range SELECTs the rows once, folds over them in lo order     *)
(* growing the merged span, then DELETEs the swallowed rows one by one and *)
(* INSERTs the merged one, each statement autocommitted (store/db.py), so  *)
(* a kill may fall between any two of them.  missing_ids walks the rows    *)
(* that meet the asked range with a cursor.                                *)
(***************************************************************************)
EXTENDS Integers

CONSTANTS
    MaxId,       \* bound: the newest message id
    MaxCrashes   \* bound: how often the process is killed inside add_range

ASSUME RangeAssumption == MaxId \in Nat \ {0} /\ MaxCrashes \in Nat

Ids     == 1..MaxId
Ranges  == {r \in [lo : Ids, hi : Ids] : r.lo <= r.hi}
Span(r) == r.lo .. r.hi

VARIABLES
    rows,      \* the table
    pc,        \* the call under way: "idle", "add" or "ask"
    arg,       \* its [lo, hi]
    todo,      \* SELECTed rows the loop has not visited
    merged,    \* add_range: [merged_lo, merged_hi]
    toDelete,  \* add_range: to_delete
    cursor,    \* missing_ids: cursor
    missing,   \* missing_ids: missing
    gaps,      \* what the last missing_ids call returned
    recorded,  \* history: the ids of every add_range call that returned
    crashes    \* bound counter

adding == <<merged, toDelete>>
asking == <<cursor, missing>>
past   == <<recorded, crashes>>
vars   == <<rows, pc, arg, todo, adding, asking, gaps, past>>

Larger(a, b)  == IF a >= b THEN a ELSE b
Smaller(a, b) == IF a <= b THEN a ELSE b

Covered(R) == {i \in Ids : \E r \in R : r.lo <= i /\ i <= r.hi}
First(R)   == CHOOSE r \in R : \A s \in R : r.lo <= s.lo   \* ORDER BY lo

\* Mutant: only overlap counts, adjacency does not.
Overlaps(r, m) == r.lo <= m.hi /\ r.hi >= m.lo

\* Mutant: off by one, a gap of one id still counts as touching.
TouchesLoosely(r, m) == r.lo <= m.hi + 2 /\ r.hi >= m.lo - 2

(* Touching includes adjacency.                                             *)
Touches(r, m) == r.lo <= m.hi + 1 /\ r.hi >= m.lo - 1

-----------------------------------------------------------------------------
Init ==
    /\ rows = {} /\ pc = "idle"
    /\ arg = [lo |-> 1, hi |-> 1] /\ merged = arg
    /\ todo = {} /\ toDelete = {}
    /\ cursor = 1 /\ missing = {} /\ gaps = {}
    /\ recorded = {} /\ crashes = 0

(* A call's locals do not outlive it.                                       *)
Forget == /\ arg' = [lo |-> 1, hi |-> 1] /\ merged' = arg'
          /\ todo' = {} /\ toDelete' = {}

AddRange(a) ==
    /\ pc = "idle"
    /\ pc' = "add" /\ arg' = a
    /\ todo' = rows
    /\ merged' = a /\ toDelete' = {}
    /\ UNCHANGED <<rows, asking, gaps, past>>

Hull(m, r) == [lo |-> Smaller(m.lo, r.lo), hi |-> Larger(m.hi, r.hi)]

(* One iteration of the fold.                                               *)
FoldRow ==
    /\ pc = "add" /\ todo # {}
    /\ LET r == First(todo)
       IN  /\ todo' = todo \ {r}
           /\ IF Touches(r, merged)
              THEN merged' = Hull(merged, r) /\ toDelete' = toDelete \cup {r}
              ELSE UNCHANGED adding
    /\ UNCHANGED <<rows, pc, arg, asking, gaps, past>>

(* executemany: one autocommitted DELETE per swallowed row.                 *)
DeleteRow ==
    /\ pc = "add" /\ todo = {}
    /\ toDelete \cap rows # {}
    /\ rows' = rows \ {First(toDelete \cap rows)}
    /\ UNCHANGED <<pc, arg, todo, adding, asking, gaps, past>>

\* Mutant: the asked range is inserted, not the merged one.
InsertUnmerged ==
    /\ pc = "add" /\ todo = {}
    /\ toDelete \cap rows = {}
    /\ rows' = rows \cup {arg}
    /\ pc' = "idle"
    /\ recorded' = recorded \cup Span(arg)
    /\ Forget
    /\ UNCHANGED <<asking, gaps, crashes>>

InsertMerged ==
    /\ pc = "add" /\ todo = {}
    /\ toDelete \cap rows = {}
    /\ rows' = rows \cup {merged}
    /\ pc' = "idle"
    /\ recorded' = recorded \cup Span(arg)
    /\ Forget
    /\ UNCHANGED <<asking, gaps, crashes>>

-----------------------------------------------------------------------------
MissingIds(a) ==
    /\ pc = "idle"
    /\ pc' = "ask" /\ arg' = a
    /\ todo' = {r \in rows : r.hi >= a.lo /\ r.lo <= a.hi}
    /\ cursor' = a.lo /\ missing' = {}
    /\ UNCHANGED <<rows, adding, gaps, past>>

\* Mutant: the cursor stops on the row's last id instead of after it.
ScanRowShort ==
    /\ pc = "ask" /\ todo # {}
    /\ LET r   == First(todo)
           rlo == Larger(r.lo, arg.lo)
           rhi == Smaller(r.hi, arg.hi)
       IN  /\ todo' = todo \ {r}
           /\ missing' = missing \cup (cursor .. rlo - 1)
           /\ cursor' = Larger(cursor, rhi)
    /\ UNCHANGED <<rows, pc, arg, adding, gaps, past>>

(* One iteration of the scan: the ids between the cursor and the row.       *)
ScanRow ==
    /\ pc = "ask" /\ todo # {}
    /\ LET r   == First(todo)
           rlo == Larger(r.lo, arg.lo)
           rhi == Smaller(r.hi, arg.hi)
       IN  /\ todo' = todo \ {r}
           /\ missing' = missing \cup (cursor .. rlo - 1)
           /\ cursor' = Larger(cursor, rhi + 1)
    /\ UNCHANGED <<rows, pc, arg, adding, gaps, past>>

Answer ==
    /\ pc = "ask" /\ todo = {}
    /\ gaps' = missing \cup (cursor .. arg.hi)
    /\ pc' = "idle"
    /\ cursor' = 1 /\ missing' = {}
    /\ Forget
    /\ UNCHANGED <<rows, past>>

(* The process is killed inside add_range; the statements executed stay.    *)
Crash ==
    /\ pc = "add" /\ crashes < MaxCrashes
    /\ crashes' = crashes + 1
    /\ pc' = "idle"
    /\ Forget
    /\ UNCHANGED <<rows, asking, gaps, recorded>>

Next ==
    \/ \E a \in Ranges : AddRange(a) \/ MissingIds(a)
    \/ FoldRow \/ DeleteRow \/ InsertMerged
    \/ ScanRow \/ Answer
    \/ Crash

Spec == Init /\ [][Next]_vars

-----------------------------------------------------------------------------
(* The table, the unfinished call's variables and the history kept about it  *)
(* stay within the ids and ranges of the instance; a range is never empty.   *)
TypeOK ==
    /\ rows \subseteq Ranges /\ pc \in {"idle", "add", "ask"}
    /\ arg \in Ranges /\ todo \subseteq Ranges
    /\ merged \in Ranges /\ toDelete \subseteq Ranges
    /\ cursor \in 1..MaxId + 1 /\ missing \subseteq Ids /\ gaps \subseteq Ids
    /\ recorded \subseteq Ids /\ crashes \in Nat

Apart(r, s) == r.hi + 1 < s.lo \/ s.hi + 1 < r.lo

(* No phantom seam (add_range's docstring): two rows never overlap nor sit   *)
(* side by side, whatever order the ranges arrive in and wherever a call is  *)
(* killed.                                                                   *)
RowsApart == \A r, s \in rows : r # s => Apart(r, s)

(* Merging never verifies an id nobody walked: every id the table covers     *)
(* belongs to a range some completed add_range call was given.               *)
NeverOverclaims == Covered(rows) \subseteq recorded

(* missing_ids answers with exactly the ids of the asked range that no row   *)
(* covers, on whatever table the calls and kills before it left.             *)
AnswersAreComplements ==
    [][pc = "ask" /\ pc' = "idle" => gaps' = Span(arg) \ Covered(rows)]_vars

\* While the swallowed rows are being deleted their ids still count.
coveredThroughout == Covered(rows \cup (IF pc = "add" THEN toDelete ELSE {}))

\* The call in hand, as its caller sees it.
inHand == IF pc = "idle" THEN [op |-> "none"] ELSE [op |-> pc, range |-> arg]

Promise == INSTANCE Coverage
               WITH covered <- coveredThroughout, call <- inHand, kills <- crashes

(* The coalescing is invisible: every behaviour of the table is a behaviour  *)
(* of the set of ids it stands for, which grows by whole ranges, answers     *)
(* with complements, and loses ids only when a call is killed: ids that      *)
(* verified ids joined to the very range of that call, and no others.        *)
KeepsPromise == Promise!Spec

-----------------------------------------------------------------------------
(* The inductive strengthening: what each loop has established so far.       *)
Folding ==
    pc = "add" =>
        /\ todo \subseteq rows /\ todo \cap toDelete = {}
        /\ merged.lo <= arg.lo /\ arg.hi <= merged.hi
        /\ \A r \in toDelete : merged.lo <= r.lo /\ r.hi <= merged.hi
        /\ \A i \in Span(merged) : i \in Span(arg)
                                      \/ \E r \in toDelete : i \in Span(r)
        /\ \A r \in toDelete : Span(r) \subseteq recorded
        /\ \A v \in rows \ todo : \A t \in todo : v.lo < t.lo
        /\ \A v \in rows \ (todo \cup toDelete) : Apart(v, merged)

Scanning ==
    pc = "ask" =>
        /\ todo \subseteq rows
        /\ arg.lo <= cursor /\ cursor <= arg.hi + 1
        /\ missing = (arg.lo .. cursor - 1) \ Covered(rows)
        /\ \A t \in todo : t.hi >= arg.lo /\ t.lo <= arg.hi
        /\ \A v \in rows \ todo :
              v.hi >= arg.lo /\ v.lo <= arg.hi => Smaller(v.hi, arg.hi) < cursor

IInv == TypeOK /\ RowsApart /\ NeverOverclaims /\ Folding /\ Scanning
=============================================================================
