-------------------------- MODULE RangeStoreProofs --------------------------
(***************************************************************************)
(* RangeStore for every number of ids and kills: the rows stay apart, they *)
(* never cover an id nobody verified, a query answers with the complement, *)
(* and the table implements Coverage, kills included.                      *)
(***************************************************************************)
EXTENDS RangeStore, TLAPS, WellFoundedInduction

LEMMA RangeFacts ==
    /\ MaxId \in Nat /\ MaxId >= 1
    /\ \A r \in Ranges : /\ r.lo \in Nat /\ r.hi \in Nat
                         /\ 1 <= r.lo /\ r.lo <= r.hi /\ r.hi <= MaxId
                         /\ r = [lo |-> r.lo, hi |-> r.hi]
    /\ \A a, b \in Ids : a <= b => [lo |-> a, hi |-> b] \in Ranges
BY RangeAssumption DEF Ranges, Ids

(* ORDER BY lo: a nonempty set of rows has one of smallest lo.              *)
LEMMA FirstWorks ==
    ASSUME NEW R, R \subseteq Ranges, R # {}
    PROVE  First(R) \in R /\ \A s \in R : First(R).lo <= s.lo
<1> DEFINE L == {r.lo : r \in R}
<1>1. L \subseteq Nat /\ L # {}
  <2>1. \A r \in R : r.lo \in Nat
    BY RangeFacts
  <2>2. PICK r \in R : TRUE
    OBVIOUS
  <2>3. r.lo \in L
    OBVIOUS
  <2> QED BY <2>1, <2>3
<1>2. PICK x \in L : \A y \in L : ~(<<y, x>> \in OpToRel(<, Nat))
  BY <1>1, NatLessThanWellFounded, WFMin
<1>3. \A y \in L : x <= y
  <2>1. TAKE y \in L
  <2>2. x \in Nat /\ y \in Nat
    BY <1>1
  <2>3. ~(y < x)
    BY <1>2, <2>2 DEF OpToRel
  <2> QED BY <2>2, <2>3
<1>4. PICK r \in R : r.lo = x
  OBVIOUS
<1>5. \A s \in R : r.lo <= s.lo
  BY <1>3, <1>4
<1> QED BY <1>5 DEF First

-----------------------------------------------------------------------------
LEMMA IInvInit == Init => IInv
<1> SUFFICES ASSUME Init PROVE IInv
  OBVIOUS
<1> USE RangeFacts DEF Init
<1>1. [lo |-> 1, hi |-> 1] \in Ranges
  BY DEF Ids
<1>2. TypeOK
  BY <1>1 DEF TypeOK
<1>3. RowsApart /\ NeverOverclaims /\ Folding /\ Scanning
  BY DEF RowsApart, NeverOverclaims, Covered, Folding, Scanning
<1> QED BY <1>2, <1>3 DEF IInv

(* Growing the merged span by a touching row adds that row's ids and no     *)
(* others.                                                                  *)
LEMMA HullWorks ==
    ASSUME NEW m \in Ranges, NEW r \in Ranges, Touches(r, m)
    PROVE  /\ Hull(m, r) \in Ranges
           /\ Hull(m, r).lo <= m.lo /\ m.hi <= Hull(m, r).hi
           /\ Hull(m, r).lo <= r.lo /\ r.hi <= Hull(m, r).hi
           /\ \A i \in Span(Hull(m, r)) : i \in Span(m) \/ i \in Span(r)
<1> USE RangeFacts
<1>1. Hull(m, r).lo \in Ids /\ Hull(m, r).hi \in Ids
  BY DEF Hull, Larger, Smaller, Ids
<1>2. /\ Hull(m, r).lo <= m.lo /\ m.hi <= Hull(m, r).hi
      /\ Hull(m, r).lo <= r.lo /\ r.hi <= Hull(m, r).hi
  BY DEF Hull, Larger, Smaller
<1>3. Hull(m, r) \in Ranges
  BY <1>1, <1>2 DEF Hull, Larger, Smaller, Ids
<1>4. \A i \in Span(Hull(m, r)) : i \in Span(m) \/ i \in Span(r)
  BY DEF Hull, Larger, Smaller, Span, Touches
<1> QED BY <1>2, <1>3, <1>4

LEMMA FoldRowInv == IInv /\ FoldRow => IInv'
<1> SUFFICES ASSUME IInv, FoldRow PROVE IInv'
  OBVIOUS
<1> USE RangeFacts DEF FoldRow, IInv, TypeOK
<1> DEFINE r == First(todo)
<1>1. r \in todo /\ \A s \in todo : r.lo <= s.lo
  BY FirstWorks
<1>2. r \in Ranges /\ r \in rows /\ merged \in Ranges
  BY <1>1 DEF Folding
<1>3. Span(r) \subseteq recorded
  <2>1. \A i \in Span(r) : i \in Covered(rows)
    BY <1>2 DEF Span, Covered, Ids
  <2> QED BY <2>1 DEF NeverOverclaims
<1>4. /\ \A v \in rows \ todo' : \A t \in todo' : v.lo < t.lo
      /\ todo' \subseteq rows /\ todo' = todo \ {r}
  <2>1. \A t \in todo \ {r} : t \in rows /\ r.lo <= t.lo /\ Apart(r, t)
    BY <1>1, <1>2 DEF Folding, RowsApart
  <2>2. \A t \in todo \ {r} : r.lo < t.lo
    BY <2>1, <1>2 DEF Apart
  <2> QED BY <2>2, <1>1 DEF Folding
<1>5. \A v \in rows \ todo : Apart(v, r) /\ v.hi + 1 < r.lo
  <2>1. \A v \in rows \ todo : v \in Ranges /\ Apart(v, r) /\ v.lo < r.lo
    BY <1>1, <1>2 DEF Folding, RowsApart
  <2> QED BY <2>1, <1>2 DEF Apart
<1>6. rows' = rows /\ pc' = "add" /\ pc = "add" /\ arg' = arg /\ recorded' = recorded
  BY DEF past
<1>7. CASE Touches(r, merged)
  <2>1. merged' = Hull(merged, r) /\ toDelete' = toDelete \cup {r}
    BY <1>7
  <2>2. /\ merged' \in Ranges
        /\ merged'.lo <= merged.lo /\ merged.hi <= merged'.hi
        /\ merged'.lo <= r.lo /\ r.hi <= merged'.hi
        /\ \A i \in Span(merged') : i \in Span(merged) \/ i \in Span(r)
    BY <2>1, <1>2, <1>7, HullWorks
  <2>3. TypeOK'
    BY <2>1, <2>2, <1>2, <1>4 DEF asking, past
  <2>4. RowsApart' /\ NeverOverclaims'
    BY <1>6 DEF RowsApart, NeverOverclaims, Covered
  <2>5. \A v \in rows \ (todo' \cup toDelete') : Apart(v, merged')
    <3>1. TAKE v \in rows \ (todo' \cup toDelete')
    <3>2. v \in rows \ (todo \cup toDelete) /\ v \in Ranges
      BY <2>1, <1>4
    <3>3. Apart(v, merged) /\ v.hi + 1 < r.lo
      BY <3>2, <1>5, <1>6 DEF Folding
    <3> QED BY <3>2, <3>3, <1>2, <1>7, <2>1 DEF Apart, Hull, Larger, Smaller, Touches
  <2>6. /\ merged'.lo <= arg.lo /\ arg.hi <= merged'.hi
        /\ \A q \in toDelete' : merged'.lo <= q.lo /\ q.hi <= merged'.hi
    BY <2>1, <2>2, <1>2, <1>6 DEF Folding
  <2>7. \A i \in Span(merged') : i \in Span(arg) \/ \E q \in toDelete' : i \in Span(q)
    BY <2>1, <2>2, <1>6 DEF Folding
  <2>8. \A q \in toDelete' : Span(q) \subseteq recorded
    BY <2>1, <1>3, <1>6 DEF Folding
  <2>9. todo' \cap toDelete' = {}
    BY <2>1, <1>4, <1>6 DEF Folding
  <2>10. Folding'
    BY <2>5, <2>6, <2>7, <2>8, <2>9, <1>4, <1>6 DEF Folding, Span
  <2>11. Scanning'
    BY <1>6 DEF Scanning
  <2> QED BY <2>3, <2>4, <2>10, <2>11
<1>8. CASE ~Touches(r, merged)
  <2>1. merged' = merged /\ toDelete' = toDelete
    BY <1>8 DEF adding
  <2>2. TypeOK'
    BY <2>1, <1>4 DEF asking, past
  <2>3. RowsApart' /\ NeverOverclaims'
    BY <1>6 DEF RowsApart, NeverOverclaims, Covered
  <2>4. Apart(r, merged)
    BY <1>8, <1>2 DEF Touches, Apart
  <2>5. \A v \in rows \ (todo' \cup toDelete') : Apart(v, merged')
    BY <2>1, <2>4, <1>4, <1>6 DEF Folding
  <2>6. Folding'
    BY <2>1, <2>5, <1>4, <1>6 DEF Folding, Span
  <2>7. Scanning'
    BY <1>6 DEF Scanning
  <2> QED BY <2>2, <2>3, <2>6, <2>7
<1> QED BY <1>7, <1>8

LEMMA InsertInv == IInv /\ InsertMerged => IInv'
<1> SUFFICES ASSUME IInv, InsertMerged PROVE IInv'
  OBVIOUS
<1> USE RangeFacts DEF InsertMerged, IInv, TypeOK
<1>1. Folding /\ pc = "add" /\ todo = {} /\ rows \cap toDelete = {}
  OBVIOUS
<1>2. TypeOK'
  <2>1. [lo |-> 1, hi |-> 1] \in Ranges
    BY DEF Ids
  <2>2. Span(arg) \subseteq Ids
    BY DEF Span, Ids
  <2> QED BY <2>1, <2>2 DEF Forget, asking
<1>3. RowsApart'
  <2>1. \A v \in rows : Apart(v, merged) /\ v \in Ranges
    BY <1>1 DEF Folding
  <2>2. \A v \in rows : Apart(merged, v)
    BY <2>1 DEF Apart
  <2> QED BY <2>1, <2>2 DEF RowsApart
<1>4. NeverOverclaims'
  <2>1. recorded' = recorded \cup Span(arg) /\ rows' = rows \cup {merged}
    OBVIOUS
  <2>2. Span(merged) \subseteq recorded'
    BY <1>1, <2>1 DEF Folding
  <2>3. \A i \in Covered(rows') : i \in Covered(rows) \/ i \in Span(merged)
    BY <2>1 DEF Covered, Span, Ids
  <2> QED BY <2>1, <2>2, <2>3 DEF NeverOverclaims
<1>5. Folding' /\ Scanning'
  BY DEF Folding, Scanning
<1> QED BY <1>2, <1>3, <1>4, <1>5

LEMMA ScanRowInv == IInv /\ ScanRow => IInv'
<1> SUFFICES ASSUME IInv, ScanRow PROVE IInv'
  OBVIOUS
<1> USE RangeFacts DEF ScanRow, IInv, TypeOK
<1> DEFINE r   == First(todo)
           rlo == Larger(r.lo, arg.lo)
           rhi == Smaller(r.hi, arg.hi)
<1>1. r \in todo /\ \A s \in todo : r.lo <= s.lo
  BY FirstWorks
<1>2. /\ Scanning /\ pc = "ask" /\ pc' = "ask" /\ rows' = rows /\ arg' = arg
      /\ todo' = todo \ {r} /\ missing' = missing \cup (cursor .. rlo - 1)
      /\ cursor' = Larger(cursor, rhi + 1) /\ recorded' = recorded
  BY DEF past
<1>3. /\ r \in Ranges /\ r \in rows /\ r.hi >= arg.lo /\ r.lo <= arg.hi
      /\ arg \in Ranges /\ arg.lo <= cursor /\ cursor <= arg.hi + 1
      /\ cursor \in Nat
  BY <1>1, <1>2 DEF Scanning
<1>4. /\ arg.lo <= rlo /\ rlo <= arg.hi /\ rlo <= rhi /\ rhi <= arg.hi
      /\ r.lo <= rlo /\ rhi <= r.hi /\ rlo \in Nat /\ rhi \in Nat
      /\ rlo = r.lo \/ rlo = arg.lo
  BY <1>3 DEF Larger, Smaller
<1>5. /\ cursor' \in Nat /\ cursor <= cursor' /\ rhi < cursor'
      /\ cursor' = cursor \/ cursor' = rhi + 1
  BY <1>2, <1>3, <1>4 DEF Larger
<1> HIDE DEF r, rlo, rhi
<1>6. \A i \in cursor .. rlo - 1 : i \notin Covered(rows)
  <2> SUFFICES ASSUME NEW i \in cursor .. rlo - 1,
                      NEW q \in rows, q.lo <= i, i <= q.hi
               PROVE  FALSE
    BY DEF Covered
  <2>1. i \in Nat /\ arg.lo <= i /\ i < rlo /\ i < r.lo /\ i < arg.hi /\ cursor <= i
    BY <1>3, <1>4
  <2>2. q \in Ranges /\ q.hi >= arg.lo /\ q.lo <= arg.hi
    BY <2>1, <1>3
  <2>3. CASE q \in todo
    BY <2>3, <1>1, <1>3, <2>1, <2>2
  <2>4. CASE q \notin todo
    <3>1. Smaller(q.hi, arg.hi) < cursor
      BY <2>2, <2>4, <1>2 DEF Scanning
    <3> QED BY <3>1, <2>1, <2>2, <1>3 DEF Smaller
  <2> QED BY <2>3, <2>4
<1>7. \A i \in rlo .. rhi : i \in Covered(rows)
  BY <1>3, <1>4 DEF Covered, Ids
<1>8. missing' = (arg.lo .. cursor' - 1) \ Covered(rows)
  <2>1. missing = (arg.lo .. cursor - 1) \ Covered(rows)
    BY <1>2 DEF Scanning
  <2>2. \A i \in missing' : i \in (arg.lo .. cursor' - 1) \ Covered(rows)
    <3>1. TAKE i \in missing'
    <3>2. CASE i \in missing
      BY <3>2, <2>1, <1>3, <1>5
    <3>3. CASE i \in cursor .. rlo - 1
      <4>1. i \notin Covered(rows)
        BY <3>3, <1>6
      <4>2. i \in arg.lo .. cursor' - 1
        BY <3>3, <1>3, <1>4, <1>5
      <4> QED BY <4>1, <4>2
    <3> QED BY <3>2, <3>3, <1>2
  <2>3. \A i \in (arg.lo .. cursor' - 1) \ Covered(rows) : i \in missing'
    <3>1. TAKE i \in (arg.lo .. cursor' - 1) \ Covered(rows)
    <3>2. i \in Int /\ arg.lo <= i /\ i < cursor'
      BY <1>3, <1>5
    <3>3. CASE i < cursor
      BY <3>3, <3>2, <2>1, <1>2, <1>3
    <3>4. CASE i >= cursor /\ i < rlo
      BY <3>4, <3>2, <1>2, <1>3, <1>4
    <3>5. CASE i >= cursor /\ i >= rlo
      <4>1. i <= rhi
        BY <3>2, <3>5, <1>3, <1>4, <1>5
      <4> QED BY <4>1, <3>2, <3>5, <1>4, <1>7
    <3> QED BY <3>2, <3>3, <3>4, <3>5, <1>3, <1>4
  <2> QED BY <2>2, <2>3
<1>9. TypeOK'
  <2>1. missing' \subseteq Ids
    BY <1>2, <1>3, <1>4 DEF Ids
  <2>2. cursor' \in 1..MaxId + 1
    BY <1>3, <1>4, <1>5
  <2> QED BY <2>1, <2>2, <1>2 DEF adding, past
<1>10. Scanning'
  <2>1. \A v \in rows \ todo' :
            v.hi >= arg.lo /\ v.lo <= arg.hi => Smaller(v.hi, arg.hi) < cursor'
    <3>1. TAKE v \in rows \ todo'
    <3>2. CASE v = r
      BY <3>2, <1>5 DEF rhi
    <3>3. CASE v # r
      <4>1. v \in rows \ todo /\ v \in Ranges
        BY <3>3, <1>2
      <4>2. v.hi >= arg.lo /\ v.lo <= arg.hi => Smaller(v.hi, arg.hi) < cursor
        BY <4>1, <1>2 DEF Scanning
      <4> QED BY <4>1, <4>2, <1>3, <1>5 DEF Smaller
    <3> QED BY <3>2, <3>3
  <2>2. arg.lo <= cursor' /\ cursor' <= arg.hi + 1
    BY <1>3, <1>4, <1>5
  <2>3. todo' \subseteq rows /\ \A t \in todo' : t.hi >= arg.lo /\ t.lo <= arg.hi
    BY <1>2 DEF Scanning
  <2> QED BY <2>1, <2>2, <2>3, <1>2, <1>8 DEF Scanning
<1>11. RowsApart' /\ NeverOverclaims' /\ Folding'
  BY <1>2 DEF RowsApart, NeverOverclaims, Covered, Folding
<1> QED BY <1>9, <1>10, <1>11

(* When every row has been scanned, the tail after the cursor is missing too. *)
LEMMA AnswerIsComplement ==
    IInv /\ Answer => gaps' = Span(arg) \ Covered(rows)
<1> SUFFICES ASSUME IInv, Answer PROVE gaps' = Span(arg) \ Covered(rows)
  OBVIOUS
<1> USE RangeFacts DEF Answer, IInv, TypeOK
<1>1. /\ missing = (arg.lo .. cursor - 1) \ Covered(rows)
      /\ \A v \in rows : v.hi >= arg.lo /\ v.lo <= arg.hi
                            => Smaller(v.hi, arg.hi) < cursor
      /\ arg \in Ranges /\ arg.lo <= cursor /\ cursor <= arg.hi + 1 /\ cursor \in Nat
  BY DEF Scanning
<1>2. \A i \in cursor .. arg.hi : i \notin Covered(rows)
  <2> SUFFICES ASSUME NEW i \in cursor .. arg.hi,
                      NEW q \in rows, q.lo <= i, i <= q.hi
               PROVE  FALSE
    BY DEF Covered
  <2>1. q \in Ranges /\ q.hi >= arg.lo /\ q.lo <= arg.hi
    BY <1>1
  <2> QED BY <2>1, <1>1 DEF Smaller
<1> QED BY <1>1, <1>2 DEF Span

LEMMA IInvNext == IInv /\ [Next]_vars => IInv'
<1> SUFFICES ASSUME IInv, [Next]_vars PROVE IInv'
  OBVIOUS
<1> USE RangeFacts DEF IInv, TypeOK
<1>1. ASSUME NEW a \in Ranges, AddRange(a) PROVE IInv'
  <2> USE <1>1 DEF AddRange
  <2>1. TypeOK'
    BY DEF asking, past
  <2>2. RowsApart' /\ NeverOverclaims' /\ Scanning'
    BY DEF RowsApart, NeverOverclaims, Covered, Scanning, past
  <2>3. Folding'
    BY DEF Folding, past, Span
  <2> QED BY <2>1, <2>2, <2>3
<1>2. ASSUME NEW a \in Ranges, MissingIds(a) PROVE IInv'
  <2> USE <1>2 DEF MissingIds
  <2>1. TypeOK'
    BY DEF adding, past, Ids
  <2>2. RowsApart' /\ NeverOverclaims' /\ Folding'
    BY DEF RowsApart, NeverOverclaims, Covered, Folding, past
  <2>3. Scanning'
    BY DEF Scanning
  <2> QED BY <2>1, <2>2, <2>3
<1>3. CASE FoldRow
  BY <1>3, FoldRowInv
<1>4. CASE DeleteRow
  <2> USE <1>4 DEF DeleteRow
  <2>1. TypeOK'
    BY DEF adding, asking, past
  <2>2. RowsApart' /\ NeverOverclaims' /\ Scanning'
    BY DEF RowsApart, NeverOverclaims, Covered, Scanning, past
  <2>3. Folding'
    BY DEF Folding, past, adding, Span
  <2> QED BY <2>1, <2>2, <2>3
<1>5. CASE InsertMerged
  BY <1>5, InsertInv
<1>6. CASE ScanRow
  BY <1>6, ScanRowInv
<1>7. CASE Answer
  <2> USE <1>7 DEF Answer
  <2>1. TypeOK'
    <3>1. gaps' \subseteq Ids
      BY AnswerIsComplement DEF Span, Ids
    <3>2. [lo |-> 1, hi |-> 1] \in Ranges
      BY DEF Ids
    <3> QED BY <3>1, <3>2 DEF Forget, past
  <2>2. RowsApart' /\ NeverOverclaims' /\ Scanning' /\ Folding'
    BY DEF RowsApart, NeverOverclaims, Covered, Scanning, Folding, past
  <2> QED BY <2>1, <2>2
<1>8. CASE Crash
  <2> USE <1>8 DEF Crash
  <2>1. TypeOK'
    <3>1. [lo |-> 1, hi |-> 1] \in Ranges
      BY DEF Ids
    <3> QED BY <3>1, RangeAssumption DEF Forget, asking
  <2>2. RowsApart' /\ NeverOverclaims' /\ Scanning' /\ Folding'
    BY DEF RowsApart, NeverOverclaims, Covered, Scanning, Folding
  <2> QED BY <2>1, <2>2
<1>9. CASE UNCHANGED vars
  BY <1>9 DEF vars, adding, asking, past, RowsApart, NeverOverclaims, Covered,
              Folding, Scanning, Span
<1> QED BY <1>1, <1>2, <1>3, <1>4, <1>5, <1>6, <1>7, <1>8, <1>9 DEF Next

-----------------------------------------------------------------------------
(* The table's types (store/sync.py, add_range and missing_ids).            *)
THEOREM RangeTypeCorrect == Spec => []TypeOK
<1>1. IInv => TypeOK
  BY DEF IInv
<1> QED BY IInvInit, IInvNext, <1>1, PTL DEF Spec

(* No phantom seam: add_range leaves no two rows that touch, wherever a     *)
(* call is killed.                                                          *)
THEOREM NoPhantomSeam == Spec => []RowsApart
<1>1. IInv => RowsApart
  BY DEF IInv
<1> QED BY IInvInit, IInvNext, <1>1, PTL DEF Spec

(* add_range never covers an id no completed call was given.                *)
THEOREM OnlyRecordedIsCovered == Spec => []NeverOverclaims
<1>1. IInv => NeverOverclaims
  BY DEF IInv
<1> QED BY IInvInit, IInvNext, <1>1, PTL DEF Spec

(* missing_ids answers with the complement of the rows, whatever table the  *)
(* calls and kills before it left.                                          *)
THEOREM QueriesAreComplements == Spec => AnswersAreComplements
<1>1. ASSUME IInv, [Next]_vars
      PROVE  [pc = "ask" /\ pc' = "idle" => gaps' = Span(arg) \ Covered(rows)]_vars
  <2>1. CASE Answer
    BY <2>1, <1>1, AnswerIsComplement
  <2>2. CASE ~Answer
    BY <2>2, <1>1 DEF Next, vars, AddRange, MissingIds, FoldRow, DeleteRow,
                      InsertMerged, ScanRow, Crash
  <2> QED BY <2>1, <2>2
<1> QED BY IInvInit, IInvNext, <1>1, PTL DEF Spec, AnswersAreComplements

-----------------------------------------------------------------------------
(* The insert replaces the swallowed rows by their ids and the new range's. *)
LEMMA InsertAdds ==
    ASSUME IInv, InsertMerged
    PROVE  Covered(rows') = Covered(rows \cup toDelete) \cup Span(arg)
<1> USE RangeFacts DEF InsertMerged, IInv, TypeOK
<1>1. Folding /\ rows' = rows \cup {merged} /\ pc = "add"
  OBVIOUS
<1>2. \A i \in Covered(rows') : i \in Covered(rows \cup toDelete) \cup Span(arg)
  <2>1. TAKE i \in Covered(rows')
  <2>2. i \in Ids /\ (i \in Covered(rows) \/ i \in Span(merged))
    BY <1>1 DEF Covered, Span, Ids
  <2>3. CASE i \in Covered(rows)
    BY <2>3 DEF Covered
  <2>4. CASE i \in Span(merged)
    BY <2>4, <2>2, <1>1 DEF Folding, Covered, Span, Ids
  <2> QED BY <2>2, <2>3, <2>4
<1>3. \A i \in Covered(rows \cup toDelete) \cup Span(arg) : i \in Covered(rows')
  <2>1. \A i \in Span(merged) : i \in Covered(rows')
    BY <1>1 DEF Covered, Span, Ids
  <2>2. \A i \in Covered(rows) : i \in Covered(rows')
    BY <1>1 DEF Covered
  <2>3. \A q \in toDelete : \A i \in Ids : q.lo <= i /\ i <= q.hi => i \in Span(merged)
    BY <1>1 DEF Folding, Span, Ids
  <2>4. \A i \in Span(arg) : i \in Span(merged)
    BY <1>1 DEF Folding, Span
  <2> QED BY <2>1, <2>2, <2>3, <2>4 DEF Covered
<1> QED BY <1>2, <1>3

(* What a kill can lose lies in the merged span, whose ids are all verified *)
(* or being verified.                                                       *)
LEMMA LostIsJoined ==
    ASSUME IInv, pc = "add",
           NEW i \in Covered(rows \cup toDelete) \ Covered(rows),
           NEW j \in Ids, (i <= j /\ j < arg.lo) \/ (arg.hi < j /\ j <= i)
    PROVE  j \in Covered(rows \cup toDelete)
<1> USE RangeFacts DEF IInv, TypeOK, Ids
<1>1. PICK r \in toDelete : r.lo <= i /\ i <= r.hi
  BY DEF Covered
<1>2. Folding /\ r \in Ranges /\ merged \in Ranges /\ arg \in Ranges /\ i \in Ids
  BY <1>1 DEF Covered
<1>3. merged.lo <= j /\ j <= merged.hi
  BY <1>1, <1>2 DEF Folding
<1>4. j \in Span(merged) /\ j \notin Span(arg)
  BY <1>2, <1>3 DEF Span
<1>5. PICK s \in toDelete : j \in Span(s)
  BY <1>4, <1>2 DEF Folding
<1>6. s \in Ranges /\ s.lo <= j /\ j <= s.hi
  BY <1>5 DEF Span
<1> QED BY <1>5, <1>6 DEF Covered

(* sync_ranges implements the set of ids it stands for: the fold and the    *)
(* deletions are invisible, the insert adds the range of the call in hand,  *)
(* and a kill loses nothing but verified ids joined to that very range.     *)
THEOREM TableKeepsPromise == Spec => KeepsPromise
<1> USE RangeFacts
<1> DEFINE shown == <<coveredThroughout, gaps, inHand, crashes>>
<1>1. Init => IInv /\ Promise!Init
  BY IInvInit DEF Init, Promise!Init, Promise!NoCall, coveredThroughout, Covered, inHand
<1>2. /\ Promise!Ranges = Ranges /\ \A r : Promise!Span(r) = Span(r)
      /\ \A op, r : Promise!Call(op, r) = [op |-> op, range |-> r]
      /\ Promise!NoCall = [op |-> "none"]
  BY DEF Promise!Ranges, Promise!Ids, Promise!Span, Promise!Call, Promise!NoCall,
         Ranges, Ids, Span
<1>3. IInv /\ [Next]_vars => IInv'
  BY IInvNext
<1>4. ASSUME IInv, [Next]_vars PROVE [Promise!Next]_shown
  <2>1. ASSUME NEW a \in Ranges, AddRange(a) \/ MissingIds(a) PROVE Promise!Next
    <3>1. /\ pc = "idle" /\ pc' \in {"add", "ask"} /\ arg' = a
          /\ rows' = rows /\ gaps' = gaps /\ crashes' = crashes
          /\ pc' = "add" => toDelete' = {}
      BY <2>1 DEF AddRange, MissingIds, past
    <3>2. inHand = [op |-> "none"] /\ inHand' = [op |-> pc', range |-> a]
      BY <3>1 DEF inHand
    <3>3. coveredThroughout' = coveredThroughout
      <4>1. rows \cup {} = rows
        OBVIOUS
      <4> QED BY <3>1, <4>1 DEF coveredThroughout
    <3>4. Promise!Begin(pc', a)
      BY <3>1, <3>2, <3>3, <1>2 DEF Promise!Begin
    <3> QED BY <3>1, <3>4, <1>2 DEF Promise!Next
  <2>2. CASE FoldRow
    <3>1. First(todo) \in todo /\ todo \subseteq rows
      BY <2>2, <1>4, FirstWorks DEF FoldRow, IInv, TypeOK, Folding
    <3>2. rows' \cup toDelete' = rows \cup toDelete /\ pc' = "add" /\ pc = "add"
      BY <2>2, <3>1 DEF FoldRow, adding
    <3> QED BY <2>2, <3>2 DEF FoldRow, coveredThroughout, inHand, past
  <2>3. CASE DeleteRow
    <3>1. First(toDelete \cap rows) \in toDelete
      <4>1. toDelete \cap rows \subseteq Ranges /\ toDelete \cap rows # {}
        BY <2>3, <1>4 DEF DeleteRow, IInv, TypeOK
      <4> QED BY <4>1, FirstWorks
    <3>2. rows' \cup toDelete' = rows \cup toDelete /\ pc' = "add" /\ pc = "add"
      BY <2>3, <3>1 DEF DeleteRow, adding
    <3> QED BY <2>3, <3>2 DEF DeleteRow, coveredThroughout, inHand, past
  <2>4. CASE InsertMerged
    <3>1. Covered(rows') = Covered(rows \cup toDelete) \cup Span(arg)
      BY <2>4, <1>4, InsertAdds
    <3>2. coveredThroughout = Covered(rows \cup toDelete)
      BY <2>4 DEF InsertMerged, coveredThroughout
    <3>3. rows' \cup {} = rows' /\ coveredThroughout' = Covered(rows')
      BY <2>4 DEF InsertMerged, coveredThroughout
    <3>4. /\ inHand = [op |-> "add", range |-> arg] /\ inHand' = [op |-> "none"]
          /\ gaps' = gaps /\ crashes' = crashes
      BY <2>4 DEF InsertMerged, inHand
    <3>5. Promise!Add
      BY <3>1, <3>2, <3>3, <3>4, <1>2 DEF Promise!Add, Promise!End, Promise!Grown
    <3> QED BY <3>5 DEF Promise!Next
  <2>5. CASE ScanRow
    BY <2>5 DEF ScanRow, coveredThroughout, adding, inHand, past
  <2>6. CASE Answer
    <3>1. gaps' = Span(arg) \ Covered(rows)
      BY <2>6, <1>4, AnswerIsComplement
    <3>2. coveredThroughout = Covered(rows) /\ coveredThroughout' = Covered(rows)
      <4>1. rows' = rows /\ pc = "ask" /\ pc' = "idle" /\ rows \cup {} = rows
        BY <2>6 DEF Answer
      <4> QED BY <4>1 DEF coveredThroughout
    <3>3. /\ inHand = [op |-> "ask", range |-> arg] /\ inHand' = [op |-> "none"]
          /\ crashes' = crashes
      BY <2>6 DEF Answer, inHand, past
    <3>4. Promise!Ask
      BY <3>1, <3>2, <3>3, <1>2 DEF Promise!Ask, Promise!End
    <3> QED BY <3>4 DEF Promise!Next
  <2>7. CASE Crash
    <3>1. coveredThroughout = Covered(rows \cup toDelete)
          /\ coveredThroughout' = Covered(rows)
      <4>1. pc = "add" /\ pc' = "idle" /\ rows' = rows /\ rows \cup {} = rows
        BY <2>7 DEF Crash
      <4> QED BY <4>1 DEF coveredThroughout
    <3>2. coveredThroughout' \subseteq coveredThroughout
      BY <3>1 DEF Covered
    <3>3. \A i \in coveredThroughout \ coveredThroughout' : Promise!Joined(i, arg)
      <4> TAKE i \in coveredThroughout \ coveredThroughout'
      <4>1. \A j \in Ids : (i <= j /\ j < arg.lo) \/ (arg.hi < j /\ j <= i)
               => j \in Covered(rows \cup toDelete)
        BY <3>1, <2>7, <1>4, LostIsJoined DEF Crash
      <4> QED BY <3>1, <4>1 DEF Promise!Joined, Promise!Ids, Ids
    <3>4. /\ inHand = [op |-> "add", range |-> arg] /\ inHand' = [op |-> "none"]
          /\ gaps' = gaps /\ crashes' = crashes + 1
      BY <2>7 DEF Crash, inHand
    <3>5. Promise!Killed
      BY <3>2, <3>3, <3>4, <1>2 DEF Promise!Killed, Promise!End, Promise!Cut
    <3> QED BY <3>5 DEF Promise!Next
  <2>8. CASE UNCHANGED vars
    BY <2>8 DEF vars, adding, coveredThroughout, inHand, past
  <2> QED BY <1>4, <2>1, <2>2, <2>3, <2>4, <2>5, <2>6, <2>7, <2>8 DEF Next
<1> QED BY <1>1, <1>3, <1>4, PTL DEF Spec, KeepsPromise, Promise!Spec
=============================================================================
