------------------------- MODULE HistorySweepProofs -------------------------
(***************************************************************************)
(* Theorems about HistorySweep, for every page size, chunk size, budget    *)
(* and number of ids: its types, that nothing is stranded below the        *)
(* committed high-water mark, and that a verified span is honest.          *)
(***************************************************************************)
EXTENDS HistorySweep, TLAPS, WellFoundedInduction

-----------------------------------------------------------------------------
(* A nonempty set of naturals has a least element: what Smallest chooses.   *)
LEMMA SmallestWorks ==
    ASSUME NEW S, S \subseteq Nat, S # {}
    PROVE  Smallest(S) \in S /\ \A j \in S : Smallest(S) <= j
<1>1. PICK x \in S : \A y \in S : ~(<<y, x>> \in OpToRel(<, Nat))
  BY NatLessThanWellFounded, WFMin
<1>2. \A j \in S : x <= j
  <2>1. TAKE j \in S
  <2>2. ~(<<j, x>> \in OpToRel(<, Nat))
    BY <1>1, <2>1
  <2>3. ~(j < x)
    BY <2>2, <2>1 DEF OpToRel
  <2> QED BY <2>3
<1> QED BY <1>2 DEF Smallest

(* A nonempty bounded set of naturals has a greatest element: what Largest  *)
(* chooses.                                                                 *)
LEMMA LargestWorks ==
    ASSUME NEW b \in Nat, NEW S, S \subseteq 0..b, S # {}
    PROVE  Largest(S) \in S /\ \A j \in S : Largest(S) >= j
<1> DEFINE T == {b - i : i \in S}
<1>1. T \subseteq Nat /\ T # {}
  <2>1. ASSUME NEW i \in S PROVE b - i \in Nat
    <3>1. i \in Nat /\ i <= b
      OBVIOUS
    <3> QED BY <3>1
  <2>2. PICK i \in S : TRUE
    OBVIOUS
  <2>3. b - i \in T
    OBVIOUS
  <2> QED BY <2>1, <2>3
<1>2. Smallest(T) \in T /\ \A j \in T : Smallest(T) <= j
  BY <1>1, SmallestWorks
<1>3. PICK x \in S : Smallest(T) = b - x
  BY <1>2
<1>4. \A j \in S : x >= j
  <2>1. TAKE j \in S
  <2>2. b - x <= b - j
    BY <1>2, <1>3
  <2>3. x \in Nat /\ j \in Nat
    OBVIOUS
  <2> QED BY <2>2, <2>3
<1> QED BY <1>4 DEF Largest

(* The extremes of a nonempty set of message ids.                           *)
LEMMA Extremes ==
    ASSUME NEW S, S \subseteq Ids, S # {}
    PROVE  /\ Smallest(S) \in S /\ Largest(S) \in S
           /\ \A j \in S : Smallest(S) <= j /\ j <= Largest(S)
<1>1. S \subseteq Nat /\ S \subseteq 0..MaxId /\ MaxId \in Nat
  BY SweepAssumption DEF Ids
<1>2. Smallest(S) \in S /\ \A j \in S : Smallest(S) <= j
  BY <1>1, SmallestWorks
<1>3. Largest(S) \in S /\ \A j \in S : Largest(S) >= j
  BY <1>1, LargestWorks
<1>4. \A j \in S : j <= Largest(S)
  BY <1>1, <1>3
<1> QED BY <1>2, <1>3, <1>4

-----------------------------------------------------------------------------
(* The strengthened invariant holds before the first run.                   *)
LEMMA IInvInit == Init => IInv
<1> USE SweepAssumption DEF Ids, Init
<1>1. ASSUME Init PROVE TypeOK
  <2>1. posted \in 0..MaxId /\ live \subseteq 1..posted
    BY <1>1
  <2>2. sweep \in Sweeps
    BY <1>1 DEF Sweeps
  <2>3. complete \in BOOLEAN /\ pc \in Locations /\ kind \in RunKinds
    BY <1>1, Zenon DEF Locations, RunKinds
  <2>4. 0 \in 0..MaxId
    OBVIOUS
  <2> QED BY <1>1, <2>1, <2>2, <2>3, <2>4 DEF TypeOK
<1>2. Init => NothingStranded /\ ResumeIsSafe
  BY DEF NothingStranded, ResumeIsSafe
<1>3. Init => Bounded /\ Walked /\ PageInHand /\ Arrived
  BY DEF Bounded, Walked, PageInHand, Arrived
<1> QED BY <1>1, <1>2, <1>3 DEF IInv

(* What add_range does to the verified ids: a call that completes adds the  *)
(* walked span, and one that is killed adds nothing.                        *)
LEMMA SpanRecorded ==
    ASSUME TypeOK, pc = "probe" => minId # 0, VerifySpan \/ KillInAddRange
    PROVE  /\ pc = "probe" /\ toProbe = {} /\ pc' = "idle"
           /\ UNCHANGED <<server, stored, tombs, offsetId, sweep, local>>
           /\ \/ /\ verified' = verified \cup {i \in Ids : minId <= i /\ i <= maxId}
                 /\ UNCHANGED interrupts
              \/ verified' \subseteq verified /\ interrupts' = interrupts + 1
<1>1. CASE VerifySpan
  <2>1. pc = "probe" /\ toProbe = {} /\ pc' = "idle" /\ Ranges!Grown(span)
        /\ UNCHANGED <<server, stored, tombs, offsetId, sweep, interrupts, local>>
    BY <1>1 DEF VerifySpan
  <2>2. verified' = verified \cup (minId .. maxId) /\ UNCHANGED interrupts
    BY <2>1 DEF Ranges!Grown, Ranges!Span, span
  <2>3. minId .. maxId = {i \in Ids : minId <= i /\ i <= maxId}
    BY <2>1, SweepAssumption DEF TypeOK, Ids
  <2> QED BY <2>1, <2>2, <2>3
<1>2. CASE KillInAddRange
  <2>1. pc = "probe" /\ toProbe = {} /\ pc' = "idle" /\ verified' \subseteq verified
        /\ interrupts' = interrupts + 1
        /\ UNCHANGED <<server, stored, tombs, offsetId, sweep, local>>
    BY <1>2 DEF KillInAddRange
  <2> QED BY <2>1
<1> QED BY <1>1, <1>2

(* Every step preserves it.                                                 *)
LEMMA IInvNext == IInv /\ [Next]_vars => IInv'
<1> SUFFICES ASSUME IInv, [Next]_vars PROVE IInv'
  OBVIOUS
<1> USE SweepAssumption DEF IInv, Ids
<1>1. CASE Post
  <2> USE <1>1 DEF Post, disk, local, paging, pageVs, seen
  <2>1. TypeOK'
    BY DEF TypeOK, Sweeps, Locations, RunKinds
  <2>2. NothingStranded'
    BY DEF NothingStranded, TypeOK, Bounded, Sweeps
  <2>3. ResumeIsSafe'
    BY DEF ResumeIsSafe, TypeOK, Bounded, Sweeps
  <2>4. Bounded'
    BY DEF Bounded, TypeOK, Sweeps
  <2>5. Walked'
    BY DEF Walked, Bounded, TypeOK, Sweeps
  <2>6. PageInHand'
    <3> SUFFICES ASSUME pc = "observe" PROVE PageInHand'
      BY DEF PageInHand
    <3>1. page # {} /\ page \subseteq 1..posted /\ empties \subseteq page
      BY DEF PageInHand, TypeOK
    <3>2. Largest(page) \in 1..posted
      BY <3>1, Extremes DEF TypeOK
    <3>3. Larger(pendingHigh, Largest(page)) < posted + 1
      BY <3>2 DEF Larger, Bounded, TypeOK
    <3>4. posted + 1 \notin empties
      BY <3>1 DEF TypeOK
    <3>5. \A i \in live' : i <= Larger(pendingHigh, Largest(page)) => i \in live
      BY <3>2, <3>3 DEF TypeOK, Larger
    <3>6. empties' \cap live' = {} /\ page' \subseteq 1..posted'
      BY <3>1, <3>4 DEF PageInHand, TypeOK
    <3>7. \A i \in live' :
            Smallest(page) <= i /\ i <= Larger(pendingHigh, Largest(page))
              => i \in stored \cup unread
      BY <3>5 DEF PageInHand
    <3> QED BY <3>1, <3>6, <3>7 DEF PageInHand
  <2>7. Arrived'
    BY DEF Arrived, Bounded, TypeOK
  <2> QED BY <2>1, <2>2, <2>3, <2>4, <2>5, <2>6, <2>7
<1>2. CASE Delete
  <2> USE <1>2 DEF Delete, disk, local, paging, pageVs, seen
  <2>1. TypeOK'
    BY DEF TypeOK, Sweeps, Locations, RunKinds
  <2>2. NothingStranded' /\ ResumeIsSafe' /\ Bounded'
    BY DEF NothingStranded, ResumeIsSafe, Bounded
  <2>3. Walked' /\ PageInHand' /\ Arrived'
    BY DEF Walked, PageInHand, Arrived
  <2> QED BY <2>1, <2>2, <2>3
<1>3. ASSUME NEW k \in RunKinds, StartRun(k) PROVE IInv'
  <2> USE <1>3 DEF StartRun, StartCursor, server, disk, pageVs
  <2>1. TypeOK'
    BY DEF TypeOK, Sweeps, Locations, RunKinds
  <2>2. NothingStranded' /\ ResumeIsSafe'
    BY DEF NothingStranded, ResumeIsSafe
  <2>3. Bounded'
    BY DEF Bounded, TypeOK, Sweeps
  <2>4. Walked'
    BY DEF Walked, Bounded, ResumeIsSafe, NothingStranded, TypeOK, Sweeps
  <2>5. PageInHand' /\ Arrived'
    BY DEF PageInHand, Arrived
  <2> QED BY <2>1, <2>2, <2>3, <2>4, <2>5
<1>4. CASE FetchPage
  <2> USE <1>4 DEF server, disk, seen
  <2> DEFINE older(gone) == (live \cup gone) \cap Below(cursor)
  <2>1. PICK gone \in SUBSET ((Placeholders \cap (1..posted)) \ live), k \in Ids :
          LET answer == {i \in older(gone) : i >= k}
          IN  /\ answer = {} => older(gone) = {}
              /\ page' = answer
              /\ empties' = answer \cap gone
              /\ unread' = answer
              /\ pc' = IF answer = {} THEN "settle" ELSE "observe"
              /\ complete' = (complete \/ answer = {})
    BY Zenon DEF FetchPage
  <2>2. pc = "fetch" /\ UNCHANGED <<server, disk, interrupts, kind, cursor,
            pendingHigh, pages, seen, toProbe>>
    BY DEF FetchPage
  <2> HIDE <1>4
  <2>3. page' \subseteq 1..posted /\ page' \subseteq Ids
    BY <2>1 DEF TypeOK, Below
  <2>4. TypeOK'
    BY <2>1, <2>2, <2>3 DEF TypeOK, Sweeps, Locations, RunKinds
  <2>5. NothingStranded' /\ ResumeIsSafe' /\ Bounded'
    BY <2>1, <2>2 DEF NothingStranded, ResumeIsSafe, Bounded
  <2>6. Walked'
    <3>1. CASE page' = {}
      BY <3>1, <2>1 DEF Walked
    <3>2. CASE page' # {}
      <4>1. complete' = complete /\ pc' = "observe"
        BY <3>2, <2>1 DEF TypeOK
      <4> QED BY <4>1, <2>2 DEF Walked
    <3> QED BY <3>1, <3>2
  <2>7. PageInHand'
    <3> SUFFICES ASSUME page' # {} PROVE PageInHand'
      BY <2>1 DEF PageInHand
    <3>1. Smallest(page') \in page' /\ Largest(page') \in page'
          /\ \A j \in page' : Smallest(page') <= j /\ j <= Largest(page')
          /\ Smallest(page') \in Nat /\ Largest(page') \in Nat
      <4>1. Smallest(page') \in page' /\ Largest(page') \in page'
            /\ \A j \in page' : Smallest(page') <= j /\ j <= Largest(page')
        BY <2>3, Extremes
      <4>2. page' \subseteq Nat
        BY <2>3
      <4> QED BY <4>1, <4>2, Zenon
    <3>2. ASSUME NEW i \in live', Smallest(page') <= i,
                 i <= Larger(pendingHigh', Largest(page'))
          PROVE  i \in stored' \cup unread'
      <4>1. i \in live /\ i \in Ids /\ i \in Nat
        BY <2>2, <3>2 DEF TypeOK
      <4>2. CASE cursor = 0 \/ i < cursor
        <5>1. Smallest(page') >= k
          BY <2>1, <3>1
        <5>2. i >= k
          BY <5>1, <3>2, <3>1, <4>1
        <5>3. i \in older(gone)
          BY <4>1, <4>2 DEF Below
        <5>4. i \in unread'
          BY <5>2, <5>3, <2>1
        <5> QED BY <5>4
      <4>3. CASE cursor # 0 /\ cursor <= i
        <5>1. Largest(page') < cursor
          BY <2>1, <3>1, <4>3 DEF Below
        <5>2. Largest(page') \in Nat /\ cursor \in Nat /\ pendingHigh \in Nat
          BY <3>1 DEF TypeOK
        <5>3. i <= Larger(pendingHigh, Largest(page'))
          BY <3>2, <2>2
        <5>4. i <= pendingHigh
          BY <5>1, <5>2, <5>3, <4>3, <4>1 DEF Larger
        <5> QED BY <5>4, <4>3, <4>1, <2>2 DEF Walked
      <4> QED BY <4>1, <4>2, <4>3 DEF TypeOK
    <3>3. empties' \cap live' = {}
      BY <2>1, <2>2
    <3>4. page' \subseteq 1..posted'
      BY <2>2, <2>3
    <3> QED BY <3>2, <3>3, <3>4 DEF PageInHand
  <2>8. Arrived'
    <3> SUFFICES ASSUME page' = {}, NEW i \in live, i <= pendingHigh
                 PROVE  i \in stored
      BY <2>1, <2>2 DEF Arrived
    <3>1. older(gone) = {}
      BY <2>1
    <3>2. cursor # 0 /\ cursor <= i
      BY <3>1 DEF Below, TypeOK
    <3> QED BY <3>2, <2>2 DEF Walked
  <2> QED BY <2>4, <2>5, <2>6, <2>7, <2>8
<1>5. CASE ObserveMessage
  <2> USE <1>5 DEF server, paging
  <2> DEFINE m == Largest(unread)
  <2>1. m \in unread /\ m \in page /\ m \in Ids /\ m \in 1..posted
    BY Extremes DEF ObserveMessage, TypeOK, PageInHand
  <2>2. /\ pc = "observe" /\ UNCHANGED <<server, verified, offsetId, sweep,
               interrupts, pc, kind, paging, page, empties, toProbe>>
        /\ unread' = unread \ {m}
        /\ stored' = IF m \in empties THEN stored ELSE stored \cup {m}
        /\ tombs'  = IF m \in empties THEN tombs \cup {m} ELSE tombs
        /\ idsSeen' = idsSeen \cup {m}
        /\ minId' = IF minId = 0 \/ m < minId THEN m ELSE minId
        /\ maxId' = IF maxId = 0 \/ m > maxId THEN m ELSE maxId
    BY DEF ObserveMessage
  <2> HIDE <1>5 DEF m
  <2>3. TypeOK'
    BY <2>1, <2>2 DEF TypeOK, Sweeps, Locations, RunKinds
  <2>4. stored \subseteq stored'
    BY <2>2
  <2>5. NothingStranded' /\ ResumeIsSafe' /\ Walked' /\ Arrived'
    BY <2>2, <2>4 DEF NothingStranded, ResumeIsSafe, Walked, Arrived
  <2>6. Bounded'
    BY <2>1, <2>2 DEF Bounded, TypeOK
  <2>7. PageInHand'
    <3>1. live \cap (stored \cup unread) \subseteq stored' \cup unread'
      BY <2>1, <2>2 DEF PageInHand
    <3> QED BY <3>1, <2>2 DEF PageInHand
  <2> QED BY <2>3, <2>5, <2>6, <2>7
<1>6. CASE SaveCursor
  <2> USE <1>6 DEF SaveCursor, server, pageVs, seen
  <2>1. /\ page # {} /\ page \subseteq 1..posted
        /\ Smallest(page) \in page /\ Largest(page) \in page
    BY Extremes DEF PageInHand, TypeOK
  <2>2. TypeOK'
    <3>1. Smallest(page) \in 0..MaxId /\ Largest(page) \in 0..MaxId
      <4>1. page \subseteq 0..MaxId
        BY DEF TypeOK
      <4> QED BY <2>1, <4>1, Zenon
    <3>2. pendingHigh' \in 0..MaxId
      BY <3>1 DEF TypeOK, Larger
    <3> QED BY <3>1, <3>2 DEF TypeOK, Locations
  <2>3. NothingStranded'
    BY DEF NothingStranded
  <2>4. \A i \in live : Smallest(page) <= i /\ i <= pendingHigh' => i \in stored
    BY DEF PageInHand
  <2>5. sweep.pending_high <= pendingHigh /\ pendingHigh <= pendingHigh'
        /\ pendingHigh' \in Nat /\ sweep.pending_high \in Nat /\ pendingHigh \in Nat
    BY <2>1 DEF Bounded, TypeOK, Sweeps, Larger
  <2>6. ResumeIsSafe'
    BY <2>4, <2>5 DEF ResumeIsSafe, TypeOK
  <2>7. Bounded'
    <3>1. pendingHigh' <= posted
      BY <2>1 DEF Bounded, TypeOK, Larger
    <3>2. Smallest(page) \in 1..posted
      BY <2>1, Zenon
    <3>3. maxId <= posted
      BY DEF Bounded
    <3> QED BY <2>5, <3>1, <3>2, <3>3 DEF Bounded, TypeOK
  <2>8. Walked'
    BY <2>4 DEF Walked
  <2>9. PageInHand' /\ Arrived'
    BY DEF PageInHand, Arrived
  <2> QED BY <2>2, <2>3, <2>6, <2>7, <2>8, <2>9
<1>7. CASE SaveSweep
  <2> USE <1>7 DEF SaveSweep, InProgress, incremental, stopAt, server, pageVs, seen
  <2>1. sweep' = [max_id_seen |-> sweep.max_id_seen, pending_high |-> pendingHigh,
                  backfill_complete |-> sweep.backfill_complete,
                  incremental_in_progress |-> sweep.backfill_complete]
    BY DEF Walked
  <2>2. TypeOK'
    BY <2>1 DEF TypeOK, Sweeps, Locations, RunKinds
  <2>3. NothingStranded'
    BY <2>1 DEF NothingStranded
  <2>4. \A i \in live : offsetId <= i /\ i <= pendingHigh => i \in stored
    BY DEF Walked
  <2>5. ResumeIsSafe'
    BY <2>1, <2>4 DEF ResumeIsSafe
  <2>6. Bounded'
    BY <2>1 DEF Bounded, TypeOK, Sweeps
  <2>7. Walked'
    BY <2>1 DEF Walked
  <2>8. PageInHand'
    BY DEF PageInHand
  <2>9. Arrived'
    <3> SUFFICES ASSUME CaughtUp, NEW i \in live, i <= pendingHigh PROVE i \in stored
      BY DEF Arrived
    <3>1. cursor <= sweep.max_id_seen
      BY DEF CaughtUp
    <3>2. CASE i <= sweep.max_id_seen
      BY <3>2 DEF NothingStranded
    <3>3. CASE cursor <= i
      BY <3>3 DEF Walked
    <3> QED BY <3>1, <3>2, <3>3 DEF TypeOK, Sweeps
  <2> QED BY <2>2, <2>3, <2>5, <2>6, <2>7, <2>8, <2>9
<1>8. CASE Settle
  <2> USE <1>8 DEF Settle, server, paging, pageVs, seen
  <2>1. /\ sweep' = [max_id_seen |-> pendingHigh, pending_high |-> pendingHigh,
                     backfill_complete |-> complete, incremental_in_progress |-> FALSE]
        /\ pendingHigh \in 0..MaxId
    <3>1. sweep.max_id_seen \in Nat /\ pendingHigh \in Nat /\ pendingHigh \in 0..MaxId
          /\ sweep.max_id_seen <= pendingHigh
      BY DEF Bounded, TypeOK, Sweeps
    <3>2. Larger(sweep.max_id_seen, pendingHigh) = pendingHigh
      BY <3>1 DEF Larger
    <3> QED BY <3>1, <3>2 DEF Settled
  <2>2. TypeOK'
    <3>1. complete \in BOOLEAN
      BY DEF TypeOK
    <3>2. sweep' \in Sweeps
      BY <2>1, <3>1 DEF Sweeps
    <3>3. toProbe' \subseteq Ids /\ pc' \in Locations
      BY DEF Candidates, Locations, TypeOK
    <3> QED BY <3>2, <3>3 DEF TypeOK
  <2>3. NothingStranded' /\ ResumeIsSafe'
    BY <2>1 DEF NothingStranded, ResumeIsSafe, Arrived
  <2>4. Bounded'
    BY <2>1 DEF Bounded, TypeOK, Sweeps
  <2>5. Walked' /\ PageInHand' /\ Arrived'
    BY DEF Walked, PageInHand, Arrived
  <2> QED BY <2>2, <2>3, <2>4, <2>5
<1>9. CASE ProbeGaps
  <2> USE <1>9 DEF ProbeGaps, server, local, paging, pageVs, seen
  <2>1. TypeOK'
    BY DEF TypeOK, Sweeps, Locations, RunKinds
  <2>2. NothingStranded' /\ ResumeIsSafe'
    BY DEF NothingStranded, ResumeIsSafe
  <2>3. Bounded' /\ Walked' /\ PageInHand' /\ Arrived'
    BY DEF Bounded, Walked, PageInHand, Arrived
  <2> QED BY <2>1, <2>2, <2>3
<1>10. CASE Interrupt
  <2> USE <1>10 DEF Interrupt, server, disk, local, paging, pageVs, seen
  <2>1. TypeOK'
    BY DEF TypeOK, Sweeps, Locations, RunKinds
  <2>2. NothingStranded' /\ ResumeIsSafe' /\ Bounded'
    BY DEF NothingStranded, ResumeIsSafe, Bounded
  <2>3. Walked' /\ PageInHand' /\ Arrived'
    BY DEF Walked, PageInHand, Arrived
  <2> QED BY <2>1, <2>2, <2>3
<1>11. CASE VerifySpan \/ KillInAddRange
  <2>1. /\ pc' = "idle" /\ verified' \subseteq verified \cup Ids
        /\ interrupts' \in {interrupts, interrupts + 1}
        /\ UNCHANGED <<server, stored, tombs, offsetId, sweep, local>>
    BY <1>11, SpanRecorded DEF Bounded
  <2> USE <2>1 DEF server, local, paging, pageVs, seen
  <2>2. TypeOK'
    BY DEF TypeOK, Sweeps, Locations, RunKinds
  <2>3. NothingStranded' /\ ResumeIsSafe' /\ Bounded'
    BY DEF NothingStranded, ResumeIsSafe, Bounded
  <2>4. Walked' /\ PageInHand' /\ Arrived'
    BY DEF Walked, PageInHand, Arrived
  <2> QED BY <2>2, <2>3, <2>4
<1>12. CASE UNCHANGED vars
  <2> USE <1>12 DEF vars, server, disk, local, paging, pageVs, seen
  <2>1. TypeOK' /\ NothingStranded' /\ ResumeIsSafe'
    BY DEF TypeOK, NothingStranded, ResumeIsSafe
  <2>2. Bounded' /\ Walked' /\ PageInHand' /\ Arrived'
    BY DEF Bounded, Walked, PageInHand, Arrived
  <2> QED BY <2>1, <2>2
<1> QED
  BY <1>1, <1>2, <1>3, <1>4, <1>5, <1>6, <1>7, <1>8, <1>9, <1>10, <1>11, <1>12
  DEF Next, Step

(* Each variable keeps its type: every saved cursor, high-water mark and    *)
(* recorded row is an id Telegram can have assigned (sync_state, messages,  *)
(* message_tombstones, sync_ranges as collect writes them).                 *)
THEOREM SweepTypeCorrect == Spec => []TypeOK
<1>1. IInv => TypeOK
  BY DEF IInv
<1> QED BY <1>1, IInvInit, IInvNext, PTL DEF Spec

(* "Nothing is fetched by nobody, ever": no interrupt, page budget or       *)
(* hand-over between callers leaves a message that still exists below the   *)
(* committed high-water mark without a row, for any page size and budget.   *)
THEOREM NothingIsStranded == Spec => []NothingStranded
<1>1. IInv => NothingStranded
  BY DEF IInv
<1> QED BY <1>1, IInvInit, IInvNext, PTL DEF Spec

(* The cursor and pending_high persisted by two separate statements are     *)
(* always safe to resume an unfinished sweep from.                          *)
THEOREM ResumingIsSafe == Spec => []ResumeIsSafe
<1>1. IInv => ResumeIsSafe
  BY DEF IInv
<1> QED BY <1>1, IInvInit, IInvNext, PTL DEF Spec

-----------------------------------------------------------------------------
(* What a run has seen and what it has left to probe: the second half of    *)
(* the invariant, which the honesty of verified spans rests on.             *)
LEMMA HInvInit == Init => HInv
<1> SUFFICES ASSUME Init PROVE HInv
  OBVIOUS
<1>1. VerifiedIsHonest /\ idsSeen \subseteq stored \cup tombs
  BY DEF Init, VerifiedIsHonest
<1>2. SpanSeen /\ PageSeen /\ SpanProbed
  BY DEF Init, SpanSeen, PageSeen, SpanProbed
<1> QED BY <1>1, <1>2 DEF HInv

(* Telegram's own steps: a new id is above everything the run looks at, and *)
(* a deleted one only leaves less to account for.                           *)
LEMMA HInvServer == IInv /\ HInv /\ (Post \/ Delete) => HInv'
<1> SUFFICES ASSUME IInv, HInv, Post \/ Delete PROVE HInv'
  OBVIOUS
<1> USE SweepAssumption DEF IInv, HInv, disk, local, paging, pageVs, seen
<1>1. UNCHANGED <<disk, local, pc>>
  BY DEF Post, Delete
<1>2. VerifiedIsHonest' /\ (idsSeen \subseteq stored \cup tombs)'
  BY <1>1 DEF VerifiedIsHonest
<1>3. CASE Delete
  <2>1. live' \subseteq live /\ posted' = posted
    BY <1>3 DEF Delete
  <2>2. SpanSeen' /\ PageSeen' /\ SpanProbed'
    BY <1>1, <2>1 DEF SpanSeen, PageSeen, SpanProbed
  <2> QED BY <1>2, <2>2
<1>4. CASE Post
  <2>1. live' = live \cup {posted + 1} /\ posted' = posted + 1 /\ posted \in Nat
    BY <1>4 DEF Post, TypeOK
  <2>2. maxId \in Nat /\ maxId < posted + 1
    BY <2>1 DEF Bounded, TypeOK
  <2>3. SpanSeen'
    BY <1>1, <2>1, <2>2 DEF SpanSeen
  <2>4. PageSeen'
    <3> SUFFICES ASSUME pc = "observe" PROVE PageSeen'
      BY <1>1 DEF PageSeen
    <3>1. Largest(page) \in 1..posted
      <4>1. page # {} /\ page \subseteq Ids /\ page \subseteq 1..posted
        BY DEF PageInHand, TypeOK
      <4> QED BY <4>1, Extremes, Zenon
    <3>2. Largest(page) < posted + 1 /\ Largest(page) \in Nat
      BY <3>1, <2>1
    <3> QED BY <1>1, <2>1, <2>2, <3>2 DEF PageSeen
  <2>5. SpanProbed'
    BY <1>1, <2>1, <2>2 DEF SpanProbed
  <2> QED BY <1>2, <2>3, <2>4, <2>5
<1> QED BY <1>3, <1>4

(* The run's paging steps extend what it saw downwards without a hole.      *)
LEMMA HInvPaging ==
    IInv /\ HInv /\ (FetchPage \/ ObserveMessage \/ SaveCursor \/ SaveSweep)
        => HInv'
<1> SUFFICES ASSUME IInv, HInv,
                    FetchPage \/ ObserveMessage \/ SaveCursor \/ SaveSweep
             PROVE  HInv'
  OBVIOUS
<1> USE SweepAssumption DEF IInv, HInv
<1>1. CASE FetchPage
  <2> USE DEF server, disk, seen
  <2> DEFINE older(gone) == (live \cup gone) \cap Below(cursor)
  <2>1. PICK gone \in SUBSET ((Placeholders \cap (1..posted)) \ live), k \in Ids :
          LET answer == {i \in older(gone) : i >= k}
          IN  /\ page' = answer
              /\ unread' = answer
              /\ pc' = IF answer = {} THEN "settle" ELSE "observe"
    BY <1>1, Zenon DEF FetchPage
  <2>2. pc = "fetch" /\ UNCHANGED <<server, disk, cursor, seen, toProbe>>
    BY <1>1 DEF FetchPage
  <2>3. VerifiedIsHonest' /\ (idsSeen \subseteq stored \cup tombs)'
    BY <2>2 DEF VerifiedIsHonest
  <2>4. SpanSeen' /\ SpanProbed'
    BY <2>1, <2>2 DEF SpanSeen, SpanProbed
  <2>5. PageSeen'
    <3> SUFFICES ASSUME page' # {} PROVE PageSeen'
      BY <2>1 DEF PageSeen
    <3>1. page' \subseteq Ids /\ page' \subseteq Nat /\ page' \subseteq Below(cursor)
      BY <2>1 DEF TypeOK, Below, Ids
    <3>2. Smallest(page') \in page' /\ Largest(page') \in page'
      BY <3>1, Extremes
    <3>3. Smallest(page') \in Nat /\ Largest(page') \in Nat
      BY <3>1, <3>2, Zenon
    <3>4. /\ minId # 0 => cursor = minId
          /\ minId = 0 <=> maxId = 0
          /\ minId # 0 => \A i \in live : minId <= i /\ i <= maxId => i \in idsSeen
      BY <2>2 DEF SpanSeen
    <3>5. cursor \in Nat /\ minId \in Nat /\ maxId \in Nat
      BY DEF TypeOK
    <3>6. \A u \in page' : minId = 0 \/ u < minId
      BY <3>1, <3>4 DEF Below
    <3>7. ASSUME NEW i \in live, Smallest(page') <= i,
                 i <= (IF maxId = 0 THEN Largest(page') ELSE maxId)
          PROVE  i \in idsSeen \cup page'
      <4>1. i \in Ids /\ i \in Nat
        BY DEF TypeOK, Ids
      <4>2. Smallest(page') >= k
        BY <2>1, <3>2
      <4>3. i >= k
        BY <4>1, <4>2, <3>3, <3>7 DEF Ids
      <4>4. CASE cursor = 0 \/ i < cursor
        <5>1. i \in older(gone)
          BY <4>1, <4>4 DEF Below
        <5> QED BY <5>1, <4>3, <2>1
      <4>5. CASE cursor # 0 /\ cursor <= i
        <5>1. Largest(page') < cursor
          BY <3>1, <3>2, <4>5 DEF Below
        <5>2. maxId # 0
          BY <5>1, <3>3, <3>5, <3>7, <4>1, <4>5
        <5> QED BY <5>2, <3>4, <3>7, <4>5
      <4> QED BY <4>1, <4>4, <4>5, <3>5
    <3>8. unread' = page'
      BY <2>1
    <3> QED BY <2>2, <3>6, <3>7, <3>8 DEF PageSeen
  <2> QED BY <2>3, <2>4, <2>5
<1>2. CASE ObserveMessage
  <2> DEFINE m == Largest(unread)
  <2>1. m \in unread /\ m \in Ids /\ m \in Nat /\ m # 0 /\ \A u \in unread : u <= m
    <3>1. unread # {} /\ unread \subseteq Ids
      BY <1>2 DEF ObserveMessage, TypeOK
    <3>2. m \in unread /\ \A u \in unread : u <= m
      BY <3>1, Extremes
    <3>3. m \in Ids
      BY <3>1, <3>2, Zenon
    <3>4. Ids \subseteq Nat \ {0}
      BY DEF Ids
    <3> QED BY <3>2, <3>3, <3>4, Zenon
  <2>2. /\ pc = "observe" /\ UNCHANGED <<live, verified, pc, page, toProbe>>
        /\ unread' = unread \ {m}
        /\ stored \cup tombs \cup {m} = stored' \cup tombs'
        /\ idsSeen' = idsSeen \cup {m}
        /\ minId' = IF minId = 0 \/ m < minId THEN m ELSE minId
        /\ maxId' = IF maxId = 0 \/ m > maxId THEN m ELSE maxId
    BY <1>2 DEF ObserveMessage, server
  <2> HIDE DEF m
  <2>3. /\ page # {} /\ page \subseteq Ids /\ unread \subseteq page
        /\ minId \in Nat /\ maxId \in Nat /\ live \subseteq Nat
        /\ minId = 0 <=> maxId = 0
        /\ minId <= maxId
    BY <2>2 DEF TypeOK, PageInHand, SpanSeen
  <2>4. Smallest(page) \in Nat /\ Largest(page) \in Nat
        /\ Smallest(page) <= m /\ m <= Largest(page)
    <3>1. Smallest(page) \in page /\ Largest(page) \in page
          /\ \A j \in page : Smallest(page) <= j /\ j <= Largest(page)
      BY <2>3, Extremes
    <3>2. page \subseteq Nat /\ m \in page
      BY <2>1, <2>3 DEF Ids
    <3> QED BY <3>1, <3>2
  <2>5. minId' = m /\ (maxId' = IF maxId = 0 THEN m ELSE maxId) /\ m <= maxId'
        /\ maxId' # 0
    <3>1. minId = 0 \/ m < minId
      BY <2>1, <2>2 DEF PageSeen
    <3> QED BY <3>1, <2>1, <2>2, <2>3
  <2>6. \A i \in live :
            Smallest(page) <= i /\ i <= maxId' => i \in idsSeen' \cup unread'
    <3> SUFFICES ASSUME NEW i \in live, Smallest(page) <= i, i <= maxId'
                 PROVE  i \in idsSeen \cup unread
      BY <2>1, <2>2
    <3>1. i <= (IF maxId = 0 THEN Largest(page) ELSE maxId)
      BY <2>3, <2>4, <2>5, <2>1
    <3> QED BY <3>1, <2>2 DEF PageSeen
  <2>7. \A u \in unread' : u < m
    BY <2>1, <2>2, <2>3 DEF Ids
  <2>8. SpanSeen'
    <3>1. ASSUME NEW i \in live, m <= i, i <= maxId' PROVE i \in idsSeen'
      BY <3>1, <2>1, <2>3, <2>4, <2>6, <2>7 DEF Ids
    <3> QED BY <3>1, <2>1, <2>2, <2>5 DEF SpanSeen
  <2>9. PageSeen'
    <3>1. \A p \in page \ unread' : m <= p
      <4> SUFFICES ASSUME NEW p \in page \ unread, p # m PROVE m <= p
        BY <2>1, <2>2
      <4>1. minId # 0 /\ minId <= p /\ m < minId /\ p \in Nat
        BY <2>1, <2>2, <2>3 DEF PageSeen, Ids
      <4> QED BY <4>1, <2>1, <2>3
    <3>2. m \in page
      BY <2>1, <2>3
    <3> QED BY <3>1, <3>2, <2>1, <2>2, <2>5, <2>6, <2>7 DEF PageSeen
  <2>10. VerifiedIsHonest' /\ (idsSeen \subseteq stored \cup tombs)' /\ SpanProbed'
    BY <2>2 DEF VerifiedIsHonest, SpanProbed
  <2> QED BY <2>8, <2>9, <2>10
<1>3. CASE SaveCursor
  <2> USE DEF server, pageVs, seen
  <2>1. /\ page # {} /\ page \subseteq Ids /\ unread = {} /\ pc = "observe"
        /\ pc' = "sweep" /\ cursor' = Smallest(page)
        /\ UNCHANGED <<live, stored, tombs, verified, seen, toProbe>>
    BY <1>3 DEF SaveCursor, PageInHand, TypeOK
  <2>2. minId \in page /\ \A p \in page : minId <= p
    BY <2>1 DEF PageSeen
  <2>3. Smallest(page) \in page /\ Smallest(page) <= minId
    BY <2>1, <2>2, Extremes
  <2>4. Smallest(page) = minId
    <3>1. page \subseteq Nat
      BY <2>1 DEF Ids
    <3>2. Smallest(page) \in Nat /\ minId \in Nat /\ minId <= Smallest(page)
      BY <2>2, <2>3, <3>1, Zenon
    <3> QED BY <2>3, <3>2
  <2>5. SpanSeen'
    BY <2>1, <2>4 DEF SpanSeen
  <2>6. PageSeen' /\ SpanProbed' /\ VerifiedIsHonest'
        /\ (idsSeen \subseteq stored \cup tombs)'
    BY <2>1 DEF PageSeen, SpanProbed, VerifiedIsHonest
  <2> QED BY <2>5, <2>6
<1>4. CASE SaveSweep
  <2>1. /\ pc = "sweep" /\ pc' \in {"settle", "idle", "fetch"}
        /\ UNCHANGED <<live, stored, tombs, verified, cursor, idsSeen, minId, maxId>>
    BY <1>4 DEF SaveSweep, server, seen
  <2>2. SpanSeen'
    BY <2>1 DEF SpanSeen
  <2>3. PageSeen' /\ SpanProbed' /\ VerifiedIsHonest'
        /\ (idsSeen \subseteq stored \cup tombs)'
    BY <2>1 DEF PageSeen, SpanProbed, VerifiedIsHonest
  <2> QED BY <2>2, <2>3
<1> QED BY <1>1, <1>2, <1>3, <1>4

(* The steps around the walk: starting, settling, probing, verifying, dying.*)
LEMMA HInvRest ==
    IInv /\ HInv /\ ((\E k \in RunKinds : StartRun(k)) \/ Settle \/ ProbeGaps
                     \/ VerifySpan \/ KillInAddRange \/ Interrupt \/ UNCHANGED vars)
        => HInv'
<1> SUFFICES ASSUME IInv, HInv,
                    (\E k \in RunKinds : StartRun(k)) \/ Settle \/ ProbeGaps
                    \/ VerifySpan \/ KillInAddRange \/ Interrupt \/ UNCHANGED vars
             PROVE  HInv'
  OBVIOUS
<1> USE SweepAssumption DEF IInv, HInv, server, disk, local, paging, pageVs, seen
<1>1. ASSUME NEW k \in RunKinds, StartRun(k) PROVE HInv'
  <2>1. /\ pc' = "fetch" /\ idsSeen' = {} /\ minId' = 0 /\ maxId' = 0
        /\ UNCHANGED <<live, stored, tombs, verified>>
    BY <1>1 DEF StartRun
  <2>2. VerifiedIsHonest' /\ (idsSeen \subseteq stored \cup tombs)'
    BY <2>1 DEF VerifiedIsHonest
  <2>3. SpanSeen' /\ PageSeen' /\ SpanProbed'
    BY <2>1 DEF SpanSeen, PageSeen, SpanProbed
  <2> QED BY <2>2, <2>3
<1>2. CASE Settle
  <2>1. /\ pc = "settle" /\ UNCHANGED <<posted, live, stored, tombs, verified, seen>>
        /\ (pc' = "probe" /\ toProbe' = Candidates /\ minId # 0) \/ pc' = "idle"
    BY <1>2 DEF Settle
  <2>2. minId \in Nat /\ maxId \in Nat /\ maxId <= posted /\ posted \in Nat
    BY DEF TypeOK, Bounded
  <2>3. SpanProbed'
    <3> SUFFICES ASSUME pc' = "probe" PROVE SpanProbed'
      BY DEF SpanProbed
    <3>1. toProbe' = {i \in Ids : minId <= i /\ i <= maxId} \ idsSeen /\ minId # 0
      BY <2>1 DEF Candidates
    <3>2. toProbe' \cap live = {}
      BY <2>1, <3>1 DEF SpanSeen
    <3>3. toProbe' \subseteq 1..posted
      BY <2>2, <3>1 DEF Ids
    <3>4. \A i \in Ids : minId <= i /\ i <= maxId
                           => i \in stored \cup tombs \cup toProbe'
      BY <3>1
    <3> QED BY <2>1, <3>2, <3>3, <3>4 DEF SpanProbed
  <2>4. VerifiedIsHonest' /\ (idsSeen \subseteq stored \cup tombs)'
        /\ SpanSeen' /\ PageSeen'
    BY <2>1 DEF VerifiedIsHonest, SpanSeen, PageSeen
  <2> QED BY <2>3, <2>4
<1>3. CASE ProbeGaps
  <2>1. /\ pc = "probe" /\ UNCHANGED <<posted, live, stored, verified, pc, seen>>
    BY <1>3 DEF ProbeGaps
  <2>2. PICK chunk \in SUBSET toProbe :
          tombs' = tombs \cup (chunk \ live) /\ toProbe' = toProbe \ chunk
    <3>1. PICK k \in toProbe :
            LET chunk == {i \in toProbe : i <= k}
            IN  tombs' = tombs \cup (chunk \ live) /\ toProbe' = toProbe \ chunk
      BY <1>3, Zenon DEF ProbeGaps
    <3>2. {i \in toProbe : i <= k} \in SUBSET toProbe
      OBVIOUS
    <3> QED BY <3>1, <3>2, Zenon
  <2>3. chunk \ live = chunk
    BY <2>1, <2>2 DEF SpanProbed
  <2>4. SpanProbed'
    BY <2>1, <2>2, <2>3 DEF SpanProbed
  <2>5. VerifiedIsHonest' /\ (idsSeen \subseteq stored \cup tombs)'
        /\ SpanSeen' /\ PageSeen'
    BY <2>1, <2>2 DEF VerifiedIsHonest, SpanSeen, PageSeen
  <2> QED BY <2>4, <2>5
<1>4. CASE VerifySpan \/ KillInAddRange
  <2>1. /\ pc = "probe" /\ pc' = "idle" /\ toProbe = {}
        /\ verified' \subseteq verified \cup {i \in Ids : minId <= i /\ i <= maxId}
        /\ UNCHANGED <<stored, tombs, seen>>
    BY <1>4, SpanRecorded DEF Bounded, local
  <2>2. {i \in Ids : minId <= i /\ i <= maxId} \subseteq stored \cup tombs
    BY <2>1 DEF SpanProbed
  <2>3. VerifiedIsHonest'
    BY <2>1, <2>2 DEF VerifiedIsHonest
  <2>4. (idsSeen \subseteq stored \cup tombs)' /\ SpanSeen' /\ PageSeen' /\ SpanProbed'
    BY <2>1 DEF SpanSeen, PageSeen, SpanProbed
  <2> QED BY <2>3, <2>4
<1>5. CASE Interrupt
  <2>1. pc' = "idle" /\ UNCHANGED <<stored, tombs, verified, idsSeen>>
    BY <1>5 DEF Interrupt
  <2> QED BY <2>1 DEF VerifiedIsHonest, SpanSeen, PageSeen, SpanProbed
<1>6. CASE UNCHANGED vars
  BY <1>6 DEF vars, VerifiedIsHonest, SpanSeen, PageSeen, SpanProbed
<1> QED BY <1>1, <1>2, <1>3, <1>4, <1>5, <1>6

(* A span sync_ranges calls verified-complete is: every id in it is a row   *)
(* or a tombstone, although Telegram deletes messages while it is walked    *)
(* and probed, for any page size, chunk size and number of interrupts.      *)
THEOREM VerifiedSpansAreHonest == Spec => []VerifiedIsHonest
<1> DEFINE Both == IInv /\ HInv
<1>1. Init => Both
  BY IInvInit, HInvInit
<1>2. Both /\ [Next]_vars => Both'
  <2>1. IInv /\ HInv /\ [Next]_vars => HInv'
    BY HInvServer, HInvPaging, HInvRest DEF Next, Step
  <2> QED BY <2>1, IInvNext
<1>3. Both => VerifiedIsHonest
  BY DEF HInv
<1> HIDE DEF Both
<1> QED BY <1>1, <1>2, <1>3, PTL DEF Spec
-----------------------------------------------------------------------------
archive == <<1..posted, live, stored, tombs, sweep.max_id_seen>>

(* Statement by statement, a step of the sweep is a step of the archivist   *)
(* or changes nothing an archivist answers for.                             *)
LEMMA ArchiveStep == IInv /\ HInv /\ [Next]_vars => [Channel!Next]_archive
<1> SUFFICES ASSUME IInv, HInv, [Next]_vars PROVE [Channel!Next]_archive
  OBVIOUS
<1> USE SweepAssumption
<1>1. TypeOK /\ Bounded /\ NothingStranded /\ PageInHand /\ Arrived /\ SpanProbed
  BY DEF IInv, HInv
<1>2. CASE Post
  <2>1. /\ posted \in Nat /\ posted < MaxId /\ posted' = posted + 1
        /\ live' = live \cup {posted + 1} /\ UNCHANGED <<stored, tombs, sweep>>
    BY <1>1, <1>2 DEF Post, TypeOK, disk
  <2>2. posted + 1 \in 1..MaxId /\ \A j \in 1..posted : j < posted + 1
    BY <2>1
  <2>3. 1..posted' = (1..posted) \cup {posted + 1}
    BY <2>1
  <2>4. Channel!Post
    BY <2>1, <2>2, <2>3 DEF Channel!Post
  <2> QED BY <2>4 DEF Channel!Next
<1>3. CASE Delete
  <2>1. Channel!Delete
    BY <1>3 DEF Delete, disk, Channel!Delete
  <2> QED BY <2>1 DEF Channel!Next
<1>4. CASE ObserveMessage
  <2> DEFINE m == Largest(unread)
  <2>1. /\ pc = "observe" /\ UNCHANGED <<server, sweep>>
        /\ stored' = (IF m \in empties THEN stored ELSE stored \cup {m})
        /\ tombs'  = (IF m \in empties THEN tombs \cup {m} ELSE tombs)
    BY <1>4 DEF ObserveMessage
  <2>2. m \in 1..posted
    <3>1. unread # {} /\ unread \subseteq Ids /\ unread \subseteq 1..posted
      BY <1>1, <1>4 DEF ObserveMessage, TypeOK, PageInHand
    <3> QED BY <3>1, Extremes, Zenon
  <2> HIDE DEF m
  <2>3. CASE m \in empties
    <3>1. Channel!Bury({m})
      BY <1>1, <2>1, <2>2, <2>3 DEF PageInHand, Channel!Bury, server
    <3> QED BY <2>2, <3>1 DEF Channel!Next
  <2>4. CASE m \notin empties
    <3>1. Channel!Hold({m})
      BY <2>1, <2>2, <2>4 DEF Channel!Hold, server
    <3> QED BY <2>2, <3>1 DEF Channel!Next
  <2> QED BY <2>3, <2>4
<1>5. CASE Settle
  <2>1. /\ pc = "settle" /\ UNCHANGED <<posted, live, stored, tombs>>
        /\ sweep'.max_id_seen = Larger(sweep.max_id_seen, pendingHigh)
    BY <1>5 DEF Settle, Settled, server
  <2>2. /\ sweep.max_id_seen \in Nat /\ pendingHigh \in Nat
        /\ sweep.max_id_seen <= pendingHigh /\ pendingHigh <= posted /\ posted \in Nat
    BY <1>1, <2>1 DEF Bounded, TypeOK, Sweeps
  <2>3. sweep'.max_id_seen = pendingHigh
    BY <2>1, <2>2 DEF Larger
  <2>4. CASE sweep.max_id_seen = pendingHigh
    BY <2>1, <2>3, <2>4 DEF archive
  <2>5. CASE sweep.max_id_seen # pendingHigh
    <3>1. pendingHigh \in 1..posted /\ sweep.max_id_seen < pendingHigh
      BY <2>2, <2>5
    <3>2. \A i \in live : i <= pendingHigh => i \in stored
      BY <1>1, <2>1 DEF Arrived
    <3>3. Channel!Rise(pendingHigh, {})
      BY <2>1, <2>3, <3>1, <3>2 DEF Channel!Rise
    <3> QED BY <3>1, <3>3 DEF Channel!Next
  <2> QED BY <2>4, <2>5
<1>6. CASE ProbeGaps
  <2>1. /\ pc = "probe" /\ UNCHANGED <<server, stored, sweep>>
        /\ \E buried \in SUBSET (toProbe \ live) : tombs' = tombs \cup buried
    <3>1. PICK k \in toProbe :
            LET chunk == {i \in toProbe : i <= k}
            IN  tombs' = tombs \cup (chunk \ live)
      BY <1>6, Zenon DEF ProbeGaps
    <3>2. {i \in toProbe : i <= k} \ live \in SUBSET (toProbe \ live)
      OBVIOUS
    <3>3. pc = "probe" /\ UNCHANGED <<server, stored, sweep>>
      BY <1>6 DEF ProbeGaps
    <3> QED BY <3>1, <3>2, <3>3, Zenon
  <2>2. PICK buried \in SUBSET (toProbe \ live) : tombs' = tombs \cup buried
    BY <2>1
  <2>3. buried \subseteq 1..posted /\ buried \cap live = {}
    BY <1>1, <2>1 DEF SpanProbed
  <2>4. Channel!Bury(buried)
    BY <2>1, <2>2, <2>3 DEF Channel!Bury, server
  <2> QED BY <2>3, <2>4 DEF Channel!Next
<1>7. CASE SaveSweep
  <2>1. sweep'.max_id_seen = sweep.max_id_seen
    BY <1>7 DEF SaveSweep, InProgress
  <2> QED BY <1>7, <2>1 DEF SaveSweep, server, archive
<1>8. CASE (\E k \in RunKinds : StartRun(k)) \/ FetchPage \/ SaveCursor
           \/ Interrupt \/ UNCHANGED vars
  BY <1>8 DEF StartRun, FetchPage, SaveCursor, Interrupt, vars, server, disk, archive
<1>9. CASE VerifySpan \/ KillInAddRange
  BY <1>9 DEF VerifySpan, KillInAddRange, server, archive
<1> QED
  BY <1>2, <1>3, <1>4, <1>5, <1>6, <1>7, <1>8, <1>9 DEF Next, Step

(* The sweep implements the archive: through any page size, budget, hand-   *)
(* over between callers and kill it only adds rows of posted messages, only *)
(* buries what is gone, and raises max_id_seen only to a message below      *)
(* which every message that still exists has a row.                         *)
THEOREM SweepKeepsArchive == Spec => KeepsArchive
<1> DEFINE Both == IInv /\ HInv
<1>1. Init => Both /\ Channel!Init
  <2>1. ASSUME Init PROVE Channel!Init
    BY <2>1 DEF Init, Channel!Init
  <2> QED BY <2>1, IInvInit, HInvInit
<1>2. Both /\ [Next]_vars => Both'
  <2>1. IInv /\ HInv /\ [Next]_vars => HInv'
    BY HInvServer, HInvPaging, HInvRest DEF Next, Step
  <2> QED BY <2>1, IInvNext
<1>3. Both /\ [Next]_vars => [Channel!Next]_archive
  BY ArchiveStep
<1> HIDE DEF Both
<1> QED
  BY <1>1, <1>2, <1>3, PTL DEF Spec, KeepsArchive, Channel!Spec, archive
=============================================================================
