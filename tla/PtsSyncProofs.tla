--------------------------- MODULE PtsSyncProofs ---------------------------
(***************************************************************************)
(* Theorems about PtsSync, for every page size, difference limit, gap and  *)
(* budget, and any number of messages, events and interruptions: its       *)
(* types, that the persisted pts never runs ahead of the store, that a     *)
(* clean finish has drained the backlog, and that what a clean run touched *)
(* is current.                                                             *)
(***************************************************************************)
EXTENDS PtsSync, TLAPS, WellFoundedInduction, FiniteSetTheorems

-----------------------------------------------------------------------------
(* A nonempty set of naturals has a least element: what Oldest chooses.     *)
LEMMA OldestWorks ==
    ASSUME NEW S, S \subseteq Nat, S # {}
    PROVE  Oldest(S) \in S /\ \A j \in S : Oldest(S) <= j
<1>1. PICK x \in S : \A y \in S : ~(<<y, x>> \in OpToRel(<, Nat))
  BY NatLessThanWellFounded, WFMin
<1>2. \A j \in S : x <= j
  <2>1. TAKE j \in S
  <2>2. ~(<<j, x>> \in OpToRel(<, Nat))
    BY <1>1, <2>1
  <2>3. ~(j < x)
    BY <2>2, <2>1 DEF OpToRel
  <2> QED BY <2>3
<1> QED BY <1>2 DEF Oldest

(* A nonempty bounded set of naturals has a greatest: what Newest chooses.  *)
LEMMA NewestWorks ==
    ASSUME NEW b \in Nat, NEW S, S \subseteq 0..b, S # {}
    PROVE  Newest(S) \in S /\ \A j \in S : j <= Newest(S)
<1> DEFINE T == {b - i : i \in S}
<1>1. T \subseteq Nat /\ T # {}
  <2>1. ASSUME NEW i \in S PROVE b - i \in Nat
    <3>1. i \in Nat /\ i <= b
      OBVIOUS
    <3> QED BY <3>1
  <2>2. PICK i \in S : TRUE
    OBVIOUS
  <2>3. b - i \in T
    OBVIOUS
  <2> QED BY <2>1, <2>3
<1>2. Oldest(T) \in T /\ \A j \in T : Oldest(T) <= j
  BY <1>1, OldestWorks
<1>3. PICK x \in S : Oldest(T) = b - x
  BY <1>2
<1>4. \A j \in S : j <= x
  <2>1. TAKE j \in S
  <2>2. b - x <= b - j
    BY <1>2, <1>3
  <2>3. x \in Nat /\ j \in Nat
    OBVIOUS
  <2> QED BY <2>2, <2>3
<1> QED BY <1>4 DEF Newest

(* Both ends of a page of messages.                                         *)
LEMMA PageEnds ==
    ASSUME NEW S, S \subseteq Ids, S # {}
    PROVE  Newest(S) \in 0..MaxId /\ Oldest(S) \in 0..MaxId
<1>1. S \subseteq Nat /\ S \subseteq 0..MaxId /\ MaxId \in Nat
  BY PtsAssumption DEF Ids
<1> QED BY <1>1, NewestWorks, OldestWorks

(* The content of a message is the last event that wrote it.                *)
LEMMA ContentIs ==
    ASSUME NEW i, NEW n \in Nat
    PROVE  /\ Content(i, n) \in 0..n
           /\ \A e \in 1..n : log[e].id = i /\ log[e].kind # "delete" => e <= Content(i, n)
           /\ Content(i, n) # 0 => Content(i, n) \in Writes(i, n)
<1>1. Writes(i, n) \subseteq 0..n
  BY DEF Writes
<1>2. CASE Writes(i, n) = {}
  BY <1>2 DEF Content, Writes
<1>3. CASE Writes(i, n) # {}
  <2>1. /\ Newest(Writes(i, n)) \in Writes(i, n)
        /\ \A e \in Writes(i, n) : e <= Newest(Writes(i, n))
    BY <1>1, <1>3, NewestWorks
  <2>2. Content(i, n) = Newest(Writes(i, n))
    BY <1>3 DEF Content
  <2>3. \A e \in 1..n : log[e].id = i /\ log[e].kind # "delete" => e \in Writes(i, n)
    BY DEF Writes
  <2> QED BY <1>1, <2>1, <2>2, <2>3
<1> QED BY <1>2, <1>3

(* What was written or deleted stays so as more events are counted.         *)
LEMMA ContentGrows ==
    ASSUME NEW i, NEW m \in Nat, NEW n \in Nat, m <= n
    PROVE  Content(i, m) <= Content(i, n) /\ (Gone(i, m) => Gone(i, n))
<1>1. 1..m \subseteq 1..n
  OBVIOUS
<1>2. Gone(i, m) => Gone(i, n)
  BY <1>1 DEF Gone
<1>3. Content(i, m) # 0 => Content(i, m) <= Content(i, n)
  <2>1. ASSUME Content(i, m) # 0
        PROVE  Content(i, m) \in 1..n /\ log[Content(i, m)].id = i
               /\ log[Content(i, m)].kind # "delete"
    BY <1>1, <2>1, ContentIs DEF Writes
  <2> QED BY <2>1, ContentIs
<1>4. Content(i, m) \in Nat /\ Content(i, n) \in Nat
  BY ContentIs
<1> QED BY <1>2, <1>3, <1>4

(* A message that is alive has not been deleted by any earlier event.       *)
LEMMA AliveSoFar ==
    ASSUME TypeOK, NEW i \in live, NEW n \in Nat, n <= Pts
    PROVE  i \in Ids /\ ~Gone(i, n)
<1>1. Pts \in Nat
  BY DEF TypeOK, Pts
<1> QED BY <1>1, ContentGrows DEF live, Posted

-----------------------------------------------------------------------------
(* The log as it was is the log as it is when nothing happens on Telegram,  *)
(* and its beginning when something does.                                   *)
LEMMA LogUnchanged ==
    ASSUME log' = log
    PROVE  /\ Pts' = Pts
           /\ \A i, n : Content(i, n)' = Content(i, n) /\ Gone(i, n)' = Gone(i, n)
BY DEF Pts, Content, Writes, Gone

LEMMA LogGrows ==
    ASSUME log \in Seq(Events), NEW ev \in Events, log' = Append(log, ev)
    PROVE  /\ log' \in Seq(Events)
           /\ Pts \in Nat /\ Pts' = Pts + 1
           /\ \A e \in 1..Pts : log'[e] = log[e]
           /\ \A i, n : n \in 0..Pts => Content(i, n)' = Content(i, n) /\ Gone(i, n)' = Gone(i, n)
           /\ \A i : /\ Content(i, Pts) <= Content(i, Pts)' /\ Content(i, Pts)' \in Nat
                     /\ Gone(i, Pts) => Gone(i, Pts)'
<1>1. log' \in Seq(Events) /\ Pts \in Nat /\ Pts' = Pts + 1 /\ \A e \in 1..Pts : log'[e] = log[e]
  BY DEF Pts
<1>2. ASSUME NEW i, NEW n \in 0..Pts
      PROVE  Content(i, n)' = Content(i, n) /\ Gone(i, n)' = Gone(i, n)
  <2>1. \A e \in 1..n : log'[e] = log[e]
    <3>1. n \in Nat /\ n <= Pts
      BY <1>1
    <3>2. 1..n \subseteq 1..Pts
      BY <1>1, <3>1
    <3> QED BY <1>1, <3>2
  <2>2. Writes(i, n)' = Writes(i, n)
    BY <2>1 DEF Writes
  <2>3. Gone(i, n)' = Gone(i, n)
    BY <2>1 DEF Gone
  <2> QED BY <2>2, <2>3 DEF Content
<1>a. 1..Pts \subseteq 1..Pts'
  BY <1>1
<1>3. ASSUME NEW i PROVE Content(i, Pts) <= Content(i, Pts)' /\ Content(i, Pts)' \in Nat
  <2>1. Writes(i, Pts) \subseteq Writes(i, Pts)'
    <3>1. ASSUME NEW e \in Writes(i, Pts)
          PROVE  e \in 1..Pts' /\ log'[e].id = i /\ log'[e].kind # "delete"
      BY <1>1, <1>a DEF Writes
    <3> QED BY <3>1 DEF Writes
  <2>2. CASE Writes(i, Pts) = {}
    <3>1. Content(i, Pts) = 0
      BY <2>2 DEF Content
    <3>2. Writes(i, Pts)' \subseteq 0..(Pts + 1)
      BY <1>1 DEF Writes
    <3>3. CASE Writes(i, Pts)' = {}
      BY <3>1, <3>3 DEF Content
    <3>4. CASE Writes(i, Pts)' # {}
      <4>1. Newest(Writes(i, Pts)') \in Writes(i, Pts)'
        BY <1>1, <3>2, <3>4, NewestWorks
      <4> QED BY <1>1, <3>1, <3>2, <3>4, <4>1 DEF Content
    <3> QED BY <3>3, <3>4
  <2>3. CASE Writes(i, Pts) # {}
    <3>1. Writes(i, Pts) \subseteq 0..Pts /\ Writes(i, Pts)' \subseteq 0..(Pts + 1)
      BY <1>1 DEF Writes
    <3>2. Newest(Writes(i, Pts)) \in Writes(i, Pts)
      BY <1>1, <2>3, <3>1, NewestWorks
    <3>3. /\ Newest(Writes(i, Pts)') \in Writes(i, Pts)'
          /\ \A e \in Writes(i, Pts)' : e <= Newest(Writes(i, Pts)')
      BY <1>1, <2>1, <2>3, <3>1, NewestWorks
    <3>4. /\ Content(i, Pts) = Newest(Writes(i, Pts))
          /\ Content(i, Pts)' = Newest(Writes(i, Pts)')
      BY <2>1, <2>3 DEF Content
    <3> QED BY <1>1, <2>1, <3>1, <3>2, <3>3, <3>4
  <2> QED BY <2>2, <2>3
<1>4. ASSUME NEW i, Gone(i, Pts) PROVE Gone(i, Pts)'
  <2>1. PICK e \in 1..Pts : log[e].kind = "delete" /\ log[e].id = i
    BY <1>4 DEF Gone
  <2>2. e \in 1..Pts' /\ log'[e].kind = "delete" /\ log'[e].id = i
    BY <1>1, <1>a, <2>1
  <2> QED BY <2>2 DEF Gone
<1> QED BY <1>1, <1>2, <1>3, <1>4

(* In particular, what the past says does not change.                       *)
LEMMA PastStays ==
    ASSUME log \in Seq(Events), NEW ev \in Events, log' = Append(log, ev), NEW n \in 0..Pts
    PROVE  \A j : Content(j, n)' = Content(j, n) /\ Gone(j, n)' = Gone(j, n)
<1>1. \A e \in 1..n : log'[e] = log[e]
  <2>1. n \in Nat /\ n <= Len(log) /\ Len(log) \in Nat
    BY DEF Pts
  <2> QED BY <2>1
<1>2. \A j : Writes(j, n)' = Writes(j, n)
  BY <1>1 DEF Writes
<1>3. \A j : Gone(j, n)' = Gone(j, n)
  BY <1>1 DEF Gone
<1> QED BY <1>2, <1>3 DEF Content

(* An event of the past names a message.                                    *)
LEMMA EventsAreTyped ==
    ASSUME TypeOK
    PROVE  Pts \in Nat /\ \A n \in 1..Pts : log[n].id \in Ids
<1>1. log \in Seq(Events) /\ Pts = Len(log)
  BY DEF TypeOK, Pts
<1>2. \A n \in 1..Len(log) : log[n] \in Events
  BY <1>1
<1> QED BY <1>1, <1>2 DEF Events

(* The cursors are positions of the log.                                    *)
LEMMA CursorsArePast ==
    ASSUME IInv
    PROVE  /\ Pts \in Nat /\ storedPts \in Nat /\ seed \in Nat /\ diffPts \in Nat
           /\ storedPts <= Pts /\ seed <= Pts /\ diffPts <= Pts
<1>1. TypeOK /\ OfThePast
  BY DEF IInv
<1>2. Pts \in Nat
  BY <1>1, EventsAreTyped
<1>3. storedPts \in Nat /\ seed \in Nat /\ diffPts \in Nat
  BY <1>1 DEF TypeOK
<1>4. storedPts <= Pts /\ seed <= Pts /\ diffPts <= Pts
  BY <1>1 DEF OfThePast
<1> QED BY <1>2, <1>3, <1>4

(* Rows that move forward and deletions that are only added keep what is    *)
(* shown, and what an answer says of a message that is not touched fresh.   *)
LEMMA ShownStays ==
    ASSUME TypeOK, log' = log, deleted \subseteq deleted',
           row' \in [Ids -> 0..MaxEvents], \A i \in Ids : row[i] <= row'[i],
           NEW n \in 1..Pts, Shown(n)
    PROVE  Shown(n)'
<1>1. log[n].id \in Ids /\ n \in Nat
  BY EventsAreTyped
<1>2. row[log[n].id] \in Nat /\ row'[log[n].id] \in Nat
  BY <1>1, PtsAssumption DEF TypeOK
<1>3. Gone(log[n].id, Pts) => Gone(log[n].id, Pts)'
  BY DEF Gone, Pts
<1> QED BY <1>1, <1>2, <1>3 DEF Shown

(* The cursor stays behind the store when neither it nor the seed moves.    *)
LEMMA CursorStays ==
    ASSUME IInv, log' = log, UNCHANGED <<storedPts, seed>>, deleted \subseteq deleted',
           row' \in [Ids -> 0..MaxEvents], \A i \in Ids : row[i] <= row'[i]
    PROVE  CursorIsApplied'
<1>1. /\ TypeOK /\ CursorIsApplied
      /\ Pts \in Nat /\ storedPts \in Nat /\ seed \in Nat /\ storedPts <= Pts
  BY CursorsArePast DEF IInv
<1>2. ASSUME NEW n \in (seed + 1)..storedPts PROVE Shown(n)'
  <2>1. n \in 1..Pts
    BY <1>1
  <2>2. Shown(n)
    BY <1>1 DEF CursorIsApplied
  <2> QED BY <1>1, <2>1, <2>2, ShownStays
<1> QED BY <1>2 DEF CursorIsApplied

-----------------------------------------------------------------------------
(* The strengthened invariant holds of an empty channel and store.          *)
LEMMA IInvInit == Init => IInv
<1> SUFFICES ASSUME Init PROVE IInv
  OBVIOUS
<1> USE PtsAssumption
<1>1. log = <<>> /\ Pts = 0
  BY DEF Init, Pts
<1>2. TypeOK
  <2>1. row \in [Ids -> 0..MaxEvents] /\ copy \in [Ids -> 0..MaxEvents]
    BY DEF Init
  <2>2. log \in Seq(Events) /\ Len(log) = 0
    BY <1>1
  <2>3. pc \in Locations /\ outcome \in Outcomes
    BY DEF Init, Locations, Outcomes
  <2>4. pages \in 0..CatchupBudget /\ interrupts \in 0..MaxInterrupts
    BY DEF Init
  <2>5. high \in 0..MaxId /\ pending \in 0..MaxId /\ resumeAt \in 0..MaxId
    BY DEF Init
  <2>6. /\ storedPts \in 0..MaxEvents /\ diffPts \in 0..MaxEvents
        /\ seed \in 0..MaxEvents /\ sweptAt \in 0..MaxEvents
    BY DEF Init
  <2>7. /\ deleted \subseteq Ids /\ page \subseteq Ids /\ seen \subseteq Ids
        /\ items \subseteq 1..MaxEvents /\ backfilled \in BOOLEAN /\ final \in BOOLEAN
    BY DEF Init
  <2> QED BY <2>1, <2>2, <2>3, <2>4, <2>5, <2>6, <2>7 DEF TypeOK
<1>3. CursorIsApplied /\ CleanMeansDrained
  BY DEF Init, CursorIsApplied, CleanMeansDrained
<1>4. OfThePast
  <2>1. \A i : Content(i, 0) = 0
    BY DEF Content, Writes
  <2> QED BY <1>1, <2>1 DEF Init, OfThePast
<1>5. PageInHand /\ DifferenceInHand /\ TouchedSinceSeed /\ Budgeted
  BY DEF Init, PageInHand, DifferenceInHand, TouchedSinceSeed, Budgeted
<1> QED BY <1>2, <1>3, <1>4, <1>5 DEF IInv

(* Whatever happens on Telegram preserves it.                               *)
LEMMA IInvHappens ==
    ASSUME IInv, NEW kind \in {"new", "edit", "delete"}, NEW i \in Ids, Happens(kind, i)
    PROVE  IInv'
<1> DEFINE ev == [kind |-> kind, id |-> i]
<1>1. /\ TypeOK /\ OfThePast /\ PageInHand /\ DifferenceInHand
      /\ CursorIsApplied /\ CleanMeansDrained /\ TouchedSinceSeed /\ Budgeted
  BY DEF IInv
<1>2. /\ UNCHANGED <<disk, interrupts, pc, local, ghost>>
      /\ log' = Append(log, ev) /\ Len(log) < MaxEvents
  BY DEF Happens
<1>3. ev \in Events
  BY DEF Events
<1>4. log \in Seq(Events)
  BY <1>1 DEF TypeOK
<1> HIDE DEF ev
<1>5. /\ log' \in Seq(Events)
      /\ Pts \in Nat /\ Pts' = Pts + 1
      /\ \A e \in 1..Pts : log'[e] = log[e]
      /\ \A j, n : n \in 0..Pts => Content(j, n)' = Content(j, n) /\ Gone(j, n)' = Gone(j, n)
      /\ \A j : /\ Content(j, Pts) <= Content(j, Pts)' /\ Content(j, Pts)' \in Nat
                /\ Gone(j, Pts) => Gone(j, Pts)'
  BY <1>2, <1>3, <1>4, LogGrows
<1>6. \A n \in 1..Pts : log[n].id \in Ids
  BY <1>1, EventsAreTyped
<1>7. TypeOK'
  <2>1. Len(log') <= MaxEvents
    BY <1>2, <1>5, PtsAssumption DEF Pts
  <2> QED BY <1>1, <1>2, <1>5, <2>1 DEF TypeOK, disk, local, ghost
<1>8. ASSUME NEW n \in 1..Pts, Shown(n) PROVE Shown(n)'
  <2>1. log'[n] = log[n]
    BY <1>5
  <2>2. Gone(log[n].id, Pts) => Gone(log[n].id, Pts)'
    <3>1. PICK j : j = log[n].id
      OBVIOUS
    <3>2. Gone(j, Pts) => Gone(j, Pts)'
      BY <1>5
    <3> QED BY <2>1, <3>1, <3>2 DEF Gone
  <2> QED BY <1>2, <1>8, <2>1, <2>2 DEF Shown, disk
<1>9. \A n \in (seed + 1)..storedPts : n \in 1..Pts
  <2>1. Pts \in Nat /\ storedPts \in Nat /\ seed \in Nat /\ storedPts <= Pts
    BY CursorsArePast
  <2> QED BY <2>1
<1>10. CursorIsApplied' /\ CleanMeansDrained'
  <2>1. CursorIsApplied'
    BY <1>1, <1>2, <1>8, <1>9 DEF CursorIsApplied, disk, ghost
  <2> QED BY <1>1, <1>2, <2>1 DEF CleanMeansDrained, disk, local, ghost
<1>11. OfThePast'
  <2>1. ASSUME NEW j \in Ids PROVE row'[j] <= Content(j, Pts)' /\ copy'[j] <= Content(j, Pts)'
    <3>1. row'[j] = row[j] /\ copy'[j] = copy[j]
      BY <1>2 DEF disk, local
    <3>2. row[j] <= Content(j, Pts) /\ copy[j] <= Content(j, Pts)
      BY <1>1 DEF OfThePast
    <3>3. row[j] \in Int /\ copy[j] \in Int /\ Content(j, Pts) \in Int
      BY <1>1, <1>5, ContentIs DEF TypeOK
    <3>4. Content(j, Pts) <= Content(j, Pts)'
      BY <1>5
    <3>5. Content(j, Pts)' \in Int
      BY <1>5
    <3> QED BY <3>1, <3>2, <3>3, <3>4, <3>5
  <2>2. storedPts' <= Pts' /\ diffPts' <= Pts' /\ seed' <= Pts' /\ sweptAt' <= Pts'
    BY <1>1, <1>2, <1>5 DEF OfThePast, TypeOK, disk, local, ghost
  <2> QED BY <2>1, <2>2 DEF OfThePast
<1>12. seed \in 0..Pts
  BY CursorsArePast
<1>13. \A j : Content(j, seed)' = Content(j, seed) /\ Gone(j, seed)' = Gone(j, seed)
  <2>1. PICK n : n = seed
    OBVIOUS
  <2>2. n' = n /\ seed' = n
    BY <1>2, <2>1 DEF ghost
  <2>3. \A j : Content(j, n)' = Content(j, n) /\ Gone(j, n)' = Gone(j, n)
    <3>1. n \in 0..Pts
      BY <1>12, <2>1
    <3> QED BY <1>2, <1>3, <1>4, <3>1, PastStays
  <2>4. \A j : Content(j, seed) = Content(j, n) /\ Gone(j, seed) = Gone(j, n)
    BY <2>1
  <2>5. \A j : Content(j, seed)' = Content(j, n)'
    <3>1. \A j : Writes(j, seed)' = Writes(j, n)'
      BY <2>2 DEF Writes
    <3> QED BY <3>1 DEF Content
  <2>6. \A j : Gone(j, seed)' = Gone(j, n)'
    BY <2>2 DEF Gone
  <2> QED BY <2>3, <2>4, <2>5, <2>6
<1>14. \A j : Fresh(j) => Fresh(j)'
  BY <1>2, <1>13 DEF Fresh, disk, local
<1>15. PageInHand'
  BY <1>1, <1>2, <1>14 DEF PageInHand, local
<1>16. DifferenceInHand'
  <2> SUFFICES ASSUME pc = "apply" PROVE DifferenceInHand'
    BY <1>2 DEF DifferenceInHand
  <2>1. /\ final => diffPts >= sweptAt
        /\ items \subseteq 1..Pts
        /\ \A n \in (seed + 1)..diffPts : Shown(n) \/ n \in items
        /\ \A e \in items : log[e].kind # "delete" =>
               Fresh(log[e].id) /\ e <= copy[log[e].id]
    BY <1>1 DEF DifferenceInHand
  <2>2. \A n \in (seed + 1)..diffPts : n \in 1..Pts
    <3>1. Pts \in Nat /\ diffPts \in Nat /\ seed \in Nat /\ diffPts <= Pts
      BY CursorsArePast
    <3> QED BY <3>1
  <2>3. \A n \in (seed' + 1)..diffPts' : Shown(n)' \/ n \in items'
    BY <1>2, <1>8, <2>1, <2>2 DEF local, ghost
  <2>4. items' \subseteq 1..Pts'
    BY <1>2, <1>5, <2>1 DEF local
  <2>5. ASSUME NEW e \in items, log'[e].kind # "delete"
        PROVE  Fresh(log[e].id)' /\ e <= copy[log[e].id]
    <3>1. log'[e] = log[e]
      BY <1>5, <2>1
    <3>2. PICK j : j = log[e].id
      OBVIOUS
    <3>3. Fresh(j)' /\ e <= copy[j]
      BY <1>14, <2>1, <2>5, <3>1, <3>2
    <3> QED BY <3>1, <3>2, <3>3 DEF Fresh, Content, Writes, Gone
  <2>6. \A e \in items : log'[e] = log[e]
    BY <1>5, <2>1
  <2> QED BY <1>2, <2>1, <2>3, <2>4, <2>5, <2>6 DEF DifferenceInHand, local, ghost
<1>17. TouchedSinceSeed' /\ Budgeted'
  BY <1>1, <1>2, <1>13 DEF TouchedSinceSeed, Budgeted, disk, local, ghost
<1> QED BY <1>7, <1>10, <1>11, <1>15, <1>16, <1>17 DEF IInv

(* What is said of the log and of the seed stays when they do not move.     *)
LEMMA PtsStays ==
    ASSUME log' = log
    PROVE  Pts' = Pts /\ \A j : Content(j, Pts)' = Content(j, Pts)
BY DEF Pts, Content, Writes

LEMMA SeedStays ==
    ASSUME log' = log, seed' = seed
    PROVE  /\ Pts' = Pts
           /\ \A j : /\ Content(j, Pts)' = Content(j, Pts)
                     /\ Content(j, seed)' = Content(j, seed) /\ Gone(j, seed)' = Gone(j, seed)
BY DEF Pts, Content, Writes, Gone

(* The contents Telegram serves now are at least as new as every row and as *)
(* the seed, and they are contents.                                         *)
LEMMA ServedIsFresh ==
    ASSUME IInv, NEW i \in Ids
    PROVE  /\ Content(i, Pts) \in 0..MaxEvents
           /\ row[i] <= Content(i, Pts) /\ Content(i, seed) <= Content(i, Pts)
<1>1. Pts \in Nat /\ Pts <= MaxEvents /\ seed \in Nat /\ seed <= Pts
  BY EventsAreTyped DEF IInv, TypeOK, OfThePast, Pts
<1>2. Content(i, Pts) \in 0..Pts
  BY <1>1, ContentIs
<1>3. Content(i, Pts) \in 0..MaxEvents
  BY <1>1, <1>2, PtsAssumption
<1>4. Content(i, seed) <= Content(i, Pts)
  BY <1>1, ContentGrows
<1>5. row[i] <= Content(i, Pts)
  BY DEF IInv, OfThePast
<1> QED BY <1>3, <1>4, <1>5

(* The sweep settles, with a new high-water mark.                           *)
LEMMA SettleTyped ==
    ASSUME TypeOK, NEW h \in 0..MaxId, NEW b \in BOOLEAN, Settle(h, b)
    PROVE  /\ high' \in 0..MaxId /\ pending' \in 0..MaxId /\ resumeAt' \in 0..MaxId
           /\ backfilled' \in BOOLEAN /\ pages' \in 0..CatchupBudget /\ pages' < CatchupBudget
           /\ pc' = "ask" /\ sweptAt' = Pts
BY PtsAssumption DEF TypeOK, Settle, Larger

-----------------------------------------------------------------------------
(* Every step of the run preserves it.                                      *)
LEMMA IInvSeedPts == ASSUME IInv, SeedPts PROVE IInv'
<1>1. /\ UNCHANGED <<log, row, deleted, high, backfilled, resumeAt, pending,
                     interrupts, page, copy, items, diffPts, final, pages, sweptAt>>
      /\ pc' = "sweep" /\ storedPts' = Pts /\ seed' = Pts /\ seen' = {} /\ outcome' = "none"
  BY DEF SeedPts
<1>2. TypeOK /\ OfThePast /\ Pts \in Nat /\ Pts <= MaxEvents
  BY EventsAreTyped DEF IInv, TypeOK, Pts
<1>3. TypeOK'
  <2>1. storedPts' \in 0..MaxEvents /\ seed' \in 0..MaxEvents
    BY <1>1, <1>2, PtsAssumption
  <2>2. pc' \in Locations /\ outcome' \in Outcomes
    BY <1>1 DEF Locations, Outcomes
  <2> QED BY <1>1, <1>2, <2>1, <2>2 DEF TypeOK
<1>4. CursorIsApplied' /\ CleanMeansDrained'
  BY <1>1, <1>2 DEF CursorIsApplied, CleanMeansDrained
<1>5. OfThePast'
  BY <1>1, <1>2, PtsStays DEF OfThePast
<1>6. PageInHand' /\ DifferenceInHand' /\ TouchedSinceSeed' /\ Budgeted'
  BY <1>1 DEF PageInHand, DifferenceInHand, TouchedSinceSeed, Budgeted
<1> QED BY <1>3, <1>4, <1>5, <1>6 DEF IInv

LEMMA IInvFetchPage == ASSUME IInv, FetchPage PROVE IInv'
<1>1. /\ UNCHANGED <<log, disk, interrupts, items, diffPts, final, pages, outcome, ghost>>
      /\ pc = "sweep" /\ pc' = "observe"
      /\ copy' = [i \in Ids |-> Content(i, Pts)]
  BY DEF FetchPage
<1>2. PICK k \in Older : page' = {i \in Older : k <= i}
  BY DEF FetchPage
<1>3. TypeOK /\ OfThePast /\ Pts \in Nat /\ seed \in Nat /\ seed <= Pts
  <2>1. TypeOK /\ OfThePast
    BY DEF IInv
  <2>2. Pts \in Nat
    BY <2>1, EventsAreTyped
  <2>3. seed \in Nat
    BY <2>1 DEF TypeOK
  <2>4. seed <= Pts
    BY <2>1 DEF OfThePast
  <2> QED BY <2>1, <2>2, <2>3, <2>4
<1>4. page' \subseteq live /\ page' # {} /\ live \subseteq Ids
  <2>1. Older \subseteq live /\ live \subseteq Ids
    BY DEF Older, live, Posted
  <2>2. k <= k
    BY <2>1, PtsAssumption DEF Ids
  <2> QED BY <1>2, <2>1, <2>2
<1>5. copy' \in [Ids -> 0..MaxEvents]
  BY <1>1, ServedIsFresh
<1>6. TypeOK'
  BY <1>1, <1>3, <1>4, <1>5 DEF TypeOK, disk, ghost, Locations
<1>7. CursorIsApplied' /\ CleanMeansDrained'
  <2>1. CursorIsApplied'
    BY <1>1 DEF IInv, CursorIsApplied, Shown, Gone, Pts, disk, ghost
  <2> QED BY <1>1, <2>1 DEF IInv, CleanMeansDrained, disk, ghost
<1>8. log' = log /\ seed' = seed /\ row' = row
  BY <1>1 DEF ghost, disk
<1>9. OfThePast'
  <2>1. \A i \in Ids : copy'[i] <= Content(i, Pts)
    BY <1>1, ServedIsFresh
  <2>2. \A i \in Ids : row'[i] <= Content(i, Pts)' /\ copy'[i] <= Content(i, Pts)'
    BY <1>3, <1>8, <2>1, SeedStays DEF OfThePast
  <2> QED BY <1>1, <1>3, <1>8, <2>2, SeedStays DEF OfThePast, disk, ghost
<1>10. PageInHand'
  <2>1. ASSUME NEW i \in page' PROVE Fresh(i)'
    <3>1. i \in Ids /\ ~Gone(i, seed)
      BY <1>3, <1>4, AliveSoFar
    <3>2. row[i] <= copy'[i] /\ Content(i, seed) <= copy'[i]
      BY <1>1, <3>1, ServedIsFresh
    <3> QED BY <1>8, <3>1, <3>2, SeedStays DEF Fresh
  <2> QED BY <1>4, <2>1 DEF PageInHand
<1>11. DifferenceInHand'
  BY <1>1 DEF DifferenceInHand
<1>12. TouchedSinceSeed' /\ Budgeted'
  BY <1>1, <1>8, SeedStays DEF IInv, TouchedSinceSeed, Budgeted, ghost, disk
<1> QED BY <1>6, <1>7, <1>9, <1>10, <1>11, <1>12 DEF IInv

LEMMA IInvEmptyPage == ASSUME IInv, EmptyPage PROVE IInv'
<1>1. /\ UNCHANGED <<log, row, deleted, storedPts, interrupts, page, copy, items,
                     diffPts, final, outcome, seed, seen>>
      /\ pc = "sweep" /\ Settle(pending, TRUE)
  BY DEF EmptyPage
<1>2. TypeOK /\ OfThePast /\ Pts \in Nat /\ Pts <= MaxEvents
  BY EventsAreTyped DEF IInv, TypeOK, Pts
<1>3. /\ high' \in 0..MaxId /\ pending' \in 0..MaxId /\ resumeAt' \in 0..MaxId
      /\ backfilled' \in BOOLEAN /\ pages' \in 0..CatchupBudget /\ pages' < CatchupBudget
      /\ pc' = "ask" /\ sweptAt' = Pts
  <2>1. PICK h \in 0..MaxId : h = pending
    BY <1>2 DEF TypeOK
  <2>2. Settle(h, TRUE)
    BY <1>1, <2>1 DEF Settle
  <2> QED BY <1>2, <2>2, SettleTyped
<1>4. TypeOK'
  <2>1. sweptAt' \in 0..MaxEvents /\ pc' \in Locations
    BY <1>2, <1>3, PtsAssumption DEF Locations
  <2> QED BY <1>1, <1>2, <1>3, <2>1 DEF TypeOK
<1>5. CursorIsApplied' /\ CleanMeansDrained'
  <2>1. CursorIsApplied'
    BY <1>1 DEF IInv, CursorIsApplied, Shown, Gone, Pts
  <2> QED BY <1>1, <2>1 DEF IInv, CleanMeansDrained, Budgeted
<1>6. OfThePast'
  BY <1>1, <1>2, <1>3, SeedStays DEF OfThePast
<1>7. PageInHand' /\ DifferenceInHand'
  BY <1>3 DEF PageInHand, DifferenceInHand
<1>8. TouchedSinceSeed' /\ Budgeted'
  BY <1>1, <1>3, SeedStays DEF IInv, TouchedSinceSeed, Budgeted
<1> QED BY <1>4, <1>5, <1>6, <1>7, <1>8 DEF IInv

LEMMA IInvObservePage == ASSUME IInv, ObservePage PROVE IInv'
<1>1. /\ UNCHANGED <<log, deleted, storedPts, interrupts, page, copy, items,
                     diffPts, final, outcome, seed>>
      /\ pc = "observe" /\ row' = [i \in Ids |-> IF i \in page THEN copy[i] ELSE row[i]]
      /\ seen' = seen \cup page
  BY DEF ObservePage
<1>2. TypeOK /\ OfThePast /\ Pts \in Nat /\ Pts <= MaxEvents
  BY EventsAreTyped DEF IInv, TypeOK, Pts
<1>3. page # {} /\ page \subseteq Ids /\ \A i \in page : Fresh(i)
  BY <1>1, <1>2 DEF IInv, PageInHand, TypeOK
<1>4. /\ high' \in 0..MaxId /\ pending' \in 0..MaxId /\ resumeAt' \in 0..MaxId
      /\ backfilled' \in BOOLEAN /\ pages' \in 0..CatchupBudget
      /\ \/ pc' = "ask" /\ sweptAt' = Pts /\ pages' < CatchupBudget
         \/ pc' = "sweep" /\ sweptAt' = sweptAt
  <2> DEFINE top == Larger(pending, Newest(page))
  <2>1. Newest(page) \in 0..MaxId /\ Oldest(page) \in 0..MaxId
    BY <1>3, PageEnds
  <2>2. PICK h \in 0..MaxId : h = top
    BY <1>2, <2>1 DEF TypeOK, Larger
  <2>3. CASE backfilled /\ Oldest(page) <= high
    <3>1. Settle(h, TRUE)
      BY <2>2, <2>3 DEF ObservePage, Settle
    <3> QED BY <1>2, <3>1, SettleTyped
  <2>4. CASE ~(backfilled /\ Oldest(page) <= high)
    <3>1. /\ pending' = h /\ resumeAt' = Oldest(page) /\ pc' = "sweep"
          /\ UNCHANGED <<high, backfilled, pages, sweptAt>>
      BY <2>2, <2>4 DEF ObservePage
    <3> QED BY <1>2, <2>1, <3>1 DEF TypeOK
  <2> QED BY <2>3, <2>4
<1>5. row' \in [Ids -> 0..MaxEvents] /\ \A i \in Ids : row[i] <= row'[i]
  <2>1. row' \in [Ids -> 0..MaxEvents]
    BY <1>1, <1>2 DEF TypeOK
  <2>2. ASSUME NEW i \in Ids PROVE row[i] <= row'[i]
    <3>1. row[i] \in Int
      BY <1>2 DEF TypeOK
    <3> QED BY <1>1, <1>3, <3>1 DEF Fresh
  <2> QED BY <2>1, <2>2
<1>6. TypeOK'
  <2>1. sweptAt' \in 0..MaxEvents /\ pc' \in Locations /\ seen' \subseteq Ids
    BY <1>1, <1>2, <1>3, <1>4, PtsAssumption DEF Locations, TypeOK
  <2> QED BY <1>1, <1>2, <1>4, <1>5, <2>1 DEF TypeOK
<1>7. CursorIsApplied'
  BY <1>1, <1>5, CursorStays
<1>8. outcome' # "clean"
  BY <1>1 DEF IInv, Budgeted
<1>9. CleanMeansDrained' /\ PageInHand' /\ DifferenceInHand' /\ Budgeted'
  BY <1>4, <1>8 DEF CleanMeansDrained, PageInHand, DifferenceInHand, Budgeted
<1>10. OfThePast'
  <2>1. \A i \in Ids : row'[i] <= Content(i, Pts)
    BY <1>1, <1>2 DEF OfThePast
  <2> QED BY <1>1, <1>2, <1>4, <2>1, SeedStays DEF OfThePast
<1>11. TouchedSinceSeed'
  <2>1. ASSUME NEW i \in seen' PROVE row'[i] >= Content(i, seed) /\ ~Gone(i, seed)
    <3>1. CASE i \in page
      BY <1>1, <1>3, <3>1 DEF Fresh
    <3>2. CASE i \notin page
      BY <1>1, <1>2, <3>2 DEF IInv, TouchedSinceSeed, TypeOK
    <3> QED BY <3>1, <3>2
  <2> QED BY <1>1, <2>1, SeedStays DEF TouchedSinceSeed
<1> QED BY <1>6, <1>7, <1>9, <1>10, <1>11 DEF IInv

(* A difference served for the stored pts covers every event up to its own. *)
LEMMA IInvAskDifference == ASSUME IInv, AskDifference PROVE IInv'
<1>1. /\ UNCHANGED <<log, disk, interrupts, page, pages, outcome, ghost>>
      /\ pc = "ask" /\ pc' = "apply" /\ items' = Served /\ diffPts' = Upto
      /\ final' = (Upto = Pts) /\ copy' = [i \in Ids |-> Content(i, Pts)]
  BY DEF AskDifference
<1>2. /\ TypeOK /\ OfThePast /\ CursorIsApplied
      /\ Pts \in Nat /\ Pts <= MaxEvents /\ \A n \in 1..Pts : log[n].id \in Ids
  BY EventsAreTyped DEF IInv, TypeOK, Pts
<1>3. seed \in Nat /\ storedPts \in Nat /\ seed <= Pts /\ storedPts <= Pts /\ sweptAt <= Pts
  BY <1>2 DEF TypeOK, OfThePast
<1>4. Upto \in Nat /\ Upto <= Pts
  BY <1>2, <1>3, PtsAssumption DEF Upto
<1>5. Served \subseteq 1..Pts
  BY <1>2, <1>3, <1>4 DEF Served
<1>6. copy' \in [Ids -> 0..MaxEvents]
  BY <1>1, ServedIsFresh
<1>7. log' = log /\ seed' = seed /\ row' = row /\ deleted' = deleted
  BY <1>1 DEF ghost, disk
<1>8. TypeOK'
  <2>1. diffPts' \in 0..MaxEvents /\ items' \subseteq 1..MaxEvents /\ final' \in BOOLEAN
    BY <1>1, <1>2, <1>4, <1>5, PtsAssumption
  <2> QED BY <1>1, <1>2, <1>6, <2>1 DEF TypeOK, disk, ghost, Locations
<1>9. CursorIsApplied' /\ CleanMeansDrained'
  <2>1. CursorIsApplied'
    BY <1>1 DEF IInv, CursorIsApplied, Shown, Gone, Pts, disk, ghost
  <2> QED BY <1>1, <2>1 DEF IInv, CleanMeansDrained, disk, ghost
<1>10. OfThePast'
  <2>1. \A i \in Ids : copy'[i] <= Content(i, Pts)
    BY <1>1, ServedIsFresh
  <2>2. \A i \in Ids : row'[i] <= Content(i, Pts)' /\ copy'[i] <= Content(i, Pts)'
    BY <1>2, <1>7, <2>1, SeedStays DEF OfThePast
  <2> QED BY <1>1, <1>2, <1>4, <1>7, <2>2, SeedStays DEF OfThePast, disk, ghost
<1>11. DifferenceInHand'
  <2>1. final' => diffPts' >= sweptAt'
    BY <1>1, <1>2, <1>3, <1>4 DEF ghost
  <2>2. items' \subseteq 1..Pts'
    BY <1>1, <1>5, <1>7, SeedStays
  <2>3. ASSUME NEW n \in (seed + 1)..Upto PROVE Shown(n)' \/ n \in items'
    <3>1. n \in 1..Pts /\ n \in Nat
      BY <1>2, <1>3, <1>4
    <3>2. CASE n <= storedPts
      BY <1>2, <1>3, <1>7, <3>1, <3>2 DEF CursorIsApplied, Shown, Gone, Pts
    <3>3. CASE n > storedPts /\ (log[n].kind = "delete" \/ log[n].id \in live)
      <4>1. n \in (storedPts + 1)..Upto
        BY <1>3, <1>4, <3>1, <3>3
      <4> QED BY <1>1, <3>3, <4>1 DEF Served
    <3>4. CASE n > storedPts /\ log[n].kind # "delete" /\ log[n].id \notin live
      <4>1. log[n].id \in Ids
        BY <1>2, <3>1
      <4>2. n <= Content(log[n].id, Pts) /\ Content(log[n].id, Pts) \in Nat
        BY <1>2, <3>1, <3>4, ContentIs
      <4>3. log[n].id \in Posted
        BY <3>1, <4>1, <4>2 DEF Posted
      <4>4. Gone(log[n].id, Pts)
        BY <3>4, <4>3 DEF live
      <4> QED BY <1>7, <3>4, <4>4 DEF Shown, Gone, Pts
    <3> QED BY <1>3, <3>1, <3>2, <3>3, <3>4
  <2>4. ASSUME NEW e \in items', log[e].kind # "delete"
        PROVE  Fresh(log[e].id)' /\ e <= copy'[log[e].id]
    <3>1. e \in 1..Pts /\ log[e].id \in live
      BY <1>1, <1>5, <2>4 DEF Served
    <3>2. PICK i \in Ids : i = log[e].id
      BY <1>2, <3>1
    <3>3. ~Gone(i, seed)
      BY <1>2, <1>3, <3>1, <3>2, AliveSoFar
    <3>4. row[i] <= copy'[i] /\ Content(i, seed) <= copy'[i] /\ copy'[i] = Content(i, Pts)
      BY <1>1, ServedIsFresh
    <3>5. Fresh(i)'
      BY <1>7, <3>3, <3>4, SeedStays DEF Fresh
    <3>6. e <= copy'[i]
      BY <1>2, <2>4, <3>1, <3>2, <3>4, ContentIs
    <3> QED BY <1>7, <3>2, <3>5, <3>6 DEF Fresh, Content, Writes, Gone
  <2> QED BY <1>1, <1>7, <2>1, <2>2, <2>3, <2>4 DEF DifferenceInHand
<1>12. PageInHand' /\ Budgeted'
  BY <1>1 DEF IInv, PageInHand, Budgeted
<1>13. TouchedSinceSeed'
  BY <1>1, <1>7, SeedStays DEF IInv, TouchedSinceSeed, ghost
<1> QED BY <1>8, <1>9, <1>10, <1>11, <1>12, <1>13 DEF IInv

LEMMA IInvTooLong == ASSUME IInv, TooLong PROVE IInv'
<1>1. /\ UNCHANGED <<log, deleted, high, backfilled, resumeAt, pending, interrupts,
                     page, copy, items, diffPts, final, pages, sweptAt>>
      /\ pc' = "idle" /\ outcome' = "resynced"
      /\ (storedPts' = Pts /\ seed' = Pts) \/ UNCHANGED <<storedPts, seed>>
  BY DEF TooLong
<1>2. PICK k \in Ids :
        LET answer == {i \in live : k <= i}
        IN  /\ row' = [i \in Ids |-> IF i \in answer THEN Content(i, Pts) ELSE row[i]]
            /\ seen' = seen \cup answer
  BY DEF TooLong
<1>3. TypeOK /\ OfThePast /\ Pts \in Nat /\ Pts <= MaxEvents
  BY EventsAreTyped DEF IInv, TypeOK, Pts
<1>4. row' \in [Ids -> 0..MaxEvents] /\ seen' \subseteq Ids
  BY <1>2, <1>3, ServedIsFresh DEF TypeOK, live, Posted
<1>5. \A i \in Ids : row[i] <= row'[i] /\ row'[i] <= Content(i, Pts)
  <2>1. TAKE i \in Ids
  <2>2. row[i] \in Int /\ row[i] <= Content(i, Pts) /\ Content(i, Pts) \in Int
    BY <1>3, ServedIsFresh DEF TypeOK
  <2> QED BY <1>2, <2>2
<1>6. TypeOK'
  <2>1. storedPts' \in 0..MaxEvents /\ seed' \in 0..MaxEvents
    BY <1>1, <1>3, PtsAssumption DEF TypeOK
  <2> QED BY <1>1, <1>3, <1>4, <2>1 DEF TypeOK, Locations, Outcomes
<1>7. CursorIsApplied'
  <2>1. CASE storedPts' = Pts /\ seed' = Pts
    BY <1>3, <2>1 DEF CursorIsApplied
  <2>2. CASE UNCHANGED <<storedPts, seed>>
    BY <1>1, <1>4, <1>5, <2>2, CursorStays
  <2> QED BY <1>1, <2>1, <2>2
<1>8. OfThePast'
  <2>1. storedPts' <= Pts /\ seed' <= Pts
    BY <1>1, <1>3 DEF OfThePast
  <2> QED BY <1>1, <1>3, <1>5, <2>1, PtsStays DEF OfThePast
<1>9. /\ CleanMeansDrained' /\ PageInHand' /\ DifferenceInHand'
      /\ TouchedSinceSeed' /\ Budgeted'
  BY <1>1 DEF CleanMeansDrained, PageInHand, DifferenceInHand, TouchedSinceSeed, Budgeted
<1> QED BY <1>6, <1>7, <1>8, <1>9 DEF IInv

LEMMA IInvStalledPage == ASSUME IInv, StalledPage PROVE IInv'
<1>1. /\ UNCHANGED <<log, disk, interrupts, page, copy, pages, outcome, ghost>>
      /\ pc = "ask" /\ pc' = "apply" /\ items' = {} /\ diffPts' = storedPts /\ final' = FALSE
  BY DEF StalledPage
<1>2. TypeOK /\ OfThePast /\ CursorIsApplied /\ CleanMeansDrained
  BY DEF IInv
<1>3. log' = log /\ seed' = seed /\ row' = row
  BY <1>1 DEF ghost, disk
<1>4. TypeOK'
  BY <1>1, <1>2 DEF TypeOK, disk, ghost, Locations
<1>5. CursorIsApplied'
  BY <1>1, <1>2 DEF CursorIsApplied, Shown, Gone, Pts, disk, ghost
<1>6. CleanMeansDrained' /\ OfThePast'
  BY <1>1, <1>2, <1>3, PtsStays DEF CleanMeansDrained, OfThePast, disk, ghost
<1>7. DifferenceInHand'
  BY <1>1, <1>5 DEF DifferenceInHand, CursorIsApplied, disk
<1>8. PageInHand' /\ Budgeted'
  BY <1>1 DEF IInv, PageInHand, Budgeted
<1>9. TouchedSinceSeed'
  BY <1>1, <1>3, SeedStays DEF IInv, TouchedSinceSeed, ghost
<1> QED BY <1>4, <1>5, <1>6, <1>7, <1>8, <1>9 DEF IInv

LEMMA IInvApplyItem == ASSUME IInv, ApplyItem PROVE IInv'
<1>1. /\ UNCHANGED <<log, storedPts, high, backfilled, resumeAt, pending, interrupts,
                     pc, page, copy, diffPts, final, pages, outcome, seed, sweptAt>>
      /\ pc = "apply"
  BY DEF ApplyItem
<1>2. PICK e \in items :
        /\ items' = items \ {e}
        /\ IF log[e].kind = "delete"
           THEN deleted' = deleted \cup {log[e].id} /\ UNCHANGED <<row, seen>>
           ELSE /\ row' = [row EXCEPT ![log[e].id] = copy[log[e].id]]
                /\ seen' = seen \cup {log[e].id}
                /\ UNCHANGED deleted
  BY DEF ApplyItem
<1>3. /\ TypeOK /\ OfThePast /\ Pts \in Nat /\ \A n \in 1..Pts : log[n].id \in Ids
      /\ \A i \in Ids : row[i] \in Int /\ copy[i] \in Int
  <2>1. TypeOK /\ OfThePast
    BY DEF IInv
  <2>2. \A i \in Ids : row[i] \in Int /\ copy[i] \in Int
    BY <2>1 DEF TypeOK
  <2> QED BY <2>1, <2>2, EventsAreTyped
<1>4. /\ final => diffPts >= sweptAt
      /\ items \subseteq 1..Pts
      /\ \A n \in (seed + 1)..diffPts : Shown(n) \/ n \in items
      /\ \A f \in items : log[f].kind # "delete" =>
             Fresh(log[f].id) /\ f <= copy[log[f].id]
  BY <1>1 DEF IInv, DifferenceInHand
<1>5. PICK id \in Ids : id = log[e].id
  BY <1>2, <1>3, <1>4
<1>6. log[e].kind # "delete" =>
        /\ row[id] <= copy[id] /\ Content(id, seed) <= copy[id] /\ ~Gone(id, seed)
        /\ e <= copy[id]
  BY <1>2, <1>4, <1>5 DEF Fresh
<1>7. /\ row' \in [Ids -> 0..MaxEvents] /\ seen' \subseteq Ids
      /\ deleted \subseteq deleted' /\ deleted' \subseteq Ids
  BY <1>2, <1>3, <1>5 DEF TypeOK
<1>8. \A i \in Ids :
        row'[i] = IF i = id /\ log[e].kind # "delete" THEN copy[i] ELSE row[i]
  BY <1>2, <1>3, <1>5 DEF TypeOK
<1>9. \A i \in Ids : row[i] <= row'[i] /\ row'[i] <= Content(i, Pts)
  <2>1. TAKE i \in Ids
  <2>2. row[i] <= Content(i, Pts) /\ copy[i] <= Content(i, Pts)
    BY <1>3 DEF OfThePast
  <2> QED BY <1>3, <1>6, <1>8, <2>2
<1>10. TypeOK'
  BY <1>1, <1>2, <1>3, <1>7 DEF TypeOK
<1>11. CursorIsApplied'
  BY <1>1, <1>7, <1>9, CursorStays
<1>12. CleanMeansDrained' /\ PageInHand' /\ Budgeted'
  BY <1>1 DEF IInv, CleanMeansDrained, PageInHand, Budgeted
<1>13. OfThePast'
  BY <1>1, <1>3, <1>9, PtsStays DEF OfThePast
<1>14. Shown(e)'
  <2>1. e \in Int /\ row'[id] \in Int
    BY <1>3, <1>4, <1>5, <1>8
  <2>2. log[e].kind # "delete" => row'[id] >= e
    BY <1>3, <1>6, <1>8, <2>1
  <2> QED BY <1>1, <1>2, <1>5, <2>2 DEF Shown
<1>15. DifferenceInHand'
  <2>1. ASSUME NEW n \in (seed + 1)..diffPts PROVE Shown(n)' \/ n \in items'
    <3>1. CASE n = e
      BY <1>14, <3>1
    <3>2. CASE n # e /\ n \in items
      BY <1>2, <3>2
    <3>3. CASE Shown(n)
      <4>1. n \in 1..Pts
        BY <1>3 DEF TypeOK, OfThePast
      <4> QED BY <1>1, <1>3, <1>7, <1>9, <3>3, <4>1, ShownStays
    <3> QED BY <1>4, <3>1, <3>2, <3>3
  <2>2. ASSUME NEW f \in items', log[f].kind # "delete"
        PROVE  Fresh(log[f].id)' /\ f <= copy[log[f].id]
    <3>1. PICK i \in Ids : i = log[f].id
      BY <1>2, <1>3, <1>4
    <3>2. Fresh(i) /\ f <= copy[i]
      BY <1>2, <1>4, <2>2, <3>1
    <3>3. row'[i] <= copy[i]
      BY <1>3, <1>8, <3>2 DEF Fresh
    <3>4. Fresh(i)'
      BY <1>1, <3>2, <3>3, SeedStays DEF Fresh
    <3> QED BY <1>1, <3>1, <3>2, <3>4 DEF Fresh, Content, Writes, Gone
  <2>3. items' \subseteq 1..Pts'
    BY <1>1, <1>2, <1>4, SeedStays
  <2> QED BY <1>1, <1>4, <2>1, <2>2, <2>3 DEF DifferenceInHand
<1>16. TouchedSinceSeed'
  <2>1. ASSUME NEW i \in seen' PROVE row'[i] >= Content(i, seed) /\ ~Gone(i, seed)
    <3>1. CASE i = id /\ log[e].kind # "delete"
      BY <1>6, <1>8, <3>1
    <3>2. CASE ~(i = id /\ log[e].kind # "delete")
      <4>1. i \in seen /\ i \in Ids
        BY <1>2, <1>5, <1>7, <3>2
      <4> QED BY <1>1, <1>8, <3>2, <4>1 DEF IInv, TouchedSinceSeed
    <3> QED BY <3>1, <3>2
  <2> QED BY <1>1, <2>1, SeedStays DEF TouchedSinceSeed
<1> QED BY <1>10, <1>11, <1>12, <1>13, <1>15, <1>16 DEF IInv

LEMMA IInvFinishPage == ASSUME IInv, FinishPage PROVE IInv'
<1> DEFINE stalled == ~final /\ diffPts <= storedPts
           spent   == pages + 1 >= CatchupBudget
<1>1. /\ UNCHANGED <<log, row, deleted, high, backfilled, resumeAt, pending,
                     interrupts, page, copy, items, diffPts, final, ghost>>
      /\ pc = "apply" /\ items = {}
      /\ storedPts' = (IF stalled THEN storedPts ELSE diffPts)
      /\ pages' = (IF final \/ stalled THEN pages ELSE pages + 1)
      /\ outcome' = (IF final THEN "clean"
                     ELSE IF stalled THEN "stalled"
                     ELSE IF spent THEN "phase_stop" ELSE outcome)
      /\ pc' = (IF final \/ stalled \/ spent THEN "idle" ELSE "ask")
  BY DEF FinishPage
<1>2. /\ TypeOK /\ OfThePast /\ CursorIsApplied
      /\ pages < CatchupBudget /\ outcome # "clean"
      /\ pages \in Nat /\ CatchupBudget \in Nat
  BY <1>1, PtsAssumption DEF IInv, Budgeted, TypeOK
<1>3. /\ final => diffPts >= sweptAt
      /\ \A n \in (seed + 1)..diffPts : Shown(n)
  BY <1>1 DEF IInv, DifferenceInHand
<1>4. log' = log /\ seed' = seed /\ row' = row /\ deleted' = deleted /\ sweptAt' = sweptAt
  BY <1>1 DEF ghost
<1>5. /\ outcome' = "clean" => final
      /\ pc' # "idle" => ~final /\ ~stalled /\ ~spent /\ pc' = "ask"
      /\ final => pc' = "idle"
  BY <1>1, <1>2
<1>6. TypeOK'
  <2>1. storedPts' \in 0..MaxEvents /\ pages' \in 0..CatchupBudget
    BY <1>1, <1>2 DEF TypeOK
  <2>2. outcome' \in Outcomes /\ pc' \in Locations
    BY <1>1, <1>2 DEF TypeOK, Outcomes, Locations
  <2> HIDE DEF stalled, spent
  <2> QED BY <1>1, <1>2, <2>1, <2>2 DEF TypeOK, ghost
<1>7. CursorIsApplied'
  <2>1. \A n \in (seed + 1)..storedPts' : Shown(n)
    BY <1>1, <1>2, <1>3 DEF CursorIsApplied
  <2> QED BY <1>4, <2>1 DEF CursorIsApplied, Shown, Gone, Pts
<1>8. CleanMeansDrained'
  BY <1>1, <1>3, <1>4, <1>5 DEF CleanMeansDrained
<1>9. OfThePast'
  <2>1. storedPts' <= Pts
    BY <1>1, <1>2 DEF OfThePast
  <2> HIDE DEF stalled, spent
  <2> QED BY <1>1, <1>2, <1>4, <2>1, PtsStays DEF OfThePast
<1>10. PageInHand' /\ DifferenceInHand'
  BY <1>5 DEF PageInHand, DifferenceInHand
<1>11. TouchedSinceSeed'
  <2> HIDE DEF stalled, spent
  <2> QED BY <1>1, <1>4, SeedStays DEF IInv, TouchedSinceSeed, ghost
<1>12. Budgeted'
  BY <1>1, <1>2, <1>5 DEF Budgeted
<1> QED BY <1>6, <1>7, <1>8, <1>9, <1>10, <1>11, <1>12 DEF IInv

LEMMA IInvInterrupt == ASSUME IInv, Interrupt PROVE IInv'
<1>1. /\ UNCHANGED <<log, disk, page, copy, items, diffPts, final, pages, ghost>>
      /\ interrupts < MaxInterrupts /\ interrupts' = interrupts + 1
      /\ pc' = "idle" /\ outcome' = "dead"
  BY DEF Interrupt
<1>2. TypeOK /\ OfThePast /\ CursorIsApplied
  BY DEF IInv
<1>3. TypeOK'
  BY <1>1, <1>2, PtsAssumption DEF TypeOK, disk, ghost, Locations, Outcomes
<1>4. CursorIsApplied'
  BY <1>1, <1>2 DEF CursorIsApplied, Shown, Gone, Pts, disk, ghost
<1>5. OfThePast'
  BY <1>1, <1>2, PtsStays DEF OfThePast, disk, ghost
<1>6. /\ CleanMeansDrained' /\ PageInHand' /\ DifferenceInHand'
      /\ TouchedSinceSeed' /\ Budgeted'
  BY <1>1 DEF CleanMeansDrained, PageInHand, DifferenceInHand, TouchedSinceSeed, Budgeted
<1> QED BY <1>3, <1>4, <1>5, <1>6 DEF IInv

LEMMA IInvStutter == ASSUME IInv, UNCHANGED vars PROVE IInv'
<1>1. /\ UNCHANGED <<log, disk, interrupts, pc, local, ghost>>
      /\ log' = log /\ seed' = seed /\ row' = row
  BY DEF vars, disk, ghost
<1>2. /\ TypeOK /\ OfThePast /\ CursorIsApplied /\ CleanMeansDrained
      /\ PageInHand /\ DifferenceInHand /\ TouchedSinceSeed /\ Budgeted
  BY DEF IInv
<1>3. TypeOK'
  BY <1>1, <1>2 DEF TypeOK, disk, local, ghost
<1>4. CursorIsApplied'
  BY <1>1, <1>2 DEF CursorIsApplied, Shown, Gone, Pts, disk, ghost
<1>5. OfThePast' /\ CleanMeansDrained'
  BY <1>1, <1>2, PtsStays DEF OfThePast, CleanMeansDrained, disk, local, ghost
<1>6. PageInHand'
  <2>1. \A i : Fresh(i) => Fresh(i)'
    BY <1>1, SeedStays DEF Fresh, local
  <2> QED BY <1>1, <1>2, <2>1 DEF PageInHand, local
<1>7. DifferenceInHand'
  <2>1. \A n : Shown(n) => Shown(n)'
    BY <1>1 DEF Shown, Gone, Pts, disk
  <2>2. \A e : Fresh(log[e].id) => Fresh(log[e].id)'
    BY <1>1 DEF Fresh, Content, Writes, Gone, local
  <2> QED BY <1>1, <1>2, <2>1, <2>2, PtsStays DEF DifferenceInHand, disk, local, ghost
<1>8. TouchedSinceSeed' /\ Budgeted'
  BY <1>1, <1>2, SeedStays DEF TouchedSinceSeed, Budgeted, disk, local, ghost
<1> QED BY <1>3, <1>4, <1>5, <1>6, <1>7, <1>8 DEF IInv

LEMMA IInvNext == IInv /\ [Next]_vars => IInv'
<1> SUFFICES ASSUME IInv, [Next]_vars PROVE IInv'
  OBVIOUS
<1>1. CASE Server
  <2>1. PICK kind \in {"new", "edit", "delete"}, i \in Ids : Happens(kind, i)
    BY <1>1 DEF Server, Post, Edit, Delete, live, Posted
  <2> QED BY <2>1, IInvHappens
<1>2. CASE SeedPts
  BY <1>2, IInvSeedPts
<1>3. CASE Sweep
  BY <1>3, IInvFetchPage, IInvEmptyPage, IInvObservePage DEF Sweep
<1>4. CASE CatchUp
  BY <1>4, IInvAskDifference, IInvTooLong, IInvStalledPage, IInvApplyItem, IInvFinishPage
     DEF CatchUp
<1>5. CASE Interrupt
  BY <1>5, IInvInterrupt
<1>6. CASE UNCHANGED vars
  BY <1>6, IInvStutter
<1> QED BY <1>1, <1>2, <1>3, <1>4, <1>5, <1>6 DEF Next

-----------------------------------------------------------------------------
(* The channel phase, the sweep and catch_up keep every cursor, row and     *)
(* answer in its type, whatever Telegram does in between.                   *)
THEOREM PtsTypeCorrect == Spec => []TypeOK
<1>1. IInv => TypeOK
  BY DEF IInv
<1> QED BY IInvInit, IInvNext, <1>1, PTL DEF Spec

(* However often catch_up is killed within a page or cut short, every event *)
(* between the seed and the persisted pts is in the store.                  *)
THEOREM CursorStaysApplied == Spec => []CursorIsApplied
<1>1. IInv => CursorIsApplied
  BY DEF IInv
<1> QED BY IInvInit, IInvNext, <1>1, PTL DEF Spec

(* A catch-up that reads as a clean finish has reached everything that had  *)
(* happened when the sweep ended.                                           *)
THEOREM CleanStaysDrained == Spec => []CleanMeansDrained
<1>1. IInv => CleanMeansDrained
  BY DEF IInv
<1> QED BY IInvInit, IInvNext, <1>1, PTL DEF Spec

(* After a clean run, what the run touched is as Telegram had it at the     *)
(* stored pts or later: what an event after the seed wrote was applied, and *)
(* what an earlier one wrote was already in the copy the run projected.     *)
THEOREM TouchedStaysCurrent == Spec => []TouchedIsCurrent
<1>1. IInv => TouchedIsCurrent
  <2> SUFFICES ASSUME IInv, outcome = "clean", NEW i \in seen
               PROVE  /\ row[i] >= Content(i, storedPts) \/ Gone(i, Pts)
                      /\ Gone(i, storedPts) => i \in deleted
    BY DEF TouchedIsCurrent
  <2>1. /\ TypeOK /\ i \in Ids /\ row[i] \in Int
        /\ storedPts \in Nat /\ seed \in Nat /\ Pts \in Nat
    <3>1. TypeOK
      BY DEF IInv
    <3>2. Pts \in Nat /\ storedPts \in Nat /\ seed \in Nat
      BY <3>1, EventsAreTyped DEF TypeOK
    <3>3. i \in Ids
      BY <3>1 DEF TypeOK
    <3>4. row[i] \in Int
      BY <3>1, <3>3 DEF TypeOK
    <3> QED BY <3>1, <3>2, <3>3, <3>4
  <2>2. row[i] >= Content(i, seed) /\ ~Gone(i, seed)
    BY DEF IInv, TouchedSinceSeed
  <2>3. \A n \in (seed + 1)..storedPts : Shown(n)
    BY DEF IInv, CursorIsApplied
  <2>4. row[i] >= Content(i, storedPts) \/ Gone(i, Pts)
    <3> DEFINE c == Content(i, storedPts)
    <3>1. c \in 0..storedPts /\ Content(i, seed) \in Nat /\ (c # 0 => c \in Writes(i, storedPts))
      BY <2>1, ContentIs
    <3>2. CASE c = 0
      BY <2>1, <2>2, <3>1, <3>2
    <3>3. CASE c # 0 /\ c <= seed
      <4>1. c \in 1..seed /\ log[c].id = i /\ log[c].kind # "delete"
        BY <2>1, <3>1, <3>3 DEF Writes
      <4>2. c <= Content(i, seed)
        BY <2>1, <4>1, ContentIs
      <4> QED BY <2>1, <2>2, <3>1, <4>2
    <3>4. CASE c > seed
      <4>1. c \in (seed + 1)..storedPts /\ log[c].id = i /\ log[c].kind # "delete"
        BY <2>1, <3>1, <3>4 DEF Writes
      <4>2. Shown(c)
        BY <2>3, <4>1
      <4> QED BY <4>1, <4>2 DEF Shown
    <3> QED BY <2>1, <3>1, <3>2, <3>3, <3>4
  <2>5. ASSUME Gone(i, storedPts) PROVE i \in deleted
    <3>1. PICK e \in 1..storedPts : log[e].kind = "delete" /\ log[e].id = i
      BY <2>5 DEF Gone
    <3>2. e \notin 1..seed
      BY <2>2, <3>1 DEF Gone
    <3>3. e \in (seed + 1)..storedPts
      BY <2>1, <3>2
    <3> QED BY <2>3, <3>1, <3>3 DEF Shown
  <2> QED BY <2>4, <2>5
<1> QED BY IInvInit, IInvNext, <1>1, PTL DEF Spec

-----------------------------------------------------------------------------
(* The archive.  When nothing happens on Telegram, the messages stay.       *)
LEMMA ServerStill ==
    ASSUME log' = log
    PROVE  Pts' = Pts /\ Posted' = Posted /\ live' = live
<1>1. Pts' = Pts /\ \A i, n : Content(i, n)' = Content(i, n) /\ Gone(i, n)' = Gone(i, n)
  BY LogUnchanged
<1>2. Posted' = Posted
  BY <1>1 DEF Posted
<1> QED BY <1>1, <1>2 DEF live

(* A message has been posted when some event wrote it; rows are of posted   *)
(* messages.                                                                *)
LEMMA PostedIs ==
    ASSUME TypeOK
    PROVE  /\ Posted = {i \in Ids : Writes(i, Pts) # {}}
           /\ Posted \subseteq Ids /\ Ids \subseteq Nat \ {0} /\ live \subseteq Posted
<1>1. Pts \in Nat
  BY EventsAreTyped
<1>2. ASSUME NEW i \in Ids PROVE Content(i, Pts) # 0 <=> Writes(i, Pts) # {}
  <2>1. Content(i, Pts) # 0 => Content(i, Pts) \in Writes(i, Pts)
    BY <1>1, ContentIs
  <2>2. \A e \in Writes(i, Pts) : e <= Content(i, Pts) /\ e \in 1..Pts
    BY <1>1, ContentIs DEF Writes
  <2>3. Content(i, Pts) = 0 => Writes(i, Pts) = {}
    BY <1>1, <2>2
  <2> QED BY <2>1, <2>3
<1> QED BY <1>2, PtsAssumption DEF Posted, live, Ids

(* What an event changes: a new message is posted and resolves, a deleted   *)
(* one no longer does, and an edit changes neither.                         *)
LEMMA EventEffect ==
    ASSUME IInv, AInv, NEW kind \in {"new", "edit", "delete"}, NEW i \in Ids,
           Happens(kind, i), kind = "new" => i \notin Posted, kind # "new" => i \in live
    PROVE  /\ Pts \in Nat /\ Pts' = Pts + 1
           /\ \A e \in 1..Pts : log'[e] = log[e]
           /\ log'[Pts + 1].id = i
           /\ kind = "new" => Posted' = Posted \cup {i} /\ live' = live \cup {i}
           /\ kind = "edit" => Posted' = Posted /\ live' = live
           /\ kind = "delete" => Posted' = Posted /\ live' = live \ {i}
<1> DEFINE ev == [kind |-> kind, id |-> i]
<1>1. TypeOK /\ log \in Seq(Events) /\ ev \in Events /\ log' = Append(log, ev)
  BY DEF IInv, TypeOK, Happens, Events
<1>2. /\ Pts \in Nat /\ Pts' = Pts + 1 /\ log' \in Seq(Events)
      /\ \A e \in 1..Pts : log'[e] = log[e]
  BY <1>1, LogGrows
<1>3. log'[Pts + 1] = ev /\ log'[Pts + 1].kind = kind /\ log'[Pts + 1].id = i
  BY <1>1 DEF Pts
<1> HIDE DEF ev
<1>4. 1..(Pts + 1) = (1..Pts) \cup {Pts + 1}
  BY <1>2
<1>5. ASSUME NEW j \in Ids
      PROVE  /\ Gone(j, Pts)' => Gone(j, Pts) \/ (kind = "delete" /\ j = i)
             /\ Gone(j, Pts) \/ (kind = "delete" /\ j = i) => Gone(j, Pts)'
  <2>1. ASSUME Gone(j, Pts)' PROVE Gone(j, Pts) \/ (kind = "delete" /\ j = i)
    <3>1. PICK e \in (1..Pts) \cup {Pts + 1} : log'[e].kind = "delete" /\ log'[e].id = j
      BY <1>2, <1>4, <2>1 DEF Gone
    <3>2. CASE e \in 1..Pts
      BY <1>2, <3>1, <3>2 DEF Gone
    <3>3. CASE e = Pts + 1
      BY <1>3, <3>1, <3>3
    <3> QED BY <3>1, <3>2, <3>3
  <2>2. ASSUME Gone(j, Pts) PROVE Gone(j, Pts)'
    BY <1>1, <2>2, LogGrows
  <2>3. ASSUME kind = "delete", j = i PROVE Gone(j, Pts)'
    <3>1. Pts + 1 \in 1..Pts'
      BY <1>2
    <3> QED BY <1>3, <2>3, <3>1 DEF Gone
  <2> QED BY <2>1, <2>2, <2>3
<1>6. ASSUME NEW j \in Ids
      PROVE  Writes(j, Pts)' # {} <=> Writes(j, Pts) # {} \/ (kind # "delete" /\ j = i)
  <2>1. Writes(j, Pts)' = {e \in (1..Pts) \cup {Pts + 1} :
                             log'[e].id = j /\ log'[e].kind # "delete"}
    BY <1>2, <1>4 DEF Writes
  <2>2. Writes(j, Pts) = {e \in 1..Pts : log'[e].id = j /\ log'[e].kind # "delete"}
    BY <1>2 DEF Writes
  <2> QED BY <2>1, <2>2, <1>3
<1>7. Posted' = {j \in Ids : Writes(j, Pts)' # {}}
  <2>1. ASSUME NEW j \in Ids PROVE Content(j, Pts)' # 0 <=> Writes(j, Pts)' # {}
    <3>1. Writes(j, Pts)' \subseteq 1..(Pts + 1)
      BY <1>2 DEF Writes
    <3>2. CASE Writes(j, Pts)' = {}
      BY <3>2 DEF Content
    <3>3. CASE Writes(j, Pts)' # {}
      <4>1. Writes(j, Pts)' \subseteq 0..(Pts + 1) /\ Pts + 1 \in Nat
        BY <1>2, <3>1
      <4>2. Newest(Writes(j, Pts)') \in Writes(j, Pts)'
        BY <3>3, <4>1, NewestWorks
      <4>3. Content(j, Pts)' = Newest(Writes(j, Pts)')
        BY <3>3 DEF Content
      <4> QED BY <3>1, <3>3, <4>2, <4>3
    <3> QED BY <3>2, <3>3
  <2> QED BY <2>1 DEF Posted
<1>8. Posted = {j \in Ids : Writes(j, Pts) # {}}
  BY <1>1, PostedIs
<1>10. live \subseteq Posted /\ Posted \subseteq Ids
  BY <1>1, PostedIs
<1>11. Posted' = IF kind = "new" THEN Posted \cup {i} ELSE Posted
  BY <1>6, <1>7, <1>8, <1>10
<1>12. kind = "new" => ~Gone(i, Pts)
  BY DEF AInv, Numbered, Gone
<1>13. live' = IF kind = "new" THEN live \cup {i}
              ELSE IF kind = "delete" THEN live \ {i} ELSE live
  <2>1. CASE kind = "new"
    BY <1>5, <1>10, <1>11, <1>12, <2>1 DEF live
  <2>2. CASE kind = "delete"
    BY <1>5, <1>10, <1>11, <2>2 DEF live
  <2>3. CASE kind = "edit"
    BY <1>5, <1>10, <1>11, <2>3 DEF live
  <2> QED BY <2>1, <2>2, <2>3
<1> QED BY <1>2, <1>3, <1>11, <1>13

archive == <<Posted, live, Held, deleted, high>>

(* Telegram's own steps are the archive's.                                  *)
LEMMA ArchivePost == ASSUME IInv, AInv, Post PROVE AInv' /\ Channel!Post
<1>1. PICK i \in Ids : i = Cardinality(Posted) + 1 /\ Happens("new", i)
  BY DEF Post
<1>2. PICK n \in 0..MaxId : Posted = 1..n
  BY DEF AInv, Numbered
<1>3. n \in Nat /\ i = n + 1 /\ i \notin Posted /\ MaxId \in Nat
  <2>1. n \in Nat /\ MaxId \in Nat
    BY <1>2, PtsAssumption
  <2>2. Cardinality(1..n) = IF 1 > n THEN 0 ELSE n - 1 + 1
    BY <2>1, FS_Interval
  <2> QED BY <1>1, <1>2, <2>1, <2>2
<1>4. /\ UNCHANGED <<row, deleted, high, resumeAt, pending, pc, page, copy>>
      /\ TypeOK /\ live \subseteq Posted
  BY <1>1, PostedIs DEF Happens, disk, local, IInv
<1>5. /\ Pts \in Nat /\ Pts' = Pts + 1 /\ \A e \in 1..Pts : log'[e] = log[e]
      /\ log'[Pts + 1].id = i
      /\ Posted' = Posted \cup {i} /\ live' = live \cup {i}
  <2>1. PICK kind \in {"new", "edit", "delete"} : kind = "new" /\ Happens(kind, i)
    BY <1>1
  <2> QED BY <1>3, <2>1, EventEffect
<1>7. live' = live \cup {i}
  BY <1>5
<1>8. Numbered'
  <2>1. n + 1 \in 0..MaxId /\ Posted' = 1..(n + 1)
    BY <1>2, <1>3, <1>5 DEF Ids
  <2>2. \A e \in 1..Pts' : log'[e].id \in Posted'
    BY <1>5 DEF AInv, Numbered
  <2>3. deleted' \subseteq Posted' \ live'
    BY <1>3, <1>4, <1>5, <1>7 DEF AInv, Numbered
  <2> QED BY <2>1, <2>2, <2>3 DEF Numbered
<1>9. \A j \in Posted \cup {0} : j < i /\ j \in Nat
  BY <1>2, <1>3
<1>10. {high, pending, resumeAt} \subseteq Posted \cup {0}
  BY DEF AInv, Marked
<1>11. Marked'
  <2>1. Held' = Held
    BY <1>4 DEF Held
  <2>2. ~(i <= high) /\ ~(i <= pending)
    BY <1>3, <1>9, <1>10
  <2> QED BY <1>4, <1>5, <1>7, <1>10, <2>1, <2>2 DEF AInv, Marked
<1>12. PageContinues'
  <2> SUFFICES ASSUME pc = "observe" PROVE PageContinues'
    BY <1>4 DEF PageContinues
  <2>1. page \subseteq Posted /\ page # {} /\ page \subseteq Ids
    BY <1>4 DEF AInv, PageContinues, IInv, PageInHand, TypeOK
  <2>2. page \subseteq 0..MaxId
    BY <2>1 DEF Ids
  <2>3. Newest(page) \in Posted
    BY <1>3, <2>1, <2>2, NewestWorks
  <2>4. ~(i <= Larger(pending, Newest(page)))
    BY <1>3, <1>9, <1>10, <2>3 DEF Larger
  <2>5. Held' = Held
    BY <1>4 DEF Held
  <2> QED BY <1>4, <1>5, <1>7, <2>4, <2>5 DEF AInv, PageContinues
<1>13. Channel!Post
  <2>1. i \in 1..MaxId /\ \A j \in Posted : j < i
    BY <1>9 DEF Ids
  <2> QED BY <2>1, <1>4, <1>5, <1>7 DEF Channel!Post, Held
<1> QED BY <1>8, <1>11, <1>12, <1>13 DEF AInv

LEMMA ArchiveEdit == ASSUME IInv, AInv, Edit PROVE AInv' /\ UNCHANGED archive
<1>1. PICK i \in live : Happens("edit", i)
  BY DEF Edit
<1>2. /\ UNCHANGED <<row, deleted, high, resumeAt, pending, pc, page, copy>>
      /\ TypeOK /\ i \in Posted /\ i \in Ids
  BY <1>1, PostedIs DEF Happens, disk, local, IInv
<1>3. /\ Pts \in Nat /\ Pts' = Pts + 1 /\ \A e \in 1..Pts : log'[e] = log[e]
      /\ log'[Pts + 1].id = i
      /\ Posted' = Posted /\ live' = live
  <2>1. PICK kind \in {"new", "edit", "delete"} : kind = "edit" /\ Happens(kind, i)
    BY <1>1
  <2> QED BY <1>2, <2>1, EventEffect
<1>4. Held' = Held
  BY <1>2 DEF Held
<1>5. \A e \in 1..Pts' : log'[e].id \in Posted'
  BY <1>2, <1>3 DEF AInv, Numbered
<1>6. Numbered' /\ Marked' /\ PageContinues'
  BY <1>2, <1>3, <1>4, <1>5 DEF AInv, Numbered, Marked, PageContinues
<1> QED BY <1>2, <1>3, <1>4, <1>6 DEF AInv, archive

LEMMA ArchiveDelete == ASSUME IInv, AInv, Delete PROVE AInv' /\ Channel!Delete
<1>1. PICK i \in live : Happens("delete", i)
  BY DEF Delete
<1>2. /\ UNCHANGED <<row, deleted, high, resumeAt, pending, pc, page, copy>>
      /\ TypeOK /\ i \in Posted /\ i \in Ids
  BY <1>1, PostedIs DEF Happens, disk, local, IInv
<1>3. /\ Pts \in Nat /\ Pts' = Pts + 1 /\ \A e \in 1..Pts : log'[e] = log[e]
      /\ log'[Pts + 1].id = i
      /\ Posted' = Posted /\ live' = live \ {i}
  <2>1. PICK kind \in {"new", "edit", "delete"} : kind = "delete" /\ Happens(kind, i)
    BY <1>1
  <2> QED BY <1>2, <2>1, EventEffect
<1>4. Held' = Held
  BY <1>2 DEF Held
<1>5. \A e \in 1..Pts' : log'[e].id \in Posted'
  BY <1>2, <1>3 DEF AInv, Numbered
<1>6. Numbered' /\ Marked' /\ PageContinues'
  BY <1>2, <1>3, <1>4, <1>5 DEF AInv, Numbered, Marked, PageContinues
<1>7. Channel!Delete
  BY <1>1, <1>2, <1>3, <1>4 DEF Channel!Delete
<1> QED BY <1>6, <1>7 DEF AInv

-----------------------------------------------------------------------------
(* A step that neither touches the sweep's cursors nor a row changes        *)
(* nothing the archive answers for.                                         *)
LEMMA ArchiveIdle ==
    ASSUME AInv, UNCHANGED <<log, row, deleted, high, resumeAt, pending>>,
           pc' # "observe" \/ UNCHANGED <<pc, page, copy>>
    PROVE  AInv' /\ UNCHANGED archive
<1>1. Pts' = Pts /\ Posted' = Posted /\ live' = live /\ Held' = Held
  BY ServerStill DEF Held
<1>2. Numbered'
  BY <1>1 DEF AInv, Numbered
<1>3. Marked'
  BY <1>1 DEF AInv, Marked
<1>4. PageContinues'
  BY <1>1 DEF AInv, PageContinues
<1> QED BY <1>1, <1>2, <1>3, <1>4 DEF AInv, archive

LEMMA ArchiveFetchPage == ASSUME IInv, AInv, FetchPage PROVE AInv' /\ UNCHANGED archive
<1>1. /\ UNCHANGED <<log, row, deleted, high, resumeAt, pending>>
      /\ pc' = "observe" /\ copy' = [i \in Ids |-> Content(i, Pts)]
  BY DEF FetchPage, disk
<1>2. PICK k \in Older : page' = {i \in Older : k <= i}
  BY DEF FetchPage
<1>3. Pts' = Pts /\ Posted' = Posted /\ live' = live /\ Held' = Held
  BY <1>1, ServerStill DEF Held
<1>4. Posted \subseteq Ids /\ Ids \subseteq Nat \ {0} /\ live \subseteq Posted
  BY PostedIs DEF IInv
<1>5. Older \subseteq live /\ k \in Nat
  <2>1. Older \subseteq live
    BY DEF Older
  <2> QED BY <1>2, <1>4, <2>1
<1>6. page' \subseteq live /\ page' # {}
  <2>1. k \in Older /\ k <= k
    BY <1>2, <1>5
  <2>2. page' \subseteq live
    BY <1>2, <1>5
  <2>3. k \in page'
    BY <1>2, <2>1
  <2> QED BY <2>2, <2>3
<1>7. /\ Oldest(page') \in page' /\ Newest(page') \in page'
      /\ \A j \in page' : Oldest(page') <= j /\ j <= Newest(page')
      /\ Oldest(page') \in Nat /\ Newest(page') \in Nat
  <2>1. page' \subseteq Nat /\ page' \subseteq 0..MaxId /\ MaxId \in Nat
    BY <1>4, <1>6, PtsAssumption DEF Ids
  <2>2. /\ Oldest(page') \in page' /\ Newest(page') \in page'
        /\ \A j \in page' : Oldest(page') <= j /\ j <= Newest(page')
    BY <1>6, <2>1, OldestWorks, NewestWorks
  <2> QED BY <2>1, <2>2
<1>8. ASSUME NEW i \in live, Oldest(page') <= i, i <= Larger(pending, Newest(page'))
      PROVE  i \in Held \cup page'
  <2>1. i \in Nat /\ k <= i /\ resumeAt \in Nat /\ pending \in Nat
    BY <1>2, <1>4, <1>5, <1>7, <1>8 DEF IInv, TypeOK
  <2>2. CASE resumeAt = 0 \/ i < resumeAt
    BY <1>2, <2>1, <2>2 DEF Older
  <2>3. CASE resumeAt # 0 /\ resumeAt <= i
    <3>1. Newest(page') < resumeAt
      BY <1>2, <1>7, <2>3 DEF Older
    <3>2. i <= pending
      BY <1>7, <1>8, <2>1, <2>3, <3>1 DEF Larger
    <3> QED BY <2>3, <3>2 DEF AInv, Marked
  <2> QED BY <2>1, <2>2, <2>3
<1>9. PageContinues'
  <2>1. page' \subseteq Posted' /\ \A i \in page' : copy'[i] # 0
    BY <1>1, <1>3, <1>4, <1>6 DEF Posted
  <2> QED BY <1>1, <1>3, <1>8, <2>1 DEF PageContinues
<1>10. Numbered'
  BY <1>1, <1>3 DEF AInv, Numbered
<1>11. Marked'
  BY <1>1, <1>3 DEF AInv, Marked
<1> QED BY <1>1, <1>3, <1>9, <1>10, <1>11 DEF AInv, archive

(* A sweep that settles at h with the rows S raises the mark, when it has   *)
(* everything below h.                                                      *)
LEMMA ArchiveSettle ==
    ASSUME IInv, AInv, NEW h \in Posted \cup {0}, pending <= h,
           high' = h, pending' = h, resumeAt' = 0, pc' = "ask",
           NEW S \in SUBSET Posted, Held' = Held \cup S, UNCHANGED <<log, deleted>>,
           \A i \in live : i <= h => i \in Held'
    PROVE  AInv' /\ [Channel!Next]_archive
<1>1. Pts' = Pts /\ Posted' = Posted /\ live' = live
  BY ServerStill
<1>2. Posted \subseteq Nat \ {0}
  BY PostedIs DEF IInv
<1>3. high \in Nat /\ pending \in Nat /\ high <= pending /\ h \in Nat
  <2>1. high \in Nat /\ pending \in Nat /\ h \in Nat
    BY <1>2 DEF IInv, TypeOK
  <2> QED BY <2>1 DEF AInv, Marked
<1>4. high' = h /\ pending' = h /\ resumeAt' = 0 /\ pc' = "ask"
  OBVIOUS
<1>5. Numbered'
  BY <1>1 DEF AInv, Numbered
<1>6. Marked'
  <2>1. {high', pending', resumeAt'} \subseteq Posted' \cup {0} /\ high' <= pending'
    BY <1>1, <1>3, <1>4
  <2> QED BY <1>1, <1>4, <2>1 DEF Marked
<1>7. PageContinues'
  BY <1>4 DEF PageContinues
<1>8. [Channel!Next]_archive
  <2>1. CASE high = h
    <3>1. Channel!Hold(S)
      BY <1>1, <1>4, <2>1 DEF Channel!Hold
    <3> QED BY <3>1 DEF Channel!Next
  <2>2. CASE high # h
    <3>1. h \in Posted /\ high < h
      BY <1>3, <2>2
    <3>2. Channel!Rise(h, S)
      BY <1>1, <1>4, <3>1 DEF Channel!Rise
    <3> QED BY <3>1, <3>2 DEF Channel!Next
  <2> QED BY <2>1, <2>2
<1> QED BY <1>5, <1>6, <1>7, <1>8 DEF AInv

LEMMA ArchiveEmptyPage ==
    ASSUME IInv, AInv, EmptyPage PROVE AInv' /\ [Channel!Next]_archive
<1>1. UNCHANGED <<log, row, deleted>> /\ Settle(pending, TRUE) /\ Older = {}
  BY DEF EmptyPage
<1>2. live \subseteq Nat /\ high \in Nat /\ pending \in Nat /\ resumeAt \in Nat
      /\ pending \in Posted \cup {0} /\ high <= pending
  BY PostedIs DEF IInv, TypeOK, AInv, Marked
<1>3. \A i \in live : i <= pending => i \in Held
  <2>1. \A i \in live : resumeAt # 0 /\ resumeAt <= i
    BY <1>1, <1>2 DEF Older
  <2> QED BY <2>1 DEF AInv, Marked
<1>4. Held' = Held \cup {}
  BY <1>1 DEF Held
<1>5. PICK h \in Posted \cup {0}, S \in SUBSET Posted : h = pending /\ S = {}
  BY <1>2
<1>6. /\ high' = h /\ pending' = h /\ resumeAt' = 0 /\ pc' = "ask" /\ pending <= h
      /\ Held' = Held \cup S /\ \A i \in live : i <= h => i \in Held'
  BY <1>1, <1>2, <1>3, <1>4, <1>5 DEF Settle, Larger
<1> QED BY <1>1, <1>6, ArchiveSettle

LEMMA ArchiveObservePage ==
    ASSUME IInv, AInv, ObservePage PROVE AInv' /\ [Channel!Next]_archive
<1> DEFINE top == Larger(pending, Newest(page))
<1>1. /\ UNCHANGED <<log, deleted>> /\ pc = "observe"
      /\ row' = [i \in Ids |-> IF i \in page THEN copy[i] ELSE row[i]]
  BY DEF ObservePage
<1>2. /\ page \subseteq Posted /\ page # {} /\ \A i \in page : copy[i] # 0
      /\ \A i \in live : Oldest(page) <= i /\ i <= top => i \in Held \cup page
  BY <1>1 DEF AInv, PageContinues, IInv, PageInHand
<1>3. Posted \subseteq Ids /\ Ids \subseteq Nat \ {0} /\ live \subseteq Posted
  BY PostedIs DEF IInv
<1>4. /\ Oldest(page) \in page /\ Newest(page) \in page
  <2>1. page \subseteq Nat /\ page \subseteq 0..MaxId /\ MaxId \in Nat
    BY <1>2, <1>3, PtsAssumption DEF Ids
  <2> QED BY <1>2, <2>1, OldestWorks, NewestWorks
<1>5. /\ pending \in Posted \cup {0} /\ high \in Nat /\ high <= pending /\ pending \in Nat
      /\ Oldest(page) \in Posted /\ Oldest(page) \in Nat
  <2>1. high \in Nat /\ pending \in Nat
    BY DEF IInv, TypeOK
  <2>2. Oldest(page) \in Posted /\ Oldest(page) \in Nat
    BY <1>2, <1>3, <1>4
  <2> QED BY <2>1, <2>2 DEF AInv, Marked
<1>6. top \in Posted \cup {0} /\ pending <= top /\ top \in Nat
  <2>1. Newest(page) \in Posted /\ Newest(page) \in Nat
    BY <1>2, <1>3, <1>4
  <2> QED BY <1>5, <2>1 DEF Larger
<1>7. Held' = Held \cup page
  BY <1>1, <1>2, <1>3 DEF Held
<1>8. Pts' = Pts /\ Posted' = Posted /\ live' = live
  BY <1>1, ServerStill
<1>9. CASE backfilled /\ Oldest(page) <= high
  <2>1. PICK h \in Posted \cup {0} : h = top
    BY <1>6
  <2>2. high' = h /\ pending' = h /\ resumeAt' = 0 /\ pc' = "ask"
    <3>1. Larger(high, top) = top
      BY <1>5, <1>6 DEF Larger
    <3> QED BY <1>9, <2>1, <3>1 DEF ObservePage, Settle
  <2>3. \A i \in live : i <= h => i \in Held'
    <3> SUFFICES ASSUME NEW i \in live, i <= top PROVE i \in Held \cup page
      BY <1>7, <2>1
    <3>1. i \in Nat
      BY <1>3
    <3>2. CASE Oldest(page) <= i
      BY <1>2, <3>2
    <3>3. CASE i <= high
      BY <3>3 DEF AInv, Marked
    <3> QED BY <1>5, <1>9, <3>1, <3>2, <3>3
  <2>4. pending <= h
    BY <1>6, <2>1
  <2> QED BY <1>1, <1>2, <1>7, <2>2, <2>3, <2>4, ArchiveSettle
<1>10. CASE ~(backfilled /\ Oldest(page) <= high)
  <2>1. /\ pending' = top /\ resumeAt' = Oldest(page) /\ pc' = "sweep"
        /\ UNCHANGED high
    BY <1>10 DEF ObservePage
  <2> HIDE DEF top
  <2>2. Numbered'
    BY <1>1, <1>8 DEF AInv, Numbered
  <2>3. Marked'
    <3>1. {high', pending', resumeAt'} \subseteq Posted' \cup {0} /\ high' <= pending'
      BY <1>5, <1>6, <1>8, <2>1 DEF AInv, Marked
    <3>2. \A i \in live' : i <= high' => i \in Held'
      BY <1>7, <1>8, <2>1 DEF AInv, Marked
    <3>3. resumeAt' # 0
      BY <1>3, <1>5, <2>1
    <3>4. \A i \in live' : resumeAt' <= i /\ i <= pending' => i \in Held'
      BY <1>2, <1>7, <1>8, <2>1
    <3> QED BY <3>1, <3>2, <3>3, <3>4 DEF Marked
  <2>4. PageContinues'
    BY <2>1 DEF PageContinues
  <2>5. Channel!Hold(page)
    BY <1>1, <1>2, <1>7, <1>8, <2>1 DEF Channel!Hold
  <2> QED BY <1>2, <2>2, <2>3, <2>4, <2>5 DEF AInv, Channel!Next
<1> QED BY <1>9, <1>10

(* Rows that a resync or a difference adds disturb no cursor.               *)
LEMMA ArchiveAdds ==
    ASSUME IInv, AInv, NEW S \in SUBSET Posted, Held' = Held \cup S,
           UNCHANGED <<log, deleted, high, resumeAt, pending>>, pc' # "observe"
    PROVE  AInv' /\ Channel!Hold(S)
<1>1. Pts' = Pts /\ Posted' = Posted /\ live' = live
  BY ServerStill
<1>2. Numbered'
  BY <1>1 DEF AInv, Numbered
<1>3. Marked'
  BY <1>1 DEF AInv, Marked
<1>4. PageContinues'
  BY DEF PageContinues
<1>5. Channel!Hold(S)
  BY <1>1 DEF Channel!Hold
<1> QED BY <1>2, <1>3, <1>4, <1>5 DEF AInv

LEMMA ArchiveTooLong ==
    ASSUME IInv, AInv, TooLong PROVE AInv' /\ [Channel!Next]_archive
<1>1. /\ UNCHANGED <<log, deleted, high, resumeAt, pending>> /\ pc' = "idle"
      /\ \E k \in Ids : row' = [i \in Ids |-> IF i \in {j \in live : k <= j}
                                             THEN Content(i, Pts) ELSE row[i]]
  BY DEF TooLong
<1>2. PICK k \in Ids : row' = [i \in Ids |-> IF i \in {j \in live : k <= j}
                                             THEN Content(i, Pts) ELSE row[i]]
  BY <1>1
<1> DEFINE S == {j \in live : k <= j}
<1>3. live \subseteq Posted /\ Posted \subseteq Ids
  BY PostedIs DEF IInv
<1>4. \A i \in S : i \in Ids /\ Content(i, Pts) # 0
  BY <1>3 DEF Posted
<1>5. Held' = Held \cup S
  BY <1>2, <1>4 DEF Held
<1>6. S \in SUBSET Posted
  BY <1>3
<1> HIDE DEF S
<1>7. AInv' /\ Channel!Hold(S)
  BY <1>1, <1>5, <1>6, ArchiveAdds
<1> QED BY <1>6, <1>7 DEF Channel!Next

LEMMA ArchiveApplyItem ==
    ASSUME IInv, AInv, ApplyItem PROVE AInv' /\ [Channel!Next]_archive
<1>1. /\ UNCHANGED <<log, high, resumeAt, pending>> /\ pc = "apply" /\ pc' = "apply"
  BY DEF ApplyItem
<1>2. PICK e \in items :
        IF log[e].kind = "delete"
        THEN deleted' = deleted \cup {log[e].id} /\ UNCHANGED row
        ELSE row' = [row EXCEPT ![log[e].id] = copy[log[e].id]] /\ UNCHANGED deleted
  BY Zenon DEF ApplyItem
<1>3. /\ e \in 1..Pts /\ Pts \in Nat /\ TypeOK
      /\ log[e].kind # "delete" => e <= copy[log[e].id]
  BY <1>1, EventsAreTyped DEF IInv, DifferenceInHand
<1>4. log[e].id \in Posted /\ log[e].id \in Ids
  BY <1>3, EventsAreTyped DEF AInv, Numbered
<1>5. CASE log[e].kind = "delete"
  <2>1. deleted' = deleted \cup {log[e].id} /\ row' = row
    BY <1>2, <1>5
  <2>2. log[e].id \notin live
    BY <1>3, <1>5 DEF live, Gone
  <2>3. Pts' = Pts /\ Posted' = Posted /\ live' = live /\ Held' = Held
    BY <1>1, <2>1, ServerStill DEF Held
  <2>4. Numbered'
    BY <1>1, <1>4, <2>1, <2>2, <2>3 DEF AInv, Numbered
  <2>5. Marked'
    BY <1>1, <2>3 DEF AInv, Marked
  <2>6. PageContinues'
    BY <1>1 DEF PageContinues
  <2>7. Channel!Bury({log[e].id})
    BY <1>1, <1>4, <2>1, <2>2, <2>3 DEF Channel!Bury
  <2> QED BY <1>4, <2>4, <2>5, <2>6, <2>7 DEF AInv, Channel!Next
<1>6. CASE log[e].kind # "delete"
  <2>1. row' = [row EXCEPT ![log[e].id] = copy[log[e].id]] /\ UNCHANGED deleted
    BY <1>2, <1>6
  <2>2. copy[log[e].id] # 0
    BY <1>3, <1>4, <1>6 DEF TypeOK
  <2>3. Held' = Held \cup {log[e].id}
    BY <1>3, <1>4, <2>1, <2>2 DEF Held, TypeOK
  <2>4. AInv' /\ Channel!Hold({log[e].id})
    BY <1>1, <1>4, <2>1, <2>3, ArchiveAdds
  <2> QED BY <1>4, <2>4 DEF Channel!Next
<1> QED BY <1>5, <1>6

LEMMA ArchiveInit == Init => AInv /\ Channel!Init
<1> SUFFICES ASSUME Init PROVE AInv /\ Channel!Init
  OBVIOUS
<1>1. Pts = 0
  BY DEF Init, Pts
<1>2. Posted = {} /\ live = {} /\ Held = {}
  BY <1>1 DEF Init, Posted, live, Held, Content, Writes
<1>3. Posted = 1..0 /\ 0 \in 0..MaxId
  BY <1>2, PtsAssumption
<1>4. Numbered
  BY <1>1, <1>2, <1>3 DEF Init, Numbered
<1>5. Marked /\ PageContinues
  BY <1>2 DEF Init, Marked, PageContinues
<1>6. Channel!Init
  BY <1>2, <1>3 DEF Init, Channel!Init
<1> QED BY <1>4, <1>5, <1>6 DEF AInv

LEMMA ArchiveStep == IInv /\ AInv /\ [Next]_vars => AInv' /\ [Channel!Next]_archive
<1> SUFFICES ASSUME IInv, AInv, [Next]_vars PROVE AInv' /\ [Channel!Next]_archive
  OBVIOUS
<1>1. CASE Post
  BY <1>1, ArchivePost DEF Channel!Next
<1>2. CASE Edit
  BY <1>2, ArchiveEdit
<1>3. CASE Delete
  BY <1>3, ArchiveDelete DEF Channel!Next
<1>4. CASE FetchPage
  BY <1>4, ArchiveFetchPage
<1>5. CASE EmptyPage \/ ObservePage
  BY <1>5, ArchiveEmptyPage, ArchiveObservePage
<1>6. CASE TooLong \/ ApplyItem
  BY <1>6, ArchiveTooLong, ArchiveApplyItem
<1>7. CASE SeedPts \/ AskDifference \/ StalledPage \/ FinishPage \/ Interrupt \/ UNCHANGED vars
  <2>1. /\ UNCHANGED <<log, row, deleted, high, resumeAt, pending>>
        /\ pc' # "observe" \/ UNCHANGED <<pc, page, copy>>
    BY <1>7 DEF SeedPts, AskDifference, StalledPage, FinishPage, Interrupt, vars, disk, local
  <2> QED BY <2>1, ArchiveIdle
<1> QED
  BY <1>1, <1>2, <1>3, <1>4, <1>5, <1>6, <1>7 DEF Next, Server, Sweep, CatchUp

(* This module's sweep, resync and differences implement the archive that   *)
(* HistorySweep implements statement by statement: rows only of posted      *)
(* messages, tombstones only of deleted ones, and a mark that rises only to *)
(* a message below which everything that still exists has a row.            *)
THEOREM SyncKeepsArchive == Spec => KeepsArchive
<1> DEFINE Both == IInv /\ AInv
<1>1. Init => Both /\ Channel!Init
  BY IInvInit, ArchiveInit
<1>2. Both /\ [Next]_vars => Both' /\ [Channel!Next]_archive
  BY IInvNext, ArchiveStep
<1> HIDE DEF Both
<1> QED BY <1>1, <1>2, PTL DEF Spec, KeepsArchive, Channel!Spec, archive
=============================================================================
