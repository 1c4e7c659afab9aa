---------------------------- MODULE HistorySweep ----------------------------
(***************************************************************************)
(* The newest-to-oldest history sweep of one channel                       *)
(* (collectors/history.py, HistoryCollector.collect and _probe_gaps), with *)
(* the rows it keeps in SQLite: the messages, the tombstones, the verified *)
(* spans, and the two sync_state entries a later run resumes from.  A      *)
(* sweep is a process that Telegram changes under its feet and that may be *)
(* interrupted between any two of its autocommitted statements.            *)
(*                                                                         *)
(* Two callers run it on the same sync_state: the channel phase of a       *)
(* collect ("target": no page budget, gaps probed) and the discussion      *)
(* phase of another channel whose linked group this is ("group": a page    *)
(* budget, no probing).                                                    *)
(***************************************************************************)
EXTENDS Integers, FiniteSets

CONSTANTS
    MaxId,            \* bound: the newest message id Telegram ever assigns
    PageSize,         \* _HISTORY_PAGE_SIZE
    ProbeChunk,       \* _GET_MESSAGES_CHUNK
    PageBudget,       \* settings.discussion_page_budget, for "group" runs
    MaxInterrupts,    \* bound: how often a run is killed or fails
    Placeholders      \* ids getHistory may answer with MessageEmpty once gone

ASSUME SweepAssumption ==
    /\ MaxId \in Nat
    /\ PageSize \in Nat \ {0}
    /\ ProbeChunk \in Nat \ {0}
    /\ PageBudget \in Nat \ {0}
    /\ MaxInterrupts \in Nat
    /\ Placeholders \subseteq 1..MaxId

Ids == 1..MaxId
RunKinds == {"target", "group"}

VARIABLES
    posted,     \* Telegram: ids 1..posted have been assigned
    live,       \* Telegram: the ids that still resolve to a message
    stored,     \* messages: ids with a projected row
    tombs,      \* message_tombstones: ids with an `empty` row
    verified,   \* sync_ranges: the ids some [lo, hi] row covers
    offsetId,   \* sync_state('history').offset_id (0 when absent)
    sweep,      \* sync_state('history_sweep')
    interrupts  \* bound counter

VARIABLES
    pc,          \* where the run stands; "idle" when no run is active
    kind,        \* which caller started the run
    cursor,      \* the offset_id of the next getHistory call
    pendingHigh, \* local pending_high
    complete,    \* local complete
    pages,       \* local pages
    page,        \* ids of the page being projected
    empties,     \* those of `page` that Telegram answered with MessageEmpty
    unread,      \* those of `page` not projected yet
    idsSeen,     \* ids_seen
    minId,       \* min_id, 0 for None
    maxId,       \* max_id, 0 for None
    toProbe      \* gap candidates not probed yet

server == <<posted, live>>
disk   == <<stored, tombs, verified, offsetId, sweep>>
paging == <<cursor, pendingHigh, complete, pages>>
pageVs == <<page, empties, unread>>
seen   == <<idsSeen, minId, maxId>>
local  == <<kind, paging, pageVs, seen, toProbe>>
vars   == <<server, disk, interrupts, pc, local>>

Larger(a, b)  == IF a >= b THEN a ELSE b
Smallest(S)   == CHOOSE i \in S : \A j \in S : i <= j
Largest(S)    == CHOOSE i \in S : \A j \in S : i >= j

Sweeps == [max_id_seen : 0..MaxId, pending_high : 0..MaxId,
           backfill_complete : BOOLEAN, incremental_in_progress : BOOLEAN]

Locations == {"idle", "fetch", "observe", "sweep", "settle", "probe"}

-----------------------------------------------------------------------------
Init ==
    /\ posted \in 0..MaxId /\ live = 1..posted
    /\ stored = {} /\ tombs = {} /\ verified = {}
    /\ offsetId = 0
    /\ sweep = [max_id_seen |-> 0, pending_high |-> 0,
                backfill_complete |-> FALSE, incremental_in_progress |-> FALSE]
    /\ interrupts = 0
    /\ pc = "idle" /\ kind = "target"
    /\ cursor = 0 /\ pendingHigh = 0 /\ complete = FALSE /\ pages = 0
    /\ page = {} /\ empties = {} /\ unread = {}
    /\ idsSeen = {} /\ minId = 0 /\ maxId = 0
    /\ toProbe = {}

(* A message is posted: Telegram assigns ids in increasing order.           *)
Post ==
    /\ posted < MaxId
    /\ posted' = posted + 1
    /\ live' = live \cup {posted + 1}
    /\ UNCHANGED <<disk, interrupts, pc, local>>

(* A message is deleted; its id never resolves again.                       *)
Delete ==
    /\ \E i \in live : live' = live \ {i}
    /\ UNCHANGED <<posted, disk, interrupts, pc, local>>

-----------------------------------------------------------------------------
\* Mutant: a budget-stopped incremental run starts over instead of resuming.
StartCursorFresh == IF sweep.backfill_complete THEN 0 ELSE offsetId

(* A fresh incremental run starts at the newest message; a backfill, and an *)
(* incremental run a budget or a kill cut short, start at the saved cursor. *)
StartCursor ==
    IF sweep.backfill_complete /\ ~sweep.incremental_in_progress
    THEN 0 ELSE offsetId

StartRun(k) ==
    /\ pc = "idle"
    /\ pc' = "fetch"
    /\ kind' = k
    /\ cursor' = StartCursor
    /\ pendingHigh' = sweep.pending_high
    /\ complete' = sweep.backfill_complete
    /\ pages' = 0
    /\ idsSeen' = {} /\ minId' = 0 /\ maxId' = 0
    /\ UNCHANGED <<server, disk, interrupts, pageVs, toProbe>>

\* The run is incremental iff the backfill was complete when it started; a
\* run sets backfill_complete only in the step that settles it.
incremental == sweep.backfill_complete
stopAt      == sweep.max_id_seen

Below(c) == {i \in Ids : c = 0 \/ i < c}

(* messages.getHistory(offset_id=cursor, limit=PageSize): the newest        *)
(* messages older than the cursor, at most PageSize of them, and an empty   *)
(* page only when there is none.  `gone` are placeholders among them.       *)
FetchPage ==
    /\ pc = "fetch"
    /\ \E gone \in SUBSET ((Placeholders \cap (1..posted)) \ live), k \in Ids :
          LET older  == (live \cup gone) \cap Below(cursor)
              answer == {i \in older : i >= k}
          IN  /\ Cardinality(answer) <= PageSize
              /\ answer = {} => older = {}
              /\ page' = answer
              /\ empties' = answer \cap gone
              /\ unread' = answer
              /\ pc' = IF answer = {} THEN "settle" ELSE "observe"
              /\ complete' = (complete \/ answer = {})
    /\ UNCHANGED <<server, disk, interrupts, kind, cursor, pendingHigh, pages,
                   seen, toProbe>>

(* observe_message on the next message of the page, newest first: a         *)
(* MessageEmpty becomes a tombstone and never touches the message row.      *)
ObserveMessage ==
    /\ pc = "observe"
    /\ unread # {}
    /\ LET m == Largest(unread)
       IN  /\ unread' = unread \ {m}
           /\ stored' = IF m \in empties THEN stored ELSE stored \cup {m}
           /\ tombs'  = IF m \in empties THEN tombs \cup {m} ELSE tombs
           /\ idsSeen' = idsSeen \cup {m}
           /\ minId' = IF minId = 0 \/ m < minId THEN m ELSE minId
           /\ maxId' = IF maxId = 0 \/ m > maxId THEN m ELSE maxId
    /\ UNCHANGED <<server, verified, offsetId, sweep, interrupts, pc, kind,
                   paging, page, empties, toProbe>>

\* Mutant: the cursor is persisted before the page is projected.
SaveCursorEarly ==
    /\ pc = "observe"
    /\ cursor' = Smallest(page)
    /\ pendingHigh' = Larger(pendingHigh, Largest(page))
    /\ offsetId' = Smallest(page)
    /\ pc' = "sweep"
    /\ UNCHANGED <<server, stored, tombs, verified, sweep, interrupts, kind,
                   complete, pages, pageVs, seen, toProbe>>

(* The page is projected: advance the cursor and persist it.                *)
SaveCursor ==
    /\ pc = "observe"
    /\ unread = {}
    /\ cursor' = Smallest(page)
    /\ pendingHigh' = Larger(pendingHigh, Largest(page))
    /\ offsetId' = Smallest(page)
    /\ pc' = "sweep"
    /\ UNCHANGED <<server, stored, tombs, verified, sweep, interrupts, kind,
                   complete, pages, pageVs, seen, toProbe>>

\* Mutant: the high-water mark is promoted page by page.
InProgressPromoted(high) ==
    [max_id_seen |-> pendingHigh, pending_high |-> pendingHigh,
     backfill_complete |-> complete, incremental_in_progress |-> incremental]

(* The sweep state a page leaves behind: max_id_seen does not advance yet.  *)
InProgress(high) ==
    [max_id_seen |-> high, pending_high |-> pendingHigh,
     backfill_complete |-> complete, incremental_in_progress |-> incremental]

CaughtUp  == incremental /\ cursor <= stopAt
OverPages == kind = "group" /\ pages + 1 >= PageBudget

(* Persist the sweep state, then decide: caught up beats out of budget.     *)
(* A page-budget PhaseStop ends the run without settling it.                *)
SaveSweep ==
    /\ pc = "sweep"
    /\ sweep' = InProgress(sweep.max_id_seen)
    /\ pages' = IF CaughtUp THEN pages ELSE pages + 1
    /\ pc' = IF CaughtUp THEN "settle"
             ELSE IF OverPages THEN "idle" ELSE "fetch"
    /\ UNCHANGED <<server, stored, tombs, verified, offsetId, interrupts, kind,
                   cursor, pendingHigh, complete, pageVs, seen, toProbe>>

(* A clean finish commits the high-water mark.                              *)
Settled ==
    LET high == Larger(sweep.max_id_seen, pendingHigh)
    IN  [max_id_seen |-> high, pending_high |-> high,
         backfill_complete |-> complete, incremental_in_progress |-> FALSE]

\* Mutant: the span starts one id too low.
CandidatesFromBelow ==
    {i \in 0..MaxId : minId <= i + 1 /\ i <= maxId} \ idsSeen

\* Gap candidates: ids of the walked span that getHistory never returned.
Candidates == {i \in Ids : minId <= i /\ i <= maxId} \ idsSeen

Settle ==
    /\ pc = "settle"
    /\ sweep' = Settled
    /\ IF kind = "target" /\ minId # 0
       THEN pc' = "probe" /\ toProbe' = Candidates
       ELSE pc' = "idle"  /\ UNCHANGED toProbe
    /\ UNCHANGED <<server, stored, tombs, verified, offsetId, interrupts, kind,
                   paging, pageVs, seen>>

(* channels.getMessages on the lowest unprobed candidates: only a           *)
(* MessageEmpty answer is recorded.                                         *)
ProbeGaps ==
    /\ pc = "probe"
    /\ \E k \in toProbe :
          LET chunk == {i \in toProbe : i <= k}
          IN  /\ Cardinality(chunk) <= ProbeChunk
              /\ tombs' = tombs \cup (chunk \ live)
              /\ toProbe' = toProbe \ chunk
    /\ UNCHANGED <<server, stored, verified, offsetId, sweep, interrupts, pc,
                   kind, paging, pageVs, seen>>

\* Mutant: the span is recorded before its gaps are probed.
VerifySpanEarly ==
    /\ pc = "probe"
    /\ verified' = verified \cup {i \in Ids : minId <= i /\ i <= maxId}
    /\ pc' = "idle"
    /\ UNCHANGED <<server, stored, tombs, offsetId, sweep, interrupts, local>>

\* The verified ranges, by what store/sync.py promises of them.
span == [lo |-> minId, hi |-> maxId]

Ranges == INSTANCE Coverage WITH covered <- verified, gaps <- {}, kills <- interrupts,
                                 call <- [op |-> "add", range |-> span]

(* add_range: the walked span is verified-complete.                         *)
VerifySpan ==
    /\ pc = "probe"
    /\ toProbe = {}
    /\ Ranges!Grown(span)
    /\ pc' = "idle"
    /\ UNCHANGED <<server, stored, tombs, offsetId, sweep, interrupts, local>>

(* A kill inside add_range may cost coverage of an earlier run.             *)
KillInAddRange ==
    /\ pc = "probe"
    /\ toProbe = {} /\ interrupts < MaxInterrupts
    /\ verified' \in SUBSET verified /\ Ranges!Cut(span)
    /\ interrupts' = interrupts + 1
    /\ pc' = "idle"
    /\ UNCHANGED <<server, stored, tombs, offsetId, sweep, local>>

(* A kill, a Ctrl-C, or an exception out of an RPC (a flood PhaseStop, a    *)
(* HardStop): every statement already executed stays, the run is gone.      *)
Interrupt ==
    /\ pc # "idle"
    /\ interrupts < MaxInterrupts
    /\ interrupts' = interrupts + 1
    /\ pc' = "idle"
    /\ UNCHANGED <<server, disk, local>>

-----------------------------------------------------------------------------
Step == \/ FetchPage \/ ObserveMessage \/ SaveCursor \/ SaveSweep
        \/ Settle \/ ProbeGaps \/ VerifySpan

Next == \/ Post \/ Delete
        \/ \E k \in RunKinds : StartRun(k)
        \/ Step
        \/ KillInAddRange \/ Interrupt

Spec == Init /\ [][Next]_vars

(* The run loop is sequential code, so it keeps going until it ends; the    *)
(* operator keeps re-running ("re-run to continue from the saved cursor").  *)
FairSpec == /\ Spec
            /\ WF_vars(Step)
            /\ WF_vars(\E k \in RunKinds : StartRun(k))

-----------------------------------------------------------------------------
(* Every variable keeps its type; all ids are ids Telegram can assign.      *)
TypeOK ==
    /\ posted \in 0..MaxId /\ live \subseteq 1..posted
    /\ stored \subseteq Ids /\ tombs \subseteq Ids /\ verified \subseteq Ids
    /\ offsetId \in 0..MaxId /\ sweep \in Sweeps
    /\ interrupts \in Nat
    /\ pc \in Locations /\ kind \in RunKinds
    /\ cursor \in 0..MaxId /\ pendingHigh \in 0..MaxId
    /\ complete \in BOOLEAN /\ pages \in Nat
    /\ page \subseteq Ids /\ empties \subseteq page /\ unread \subseteq page
    /\ idsSeen \subseteq Ids /\ minId \in 0..MaxId /\ maxId \in 0..MaxId
    /\ toProbe \subseteq Ids

(* "Nothing is fetched by nobody, ever" (history.py:136-139, 174-177): every *)
(* message that still exists at or below the committed high-water mark has   *)
(* a row, whatever was killed, cut short by a page budget, or handed from    *)
(* one caller's sweep to the other's.                                        *)
NothingStranded == \A i \in live : i <= sweep.max_id_seen => i \in stored

(* A verified span is honest (store/sync.py:4-6): each of its ids is a row   *)
(* or a tombstone, although messages are deleted while the span is walked.   *)
VerifiedIsHonest == verified \subseteq stored \cup tombs

(* The saved cursor of an unfinished sweep is safe to resume from: between   *)
(* it and pending_high there is nothing left to fetch.                       *)
ResumeIsSafe ==
    (~sweep.backfill_complete \/ sweep.incremental_in_progress) =>
        \A i \in live : offsetId <= i /\ i <= sweep.pending_high => i \in stored

Channel == INSTANCE Archive WITH
    posted <- 1..posted, held <- stored, gone <- tombs, mark <- sweep.max_id_seen

(* The sweep is an archivist: statement by statement, through cursors, page  *)
(* budgets, two callers and kills, it does nothing but add rows of posted    *)
(* messages, bury messages that are gone, and raise the mark when there is   *)
(* nothing left to fetch below it.                                           *)
KeepsArchive == Channel!Spec

(* However often runs are cut short, re-running gets everything: from some   *)
(* point on every message that still exists has a row.                       *)
EverythingCollected == <>[](live \subseteq stored)
-----------------------------------------------------------------------------
(* The inductive strengthening.  Its parts follow one run: what is stored   *)
(* above the cursor, what the page in hand adds, and what a settling run    *)
(* knows.                                                                   *)
Bounded ==
    /\ sweep.max_id_seen <= sweep.pending_high
    /\ sweep.pending_high <= posted /\ pendingHigh <= posted
    /\ cursor <= posted /\ offsetId <= posted /\ maxId <= posted
    /\ pc # "idle" => sweep.pending_high <= pendingHigh
    /\ pc = "probe" => minId # 0
    /\ sweep.backfill_complete /\ ~sweep.incremental_in_progress
          => sweep.pending_high = sweep.max_id_seen

\* Between the cursor and pending_high nothing is left to fetch.
Walked ==
    pc \in {"fetch", "observe", "sweep"} =>
        /\ \A i \in live : cursor <= i /\ i <= pendingHigh => i \in stored
        /\ complete = sweep.backfill_complete
        /\ pc = "sweep" => offsetId = cursor

\* The page in hand continues the walk without a hole.
PageInHand ==
    pc = "observe" =>
        /\ page # {} /\ page \subseteq 1..posted /\ empties \cap live = {}
        /\ \A i \in live :
              Smallest(page) <= i /\ i <= Larger(pendingHigh, Largest(page))
                  => i \in stored \cup unread

\* A settling run has walked back to known territory or to the first message.
Arrived ==
    pc = "settle" => \A i \in live : i <= pendingHigh => i \in stored

IInv == TypeOK /\ NothingStranded /\ ResumeIsSafe
        /\ Bounded /\ Walked /\ PageInHand /\ Arrived

\* What this run saw: every message that still exists between min_id and
\* max_id, and of a page in hand the observed part is its newest part.
SpanSeen ==
    pc \in {"fetch", "observe", "sweep", "settle"} =>
        /\ minId = 0 <=> maxId = 0
        /\ minId # 0 => \A i \in live : minId <= i /\ i <= maxId => i \in idsSeen
        /\ pc \in {"fetch", "sweep"} /\ minId # 0 => cursor = minId
        /\ minId <= maxId

PageSeen ==
    pc = "observe" =>
        /\ \A u \in unread : minId = 0 \/ u < minId
        /\ \A i \in live :
              Smallest(page) <= i /\ i <= (IF maxId = 0 THEN Largest(page) ELSE maxId)
                  => i \in idsSeen \cup unread
        /\ \A p \in page \ unread : minId # 0 /\ minId <= p
        /\ unread # page => minId \in page

\* What a probing run has left to do.
SpanProbed ==
    pc = "probe" =>
        /\ toProbe \cap live = {} /\ toProbe \subseteq 1..posted
        /\ \A i \in Ids : minId <= i /\ i <= maxId
                            => i \in stored \cup tombs \cup toProbe

HInv == VerifiedIsHonest /\ idsSeen \subseteq stored \cup tombs
        /\ SpanSeen /\ PageSeen /\ SpanProbed
=============================================================================
