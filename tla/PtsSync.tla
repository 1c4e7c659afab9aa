------------------------------ MODULE PtsSync ------------------------------
(***************************************************************************)
(* How a channel's edits and deletions reach the store: the channel phase  *)
(* seeds sync_state('channel').pts, the history sweep re-reads what it     *)
(* pages over, and HistoryCollector.catch_up then applies                  *)
(* updates.getChannelDifference page by page (collectors/history.py,       *)
(* collectors/channel.py, recipes.py _run_one).  Telegram keeps posting,   *)
(* editing and deleting while it happens, and a run may die between any    *)
(* two statements.                                                         *)
(*                                                                         *)
(* Telegram's side is one event log; the channel pts is its length, and    *)
(* the content of a message is the pts of the event that wrote it.  The    *)
(* sweep's own bookkeeping is abstracted to what it re-reads and when it   *)
(* stops; HistorySweep models it statement by statement.                   *)
(***************************************************************************)
EXTENDS Integers, Sequences, FiniteSets

CONSTANTS
    MaxId,          \* bound: the newest message id Telegram ever assigns
    MaxEvents,      \* bound: how many events the channel ever has
    PageSize,       \* _HISTORY_PAGE_SIZE
    DiffLimit,      \* _CHANNEL_DIFFERENCE_LIMIT
    TooLongGap,     \* Telegram: the longest gap getChannelDifference serves
    CatchupBudget,  \* settings.catchup_page_budget
    Misbehaves,     \* Telegram: whether it may answer a page without progress
    MaxInterrupts   \* bound: how often a run is killed or fails

ASSUME PtsAssumption ==
    /\ MaxId \in Nat /\ MaxEvents \in Nat
    /\ PageSize \in Nat \ {0} /\ DiffLimit \in Nat \ {0}
    /\ TooLongGap \in Nat \ {0} /\ CatchupBudget \in Nat \ {0}
    /\ Misbehaves \in BOOLEAN /\ MaxInterrupts \in Nat

Ids == 1..MaxId
Events == [kind : {"new", "edit", "delete"}, id : Ids]

VARIABLES
    log,        \* Telegram: the channel's events, oldest first
    row,        \* messages: the content a row holds, 0 when there is none
    deleted,    \* ids with an `update` tombstone (deleted_at of a row)
    storedPts,  \* sync_state('channel').pts, 0 when absent
    high,       \* sync_state('history_sweep').max_id_seen
    backfilled, \* sync_state('history_sweep').backfill_complete
    resumeAt,   \* where the next sweep starts: 0 is the newest message
    pending,    \* sync_state('history_sweep').pending_high
    interrupts  \* bound counter

VARIABLES
    pc,         \* where the run stands
    page,       \* the history page in hand: its ids
    copy,       \* the contents Telegram served with the last answer
    items,      \* the events of a difference that are left to project
    diffPts,    \* the pts the difference in hand carries
    final,      \* its `final` flag
    pages,      \* local pages of catch_up
    outcome     \* how the last run's history phase ended

VARIABLES       \* history variables, read by the properties only
    seed,       \* the pts the present coverage starts from
    seen,       \* the ids this run projected
    sweptAt     \* the channel's pts when the sweep settled

disk   == <<row, deleted, storedPts, high, backfilled, resumeAt, pending>>
local  == <<page, copy, items, diffPts, final, pages, outcome>>
ghost  == <<seed, seen, sweptAt>>
vars   == <<log, disk, interrupts, pc, local, ghost>>

Newest(S)    == CHOOSE i \in S : \A j \in S : j <= i
Oldest(S)    == CHOOSE i \in S : \A j \in S : i <= j
Larger(a, b) == IF a >= b THEN a ELSE b

Pts == Len(log)
\* The content of message i after the first n events; 0 before it is posted.
Writes(i, n)  == {e \in 1..n : log[e].id = i /\ log[e].kind # "delete"}
Content(i, n) == IF Writes(i, n) = {} THEN 0 ELSE Newest(Writes(i, n))
Gone(i, n)    == \E e \in 1..n : log[e].kind = "delete" /\ log[e].id = i
Posted        == {i \in Ids : Content(i, Pts) # 0}
live          == {i \in Posted : ~Gone(i, Pts)}

Locations == {"idle", "sweep", "observe", "ask", "apply", "save"}
Outcomes  == {"none", "clean", "resynced", "stalled", "phase_stop", "dead"}

-----------------------------------------------------------------------------
Init ==
    /\ log = <<>>
    /\ row = [i \in Ids |-> 0] /\ deleted = {} /\ storedPts = 0
    /\ high = 0 /\ backfilled = FALSE /\ resumeAt = 0 /\ pending = 0
    /\ interrupts = 0
    /\ pc = "idle" /\ page = {} /\ copy = [i \in Ids |-> 0]
    /\ items = {} /\ diffPts = 0 /\ final = FALSE /\ pages = 0
    /\ outcome = "none"
    /\ seed = 0 /\ seen = {} /\ sweptAt = 0

Happens(kind, i) ==
    /\ Len(log) < MaxEvents
    /\ log' = Append(log, [kind |-> kind, id |-> i])
    /\ UNCHANGED <<disk, interrupts, pc, local, ghost>>

Post   == \E i \in Ids : i = Cardinality(Posted) + 1 /\ Happens("new", i)
Edit   == \E i \in live : Happens("edit", i)
Delete == \E i \in live : Happens("delete", i)

-----------------------------------------------------------------------------
(* The channel phase of a run: getFullChannel's pts overwrites the stored   *)
(* one, whatever it was.                                                    *)
SeedPts ==
    /\ pc = "idle"
    /\ pc' = "sweep"
    /\ storedPts' = Pts
    /\ outcome' = "none"
    /\ seed' = Pts /\ seen' = {}
    /\ UNCHANGED <<log, row, deleted, high, backfilled, resumeAt, pending,
                   interrupts, page, copy, items, diffPts, final, pages, sweptAt>>

(* One history page: the newest messages older than the cursor.  An empty   *)
(* page completes the backfill; either way the sweep then settles.          *)
Older == {i \in live : resumeAt = 0 \/ i < resumeAt}

FetchPage ==
    /\ pc = "sweep"
    /\ Older # {}
    /\ \E k \in Older :
          LET answer == {i \in Older : k <= i}
          IN  /\ Cardinality(answer) <= PageSize
              /\ page' = answer
    /\ copy' = [i \in Ids |-> Content(i, Pts)]
    /\ pc' = "observe"
    /\ UNCHANGED <<log, disk, interrupts, items, diffPts, final, pages, outcome, ghost>>

Settle(newHigh, isBackfilled) ==
    /\ high' = Larger(high, newHigh)
    /\ pending' = Larger(high, newHigh)
    /\ backfilled' = isBackfilled
    /\ resumeAt' = 0
    /\ pc' = "ask" /\ pages' = 0
    /\ sweptAt' = Pts

EmptyPage ==
    /\ pc = "sweep"
    /\ Older = {}
    /\ Settle(pending, TRUE)
    /\ UNCHANGED <<log, row, deleted, storedPts, interrupts, page, copy, items,
                   diffPts, final, outcome, seed, seen>>

\* Mutant: the sweep counts as caught up when its page is below what it has seen.
ObservePageKnowsAll ==
    /\ pc = "observe"
    /\ row' = [i \in Ids |-> IF i \in page THEN copy[i] ELSE row[i]]
    /\ seen' = seen \cup page
    /\ LET top == Larger(pending, Newest(page))
       IN  IF backfilled /\ Oldest(page) <= top
           THEN Settle(top, TRUE)
           ELSE /\ pending' = top
                /\ resumeAt' = Oldest(page)
                /\ pc' = "sweep"
                /\ UNCHANGED <<high, backfilled, pages, sweptAt>>
    /\ UNCHANGED <<log, deleted, storedPts, interrupts, page, copy, items,
                   diffPts, final, outcome, seed>>

(* Project the page, then move the cursor; an incremental sweep that has    *)
(* paged back to the high-water mark settles.                               *)
ObservePage ==
    /\ pc = "observe"
    /\ row' = [i \in Ids |-> IF i \in page THEN copy[i] ELSE row[i]]
    /\ seen' = seen \cup page
    /\ LET top == Larger(pending, Newest(page))
       IN  IF backfilled /\ Oldest(page) <= high
           THEN Settle(top, TRUE)
           ELSE /\ pending' = top
                /\ resumeAt' = Oldest(page)
                /\ pc' = "sweep"
                /\ UNCHANGED <<high, backfilled, pages, sweptAt>>
    /\ UNCHANGED <<log, deleted, storedPts, interrupts, page, copy, items,
                   diffPts, final, outcome, seed>>

-----------------------------------------------------------------------------
(* updates.getChannelDifference(pts): the next events, a final flag when    *)
(* there are no more.  A new or edited message is served with its content   *)
(* as of the answer and left out when it is gone.                           *)
Upto == IF Pts - storedPts <= DiffLimit THEN Pts ELSE storedPts + DiffLimit

\* Mutant: other_updates are ignored.
ServedNewOnly ==
    {e \in (storedPts + 1)..Upto : log[e].kind = "new" /\ log[e].id \in live}

Served ==
    {e \in (storedPts + 1)..Upto : log[e].kind = "delete" \/ log[e].id \in live}

AskDifference ==
    /\ pc = "ask"
    /\ Pts - storedPts <= TooLongGap
    /\ items' = Served
    /\ copy' = [i \in Ids |-> Content(i, Pts)]
    /\ diffPts' = Upto
    /\ final' = (Upto = Pts)
    /\ pc' = "apply"
    /\ UNCHANGED <<log, disk, interrupts, page, pages, outcome, ghost>>

(* channelDifferenceTooLong: the newest messages are projected and pts is   *)
(* re-seeded from the dialog, when the dialog carries one.                  *)
TooLong ==
    /\ pc = "ask"
    /\ Pts - storedPts > TooLongGap
    /\ \E k \in Ids :
          LET answer == {i \in live : k <= i}
          IN  /\ Cardinality(answer) <= PageSize
              /\ row' = [i \in Ids |-> IF i \in answer THEN Content(i, Pts) ELSE row[i]]
              /\ seen' = seen \cup answer
    /\ \/ storedPts' = Pts /\ seed' = Pts
       \/ UNCHANGED <<storedPts, seed>>
    /\ pc' = "idle" /\ outcome' = "resynced"
    /\ UNCHANGED <<log, deleted, high, backfilled, resumeAt, pending, interrupts,
                   page, copy, items, diffPts, final, pages, sweptAt>>

(* A non-final page whose pts does not advance: catch_up stops as stalled.  *)
StalledPage ==
    /\ pc = "ask" /\ Misbehaves
    /\ items' = {} /\ diffPts' = storedPts /\ final' = FALSE
    /\ pc' = "apply"
    /\ UNCHANGED <<log, disk, interrupts, page, copy, pages, outcome, ghost>>

(* new_messages are walked before other_updates, each in Telegram's order.  *)
ComesFirst(e) ==
    \A f \in items : /\ log[f].kind = "new" => log[e].kind = "new" /\ e <= f
                     /\ log[e].kind # "new" => e <= f

(* Project the next item: observe_message for a message, mark_deleted for   *)
(* an id of updateDeleteChannelMessages.                                    *)
ApplyItem ==
    /\ pc = "apply"
    /\ \E e \in items :
          /\ ComesFirst(e)
          /\ items' = items \ {e}
          /\ LET id == log[e].id
             IN  IF log[e].kind = "delete"
                 THEN deleted' = deleted \cup {id} /\ UNCHANGED <<row, seen>>
                 ELSE /\ row' = [row EXCEPT ![id] = copy[id]]
                      /\ seen' = seen \cup {id}
                      /\ UNCHANGED deleted
    /\ UNCHANGED <<log, storedPts, high, backfilled, resumeAt, pending, interrupts,
                   pc, page, copy, diffPts, final, pages, outcome, seed, sweptAt>>

\* Mutant: the pts is persisted before the page is projected.
FinishPageEarly ==
    /\ pc = "apply"
    /\ storedPts' = diffPts
    /\ pages' = pages + 1
    /\ pc' = IF final THEN "idle" ELSE "ask"
    /\ outcome' = IF final THEN "clean" ELSE outcome
    /\ UNCHANGED <<log, row, deleted, high, backfilled, resumeAt, pending,
                   interrupts, page, copy, items, diffPts, final, ghost>>

\* Mutant: a stalled page reads as a clean finish.
FinishPageStalledIsClean ==
    /\ pc = "apply"
    /\ items = {}
    /\ LET over == final \/ diffPts <= storedPts
       IN  /\ storedPts' = diffPts
           /\ pages' = IF over THEN pages ELSE pages + 1
           /\ outcome' = IF over THEN "clean" ELSE outcome
           /\ pc' = IF over \/ pages + 1 >= CatchupBudget THEN "idle" ELSE "ask"
    /\ UNCHANGED <<log, row, deleted, high, backfilled, resumeAt, pending,
                   interrupts, page, copy, items, diffPts, final, ghost>>

(* The page is projected: persist its pts and decide, in the code's order:  *)
(* final, stalled, out of budget, another page.                             *)
FinishPage ==
    /\ pc = "apply"
    /\ items = {}
    /\ LET stalled == ~final /\ diffPts <= storedPts
           spent   == pages + 1 >= CatchupBudget
       IN  /\ storedPts' = IF stalled THEN storedPts ELSE diffPts
           /\ pages' = IF final \/ stalled THEN pages ELSE pages + 1
           /\ outcome' = IF final THEN "clean"
                         ELSE IF stalled THEN "stalled"
                         ELSE IF spent THEN "phase_stop" ELSE outcome
           /\ pc' = IF final \/ stalled \/ spent THEN "idle" ELSE "ask"
    /\ UNCHANGED <<log, row, deleted, high, backfilled, resumeAt, pending,
                   interrupts, page, copy, items, diffPts, final, ghost>>

(* A kill, or a flood PhaseStop out of an RPC.                              *)
Interrupt ==
    /\ pc # "idle"
    /\ interrupts < MaxInterrupts
    /\ interrupts' = interrupts + 1
    /\ pc' = "idle" /\ outcome' = "dead"
    /\ UNCHANGED <<log, disk, page, copy, items, diffPts, final, pages, ghost>>

-----------------------------------------------------------------------------
Server == Post \/ Edit \/ Delete
Sweep  == FetchPage \/ EmptyPage \/ ObservePage
CatchUp == AskDifference \/ TooLong \/ StalledPage \/ ApplyItem \/ FinishPage

Next == Server \/ SeedPts \/ Sweep \/ CatchUp \/ Interrupt

Spec == Init /\ [][Next]_vars
-----------------------------------------------------------------------------
(* Every variable keeps its type, and the rows hold contents that existed.  *)
TypeOK ==
    /\ log \in Seq(Events) /\ Len(log) <= MaxEvents
    /\ row \in [Ids -> 0..MaxEvents] /\ deleted \subseteq Ids
    /\ storedPts \in 0..MaxEvents /\ diffPts \in 0..MaxEvents
    /\ high \in 0..MaxId /\ pending \in 0..MaxId /\ resumeAt \in 0..MaxId
    /\ backfilled \in BOOLEAN /\ final \in BOOLEAN
    /\ pc \in Locations /\ outcome \in Outcomes
    /\ page \subseteq Ids /\ copy \in [Ids -> 0..MaxEvents]
    /\ items \subseteq 1..MaxEvents
    /\ pages \in 0..CatchupBudget /\ interrupts \in 0..MaxInterrupts
    /\ seed \in 0..MaxEvents /\ sweptAt \in 0..MaxEvents /\ seen \subseteq Ids

\* The store shows event n: its content or a later one, its deletion.
Shown(n) ==
    LET e == log[n]
    IN  IF e.kind = "delete" THEN e.id \in deleted
        ELSE row[e.id] >= n \/ Gone(e.id, Pts)

(* The persisted pts never runs ahead of the store (ADR-0004: "each page is *)
(* projected and its pts persisted as it lands"): every event between the   *)
(* seed and the stored cursor is in the store, however often catch_up was   *)
(* killed half-way through a page or cut short by its budget.               *)
CursorIsApplied == \A n \in (seed + 1)..storedPts : Shown(n)

(* A catch-up that reads as a clean finish drained the backlog: it reached  *)
(* at least everything that had happened when the sweep ended (history.py   *)
(* 355-360: a stalled page "must not read as a clean finish").              *)
CleanMeansDrained == outcome = "clean" => storedPts >= sweptAt

(* After a clean run, the messages this run touched are exactly as Telegram *)
(* had them at the stored pts or later, although they changed under the     *)
(* sweep; a deletion since the seed is recorded.                            *)
TouchedIsCurrent ==
    outcome = "clean" =>
        \A i \in seen : /\ row[i] >= Content(i, storedPts) \/ Gone(i, Pts)
                        /\ Gone(i, storedPts) => i \in deleted

Held == {i \in Ids : row[i] # 0}

Channel == INSTANCE Archive WITH
    posted <- Posted, held <- Held, gone <- deleted, mark <- high

(* The coarser sweep of this module, the too-long resync and the differences *)
(* keep between them what HistorySweep's statements keep: rows only of       *)
(* posted messages, tombstones only of deleted ones, and a mark that rises   *)
(* only when nothing below it is left to fetch.                              *)
KeepsArchive == Channel!Spec

(* README.md:107-108: "re-running continues sync and captures new           *)
(* edits/deletions": after a clean run, every stored message that earlier   *)
(* sweeps went over is as Telegram had it at the stored pts.                *)
RerunCapturesChanges ==
    outcome = "clean" =>
        \A i \in Ids : row[i] # 0 /\ i <= high =>
            /\ row[i] >= Content(i, storedPts) \/ Gone(i, Pts)
            /\ Gone(i, storedPts) => i \in deleted

-----------------------------------------------------------------------------
(* What the three rest on.  Everything that is remembered of Telegram is of  *)
(* its past, so rows only ever move forward.                                 *)
OfThePast ==
    /\ storedPts <= Pts /\ diffPts <= Pts /\ seed <= Pts /\ sweptAt <= Pts
    /\ \A i \in Ids : row[i] <= Content(i, Pts) /\ copy[i] <= Content(i, Pts)

\* What an answer says of message i is newer than its row and than the seed.
Fresh(i) == row[i] <= copy[i] /\ Content(i, seed) <= copy[i] /\ ~Gone(i, seed)

(* The page in hand; and of a difference in hand, every event up to its pts  *)
(* is in the store or still to be projected.                                 *)
PageInHand ==
    pc = "observe" => page # {} /\ \A i \in page : Fresh(i)

DifferenceInHand ==
    pc = "apply" =>
        /\ final => diffPts >= sweptAt
        /\ items \subseteq 1..Pts
        /\ \A n \in (seed + 1)..diffPts : Shown(n) \/ n \in items
        /\ \A e \in items : log[e].kind # "delete" =>
               Fresh(log[e].id) /\ e <= copy[log[e].id]

(* What a run has projected was alive, and is as new as the seed.            *)
TouchedSinceSeed ==
    pc # "idle" \/ outcome = "clean" =>
        \A i \in seen : row[i] >= Content(i, seed) /\ ~Gone(i, seed)

Budgeted ==
    /\ pc \in {"ask", "apply"} => pages < CatchupBudget
    /\ outcome = "clean" => pc = "idle"

\* None of the three is inductive by itself; together with these they are.
IInv ==
    /\ TypeOK /\ CursorIsApplied /\ CleanMeansDrained
    /\ OfThePast /\ PageInHand /\ DifferenceInHand /\ TouchedSinceSeed /\ Budgeted

(* What the archive rests on: Telegram numbers messages without a hole, ...  *)
Numbered ==
    /\ \E n \in 0..MaxId : Posted = 1..n
    /\ \A e \in 1..Pts : log[e].id \in Posted
    /\ deleted \subseteq Posted \ live

(* ... and between the sweep's own three cursors nothing is left to fetch:   *)
(* below the mark, in the part an unfinished sweep has walked, and in the    *)
(* page that continues it.                                                   *)
Marked ==
    /\ {high, pending, resumeAt} \subseteq Posted \cup {0} /\ high <= pending
    /\ \A i \in live : i <= high => i \in Held
    /\ resumeAt = 0 => pending = high
    /\ resumeAt # 0 => \A i \in live : resumeAt <= i /\ i <= pending => i \in Held

PageContinues ==
    pc = "observe" =>
        /\ page \subseteq Posted /\ \A i \in page : copy[i] # 0
        /\ \A i \in live :
              Oldest(page) <= i /\ i <= Larger(pending, Newest(page))
                  => i \in Held \cup page

AInv == Numbered /\ Marked /\ PageContinues
=============================================================================
