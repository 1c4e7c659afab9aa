---------------------------- MODULE Projections ----------------------------
(***************************************************************************)
(* What the collectors make of one answer, live and in a replay alike:     *)
(* operators from a store to a store.  A store st holds the raw log and    *)
(* what is projected from it (store/db.py, store/messages.py, and the      *)
(* collectors channel, history, posts, profiles and media as far as one    *)
(* channel's messages go).  A clock ck stamps what is observed (clock.py). *)
(*                                                                         *)
(* A message is [id, ver]; ver counts its payloads, and Content(ver) tells *)
(* what of a payload the content hash sees.  An answer may also be Empty   *)
(* (MessageEmpty) or Unknown (a replay has no record of it).               *)
(***************************************************************************)
EXTENDS RawLog

CONSTANTS File,      \* Telegram: the file a message carries, by id, or NoFile
          NoFile,
          Author     \* Telegram: who wrote a message, by id

Empty   == -1
Unknown == -2
NoMessage == 0

\* Payloads 0 and 2 of a message have the same content: an edit and its undo.
Content(ver) == IF ver % 2 = 0 THEN "a" ELSE "b"

\* ORDER BY id, over a set of ids.
Ascending(S) == SelectSeq([i \in 1..Max({0} \cup S) |-> i], LAMBDA i : i \in S)

-----------------------------------------------------------------------------
(* The clock.  Live, time is the place in the log.  In a replay, a payload  *)
(* has the stamp of the row it was served from (the last of several equal   *)
(* ones), or else that of the row served last; a pinned row keeps its own.  *)
LiveClock == [live |-> TRUE, cur |-> 0, served |-> <<>>, pinned |-> <<>>]

ReplayClock(rows) == [live |-> FALSE, cur |-> 0, served |-> <<>>, pinned |-> rows]

\* begin_batch, then serve_json for each row of one response.
Serve(ck, rows) ==
    [ck EXCEPT !.served = rows,
               !.cur = IF rows = <<>> THEN @ ELSE Last(rows).at]

Equals(row, kind, p) == row.kind = kind /\ row.p = p

\* for_payload
Stamp(ck, st, kind, p) ==
    LET pins == SelectSeq(ck.pinned, LAMBDA row : Equals(row, kind, p))
        hits == SelectSeq(ck.served, LAMBDA row : Equals(row, kind, p))
    IN  IF ck.live THEN Len(st.raw) + 1
        ELSE IF pins # <<>> THEN Last(pins).at
        ELSE IF hits # <<>> THEN Last(hits).at ELSE ck.cur

-----------------------------------------------------------------------------
(* The store: raw, the run its rows are stamped with, the account, the      *)
(* channels seen, the pts, the sweep's bookkeeping, messages, revisions (a  *)
(* sequence: the table's ids break ties), metrics, tombstones, media rows   *)
(* and custody; a channel's flags, who is in which group, the observations  *)
(* of that, the accounting of rosters, and who was sighted in which group;  *)
(* and the people met anywhere, whom a triage will ask about.               *)
EmptyStore ==
    [raw |-> <<>>, run |-> 0, pass |-> 0, self |-> 0, chans |-> {}, pts |-> 0,
     off |-> 0, sweep |-> [high |-> 0, pending |-> 0, complete |-> FALSE,
                           resuming |-> FALSE],
     rows |-> <<>>, revs |-> <<>>, mets |-> {}, tombs |-> {},
     files |-> {}, custody |-> {},
     info |-> <<>>, parts |-> <<>>, snaps |-> {}, rosters |-> {}, sighted |-> {},
     peers |-> {}]

\* add_raw
AddRaw(st, kind, tier, ch, tgt, at, p) ==
    [st EXCEPT !.raw = Append(@,
        [run |-> st.run, pass |-> st.pass, kind |-> kind, tier |-> tier,
         ch |-> ch, tgt |-> tgt, at |-> at, p |-> p])]

\* upsert_peer of people: the account itself is never one of them.
MeetPeers(st, ids) == [st EXCEPT !.peers = @ \cup (ids \ {st.self})]

\* latest_revision_hash: the newest observed_at, then the newest row.
LatestContent(st, id) ==
    LET mine == {i \in DOMAIN st.revs : st.revs[i].id = id}
        last == {i \in mine : \A j \in mine :
                     \/ st.revs[j].at < st.revs[i].at
                     \/ st.revs[j].at = st.revs[i].at /\ j <= i}
    IN  {st.revs[i].content : i \in last}

\* upsert_message_revised
Upsert(st, m, at) ==
    LET old == IF m.id \in DOMAIN st.rows THEN st.rows[m.id]
               ELSE [ver |-> 0, deleted |-> 0, first |-> at, last |-> at]
        new == [old EXCEPT !.ver = m.ver, !.last = at]
    IN  [st EXCEPT
            !.rows = [id \in DOMAIN @ \cup {m.id} |-> IF id = m.id THEN new ELSE @[id]],
            !.revs = IF LatestContent(st, m.id) = {Content(m.ver)} THEN @
                     ELSE Append(@, [id |-> m.id, at |-> at, content |-> Content(m.ver)]),
            !.mets = @ \cup {[id |-> m.id, at |-> at, ver |-> m.ver]}]

(* mark_deleted, for evidence "update" or "empty": a tombstone always, and  *)
(* the earliest deletion time on the row, if there is one.                  *)
MarkDeleted(st, id, evidence, at) ==
    LET marked == [st EXCEPT !.tombs = @ \cup {[id |-> id, at |-> at, ev |-> evidence]}]
    IN  IF id \notin DOMAIN st.rows \/ st.rows[id].deleted # 0 THEN marked
        ELSE [marked EXCEPT !.rows[id].deleted = at]

\* clear_deleted
ClearDeleted(st, id) ==
    IF id \in DOMAIN st.rows THEN [st EXCEPT !.rows[id].deleted = 0] ELSE st

(* observe_message: the object goes to the log, then into the tables, and   *)
(* its author is met; a placeholder becomes a tombstone.                    *)
MessageKind(m) == IF m.ver = Empty THEN "empty" ELSE "message"

Observe(st, ck, ch, tier, method, m) ==
    LET at     == Stamp(ck, st, MessageKind(m), m)
        logged == AddRaw(st, MessageKind(m), tier, ch, method, at, m)
    IN  IF m.ver = Empty THEN MarkDeleted(logged, m.id, "empty", at)
        ELSE MeetPeers(Upsert(logged, m, at), {Author[m.id]})

-----------------------------------------------------------------------------
(* HistoryCollector.collect.  sw is what a sweep has in hand: its cursor,   *)
(* where it stops, the ids it saw and the bounds they have.                 *)
SweepStart(st) ==
    [cursor |-> IF st.sweep.complete /\ ~st.sweep.resuming THEN 0 ELSE st.off,
     stop_at |-> IF st.sweep.complete THEN st.sweep.high ELSE 0,
     incremental |-> st.sweep.complete,
     seen |-> {}]

Ids(page) == {page[i].id : i \in DOMAIN page}

ObserveAll(st, ck, ch, tier, method, page) ==
    FoldLeft(LAMBDA s, m : Observe(s, ck, ch, tier, method, m), st, page)

\* The page is observed, and the cursor and the sweep's marks are saved.
SavePage(st, ck, ch, tier, sw, page) ==
    [ObserveAll(st, ck, ch, tier, "none", page) EXCEPT
        !.off = Min(Ids(page)),
        !.sweep.pending = Max(Ids(page) \cup {@}),
        !.sweep.resuming = sw.incremental]

Turned(sw, page) ==
    [sw EXCEPT !.cursor = Min(Ids(page)), !.seen = @ \cup Ids(page)]

CaughtUp(sw) == sw.incremental /\ sw.cursor <= sw.stop_at

\* exhausted: the sweep ended because a page was empty.
Settle(st, exhausted) ==
    LET settled == Max({st.sweep.high, st.sweep.pending})
    IN  [st EXCEPT !.sweep = [high |-> settled, pending |-> settled,
                              complete |-> @.complete \/ exhausted, resuming |-> FALSE]]

\* _probe_gaps: the ids to ask for, and what its answers leave.
Candidates(sw) == IF sw.seen = {} THEN {} ELSE (Min(sw.seen)..Max(sw.seen)) \ sw.seen

RecordEmpties(st, ck, ch, tier, answers) ==
    FoldLeft(LAMBDA s, m : IF m.ver = Empty THEN Observe(s, ck, ch, tier, "none", m) ELSE s,
             st, answers)

(* One page of catch_up.  d is [new, other, pts, final, toolong, nested]:    *)
(* new_messages and other_updates of the difference, its pts, and whether    *)
(* it is the last page or a ...TooLong with its recovery messages in new.    *)
ApplyUpdate(st, ck, ch, tier, at, u) ==
    IF u.kind = "edit" THEN Observe(st, ck, ch, tier, "none", u.m)
    ELSE MarkDeleted(st, u.m.id, "update", at)

ApplyDiff(st, ck, ch, tier, d) ==
    LET at     == Stamp(ck, st, "diff", d)
        logged == AddRaw(st, "diff", tier, ch, "none", at, d)
        news   == ObserveAll(logged, ck, ch, tier, "none", d.new)
        all    == FoldLeft(LAMBDA s, u : ApplyUpdate(s, ck, ch, tier, at, u), news, d.other)
    IN  [all EXCEPT !.pts = d.pts]

EmptyDiff(pts) == [new |-> <<>>, other |-> <<>>, pts |-> pts, final |-> TRUE, toolong |-> FALSE]

-----------------------------------------------------------------------------
(* PostsCollector: every answer but an unknown one is observed under the     *)
(* method that fetched it; a live answer takes a tombstone's flag back.      *)
Fetch(st, ck, ch, tier, m) ==
    LET seen == Observe(st, ck, ch, tier, "getMessages", m)
    IN  IF m.ver = Unknown THEN st
        ELSE IF m.ver = Empty THEN seen ELSE ClearDeleted(seen, m.id)

FetchAll(st, ck, ch, tier, answers) ==
    FoldLeft(LAMBDA s, m : Fetch(s, ck, ch, tier, m), st, answers)

-----------------------------------------------------------------------------
(* MediaCollector, one message row: a file this store knows and holds gets   *)
(* a custody row of the message's first_seen; a file whose bytes arrive gets *)
(* a media row if it is new, a custody row and, after it, its receipt.       *)
MediaRows(st, wanted) ==
    {id \in DOMAIN st.rows \cap wanted : File[id] # NoFile /\ st.rows[id].deleted = 0}

Custody(st, id, at) ==
    [st EXCEPT !.custody = @ \cup {[id |-> id, file |-> File[id], at |-> at]}]

Download(st, ck, ch, tier, id) ==
    LET p  == [id |-> id, file |-> File[id]]
        at == Stamp(ck, st, "download", p)
    IN  AddRaw([Custody(st, id, at) EXCEPT !.files = @ \cup {File[id]}],
               "download", tier, ch, "none", at, p)

WalkRow(st, ck, ch, tier, id, held, bytes) ==
    IF File[id] \in st.files /\ held THEN Custody(st, id, st.rows[id].first)
    ELSE IF bytes THEN Download(st, ck, ch, tier, id) ELSE st

-----------------------------------------------------------------------------
(* ChannelCollector.collect before and after it has access: the account is   *)
(* known first; the channel's row, its pts and the tier of the run come from *)
(* the ChatFull.                                                             *)
LearnSelf(st, ck, id) ==
    LET p == [id |-> id]
    IN  [AddRaw(st, "user", "self", 0, "none", Stamp(ck, st, "user", p), p)
            EXCEPT !.self = id]

Learn(st, ck, tier, ch, full) ==
    LET at    == Stamp(ck, st, "full", full)
        row   == [at |-> at, left |-> full.left, total |-> full.total]
        newer == ch \in DOMAIN st.info /\ st.info[ch].at > at
    IN  [AddRaw(st, "full", tier, ch, "none", at, full)
            EXCEPT !.chans = @ \cup {ch},
                   !.info = [c \in DOMAIN @ \cup {ch} |->
                                IF c = ch /\ ~newer THEN row ELSE @[c]]]

Establish(st, ck, ch, full) ==
    [Learn(st, ck, "stranger", ch, full) EXCEPT !.pts = full.pts]

TierOf(full) == IF full.creator THEN "self" ELSE "stranger"

\* ProfilesCollector._triage, one person answered by users.getUsers.
TriageUser(st, ck, tier, id) ==
    LET p == [id |-> id]
    IN  AddRaw(st, "user", tier, 0, "getUsers", Stamp(ck, st, "user", p), p)
=============================================================================
