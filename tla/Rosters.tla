------------------------------ MODULE Rosters ------------------------------
(***************************************************************************)
(* ParticipantsCollector (collectors/participants.py), one RPC a step: who *)
(* is in the target, if it is a group, and in its linked discussion group. *)
(* The live phase and its replay are this one machine with two gateways.   *)
(* v is the collector at work, in one of these stages:                     *)
(*   open        from the stored rows alone: walls, the gate, the rosters  *)
(*   join        joining the linked group, which must be joined to be read *)
(*   preflight   the linked group's getFullChannel                         *)
(*   begin       the next roster;  enter: joining its group                *)
(*   page        getParticipants, filter by filter                         *)
(*   oracle      getParticipant, for authors whom the pages left out       *)
(*   list        getMessageReactionsList, page by page                     *)
(* Of a participant, the status is kept; of the users an answer carries,   *)
(* that they were met.  The vectors derived from stored messages are left  *)
(* out.                                                                    *)
(***************************************************************************)
EXTENDS Projections

CONSTANTS
    Megas,        \* Telegram: the channels that are groups and not broadcasts
    Hidden,       \* Telegram: the groups that hide their members
    JoinToSend,   \* Telegram: the groups that must be joined to be read
    Linked,       \* Telegram: the channel linked to a channel, or 0
    Reacted,      \* Telegram: the messages that have reactions
    OracleBudget, \* participant_oracle_budget
    ListBudget,   \* participant_reactions_budget
    ListPages,    \* _REACTIONS_MAX_PAGES
    RosterPage    \* _PAGE_SIZE

\* What the pages say of a group: the last stamp, the count, and if the account is in it.
Facts(at, total, me) == [at |-> at, total |-> total, me |-> me]

\* allowed: the session gate lets the phase enumerate.  join: --join is given.
Visit(ch, tier, allowed, join, oracle, lists) ==
    [stage |-> "open", ch |-> ch, tier |-> tier, allowed |-> allowed, join |-> join,
     oracle |-> oracle, lists |-> lists, groups |-> <<>>, prejoined |-> FALSE,
     filters |-> <<>>, offset |-> 0, seen |-> {}, walled |-> FALSE, kept |-> Facts(0, 0, FALSE),
     now |-> Facts(0, 0, FALSE), ask |-> <<>>, pages |-> 0]

At(st, v) == [st |-> st, v |-> v]

Group(v) == Head(v.groups).g

-----------------------------------------------------------------------------
\* store/participants.py
AddRoster(st, g, at, enumerated, total, reason) ==
    [st EXCEPT !.rosters = @ \cup {[g |-> g, at |-> at, enumerated |-> enumerated,
                                    total |-> total, reason |-> reason]}]

RecordWalled(st, v, g, reason, total, at, enumerated) ==
    AddRoster(AddRaw(st, "walled", v.tier, g, "none", at,
                     [reason |-> reason, total |-> total, enumerated |-> enumerated]),
              g, at, enumerated, total, reason)

(* write_participant and the snapshot after it: the newest observation wins, *)
(* and the account itself is never stored.                                   *)
WriteParticipant(st, g, id, status, at) ==
    LET key == <<g, id>>
        old == IF key \in DOMAIN st.parts THEN st.parts[key]
               ELSE [status |-> status, first |-> at, last |-> at]
        new == [status |-> IF at >= old.last THEN status ELSE old.status,
                first |-> Min({old.first, at}), last |-> Max({old.last, at})]
    IN  IF id = st.self THEN st
        ELSE [st EXCEPT
                !.parts = [k \in DOMAIN @ \cup {key} |-> IF k = key THEN new ELSE @[k]],
                !.snaps = @ \cup {[g |-> g, id |-> id, status |-> status, at |-> at]}]

\* _project_page, as far as it came: everybody is met, then these are written.
WriteMembers(st, g, met, ids, at) ==
    FoldLeft(LAMBDA t, id : WriteParticipant(t, g, id, "member", at), MeetPeers(st, met), ids)

\* store/reactions.py: the recorded pages of a message's list, and where it goes on.
ListRows(st, g, id) ==
    SelectSeq(st.raw, LAMBDA row : row.kind = "list" /\ row.ch = g /\ row.p.msg = id)

\* Mutant: an unfinished list is begun again at its first page.
ResumeOffsetFirst(st, g, id) == 0

ResumeOffset(st, g, id) ==
    IF ListRows(st, g, id) = <<>> THEN 0 ELSE Last(ListRows(st, g, id)).p.next

Fetched(st, g, id) ==
    ListRows(st, g, id) # <<>> /\ Last(ListRows(st, g, id)).p.next = 0

RowsOf(st, g) ==
    {id \in DOMAIN st.rows : \E row \in ToSet(st.raw) :
        row.kind = "message" /\ row.ch = g /\ row.p.id = id}

-----------------------------------------------------------------------------
\* What follows a step: the next roster, the lists, the oracle, a filter's pages.
TakeUp(v) == [v EXCEPT !.stage = IF v.groups = <<>> THEN "done" ELSE "begin"]

NextRoster(v) == TakeUp([v EXCEPT !.groups = Tail(@)])

StartList(st, v, ids) ==
    [v EXCEPT !.stage = "list", !.ask = ids, !.lists = @ - 1, !.pages = 0,
              !.offset = ResumeOffset(st, Group(v), Head(ids))]

ToLists(st, v) ==
    LET due == Reverse(Ascending({id \in Reacted \cap RowsOf(st, Group(v)) :
                                     ~Fetched(st, Group(v), id)}))
        ids == SubSeq(due, 1, Min({v.lists, Len(due)}))
    IN  IF ids = <<>> THEN NextRoster(v) ELSE StartList(st, v, ids)

\* Whoever the store has seen in the group and nobody has answered for.
ToOracle(st, v) ==
    LET g     == Group(v)
        known == {Author[id] : id \in RowsOf(st, g)}
                     \cup {s[2] : s \in {t \in st.sighted : t[1] = g}}
        due   == Ascending({id \in known \ v.seen : <<g, id>> \notin DOMAIN st.parts})
        ids   == SubSeq(due, 1, Min({v.oracle, Len(due)}))
    IN  IF ids = <<>> THEN ToLists(st, v) ELSE [v EXCEPT !.stage = "oracle", !.ask = ids]

ToPages(v, joined) ==
    [v EXCEPT !.stage = "page", !.offset = 0,
              !.filters = IF joined THEN <<"recent", "admins", "bots">> ELSE <<"recent">>]

(* The accounting row of the pages, walled or not: the account counts as    *)
(* enumerated if a page showed it.  A shortfall calls for the oracle.       *)
Account(st, v) ==
    LET count == Cardinality(v.seen) + (IF v.kept.me THEN 1 ELSE 0)
        total == v.kept.total
        s == IF v.walled THEN RecordWalled(st, v, Group(v), "refused", total, v.kept.at, count)
             ELSE AddRoster(st, Group(v), v.kept.at, count, total, "none")
    IN  At(s, IF v.walled \/ count < total THEN ToOracle(s, v) ELSE ToLists(s, v))

\* A filter's facts are kept when it ends, and lost with a refusal.
NextFilter(st, v, ok) ==
    LET facts == IF ok THEN v.now ELSE v.kept
        next  == [v EXCEPT !.filters = Tail(@), !.offset = 0, !.kept = facts, !.now = facts]
    IN  IF next.filters = <<>> THEN Account(st, next) ELSE At(st, next)

-----------------------------------------------------------------------------
\* Already a member, as a ChatFull of the group said last.
Member(st, g) == g \in DOMAIN st.info /\ ~st.info[g].left

Roster(g, at, total, left, prejoined) ==
    [g |-> g, at |-> at, total |-> total, left |-> left, prejoined |-> prejoined]

(* collect, up to its first RPC: the walls of the target are recorded on the *)
(* near side of the gate; a broadcast without a group ends here.             *)
Open(st, v) ==
    LET info == st.info[v.ch]
        link == Linked[v.ch]
        wall == IF v.ch \notin Megas THEN "broadcast"
                ELSE IF v.ch \in Hidden THEN "hidden" ELSE "none"
        s    == IF wall = "none" THEN st
                ELSE RecordWalled(st, v, v.ch, wall, info.total, info.at, 0)
        w    == [v EXCEPT !.groups =
                    IF v.ch \notin Megas THEN <<>>
                    ELSE <<Roster(v.ch, info.at, info.total, info.left, FALSE)>>]
        must == link \in JoinToSend \cap Megas
    IN  At(s, IF (link = 0 /\ v.ch \notin Megas) \/ ~v.allowed THEN [w EXCEPT !.stage = "done"]
              ELSE IF link = 0 THEN TakeUp(w)
              ELSE IF ~must \/ Member(st, link)
              THEN [w EXCEPT !.stage = "preflight", !.prejoined = must]
              ELSE IF w.join THEN [w EXCEPT !.stage = "join"] ELSE TakeUp(w))

\* join_or_skip
Join(st, v, ok) ==
    At(st, IF ok THEN [v EXCEPT !.stage = "preflight", !.prejoined = TRUE] ELSE TakeUp(v))

(* _preflight_group: the group's own ChatFull.  A broadcast (the link goes    *)
(* both ways) is walled for good, a hidden group for its pages only.          *)
Preflight(st, ck, v, ok, full) ==
    LET g     == Linked[v.ch]
        at    == Stamp(ck, st, "full", full)
        s     == Learn(st, ck, v.tier, g, full)
        next  == TakeUp([v EXCEPT !.groups = Append(@, Roster(g, at, full.total, full.left, v.prejoined))])
    IN  IF ~ok THEN At(RecordWalled(st, v, g, "refused", 0, st.info[v.ch].at, 0), TakeUp(v))
        ELSE IF g \notin Megas
        THEN At(RecordWalled(s, v, g, "broadcast", full.total, at, 0), TakeUp(v))
        ELSE IF g \in Hidden THEN At(RecordWalled(s, v, g, "hidden", full.total, at, 0), next)
        ELSE At(s, next)

(* _enumerate: no pages of a group that hides its members; and _maybe_join.   *)
Begin(st, v) ==
    LET group == Head(v.groups)
        facts == Facts(group.at, group.total, FALSE)
        fresh == [v EXCEPT !.seen = {}, !.walled = FALSE, !.kept = facts, !.now = facts]
    IN  At(st, IF group.g \in Hidden THEN ToOracle(st, fresh)
               ELSE IF group.prejoined \/ (v.join /\ ~group.left) THEN ToPages(fresh, TRUE)
               ELSE IF v.join THEN [fresh EXCEPT !.stage = "enter"] ELSE ToPages(fresh, FALSE))

(* _page: a filter ends with a short page or with one that shows nobody new;   *)
(* only the first filter counts the group, and only its refusal is a wall.     *)
Page(st, ck, v, ok, page) ==
    LET recent == Head(v.filters) = "recent"
        at     == Stamp(ck, st, "roster", page)
        others == ToSet(page.ids) \ {st.self}
        logged == AddRaw(st, "roster", v.tier, Group(v), "none", at, page)
        s      == WriteMembers(logged, Group(v), others, page.ids, at)
        next   == [v EXCEPT !.seen = @ \cup others, !.offset = @ + Len(page.ids),
                       !.now = Facts(at, IF recent THEN page.count ELSE @.total,
                                     @.me \/ st.self \in ToSet(page.ids))]
        more   == Len(page.ids) = RosterPage /\ ~(others \subseteq v.seen)
    IN  IF ~ok THEN NextFilter(st, [v EXCEPT !.walled = @ \/ recent], FALSE)
        ELSE IF more THEN At(s, next) ELSE NextFilter(s, next, TRUE)

(* _oracle: USER_NOT_PARTICIPANT is an answer too; a refusal is a wall for     *)
(* everybody.                                                                  *)
Oracle(st, ck, v, ok, answer) ==
    LET at     == Stamp(ck, st, "answer", answer)
        logged == AddRaw(st, "answer", v.tier, Group(v), "none", at, answer)
        s      == WriteParticipant(logged, Group(v), answer.id, answer.status, at)
        next   == [v EXCEPT !.oracle = @ - 1, !.ask = Tail(@)]
    IN  IF ~ok THEN At(st, ToLists(st, next))
        ELSE At(s, IF next.ask = <<>> THEN ToLists(s, next) ELSE next)

(* _reactions: a message's list is left after ListPages pages, for a later     *)
(* run to go on with; a refusal ends the vector.                               *)
List(st, ck, v, ok, page) ==
    LET at     == Stamp(ck, st, "list", page)
        logged == AddRaw(st, "list", v.tier, Group(v), "none", at, page)
        s      == MeetPeers([logged EXCEPT !.sighted = @ \cup {<<Group(v), page.who>>}],
                            {page.who})
        over   == page.next = 0 \/ v.pages + 1 = ListPages
    IN  IF ~ok THEN At(st, NextRoster(v))
        ELSE At(s, IF ~over THEN [v EXCEPT !.offset = page.next, !.pages = @ + 1]
                   ELSE IF Len(v.ask) > 1 THEN StartList(s, v, Tail(v.ask)) ELSE NextRoster(v))

\* One step, with Telegram's answer where the stage asks for one.
Step(st, ck, v, ok, answer) ==
    CASE v.stage = "open"      -> Open(st, v)
      [] v.stage = "join"      -> Join(st, v, ok)
      [] v.stage = "preflight" -> Preflight(st, ck, v, ok, answer)
      [] v.stage = "begin"     -> Begin(st, v)
      [] v.stage = "enter"     -> At(st, ToPages(v, ok))
      [] v.stage = "page"      -> Page(st, ck, v, ok, answer)
      [] v.stage = "oracle"    -> Oracle(st, ck, v, ok, answer)
      [] v.stage = "list"      -> List(st, ck, v, ok, answer)
=============================================================================
