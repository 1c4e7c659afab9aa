--------------------------- MODULE ReplayGateway ---------------------------
(***************************************************************************)
(* RawReplayGateway and the per-run questions of ReplaySource (replay.py): *)
(* what a replay is told instead of what Telegram once answered.  win is   *)
(* the run's window of the raw log (RunIndex), a sequence of its rows; an  *)
(* answer is looked up in it and nowhere else.                             *)
(***************************************************************************)
EXTENDS Rosters

NoRow == [kind |-> "none"]

\* RunIndex.lookup, in capture order, and _latest.
Rows(win, kind) == SelectSeq(win, LAMBDA row : row.kind = kind)

Latest(rows) == IF rows = <<>> THEN NoRow ELSE Last(rows)

\* The first of equal values only, as a dict keeps them.
Distinct(seq) == FoldLeft(LAMBDA s, x : IF x \in ToSet(s) THEN s ELSE Append(s, x), <<>>, seq)

IsMessage(row) == row.kind \in {"message", "empty"}

-----------------------------------------------------------------------------
(* What the run was: the targets it tried, in capture order (resolve_targets), *)
(* and the traces its phases left (detect_phases and what it asks).            *)
TargetRows(win) == SelectSeq(win, LAMBDA row : row.kind \in {"resolved", "access"})

ResolveTargets(win) ==
    Distinct([i \in DOMAIN TargetRows(win) |-> TargetRows(win)[i].tgt])

FetchedPostIds(win) ==
    {row.p.id : row \in {r \in ToSet(win) : IsMessage(r) /\ r.tgt = "getMessages"}}

HasHistoryEvidence(win) ==
    \E row \in ToSet(win) : \/ IsMessage(row) /\ row.tgt # "getMessages"
                            \/ row.kind = "diff"

ContextMarkers(win) == Rows(win, "reused")
Selection(win) == Latest(Rows(win, "selection"))

\* channel_established, established_channel_ids
Established(win, ch) == \E row \in ToSet(win) : row.kind = "full" /\ row.ch = ch

HasMedia(win) ==
    \/ Rows(win, "download") # <<>>
    \/ Selection(win) # NoRow /\ Established(win, Selection(win).ch)

DetectPhases(win) ==
    LET posts   == IF FetchedPostIds(win) # {} THEN <<"posts">> ELSE <<>>
        history == IF HasHistoryEvidence(win) THEN <<"history">> ELSE <<>>
        rosters == IF \E row \in ToSet(win) : row.kind \in {"roster", "answer", "list", "walled"}
                   THEN <<"participants">> ELSE <<>>
        triage  == IF \E row \in ToSet(win) : row.tgt = "getUsers"
                   THEN <<"profiles">> ELSE <<>>
        media(here) == IF here THEN <<"media">> ELSE <<>>
    IN  IF ContextMarkers(win) # <<>>
        THEN posts \o media(Selection(win) # NoRow)
        ELSE <<"channel">> \o posts \o history \o rosters \o triage \o media(HasMedia(win))

-----------------------------------------------------------------------------
\* Mutant: the latest user row is the account.
GetSelfLoose(win) == Latest(Rows(win, "user"))

\* get_self: the latest user row of tier self.
GetSelf(win) ==
    Latest(SelectSeq(win, LAMBDA row : row.kind = "user" /\ row.tier = "self"))

\* resolve: the record of that handle, or else that target's.
Resolve(win, handle) ==
    LET rows     == Rows(win, "resolved")
        byHandle == SelectSeq(rows, LAMBDA row : row.p.handle = handle)
        byTarget == SelectSeq(rows, LAMBDA row : row.tgt = handle)
    IN  IF byHandle # <<>> THEN Last(byHandle) ELSE Latest(byTarget)

\* channel_access_receipt: the receipts for a target, in recorded order.
Receipts(win, tgt) == SelectSeq(win, LAMBDA row : row.kind = "access" /\ row.tgt = tgt)

GetFullChannel(win, ch) ==
    Latest(SelectSeq(win, LAMBDA row : row.kind = "full" /\ row.ch = ch))

-----------------------------------------------------------------------------
(* iter_history: the run's message records below the cursor, by id           *)
(* descending, then in capture order; the records of one id are never split  *)
(* between two pages.                                                        *)
Ordered(win, ch, cursor) ==
    LET here(i)  == /\ win[i].kind = "message" /\ win[i].ch = ch
                    /\ cursor # 0 => win[i].p.id < cursor
        before(i, j) == \/ win[i].p.id > win[j].p.id
                        \/ win[i].p.id = win[j].p.id /\ i < j
        order == SortSeq(SelectSeq([i \in DOMAIN win |-> i], here), before)
    IN  [n \in DOMAIN order |-> win[order[n]]]

HistoryRows(win, ch, cursor, limit) ==
    LET all  == Ordered(win, ch, cursor)
        full == Min({limit, Len(all)})
        \* the ids of the page, with every record they have
        ids  == {all[i].p.id : i \in 1..full}
    IN  SelectSeq(all, LAMBDA row : row.p.id \in ids)

Payloads(rows) == [i \in DOMAIN rows |-> rows[i].p]

\* get_messages: the latest record of each id, or a placeholder.
MessageRecord(win, ch, id) ==
    Latest(SelectSeq(win, LAMBDA row : IsMessage(row) /\ row.ch = ch /\ row.p.id = id))

GetMessages(win, ch, ids) ==
    [i \in DOMAIN ids |-> IF MessageRecord(win, ch, ids[i]) = NoRow
                          THEN [id |-> ids[i], ver |-> Unknown]
                          ELSE MessageRecord(win, ch, ids[i]).p]

ServedMessages(win, ch, ids) ==
    SelectSeq([i \in DOMAIN ids |-> MessageRecord(win, ch, ids[i])],
              LAMBDA row : row # NoRow)

-----------------------------------------------------------------------------
(* get_channel_difference: the n-th page of the run, or a synthetic final    *)
(* empty one stamped with the newest stamp of the channel.  The messages in  *)
(* a page are served with the stamps of their own records (_nested_match).   *)
DiffPages(win, ch) == SelectSeq(win, LAMBDA row : row.kind = "diff" /\ row.ch = ch)

NewestStamp(win, ch) == Max({0} \cup {row.at : row \in {r \in ToSet(win) : r.ch = ch}})

DiffRow(win, ch, n, pts) ==
    IF n <= Len(DiffPages(win, ch)) THEN DiffPages(win, ch)[n]
    ELSE [kind |-> "diff", at |-> NewestStamp(win, ch), p |-> EmptyDiff(pts)]

Nested(d) == d.new \o [i \in 1..Len(SelectSeq(d.other, LAMBDA u : u.kind = "edit")) |->
                          SelectSeq(d.other, LAMBDA u : u.kind = "edit")[i].m]

\* Mutant: a message in a difference has the stamp of its first record.
NestedMatchFirst(win, ch, m) ==
    LET hits == SelectSeq(win, LAMBDA row : /\ row.ch = ch
                                            /\ Equals(row, MessageKind(m), m))
    IN  IF hits = <<>> THEN NoRow ELSE Head(hits)

NestedMatch(win, ch, m) ==
    Latest(SelectSeq(win, LAMBDA row : /\ row.ch = ch
                                       /\ Equals(row, MessageKind(m), m)))

ServedDiff(win, ch, row) ==
    <<row>> \o SelectSeq([i \in DOMAIN Nested(row.p) |-> NestedMatch(win, ch, Nested(row.p)[i])],
                         LAMBDA r : r # NoRow)

-----------------------------------------------------------------------------
\* Mutant: the receipt for the file answers for every message that carries it.
ReceiptOfFile(win, ch, id) ==
    Latest(SelectSeq(win, LAMBDA row : row.kind = "download" /\ row.p.file = File[id]))

\* media_receipt_key, download_media: the latest receipt for the message.
Receipt(win, ch, id) ==
    Latest(SelectSeq(win, LAMBDA row : row.kind = "download" /\ row.ch = ch /\ row.p.id = id))

\* get_users: the latest answer for the person, or a placeholder.
UserRecord(win, id) ==
    Latest(SelectSeq(win, LAMBDA row : /\ row.kind = "user" /\ row.tgt = "getUsers"
                                       /\ row.p.id = id))

-----------------------------------------------------------------------------
\* Mutant: any page of the filter answers for all of its offsets.
PageRecordLoose(win, v) ==
    Latest(SelectSeq(win, LAMBDA row : /\ row.kind = "roster" /\ row.ch = Group(v)
                                       /\ row.p.filter = Head(v.filters)))

\* get_participants: the latest page of that filter at that offset.
PageRecord(win, v) ==
    Latest(SelectSeq(win, LAMBDA row : /\ row.kind = "roster" /\ row.ch = Group(v)
                                       /\ row.p.filter = Head(v.filters)
                                       /\ row.p.offset = v.offset))

\* get_participant
AnswerRecord(win, v) ==
    Latest(SelectSeq(win, LAMBDA row : /\ row.kind = "answer" /\ row.ch = Group(v)
                                       /\ row.p.id = Head(v.ask)))

\* get_message_reactions_list
ListRecord(win, v) ==
    Latest(SelectSeq(win, LAMBDA row : /\ row.kind = "list" /\ row.ch = Group(v)
                                       /\ row.p.msg = Head(v.ask)
                                       /\ row.p.offset = v.offset))

\* What the participants phase is told at a stage; nothing at one without an RPC.
RosterRecord(win, v) ==
    CASE v.stage = "preflight" -> GetFullChannel(win, Linked[v.ch])
      [] v.stage = "page"      -> PageRecord(win, v)
      [] v.stage = "oracle"    -> AnswerRecord(win, v)
      [] v.stage = "list"      -> ListRecord(win, v)
      [] OTHER                 -> NoRow
=============================================================================
