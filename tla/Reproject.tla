----------------------------- MODULE Reproject -----------------------------
(***************************************************************************)
(* reproject (reproject.py): every run of a raw log is put through the     *)
(* collectors again, run by run and target by target, with the gateway of  *)
(* ReplayGateway in Telegram's place; the output store carries on from run *)
(* to run.  A machine x is one _replay_one in flight: the output store st, *)
(* the clock ck, the channel context ch (0: none) and tier, and how many   *)
(* difference pages the gateway has served.                                *)
(***************************************************************************)
EXTENDS ReplayGateway

CONSTANT PageSize    \* _HISTORY_PAGE_SIZE

Under(x, rows) == [x EXCEPT !.ck = Serve(x.ck, rows)]

\* A SkipAndRecord leaves what the phase has done; its context stays unset.
ReplaySelf(win, x) ==
    LET y == Under(x, <<GetSelf(win)>>)
    IN  [y EXCEPT !.st = LearnSelf(y.st, y.ck, GetSelf(win).p.id)]

\* _resolve_and_record
ReplayResolve(x, row, tgt) ==
    LET y == Under(x, <<row>>)
    IN  [y EXCEPT !.st = AddRaw(y.st, "resolved", "stranger", 0, tgt,
                                Stamp(y.ck, y.st, "resolved", row.p), row.p)]

(* Step B: the channel's ChatFull of the run, if it was recorded.            *)
ReplayFull(win, x, ch) ==
    LET row == GetFullChannel(win, ch)
        y   == Under(x, <<row>>)
    IN  IF row = NoRow THEN x
        ELSE [y EXCEPT !.st = Establish(y.st, y.ck, ch, row.p),
                       !.ch = ch, !.tier = TierOf(row.p)]

(* One recorded attempt: its handle's ResolvedPeer first, then the receipt   *)
(* itself, with its own stamp.                                               *)
ReplayAttempt(win, x, row) ==
    LET peer == Resolve(win, row.p.handle)
        y    == IF row.p.via = "handle" THEN ReplayResolve(x, peer, row.tgt) ELSE x
    IN  [y EXCEPT !.st = AddRaw(y.st, "access", "stranger", row.ch, row.tgt, row.at, row.p)]

(* ChannelCollector.collect: self, then every recorded attempt in order, of   *)
(* which a granted one is the last; a run without receipts predates them and  *)
(* takes the handle's way.  Without a self record the phase is skipped, and   *)
(* so is a handle that leads to no channel.                                   *)
ReplayChannel(win, x, tgt) ==
    LET known    == ReplaySelf(win, x)
        receipts == Receipts(win, tgt)
        tried    == FoldLeft(LAMBDA y, row : ReplayAttempt(win, y, row), known, receipts)
        peer     == Resolve(win, tgt)
    IN  IF GetSelf(win) = NoRow THEN x
        ELSE IF receipts # <<>>
        THEN IF Last(receipts).p.granted
             THEN ReplayFull(win, tried, Last(receipts).ch) ELSE tried
        ELSE IF peer = NoRow THEN known
        ELSE IF peer.p.to = 0 THEN ReplayResolve(known, peer, tgt)
        ELSE ReplayFull(win, ReplayResolve(known, peer, tgt), peer.p.to)

-----------------------------------------------------------------------------
(* HistoryCollector.collect on the run's own records: the sweep goes on until *)
(* they run out.                                                              *)
RECURSIVE ReplaySweep(_, _, _)
ReplaySweep(win, x, sw) ==
    LET rows == HistoryRows(win, x.ch, sw.cursor, PageSize)
        page == Payloads(rows)
        y    == Under(x, rows)
        next == Turned(sw, page)
        z    == [y EXCEPT !.st = SavePage(y.st, y.ck, y.ch, y.tier, sw, page)]
    IN  IF rows = <<>> THEN [x |-> [x EXCEPT !.st = Settle(x.st, TRUE)], sw |-> sw]
        ELSE IF CaughtUp(next) THEN [x |-> [z EXCEPT !.st = Settle(z.st, FALSE)], sw |-> next]
        ELSE ReplaySweep(win, z, next)

ReplayProbe(win, x, sw) ==
    LET ids == Ascending(Candidates(sw))
        y   == Under(x, ServedMessages(win, x.ch, ids))
    IN  [y EXCEPT !.st = RecordEmpties(y.st, y.ck, y.ch, y.tier,
                                       GetMessages(win, y.ch, ids))]

\* catch_up: page after page, the cursor in the gateway moving on.
RECURSIVE ReplayDiff(_, _)
ReplayDiff(win, x) ==
    LET row == DiffRow(win, x.ch, x.diff, x.st.pts)
        y   == Under(x, ServedDiff(win, x.ch, row))
        z   == [y EXCEPT !.st = ApplyDiff(y.st, y.ck, y.ch, y.tier, row.p),
                         !.diff = @ + 1]
    IN  IF row.p.final \/ row.p.toolong \/ row.p.pts <= x.st.pts THEN z
        ELSE ReplayDiff(win, z)

ReplayHistory(win, x) ==
    LET swept == ReplaySweep(win, x, SweepStart(x.st))
    IN  IF x.ch = 0 THEN x ELSE ReplayDiff(win, ReplayProbe(win, swept.x, swept.sw))

\* PostsCollector, for the ids the live run fetched.
ReplayPosts(win, x) ==
    LET ids == Ascending(FetchedPostIds(win))
        y   == Under(x, ServedMessages(win, x.ch, ids))
    IN  IF x.ch = 0 THEN x
        ELSE [y EXCEPT !.st = FetchAll(y.st, y.ck, y.ch, y.tier, GetMessages(win, y.ch, ids))]

(* ParticipantsCollector, with the gate open, --join given and the budgets     *)
(* lifted; a join is granted and writes nothing (RawReplayGateway.join_channel). *)
Unlimited == 100

RECURSIVE ReplayVisit(_, _, _)
ReplayVisit(win, x, v) ==
    LET row  == RosterRecord(win, v)
        y    == IF row = NoRow THEN x ELSE Under(x, <<row>>)
        ok   == row # NoRow \/ v.stage \in {"open", "join", "begin", "enter"}
        next == Step(y.st, y.ck, v, ok, IF row = NoRow THEN row ELSE row.p)
    IN  IF v.stage = "done" THEN x
        ELSE ReplayVisit(win, [y EXCEPT !.st = next.st], next.v)

ReplayRosters(win, x) ==
    IF x.ch = 0 THEN x
    ELSE ReplayVisit(win, x, Visit(x.ch, x.tier, TRUE, TRUE, Unlimited, Unlimited))

\* Mutant: whoever the run has a record of is asked about.
ReplayTriageOfRecords(win, x) ==
    LET ids == Ascending({row.p.id : row \in {u \in ToSet(win) : u.tgt = "getUsers"}})
        y   == Under(x, [i \in DOMAIN ids |-> UserRecord(win, ids[i])])
    IN  IF x.ch = 0 THEN x
        ELSE [y EXCEPT !.st = FoldLeft(LAMBDA s, id : TriageUser(s, y.ck, y.tier, id), y.st, ids)]

(* ProfilesCollector: the people the output has met are asked about; of those *)
(* the run has no record of, a placeholder comes back, which is not written.  *)
ReplayTriage(win, x) ==
    LET ids == Ascending({id \in x.st.peers : UserRecord(win, id) # NoRow})
        y   == Under(x, [i \in DOMAIN ids |-> UserRecord(win, ids[i])])
    IN  IF x.ch = 0 THEN x
        ELSE [y EXCEPT !.st = FoldLeft(LAMBDA s, id : TriageUser(s, y.ck, y.tier, id), y.st, ids)]

\* Mutant: the selection is not recorded again.
ReselectNot(win, x) == x.st

Reselect(win, x) ==
    LET sel == Selection(win)
    IN  IF sel = NoRow THEN x.st
        ELSE AddRaw(x.st, "selection", x.tier, x.ch, "none",
                    Stamp(x.ck, x.st, "selection", sel.p), sel.p)

(* MediaCollector: the selected rows, of which a receipt says the bytes were  *)
(* fetched then; no receipt, that they were not.                              *)
ReplayRow(win, x, id) ==
    LET row == Receipt(win, x.ch, id)
        y   == IF row = NoRow THEN x ELSE Under(x, <<row>>)
    IN  [y EXCEPT !.st = WalkRow(y.st, y.ck, y.ch, y.tier, id, row = NoRow, row # NoRow)]

ReplayMedia(win, x) ==
    LET sel    == Selection(win)
        wanted == IF sel = NoRow THEN DOMAIN x.st.rows ELSE ToSet(sel.p.ids)
        rows   == Ascending(MediaRows(x.st, wanted))
    IN  IF x.ch = 0 THEN x
        ELSE FoldLeft(LAMBDA y, id : ReplayRow(win, y, id),
                      [x EXCEPT !.st = Reselect(win, x)], rows)

ReplayPhase(win, x, tgt, phase) ==
    CASE phase = "channel"  -> ReplayChannel(win, x, tgt)
      [] phase = "history"  -> ReplayHistory(win, x)
      [] phase = "posts"    -> ReplayPosts(win, x)
      [] phase = "participants" -> ReplayRosters(win, x)
      [] phase = "profiles" -> ReplayTriage(win, x)
      [] phase = "media"    -> ReplayMedia(win, x)

-----------------------------------------------------------------------------
\* Mutant: the output store's sweep is left as the previous run left it.
ResetSweepNot(out) == out

(* _reset_incremental_backfill_state: only the high-water marks go on.       *)
ResetSweep(out) ==
    [out EXCEPT !.off = 0, !.sweep.complete = FALSE, !.sweep.resuming = FALSE]

(* _replay_one: one target of a run, through the phases the run shows; a run  *)
(* on a reused context starts with its marker instead of a channel phase.     *)
ReplayOne(win, out, tgt) ==
    LET markers == ContextMarkers(win)
        sel     == Rows(win, "selection")
        ck      == ReplayClock(markers \o sel)
        fresh   == [st |-> out, ck |-> ck, ch |-> 0, tier |-> "stranger", diff |-> 1]
        m       == Last(markers)
        reused  == [fresh EXCEPT !.ch = m.ch, !.tier = m.tier,
                       !.st = AddRaw(out, "reused", m.tier, m.ch, "none",
                                     Stamp(ck, out, "reused", m.p), m.p)]
    IN  FoldLeft(LAMBDA x, phase : ReplayPhase(win, x, tgt, phase),
                 IF tgt = "none" THEN reused ELSE fresh, DetectPhases(win)).st

-----------------------------------------------------------------------------
(* --include-target and --exclude-target.  The channel a target of the run    *)
(* led to, as its last resolution or receipt says; 0 when it led to none, or  *)
(* when its handle was somebody else's (resolve_catalogue).                   *)
ChannelOf(win, tgt) ==
    LET row == Last(SelectSeq(TargetRows(win), LAMBDA r : r.tgt = tgt))
    IN  IF row.kind = "resolved" THEN row.p.to
        ELSE IF row.p.misdirected THEN 0 ELSE row.ch

Replays(filter, ch) == (ch \in filter.ids) = (filter.mode = "include")

\* Mutant: a target without a channel is judged like one of no selected channel.
DecideRunStrict(filter, win) ==
    SelectSeq(ResolveTargets(win), LAMBDA tgt : Replays(filter, ChannelOf(win, tgt)))

(* TargetFilter.decide_run: a target without a channel goes with the channels *)
(* of its run, into both outputs if those are split, and stays where nothing  *)
(* is excluded by name if there are none.                                     *)
DecideRun(filter, win) ==
    LET chans == {ChannelOf(win, t) : t \in ToSet(ResolveTargets(win))} \ {0}
        stray == IF chans = {} THEN filter.mode # "include"
                 ELSE \E ch \in chans : Replays(filter, ch)
    IN  SelectSeq(ResolveTargets(win), LAMBDA tgt :
            IF ChannelOf(win, tgt) = 0 THEN stray ELSE Replays(filter, ChannelOf(win, tgt)))

NoFilter == [mode |-> "exclude", ids |-> {}]

\* The marker decides for a run that has no target of its own.
KeepsMarker(filter, win) ==
    /\ TargetRows(win) = <<>> /\ ContextMarkers(win) # <<>>
    /\ Replays(filter, Last(ContextMarkers(win)).ch)

(* A run is replayed for each of its targets that is kept; one with a context *)
(* marker only, for the marker's channel; one with neither, not at all.       *)
ReplayRun(log, run, out, filter) ==
    LET win     == SubSeq(log, run.lo, run.hi)
        kept    == DecideRun(filter, win)
        stamped == [ResetSweep(out) EXCEPT !.run = run.id]
    IN  IF KeepsMarker(filter, win) THEN ReplayOne(win, stamped, "none")
        ELSE IF kept # <<>>
        THEN FoldLeft(LAMBDA o, tgt : ReplayOne(win, o, tgt), stamped, kept)
        ELSE IF TargetRows(win) = <<>> THEN ResetSweep(out) ELSE out

\* What reproject refuses: an interleaved log, and one that leaves it nothing.
Replayable(log, filter) ==
    /\ Contiguous(log)
    /\ \E run \in ToSet(Runs(log)) :
          LET win == SubSeq(log, run.lo, run.hi)
          IN  KeepsMarker(filter, win) \/ DecideRun(filter, win) # <<>>
=============================================================================
