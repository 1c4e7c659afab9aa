--------------------------- MODULE CollectReplay ---------------------------
(***************************************************************************)
(* A channel collected by several runs and then rebuilt from its raw log.  *)
(* The live part is recipes.collect_channel_with_context phase by phase,   *)
(* one RPC's answer a step, with Telegram changing underneath, floods,     *)
(* kills, and another process that writes to the same profile; the archive *)
(* may begin with runs of earlier releases, whose rows carry no run id and *)
(* whose opening has another order.  Then reproject replays the log, and   *)
(* replays what came out of that again (docs/features/reproject.md).       *)
(***************************************************************************)
EXTENDS Reproject

CONSTANTS
    Plans,      \* bound: [runs, faults, passes], what is run and replayed
    ById,       \* the targets that are ids: [ch, handle], the handle on record
    Leads,      \* Telegram: the channels a target's handle may lead to
    Created,    \* Telegram: the channels the account created
    Self,       \* the collecting account
    Members,    \* Telegram: who is in the plan's one group at first
    Reactors,   \* Telegram: who reacted to a message, in order, by id
    MaxId, DiffLimit, TooLong   \* bounds: messages; updates per page, per gap

VARIABLES
    chat,       \* Telegram: the channel's messages and its updates
    st,         \* the profile's store
    plan, k,    \* the plan, and how many of its runs have started
    pc, w,      \* the phase the process is in, and what it has in hand
    held,       \* fetch-from-list: the context an earlier segment established
    faults,     \* what has happened to the runs so far
    torn, cut,  \* history: a kill between a row and its projection; phases cut short
    r, out,     \* reproject: the run it is at, and its output so far
    outs        \* the outputs of the finished replays

vars == <<chat, st, plan, k, pc, w, held, faults, torn, cut, r, out, outs>>
replay == <<r, out, outs>>

NoContext == [ch |-> 0, tier |-> "none", run |-> 0]
NoRun  == [era |-> "now", tgt |-> "none", phases |-> <<>>, posts |-> {}, sel |-> {},
           young |-> FALSE, join |-> FALSE]
NoWork == [spec |-> NoRun, todo |-> <<>>, ch |-> 0, tier |-> "stranger", script |-> <<>>,
           to |-> 0, sw |-> SweepStart(EmptyStore), ask |-> {},
           visit |-> Visit(0, "none", FALSE, FALSE, 0, 0)]

Newest(S, n) == Reverse(Ascending({x \in S : Cardinality({y \in S : y > x}) < n}))
Message(id)  == [id |-> id, ver |-> chat.ver[id]]
Messages(ids) == [i \in DOMAIN ids |-> Message(ids[i])]

Init ==
    /\ chat = [live |-> 1..3, ver |-> [id \in 1..MaxId |-> 0], log |-> <<>>,
               members |-> Members, joined |-> FALSE]
    /\ st = EmptyStore
    /\ plan \in Plans /\ k = 0 /\ pc = "idle" /\ w = NoWork /\ held = NoContext
    /\ faults = 0 /\ torn = FALSE /\ cut = {}
    /\ r = 0 /\ out = EmptyStore /\ outs = <<>>

-----------------------------------------------------------------------------
\* Telegram: what other people do to the channel while a run is at it.
Telegram(phases, event) ==
    /\ pc \in phases /\ faults < plan.faults
    /\ event
    /\ faults' = faults + 1
    /\ UNCHANGED <<st, plan, k, pc, w, held, torn, cut, replay>>

Updating == {"sweep", "probe", "diff"}

Told(kind, id, ver) == Append(chat.log, [kind |-> kind, m |-> [id |-> id, ver |-> ver]])

Post ==
    LET ids == 4..MaxId \ {chat.log[i].m.id : i \in DOMAIN chat.log}
    IN  /\ ids # {}
        /\ chat' = [chat EXCEPT !.live = @ \cup {Min(ids)}, !.log = Told("new", Min(ids), 0)]

Deleted == {u.m.id : u \in {v \in ToSet(chat.log) : v.kind = "delete"}}

Edit == \E id \in (chat.live \cap {2, 3}) \ Deleted :
    chat' = [chat EXCEPT !.ver[id] = @ + 1, !.log = Told("edit", id, chat.ver[id] + 1)]

Delete == \E id \in chat.live \cap {2} :
    chat' = [chat EXCEPT !.live = @ \ {id}, !.log = Told("delete", id, 0)]

\* A message answered as gone is answered live again.
Restore == \E id \in {2} \ chat.live : chat' = [chat EXCEPT !.live = @ \cup {id}]

Leave == \E id \in chat.members \cap {7} : chat' = [chat EXCEPT !.members = @ \ {id}]

-----------------------------------------------------------------------------
(* The phases of a run, in the recipe's order; s and v are the store and the  *)
(* work the last phase left.  Before media, its selection is recorded.        *)
Wanted(v, s) == IF v.spec.sel = {} THEN DOMAIN s.rows ELSE v.spec.sel

MediaSelection(s, v) ==
    LET p == [ch |-> v.ch, ids |-> Ascending(v.spec.sel)]
    IN  IF v.spec.sel = {} THEN s
        ELSE AddRaw(s, "selection", v.tier, v.ch, "none",
                    Stamp(LiveClock, s, "selection", p), p)

(* A run without a channel context has no work left: every other phase stops  *)
(* at its guard.  A run that ends hands its context to the next segment.      *)
GoOn(s, v) ==
    IF v.ch = 0 \/ v.todo = <<>>
    THEN /\ pc' = "idle" /\ w' = NoWork /\ st' = s
         /\ held' = IF v.ch = 0 THEN held
                    ELSE [ch |-> v.ch, tier |-> v.tier,
                          run |-> IF v.spec.tgt = "none" THEN held.run ELSE s.run]
    ELSE LET phase == Head(v.todo)
             next  == [v EXCEPT !.todo = Tail(@)]
         IN  /\ pc' = IF phase = "history" THEN "sweep" ELSE phase
             /\ st' = IF phase = "media" THEN MediaSelection(s, v) ELSE s
             /\ w' = CASE phase = "history"  -> [next EXCEPT !.sw = SweepStart(s)]
                       [] phase = "posts"    -> [next EXCEPT !.ask = v.spec.posts]
                       [] phase = "participants" -> [next EXCEPT !.visit =
                              Visit(v.ch, v.tier, ~v.spec.young, v.spec.join, OracleBudget, ListBudget)]
                       [] phase = "profiles" -> [next EXCEPT !.ask = s.peers]
                       [] phase = "media"    -> [next EXCEPT !.ask = MediaRows(s, Wanted(v, s))]
             /\ UNCHANGED held

(* begin_run.  A release before run ids stamped nothing, and wrote self before *)
(* or after the rest of its opening.                                          *)
StartRun ==
    /\ pc = "idle" /\ k < Len(plan.runs) /\ plan.runs[k + 1].tgt # "none"
    /\ LET spec == plan.runs[k + 1]
       IN  /\ st' = [st EXCEPT !.run = IF spec.era = "now" THEN k + 1 ELSE 0, !.pass = k + 1]
           /\ pc' = IF spec.era = "now" THEN "self" ELSE "legacy"
           /\ w' = [NoWork EXCEPT !.spec = spec, !.todo = spec.phases,
                       !.script = IF spec.era = "selfFirst" THEN <<"self", "resolved", "full">>
                                  ELSE <<"resolved", "full", "self">>]
    /\ k' = k + 1
    /\ UNCHANGED <<chat, plan, held, faults, torn, cut, replay>>

\* A segment on an established context: a marker takes the channel phase's place.
StartReused ==
    /\ pc = "idle" /\ k < Len(plan.runs) /\ plan.runs[k + 1].tgt = "none"
    /\ IF held = NoContext THEN UNCHANGED <<st, pc, w, held>>
       ELSE LET s == [st EXCEPT !.run = k + 1, !.pass = k + 1]
                p == [ch |-> held.ch, run |-> held.run]
            IN  GoOn(AddRaw(s, "reused", held.tier, held.ch, "none",
                            Stamp(LiveClock, s, "reused", p), p),
                     [NoWork EXCEPT !.spec = plan.runs[k + 1], !.ch = held.ch,
                                    !.tier = held.tier, !.todo = plan.runs[k + 1].phases])
    /\ k' = k + 1
    /\ UNCHANGED <<chat, plan, faults, torn, cut, replay>>

-----------------------------------------------------------------------------
(* ChannelCollector: who is collecting; then the routes to the channel.       *)
tgt  == w.spec.tgt
byId == tgt \in DOMAIN ById
Handle == IF byId THEN ById[tgt].handle ELSE tgt

\* getFullChannel
FullOf(ch) ==
    [pts |-> Len(chat.log), creator |-> ch \in Created, left |-> ~chat.joined,
     total |-> Cardinality(chat.members) + (IF chat.joined THEN 1 ELSE 0)]
Current == FullOf(w.to)

\* input_channel_refs and stored_channel_username, of a channel seen before.
Routes == IF ~byId THEN <<"handle">>
          ELSE IF ById[tgt].ch \in st.chans THEN <<"saved_key", "handle">> ELSE <<>>

LearnAccount ==
    /\ pc = "self"
    /\ LET s == LearnSelf(st, LiveClock, Self)
       IN  IF Routes = <<>> THEN GoOn(s, w)
           ELSE st' = s /\ pc' = "route" /\ w' = [w EXCEPT !.script = Routes] /\ UNCHANGED held
    /\ UNCHANGED <<chat, plan, k, faults, torn, cut, replay>>

ResolvedPeer(to) ==
    LET p == [to |-> to, handle |-> IF byId THEN Handle ELSE "none"]
    IN  AddRaw(st, "resolved", "stranger", 0, tgt, Stamp(LiveClock, st, "resolved", p), p)

\* The next route: a saved key names the channel, a handle is resolved.
TakeRoute ==
    /\ pc = "route"
    /\ IF Head(w.script) = "saved_key"
       THEN pc' = "ask" /\ w' = [w EXCEPT !.to = ById[tgt].ch] /\ UNCHANGED <<st, held>>
       ELSE \E to \in Leads[tgt] :
               IF to = 0 THEN GoOn(ResolvedPeer(to), w)
               ELSE st' = ResolvedPeer(to) /\ pc' = "ask" /\ w' = [w EXCEPT !.to = to]
                    /\ UNCHANGED held
    /\ UNCHANGED <<chat, plan, k, faults, torn, cut, replay>>

Misdirected == byId /\ w.to # ById[tgt].ch

WriteReceipt(granted, error) ==
    LET p == [via |-> Head(w.script), handle |-> Handle, granted |-> granted,
              error |-> error, misdirected |-> Misdirected]
    IN  AddRaw(st, "access", "stranger", IF byId THEN ById[tgt].ch ELSE w.to, tgt,
               Stamp(LiveClock, st, "access", p), p)

(* getFullChannel's answer is in the receipt, which is written first.  Another *)
(* channel's handle ends it; a rejected route is followed by the next.         *)
Granted ==
    /\ pc = "ask" /\ ~Misdirected
    /\ st' = WriteReceipt(TRUE, FALSE) /\ pc' = "full"
    /\ UNCHANGED <<chat, plan, k, w, held, faults, torn, cut, replay>>

Refused ==
    /\ pc = "ask" /\ (Misdirected \/ faults < plan.faults)
    /\ IF ~Misdirected /\ Len(w.script) > 1
       THEN /\ st' = WriteReceipt(FALSE, TRUE) /\ pc' = "route"
            /\ w' = [w EXCEPT !.script = Tail(@)] /\ UNCHANGED held
       ELSE GoOn(WriteReceipt(FALSE, ~Misdirected), w)
    /\ faults' = IF Misdirected THEN faults ELSE faults + 1
    /\ UNCHANGED <<chat, plan, k, torn, cut, replay>>

Enter ==
    /\ pc = "full"
    /\ GoOn(Establish(st, LiveClock, w.to, Current),
            [w EXCEPT !.ch = w.to, !.tier = TierOf(Current)])
    /\ UNCHANGED <<chat, plan, k, faults, torn, cut, replay>>

\* The opening of a release before receipts, in its order.
LegacyOpening ==
    /\ pc = "legacy"
    /\ LET role == Head(w.script)
           to   == CHOOSE c \in Leads[tgt] : TRUE
           full == FullOf(to)
           s    == CASE role = "self"     -> LearnSelf(st, LiveClock, Self)
                     [] role = "resolved" -> ResolvedPeer(to)
                     [] role = "full"     -> Establish(st, LiveClock, to, full)
           v    == IF role = "full" THEN [w EXCEPT !.ch = to, !.tier = TierOf(full)] ELSE w
       IN  IF Len(w.script) = 1 THEN GoOn(s, v)
           ELSE st' = s /\ w' = [v EXCEPT !.script = Tail(@)] /\ UNCHANGED <<pc, held>>
    /\ UNCHANGED <<chat, plan, k, faults, torn, cut, replay>>

-----------------------------------------------------------------------------
page == Messages(Newest({id \in chat.live : w.sw.cursor # 0 => id < w.sw.cursor}, PageSize))

SweepPage ==
    /\ pc = "sweep"
    /\ LET next == Turned(w.sw, page)
           s    == SavePage(st, LiveClock, w.ch, w.tier, w.sw, page)
       IN  IF page = <<>>
           THEN st' = Settle(st, TRUE) /\ pc' = "probe" /\ UNCHANGED w
           ELSE /\ w' = [w EXCEPT !.sw = next]
                /\ IF CaughtUp(next) THEN st' = Settle(s, FALSE) /\ pc' = "probe"
                   ELSE st' = s /\ UNCHANGED pc
    /\ UNCHANGED <<chat, plan, k, held, faults, torn, cut, replay>>

Answer(ids) == [i \in DOMAIN ids |-> IF ids[i] \in chat.live THEN Message(ids[i])
                                     ELSE [id |-> ids[i], ver |-> Empty]]

Probe ==
    /\ pc = "probe"
    /\ st' = RecordEmpties(st, LiveClock, w.ch, w.tier,
                           Answer(Ascending(Candidates(w.sw))))
    /\ pc' = "diff"
    /\ UNCHANGED <<chat, plan, k, w, held, faults, torn, cut, replay>>

(* getChannelDifference: everything in one recovery payload, or a page.       *)
difference ==
    LET gap == Len(chat.log) - st.pts
        to  == Min({Len(chat.log), st.pts + DiffLimit})
        ups == SubSeq(chat.log, st.pts + 1, to)
        news == SelectSeq(ups, LAMBDA u : u.kind = "new")
    IN  IF gap = 0 THEN EmptyDiff(st.pts)
        ELSE IF gap > TooLong
        THEN [new |-> Messages(Newest(chat.live, 1)), other |-> <<>>,
              pts |-> Len(chat.log), final |-> TRUE, toolong |-> TRUE]
        ELSE [new |-> [i \in DOMAIN news |-> news[i].m],
              other |-> SelectSeq(ups, LAMBDA u : u.kind # "new"),
              pts |-> to, final |-> to = Len(chat.log), toolong |-> FALSE]

DiffPage ==
    /\ pc = "diff"
    /\ LET s == ApplyDiff(st, LiveClock, w.ch, w.tier, difference)
       IN  IF difference.final THEN GoOn(s, w)
           ELSE st' = s /\ UNCHANGED <<pc, w, held>>
    /\ UNCHANGED <<chat, plan, k, faults, torn, cut, replay>>

Posts ==
    /\ pc = "posts"
    /\ GoOn(FetchAll(st, LiveClock, w.ch, w.tier, Answer(Ascending(w.ask))), w)
    /\ UNCHANGED <<chat, plan, k, faults, torn, cut, replay>>

\* getUsers about everybody the store has met, wherever that was (_gather).
TriageAll(ids) == FoldLeft(LAMBDA s, id : TriageUser(s, LiveClock, w.tier, id), st, ids)

Triage ==
    /\ pc = "profiles"
    /\ GoOn(TriageAll(Ascending(w.ask)), w)
    /\ UNCHANGED <<chat, plan, k, faults, torn, cut, replay>>

(* Who is shown: everybody to a member, and fewer to anybody else.  One        *)
(* administrator is shown again under a filter of his own.                     *)
shown ==
    LET all == Ascending(chat.members) \o (IF chat.joined THEN <<Self>> ELSE <<>>)
    IN  IF chat.joined \/ all = <<>> THEN all ELSE Front(all)

RosterAnswer ==
    LET v    == w.visit
        kind == Head(v.filters)
        some == CASE kind = "recent" -> shown
                  [] kind = "admins" -> SubSeq(shown, 1, 1)
                  [] kind = "bots"   -> <<>>
        all  == FullOf(0).total
        list == Reactors[Head(v.ask)]
    IN  CASE v.stage = "preflight" -> FullOf(Linked[v.ch])
          [] v.stage = "page" ->
                [filter |-> kind, offset |-> v.offset,
                 ids |-> SubSeq(some, v.offset + 1, Min({v.offset + RosterPage, Len(some)})),
                 count |-> IF kind = "recent" THEN all ELSE Len(some)]
          [] v.stage = "oracle" ->
                [id |-> Head(v.ask),
                 status |-> IF Head(v.ask) \in chat.members THEN "member" ELSE "left"]
          [] v.stage = "list" ->
                [msg |-> Head(v.ask), offset |-> v.offset, who |-> list[v.offset + 1],
                 next |-> IF v.offset + 1 = Len(list) THEN 0 ELSE v.offset + 1]
          [] OTHER -> <<>>

RosterStep ==
    /\ pc = "participants" /\ w.visit.stage # "done"
    /\ LET next == Step(st, LiveClock, w.visit, TRUE, RosterAnswer)
       IN  st' = next.st /\ w' = [w EXCEPT !.visit = next.v]
    /\ chat' = IF w.visit.stage \in {"join", "enter"} THEN [chat EXCEPT !.joined = TRUE] ELSE chat
    /\ UNCHANGED <<plan, k, pc, held, faults, torn, cut, replay>>

\* An RPC of the phase is refused (SkipAndRecord).
RosterRefused ==
    /\ pc = "participants" /\ w.visit.stage \notin {"open", "begin", "done"}
    /\ faults < plan.faults /\ faults' = faults + 1
    /\ LET next == Step(st, LiveClock, w.visit, FALSE, RosterAnswer)
       IN  st' = next.st /\ w' = [w EXCEPT !.visit = next.v]
    /\ UNCHANGED <<chat, plan, k, pc, held, torn, cut, replay>>

RostersDone ==
    /\ pc = "participants" /\ w.visit.stage = "done"
    /\ GoOn(st, w)
    /\ UNCHANGED <<chat, plan, k, faults, torn, cut, replay>>

\* The next message row; a post that is gone has no bytes any more.
MediaRow ==
    /\ pc = "media" /\ w.ask # {}
    /\ LET id == Min(w.ask)
       IN  /\ st' = WalkRow(st, LiveClock, w.ch, w.tier, id, TRUE, id \in chat.live)
           /\ w' = [w EXCEPT !.ask = @ \ {id}]
    /\ UNCHANGED <<chat, plan, k, pc, held, faults, torn, cut, replay>>

MediaDone ==
    /\ pc = "media" /\ w.ask = {}
    /\ GoOn(st, w)
    /\ UNCHANGED <<chat, plan, k, faults, torn, cut, replay>>

-----------------------------------------------------------------------------
Mishap == faults < plan.faults /\ faults' = faults + 1

Body == Updating \cup {"posts", "participants", "profiles", "media"}

(* A flood stops the phase and the next one begins; the channel phase's stop   *)
(* leaves a granted receipt and no context, the posts phase's takes it back.   *)
Flood ==
    /\ pc \in Body \cup {"ask"} /\ Mishap
    /\ IF pc = "ask" THEN ~Misdirected /\ GoOn(WriteReceipt(TRUE, FALSE), w)
       ELSE GoOn(st, IF pc = "posts" THEN [w EXCEPT !.ch = 0] ELSE w)
    /\ cut' = cut \cup {<<st.pass, pc>>}
    /\ UNCHANGED <<chat, plan, k, torn, replay>>

Stop == pc' = "idle" /\ w' = NoWork /\ UNCHANGED held

Kill ==
    /\ pc \notin {"idle", "replay"} /\ Mishap
    /\ Stop /\ cut' = cut \cup {<<st.pass, pc>>}
    /\ UNCHANGED <<chat, st, plan, k, torn, replay>>

(* A handler writes the rows of an answer and what they project to one after  *)
(* the other, each in a commit of its own.  What Handled leaves if it is not   *)
(* killed, and what the first n items of an answer leave.                      *)
Handled ==
    CASE pc = "self"         -> LearnSelf(st, LiveClock, Self)
      [] pc = "full"         -> Establish(st, LiveClock, w.to, Current)
      [] pc = "sweep"        -> ObserveAll(st, LiveClock, w.ch, w.tier, "none", page)
      [] pc = "diff"         -> ApplyDiff(st, LiveClock, w.ch, w.tier, difference)
      [] pc = "participants" -> Step(st, LiveClock, w.visit, TRUE, RosterAnswer).st

Begun(n) ==
    CASE pc = "sweep"    -> ObserveAll(st, LiveClock, w.ch, w.tier, "none", SubSeq(page, 1, n))
      [] pc = "profiles" -> TriageAll(SubSeq(Ascending(w.ask), 1, n))

\* Between two messages of a page, or two people of a triage; n are done.
KillBetween ==
    /\ pc \in {"sweep", "profiles"} /\ Mishap
    /\ \E n \in 1..(IF pc = "sweep" THEN Len(page) ELSE Cardinality(w.ask) - 1) : st' = Begun(n)
    /\ Stop /\ cut' = cut \cup {<<st.pass, pc>>}
    /\ UNCHANGED <<chat, plan, k, torn, replay>>

\* The store with the first row that s adds to the log, and nothing it projects to.
LoggedOnly(s) == [st EXCEPT !.raw = SubSeq(s.raw, 1, Len(@) + 1)]

\* After a row of the log, and before what it projects to.
KillTorn ==
    /\ pc \in {"self", "full", "sweep", "diff", "participants"} /\ Mishap
    /\ pc = "participants" => w.visit.stage # "done"
    /\ Len(Handled.raw) > Len(st.raw) /\ st' = LoggedOnly(Handled)
    /\ Stop /\ torn' = TRUE /\ cut' = cut \cup {<<st.pass, pc>>}
    /\ UNCHANGED <<chat, plan, k, replay>>

\* Between two members of a roster page; n are written.
KillAmongMembers ==
    /\ pc = "participants" /\ w.visit.stage = "page" /\ Mishap
    /\ LET ids == RosterAnswer.ids
       IN  \E n \in 0..(Len(ids) - 1) :
              st' = WriteMembers(LoggedOnly(Handled), Group(w.visit), ToSet(ids),
                                 SubSeq(ids, 1, n), Len(st.raw) + 1)
    /\ Stop /\ torn' = TRUE /\ cut' = cut \cup {<<st.pass, pc>>}
    /\ UNCHANGED <<chat, plan, k, replay>>

\* A custody row whose receipt was not written any more.
KillUnreceipted ==
    /\ pc = "media" /\ w.ask # {} /\ Mishap
    /\ LET id == Min(w.ask)
       IN  /\ File[id] \notin st.files /\ id \in chat.live
           /\ st' = [Custody(st, id, Len(st.raw) + 1) EXCEPT !.files = @ \cup {File[id]}]
    /\ Stop /\ torn' = TRUE /\ cut' = cut \cup {<<st.pass, pc>>}
    /\ UNCHANGED <<chat, plan, k, replay>>

\* Another process writes to the same profile: it has resolved some name.
Intrude(name) ==
    /\ pc \in Body \cup {"legacy"} /\ Mishap
    /\ LET p == [to |-> CHOOSE c \in Leads[name] : TRUE, handle |-> "none"]
           s == [st EXCEPT !.pass = 0, !.run = IF st.run = 0 THEN 0 ELSE 100]
       IN  st' = [AddRaw(s, "resolved", "stranger", 0, name,
                         Stamp(LiveClock, st, "resolved", p), p)
                     EXCEPT !.run = st.run, !.pass = st.pass]
    /\ cut' = IF pc = "legacy" THEN cut \cup {<<st.pass, pc>>} ELSE cut
    /\ UNCHANGED <<chat, plan, k, pc, w, held, torn, replay>>

-----------------------------------------------------------------------------
(* reproject, pass after pass: the log of the live store, all of it or what a *)
(* filter selects, or the log of the first output.                            *)
Passes == [full    |-> NoFilter, again |-> NoFilter,
           include |-> [mode |-> "include", ids |-> {2}],
           exclude |-> [mode |-> "exclude", ids |-> {2}]]

pass == plan.passes[Len(outs) + 1]
Source == IF pass = "again" THEN outs[1].raw ELSE st.raw

\* A source with nothing for the filter to replay has no output (an empty one here).
StartReproject ==
    /\ pc = "idle" /\ k = Len(plan.runs) /\ Len(outs) < Len(plan.passes)
    /\ r' = 1 /\ out' = EmptyStore
    /\ IF Replayable(Source, Passes[pass]) THEN pc' = "replay" /\ UNCHANGED outs
       ELSE IF Passes[pass] = NoFilter THEN pc' = "refused" /\ UNCHANGED outs
       ELSE outs' = Append(outs, EmptyStore) /\ UNCHANGED pc
    /\ UNCHANGED <<chat, st, plan, k, w, held, faults, torn, cut>>

ReplayNext ==
    /\ pc = "replay" /\ r <= Len(Runs(Source))
    /\ out' = ReplayRun(Source, Runs(Source)[r], out, Passes[pass])
    /\ r' = r + 1
    /\ UNCHANGED <<chat, st, plan, k, pc, w, held, faults, torn, cut, outs>>

Replayed ==
    /\ pc = "replay" /\ r > Len(Runs(Source))
    /\ outs' = Append(outs, out) /\ out' = EmptyStore /\ r' = 0 /\ pc' = "idle"
    /\ UNCHANGED <<chat, st, plan, k, w, held, faults, torn, cut>>

-----------------------------------------------------------------------------
Next ==
    \/ Telegram(Updating, Post) \/ Telegram(Updating, Edit) \/ Telegram(Updating, Delete)
    \/ Telegram(Updating, Restore) \/ Telegram({"participants"}, Leave)
    \/ StartRun \/ StartReused \/ LearnAccount \/ TakeRoute \/ Granted \/ Refused
    \/ Enter \/ LegacyOpening \/ SweepPage \/ Probe \/ DiffPage \/ Posts \/ Triage
    \/ RosterStep \/ RosterRefused \/ RostersDone \/ MediaRow \/ MediaDone
    \/ Flood \/ Kill \/ KillBetween \/ KillTorn \/ KillAmongMembers \/ KillUnreceipted
    \/ \E name \in plan.intruders : Intrude(name)
    \/ StartReproject \/ ReplayNext \/ Replayed

Spec == Init /\ [][Next]_vars

-----------------------------------------------------------------------------
(* What the properties speak of: the first output; how many there are;       *)
(* whether no legacy opening was interrupted, after which a pass cannot be   *)
(* told from the next; and the phases that were cut short.                   *)
First == outs[1]
Done(n) == Len(outs) >= n
Whole == \A c \in cut : c[2] # "legacy"
CutIn(phase) == \E c \in cut : c[2] = phase

\* Ids of which one run recorded a row a and later a row b.
TwiceIn(related(_, _)) ==
    LET told        == {i \in DOMAIN st.raw : IsMessage(st.raw[i])}
        again(i, j) == /\ i < j /\ st.raw[i].run = st.raw[j].run
                       /\ st.raw[i].p.id = st.raw[j].p.id /\ st.raw[j].kind = "message"
                       /\ related(st.raw[i], st.raw[j])
    IN  {st.raw[i].p.id : i \in {a \in told : \E b \in told : again(a, b)}}

\* Delivered twice with the same payload by one run: its first stamp is lost (README 6).
Repeats == TwiceIn(LAMBDA a, b : a.p = b.p)
\* Gone and live again within one run: the tombstone is lost (README 6).
Outrun  == TwiceIn(LAMBDA a, b : a.kind = "empty")

(* The runs that a replay cuts the log into are the collect passes that wrote *)
(* it: two rows have the same label exactly when one pass wrote them, whether *)
(* the pass stamped its rows or left them to the opening clusters, in either  *)
(* order of the opening, and whatever another process wrote in between        *)
(* (ReplaySource.runs).  An opening that was cut short is the exception.      *)
SegmentsArePasses ==
    LET label == Labels(st.raw)
        ours  == {i \in DOMAIN st.raw : st.raw[i].pass # 0}
    IN  Whole /\ pc \notin {"legacy", "replay"} => \A i, j \in ours :
            i < j => (label[i] = label[j]) = (st.raw[i].pass = st.raw[j].pass)

(* What a store says without its stamps: messages, revisions, tombstones, the *)
(* channel access that was tried, whom a triage was told about, the channels  *)
(* and the pts.                                                               *)
ContentOf(s) ==
    LET kept == 1..MaxId \ Outrun IN
    [rows  |-> {<<id, s.rows[id].ver, s.rows[id].deleted # 0 /\ id \in kept>> :
                  id \in DOMAIN s.rows},
     revs  |-> {<<s.revs[i].id, s.revs[i].content>> : i \in DOMAIN s.revs},
     tombs |-> {<<t.id, t.ev>> : t \in {u \in s.tombs : u.ev = "update" \/ u.id \in kept}},
     tries |-> {[row EXCEPT !.run = 0, !.pass = 0] :
                  row \in {x \in ToSet(s.raw) : x.kind = "access" \/ x.tgt = "getUsers"}},
     chans |-> s.chans, pts |-> s.pts]

\* What it says of these messages, with every observation's stamp.
StampsOf(s, ids) ==
    [rows  |-> [id \in DOMAIN s.rows \cap ids |-> s.rows[id]],
     revs  |-> {x \in ToSet(s.revs) : x.id \in ids},
     mets  |-> {x \in s.mets : x.id \in ids},
     tombs |-> {x \in s.tombs : x.id \in ids}]

(* A message that one run was given twice is replayed as it was last seen: no *)
(* observation that was not made, the last one of each version kept, and the  *)
(* row as it was but for the time it was first seen.                          *)
AsLastSeen(id) ==
    /\ \A x \in First.mets : x.id = id => x \in st.mets
    /\ \A x \in st.mets : x.id = id =>
          \E y \in First.mets : y.id = id /\ y.ver = x.ver /\ y.at >= x.at
    /\ First.rows[id] = [st.rows[id] EXCEPT !.first = First.rows[id].first]
    /\ First.rows[id].first >= st.rows[id].first

(* A reproject of the log gives back what the live runs projected from it,    *)
(* however they were flooded, refused or killed: the same content, receipts,  *)
(* channels and pts, and the same stamps on every row, revision, metric and   *)
(* tombstone (docs/features/reproject.md:637-650).  A message that one run    *)
(* was given twice loses the earlier stamp only: the clock keeps one stamp    *)
(* for a payload, that of its last record (clock.py:76-78).  A kill between a *)
(* row of the log and its projection is the exception: the replay makes up    *)
(* for it.                                                                    *)
RoundTrips == Done(1) /\ ~torn /\ Whole =>
    LET kept == 1..MaxId \ Outrun
        once == kept \ Repeats
    IN  /\ ContentOf(First) = ContentOf(st)
        /\ StampsOf(First, once) = StampsOf(st, once)
        /\ \A id \in kept \ once : AsLastSeen(id)

\* A media walk that left no trace in the log: neither a selection nor a receipt.
Quiet(n) == /\ \E i \in DOMAIN plan.runs[n].phases : plan.runs[n].phases[i] = "media"
            /\ ~\E row \in ToSet(st.raw) : row.pass = n /\ row.kind \in {"download", "selection"}

(* The custody a replay derives is the live runs' own.  It claims none a run  *)
(* did not have, unless a walk was cut short and its end left no trace, and   *)
(* it loses none but what a walk without any trace got by dedup alone: never  *)
(* one that has a receipt (replay.download_media, MediaCollector.collect).    *)
CustodyRoundTrips == Done(1) /\ ~torn /\ Whole =>
    LET once  == 1..MaxId \ Repeats
        of(s) == {c \in s.custody : c.id \in once}
    IN  /\ CutIn("media") \/ of(First) \subseteq of(st)
        /\ \A c \in of(st) \ of(First) :
              /\ \E n \in 1..k : Quiet(n)
              /\ ~\E row \in ToSet(st.raw) : row.kind = "download" /\ row.p.id = c.id /\ row.at = c.at
        /\ First.files = st.files

(* A replay serves as the account whoever really collected, although a triage *)
(* records strangers under the same kind of row; the one exception is a       *)
(* triage under the tier of a channel's creator.  A replay knows the account  *)
(* of a run that was killed before it had stored it (replay.get_self;         *)
(* README 6).                                                                 *)
SelfRoundTrips == Done(1) /\ Whole =>
    \/ First.self \in {st.self, Self}
    \/ \E row \in ToSet(st.raw) : row.tgt = "getUsers" /\ row.tier = "self"

RostersOf(s) == [parts |-> s.parts, snaps |-> s.snaps, sighted |-> s.sighted]

\* The linked group of a run that asked it nothing: refused by the gate, or not joined.
Unasked(x) ==
    /\ x.reason = "refused" /\ x.enumerated = 0
    /\ \E row \in ToSet(st.raw) :
          /\ row.kind = "full" /\ row.at = x.at /\ Linked[row.ch] = x.g
          /\ ~\E own \in ToSet(st.raw) :
                own.pass = row.pass /\ own.kind = "full" /\ own.ch = x.g

(* The participants phase survives its replay, gate, joins, budgets, walls,   *)
(* refusals and members leaving between the pages included: the same members  *)
(* with the same windows, the same observations and sightings, and every      *)
(* accounting row.  The replay adds a wall only where the live run asked      *)
(* nothing or was cut short (replay.get_participants, collectors/             *)
(* participants.py; README 6).                                                *)
RosterRoundTrips == Done(1) /\ ~torn /\ Whole =>
    /\ RostersOf(First) = RostersOf(st)
    /\ st.rosters \subseteq First.rosters
    /\ CutIn("participants") \/ \A x \in First.rosters \ st.rosters : Unasked(x)

Lists(id) == SelectSeq(st.raw, LAMBDA row : row.kind = "list" /\ row.p.msg = id)

\* The last row that a pass wrote before it was killed over its rosters.
LastWords(i) ==
    /\ <<st.raw[i].pass, "participants">> \in cut
    /\ \A j \in DOMAIN st.raw : j > i => st.raw[j].pass # st.raw[i].pass

(* The oracle and the reaction lists go on where earlier runs stopped, over   *)
(* budgets, refusals, floods and kills.  Nobody is asked about twice, unless  *)
(* the earlier answer reached the log and its pass was killed before the      *)
(* participant was written.  The recorded pages of a message's list are one   *)
(* chain from its first page on, without a gap or a repeat, so a page is      *)
(* never read again; and whoever one shows was sighted, unless the pass was   *)
(* killed right after the page: those reactors no later run will find         *)
(* (participants._oracle, _reactions, reaction_resume_offsets).               *)
RosterConverges ==
    /\ \A i, j \in DOMAIN st.raw :
          i < j /\ st.raw[i].kind = "answer" /\ st.raw[j].kind = "answer"
              /\ st.raw[i].ch = st.raw[j].ch /\ st.raw[i].p.id = st.raw[j].p.id => LastWords(i)
    /\ \A i \in DOMAIN st.raw : st.raw[i].kind = "list" =>
          <<st.raw[i].ch, st.raw[i].p.who>> \in st.sighted \/ LastWords(i)
    /\ \A id \in Reacted : \A i \in DOMAIN Lists(id) :
          Lists(id)[i].p.offset = IF i = 1 THEN 0 ELSE Lists(id)[i - 1].p.next

RawSet(s) == {[row EXCEPT !.pass = 0] : row \in ToSet(s.raw)}

Again == Done(2) /\ plan.passes[2] = "again"

(* Reproject is a fixed point: its output's raw log, replayed again, gives    *)
(* the same store, the rebuilt log itself included.  So nothing a replay      *)
(* needs is left out of what it writes (reproject.py, _replay_one).           *)
ReplayIsRepeatable == Again /\ ~torn =>
    /\ StampsOf(outs[2], 1..MaxId) = StampsOf(First, 1..MaxId)
    /\ ContentOf(outs[2]) = ContentOf(First)
    /\ outs[2].custody = First.custody /\ outs[2].self = First.self
    /\ RostersOf(outs[2]) = RostersOf(First) /\ outs[2].rosters = First.rosters
    /\ RawSet(outs[2]) = RawSet(First)

\* The channels of the run whose rows have this label.
ChannelsOf(run) ==
    LET runs == {x \in ToSet(Runs(st.raw)) : x.id = run}
    IN  UNION {{ChannelOf(SubSeq(st.raw, x.lo, x.hi), name) :
                    name \in ToSet(ResolveTargets(SubSeq(st.raw, x.lo, x.hi)))} : x \in runs} \ {0}

(* A person told of in a run whom the output s, though it replays that run,   *)
(* had not met by the end of it.                                              *)
Unmet(s, row) ==
    \A i, j \in DOMAIN s.raw :
        /\ s.raw[i].kind = "message" /\ Author[s.raw[i].p.id] = row.p.id
        /\ s.raw[j].run = row.run
        => j < i

(* --include-target and --exclude-target of one channel split an archive:     *)
(* every row lands in at least one output, but what a triage was told about   *)
(* people whom no output that replays its run had met (issue #81); the        *)
(* included output holds only runs that touch the channel and the other no    *)
(* run that touches it alone; a row is in both only if its run touches        *)
(* several; and each output knows just the channels it should, and is told    *)
(* only of people it has met (TargetFilter.decide_run,                        *)
(* ProfilesCollector._gather).                                                *)
FilterIsExact == Done(3) =>
    LET inc == RawSet(outs[2])
        exc == RawSet(outs[3])
    IN  /\ inc \cup exc \subseteq RawSet(First)
        /\ \A row \in RawSet(First) \ (inc \cup exc) :
              row.tgt = "getUsers" /\ Unmet(outs[2], row) /\ Unmet(outs[3], row)
        /\ \A row \in inc : 2 \in ChannelsOf(row.run)
        /\ \A row \in exc : ChannelsOf(row.run) # {2}
        /\ \A row \in inc \cap exc : Cardinality(ChannelsOf(row.run)) > 1
        /\ outs[2].chans = First.chans \cap {2} /\ outs[3].chans = First.chans \ {2}
        /\ \A n \in {2, 3} : \A row \in ToSet(outs[n].raw) :
              row.tgt = "getUsers" => row.p.id \in outs[n].peers

\* What the next incremental sweep would pass by.
Missed(s) ==
    {id \in chat.live \ Deleted : /\ s.sweep.complete /\ ~s.sweep.resuming
                                 /\ id <= s.sweep.high /\ id \notin DOMAIN s.rows}

(* A sweep that was cut short: the next one that ends goes on where it stopped, *)
(* and only the one after that begins at the newest message again.              *)
SweepLeftCut ==
    \E c \in cut : /\ c[2] = "sweep"
                   /\ Cardinality({n \in 1..k : n > c[1] /\ \E row \in ToSet(st.raw) :
                                       row.pass = n /\ row.kind = "diff"}) < 2

(* No message is passed by for good: neither the live store nor, after the    *)
(* documented swap of the profile's store for a reprojected one, the next     *)
(* incremental sweep skips an id below the high-water mark whose message is   *)
(* there and was never stored.  The swap is the promise the code breaks for a *)
(* sweep that was cut short, until a later one has begun at the top again, and *)
(* for a gap too long to be told (README 6).                                   *)
SwapIsSafe ==
    /\ Missed(st) = {}
    /\ Done(1) /\ ~torn /\ Whole /\ Missed(First) # {} =>
          \/ SweepLeftCut
          \/ \E row \in ToSet(st.raw) : row.kind = "diff" /\ row.p.toolong
=============================================================================
