# Paperboy: specifications, model checking and proofs

Paperboy (`src/src/paperboy`) collects public Telegram channels into a SQLite
database: it walks a channel's history, follows edits and deletions through
Telegram's pts cursor, downloads media into a local directory or a shared
bucket, and triages and enriches the people it meets. Every statement the store
executes is committed on its own (`store/db.py:9-16`, `isolation_level=None`),
a run may be killed between any two of them, floods may stop a phase at any
RPC, and Telegram changes while it is being read. The program's promise is that
re-running always continues: nothing is lost, nothing is claimed that was not
seen. These modules model the parts of the program that this promise rests on.

The modules are checked with TLC and their main theorems with TLAPS. The
remaining text says what is in the system, which module models which part, what
each run and each proof shows, and what is left out.

    tlc -workers 2 -config MCHistorySweep.cfg MCHistorySweep
    tlapm HistorySweepProofs.tla

## 1. The system

One process runs one `collect`: `cli.py` builds settings, `app.py` wires a
gateway and a store, `recipes.py` runs the phases in order. All RPCs pass
through one `Budget`. There are no threads; concurrency is Telegram's (posts,
edits, deletions, other writers to a shared bucket), and the hard behaviours
are interruptions between autocommitted statements, resumption by a later run
and state read early and used late.

| component | state it keeps | operations | talks to |
|---|---|---|---|
| run loop (`recipes.py`) | run id, the channel context, results | phases in order; skip / phase stop continue, hard stop breaks; context marker and media selection | every collector, `run_events`, raw log |
| RPC budget (`budget.py`) | attempt count, last call per method (memory); `flood_log` (SQLite) | cap, pace, call, flood wait, transient back-off | gateway, `errors.classify` |
| channel access (`collectors/channel.py`) | `channels` row, `sync_state('channel')` pts | resolve, join or check an invite, getFullChannel, seed pts | budget, run loop's context |
| history sweep (`collectors/history.py`) | `messages`, tombstones, `sync_ranges`, `sync_state('history')`, `('history_sweep')` | pages newest to oldest, resume, settle, probe gaps, verify | gateway, store; called by the channel's own phase and by `discussion` for a linked group |
| pts catch-up (`history.py` `catch_up`) | `sync_state('channel').pts`, messages, tombstones | getChannelDifference pages until final, stalled, too long or out of budget | channel phase (seeds pts), sweep |
| verified ranges (`store/sync.py`) | `sync_ranges` rows | `add_range`, `missing_ids` | history sweep |
| message rows (`store/messages.py`) | messages, revisions, metrics, deletion flags | upsert, mark / clear deleted | history, catch-up, posts |
| discussion (`collectors/discussion.py`) | thread edges, the group's sweep | sweep the linked group within a page budget | history sweep |
| participants (`collectors/participants.py`) | rosters, walls | page recent/admin/search rosters, probe reactions | budget, peers |
| profiles (`collectors/profiles.py`) | `sync_state('profiles_dead_ref')`, `profile_attempts`, `users`, snapshots | triage by bisected getUsers, enrichment rotation | peers, media store (avatars) |
| graph (`collectors/graph.py`) | edges, frontier | bounded breadth-first expansion | channels |
| web (`collectors/web.py`, `web/`) | web pages, captures | page t.me/s and the Wayback index | HTTP |
| media (`collectors/media.py`, `media_store.py`) | `media`, `custody_log`, raw receipts, the content index, objects in a store | dedup, download, hash, create-only commit, record | gateway, bucket or disk |
| store (`store/db.py`, migrations) | the schema, `schema_migrations`, raw log | open, migrate, append raw | everybody |
| fetch-from-list (`fetch_from_list.py`) | per-row outcomes, segments of rows by channel | resolve once, fetch posts, run media, stop rules | run loop, channel context |
| replay / reproject (`replay.py`, `reproject.py`) | the raw log, read | serve a recorded run to the same collectors | run loop |
| audit, doctor, export, CLI | none of their own | reports and wiring | store |

### What makes each part correct, and what makes it hard

* **Sweep.** Every message still on Telegram below the high-water mark has a
  row; a cut-short sweep can be resumed by either caller from the saved cursor;
  a verified span was really settled. Hard: three separate commits per page,
  posts and deletions during paging, two callers on one `sync_state`.
* **Catch-up.** The stored pts never runs ahead of what the store holds; a
  clean finish drained the backlog. Hard: items and pts are separate commits,
  a page can be non-final without progress, and messages change between the
  sweep's read and the difference.
* **Budget.** A cap on attempts, no RPC inside a flood window, a bounded number
  of retries, spacing between calls. Hard: retries, floods and transient errors
  interleave, and memory is lost by a restart while `flood_log` is not.
* **Ranges.** The rows stand for a set of ids, whatever order the calls come
  in; a kill must not claim an id. Hard: adjacency arithmetic on a span that
  grows while it is compared, DELETE and INSERT in separate commits.
* **Profiles.** One stale reference must not cost its neighbours anything, the
  rotation must starve nobody (it did, twice: `profiles.py:594-598`), and the
  recorded pass must be honest. Hard: the slot is spent before the outcome is
  known; references, cooldowns and refresh floors change between runs.
* **Media.** Custody names a verified object with the right bytes, and every
  file is in this run's store when a run ends. Hard: reposts, equal bytes under
  two Telegram ids, lost create races, edited posts, two stores, three commits.
* **Migrations.** A recorded script took effect as a whole. Hard: a kill inside
  a script, databases of every earlier release.
* **fetch-from-list.** No post of an excluded channel is read, each message is
  asked for and each file fetched once, a channel is never read under another's
  id, and each row's outcome is complete and true. Hard: one message under two
  addresses, a link known only once the channel is established, handles that
  change hands, tombstones of earlier runs, a stop between any two batches.
* **Log and replay.** Each answer goes into the raw log before it is projected,
  so a reproject rebuilds the store from the log alone: the same rows with the
  same stamps, the same access receipts, rosters and custody, however the runs
  were flooded, refused or killed; replaying the rebuilt log changes nothing;
  complementary target filters split the archive without loss. Hard: archives of
  earlier releases carry no run ids, another process writes in between, replay
  must tell a run that asked nothing from one that was refused, and the state
  that incremental runs keep must not leak from one replayed run into the next.
* **Rosters.** Members and walls are recorded as they were seen, and the budgeted
  oracle and reaction lists go on where the last run stopped. Hard: members leave
  between pages, a refusal on a later page, and a kill between the raw row of an
  answer and what it projects to: the person an oracle answer was about is asked
  again, and the reactors of a list page are found by no later live run, which
  goes on after that page (a replay of the log has them).
* **Run loop.** Every phase gets what the last one left and a stop in one phase
  leaves the others replayable.

## 2. The modules

| module | models | shape |
|---|---|---|
| `Archive` | what collecting a channel promises: rows, tombstones, a mark | abstract specification |
| `HistorySweep` | `HistoryCollector.collect`, `_probe_gaps`, both callers | one action per autocommitted statement or RPC; implements `Archive`, uses `Coverage` |
| `PtsSync` | pts seed, sweep re-read, `catch_up` | Telegram as an event log; a message's content is the pts that wrote it; implements `Archive` |
| `BudgetGate` | `Budget.call`, `_take_rpc`, `_pace`, `_handle_flood` | deadlines kept as seconds left |
| `Coverage` | what `store/sync.py` promises: a set of ids | abstract specification |
| `RangeStore` | `add_range`, `missing_ids`, one step per iteration and statement | implements `Coverage` |
| `EvidenceChain` | what the media phase promises: object, catalogue, custody, receipt, in this order | abstract specification |
| `MediaCustody` | live media phase, custody, receipts, both stores | objects named by their sha; implements `EvidenceChain` |
| `Migrations` | `Store.open`, `_apply_migrations`, the eight scripts | one step per statement |
| `ProfileSweep` | `ProfilesCollector` triage and enrichment | stamps kept as ranks |
| `FetchFromList` | the list command with channel access, posts and media selection | Telegram's answers nondeterministic, commands in sequence on one store |
| `RawLog` | the raw log and how `ReplaySource.runs` cuts it into runs | rows tagged with the pass that wrote them |
| `Projections` | what the collectors write for an answer: rows, revisions, tombstones, sweep state, pts, channels, custody; both clocks | operators from a store, a clock and an answer to a store, used live and in replay |
| `Rosters` | the participants phase | one machine, one RPC's answer a step, with two gateways |
| `ReplayGateway` | `RunIndex`, `RawReplayGateway`, `ReplaySource`, `detect_phases` | which recorded row answers a request |
| `Reproject` | `_replay_one`, target filters, the resets between runs | the collectors run on `ReplayGateway` |
| `CollectReplay` | several live runs of `collect_channel_with_context`, then reproject of their log | one RPC's answer a step; composes the five above |
| `…Proofs` | theorems about the module they extend | TLAPS |
| `MC…` | constants for TLC | one per component |

The sweep composes its two callers (`StartRun("target")`, `StartRun("group")`)
over one `sync_state`. `PtsSync` composes three components on the store they
share: the channel phase's seed, the sweep (abstracted to what it re-reads and
when it stops; `HistorySweep` has it statement by statement) and the catch-up.
`FetchFromList` composes four: the command's loop, the channel phase's access
routes, the posts phase and the media phase (by outcome; its commits are in
`MediaCustody`), all over one store. `CollectReplay` composes seven: the run
loop, channel access, sweep, catch-up, triage, rosters and media (each by the
answers it gets; their statements are in the modules above) write one raw log,
and `Reproject` puts that log through the same operators again. Nothing is
stated twice: what an answer projects to is one operator of `Projections` or
`Rosters`, applied by the live phase under `LiveClock` and by the replay under
`ReplayClock`, as in the code, where the collectors are the same and gateway and
clock are exchanged. What can go wrong is what is *not* shared: which row is
served, under which stamp, in which run, with which budget and which state left
over. Three abstract specifications are implemented, by `INSTANCE` with a
refinement mapping. `RangeStore` implements `Coverage` (the covered set), and
the sweep uses that promise instead of the table: `VerifySpan` grows the set by
`Ranges!Grown(span)`, and `KillInAddRange` cuts it by `Ranges!Cut(span)`. The
abstract state keeps the call in hand (`call`), so a kill loses coverage only
inside a call, and of that only ids that verified ids join to the call's own
range; it never claims any. `HistorySweep` and `PtsSync` both implement `Archive`: the
first statement by statement, with `posted` a count and `held` the stored ids;
the second with whole pages, the catch-up and its edits, with `held` the ids
that have a row. That is what entitles `PtsSync` to a coarser sweep: to the rest
of the program both look the same. `MediaCustody` implements `EvidenceChain`
with its own variables; runs, the index and the work in hand are hidden.
`PROJECT.json` maps each definition to its source lines.

### How state and actions correspond

*HistorySweep.* `stored`, `tombs`, `verified`, `offsetId`, `sweep` are the rows
of `messages`, `message_tombstones`, `sync_ranges` and the two `sync_state`
entries; the other variables are the locals of `collect`, with their names.
`FetchPage` is getHistory, `ObserveMessage` one `observe_message`, `SaveCursor`
and `SaveSweep` the two `set_state` calls, `Settle` the end of the loop,
`ProbeGaps` one getMessages chunk, `VerifySpan` `add_range`, `KillInAddRange` a
kill between its DELETE and its INSERT. `Interrupt` is a
kill or an exception at any other point: the rows stay, the locals go.

*PtsSync.* `log` is Telegram's; `row`, `deleted` are the message rows,
`storedPts` the cursor; `seed`, `seen` and the other history variables are read by
properties only. `TooLong`, `StalledPage`, `FinishPage` are the branches of
`catch_up` in the code's order.

*BudgetGate.* `until` is `flood_log` (it survives `EndRun`), `rest` is
`_last_call`, `count` is `_count`; `pc` says which await the call is in.
`window` and `recent` are Telegram's own clocks, kept to compare with.

*RangeStore.* `rows` is the table; `todo`, `merged`, `toDelete`, `cursor` are
locals; a `Crash` leaves whatever was executed. `inHand` is the argument of the
call being executed, which `merged` overwrites; it is the `call` of `Coverage`.

*MediaCustody.* `row` is what the database believes about a message, `current`
what Telegram has; `object` the two stores; `index` the in-memory content index.

*Migrations.* `schema` is a set of objects, `recorded` is `schema_migrations`,
`at` the next statement of the running script. A run of statements of one kind
that no property tells apart stands as one.

*ProfileSweep.* `marker` and `cooled` are `profiles_dead_ref` and its age,
`stamp` ranks `profile_attempts.attempted_at`, `fresh` the people whose
`enriched_at` is inside the refresh floor, `batches` the recursion of
`_triage_batch` as a work list (both halves in front, so the order of RPCs is
the code's), `todo` the rest of the candidate list. getFullUser's answer is one
step with the chats that come with it: `ChatsProjected` may give other people a
username or a reference, which changes who can be resolved while the list is
being worked through. `FetchIsOurs` is the fetch that brings its own person, and
`late` are those made reachable after the list was drawn up.

*FetchFromList.* `collected`, `username`, `saved`, `edges`, `tombs`, `sightings`
are rows of `channels`, `peers`, `edges`, `messages`, `custody_log`; `excluded`,
`contexts`, `dead`, `resolved`, `claimed` are the locals of `_run_segments` that
outlive a segment, `pc` says which part of the loop body is next. `segs` is the
set of segments not begun, which `ComesFirst` puts in the order of the loop;
`addr` is the address of the segment in hand and `cid` its channel, once there is
one. `told` is what Telegram answered about each message in this command; only
properties read it. `judge` is
entered before a channel is established and again after it, as `_excludes` is
called twice. A channel is its id; a context is the channel it leads to.
Telegram answers each id asked for, as getMessages does (MessageEmpty if it
must).

*RawLog, Projections, Rosters.* A store is a record: `raw` is `raw_records` in id
order (kind, tier, channel, target, run id, stamp, payload), `rows`, `revs`,
`mets`, `tombs` are `messages`, `message_revisions`, metrics and tombstones,
`sweep` the two `sync_state` entries of the history, `custody` and `files`
`custody_log` and the objects, `parts`, `snaps`, `rosters`, `sighted` the tables
of `store/participants.py`, `peers` the people the store has met (authors of
messages, members, reactors), whom a triage asks about whatever channel and run
they were met in, `self` the account. A row's `pass` says which live
run wrote it; no operator of the program reads it. A stamp is the row's place in
the log: later is larger, and a projection takes the stamp its clock gives it.
A `Visit` is the participants phase in flight; its `stage` names the await it
is in.

*ReplayGateway, Reproject.* A window is the slice of the log that one run owns.
Each `...Record` operator is the lookup of one gateway method, `NoRow` its
SkipAndRecord. `ResetSweep` is `_reset_incremental_backfill_state`, `Unlimited`
the settings a replay lifts, `DecideRun` the target filter's decision.

*CollectReplay.* `pc` is the phase, `w` what it has in hand, `held` the context a
fetch-from-list segment passes to the next, `st` the live store, `outs` the
stores reproject built. One answer is one step, and the kills inside it are
steps of their own: `KillBetween` after some messages of a page or some people
of a triage, `KillTorn` after the answer's first raw row and before anything it
projects to (account, channel, page, difference, roster answer), `KillAmongMembers`
after some members of a roster page, `KillUnreceipted` between custody and
receipt. Not split are a participant's row from its snapshot, and a message's row
from its author's peer row. `torn` and `cut` note what kind of interruption there
was; only properties read them.

## 3. The runs

Each module whose variables have a fixed shape states a `TypeOK`; it is proved
in §5 for the eight modules with proofs and no run lists it (the cap on attempts,
which a slip of the code could break, is in `RetriesBounded`). Every passing
run explores all reachable states of its instance.

**history_sweep** (4 ids, pages of 2, probes of 2, a group budget of 1 page, one
interrupt at any statement, id 2 may come back as MessageEmpty).
`NothingStranded`: no live message below the high-water mark lacks a row.
`ResumeIsSafe`: between the saved cursor and the pending mark nothing is left.
`VerifiedIsHonest`: each verified id is a row or a tombstone.
`KeepsArchive`: each statement adds rows, buries what is gone, raises the mark
over what is complete, or changes nothing an archive is about.
`EverythingCollected`: re-running gets every message in the end. Four ids are
two full pages, so a page boundary, a cut between pages, and a second sweep
above the first mark all occur; one interrupt may fall at any statement, also
in the second or third run.

**pts_sync** (2 messages, 5 events, pages of 1, differences of 2, too-long gap 3,
catch-up budget 2, stalls, one interrupt). `CursorIsApplied`: every event
between the seed and the stored pts is in the store. `CleanMeansDrained`: a
clean finish reached everything that had happened when the sweep ended.
`TouchedIsCurrent`: after a clean run the messages it touched are as Telegram had
them at the stored pts or later. `KeepsArchive`: the same promise as the sweep's,
kept together with a catch-up that adds rows and tombstones the sweep does not know
of. Five events allow new, edit and delete of the
same message around every step, and make the third difference page (hence the
page budget) reachable.

**pts_sync_rerun** (finding). `RerunCapturesChanges` is what README.md:107-108
and ADR-0004 say of re-running; TLC refutes it. See §6.

**budget_gate** (two methods with intervals of 1 and 8 seconds, two flood
lengths whose waits are on either side of the threshold of 7, cap 5, two flood
retries, two back-offs). `HonoursFloods`, `CallsAreSpaced`: no attempt inside a
window, first attempts spaced. `RetriesBounded`: retries are bounded in any
mixture of floods and transient errors, and no attempt is made past the cap of
the run. `CallsEnd`: a call ends whatever Telegram answers. A cap of 5 is
reached both on a first attempt and in the middle of a retry loop.

**range_store** (5 ids, one crash inside `add_range`). `RowsApart`,
`NeverOverclaims`, `AnswersAreComplements`, and `KeepsPromise`: the table
implements `Coverage`. Five ids hold three separate rows, the most that one new
range can join on both sides and inside.

**media_custody** (two messages, three files of which two have equal bytes, two
stores, one edit, three runs, one kill, another writer). `KeepsChain`: an object
is never replaced, and each record is written only when the one it rests on is
there, whatever was deduplicated; that custody points at an object with the
right bytes (`EvidenceIsReal`) is part of it. `OnlyEditsMisfile`: only an edit
between observation and download can file bytes under the wrong content.
`FinishedIsComplete`: a run that skipped nothing left custody for each message
in its store. `CustodyIsRebuildable`: without kills each custody row has a
receipt. Three runs are needed for "stored elsewhere, then here, then deduped".

**media_custody_stale** (finding). `CustodyNamesItsContent` is the promise of
data-model.md:335; a post edited since it was observed refutes it. See §6.

**migrations** (a database of every earlier release, three kills).
`RecordsAreHonest`: the record claims only whole scripts, in order, and an open
store has the whole schema.

**migrations_killed** (finding). `InterruptedIsSafe` is the comment of
0001_init.sql:3-6. See §6.

**profile_sweep** (three people in uri order: a stranger, an author who is never
visible, an admin; one slot per run, vectors of two, one re-sighting or change on
Telegram's side, one stop or kill; a profile fetched may make the stranger or
anybody else reachable). `TriageHearsEveryone`: when a triage ends each person with
a reference was answered about, proved dead or is held back. `OnlyProvenDead`: a
marker is written only for a ref that failed alone. `NobodyOvertaken`: a slot goes
to a person only when everyone who waits longer cannot use one; the exception is a
person passed over in this run before an answer of the same run made a reference to
them (the comment at `profiles.py:490-493` takes it that nothing between the list
and the call changes who can be resolved; an answer's chats do,
`profiles.py:550-568`), whose turn comes in the next run. With one slot a run that
exception cannot occur; with two it does, and the same five properties hold (1.4
million states, five minutes, too long for a listed run); `NobodyIsOvertaken` proves
it for any number of slots. `PassIsHonest`: `refresh` means nobody usable is
untried. `EveryoneGetsATurn`: who stays reachable gets turns for ever. Three people
are a full vector and a lone one, and with one slot per run, a lap of the rotation
takes three runs.

**fetch_from_list** (a channel and its discussion group, a handle that moved from
the first to the second, two messages, one file that any of them may carry,
batches of one, four lists, exclusion of either or none, a tombstone of an
earlier run; any number of commands). `OnlyTheRightChannel`: nothing of an excluded
channel or its group is asked for, nothing else is reported excluded, and a
context leads to the channel it is filed under. `NothingIsRedone`: a message
under two addresses is asked for once, only a file that is nowhere is streamed,
across segments, reposts and re-runs, and within a command no outcome or post is
taken back and no row moves from a channel to a different one. `EveryRowIsSettled`: an
unstopped command leaves no row open, and no_access means a refusal.
`ReportIsTrue`: what a row is told is so. A downloaded or duplicate row has a
custody row for the very file Telegram named in this command; an already stored
one has that file in this store, and its custody row too unless another channel
has the file (fetch-from-list.md:366) or the media run was cut short or not
wanted; no media and deleted upstream are what Telegram answered; and a duplicate
row has its original, a line repeated word for word by way of its first
occurrence. The lists name one message by id and by handle in both orders and
under two priorities, so an address may be claimed, refused, resolved or excluded
by an earlier segment; in one of them a handle stands twice, and its first
occurrence is itself a duplicate of the id's line.

**collect_replay** (fourteen plans, `MCPlans`; one channel of three messages that
may get two more, one of five channels per target, pages of 2, differences of 1
update and gaps of at most 2, roster pages of 2, one oracle question, one reaction
list and one list page per run, one to three mishaps: an update, a flood, a refusal,
a kill, a row of another process). A plan names two or three runs, their phases, how
many mishaps, and what is replayed: the whole log and then the output's own log, or
the whole log and both halves of a filter. The plans cover: two and three sweeps
under updates and kills; archives whose first runs have no run id, in both orders of
the opening, with another process's rows; a target that is an id, with its saved
key, its handle and a handle that is somebody else's; a channel the account created;
a name that is no channel; files walked, selected and fetched by id on a reused
context; a group with a linked broadcast, a broadcast with a linked group that must
be joined, a group that hides its members, an account too young for the gate.
`SegmentsArePasses`: two rows are in one run of the replay exactly when one live run
wrote them. `RoundTrips`: messages, revisions, metrics, tombstones, stamps,
receipts, triage answers, channels and pts are rebuilt; of a message that one run
was given twice, every version with its last stamp, and no observation that was not
made. `CustodyRoundTrips`: so is custody, from receipts and selections.
`SelfRoundTrips`: the account is whoever collected, also when the run was killed
before it had stored that. `RosterRoundTrips`: so are members, observations and
accounting. `RosterConverges`: across runs nobody is asked about twice, a reaction
list is recorded as one chain of pages, and whoever a page shows was sighted; for
the first and the last, except where the answer is the last row of a pass that was
killed before it had projected it. `ReplayIsRepeatable`: the output's log, replayed,
gives the output. `FilterIsExact`: include and exclude split the archive, and lose
between them only what a triage was told about people whom neither output had met
(reproject.md:441-451 has such a case); an output is told of nobody it has not met.
`SwapIsSafe`: no message is passed by for good, live or after a reprojected store
has taken the live one's place, except after a too-long gap or a sweep that was cut
short, and then only until a second sweep has gone through since. Each property
names the interruptions after which it does not hold; §6 says which of those the
documents admit. Two or three runs are what an effect of one run on the replay of
the next takes (and the third sweep is what makes a cut one good); with three
mishaps a sweep can be updated, killed and updated again.

### Bounds

`MaxId`, `MaxEvents`, `N`, `MaxMsg` bound the data; `MaxInterrupts`, `MaxCrashes`,
`MaxKills`, `MaxStops` bound interruptions; `MaxEdits`, `MaxChanges`, `MaxRuns`
bound what happens around the program. Where a property is proved (§5) none of
them matters; elsewhere the instance contains, for each hazard listed in
`PROJECT.json`, a behaviour that meets it, which is what the mutants
show: each property is violated within the same bounds when the mapped
definition is changed the way a plausible bug would.

### Fairness, and why the code justifies it

* *HistorySweep*: weak fairness of the run's next statement (sequential code
  keeps going until it ends or is killed), and of starting another run of either
  caller ("re-run to continue from the saved cursor"). Interrupts are bounded,
  so in the end a run is left alone.
* *BudgetGate*: time passes, the event loop resumes a finished sleep, an RPC in
  flight is answered or times out. Nothing is assumed of what is answered.
* *ProfileSweep*: weak fairness of the run's steps; strong fairness of runs
  with `--profiles` reaching the enrichment (the operator passes the flag again
  and again, not always) and of a pause in which all cooldowns and refresh
  floors run out. Nothing is assumed of the outcome of getFullUser, so a
  person that fails for ever does not stop the others.

The other modules state safety only. `CollectReplay` is about what a finished
sequence of runs left, not about its finishing; that is `HistorySweep`'s and
`BudgetGate`'s.

## 4. Deadlock

Every run but one checks it. `collect_replay` stops by design, when its plan's
runs are done and replayed or the source is refused, and turns the check off. An
idle program can always
be started again (a further migration, a further run), so a deadlock would be a
process stuck between two of its own steps: a loop whose guards and exits do
not cover a case. The one bound that ends runs for good, `MaxRuns` of
`MediaCustody`, leaves `Observe`, which may re-read an unchanged post.

## 5. What is proved

| theorem | states |
|---|---|
| `HistorySweepProofs!SweepTypeCorrect` | `[]TypeOK` |
| `HistorySweepProofs!NothingIsStranded` | `[]NothingStranded` |
| `HistorySweepProofs!ResumingIsSafe` | `[]ResumeIsSafe` |
| `HistorySweepProofs!VerifiedSpansAreHonest` | `[]VerifiedIsHonest` |
| `HistorySweepProofs!SweepKeepsArchive` | `KeepsArchive` (refinement) |
| `BudgetGateProofs!GateTypeCorrect` | `[]TypeOK` |
| `BudgetGateProofs!RetriesAreBounded` | `[]RetriesBounded` |
| `BudgetGateProofs!FloodsAreHonoured` | `HonoursFloods` |
| `BudgetGateProofs!FirstAttemptsAreSpaced` | `CallsAreSpaced` |
| `RangeStoreProofs!RangeTypeCorrect` | `[]TypeOK` |
| `RangeStoreProofs!NoPhantomSeam` | `[]RowsApart` |
| `RangeStoreProofs!OnlyRecordedIsCovered` | `[]NeverOverclaims` |
| `RangeStoreProofs!QueriesAreComplements` | `AnswersAreComplements` |
| `RangeStoreProofs!TableKeepsPromise` | `KeepsPromise` (refinement) |
| `MigrationsProofs!MigrationTypeCorrect` | `[]TypeOK` |
| `MigrationsProofs!RecordsStayHonest` | `[]RecordsAreHonest` |
| `MediaCustodyProofs!MediaTypeCorrect` | `[]TypeOK` |
| `MediaCustodyProofs!EvidenceStaysReal` | `[]EvidenceIsReal` |
| `MediaCustodyProofs!MisfilingNeedsAnEdit` | `[]OnlyEditsMisfile` |
| `MediaCustodyProofs!FinishedRunsAreComplete` | `[]FinishedIsComplete` |
| `MediaCustodyProofs!ReceiptsRebuildCustody` | `[]CustodyIsRebuildable` |
| `MediaCustodyProofs!MediaKeepsChain` | `KeepsChain` (refinement) |
| `PtsSyncProofs!PtsTypeCorrect` | `[]TypeOK` |
| `PtsSyncProofs!CursorStaysApplied` | `[]CursorIsApplied` |
| `PtsSyncProofs!CleanStaysDrained` | `[]CleanMeansDrained` |
| `PtsSyncProofs!TouchedStaysCurrent` | `[]TouchedIsCurrent` |
| `PtsSyncProofs!SyncKeepsArchive` | `KeepsArchive` (refinement) |
| `ProfileSweepProofs!ProfileTypeCorrect` | `[]TypeOK` |
| `ProfileSweepProofs!TriageHearsAll` | `[]TriageHearsEveryone` |
| `ProfileSweepProofs!MarkersAreProven` | `OnlyProvenDead` |
| `ProfileSweepProofs!NobodyIsOvertaken` | `NobodyOvertaken` |
| `ProfileSweepProofs!PassStaysHonest` | `PassIsHonest` |
| `FetchFromListProofs!ListTypeCorrect` | `[]TypeOK` |
| `FetchFromListProofs!RightChannelOnly` | `[]OnlyTheRightChannel` |
| `FetchFromListProofs!EveryRowSettles` | `[]EveryRowIsSettled` |
| `FetchFromListProofs!ReportStaysTrue` | `[]ReportIsTrue` |
| `FetchFromListProofs!NothingIsDoneTwice` | `NothingIsRedone` |

All hold for every value of the constants under the assumption that each module
names. Those of the sweep, the gate, the ranges, the catch-up, the migrations
and the profiles say no more than that counts and waits are natural, page sizes,
budgets and limits positive, and a priority one of the four there are.
`MediaAssumption` adds that a content has one digest and that the markers for "no
file" are none. `ListAssumption` adds that ids are
numbers and no handle is one, that there are finitely many channels, and that
Telegram links a broadcast to a group (never two of a kind); links, owners,
lists, exclusions and priorities are arbitrary. Bounds on kills, events and ids
are constants too, so they may be any number. `Migrations` is about the eight
scripts there are; what is arbitrary is the release the database comes from and
where it is killed.

Each inductive invariant is the `IInv` of its module, a conjunction of named
parts, and was model-checked on the instance of the module's run before it was
proved. A proof has one step per action and, under it, one per part that the
action can disturb.

*The sweep.* `NothingStranded` is not inductive: while a sweep runs, what lies
between the cursor and the top of the run is stored, what lies below is not, and
the saved sweep state may be a page behind the cursor. `IInv` names these
parts: what is stored above the cursor, what the page in hand adds, what a
settling run knows about the old mark, and that a saved unfinished sweep is
resumable. `ResumeIsSafe` and `NothingStranded` are conjuncts of it.
`VerifiedIsHonest` needs a second one, `HInv`, about `ids_seen`, the candidates
left to probe and tombstones; its steps use the first. Each has one proof step
per action. `KeepsArchive` is a refinement under both: the mark rises at `Settle`
(and nowhere else, `SaveSweep` writes the old one back), where `IInv` knows that what
lies below the new mark is stored; a probe buries only what `HInv` knows is not
live, and a placeholder is one that Telegram no longer resolves.

*The gate.* Four parts: the persisted deadline covers Telegram's window
(`FloodsWaitedOut` while a sleep is in progress), the interval's deadline
covers the last attempt, the attempts so far add up from floods and transients,
and the run's count stays within the cap, because `StartCall` and `Retry`, the
two that count an attempt, ask for it first (`_take_rpc`). The action properties
then follow from the guard of `Send`.

*The ranges.* `Folding` says what the loop over the rows has established (the
merged span is the argument joined with the rows deleted so far, the rows left
are apart from it), `Scanning` that the gaps collected so far are the
complement up to the cursor. The refinement has a lemma for each way the
covered set moves: a completed call adds its range, and a kill removes only ids
joined to the range of the very call in hand (`LostIsJoined`): outside a call the
abstract set loses nothing, and inside one it may lose no id that a gap in the
verified ids separates from that range.

*The migrations.* What a script leaves when it is killed is in the schema but not on
record, so `RecordsAreHonest` alone does not say why the record made after the last
statement is true. `Behind` does: the scripts below the one that is running are
on record, and the statements it has executed are in the schema, also those that
an earlier attempt executed. No script drops anything but its own temp tables
(`Drop`), so what is in the schema stays.

*Custody.* A custody row is written some statements after the digest it names was
computed. `Held` carries the object from the commit to the record (nobody
overwrites: the commit is create-only, and only the bucket has other writers),
`InHand` says what a message in hand is, `Named` that index and newest row know a
content by its own digest unless a file was downloaded for it after an edit,
which is what `OnlyEditsMisfile` says of custody and needs of both. `Walked` is
`FinishedIsComplete` in the middle of a run. `Receipting` is the loop invariant of
`CustodyIsRebuildable`: without a kill the only sighting lacking a receipt is
the one whose receipt is the next statement, and the index learns a content
after that. `KeepsChain` needs `Catalogued` besides: a dedup or a lost race
files a digest without cataloguing it, so whatever index, newest row and the file
in hand know must be in `media` already, also after a kill between the two rows.

*The catch-up.* `CursorIsApplied` must survive a page of which only some
items were projected: `DifferenceInHand` says that every event up to the page's
pts is in the store or still among the items, so the cursor may be saved when there
are none left. `Fresh`, `PageInHand` and `TouchedSinceSeed` are for
`TouchedIsCurrent`: whatever the sweep or a difference has in hand was read
after the seed and is at least as new as the row it will replace. `OfThePast`
says that nothing in the store is newer than Telegram, `Budgeted` ties the page
count to the phase, so that a loop which runs out of pages is never a clean finish.
`KeepsArchive` rests on a second invariant, `AInv`, because content alone says
nothing about completeness. `Numbered` says that Telegram's log assigns ids without a
hole; `Marked` that nothing live lacks a row below the mark, nor between the resume
point and the pending mark of an unfinished sweep; `PageContinues` that the page in
hand joins that stretch to the top. It was model-checked on the instance of
the run, and with three ids, before it was proved.

*The profiles.* `Accounted` is the bisection: whoever has a reference was answered
about, is held back, or stands in a vector of the work list; splitting moves people
between vectors and a refusal of one makes them unusable. `Ranked` says that stamps
are distinct and no higher than the number of those who have one, `Rotated` that
whoever has left the candidate list could not use a turn or was just stamped behind
all who are left, or became reachable in this run (`late`). `NobodyOvertaken` and
`PassIsHonest` are action properties that follow from `Rotated` at the step that
spends a slot or ends the run; `OnlyProvenDead` needs the types only.

*The list.* `Phased` says what each part of the loop body leaves for the next,
`Addressed` that a segment's rows are those of its address and, once its channel
is established, of that channel; `Pending` that a row nobody attempted is in
exactly one segment. `OnlyTheRightChannel` needs `Linked`: each edge on record
touches a collected channel, and a channel with a context shows all its links,
so the second call of `_excludes` knows what the first could not.
`EveryRowIsSettled` follows from `Phased` and `Pending` for the rows and from
`Refused` for those told of no access. `Asked`, `Walked` and `Reported` follow
an answer from the batch to the report: what is asked is claimed and not asked
before, and its row or tombstone is in the store before an outcome says so; the
first half of `NothingIsRedone` is then a matter of the two steps that ask (what
a walk streams is new by `Walked`), and the second of `Pending` and `Addressed`:
only rows in hand, or of the segment that begins, are written to, and those are
undecided and of the segment's channel. `Duplicates` gives each claim a row that
stands for it and has passed the claim of its segment; `ReportIsTrue` follows
because no such row is ever set aside later.

An attempt to prove `ReportIsTrue` as it was first stated failed on a list that
names an unknown handle twice word for word when the message was claimed by its
id: the repeated line points to the first occurrence, which is itself set aside
(`fetch_from_list.py:333-339`). The property now says so, and the run has that
list.

Model-checked only: liveness (`EverythingCollected`, `CallsEnd`,
`EveryoneGetsATurn`; liveness under fairness is outside the prover's reach), and
the nine properties of `CollectReplay`. `Reproject` walks the log with RECURSIVE
operators and `CollectReplay` extends it: the prover accepts no theorem there, and
what a replay of a log of any length rebuilds is an induction over that log (what
the projections write is a fold over an answer's messages), as is
`SegmentsArePasses`: the labels of `RawLog` are a fold, and where a run starts
depends on rows after it.

## 6. Where the code and its documents disagree

With a run:

* **A second run overwrites the pts cursor** (`channel.py:378`). The channel
  phase stores getFullChannel's present pts before the catch-up reads it back,
  so an edit or deletion between two runs, of a message the incremental sweep does
  not re-read, is never captured. README.md:107-108 and ADR-0004 say it is. The
  run: a first run ends clean, with the message at or below its high-water mark;
  the message is deleted after that run's last difference; the second run ends
  clean too, and the row stays without a tombstone.
* **Custody may name the wrong content** (`media.py:386`). The content key comes
  from the stored row, the bytes from the live message (`gateway.py:832-905`).
* **A killed migration is not safe to re-run** (`db.py:111`). ALTER TABLE ADD
  COLUMN has no IF NOT EXISTS; the next open raises a duplicate column.

Without a run, noticed while modelling:

* `budget.py:3-4` says a minimum interval between calls per method; retries
  are not paced (`budget.py:254`). `CallsAreSpaced` states what holds.
* A kill inside `add_range` may lose coverage that was verified before
  (`sync.py:105-111`); re-adding the same range does not restore the rest.
  `Coverage` states this loss and its extent (ids that verified ids join to the
  range of the killed call), and the refinement proves it.
* Custody is written before its receipt (`media.py:549`); a kill between them is
  never repaired, because the next run recognises the file.
  `CustodyIsRebuildable` is restricted accordingly.
* `MAX_FLOOD_RETRIES` is described as consecutive floods; it is counted per call.
* ADR-0003 speaks of a daily cap; the count is per run.
* After a too-long difference, probing the gap is "the caller's job"
  (`history.py:268-269`); no caller does. `missing_ids` has no caller at all.
* A wall clock stepped back makes `record_profile_attempt` keep the old stamp
  (`sync.py:52-55`); the rotation then repeats that person once. `ProfileSweep`
  assumes the clock moves between two attempts.

* fetch-from-list.md:123 says an earlier row names the message of a
  `duplicate_row`. When an unknown handle's segment comes after the id's, the
  original may be a later line (`fetch_from_list.py:333-339`);
  `ReportIsTrue` states what holds.
* fetch-from-list.md:238 says a channel is established once per command; a
  handle that resolves to a channel already established by id establishes it
  again (`fetch_from_list.py:273-292`).
* fetch-from-list.md:257 says the routes do not change within a command;
  establishing another channel may record a key or a handle for a refused one.

What a reproject does not give back, each an exception that a property of
`collect_replay` names (remove the exception and TLC shows the run):

* reproject.md:290 and how-it-works.md:118 have the reprojected store take the
  live one's place. A sweep that was cut short is replayed as a complete one
  (the recorded pages end, so `iter_history` ends), and so the next live sweep
  is incremental and never fetches what the cut left out; a too-long gap in the
  pts has the same effect. reproject.md:698-707 documents only marks inflated by
  the catch-up. Without the exceptions of `SwapIsSafe` TLC shows a sweep killed
  within its first page: the live store knows that it is unfinished, the rebuilt
  one says that it is complete up to the newest message. (`SwapIsSafe`)
* Include and exclude filters of one channel may both drop a `User` row that a
  triage was given: each replay asks only about people its own output has met.
  reproject.md:441-451 reports such a loss (#81). (`FilterIsExact`: `Unmet`)
* One payload delivered twice within a run is replayed with the later stamp both
  times (`clock.py:76-78`, one stamp per payload), so its first observation moves in
  time and a metrics row may be lost; reproject.md:637-650 expects tables that are
  equal as sets of rows. (`RoundTrips`: `Repeats`, `AsLastSeen`)
* A message answered as MessageEmpty by the probe and delivered live by the same
  run's catch-up loses its tombstone (`replay.py:933-958` serves the latest row).
  (`RoundTrips`: `Outrun`)
* A run as the channel's creator has tier `self`, under which the triage records
  strangers (`profiles.py:359-363`); `get_self` takes the last of them for the
  account (`replay.py:896`). (`SelfRoundTrips`)
* A linked group that was not asked (gate refused, not joined), or whose paging a
  flood or kill cut short, is replayed as a wall (`participants.py:527-561`).
  (`RosterRoundTrips`)
* Media walked without a selection and cut short: the replay files by dedup the
  rows the live run never reached; and a walk that left no row at all leaves no
  custody. (`CustodyRoundTrips`)
* An opening without run id that was cut short cannot be told from the next one.
  (`SegmentsArePasses`: `Whole`)
* `catchup_page_budget` is not lifted for a replay (`reproject.py:380-406`).

Also noticed: the docstring at `store/reactions.py:121-124` says that the fetch of
an unfinished reaction list starts over at page 1, which would make a kill
harmless; `participants.py:832-836` goes on at the recorded offset, so the
reactors of a page whose run was killed between its raw row (`:848`) and their
sightings (`:852`) are found by no later live run, only by a replay
(`RosterConverges`: `LastWords`). A refusal on a
later roster page discards that filter's stamp, count and sighting of the
account (`participants.py:527-541`).

## 7. The plan

Built: the sweep, the catch-up, the gate, ranges, custody, migrations, profiles,
fetch-from-list; then the raw log, the run loop, rosters and their replay. First
the parts whose errors lose data silently, then those that only delay.

Proved: every safety and action property that a run checks, except those of
`collect_replay`; and four refinements, of `Coverage`, of `Archive` (twice) and of
`EvidenceChain`.

Next: the live half of
`CollectReplay` in a module of its own, without the replay's RECURSIVE operators,
so that `RosterConverges` can be proved of it; the discussion phase and its replay;
and the statements inside one upsert.

## 8. Not modelled, and why

* Replay: the discussion phase, graph, web, avatars, sponsored messages and full
  users; a source database of an older schema; progress and reporting.
* Run loop: graph, web and discussion phases, the `run_events` rows, merging of
  counts.
* Rosters: the users and peers an answer carries, service messages and
  recent-reaction vectors (read from stored rows without an RPC), participant
  constructors the code does not know, the preflight of a chat that is no
  channel, and the wording of a wall.
* Message rows: the statements inside one upsert are one step; text, entities and
  what the content hash leaves out.
* Media: copy-on-replay, bucket or local store during replay, sweeping of
  `.incoming`, selection filters (they choose messages; the phase treats each the
  same way).
* Profiles: photos and avatars (`_photos`; they use the media store's commit,
  modelled in `MediaCustody`), and the account's own row, which is one more way
  for a fetch to bring nothing.
* fetch-from-list: parsing lists and links, the dry run's tables, the CSV text.
* Channel access: invites (joining a linked group is in `Rosters`).
* Web capture, graph expansion, posture, doctor, export, media audit, CLI,
  configuration, logging, progress: text work, read-only reports or wiring.
* Identifier formatting, and the shape of raw JSON: no property is about it.
* The gateway's request building; its two behaviours that matter (re-fetch then
  stream, iterate a page) are part of `Download` and `FetchPage`.
