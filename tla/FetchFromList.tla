---------------------------- MODULE FetchFromList ----------------------------
(***************************************************************************)
(* fetch-from-list (fetch_from_list.py, media_list.py) with the phases it  *)
(* runs: a list of messages is classified offline and grouped into         *)
(* segments; each segment's channel is established alone (the access       *)
(* routes of collectors/channel.py), judged against --exclude-target, its  *)
(* posts fetched (collectors/posts.py) and, of those, the media that this  *)
(* run's store lacks (collectors/media.py, whose commits are               *)
(* MediaCustody's business).  Telegram grants, refuses or floods as it     *)
(* likes; commands follow one another on the same store.                   *)
(***************************************************************************)
EXTENDS Integers, Sequences, FiniteSets

CONSTANTS
    Channels, Handles, Msgs,
    Groups,        \* the channels that are groups
    Link,          \* Telegram: pairs <<parent, its discussion group>>
    Owner,         \* Telegram: the channel each handle leads to
    OldHandle,     \* the handle the store knew of a channel, or NoHandle
    SeenIn,        \* channels seen in a stored message of a channel with a key
    Files,         \* Telegram photos and documents
    Batch,         \* GET_MESSAGES_BATCH
    Priorities,
    Lists,         \* bound: the lists an operator hands in
    Specs,         \* bound: what --exclude-target may name
    OldTombs,      \* bound: messages earlier runs may have tombstoned
    NoChannel, NoHandle, Gone, Text

ASSUME ListAssumption ==
    /\ Groups \subseteq Channels
    /\ Link \subseteq (Channels \ Groups) \X Groups
    /\ Owner \in [Handles -> Channels]
    /\ OldHandle \in [Channels -> Handles \cup {NoHandle}]
    /\ Channels \subseteq Nat /\ IsFiniteSet(Channels) /\ SeenIn \subseteq Channels
    /\ Channels \cap Handles = {} /\ NoChannel \notin Channels \cup Handles
    /\ Msgs \subseteq Nat /\ Batch \in Nat \ {0}
    /\ Lists \subseteq Seq([addr : Channels \cup Handles, msg : Msgs, prio : Priorities])
    /\ Specs \subseteq SUBSET Channels /\ OldTombs \subseteq Channels \X Msgs
    /\ Gone # Text /\ {Gone, Text, "none"} \cap Files = {} /\ "none" \notin {Gone, Text}

VARIABLES       \* the store, and this run's media store
    collected,  \* channels with a row in `channels`
    username,   \* the last handle on record of a channel
    saved,      \* channels whose full access key is in `peers`
    edges,      \* the linked_group edges recorded
    tombs,      \* messages with deleted_at set
    sightings   \* custody: <<channel, message, file>>, held by the store

VARIABLES       \* the list and its report
    list, withMedia,
    spec,       \* --exclude-target
    outcome, post,   \* per row
    chanOf      \* classified.channel_id

VARIABLES       \* _run_segments
    pc,
    segs,       \* the segments not begun yet: [addr, rows]
    excluded, contexts, dead, resolved, claimed,
    stop        \* whether the command ended early

VARIABLES       \* the segment in hand
    addr,       \* its address
    cid, mine,  \* its channel, and the rows it still has to settle
    routes,     \* access routes not tried yet
    toAsk,      \* post_msgs not asked yet
    answered,   \* what Telegram answered for a message
    refused,    \* the posts phase was skipped
    held,       \* rows with media_held
    toWalk,     \* media_msgs not walked yet
    media       \* media_outcomes

VARIABLES       \* history variables, read by the properties only
    asked,      \* messages asked of Telegram by this command
    told,       \* its answers: <<channel, message, answer>>
    refusals    \* addresses this command could not reach: refused by Telegram,
                \* without a route, or with a handle that leads elsewhere now

known  == <<collected, username, saved, edges>>
disk   == <<known, tombs, sightings>>
input  == <<list, withMedia, spec>>
report == <<outcome, post, chanOf>>
memory == <<excluded, contexts, dead, resolved, claimed>>
work   == <<routes, toAsk, answered, refused, held, toWalk, media>>
ghost  == <<asked, told, refusals>>
vars   == <<disk, input, report, pc, segs, memory, stop, addr, cid, mine, work, ghost>>

Answers  == Files \cup {Gone, Text}
Outcomes == {"not_attempted", "excluded", "duplicate_row", "no_access",
             "deleted_upstream", "already_stored", "post_only", "no_media",
             "downloaded", "duplicate", "skipped"}
Blank == [m \in Msgs |-> "none"]

Msg(i) == list[i].msg
Lowest(S, n) == {m \in S : Cardinality({k \in S : k < m}) < n}

-----------------------------------------------------------------------------
(* The discussion groups that follow p into an exclusion, as far as the     *)
(* edges (in either direction) and kinds on record tell.                    *)
Followers(p) ==
    IF p \in collected \cap Groups THEN {}
    ELSE {o \in Channels : /\ <<p, o>> \in edges \/ <<o, p>> \in edges
                           /\ ~(o \in collected /\ o \notin Groups)}

Excludes(c) ==
    c \in excluded \/ \E p \in excluded : c \in Followers(p)

-----------------------------------------------------------------------------
(* Offline classification, in list order, and the segments by priority and  *)
(* channel in order of first appearance.                                    *)
StoredChannel(a) ==
    LET rows == {c \in collected : username[c] = a}
    IN  IF a \in Channels THEN a
        ELSE IF rows = {} THEN NoChannel
        ELSE CHOOSE c \in rows : \A d \in rows : d <= c

\* The same line twice, which the parser finds.
Verbatim(l, i) ==
    \E j \in 1..(i - 1) : l[j].msg = l[i].msg /\ l[j].addr = l[i].addr

Repeats(l, i) ==
    /\ StoredChannel(l[i].addr) # NoChannel
    /\ \E j \in 1..(i - 1) : /\ l[j].msg = l[i].msg
                            /\ StoredChannel(l[j].addr) = StoredChannel(l[i].addr)

Classified(l, out) ==
    [i \in DOMAIN l |->
        IF Verbatim(l, i) THEN "duplicate_row"
        ELSE IF StoredChannel(l[i].addr) \in out THEN "excluded"
        ELSE IF Repeats(l, i) THEN "duplicate_row" ELSE "not_attempted"]

Address(a) == IF StoredChannel(a) = NoChannel THEN a ELSE StoredChannel(a)

Plan(l, pending) ==
    LET together(i, j) == /\ l[i].prio = l[j].prio
                          /\ Address(l[i].addr) = Address(l[j].addr)
    IN  {[addr |-> Address(l[i].addr), rows |-> {j \in pending : together(i, j)}] :
            i \in pending}

Idle ==
    /\ addr = NoChannel /\ cid = NoChannel /\ mine = {} /\ routes = <<>> /\ toAsk = {}
    /\ answered = Blank /\ refused = FALSE /\ held = {} /\ toWalk = {}
    /\ media = Blank

Init ==
    /\ collected \in {C \in SUBSET Channels : Cardinality(C) <= 1}
    /\ username = OldHandle /\ saved = collected
    /\ edges \in {{}, {l \in Link : collected \cap {l[1], l[2]} # {}}}
    /\ tombs \in {{}, OldTombs} /\ sightings = {}
    /\ list = <<>> /\ withMedia = TRUE /\ spec = {} /\ segs = {}
    /\ outcome = <<>> /\ post = <<>> /\ chanOf = <<>>
    /\ pc = "done"
    /\ excluded = {} /\ contexts = [c \in Channels |-> NoChannel]
    /\ dead = {} /\ resolved = [h \in Handles |-> NoChannel] /\ claimed = {}
    /\ stop = FALSE /\ Idle /\ asked = {} /\ told = {} /\ refusals = {}

(* The next command: its lists are classified against the store as it is.   *)
StartCommand ==
    /\ pc = "done"
    /\ \E l \in Lists, s \in Specs \cap SUBSET collected, w \in BOOLEAN :
          LET out  == s \cup UNION {Followers(p) : p \in s}
              cl   == Classified(l, out)
          IN  /\ list' = l /\ spec' = s /\ withMedia' = w
              /\ excluded' = out /\ outcome' = cl
              /\ post' = [i \in DOMAIN l |-> "skipped"]
              /\ chanOf' = [i \in DOMAIN l |->
                    IF Verbatim(l, i) /\ l[i].addr \in Handles THEN NoChannel
                    ELSE StoredChannel(l[i].addr)]
              /\ segs' = Plan(l, {i \in DOMAIN l : cl[i] = "not_attempted"})
    /\ pc' = "segment" /\ stop' = FALSE
    /\ contexts' = [c \in Channels |-> NoChannel]
    /\ dead' = {} /\ resolved' = [h \in Handles |-> NoChannel] /\ claimed' = {}
    /\ asked' = {} /\ told' = {} /\ refusals' = {}
    /\ UNCHANGED <<disk, addr, cid, mine, work>>

-----------------------------------------------------------------------------
Reset ==
    /\ addr' = NoChannel /\ cid' = NoChannel /\ mine' = {} /\ routes' = <<>> /\ toAsk' = {}
    /\ answered' = Blank /\ refused' = FALSE /\ held' = {} /\ toWalk' = {}
    /\ media' = Blank

Advance == pc' = "segment" /\ Reset /\ UNCHANGED segs
End     == pc' = "done" /\ stop' = TRUE /\ Reset /\ segs' = {}

NoAccess(S, out) == [i \in DOMAIN out |->
    IF i \in S /\ out[i] = "not_attempted" THEN "no_access" ELSE out[i]]

Adopted(S, c) == [i \in DOMAIN chanOf |-> IF i \in S THEN c ELSE chanOf[i]]

\* Segments run in the order in which their first rows are listed.
ComesFirst(s) == \A t \in segs : \E i \in s.rows : \A j \in t.rows : i <= j

(* The segment's address may be dead already, or a handle resolved before.  *)
BeginSegment ==
    /\ pc = "segment"
    /\ \E s \in segs :
          /\ ComesFirst(s)
          /\ segs' = segs \ {s}
          /\ IF s.addr \in dead
             THEN /\ outcome' = NoAccess(s.rows, outcome)
                  /\ UNCHANGED <<chanOf, pc, addr, cid, mine, routes>>
             ELSE LET c == IF s.addr \in Channels THEN s.addr ELSE resolved[s.addr]
                  IN  /\ addr' = s.addr /\ cid' = c /\ mine' = s.rows
                      /\ IF c = NoChannel
                         THEN /\ pc' = "access" /\ routes' = <<"handle">>
                              /\ UNCHANGED chanOf
                         ELSE /\ pc' = "judge" /\ chanOf' = Adopted(s.rows, c)
                              /\ UNCHANGED routes
                      /\ UNCHANGED outcome
    /\ UNCHANGED <<disk, input, post, memory, stop, toAsk, answered, refused, held,
                   toWalk, media, ghost>>

Finish ==
    /\ pc = "segment" /\ segs = {}
    /\ pc' = "done"
    /\ UNCHANGED <<disk, input, report, segs, memory, stop, addr, cid, mine, work, ghost>>

-----------------------------------------------------------------------------
(* The channel phase.  The routes to a channel known by its id: its key on   *)
(* record, a message that mentions it, its handle.                          *)
Routes(c) == SelectSeq(<<"saved_key", "from_message", "handle">>,
    LAMBDA via : \/ via = "saved_key" /\ c \in saved
                 \/ via = "from_message" /\ c \in SeenIn
                 \/ via = "handle" /\ username[c] # NoHandle)

CurrentHandle(c) == IF \E h \in Handles : Owner[h] = c
                    THEN CHOOSE h \in Handles : Owner[h] = c ELSE NoHandle

(* Where the next route leads: a key or a reference to  *)
(* the channel itself, a handle to whoever owns it now.                     *)
Reached ==
    IF Head(routes) # "handle" THEN cid
    ELSE Owner[IF cid = NoChannel THEN addr ELSE username[cid]]

\* Mutant: a handle that changed hands is followed.
SameChannelUnchecked == TRUE

SameChannel == cid = NoChannel \/ Reached = cid

(* getFullChannel accepts the route; the answer may bring the linked chat's  *)
(* key along.                                                               *)
Establish ==
    /\ pc = "access" /\ routes # <<>> /\ SameChannel
    /\ LET c == IF cid = NoChannel THEN Reached ELSE cid
           linked == {o \in Channels : <<c, o>> \in Link \/ <<o, c>> \in Link}
       IN  /\ \E with \in SUBSET linked :
                 /\ saved' = saved \cup {c} \cup with
                 /\ username' = [o \in Channels |->
                       IF o = c \/ o \in with \ collected THEN CurrentHandle(o)
                       ELSE username[o]]
           /\ cid' = c /\ chanOf' = Adopted(mine, c)
           /\ contexts' = [contexts EXCEPT ![c] = Reached]
           /\ resolved' = IF addr \in Handles THEN [resolved EXCEPT ![addr] = c]
                          ELSE resolved
           /\ collected' = collected \cup {c}
           /\ edges' = edges \cup {l \in Link : c \in {l[1], l[2]}}
    /\ pc' = "judge" /\ routes' = <<>>
    /\ UNCHANGED <<tombs, sightings, input, outcome, post, segs, excluded, dead,
                   claimed, stop, addr, mine, toAsk, answered, refused, held, toWalk,
                   media, ghost>>

(* Telegram rejects the route, or the handle is somebody else's now: the    *)
(* next one, or none is left and the channel is refused.                    *)
RouteRefused ==
    /\ pc = "access"
    /\ IF Len(routes) > 1
       THEN /\ routes' = Tail(routes)
            /\ UNCHANGED <<pc, segs, outcome, dead, addr, cid, mine, toAsk, answered,
                           refused, held, toWalk, media, refusals>>
       ELSE /\ dead' = dead \cup ({addr, cid} \ {NoChannel})
            /\ refusals' = refusals \cup ({addr, cid} \ {NoChannel})
            /\ outcome' = NoAccess(mine, outcome)
            /\ Advance
    /\ UNCHANGED <<disk, input, post, chanOf, excluded, contexts, resolved,
                   claimed, stop, asked, told>>

(* A PhaseStop or a HardStop ends the command.                              *)
AccessStops ==
    /\ pc = "access"
    /\ End
    /\ UNCHANGED <<disk, input, report, memory, ghost>>

-----------------------------------------------------------------------------
DeadChannel ==
    /\ pc = "judge" /\ cid \in dead
    /\ outcome' = NoAccess(mine, outcome)
    /\ Advance
    /\ UNCHANGED <<disk, input, post, chanOf, memory, stop, ghost>>

(* _excludes, before a channel is established and again after.              *)
ExcludedChannel ==
    /\ pc = "judge" /\ cid \notin dead /\ Excludes(cid)
    /\ excluded' = excluded \cup {cid} \cup Followers(cid)
    /\ outcome' = [i \in DOMAIN outcome |->
          IF i \in mine /\ outcome[i] = "not_attempted" THEN "excluded" ELSE outcome[i]]
    /\ Advance
    /\ UNCHANGED <<disk, input, post, chanOf, contexts, dead, resolved, claimed,
                   stop, ghost>>

Judged == pc = "judge" /\ cid \notin dead /\ ~Excludes(cid)

EnterChannel ==
    /\ Judged /\ contexts[cid] = NoChannel
    /\ pc' = "access" /\ routes' = Routes(cid)
    /\ UNCHANGED <<disk, input, report, segs, memory, stop, addr, cid, mine, toAsk,
                   answered, refused, held, toWalk, media, ghost>>

\* Mutant: only rows of the same segment are compared.
TakenHere(i) == \E j \in mine : j < i /\ Msg(j) = Msg(i)

Taken(i) == <<cid, Msg(i)>> \in claimed \/ \E j \in mine : j < i /\ Msg(j) = Msg(i)

(* Rows of the channel that a segment had before, under whatever address.   *)
Claim ==
    /\ Judged /\ contexts[cid] # NoChannel
    /\ LET again == {i \in mine : Taken(i)}
       IN  /\ outcome' = [i \in DOMAIN outcome |->
                 IF i \in again THEN "duplicate_row" ELSE outcome[i]]
           /\ claimed' = claimed \cup {<<cid, Msg(i)>> : i \in mine}
           /\ IF again = mine THEN Advance
              ELSE /\ mine' = mine \ again
                   /\ toAsk' = {Msg(i) : i \in mine \ again}
                   /\ pc' = "posts"
                   /\ UNCHANGED <<segs, addr, cid, routes, answered, refused, held,
                                  toWalk, media>>
    /\ UNCHANGED <<disk, input, post, chanOf, excluded, contexts, dead, resolved,
                   stop, ghost>>

-----------------------------------------------------------------------------
batch == Lowest(toAsk, Batch)

\* Mutant: a live answer leaves the tombstone of an earlier run in place.
TombsKept(ans) == tombs \cup {<<cid, m>> : m \in {k \in batch : ans[k] = Gone}}

\* Mutant: the tombstone just written is cleared with the others.
TombsCleared(ans) == tombs \ ({cid} \X batch)

(* A MessageEmpty is a tombstone; a live answer clears an earlier one.      *)
TombsAfter(ans) == (tombs \ ({cid} \X batch))
                       \cup {<<cid, m>> : m \in {k \in batch : ans[k] = Gone}}

(* The posts run: channels.getMessages on the next batch.                   *)
GetMessages ==
    /\ pc = "posts"
    /\ \E ans \in [batch -> Answers] :
          /\ answered' = [m \in Msgs |-> IF m \in batch THEN ans[m] ELSE answered[m]]
          /\ tombs' = TombsAfter(ans)
          /\ told' = told \cup {<<cid, m, ans[m]>> : m \in batch}
    /\ toAsk' = toAsk \ batch
    /\ asked' = asked \cup ({cid} \X batch)
    /\ pc' = IF toAsk' = {} THEN "refresh" ELSE "posts"
    /\ UNCHANGED <<known, sightings, input, report, segs, memory, stop,
                   addr, cid, mine, routes, refused, held, toWalk, media, refusals>>

(* The posts phase ends early: refused, or stopped by a flood, a HardStop   *)
(* or an unexpected error.                                                  *)
PostsFail(hard) ==
    /\ pc = "posts"
    /\ pc' = "refresh"
    /\ IF hard THEN stop' = TRUE /\ UNCHANGED <<refused, refusals>>
       ELSE /\ refused' = TRUE /\ refusals' = refusals \cup {addr, cid}
            /\ UNCHANGED stop
    /\ UNCHANGED <<disk, input, report, segs, memory, addr, cid, mine, routes, toAsk,
                   answered, held, toWalk, media, asked, told>>

Sighted(c, f)   == \E m \in Msgs : <<c, m, f>> \in sightings
HeldFile(f)     == \E c \in Channels : Sighted(c, f)

\* Mutant: a file counts as held as soon as its key is known.
KnowsFile(m)    == answered[m] \in Files

HoldsFile(m)    == answered[m] \in Files /\ HeldFile(answered[m])

(* What the media run must walk: a file the store lacks, or one that it has *)
(* from this channel and that this message has no sighting of yet.          *)
Due(m) == /\ answered[m] \in Files
          /\ \/ ~HeldFile(answered[m])
             \/ Sighted(cid, answered[m]) /\ <<cid, m, answered[m]>> \notin sightings

Selected == {m \in Msgs : Due(m) /\ <<cid, m>> \notin tombs}

(* _refresh_rows, on the posts just stored; the media run passes over what   *)
(* is tombstoned.                                                           *)
Refresh ==
    /\ pc = "refresh"
    /\ held' = {i \in mine : HoldsFile(Msg(i))}
    /\ toWalk' = IF withMedia /\ ~refused /\ ~stop THEN Selected ELSE {}
    /\ pc' = IF toWalk' = {} THEN "settle" ELSE "media"
    /\ UNCHANGED <<disk, input, report, segs, memory, stop, addr, cid, mine, routes,
                   toAsk, answered, refused, media, ghost>>

(* The media store cannot be reached: the command ends, and the clean-up    *)
(* refreshes the rows after all or forgets what it knew of their files.     *)
RefreshFails ==
    /\ pc = "refresh"
    /\ held' \in {{}, {i \in mine : HoldsFile(Msg(i))}}
    /\ stop' = (stop \/ ~refused)
    /\ pc' = "settle"
    /\ UNCHANGED <<disk, input, report, segs, memory, addr, cid, mine, routes, toAsk,
                   answered, refused, toWalk, media, ghost>>

walk == CHOOSE m \in toWalk : \A k \in toWalk : m <= k

(* The media run on the next selected message: a file seen in this channel   *)
(* before is only sighted again; another is downloaded (under a name that    *)
(* some other writer may just have created) or left out.                    *)
WalkMedia ==
    /\ pc = "media"
    /\ LET file == answered[walk]
       IN  \E end \in IF Sighted(cid, file) THEN {"duplicate"}
                      ELSE {"downloaded", "duplicate", "skipped"} :
              /\ media' = [media EXCEPT ![walk] = end]
              /\ sightings' = IF end = "skipped" THEN sightings
                              ELSE sightings \cup {<<cid, walk, file>>}
    /\ toWalk' = toWalk \ {walk}
    /\ pc' = IF toWalk' = {} THEN "settle" ELSE "media"
    /\ UNCHANGED <<known, tombs, input, report, segs, memory, stop, addr, cid,
                   mine, routes, toAsk, answered, refused, held, ghost>>

MediaStops ==
    /\ pc = "media"
    /\ pc' = "settle" /\ stop' = TRUE
    /\ UNCHANGED <<disk, input, report, segs, memory, addr, cid, mine, work, ghost>>

(* _settle: the outcome's precedence.                                       *)
Final(i) ==
    LET m == Msg(i)
    IN  IF media[m] # "none" THEN media[m]
        ELSE IF answered[m] = "none" THEN outcome[i]
        ELSE IF answered[m] = Gone THEN "deleted_upstream"
        ELSE IF i \in held THEN "already_stored"
        ELSE IF ~withMedia THEN "post_only"
        ELSE IF answered[m] = Text THEN "no_media" ELSE outcome[i]

(* The segment ends: its rows are settled whatever happened.                *)
Settle ==
    /\ pc = "settle"
    /\ LET settled == [i \in DOMAIN outcome |->
                         IF i \in mine THEN Final(i) ELSE outcome[i]]
       IN  outcome' = IF refused /\ ~stop THEN NoAccess(mine, settled) ELSE settled
    /\ post' = [i \in DOMAIN post |->
          IF i \notin mine \/ answered[Msg(i)] = "none" THEN post[i]
          ELSE IF answered[Msg(i)] = Gone THEN "deleted_upstream" ELSE "fetched"]
    /\ dead' = IF refused /\ ~stop THEN dead \cup {addr, cid} ELSE dead
    /\ IF stop THEN End ELSE Advance /\ UNCHANGED stop
    /\ UNCHANGED <<disk, input, chanOf, excluded, contexts, resolved, claimed, ghost>>

Next ==
    \/ StartCommand \/ BeginSegment \/ Finish
    \/ Establish \/ RouteRefused \/ AccessStops
    \/ DeadChannel \/ ExcludedChannel \/ EnterChannel \/ Claim
    \/ GetMessages \/ PostsFail(TRUE) \/ PostsFail(FALSE)
    \/ Refresh \/ RefreshFails \/ WalkMedia \/ MediaStops \/ Settle

Spec == Init /\ [][Next]_vars

-----------------------------------------------------------------------------
(* Every variable keeps its type.                                           *)
TypeOK ==
    /\ collected \subseteq saved /\ saved \subseteq Channels
    /\ username \in [Channels -> Handles \cup {NoHandle}] /\ edges \subseteq Link
    /\ tombs \subseteq Channels \X Msgs
    /\ sightings \subseteq Channels \X Msgs \X Files
    /\ list \in Lists \cup {<<>>} /\ withMedia \in BOOLEAN /\ spec \subseteq collected
    /\ outcome \in [DOMAIN list -> Outcomes]
    /\ chanOf \in [DOMAIN list -> Channels \cup {NoChannel}]
    /\ post \in [DOMAIN list -> {"skipped", "fetched", "deleted_upstream"}]
    /\ pc \in {"done", "segment", "access", "judge", "posts", "refresh",
               "media", "settle"}
    /\ segs \subseteq [addr : Channels \cup Handles, rows : SUBSET DOMAIN list]
    /\ addr \in Channels \cup Handles \cup {NoChannel} /\ mine \subseteq DOMAIN list
    /\ excluded \subseteq Channels /\ contexts \in [Channels -> Channels \cup {NoChannel}]
    /\ dead \subseteq Channels \cup Handles
    /\ resolved \in [Handles -> Channels \cup {NoChannel}]
    /\ claimed \subseteq Channels \X Msgs /\ stop \in BOOLEAN
    /\ cid \in Channels \cup {NoChannel}
    /\ toAsk \subseteq Msgs /\ answered \in [Msgs -> Answers \cup {"none"}]
    /\ refused \in BOOLEAN /\ held \subseteq mine /\ toWalk \subseteq Msgs
    /\ media \in [Msgs -> {"none", "downloaded", "duplicate", "skipped"}]
    /\ asked \subseteq Channels \X Msgs /\ told \subseteq Channels \X Msgs \X Answers
    /\ refusals \subseteq Channels \cup Handles

OffLimits == spec \cup {l[2] : l \in {k \in Link : k[1] \in spec}}

(* "Exclusion is fail-closed" and one-way (docs/features/fetch-from-list.md): *)
(* no post of an excluded channel, or of the group of one, is ever asked     *)
(* for, however the row addresses it and whatever the store knew of the      *)
(* link, and nothing else is reported excluded.  Nor can a handle that has   *)
(* changed hands lead around it: what is asked and stored under a channel's  *)
(* id is asked of that channel.                                              *)
OnlyTheRightChannel ==
    /\ \A p \in asked : p[1] \notin OffLimits
    /\ \A i \in DOMAIN list : outcome[i] = "excluded" => chanOf[i] \in OffLimits
    /\ \A c \in Channels : contexts[c] \in {c, NoChannel}

(* "Nothing is fetched twice": a message named by several rows, by id and by *)
(* handle, under several priorities, is asked for once per command.  And     *)
(* "media already in the run's store is not downloaded again"                *)
(* (fetch-from-list.md:272), not for a repost, another channel's post, a     *)
(* later segment or a re-run: only a file that is nowhere is streamed.  Nor  *)
(* is anything taken back: no later segment, refusal or clean-up (the        *)
(* finally of _run_segments) turns one outcome of a row into another, and a  *)
(* row known to lead to a channel never moves to another (_adopt_channel).   *)
NothingIsRedone ==
    [][/\ GetMessages => \A m \in batch : <<cid, m>> \notin asked
       /\ WalkMedia => \/ Sighted(cid, answered[walk])
                       \/ ~HeldFile(answered[walk])
       /\ pc # "done" => \A i \in DOMAIN list :
             /\ outcome[i] # "not_attempted" =>
                   outcome'[i] = outcome[i] /\ post'[i] = post[i]
             /\ chanOf[i] # NoChannel => chanOf'[i] = chanOf[i]]_vars

(* A command nobody stopped leaves no row unattempted (exit code 0), and     *)
(* whoever is told of no access was refused in this very command: by         *)
(* Telegram, for want of a route, or because a handle leads elsewhere now.   *)
EveryRowIsSettled ==
    /\ pc = "done" /\ ~stop =>
          \A i \in DOMAIN list : outcome[i] # "not_attempted"
    /\ \A i \in DOMAIN list : outcome[i] = "no_access" =>
          {list[i].addr, chanOf[i]} \cap refusals # {}

Names(i, j) == /\ Msg(i) = Msg(j)
               /\ \/ list[i].addr = list[j].addr
                  \/ chanOf[i] # NoChannel /\ chanOf[i] = chanOf[j]

\* Nothing is left to record of file f, found at message m of channel c: the
\* store holds it, and m has its sighting, or it is only another channel's.
InOrder(c, m, f) ==
    HeldFile(f) /\ (<<c, m, f>> \in sightings \/ ~Sighted(c, f))

\* Whether the media of channel c were gone through to the end.
SeenThrough(c) == withMedia /\ ~stop /\ c \notin refusals

\* What outcome o says of message m of channel c is so.
IsSo(o, c, m) ==
    /\ o \in {"downloaded", "duplicate"} =>
          \E f \in Files : <<c, m, f>> \in told \cap sightings
    /\ o = "already_stored" =>
          \E f \in Files : /\ <<c, m, f>> \in told /\ HeldFile(f)
                           /\ SeenThrough(c) => InOrder(c, m, f)
    /\ o = "no_media" => <<c, m, Text>> \in told
    /\ o = "deleted_upstream" => <<c, m, Gone>> \in told /\ <<c, m>> \in tombs

(* The report tells the truth (the outcomes of fetch-from-list.md:145-152).  *)
(* A row said to be downloaded or a duplicate has its own custody row, for   *)
(* the very file that Telegram's answer named in this command; one said to   *)
(* be already stored has that file in the store, and its custody row too     *)
(* unless only another channel has the file (fetch-from-list.md:366) or the  *)
(* media run was cut short or not wanted; one without media was answered     *)
(* without; a deleted one was answered so and has its tombstone.  A fetched  *)
(* post was asked for.  And a row set aside as a duplicate leads to an       *)
(* original that is not (a line repeated in the list by way of its first     *)
(* occurrence): no message falls between two rows that each take the other   *)
(* for it, whichever of them is met first.                                   *)
ReportIsTrue ==
    \A i \in DOMAIN list :
        /\ IsSo(outcome[i], chanOf[i], Msg(i))
        /\ post[i] # "skipped" => <<chanOf[i], Msg(i)>> \in asked
        /\ outcome[i] = "duplicate_row" =>
              \E j, k \in DOMAIN list :
                  Names(i, j) /\ Names(j, k) /\ outcome[k] # "duplicate_row"

-----------------------------------------------------------------------------
(* The inductive invariant of FetchFromListProofs, part by part.            *)

\* A segment starts from a blank slate, and fills it in the order of its phases.
Phased ==
    /\ pc = "done" => segs = {}
    /\ pc \in {"done", "segment"} => Idle
    /\ pc \notin {"done", "segment"} => addr # NoChannel
    /\ pc \in {"access", "judge"} => toAsk = {} /\ answered = Blank
    /\ pc \in {"access", "judge", "posts"} => ~refused
    /\ pc \in {"access", "judge", "posts", "refresh"} =>
          held = {} /\ toWalk = {} /\ media = Blank
    /\ pc = "media" => toWalk # {}
    /\ pc = "settle" /\ ~stop /\ ~refused => toWalk = {}

\* The rows of a segment, waiting or in hand, are those of its address.
Addressed ==
    /\ addr \in Channels => cid = addr
    /\ pc \in {"judge", "posts", "refresh", "media", "settle"} => cid # NoChannel
    /\ pc = "access" /\ cid = NoChannel => addr \in Handles /\ routes = <<"handle">>
    /\ \A i \in mine : chanOf[i] = cid /\ (addr \in Handles => list[i].addr = addr)
    /\ \A s \in segs : \A i \in s.rows :
          IF s.addr \in Channels THEN chanOf[i] = s.addr
          ELSE chanOf[i] = NoChannel /\ list[i].addr = s.addr

\* A row nobody attempted yet is in exactly one segment.
Pending ==
    /\ \A i \in mine : outcome[i] = "not_attempted" /\ post[i] = "skipped"
    /\ \A s \in segs :
          /\ \A i \in s.rows : outcome[i] = "not_attempted" /\ post[i] = "skipped"
          /\ s.rows \cap mine = {}
          /\ \A t \in segs : s = t \/ s.rows \cap t.rows = {}
    /\ ~stop => \A i \in DOMAIN list : outcome[i] = "not_attempted" =>
                   i \in mine \/ \E s \in segs : i \in s.rows

\* What is excluded is off limits, and a context shows every link of its channel.
Linked ==
    /\ \A l \in edges : {l[1], l[2]} \cap collected # {}
    /\ spec \subseteq excluded /\ excluded \subseteq OffLimits
    /\ \A c \in Channels : contexts[c] # NoChannel =>
          \A l \in Link : c \in {l[1], l[2]} => l \in edges
    /\ pc \in {"posts", "refresh", "media", "settle"} => cid \notin OffLimits

\* Whoever counts as dead was refused in this command.
Refused ==
    /\ dead \subseteq refusals
    /\ refused => {addr, cid} \subseteq refusals
    /\ \A i \in DOMAIN list : outcome[i] = "no_access" =>
          {list[i].addr, chanOf[i]} \cap refusals # {}

\* Whatever is asked is claimed, once, and its answer is in the store.
Asked ==
    /\ asked \subseteq claimed
    /\ \A m \in toAsk : <<cid, m>> \in claimed \ asked
    /\ \A m \in Msgs : answered[m] # "none" =>
          <<cid, m>> \in asked /\ <<cid, m, answered[m]>> \in told
    /\ \A m \in Msgs : answered[m] = Gone => <<cid, m>> \in tombs
    /\ \A m \in Msgs : answered[m] \in Files => <<cid, m>> \notin tombs
    /\ pc \in {"posts", "refresh", "media", "settle"} =>
          \A i \in mine : answered[Msg(i)] = "none" => Msg(i) \in toAsk
    /\ pc \in {"refresh", "media", "settle"} => refused \/ stop \/ toAsk = {}

\* A file to be sighted again, or to be streamed.
New(f) == Sighted(cid, f) \/ ~HeldFile(f)

\* What the media run has before it, and what it leaves.
Walked ==
    /\ \A m \in toWalk : answered[m] \in Files /\ New(answered[m])
    /\ \A m \in Msgs : media[m] # "none" => answered[m] \in Files
    /\ \A m \in Msgs : media[m] \in {"downloaded", "duplicate"} =>
          <<cid, m, answered[m]>> \in sightings
    /\ \A i \in held : HoldsFile(Msg(i))
    /\ pc \in {"media", "settle"} /\ withMedia =>
          \/ refused \/ stop
          \/ \A i \in mine \ held :
                answered[Msg(i)] \in Files /\ media[Msg(i)] = "none" => Msg(i) \in toWalk
    /\ pc \in {"media", "settle"} /\ withMedia =>
          \/ refused \/ stop
          \/ \A m \in Msgs : answered[m] \in Files /\ media[m] = "none" =>
                m \in toWalk \/ InOrder(cid, m, answered[m])

\* What the report says of a row's message is so.
Reported ==
    \A i \in DOMAIN list :
        /\ IsSo(outcome[i], chanOf[i], Msg(i))
        /\ outcome[i] = "deleted_upstream" => <<chanOf[i], Msg(i)>> \in asked
        /\ post[i] # "skipped" => <<chanOf[i], Msg(i)>> \in asked

\* A row of channel c that stands for its message m.
StandsFor(k, c, m) == chanOf[k] = c /\ Msg(k) = m /\ outcome[k] # "duplicate_row"

\* Row k has been through the claim of its segment, if it ever comes to one.
PastClaim(k) ==
    /\ \A s \in segs : k \notin s.rows
    /\ k \in mine => pc \notin {"access", "judge"}

\* A claimed message has a row that stands for it, and no row is lost.
Covered(j) ==
    \/ outcome[j] # "duplicate_row"
    \/ /\ chanOf[j] # NoChannel
       /\ \E k \in DOMAIN list : StandsFor(k, chanOf[j], Msg(j))

Duplicates ==
    /\ \A p \in claimed : \E k \in DOMAIN list : StandsFor(k, p[1], p[2]) /\ PastClaim(k)
    /\ \A i \in DOMAIN list : \E j \in DOMAIN list :
          list[j].addr = list[i].addr /\ Msg(j) = Msg(i) /\ Covered(j)

IInv == TypeOK /\ Phased /\ Addressed /\ Pending /\ Linked /\ Refused
            /\ OnlyTheRightChannel /\ Asked /\ Walked /\ Reported /\ Duplicates
=============================================================================
