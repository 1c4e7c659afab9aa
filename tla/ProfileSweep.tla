---------------------------- MODULE ProfileSweep ----------------------------
(***************************************************************************)
(* The profiles phase (collectors/profiles.py): triage of every discovered *)
(* person by batched users.getUsers, bisected when one stale reference     *)
(* fails the vector, and full enrichment of at most Budget of them, in the *)
(* rotation that profile_attempts keeps across runs.  Between runs people  *)
(* are discovered and re-sighted; Telegram's view of a reference changes   *)
(* at any time; a run may stop or be killed between any two statements.    *)
(*                                                                         *)
(* Stamps of profile_attempts are only ever compared, so they are kept as  *)
(* their ranks: 0 is no row, 1 the least recent attempt.  The clock moves  *)
(* between two attempts, an RPC apart.  The two durations (the dead-ref    *)
(* cooldown, the refresh floor) are looked at once, when a triage and an   *)
(* enrichment start, so they run out between runs.                         *)
(***************************************************************************)
EXTENDS Integers, Sequences, FiniteSets

CONSTANTS
    N,             \* bound: people 1..N, numbered in uri order
    Priority,      \* admin 0, author 1, commenter 2, other 3, per person
    Budget,        \* settings.profile_budget
    Batch,         \* _GET_USERS_BATCH
    Hidden,        \* Telegram: who is answered as UserEmpty
    MaxChanges,    \* bound: re-sightings and changes on Telegram's side
    MaxStops       \* bound: runs stopped or killed

ASSUME ProfileAssumption ==
    /\ N \in Nat /\ Priority \in [1..N -> 0..3]
    /\ Hidden \subseteq 1..N
    /\ Budget \in Nat \ {0} /\ Batch \in Nat \ {0}
    /\ MaxChanges \in Nat /\ MaxStops \in Nat

Users == 1..N

\* What input_user_ref builds: nothing, a reference through the message the
\* person was seen in, one through a later message, or a full access hash.
Refs == {"none", "stub", "newer", "hash"}

Passes == {"none", "triage_only", "initial", "refresh"}

VARIABLES
    known,     \* peers of kind user
    ref,       \* what input_user_ref answers for each
    marker,    \* sync_state(profiles_dead_ref): the ref it names, "none" if absent
    cooled,    \* those whose marker is past DEAD_REF_COOLDOWN_SECONDS
    stamp,     \* profile_attempts.attempted_at, as a rank
    fresh,     \* those whose enriched_at is younger than profile_refresh_after
    pass,      \* sync_state('profiles').pass
    refused,   \* Telegram: whose current ref fails the whole vector
    changes, stops   \* bound counters

VARIABLES
    pc,        \* where the run stands
    batches,   \* triage: vectors still to ask, the next one first
    clearing,  \* answered vector: markers still to clear
    replies,   \* answered vector: users still to project
    unusable,  \* unusable_uris
    todo,      \* enrichment candidates not considered yet
    untried,   \* candidates never attempted, this run included
    asking,    \* who users.getFullUser is out for
    spent,     \* local spent
    heard,     \* history: whose ref this run's triage got an answer about
    late       \* history: who got a reference in the middle of the enrichment

peers  == <<known, ref>>
dead   == <<marker, cooled>>
people == <<stamp, fresh>>
bounds == <<changes, stops>>
triage == <<batches, clearing, replies, heard>>
turn   == <<todo, untried, asking, spent, late>>
vars   == <<peers, dead, people, pass, refused, bounds, pc, triage, unusable, turn>>

Init ==
    /\ known = {} /\ ref = [u \in Users |-> "none"]
    /\ marker = [u \in Users |-> "none"] /\ cooled = {}
    /\ stamp = [u \in Users |-> 0] /\ fresh = {} /\ pass = "none"
    /\ refused = {}
    /\ changes = 0 /\ stops = 0
    /\ pc = "idle" /\ batches = <<>> /\ clearing = <<>> /\ replies = <<>>
    /\ unusable = {} /\ todo = {} /\ untried = {}
    /\ asking = 1 /\ spent = 0 /\ heard = {} /\ late = {}

-----------------------------------------------------------------------------
(* A phase before this one meets a person for the first time.               *)
Discover ==
    /\ pc = "idle"
    /\ \E u \in Users \ known, r \in Refs \ {"newer"} :
          /\ known' = known \cup {u}
          /\ ref' = [ref EXCEPT ![u] = r]
          /\ \/ UNCHANGED refused
             \/ r # "none" /\ refused' = refused \cup {u}
    /\ UNCHANGED <<dead, people, pass, bounds, pc, triage, unusable, turn>>

(* A person without a full hash is seen in a later message.                 *)
Sight ==
    /\ pc = "idle" /\ changes < MaxChanges
    /\ changes' = changes + 1
    /\ \E u \in known, r \in {"stub", "newer"} :
          /\ ref[u] \notin {"hash", r}
          /\ ref' = [ref EXCEPT ![u] = r]
          /\ refused' \in {refused \cup {u}, refused \ {u}}
    /\ UNCHANGED <<known, dead, people, pass, stops, pc, triage,
                   unusable, turn>>

(* The message behind a reference is deleted, or resolves again.            *)
TurnStale ==
    /\ changes < MaxChanges
    /\ changes' = changes + 1
    /\ \E u \in known :
          refused' = IF u \in refused THEN refused \ {u} ELSE refused \cup {u}
    /\ UNCHANGED <<peers, dead, people, pass, stops, pc, triage,
                   unusable, turn>>

(* The operator lets time pass: some cooldowns and refresh floors run out.  *)
Pause(C, F) ==
    /\ pc = "idle"
    /\ cooled' = cooled \cup C /\ fresh' = fresh \ F
    /\ UNCHANGED <<peers, marker, stamp, pass, refused, bounds, pc, triage,
                   unusable, turn>>

-----------------------------------------------------------------------------
KnownDead(u) == marker[u] # "none" /\ marker[u] = ref[u] /\ u \notin cooled

InOrder(S) == CHOOSE q \in [1..Cardinality(S) -> S] :
                 \A i, j \in DOMAIN q : i < j => q[i] < q[j]

Chunks(q) == [k \in 1..((Len(q) + Batch - 1) \div Batch) |->
                SubSeq(q, (k - 1) * Batch + 1,
                       IF k * Batch < Len(q) THEN k * Batch ELSE Len(q))]

(* _gather: everyone with a ref that is not held back, in uri order.        *)
StartRun ==
    /\ pc = "idle"
    /\ pc' = "triage"
    /\ LET resolvable == {u \in known : ref[u] # "none"}
           held       == {u \in resolvable : KnownDead(u)}
       IN  /\ batches' = Chunks(InOrder(resolvable \ held))
           /\ unusable' = held
    /\ heard' = {}
    /\ UNCHANGED <<peers, dead, people, pass, refused, bounds, clearing, replies, turn>>

vector  == Head(batches)
InVector(q) == {q[i] : i \in 1..Len(q)}

\* Mutant: the second half is never asked.
HalvesFirstOnly(q) == <<SubSeq(q, 1, Len(q) \div 2)>>

Halves(q) == LET mid == Len(q) \div 2
             IN  <<SubSeq(q, 1, mid), SubSeq(q, mid + 1, Len(q))>>

\* Mutant: a failing pair is not split any further.
LoneFailureInPairs(q) == Len(q) <= 2

LoneFailure(q) == Len(q) = 1

(* One stale ref fails the vector: bisect, or hold the lone ref back.       *)
TriageFails ==
    /\ pc = "triage" /\ batches # <<>>
    /\ InVector(vector) \cap refused # {}
    /\ IF LoneFailure(vector)
       THEN LET u == vector[1]
            IN  /\ marker' = [marker EXCEPT ![u] = ref[u]]
                /\ cooled' = cooled \ {u}
                /\ unusable' = unusable \cup {u}
                /\ heard' = heard \cup {u}
                /\ batches' = Tail(batches)
       ELSE /\ batches' = Halves(vector) \o Tail(batches)
            /\ UNCHANGED <<dead, unusable, heard>>
    /\ UNCHANGED <<peers, people, pass, refused, bounds, pc, clearing, replies, turn>>

TriageAnswers ==
    /\ pc = "triage" /\ batches # <<>>
    /\ InVector(vector) \cap refused = {}
    /\ clearing' = vector /\ replies' = vector
    /\ heard' = heard \cup InVector(vector)
    /\ batches' = Tail(batches)
    /\ pc' = "project"
    /\ UNCHANGED <<peers, dead, people, pass, refused, bounds, unusable, turn>>

(* None of the refs that answered is dead any more.                         *)
ClearMarker ==
    /\ pc = "project" /\ clearing # <<>>
    /\ marker' = [marker EXCEPT ![Head(clearing)] = "none"]
    /\ cooled' = cooled \ {Head(clearing)}
    /\ clearing' = Tail(clearing)
    /\ UNCHANGED <<peers, people, pass, refused, bounds, pc, batches, replies,
                   heard, unusable, turn>>

(* _project_triaged: a UserEmpty is unusable; a User is projected, and may  *)
(* bring a full access hash.                                                *)
ProjectTriaged ==
    /\ pc = "project" /\ clearing = <<>>
    /\ IF replies = <<>>
       THEN pc' = "triage" /\ UNCHANGED <<ref, unusable, replies>>
       ELSE LET u == Head(replies)
            IN  /\ replies' = Tail(replies)
                /\ IF u \in Hidden
                   THEN unusable' = unusable \cup {u} /\ UNCHANGED ref
                   ELSE /\ ref' \in {ref, [ref EXCEPT ![u] = "hash"]}
                        /\ UNCHANGED unusable
                /\ UNCHANGED pc
    /\ UNCHANGED <<known, dead, people, pass, refused, bounds, batches, clearing,
                   heard, turn>>

(* A run's locals do not outlive it.                                        *)
EndRun ==
    /\ pc' = "idle"
    /\ batches' = <<>> /\ clearing' = <<>> /\ replies' = <<>> /\ heard' = {}
    /\ unusable' = {} /\ todo' = {} /\ untried' = {} /\ asking' = 1 /\ spent' = 0
    /\ late' = {}

(* Without --profiles the run ends after triage.                            *)
EndTriageOnly ==
    /\ pc = "triage" /\ batches = <<>>
    /\ pass' = "triage_only"
    /\ EndRun
    /\ UNCHANGED <<peers, dead, people, refused, bounds>>

-----------------------------------------------------------------------------
(* _enrichment_candidates, and the one `now` the refresh floor is judged    *)
(* against.                                                                 *)
RankCandidates ==
    /\ pc = "triage" /\ batches = <<>>
    /\ pc' = "enrich"
    /\ todo' = known /\ untried' = {u \in known : stamp[u] = 0}
    /\ spent' = 0 /\ heard' = {}
    /\ UNCHANGED <<peers, dead, people, pass, refused, bounds, batches, clearing,
                   replies, unusable, asking, late>>

\* Mutant: the priorities come before the rotation.
BeforeByPriority(u, v) ==
    \/ Priority[u] < Priority[v]
    \/ Priority[u] = Priority[v] /\ stamp[u] < stamp[v]
    \/ Priority[u] = Priority[v] /\ stamp[u] = stamp[v] /\ u < v

(* Never attempted first, by priority and uri; then the least recently      *)
(* attempted.  A turn moves its user behind everyone, so the order of those *)
(* still to consider is the order the query returned.                       *)
Before(u, v) ==
    \/ stamp[u] < stamp[v]
    \/ /\ stamp[u] = stamp[v]
       /\ \/ Priority[u] < Priority[v]
          \/ Priority[u] = Priority[v] /\ u < v

candidate == CHOOSE u \in todo : \A v \in todo \ {u} : Before(u, v)

Excused(u) == u \in unusable \/ u \in fresh \/ ref[u] = "none"

PassOver ==
    /\ pc = "enrich" /\ todo # {} /\ spent < Budget
    /\ Excused(candidate)
    /\ todo' = todo \ {candidate}
    /\ UNCHANGED <<peers, dead, people, pass, refused, bounds, pc, triage, unusable,
                   untried, asking, spent, late>>

\* Mutant: the upsert of profile_attempts does nothing on a conflict.
MovedBackOnce(u) ==
    [v \in Users |-> IF v = u /\ stamp[v] = 0
                     THEN Cardinality({w \in Users : stamp[w] # 0}) + 1 ELSE stamp[v]]

(* The newest stamp of all: u behind everyone.                              *)
MovedBack(u) ==
    [v \in Users |-> IF v = u THEN Cardinality({w \in Users : stamp[w] # 0} \cup {u})
                     ELSE IF 0 < stamp[u] /\ stamp[u] < stamp[v]
                          THEN stamp[v] - 1 ELSE stamp[v]]

(* A slot is spent: the rotation moves before the outcome is known.         *)
Attempt ==
    /\ pc = "enrich" /\ todo # {} /\ spent < Budget
    /\ ~Excused(candidate)
    /\ spent' = spent + 1
    /\ stamp' = MovedBack(candidate)
    /\ untried' = untried \ {candidate}
    /\ todo' = todo \ {candidate}
    /\ asking' = candidate
    /\ pc' = "asking"
    /\ UNCHANGED <<peers, dead, fresh, pass, refused, bounds, triage, unusable, late>>

(* users.getFullUser is refused or answered malformed.                      *)
FetchFails ==
    /\ pc = "asking"
    /\ pc' = "enrich"
    /\ UNCHANGED <<peers, dead, people, pass, refused, bounds, triage, unusable, turn>>

(* The answer's chats come with their keys, and whoever was seen in such a  *)
(* chat can be referred to from now on; the subject is known as own.        *)
ChatsProjected(own) ==
    /\ pc = "asking" /\ asking \notin refused
    /\ \E keyed \in SUBSET ({u \in known : ref[u] = "none"} \ {asking}) :
          /\ ref' = [u \in Users |-> IF u = asking THEN own
                                    ELSE IF u \in keyed THEN "stub" ELSE ref[u]]
          /\ late' = late \cup keyed
    /\ pc' = "enrich"
    /\ UNCHANGED <<known, dead, stamp, pass, refused, bounds, triage, unusable,
                   todo, untried, asking, spent>>

(* The profile is projected, and may bring a full access hash.              *)
FetchSucceeds ==
    /\ \E own \in {ref[asking], "hash"} : ChatsProjected(own)
    /\ fresh' = fresh \cup {asking}

(* The subject is the account itself: only the chats are kept.              *)
FetchIsOurs ==
    /\ ChatsProjected(ref[asking])
    /\ UNCHANGED fresh

\* Mutant: budget left over is taken for a pass that is complete.
PassLabelByBudget == IF spent = Budget THEN "initial" ELSE "refresh"

PassLabel ==
    IF \E u \in untried : u \notin unusable /\ ref[u] # "none"
    THEN "initial" ELSE "refresh"

Finish ==
    /\ pc = "enrich"
    /\ todo = {} \/ spent >= Budget
    /\ pass' = PassLabel
    /\ EndRun
    /\ UNCHANGED <<peers, dead, people, refused, bounds>>

(* A flood above the threshold: the summary is recorded on the way out.     *)
PhaseStop ==
    /\ pc \in {"triage", "enrich", "asking"} /\ stops < MaxStops
    /\ stops' = stops + 1
    /\ pass' = IF pc = "triage" THEN "triage_only" ELSE PassLabel
    /\ EndRun
    /\ UNCHANGED <<peers, dead, people, refused, changes>>

(* A kill or a HardStop: nothing is recorded.                               *)
Kill ==
    /\ pc # "idle" /\ stops < MaxStops
    /\ stops' = stops + 1
    /\ EndRun
    /\ UNCHANGED <<peers, dead, people, pass, refused, changes>>

-----------------------------------------------------------------------------
Triage == TriageFails \/ TriageAnswers \/ ClearMarker \/ ProjectTriaged
          \/ EndTriageOnly
Enrich == PassOver \/ Attempt \/ Finish
          \/ FetchFails \/ FetchSucceeds \/ FetchIsOurs

Next == \/ Discover \/ Sight \/ TurnStale
        \/ \E C \in SUBSET {u \in Users : marker[u] # "none"}, F \in SUBSET fresh :
              Pause(C, F)
        \/ StartRun \/ Triage \/ RankCandidates \/ Enrich
        \/ PhaseStop \/ Kill

Spec == Init /\ [][Next]_vars

(* The phase is sequential code and keeps going; the operator keeps         *)
(* re-running, passes --profiles again and again, and again and again lets  *)
(* all cooldowns and refresh floors run out.                                *)
FairSpec == /\ Spec
            /\ WF_vars(StartRun \/ Triage \/ Enrich) /\ SF_vars(RankCandidates)
            /\ SF_vars(Pause({u \in Users : marker[u] # "none"}, fresh))

-----------------------------------------------------------------------------
(* Every variable keeps its type; no vector is empty, and the budget is     *)
(* never exceeded.                                                          *)
TypeOK ==
    /\ known \subseteq Users /\ ref \in [Users -> Refs]
    /\ marker \in [Users -> Refs] /\ cooled \subseteq Users
    /\ stamp \in [Users -> 0..N] /\ fresh \subseteq Users /\ pass \in Passes
    /\ refused \subseteq Users
    /\ changes \in 0..MaxChanges /\ stops \in 0..MaxStops
    /\ pc \in {"idle", "triage", "project", "enrich", "asking"}
    /\ batches \in Seq(Seq(Users) \ {<<>>})
    /\ clearing \in Seq(Users) /\ replies \in Seq(Users)
    /\ unusable \subseteq Users /\ todo \subseteq Users
    /\ untried \subseteq Users /\ asking \in Nat /\ spent \in 0..Budget
    /\ heard \subseteq Users /\ late \subseteq Users

(* A healthy reference is never held back for its neighbours' sake (issue   *)
(* #54): a marker is only ever written for a ref Telegram refused when it   *)
(* was asked about that ref alone.                                          *)
OnlyProvenDead ==
    [][\A u \in Users : marker'[u] \notin {"none", marker[u]}
           => u \in refused /\ marker'[u] = ref[u] /\ vector = <<u>>]_vars

(* Bisection loses nobody (plan D13): when a triage ends, each person with  *)
(* a reference was answered about, proved dead, or is held back.            *)
TriageHearsEveryone ==
    pc = "triage" /\ batches = <<>> =>
        \A u \in known : ref[u] # "none" => u \in heard \/ u \in unusable

WaitsLonger(v, u) ==
    \/ stamp[v] < stamp[u]
    \/ stamp[v] = 0 /\ stamp[u] = 0 /\ Priority[v] < Priority[u]

(* The rotation (ADR-0006): a slot goes to a person only when everybody who *)
(* waits longer - never attempted and of a better priority, or attempted    *)
(* less recently - cannot use one, whatever was discovered, failed, stopped *)
(* or killed since, or had come up in this run before the answer that made  *)
(* a reference to them; so one who keeps failing costs one slot per lap.    *)
NobodyOvertaken ==
    [][Attempt => \A v \in known :
          WaitsLonger(v, asking') => Excused(v) \/ v \in late \ todo]_vars

(* "The population's first pass is complete" (profiles.py:400-407): a run   *)
(* that ends as a refresh, even early, leaves no usable person untried.     *)
PassIsHonest ==
    [][(Finish \/ PhaseStop) /\ pass' = "refresh" =>
          \A u \in known \ unusable : ref[u] # "none" => stamp[u] # 0]_vars

Healthy(u) == u \in known \ (refused \cup Hidden) /\ ref[u] # "none"

(* Nobody starves (profiles.py:588-612): whoever stays reachable gets a     *)
(* turn again and again, however the other turns end.                       *)
EveryoneGetsATurn ==
    \A u \in Users : <>[]Healthy(u) => []<>(pc = "asking" /\ asking = u)

-----------------------------------------------------------------------------
(* What the safety properties rest on.  Stamps are ranks: nobody shares one  *)
(* and none is beyond their number.                                          *)
Stamped == {u \in Users : stamp[u] # 0}

Ranked ==
    /\ \A u \in Users : stamp[u] <= Cardinality(Stamped)
    /\ \A u, v \in Users : stamp[u] = stamp[v] /\ u # v => stamp[u] = 0

(* While a triage runs, whoever has a reference was answered about, is held  *)
(* back, or is in a vector still to ask.                                     *)
InVectors(b) == UNION {InVector(b[k]) : k \in 1..Len(b)}

Accounted ==
    /\ pc = "idle" => replies = <<>>
    /\ pc \in {"triage", "project"} =>
        /\ InVector(replies) \subseteq heard
        /\ \A u \in known : ref[u] # "none" => 
            u \in heard \cup unusable \cup InVectors(batches)

(* Whoever is no longer a candidate could not use a turn, or had one and is  *)
(* now behind all who are.                                                   *)
HadTurn(v) == stamp[v] # 0 /\ \A u \in todo : stamp[u] < stamp[v]

Rotated ==
    pc \in {"enrich", "asking"} =>
        /\ \A v \in known \ todo : Excused(v) \/ HadTurn(v) \/ v \in late
        /\ {u \in known : stamp[u] = 0} \subseteq untried
        /\ pc = "asking" => asking \in Users /\ HadTurn(asking)

\* TriageHearsEveryone is not inductive by itself; this is, and the action
\* properties follow from it.
IInv == TypeOK /\ Ranked /\ Accounted /\ Rotated
=============================================================================
