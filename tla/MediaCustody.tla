---------------------------- MODULE MediaCustody ----------------------------
(***************************************************************************)
(* The media phase of one channel (collectors/media.py, media_store.py):   *)
(* for every stored message that carries a file, recognise the file by its *)
(* Telegram id, or download it, put it into this run's store create-only,  *)
(* and write the media row, the chain-of-custody row and the raw receipt,  *)
(* three autocommitted statements a kill may separate.  Around it:         *)
(* Telegram edits messages, other profiles write to the shared bucket, and *)
(* each run may use another store.                                         *)
(*                                                                         *)
(* A content is a Telegram photo or document id (content_key); its bytes   *)
(* are known by their SHA-256, and two contents may have the same bytes.   *)
(* A media key is a function of the sha, so an object is named by its sha. *)
(***************************************************************************)
EXTENDS Naturals, FiniteSets

CONSTANTS
    MaxMsg,        \* bound: messages 1..MaxMsg carry media
    Contents,      \* Telegram photo/document ids
    Shas,          \* SHA-256 digests
    BytesOf,       \* the digest of each content's bytes
    Gone,          \* what a deleted message carries
    NoFile,        \* no digest
    MaxEdits,      \* bound: edits and deletions on Telegram
    MaxRuns,       \* bound: media phases
    MaxKills       \* bound: kills

ASSUME MediaAssumption ==
    /\ MaxMsg \in Nat /\ MaxEdits \in Nat /\ MaxRuns \in Nat /\ MaxKills \in Nat
    /\ BytesOf \in [Contents -> Shas]
    /\ Gone \notin Contents /\ NoFile \notin Shas

Msgs   == 1..MaxMsg
Stores == {"local", "bucket"}

VARIABLES
    current,   \* Telegram: the content each message carries now
    row,       \* messages.media_json: the content as last observed
    object,    \* each store's object per sha: "none", "good" or "bad" bytes
    media,     \* the media table: shas with a row
    custody,   \* custody_log rows
    newest,    \* per content, the sha of its newest custody_log row
    receipts,  \* MediaDownload raw records
    pc, store, \* where the phase stands, and the run's store
    todo,      \* selected messages not finished
    index,     \* content_index
    sha,       \* the digest of the bytes just streamed
    known,     \* `existing is not None` for it
    skipped,   \* has this run skipped a file?
    drifted,   \* history: contents a file was downloaded for after an edit
    edits, runs, kills   \* bound counters

telegram == <<current, row>>
tables   == <<media, custody, newest, receipts>>
local    == <<store, todo, index, sha, known, skipped>>
bounds   == <<drifted, edits, runs, kills>>
vars     == <<telegram, object, tables, pc, local, bounds>>

Locations == {"idle", "next", "streamed", "commit", "media", "custody",
              "receipt", "dupCustody"}

Init ==
    /\ current \in [Msgs -> Contents] /\ row = current
    /\ object = [s \in Stores |-> [h \in Shas |-> "none"]]
    /\ media = {} /\ custody = {} /\ receipts = {}
    /\ newest = [c \in Contents |-> NoFile]
    /\ pc = "idle" /\ store = "local" /\ todo = {}
    /\ index = newest /\ sha = NoFile /\ known = FALSE /\ skipped = FALSE
    /\ drifted = {} /\ edits = 0 /\ runs = 0 /\ kills = 0

(* A post is edited to another file, or deleted, on Telegram.               *)
Edit ==
    /\ edits < MaxEdits
    /\ edits' = edits + 1
    /\ \E m \in Msgs, c \in Contents \cup {Gone} :
          /\ current[m] # Gone
          /\ current' = [current EXCEPT ![m] = c]
    /\ UNCHANGED <<row, object, tables, pc, local, drifted, runs, kills>>

(* history, catch_up or posts re-observes a message between media phases.   *)
Observe ==
    /\ pc = "idle"
    /\ \E m \in Msgs : row' = [row EXCEPT ![m] = current[m]]
    /\ UNCHANGED <<current, object, tables, pc, local, bounds>>

(* Another profile creates an object in the shared bucket; a broken writer  *)
(* leaves wrong bytes under the key.                                        *)
OtherWriter ==
    /\ \E h \in Shas, bytes \in {"good", "bad"} :
          /\ object["bucket"][h] = "none"
          /\ object' = [object EXCEPT !["bucket"][h] = bytes]
    /\ UNCHANGED <<telegram, tables, pc, local, bounds>>

-----------------------------------------------------------------------------
StartRun(s) ==
    /\ pc = "idle" /\ runs < MaxRuns
    /\ runs' = runs + 1
    /\ pc' = "next" /\ store' = s
    /\ todo' = {m \in Msgs : row[m] # Gone}
    /\ index' = newest
    /\ skipped' = FALSE
    /\ UNCHANGED <<telegram, object, tables, sha, known, drifted, edits, kills>>

msg == CHOOSE m \in todo : \A n \in todo : m <= n   \* ORDER BY msg_id
key == row[msg]

\* Mutant: the content is taken for stored in every store.
StoredAnywhere(h) == \E c \in custody : c.sha = h

StoredIn(h) == \E c \in custody : c.sha = h /\ c.store = store

(* _held with no stream: an existing object is trusted only by a store      *)
(* without checksums.                                                       *)
HeldUnseen(h) == \/ StoredIn(h)
                 \/ store = "local" /\ object["local"][h] # "none"

KnownContent == index[key] # NoFile /\ HeldUnseen(index[key])

Sighting(h) == [msg |-> msg, sha |-> h, store |-> store, key |-> key]

(* A repost of a file this store has: custody only, nothing downloaded.     *)
DedupHit ==
    /\ pc = "next" /\ todo # {} /\ KnownContent
    /\ custody' = custody \cup {Sighting(index[key])}
    /\ newest' = [newest EXCEPT ![key] = index[key]]
    /\ todo' = todo \ {msg}
    /\ UNCHANGED <<telegram, object, media, receipts, pc, store, index, sha,
                   known, skipped, bounds>>

(* Too large, unavailable, size mismatch, or a SkipAndRecord.               *)
SkipFile ==
    /\ pc = "next" /\ todo # {} /\ ~KnownContent
    /\ todo' = todo \ {msg}
    /\ skipped' = TRUE
    /\ UNCHANGED <<telegram, object, tables, pc, store, index, sha, known, bounds>>

(* gateway.download_media re-fetches the live message and streams the file  *)
(* it carries NOW.                                                          *)
Download ==
    /\ pc = "next" /\ todo # {} /\ ~KnownContent
    /\ current[msg] # Gone
    /\ sha' = BytesOf[current[msg]]
    /\ known' = (sha' \in media)
    /\ drifted' = IF current[msg] = key THEN drifted ELSE drifted \cup {key}
    /\ pc' = "streamed"
    /\ UNCHANGED <<telegram, object, tables, store, todo, index, skipped,
                   edits, runs, kills>>

\* What a verified adoption of an object that is already there finds.
Adoptable(h) == object[store][h] = "good" \/ store = "local"

(* An integrity failure: no rows, the object stays.                         *)
RejectFile ==
    /\ pc' = "next" /\ skipped' = TRUE /\ todo' = todo \ {msg}
    /\ UNCHANGED <<store, index, sha, known>>

\* Mutant: an object found in the store is taken for a duplicate of a known file.
LookUpAsDuplicate ==
    /\ pc = "streamed"
    /\ \/ /\ known /\ StoredIn(sha)
          /\ pc' = "dupCustody" /\ UNCHANGED local
       \/ /\ ~(known /\ StoredIn(sha)) /\ object[store][sha] # "none"
          /\ IF Adoptable(sha)
             THEN pc' = "dupCustody" /\ UNCHANGED local
             ELSE RejectFile
       \/ /\ ~(known /\ StoredIn(sha)) /\ object[store][sha] = "none"
          /\ pc' = "commit" /\ UNCHANGED local
    /\ UNCHANGED <<telegram, object, tables, bounds>>

(* The streamed bytes are looked up in the database and in the store.       *)
LookUp ==
    /\ pc = "streamed"
    /\ \/ /\ known /\ StoredIn(sha)
          /\ pc' = "dupCustody" /\ UNCHANGED local
       \/ /\ ~(known /\ StoredIn(sha)) /\ object[store][sha] # "none"
          /\ IF Adoptable(sha)
             THEN pc' = (IF known THEN "dupCustody" ELSE "media") /\ UNCHANGED local
             ELSE RejectFile
       \/ /\ ~(known /\ StoredIn(sha)) /\ object[store][sha] = "none"
          /\ pc' = "commit" /\ UNCHANGED local
    /\ UNCHANGED <<telegram, object, tables, bounds>>

\* Mutant: an object that won the create race is adopted unchecked.
CommitTrusting ==
    /\ pc = "commit"
    /\ \/ /\ object[store][sha] = "none"
          /\ object' = [object EXCEPT ![store][sha] = "good"]
          /\ pc' = "media" /\ UNCHANGED local
       \/ /\ object[store][sha] # "none"
          /\ UNCHANGED object
          /\ pc' = "media" /\ UNCHANGED local
    /\ UNCHANGED <<telegram, tables, bounds>>

(* Create-only commit.  The bucket may reject the upload, or (the second    *)
(* check) report another checksum for what it created; an object that won   *)
(* the race is adopted only after its checksum is compared.                 *)
Commit ==
    /\ pc = "commit"
    /\ \/ /\ object[store][sha] = "none"
          /\ object' = [object EXCEPT ![store][sha] = "good"]
          /\ pc' = "media" /\ UNCHANGED local
       \/ /\ store = "bucket" /\ object[store][sha] = "none"
          /\ \/ UNCHANGED object
             \/ object' = [object EXCEPT ![store][sha] = "bad"]
          /\ RejectFile
       \/ /\ object[store][sha] # "none"
          /\ UNCHANGED object
          /\ IF Adoptable(sha) THEN pc' = "media" /\ UNCHANGED local
             ELSE RejectFile
    /\ UNCHANGED <<telegram, tables, bounds>>

InsertMedia ==
    /\ pc = "media"
    /\ media' = IF known THEN media ELSE media \cup {sha}
    /\ pc' = "custody"
    /\ UNCHANGED <<telegram, object, custody, newest, receipts, local, bounds>>

\* Mutant (the defect ADR-0009 fixed): a file is filed under whatever its
\* message carries now, not under the content the sighting was for.
RecordCustodyUnkeyed ==
    /\ pc \in {"custody", "dupCustody"}
    /\ custody' = custody \cup {Sighting(sha)}
    /\ newest' = [c \in Contents |->
                    IF \E d \in custody' : row[d.msg] = c
                    THEN (CHOOSE d \in custody' : row[d.msg] = c).sha
                    ELSE NoFile]
    /\ pc' = "receipt"
    /\ UNCHANGED <<telegram, object, media, receipts, local, bounds>>

(* _record_custody, on the download and on the duplicate path.              *)
RecordCustody ==
    /\ pc \in {"custody", "dupCustody"}
    /\ custody' = custody \cup {Sighting(sha)}
    /\ newest' = [newest EXCEPT ![key] = sha]
    /\ pc' = "receipt"
    /\ UNCHANGED <<telegram, object, media, receipts, local, bounds>>

\* Mutant: a duplicate leaves no receipt (the gap the #91 review closed).
WriteReceiptIfNew ==
    /\ pc = "receipt"
    /\ receipts' = IF known THEN receipts
                   ELSE receipts \cup {[msg |-> msg, sha |-> sha, store |-> store]}
    /\ index' = [index EXCEPT ![key] = sha]
    /\ todo' = todo \ {msg}
    /\ pc' = "next"
    /\ UNCHANGED <<telegram, object, media, custody, newest, store, sha, known,
                   skipped, bounds>>

(* The receipt (add_raw) comes last, then the index learns the content.     *)
WriteReceipt ==
    /\ pc = "receipt"
    /\ receipts' = receipts \cup {[msg |-> msg, sha |-> sha, store |-> store]}
    /\ index' = [index EXCEPT ![key] = sha]
    /\ todo' = todo \ {msg}
    /\ pc' = "next"
    /\ UNCHANGED <<telegram, object, media, custody, newest, store, sha, known,
                   skipped, bounds>>

EndRun ==
    /\ pc = "next" /\ todo = {}
    /\ pc' = "idle"
    /\ UNCHANGED <<telegram, object, tables, local, bounds>>

(* A PhaseStop: the disk floor, a sink error, a flood, or a store outage.   *)
Stop ==
    /\ pc \in {"next", "streamed", "commit"} /\ todo # {}
    /\ pc' = "idle" /\ skipped' = TRUE
    /\ UNCHANGED <<telegram, object, tables, store, todo, index, sha, known, bounds>>

Kill ==
    /\ pc # "idle" /\ kills < MaxKills
    /\ kills' = kills + 1
    /\ pc' = "idle" /\ skipped' = TRUE
    /\ UNCHANGED <<telegram, object, tables, store, todo, index, sha, known,
                   drifted, edits, runs>>

Next ==
    \/ Edit \/ Observe \/ OtherWriter
    \/ \E s \in Stores : StartRun(s)
    \/ DedupHit \/ SkipFile \/ Download \/ LookUp \/ Commit
    \/ InsertMedia \/ RecordCustody \/ WriteReceipt \/ EndRun
    \/ Stop \/ Kill

Spec == Init /\ [][Next]_vars

-----------------------------------------------------------------------------
(* Rows, stored objects, receipts and the collector's own variables keep the *)
(* values of the tables and sets that media.py and media_store.py give them. *)
TypeOK ==
    /\ current \in [Msgs -> Contents \cup {Gone}]
    /\ row \in [Msgs -> Contents \cup {Gone}]
    /\ object \in [Stores -> [Shas -> {"none", "good", "bad"}]]
    /\ media \subseteq Shas
    /\ custody \subseteq [msg : Msgs, sha : Shas, store : Stores, key : Contents]
    /\ newest \in [Contents -> Shas \cup {NoFile}]
    /\ index \in [Contents -> Shas \cup {NoFile}]
    /\ receipts \subseteq [msg : Msgs, sha : Shas, store : Stores]
    /\ pc \in Locations /\ store \in Stores /\ todo \subseteq Msgs
    /\ sha \in Shas \cup {NoFile} /\ known \in BOOLEAN /\ skipped \in BOOLEAN
    /\ drifted \subseteq Contents /\ edits \in Nat /\ runs \in Nat /\ kills \in Nat

(* A corrupt leftover is never certified (media_store.py, ADR-0008): every   *)
(* custody row points at an object that is in the store it names and holds   *)
(* the right bytes, whoever created it and wherever a run was killed.        *)
EvidenceIsReal == \A c \in custody : object[c.store][c.sha] = "good"

(* A sighting names the file of the content it was FOR (ADR-0009,            *)
(* data-model.md): the bytes recorded under a content are that content's.    *)
CustodyNamesItsContent == \A c \in custody : c.sha = BytesOf[c.key]

(* Nothing but an edit between observing a post and downloading its file     *)
(* misfiles: not a repost, a byte-identical file, a second store, a kill,    *)
(* an index loaded at the start of the run or a lost create race.            *)
OnlyEditsMisfile ==
    \A c \in custody : c.key \notin drifted => c.sha = BytesOf[c.key]

(* "Already have it" is per store: when a run has walked every message and   *)
(* skipped none, each one has a custody row for its content in this store,   *)
(* and the store has the file.                                               *)
FinishedIsComplete ==
    pc = "next" /\ todo = {} /\ ~skipped =>
        \A m \in Msgs : row[m] # Gone =>
            \E c \in custody : /\ c.msg = m /\ c.store = store /\ c.key = row[m]
                                /\ object[store][c.sha] = "good"

Traced(c) ==
    \E r \in receipts :
        /\ r.sha = c.sha
        /\ \/ r.msg = c.msg
           \/ \E d \in custody : d.msg = r.msg /\ d.sha = c.sha /\ d.key = c.key

(* The receipts can rebuild custody (how-it-works.md): unless a run was      *)
(* killed, between runs every custody row has a receipt, its own or that of  *)
(* a sighting of the same content.                                           *)
CustodyIsRebuildable == pc = "idle" /\ kills = 0 => \A c \in custody : Traced(c)

Chain == INSTANCE EvidenceChain WITH
    Shared <- {"bucket"},
    Sightings <- [msg : Msgs, sha : Shas, store : Stores, key : Contents],
    Receipts <- [msg : Msgs, sha : Shas, store : Stores]

(* Statement by statement, through kills, lost races, broken writers and     *)
(* duplicates, the phase only extends the chain of evidence, in its order:   *)
(* no row certifies what is not there, and nothing is replaced.              *)
KeepsChain == Chain!Spec

-----------------------------------------------------------------------------
(* What the four rest on.  The object of the file in hand is in the store,   *)
(* and nothing in a local directory is ever wrong.                           *)
Settling == {"media", "custody", "dupCustody", "receipt"}
Fetched  == {"streamed", "commit"} \cup Settling

Held ==
    /\ \A h \in Shas : object["local"][h] # "bad"
    /\ pc \in Settling => object[store][sha] = "good"

(* A run works on messages that carry a file, one at a time.                 *)
InHand ==
    /\ pc # "idle" => \A m \in todo : row[m] # Gone
    /\ pc \in Fetched => todo # {} /\ sha \in Shas

(* What the index and the newest rows say of a content is its own digest,    *)
(* unless a file was downloaded for it after an edit.                        *)
Named ==
    /\ \A c \in Contents \ drifted : {newest[c], index[c]} \subseteq {NoFile, BytesOf[c]}
    /\ pc \in Fetched => key \in drifted \/ sha = BytesOf[key]

(* A run that has skipped nothing leaves behind it only messages it filed.   *)
Walked ==
    /\ pc # "idle" /\ ~skipped =>
          \A m \in Msgs \ todo : row[m] # Gone =>
             \E c \in custody : c.msg = m /\ c.store = store /\ c.key = row[m]
    /\ pc = "receipt" => Sighting(sha) \in custody

(* Without a kill, only the sighting whose receipt is being written has none, *)
(* and the index never learns a content before its receipt.                   *)
Receipted(h, c) ==
    \E r \in receipts, d \in custody :
        r.sha = h /\ d.msg = r.msg /\ d.sha = h /\ d.key = c

Receipting == kills = 0 =>
    /\ \A c \in custody : Traced(c) \/ (pc = "receipt" /\ c = Sighting(sha))
    /\ pc = "receipt" => newest[key] = sha
    /\ \A c \in Contents : index[c] # NoFile => Receipted(index[c], c)
    /\ \A c \in Contents : newest[c] # NoFile =>
          Receipted(newest[c], c) \/ (pc = "receipt" /\ c = key)

\* None of the four is inductive by itself; together with these they are.
IInv ==
    /\ TypeOK /\ EvidenceIsReal /\ OnlyEditsMisfile
    /\ Held /\ InHand /\ Named /\ Walked /\ Receipting

(* And what the chain rests on: whatever a run can still file - from the     *)
(* index it loaded, or the file in hand - is catalogued before it is filed.  *)
Catalogued ==
    /\ \A c \in custody : c.sha \in media
    /\ \A c \in Contents : {newest[c], index[c]} \subseteq media \cup {NoFile}
    /\ pc \in Fetched /\ known => sha \in media
    /\ pc \in {"custody", "dupCustody", "receipt"} => sha \in media
=============================================================================
