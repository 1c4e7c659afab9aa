---------------------------- MODULE EvidenceChain ----------------------------
(***************************************************************************)
(* What the media phase promises of a file as evidence (ADR-0008,          *)
(* ADR-0009): four records, each resting on the one before.  An object is  *)
(* created once and never replaced; a file is catalogued only when some    *)
(* store holds its bytes; a sighting enters custody only for a catalogued  *)
(* file whose bytes are in the very store it names; a receipt is written   *)
(* only for a sighting.  Nothing is ever taken back.                       *)
(***************************************************************************)
CONSTANTS
    Stores, Shas,
    Shared,      \* stores other writers reach: only there can bytes be wrong
    Sightings,   \* custody rows: records with a msg, a sha, a store and a key
    Receipts     \* receipts: records with a msg, a sha and a store

VARIABLES object, media, custody, receipts

Init ==
    /\ object = [s \in Stores |-> [h \in Shas |-> "none"]]
    /\ media = {} /\ custody = {} /\ receipts = {}

Create(s, h, bytes) ==
    /\ object[s][h] = "none"
    /\ bytes = "good" \/ (bytes = "bad" /\ s \in Shared)
    /\ object' = [object EXCEPT ![s][h] = bytes]
    /\ UNCHANGED <<media, custody, receipts>>

Catalogue(h) ==
    /\ \E s \in Stores : object[s][h] = "good"
    /\ media' = media \cup {h}
    /\ UNCHANGED <<object, custody, receipts>>

Record(c) ==
    /\ c.sha \in media /\ object[c.store][c.sha] = "good"
    /\ custody' = custody \cup {c}
    /\ UNCHANGED <<object, media, receipts>>

Acknowledge(r) ==
    /\ \E c \in custody : c.msg = r.msg /\ c.sha = r.sha /\ c.store = r.store
    /\ receipts' = receipts \cup {r}
    /\ UNCHANGED <<object, media, custody>>

Next ==
    \/ \E s \in Stores, h \in Shas, bytes \in {"good", "bad"} : Create(s, h, bytes)
    \/ \E h \in Shas : Catalogue(h)
    \/ \E c \in Sightings : Record(c)
    \/ \E r \in Receipts : Acknowledge(r)

Spec == Init /\ [][Next]_<<object, media, custody, receipts>>
=============================================================================
