------------------------- MODULE MediaCustodyProofs -------------------------
(***************************************************************************)
(* Theorems about MediaCustody, for any number of messages, contents and   *)
(* digests (two contents may share one), edits, runs and kills: its types, *)
(* that custody points only at good objects, that nothing but an edit      *)
(* misfiles, that a finished run is complete, and that the receipts can    *)
(* rebuild custody.                                                        *)
(***************************************************************************)
EXTENDS MediaCustody, TLAPS, WellFoundedInduction

-----------------------------------------------------------------------------
(* The run takes the least message left, so while any is left it has one.   *)
LEMMA MsgInTodo ==
    ASSUME todo \subseteq Msgs, todo # {}
    PROVE  msg \in todo
<1>1. todo \subseteq Nat
  BY MediaAssumption DEF Msgs
<1>2. PICK x \in todo : \A y \in todo : ~(<<y, x>> \in OpToRel(<, Nat))
  BY <1>1, NatLessThanWellFounded, WFMin
<1>3. \A n \in todo : x <= n
  <2>1. TAKE n \in todo
  <2>2. ~(<<n, x>> \in OpToRel(<, Nat))
    BY <1>2, <2>1
  <2>3. ~(n < x)
    BY <1>1, <2>1, <2>2 DEF OpToRel
  <2> QED BY <1>1, <2>3
<1> QED BY <1>3 DEF msg

(* The message in hand carries a content.                                   *)
LEMMA KeyIsContent ==
    ASSUME TypeOK, InHand, pc # "idle", todo # {}
    PROVE  msg \in todo /\ msg \in Msgs /\ key \in Contents
<1>1. msg \in todo
  BY MsgInTodo DEF TypeOK
<1>2. msg \in Msgs /\ row[msg] # Gone
  BY <1>1 DEF TypeOK, InHand
<1> QED BY <1>1, <1>2 DEF TypeOK, key

(* Sightings are custody rows.                                              *)
Rows == [msg : Msgs, sha : Shas, store : Stores, key : Contents]

LEMMA SightingIsRow ==
    ASSUME TypeOK, InHand, pc # "idle", todo # {}, NEW h \in Shas
    PROVE  /\ Sighting(h) \in Rows
           /\ Sighting(h).msg = msg /\ Sighting(h).sha = h
           /\ Sighting(h).store = store /\ Sighting(h).key = key
<1>1. msg \in Msgs /\ key \in Contents /\ store \in Stores
  BY KeyIsContent DEF TypeOK
<1> QED BY <1>1 DEF Sighting, Rows

(* An object a store holds, whoever made it, is right if a sighting names   *)
(* it or if the store is a local directory.                                 *)
LEMMA HeldIsGood ==
    ASSUME TypeOK, EvidenceIsReal, Held, NEW h \in Shas, HeldUnseen(h)
    PROVE  object[store][h] = "good"
<1>1. CASE StoredIn(h)
  BY <1>1 DEF StoredIn, EvidenceIsReal
<1>2. CASE store = "local" /\ object["local"][h] # "none"
  <2>1. object["local"][h] \in {"none", "good", "bad"}
    BY DEF TypeOK, Stores
  <2> QED BY <1>2, <2>1 DEF Held
<1> QED BY <1>1, <1>2 DEF HeldUnseen

(* The same of an object that is adopted.                                   *)
LEMMA AdoptedIsGood ==
    ASSUME TypeOK, Held, NEW h \in Shas, object[store][h] # "none", Adoptable(h)
    PROVE  object[store][h] = "good"
<1>1. object[store][h] \in {"none", "good", "bad"}
  BY DEF TypeOK, Stores
<1> QED BY <1>1 DEF Adoptable, Held

(* Receipts and custody rows are only ever added, so what is receipted      *)
(* stays receipted, and so does what is traced.                             *)
LEMMA ReceiptedStays ==
    ASSUME receipts \subseteq receipts', custody \subseteq custody',
           NEW h, NEW c, Receipted(h, c)
    PROVE  Receipted(h, c)'
BY DEF Receipted

LEMMA TracedStays ==
    ASSUME receipts \subseteq receipts', custody \subseteq custody',
           NEW c, Traced(c)
    PROVE  Traced(c)'
BY DEF Traced

LEMMA ReceiptedIsTraced ==
    ASSUME NEW c, Receipted(c.sha, c.key)
    PROVE  Traced(c)
BY DEF Receipted, Traced

-----------------------------------------------------------------------------
(* The strengthened invariant holds before the first media phase.           *)
LEMMA IInvInit == Init => IInv
<1> SUFFICES ASSUME Init PROVE IInv
  OBVIOUS
<1> USE MediaAssumption
<1>1. TypeOK
  <2>1. object \in [Stores -> [Shas -> {"none", "good", "bad"}]]
    BY DEF Init
  <2>2. current \in [Msgs -> Contents \cup {Gone}] /\ row \in [Msgs -> Contents \cup {Gone}]
    BY DEF Init
  <2> QED BY <2>1, <2>2 DEF Init, TypeOK, Locations, Stores
<1>2. EvidenceIsReal /\ OnlyEditsMisfile
  BY DEF Init, EvidenceIsReal, OnlyEditsMisfile
<1>3. Held
  BY DEF Init, Held, Settling, Stores
<1>4. InHand
  BY DEF Init, InHand, Fetched, Settling
<1>5. Named
  BY DEF Init, Named, Fetched, Settling
<1>6. Walked /\ Receipting
  BY DEF Init, Walked, Receipting
<1> QED BY <1>1, <1>2, <1>3, <1>4, <1>5, <1>6 DEF IInv

(* Steps that touch nothing the run, the tables and the index hold keep all *)
(* of it but the types and the objects.                                     *)
LEMMA TablesUntouched ==
    ASSUME IInv, UNCHANGED <<row, tables, local, drifted, pc, kills>>
    PROVE  OnlyEditsMisfile' /\ InHand' /\ Named' /\ Walked' /\ Receipting'
<1> USE DEF tables, local
<1>1. msg' = msg /\ key' = key /\ Sighting(sha)' = Sighting(sha)
  BY DEF msg, key, Sighting
<1>2. OnlyEditsMisfile' /\ InHand'
  BY DEF IInv, OnlyEditsMisfile, InHand
<1>3. Named' /\ Walked'
  BY <1>1 DEF IInv, Named, Walked
<1>4. Receipting'
  BY <1>1 DEF IInv, Receipting, Receipted, Traced
<1> QED BY <1>2, <1>3, <1>4

(* Steps that end or abandon the run.                                       *)
LEMMA RunOver ==
    ASSUME IInv, UNCHANGED <<row, object, tables, store, todo, index, sha, known, drifted>>,
           pc' = "idle",
           (kills' = kills /\ pc # "receipt") \/ kills' = kills + 1
    PROVE  /\ EvidenceIsReal' /\ OnlyEditsMisfile' /\ Held' /\ InHand' /\ Named'
           /\ Walked' /\ Receipting'
<1> USE DEF tables
<1>1. EvidenceIsReal' /\ OnlyEditsMisfile'
  BY DEF IInv, EvidenceIsReal, OnlyEditsMisfile
<1>2. Held' /\ InHand'
  BY DEF IInv, Held, InHand, Fetched, Settling
<1>3. Named' /\ Walked'
  BY DEF IInv, Named, Walked, Fetched, Settling
<1>4. Receipting'
  <2>1. CASE kills' = kills /\ pc # "receipt"
    BY <2>1 DEF IInv, Receipting, Receipted, Traced
  <2>2. CASE kills' = kills + 1
    <3>1. kills' # 0
      BY <2>2 DEF IInv, TypeOK
    <3> QED BY <3>1 DEF Receipting
  <2> QED BY <2>1, <2>2
<1> QED BY <1>1, <1>2, <1>3, <1>4

(* Steps that put the message in hand behind, unfiled.                      *)
LEMMA FileSkipped ==
    ASSUME IInv, UNCHANGED <<row, tables, store, index, sha, drifted, kills>>,
           pc \in {"next", "streamed", "commit"}, pc' = "next",
           todo' \subseteq todo, skipped' = TRUE
    PROVE  OnlyEditsMisfile' /\ InHand' /\ Named' /\ Walked' /\ Receipting'
<1> USE DEF tables
<1>1. OnlyEditsMisfile'
  BY DEF IInv, OnlyEditsMisfile
<1>2. InHand' /\ Named'
  BY DEF IInv, InHand, Named, Fetched, Settling
<1>3. Walked'
  BY DEF Walked
<1>4. Receipting'
  BY DEF IInv, Receipting, Receipted, Traced
<1> QED BY <1>1, <1>2, <1>3, <1>4

(* A sighting of the message in hand under the digest in h is entered: what *)
(* holds of the new custody rows.                                           *)
LEMMA SightingEntered ==
    ASSUME IInv, pc # "idle", todo # {}, NEW h \in Shas,
           object[store][h] = "good", key \in drifted \/ h = BytesOf[key],
           custody' = custody \cup {Sighting(h)}, newest' = [newest EXCEPT ![key] = h],
           UNCHANGED <<object, drifted>>
    PROVE  /\ custody' \subseteq Rows /\ newest' \in [Contents -> Shas \cup {NoFile}]
           /\ EvidenceIsReal' /\ OnlyEditsMisfile'
<1>1. /\ Sighting(h) \in Rows /\ Sighting(h).msg = msg /\ Sighting(h).sha = h
      /\ Sighting(h).store = store /\ Sighting(h).key = key
  BY SightingIsRow DEF IInv
<1>2. custody' \subseteq Rows
  BY <1>1 DEF IInv, TypeOK, Rows
<1>3. newest' \in [Contents -> Shas \cup {NoFile}]
  BY DEF IInv, TypeOK
<1>4. EvidenceIsReal'
  BY <1>1 DEF IInv, EvidenceIsReal
<1>5. OnlyEditsMisfile'
  BY <1>1 DEF IInv, OnlyEditsMisfile
<1> QED BY <1>2, <1>3, <1>4, <1>5

-----------------------------------------------------------------------------
(* Every step preserves the strengthened invariant.                         *)
LEMMA IInvNext == IInv /\ [Next]_vars => IInv'
<1> SUFFICES ASSUME IInv, [Next]_vars PROVE IInv'
  OBVIOUS
<1> USE MediaAssumption
<1>a. /\ TypeOK /\ EvidenceIsReal /\ OnlyEditsMisfile
      /\ Held /\ InHand /\ Named /\ Walked /\ Receipting
  BY DEF IInv
<1>1. CASE Edit
  <2>1. UNCHANGED <<row, object, tables, local, drifted, pc, runs, kills>>
    BY <1>1 DEF Edit
  <2>2. OnlyEditsMisfile' /\ InHand' /\ Named' /\ Walked' /\ Receipting'
    BY <2>1, TablesUntouched
  <2>3. EvidenceIsReal' /\ Held'
    BY <1>a, <2>1 DEF EvidenceIsReal, Held, tables, local
  <2>4. current' \in [Msgs -> Contents \cup {Gone}] /\ edits' \in Nat
    BY <1>1, <1>a DEF Edit, TypeOK
  <2>5. TypeOK'
    BY <1>a, <2>1, <2>4 DEF TypeOK, tables, local
  <2> QED BY <2>2, <2>3, <2>5 DEF IInv
<1>2. CASE Observe
  <2>1. UNCHANGED <<current, object, tables, local, bounds>> /\ pc = "idle" /\ pc' = "idle"
    BY <1>2 DEF Observe
  <2>2. row' \in [Msgs -> Contents \cup {Gone}]
    BY <1>2, <1>a DEF Observe, TypeOK
  <2>3. TypeOK'
    BY <1>a, <2>1, <2>2 DEF TypeOK, tables, local, bounds
  <2>4. EvidenceIsReal' /\ OnlyEditsMisfile' /\ Held' /\ InHand'
    BY <1>a, <2>1 DEF EvidenceIsReal, OnlyEditsMisfile, Held, InHand, Settling, Fetched,
                     tables, local, bounds
  <2>5. Named' /\ Walked'
    BY <1>a, <2>1 DEF Named, Walked, Settling, Fetched, tables, local, bounds
  <2>6. Receipting'
    BY <1>a, <2>1 DEF Receipting, Receipted, Traced, tables, local, bounds
  <2> QED BY <2>3, <2>4, <2>5, <2>6 DEF IInv
<1>3. CASE OtherWriter
  <2>1. UNCHANGED <<telegram, tables, local, pc, bounds>>
    BY <1>3 DEF OtherWriter
  <2>2. OnlyEditsMisfile' /\ InHand' /\ Named' /\ Walked' /\ Receipting'
    BY <2>1, TablesUntouched DEF telegram, bounds
  <2>3. PICK h \in Shas, bytes \in {"good", "bad"} :
           /\ object["bucket"][h] = "none"
           /\ object' = [object EXCEPT !["bucket"][h] = bytes]
    BY <1>3 DEF OtherWriter
  <2>4. object' \in [Stores -> [Shas -> {"none", "good", "bad"}]]
    BY <1>a, <2>3 DEF TypeOK, Stores
  <2>5. TypeOK'
    BY <1>a, <2>1, <2>4 DEF TypeOK, telegram, tables, local, bounds
  <2>6. \A s \in Stores, g \in Shas : object[s][g] = "good" => object'[s][g] = "good"
    BY <1>a, <2>3 DEF TypeOK, Stores
  <2>7. EvidenceIsReal'
    BY <1>a, <2>1, <2>6 DEF EvidenceIsReal, TypeOK, tables
  <2>8. \A g \in Shas : object'["local"][g] = object["local"][g]
    BY <1>a, <2>3 DEF TypeOK, Stores
  <2>9. Held'
    <3>1. pc \in Settling => sha \in Shas
      BY <1>a DEF InHand, Fetched
    <3> QED BY <1>a, <2>1, <2>6, <2>8, <3>1 DEF Held, TypeOK, local
  <2> QED BY <2>2, <2>5, <2>7, <2>9 DEF IInv
<1>4. ASSUME NEW s \in Stores, StartRun(s) PROVE IInv'
  <2>1. /\ UNCHANGED <<telegram, object, tables, sha, known, drifted, edits, kills>>
        /\ pc = "idle" /\ pc' = "next" /\ store' = s /\ runs' = runs + 1
        /\ todo' = {m \in Msgs : row[m] # Gone} /\ index' = newest /\ skipped' = FALSE
    BY <1>4 DEF StartRun
  <2>2. TypeOK'
    <3>1. todo' \subseteq Msgs /\ runs' \in Nat
      BY <1>a, <2>1 DEF TypeOK
    <3>2. skipped' \in BOOLEAN /\ pc' \in Locations
      BY <2>1 DEF Locations
    <3> QED BY <1>a, <2>1, <3>1, <3>2 DEF TypeOK, telegram, tables
  <2>3. EvidenceIsReal' /\ OnlyEditsMisfile' /\ Held'
    BY <1>a, <2>1 DEF EvidenceIsReal, OnlyEditsMisfile, Held, Settling, tables
  <2>4. InHand' /\ Named' /\ Walked'
    BY <1>a, <2>1 DEF InHand, Named, Walked, Fetched, Settling, telegram, tables
  <2>5. Receipting'
    BY <1>a, <2>1 DEF Receipting, Receipted, Traced, tables
  <2> QED BY <2>2, <2>3, <2>4, <2>5 DEF IInv
<1>5. CASE DedupHit
  <2>1. /\ UNCHANGED <<telegram, object, media, receipts, pc, store, index, sha, known,
                       skipped, bounds>>
        /\ pc = "next" /\ todo # {} /\ KnownContent
        /\ custody' = custody \cup {Sighting(index[key])}
        /\ newest' = [newest EXCEPT ![key] = index[key]] /\ todo' = todo \ {msg}
    BY <1>5 DEF DedupHit
  <2>2. msg \in todo /\ msg \in Msgs /\ key \in Contents
    BY <1>a, <2>1, KeyIsContent
  <2>3. PICK h \in Shas : h = index[key] /\ HeldUnseen(h)
    BY <1>a, <2>1, <2>2 DEF KnownContent, TypeOK
  <2>4. object[store][h] = "good" /\ (key \in drifted \/ h = BytesOf[key])
    BY <1>a, <2>2, <2>3, HeldIsGood DEF Named
  <2>5. /\ custody' \subseteq Rows /\ newest' \in [Contents -> Shas \cup {NoFile}]
        /\ EvidenceIsReal' /\ OnlyEditsMisfile'
    BY <2>1, <2>3, <2>4, SightingEntered DEF bounds
  <2>6. TypeOK'
    BY <1>a, <2>1, <2>5 DEF TypeOK, Rows, telegram, bounds
  <2>7. Held' /\ InHand'
    BY <1>a, <2>1 DEF Held, InHand, Fetched, Settling, telegram
  <2>8. Named'
    <3>1. \A c \in Contents : newest'[c] = IF c = key THEN h ELSE newest[c]
      BY <1>a, <2>1, <2>3 DEF TypeOK
    <3> QED BY <1>a, <2>1, <2>4, <3>1 DEF Named, Fetched, Settling, bounds
  <2>9. Sighting(h).msg = msg /\ Sighting(h).store = store /\ Sighting(h).key = key
        /\ Sighting(h).sha = h
    BY <1>a, <2>1, SightingIsRow
  <2>10. Walked'
    <3>1. Sighting(h) \in custody' /\ custody \subseteq custody' /\ key = row[msg]
      BY <2>1, <2>3 DEF key
    <3> QED BY <1>a, <2>1, <2>9, <3>1 DEF Walked, telegram
  <2>11. Receipting'
    <3> SUFFICES ASSUME kills = 0 PROVE Receipting'
      BY <2>1 DEF Receipting, bounds
    <3>1. Receipted(h, key)
      BY <1>a, <2>2, <2>3 DEF Receipting
    <3>2. \A g, c : Receipted(g, c) => Receipted(g, c)'
      BY <2>1 DEF Receipted
    <3>3. \A c : Traced(c) => Traced(c)'
      BY <2>1 DEF Traced
    <3>4. Traced(Sighting(h))
      BY <2>9, <3>1 DEF Receipted, Traced
    <3>5. \A c \in custody' : Traced(c)'
      <4>1. ASSUME NEW c \in custody' PROVE Traced(c)
        BY <1>a, <2>1, <2>3, <3>4 DEF Receipting
      <4> QED BY <3>3, <4>1
    <3>6. ASSUME NEW c \in Contents, index[c] # NoFile PROVE Receipted(index[c], c)'
      <4>1. PICK g : g = index[c]
        OBVIOUS
      <4>2. Receipted(g, c)
        BY <1>a, <3>6, <4>1 DEF Receipting
      <4>3. Receipted(g, c)'
        BY <3>2, <4>2
      <4> QED BY <2>1, <4>1, <4>3 DEF Receipted
    <3>7. ASSUME NEW c \in Contents, newest'[c] # NoFile PROVE Receipted(newest[c], c)'
      <4>1. PICK g : g = newest'[c]
        OBVIOUS
      <4>2. Receipted(g, c)
        <5>1. newest'[c] = IF c = key THEN h ELSE newest[c]
          BY <1>a, <2>1, <2>3 DEF TypeOK
        <5> QED BY <1>a, <2>1, <3>1, <3>7, <4>1, <5>1 DEF Receipting
      <4>3. Receipted(g, c)'
        BY <3>2, <4>2
      <4> QED BY <4>1, <4>3 DEF Receipted
    <3> QED BY <2>1, <3>5, <3>6, <3>7 DEF Receipting
  <2> QED BY <2>5, <2>6, <2>7, <2>8, <2>10, <2>11 DEF IInv
<1>6. CASE SkipFile
  <2>1. /\ UNCHANGED <<telegram, object, tables, pc, store, index, sha, known, bounds>>
        /\ pc = "next" /\ todo' = todo \ {msg} /\ skipped' = TRUE
    BY <1>6 DEF SkipFile
  <2>2. OnlyEditsMisfile' /\ InHand' /\ Named' /\ Walked' /\ Receipting'
    BY <2>1, FileSkipped DEF telegram, bounds
  <2>3. TypeOK'
    BY <1>a, <2>1 DEF TypeOK, telegram, tables, bounds
  <2>4. EvidenceIsReal' /\ Held'
    BY <1>a, <2>1 DEF EvidenceIsReal, Held, tables
  <2> QED BY <2>2, <2>3, <2>4 DEF IInv
<1>7. CASE Download
  <2>1. /\ UNCHANGED <<telegram, object, tables, store, todo, index, skipped,
                       edits, runs, kills>>
        /\ pc = "next" /\ todo # {} /\ current[msg] # Gone
        /\ sha' = BytesOf[current[msg]] /\ known' = (sha' \in media) /\ pc' = "streamed"
        /\ drifted' = IF current[msg] = key THEN drifted ELSE drifted \cup {key}
    BY <1>7 DEF Download
  <2>2. msg \in Msgs /\ key \in Contents
    BY <1>a, <2>1, KeyIsContent
  <2>3. current[msg] \in Contents /\ sha' \in Shas
    BY <1>a, <2>1, <2>2 DEF TypeOK
  <2>4. msg' = msg /\ key' = key
    BY <2>1 DEF msg, key, telegram
  <2>5. drifted \subseteq drifted' /\ drifted' \subseteq Contents
    BY <1>a, <2>1, <2>2 DEF TypeOK
  <2>6. TypeOK'
    BY <1>a, <2>1, <2>3, <2>5 DEF TypeOK, telegram, tables, Locations
  <2>7. EvidenceIsReal' /\ OnlyEditsMisfile' /\ Held'
    BY <1>a, <2>1, <2>5 DEF EvidenceIsReal, OnlyEditsMisfile, Held, Settling, tables
  <2>8. InHand' /\ Walked'
    BY <1>a, <2>1, <2>3 DEF InHand, Walked, telegram, tables
  <2>9. Named'
    <3>1. key \in drifted' \/ sha' = BytesOf[key]
      BY <2>1
    <3> QED BY <1>a, <2>1, <2>4, <2>5, <3>1 DEF Named, tables
  <2>10. Receipting'
    BY <1>a, <2>1 DEF Receipting, Receipted, Traced, tables
  <2> QED BY <2>6, <2>7, <2>8, <2>9, <2>10 DEF IInv
<1>8. CASE LookUp
  <2>1. UNCHANGED <<telegram, object, tables, bounds>> /\ pc = "streamed"
    BY <1>8 DEF LookUp
  <2>2. todo # {} /\ sha \in Shas
    BY <1>a, <2>1 DEF InHand, Fetched
  <2>3. EvidenceIsReal'
    BY <1>a, <2>1 DEF EvidenceIsReal, tables
  <2>4. CASE /\ UNCHANGED local
             /\ \/ pc' = "commit"
                \/ pc' \in {"media", "dupCustody"} /\ object[store][sha] = "good"
    <3>1. TypeOK'
      BY <1>a, <2>1, <2>4 DEF TypeOK, telegram, tables, bounds, local, Locations
    <3>2. msg' = msg /\ key' = key
      BY <2>1, <2>4 DEF msg, key, telegram, local
    <3>3. OnlyEditsMisfile' /\ Held' /\ InHand'
      BY <1>a, <2>1, <2>2, <2>4 DEF OnlyEditsMisfile, Held, InHand, Fetched, Settling,
                       telegram, tables, bounds, local
    <3>4. Named' /\ Walked'
      BY <1>a, <2>1, <2>4, <3>2 DEF Named, Walked, Fetched, Settling,
                       telegram, tables, bounds, local
    <3>5. Receipting'
      BY <1>a, <2>1, <2>4 DEF Receipting, Receipted, Traced, tables, bounds, local
    <3> QED BY <2>3, <3>1, <3>3, <3>4, <3>5 DEF IInv
  <2>5. CASE RejectFile
    <3>1. /\ pc' = "next" /\ skipped' = TRUE /\ todo' = todo \ {msg}
          /\ UNCHANGED <<store, index, sha, known>>
      BY <2>5 DEF RejectFile
    <3>2. OnlyEditsMisfile' /\ InHand' /\ Named' /\ Walked' /\ Receipting'
      BY <2>1, <3>1, FileSkipped DEF telegram, bounds
    <3>3. TypeOK'
      BY <1>a, <2>1, <3>1 DEF TypeOK, telegram, tables, bounds, Locations
    <3>4. Held'
      BY <1>a, <2>1, <3>1 DEF Held, Settling
    <3> QED BY <2>3, <3>2, <3>3, <3>4 DEF IInv
  <2>6. known /\ StoredIn(sha) => object[store][sha] = "good"
    BY <1>a, <2>2, HeldIsGood DEF HeldUnseen
  <2>7. object[store][sha] # "none" /\ Adoptable(sha) => object[store][sha] = "good"
    BY <1>a, <2>2, AdoptedIsGood
  <2> QED BY <1>8, <2>4, <2>5, <2>6, <2>7 DEF LookUp
<1>9. CASE Commit
  <2>1. UNCHANGED <<telegram, tables, bounds>> /\ pc = "commit"
    BY <1>9 DEF Commit
  <2>2. todo # {} /\ sha \in Shas /\ store \in Stores
    BY <1>a, <2>1 DEF InHand, Fetched, TypeOK
  <2>3. ASSUME NEW bytes \in {"good", "bad"}, object[store][sha] = "none",
               object' = [object EXCEPT ![store][sha] = bytes]
        PROVE  /\ object' \in [Stores -> [Shas -> {"none", "good", "bad"}]]
               /\ EvidenceIsReal' /\ object'[store][sha] = bytes
               /\ store # "local" \/ bytes = "good" =>
                     \A h \in Shas : object'["local"][h] # "bad"
    <3>1. object' \in [Stores -> [Shas -> {"none", "good", "bad"}]]
      BY <1>a, <2>2, <2>3 DEF TypeOK
    <3>2. \A s \in Stores, h \in Shas :
            object'[s][h] = IF s = store /\ h = sha THEN bytes ELSE object[s][h]
      BY <1>a, <2>2, <2>3 DEF TypeOK
    <3>3. EvidenceIsReal'
      BY <1>a, <2>1, <2>3, <3>2 DEF EvidenceIsReal, TypeOK, tables
    <3>4. store # "local" \/ bytes = "good" => \A h \in Shas : object'["local"][h] # "bad"
      BY <1>a, <3>2 DEF Held, Stores
    <3> QED BY <2>2, <3>1, <3>2, <3>3, <3>4
  <2>4. CASE /\ pc' = "media" /\ UNCHANGED local
             /\ object' \in [Stores -> [Shas -> {"none", "good", "bad"}]]
             /\ EvidenceIsReal' /\ object'[store][sha] = "good"
             /\ \A h \in Shas : object'["local"][h] # "bad"
    <3>1. TypeOK'
      BY <1>a, <2>1, <2>4 DEF TypeOK, telegram, tables, bounds, local, Locations
    <3>2. msg' = msg /\ key' = key
      BY <2>1, <2>4 DEF msg, key, telegram, local
    <3>3. OnlyEditsMisfile' /\ Held' /\ InHand'
      BY <1>a, <2>1, <2>2, <2>4 DEF OnlyEditsMisfile, Held, InHand, Fetched, Settling,
                       telegram, tables, bounds, local
    <3>4. Named' /\ Walked'
      BY <1>a, <2>1, <2>4, <3>2 DEF Named, Walked, Fetched, Settling,
                       telegram, tables, bounds, local
    <3>5. Receipting'
      BY <1>a, <2>1, <2>4 DEF Receipting, Receipted, Traced, tables, bounds, local
    <3> QED BY <2>4, <3>1, <3>3, <3>4, <3>5 DEF IInv
  <2>5. CASE /\ RejectFile
             /\ object' \in [Stores -> [Shas -> {"none", "good", "bad"}]]
             /\ EvidenceIsReal'
             /\ \A h \in Shas : object'["local"][h] # "bad"
    <3>1. /\ pc' = "next" /\ skipped' = TRUE /\ todo' = todo \ {msg}
          /\ UNCHANGED <<store, index, sha, known>>
      BY <2>5 DEF RejectFile
    <3>2. OnlyEditsMisfile' /\ InHand' /\ Named' /\ Walked' /\ Receipting'
      BY <2>1, <3>1, FileSkipped DEF telegram, bounds
    <3>3. TypeOK'
      BY <1>a, <2>1, <2>5, <3>1 DEF TypeOK, telegram, tables, bounds, Locations
    <3>4. Held'
      BY <2>5, <3>1 DEF Held, Settling
    <3> QED BY <2>5, <3>2, <3>3, <3>4 DEF IInv
  <2>6. CASE UNCHANGED object
    <3>1. /\ object' \in [Stores -> [Shas -> {"none", "good", "bad"}]]
          /\ EvidenceIsReal' /\ \A h \in Shas : object'["local"][h] # "bad"
      BY <1>a, <2>1, <2>6 DEF TypeOK, EvidenceIsReal, Held, tables
    <3>2. CASE RejectFile
      BY <2>5, <3>1, <3>2
    <3>3. CASE ~RejectFile
      <4>1. object[store][sha] \in {"none", "good", "bad"}
        BY <1>a, <2>2 DEF TypeOK
      <4>2. pc' = "media" /\ UNCHANGED local /\ object'[store][sha] = "good"
        <5>1. CASE object[store][sha] = "none"
          <6>1. object' = [object EXCEPT ![store][sha] = "good"] => object'[store][sha] = "good"
            BY <2>3, <5>1
          <6> QED BY <1>9, <2>6, <3>3, <5>1, <6>1 DEF Commit
        <5>2. CASE object[store][sha] # "none"
          BY <1>9, <1>a, <2>2, <2>6, <3>3, <5>2, AdoptedIsGood DEF Commit
        <5> QED BY <5>1, <5>2
      <4> QED BY <2>4, <3>1, <4>2
    <3> QED BY <3>2, <3>3
  <2>7. CASE object[store][sha] = "none" /\ pc' = "media" /\ UNCHANGED local
             /\ object' = [object EXCEPT ![store][sha] = "good"]
    BY <2>3, <2>4, <2>7
  <2>8. CASE /\ store = "bucket" /\ object[store][sha] = "none"
             /\ object' = [object EXCEPT ![store][sha] = "bad"] /\ RejectFile
    BY <2>3, <2>5, <2>8
  <2> QED BY <1>9, <2>6, <2>7, <2>8 DEF Commit
<1>10. CASE InsertMedia
  <2>1. /\ UNCHANGED <<telegram, object, custody, newest, receipts, local, bounds>>
        /\ pc = "media" /\ media' = (IF known THEN media ELSE media \cup {sha})
        /\ pc' = "custody"
    BY <1>10 DEF InsertMedia
  <2>2. todo # {} /\ sha \in Shas
    BY <1>a, <2>1 DEF InHand, Fetched, Settling
  <2>3. msg' = msg /\ key' = key
    BY <2>1 DEF msg, key, telegram, local
  <2>4. TypeOK'
    BY <1>a, <2>1, <2>2 DEF TypeOK, telegram, bounds, local, Locations
  <2>5. EvidenceIsReal' /\ OnlyEditsMisfile' /\ Held' /\ InHand'
    BY <1>a, <2>1, <2>2 DEF EvidenceIsReal, OnlyEditsMisfile, Held, InHand, Fetched, Settling,
                     telegram, bounds, local
  <2>6. Named' /\ Walked'
    BY <1>a, <2>1, <2>3 DEF Named, Walked, Fetched, Settling, telegram, bounds, local
  <2>7. Receipting'
    BY <1>a, <2>1 DEF Receipting, Receipted, Traced, bounds, local
  <2> QED BY <2>4, <2>5, <2>6, <2>7 DEF IInv

<1>11. CASE RecordCustody
  <2>1. /\ UNCHANGED <<telegram, object, media, receipts, local, bounds>>
        /\ pc \in {"custody", "dupCustody"} /\ pc' = "receipt"
        /\ custody' = custody \cup {Sighting(sha)}
        /\ newest' = [newest EXCEPT ![key] = sha]
    BY <1>11 DEF RecordCustody
  <2>2. todo # {} /\ sha \in Shas /\ pc # "idle"
    BY <1>a, <2>1 DEF InHand, Fetched, Settling
  <2>3. msg' = msg /\ key' = key /\ Sighting(sha)' = Sighting(sha)
    BY <2>1 DEF msg, key, Sighting, telegram, local
  <2>4. object[store][sha] = "good" /\ (key \in drifted \/ sha = BytesOf[key])
    BY <1>a, <2>1 DEF Held, Named, Fetched, Settling
  <2>5. /\ custody' \subseteq Rows /\ newest' \in [Contents -> Shas \cup {NoFile}]
        /\ EvidenceIsReal' /\ OnlyEditsMisfile'
    <3>1. PICK h \in Shas : h = sha
      BY <2>2
    <3> QED BY <2>1, <2>2, <2>4, <3>1, SightingEntered DEF bounds
  <2>6. TypeOK'
    BY <1>a, <2>1, <2>5 DEF TypeOK, Rows, telegram, bounds, local, Locations
  <2>7. Held' /\ InHand'
    BY <1>a, <2>1, <2>2, <2>4 DEF Held, InHand, Fetched, Settling, telegram, local
  <2>8. \A c \in Contents : newest'[c] = IF c = key THEN sha ELSE newest[c]
    BY <1>a, <2>1 DEF TypeOK
  <2>9. Named'
    BY <1>a, <2>1, <2>3, <2>4, <2>8 DEF Named, Fetched, Settling, bounds, local
  <2>10. Walked'
    BY <1>a, <2>1, <2>3 DEF Walked, telegram, local
  <2>11. Receipting'
    <3> SUFFICES ASSUME kills = 0 PROVE Receipting'
      BY <2>1 DEF Receipting, bounds
    <3>1. \A g, c : Receipted(g, c) => Receipted(g, c)'
      BY <2>1 DEF Receipted
    <3>2. \A c : Traced(c) => Traced(c)'
      BY <2>1 DEF Traced
    <3>3. \A c \in custody' : Traced(c)' \/ c = Sighting(sha)'
      <4>1. ASSUME NEW c \in custody' PROVE Traced(c) \/ c = Sighting(sha)
        BY <1>a, <2>1 DEF Receipting
      <4> QED BY <2>3, <3>2, <4>1
    <3>4. newest'[key'] = sha'
      BY <1>a, <2>1, <2>2, <2>3, <2>8, KeyIsContent DEF local
    <3>5. ASSUME NEW c \in Contents, index[c] # NoFile PROVE Receipted(index[c], c)'
      <4>1. PICK g : g = index[c]
        OBVIOUS
      <4>2. Receipted(g, c)'
        BY <1>a, <3>1, <3>5, <4>1 DEF Receipting
      <4> QED BY <2>1, <4>1, <4>2 DEF Receipted, local
    <3>6. ASSUME NEW c \in Contents, newest'[c] # NoFile, c # key
          PROVE  Receipted(newest[c], c)'
      <4>1. PICK g : g = newest[c]
        OBVIOUS
      <4>2. Receipted(g, c)'
        BY <1>a, <2>1, <2>8, <3>1, <3>6, <4>1 DEF Receipting
      <4> QED BY <2>8, <3>6, <4>1, <4>2 DEF Receipted
    <3> QED BY <2>1, <2>3, <3>3, <3>4, <3>5, <3>6 DEF Receipting, local
  <2> QED BY <2>5, <2>6, <2>7, <2>9, <2>10, <2>11 DEF IInv
<1>12. CASE WriteReceipt
  <2>1. /\ UNCHANGED <<telegram, object, media, custody, newest, store, sha, known,
                       skipped, bounds>>
        /\ pc = "receipt" /\ pc' = "next" /\ todo' = todo \ {msg}
        /\ receipts' = receipts \cup {[msg |-> msg, sha |-> sha, store |-> store]}
        /\ index' = [index EXCEPT ![key] = sha]
    BY <1>12 DEF WriteReceipt
  <2>2. todo # {} /\ sha \in Shas /\ pc # "idle"
    BY <1>a, <2>1 DEF InHand, Fetched, Settling
  <2>3. msg \in Msgs /\ key \in Contents
    BY <1>a, <2>2, KeyIsContent
  <2>4. Sighting(sha) \in custody /\ (key \in drifted \/ sha = BytesOf[key])
    BY <1>a, <2>1 DEF Walked, Named, Fetched, Settling
  <2>5. Sighting(sha).msg = msg /\ Sighting(sha).store = store /\ Sighting(sha).key = key
        /\ Sighting(sha).sha = sha
    <3>1. PICK h \in Shas : h = sha
      BY <2>2
    <3> QED BY <1>a, <2>2, <3>1, SightingIsRow
  <2>6. \A c \in Contents : index'[c] = IF c = key THEN sha ELSE index[c]
    BY <1>a, <2>1 DEF TypeOK
  <2>7. TypeOK'
    <3>1. receipts' \subseteq [msg : Msgs, sha : Shas, store : Stores]
      BY <1>a, <2>1, <2>2, <2>3 DEF TypeOK
    <3>2. index' \in [Contents -> Shas \cup {NoFile}]
      BY <1>a, <2>1, <2>2 DEF TypeOK
    <3> QED BY <1>a, <2>1, <3>1, <3>2 DEF TypeOK, telegram, bounds, Locations
  <2>8. EvidenceIsReal' /\ OnlyEditsMisfile' /\ Held' /\ InHand'
    BY <1>a, <2>1 DEF EvidenceIsReal, OnlyEditsMisfile, Held, InHand, Fetched, Settling,
                     telegram, bounds
  <2>9. Named'
    BY <1>a, <2>1, <2>4, <2>6 DEF Named, Fetched, Settling, bounds
  <2>10. Walked'
    <3>1. key = row[msg]
      BY DEF key
    <3> QED BY <1>a, <2>1, <2>4, <2>5, <3>1 DEF Walked, telegram
  <2>11. Receipting'
    <3> SUFFICES ASSUME kills = 0 PROVE Receipting'
      BY <2>1 DEF Receipting, bounds
    <3>1. \A g, c : Receipted(g, c) => Receipted(g, c)'
      BY <2>1 DEF Receipted
    <3>2. \A c : Traced(c) => Traced(c)'
      BY <2>1 DEF Traced
    <3>3. PICK r \in receipts' : r = [msg |-> msg, sha |-> sha, store |-> store]
      BY <2>1
    <3>4. PICK h \in Shas, k \in Contents : h = sha /\ k = key
      BY <2>2, <2>3
    <3>5. Receipted(h, k)'
      BY <2>1, <2>4, <2>5, <3>3, <3>4 DEF Receipted
    <3>6. PICK d \in custody : d = Sighting(sha)
      BY <2>4
    <3>7. Traced(d)'
      BY <2>5, <3>3, <3>6 DEF Traced
    <3>8. \A c \in custody' : Traced(c)'
      BY <1>a, <2>1, <3>2, <3>6, <3>7 DEF Receipting
    <3>9. ASSUME NEW c \in Contents, index'[c] # NoFile PROVE Receipted(index[c], c)'
      <4>1. PICK g : g = index'[c]
        OBVIOUS
      <4>2. Receipted(g, c)'
        <5>1. CASE c = k
          BY <2>6, <3>4, <3>5, <4>1, <5>1
        <5>2. CASE c # k
          BY <1>a, <2>6, <3>1, <3>4, <3>9, <4>1, <5>2 DEF Receipting
        <5> QED BY <5>1, <5>2
      <4> QED BY <4>1, <4>2 DEF Receipted
    <3>10. ASSUME NEW c \in Contents, newest[c] # NoFile PROVE Receipted(newest[c], c)'
      <4>1. PICK g : g = newest[c]
        OBVIOUS
      <4>2. Receipted(g, c)'
        <5>1. CASE c = k
          BY <1>a, <2>1, <3>4, <3>5, <4>1, <5>1 DEF Receipting
        <5>2. CASE c # k
          BY <1>a, <3>1, <3>4, <3>10, <4>1, <5>2 DEF Receipting
        <5> QED BY <5>1, <5>2
      <4> QED BY <2>1, <4>1, <4>2 DEF Receipted
    <3> QED BY <2>1, <3>8, <3>9, <3>10 DEF Receipting
  <2> QED BY <2>7, <2>8, <2>9, <2>10, <2>11 DEF IInv
<1>13. CASE EndRun \/ Stop \/ Kill
  <2>1. /\ UNCHANGED <<telegram, object, tables, store, todo, index, sha, known, drifted, edits>>
        /\ pc' = "idle" /\ skipped' \in BOOLEAN /\ runs' = runs
        /\ (kills' = kills /\ pc # "receipt") \/ kills' = kills + 1
    BY <1>13, <1>a DEF EndRun, Stop, Kill, local, bounds, TypeOK
  <2>2. /\ EvidenceIsReal' /\ OnlyEditsMisfile' /\ Held' /\ InHand' /\ Named'
        /\ Walked' /\ Receipting'
    BY <2>1, RunOver DEF telegram
  <2>3. TypeOK'
    BY <1>a, <2>1 DEF TypeOK, telegram, tables, Locations
  <2> QED BY <2>2, <2>3 DEF IInv
<1>14. CASE UNCHANGED vars
  <2>1. UNCHANGED <<telegram, object, tables, pc, local, bounds>>
    BY <1>14 DEF vars
  <2>2. OnlyEditsMisfile' /\ InHand' /\ Named' /\ Walked' /\ Receipting'
    BY <2>1, TablesUntouched DEF telegram, bounds
  <2>3. TypeOK' /\ EvidenceIsReal' /\ Held'
    BY <1>a, <2>1 DEF TypeOK, EvidenceIsReal, Held, telegram, tables, local, bounds
  <2> QED BY <2>2, <2>3 DEF IInv
<1> QED
  BY <1>1, <1>2, <1>3, <1>4, <1>5, <1>6, <1>7, <1>8, <1>9, <1>10, <1>11, <1>12,
     <1>13, <1>14 DEF Next

-----------------------------------------------------------------------------
(* The media phase keeps its rows, objects and receipts in their types.     *)
THEOREM MediaTypeCorrect == Spec => []TypeOK
<1>1. IInv => TypeOK
  BY DEF IInv
<1> QED BY IInvInit, IInvNext, <1>1, PTL DEF Spec

(* However runs interleave with other profiles' writes to the shared bucket, *)
(* and wherever one is killed, every custody row points at the right bytes.  *)
THEOREM EvidenceStaysReal == Spec => []EvidenceIsReal
<1>1. IInv => EvidenceIsReal
  BY DEF IInv
<1> QED BY IInvInit, IInvNext, <1>1, PTL DEF Spec

(* A content no file was downloaded for after an edit is never misfiled.    *)
THEOREM MisfilingNeedsAnEdit == Spec => []OnlyEditsMisfile
<1>1. IInv => OnlyEditsMisfile
  BY DEF IInv
<1> QED BY IInvInit, IInvNext, <1>1, PTL DEF Spec

(* A run that has walked every message and skipped none has filed each one  *)
(* in its own store, and that store has the file.                           *)
THEOREM FinishedRunsAreComplete == Spec => []FinishedIsComplete
<1>1. IInv => FinishedIsComplete
  <2> SUFFICES ASSUME IInv, pc = "next", todo = {}, ~skipped,
                      NEW m \in Msgs, row[m] # Gone
               PROVE  \E c \in custody : /\ c.msg = m /\ c.store = store /\ c.key = row[m]
                                         /\ object[store][c.sha] = "good"
    BY DEF FinishedIsComplete
  <2>1. PICK c \in custody : c.msg = m /\ c.store = store /\ c.key = row[m]
    BY DEF IInv, Walked
  <2>2. object[c.store][c.sha] = "good"
    BY DEF IInv, EvidenceIsReal
  <2> QED BY <2>1, <2>2
<1> QED BY IInvInit, IInvNext, <1>1, PTL DEF Spec

(* Unless a run was killed, between runs every custody row can be rebuilt   *)
(* from the receipts.                                                       *)
THEOREM ReceiptsRebuildCustody == Spec => []CustodyIsRebuildable
<1>1. IInv => CustodyIsRebuildable
  BY DEF IInv, Receipting, CustodyIsRebuildable
<1> QED BY IInvInit, IInvNext, <1>1, PTL DEF Spec

-----------------------------------------------------------------------------
(* The chain of evidence.  What can still be filed is catalogued.           *)
LEMMA CataloguedInit == Init => Catalogued
BY DEF Init, Catalogued, Fetched, Settling

(* The tables grow, and the file in hand and the index stay.                *)
LEMMA CataloguedStays ==
    ASSUME Catalogued, UNCHANGED <<media, custody, newest, index, sha, known>>,
           pc' \notin Fetched \/ UNCHANGED pc
    PROVE  Catalogued'
BY DEF Catalogued, Fetched, Settling

LEMMA CataloguedNext == IInv /\ Catalogued /\ [Next]_vars => Catalogued'
<1> SUFFICES ASSUME IInv, Catalogued, [Next]_vars PROVE Catalogued'
  OBVIOUS
<1> USE DEF telegram, tables, local, bounds
<1>1. CASE Edit \/ Observe \/ OtherWriter \/ SkipFile \/ EndRun \/ Stop \/ Kill
           \/ UNCHANGED vars
  <2>1. /\ UNCHANGED <<media, custody, newest, index, sha, known>>
        /\ pc' \notin Fetched \/ UNCHANGED pc
    BY <1>1 DEF Edit, Observe, OtherWriter, SkipFile, EndRun, Stop, Kill, vars, Fetched, Settling
  <2> QED BY <2>1, CataloguedStays
<1>2. ASSUME NEW s \in Stores, StartRun(s) PROVE Catalogued'
  BY <1>2 DEF StartRun, Catalogued, Fetched, Settling
<1>3. CASE DedupHit
  <2>1. /\ UNCHANGED <<media, pc, index, sha, known>> /\ pc = "next" /\ todo # {}
        /\ custody' = custody \cup {Sighting(index[key])}
        /\ newest' = [newest EXCEPT ![key] = index[key]] /\ index[key] # NoFile
    BY <1>3 DEF DedupHit, KnownContent
  <2>2. key \in Contents
    BY <2>1, KeyIsContent DEF IInv
  <2>3. index[key] \in media
    BY <2>1, <2>2 DEF Catalogued
  <2>4. \A c \in custody' : c.sha \in media
    BY <2>1, <2>3 DEF Catalogued, Sighting
  <2>5. \A c \in Contents : newest'[c] = IF c = key THEN index[key] ELSE newest[c]
    BY <2>1, <2>2 DEF IInv, TypeOK
  <2> QED BY <2>1, <2>3, <2>4, <2>5 DEF Catalogued, Fetched, Settling
<1>4. CASE Download
  BY <1>4 DEF Download, Catalogued
<1>5. CASE LookUp
  <2>1. /\ UNCHANGED <<media, custody, newest, index, sha, known>> /\ pc = "streamed"
        /\ pc' \in {"media", "commit", "next"} \/ (pc' = "dupCustody" /\ known)
    BY <1>5 DEF LookUp, RejectFile
  <2> QED BY <2>1 DEF Catalogued, Fetched, Settling
<1>6. CASE Commit
  <2>1. /\ UNCHANGED <<media, custody, newest, index, sha, known>> /\ pc = "commit"
        /\ pc' \in {"media", "next"}
    BY <1>6 DEF Commit, RejectFile
  <2> QED BY <2>1 DEF Catalogued, Fetched, Settling
<1>7. CASE InsertMedia
  <2>1. /\ UNCHANGED <<custody, newest, index, sha, known>> /\ pc = "media"
        /\ media' = IF known THEN media ELSE media \cup {sha}
    BY <1>7 DEF InsertMedia
  <2>2. media \subseteq media' /\ sha \in media'
    BY <2>1 DEF Catalogued, Fetched, Settling
  <2> QED BY <2>1, <2>2 DEF Catalogued
<1>8. CASE RecordCustody
  <2>1. /\ UNCHANGED <<media, index, sha, known>> /\ sha \in media
        /\ custody' = custody \cup {Sighting(sha)} /\ newest' = [newest EXCEPT ![key] = sha]
    BY <1>8 DEF RecordCustody, Catalogued
  <2>2. \A c \in custody' : c.sha \in media
    BY <2>1 DEF Catalogued, Sighting
  <2>3. \A c \in Contents : newest'[c] \in {sha, newest[c]}
    BY <2>1 DEF IInv, TypeOK
  <2> QED BY <2>1, <2>2, <2>3 DEF Catalogued
<1>9. CASE WriteReceipt
  <2>1. /\ UNCHANGED <<media, custody, newest, sha, known>> /\ sha \in media /\ pc' = "next"
        /\ index' = [index EXCEPT ![key] = sha]
    BY <1>9 DEF WriteReceipt, Catalogued
  <2>2. \A c \in Contents : index'[c] \in {sha, index[c]}
    BY <2>1 DEF IInv, TypeOK
  <2> QED BY <2>1, <2>2 DEF Catalogued, Fetched, Settling
<1> QED BY <1>1, <1>2, <1>3, <1>4, <1>5, <1>6, <1>7, <1>8, <1>9 DEF Next

chain == <<object, media, custody, receipts>>

(* Every statement extends the chain or leaves it alone.                    *)
LEMMA ChainStep == IInv /\ Catalogued /\ [Next]_vars => [Chain!Next]_chain
<1> SUFFICES ASSUME IInv, Catalogued, [Next]_vars PROVE [Chain!Next]_chain
  OBVIOUS
<1> USE DEF telegram, tables, local, bounds
<1>0. TypeOK /\ EvidenceIsReal /\ Held /\ InHand /\ Named /\ Walked
  BY DEF IInv
<1>1. CASE Edit \/ Observe \/ (\E s \in Stores : StartRun(s)) \/ SkipFile \/ Download
           \/ LookUp \/ EndRun \/ Stop \/ Kill \/ UNCHANGED vars
  BY <1>1 DEF Edit, Observe, StartRun, SkipFile, Download, LookUp, EndRun, Stop, Kill,
              vars, chain
<1>2. CASE OtherWriter
  <2>1. PICK h \in Shas, bytes \in {"good", "bad"} :
           /\ object["bucket"][h] = "none"
           /\ object' = [object EXCEPT !["bucket"][h] = bytes]
    BY <1>2 DEF OtherWriter
  <2>2. UNCHANGED <<media, custody, receipts>> /\ "bucket" \in Stores
    BY <1>2 DEF OtherWriter, Stores
  <2>3. Chain!Create("bucket", h, bytes)
    BY <2>1, <2>2 DEF Chain!Create
  <2> QED BY <2>1, <2>2, <2>3 DEF Chain!Next
<1>3. CASE DedupHit
  <2>1. /\ UNCHANGED <<object, media, receipts>> /\ pc = "next" /\ todo # {} /\ KnownContent
        /\ custody' = custody \cup {Sighting(index[key])}
    BY <1>3 DEF DedupHit
  <2>2. key \in Contents
    BY <1>0, <2>1, KeyIsContent
  <2>3. PICK h \in Shas : h = index[key] /\ HeldUnseen(h)
    BY <1>0, <2>1, <2>2 DEF KnownContent, TypeOK
  <2>4. object[store][h] = "good" /\ h \in media
    <3>1. h \in media
      BY <2>1, <2>2, <2>3 DEF Catalogued, KnownContent
    <3>2. object[store][h] = "good"
      BY <1>0, <2>3, HeldIsGood
    <3> QED BY <3>1, <3>2
  <2>5. /\ Sighting(h) \in Rows /\ Sighting(h).sha = h /\ Sighting(h).store = store
    BY <1>0, <2>1, SightingIsRow
  <2>6. Chain!Record(Sighting(h))
    BY <2>1, <2>3, <2>4, <2>5 DEF Chain!Record
  <2> QED BY <2>5, <2>6 DEF Chain!Next, Rows
<1>4. CASE Commit
  <2>1. sha \in Shas /\ store \in Stores /\ UNCHANGED <<media, custody, receipts>>
    BY <1>0, <1>4 DEF Commit, InHand, TypeOK, Fetched
  <2>2. \/ UNCHANGED object
        \/ \E bytes \in {"good", "bad"} :
              /\ object[store][sha] = "none" /\ (bytes = "bad" => store = "bucket")
              /\ object' = [object EXCEPT ![store][sha] = bytes]
    BY <1>4 DEF Commit
  <2>3. CASE UNCHANGED object
    BY <2>1, <2>3 DEF chain
  <2>4. ASSUME NEW bytes \in {"good", "bad"}, object[store][sha] = "none",
               bytes = "bad" => store = "bucket",
               object' = [object EXCEPT ![store][sha] = bytes]
        PROVE  Chain!Next
    <3>1. Chain!Create(store, sha, bytes)
      BY <2>1, <2>4 DEF Chain!Create
    <3> QED BY <2>1, <3>1 DEF Chain!Next
  <2> QED BY <2>2, <2>3, <2>4
<1>5. CASE InsertMedia
  <2>1. /\ UNCHANGED <<object, custody, receipts>>
        /\ media' = media \/ media' = media \cup {sha}
        /\ store \in Stores /\ sha \in Shas /\ object[store][sha] = "good"
    BY <1>0, <1>5 DEF InsertMedia, InHand, Fetched, Settling, TypeOK, Held
  <2>2. CASE media' = media
    BY <2>1, <2>2 DEF chain
  <2>3. CASE media' = media \cup {sha}
    <3>1. Chain!Catalogue(sha)
      BY <2>1, <2>3 DEF Chain!Catalogue
    <3> QED BY <2>1, <3>1 DEF Chain!Next
  <2> QED BY <2>1, <2>2, <2>3
<1>6. CASE RecordCustody
  <2>1. /\ UNCHANGED <<object, media, receipts>> /\ pc # "idle" /\ todo # {}
        /\ sha \in Shas /\ sha \in media /\ object[store][sha] = "good"
        /\ custody' = custody \cup {Sighting(sha)}
    BY <1>0, <1>6 DEF RecordCustody, InHand, Fetched, Settling, Held, Catalogued
  <2>2. Sighting(sha) \in Rows /\ Sighting(sha).sha = sha /\ Sighting(sha).store = store
    BY <1>0, <2>1, SightingIsRow
  <2>3. Chain!Record(Sighting(sha))
    BY <2>1, <2>2 DEF Chain!Record
  <2> QED BY <2>2, <2>3 DEF Chain!Next, Rows
<1>7. CASE WriteReceipt
  <2> DEFINE r == [msg |-> msg, sha |-> sha, store |-> store]
  <2>1. /\ UNCHANGED <<object, media, custody>> /\ pc # "idle" /\ todo # {}
        /\ sha \in Shas /\ Sighting(sha) \in custody /\ receipts' = receipts \cup {r}
    BY <1>0, <1>7 DEF WriteReceipt, InHand, Fetched, Settling, Walked
  <2>2. msg \in Msgs /\ store \in Stores
    BY <1>0, <2>1, KeyIsContent DEF TypeOK
  <2>3. Sighting(sha).msg = r.msg /\ Sighting(sha).sha = r.sha /\ Sighting(sha).store = r.store
    BY <1>0, <2>1, SightingIsRow
  <2>4. r \in [msg : Msgs, sha : Shas, store : Stores]
    BY <2>1, <2>2
  <2> HIDE DEF r
  <2>5. Chain!Acknowledge(r)
    BY <2>1, <2>3 DEF Chain!Acknowledge
  <2> QED BY <2>4, <2>5 DEF Chain!Next
<1> QED BY <1>1, <1>2, <1>3, <1>4, <1>5, <1>6, <1>7 DEF Next

(* The media phase implements the chain of evidence: through kills, lost    *)
(* create races, other writers and duplicates an object is never replaced,  *)
(* a file is catalogued only once its bytes are stored, a sighting is filed *)
(* only for a catalogued file whose bytes are in the store it names, and a  *)
(* receipt only for a sighting.                                             *)
THEOREM MediaKeepsChain == Spec => KeepsChain
<1> DEFINE Both == IInv /\ Catalogued
<1>1. Init => Both /\ Chain!Init
  <2>1. Init => Chain!Init
    BY DEF Init, Chain!Init
  <2> QED BY <2>1, IInvInit, CataloguedInit
<1>2. Both /\ [Next]_vars => Both' /\ [Chain!Next]_chain
  BY IInvNext, CataloguedNext, ChainStep
<1> HIDE DEF Both
<1> QED BY <1>1, <1>2, PTL DEF Spec, KeepsChain, Chain!Spec, chain
=============================================================================
