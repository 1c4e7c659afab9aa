------------------------- MODULE FetchFromListProofs -------------------------
(***************************************************************************)
(* Theorems about FetchFromList, for any channels, links, handles, lists   *)
(* and exclusions, any batch size, and any answers of Telegram: its types, *)
(* that exclusion neither leaks nor takes anything else, that nothing is   *)
(* fetched twice, that every row is settled and that the report is true.   *)
(***************************************************************************)
EXTENDS FetchFromList, FiniteSetTheorems, TLAPS, WellFoundedInduction

-----------------------------------------------------------------------------
(* A nonempty set of naturals has a least member ...                        *)
LEMMA LeastMember ==
    ASSUME NEW S \in SUBSET Nat, S # {}
    PROVE  \E x \in S : \A y \in S : x <= y
<1>1. PICK x \in S : \A y \in S : ~(<<y, x>> \in OpToRel(<, Nat))
  BY NatLessThanWellFounded, WFMin
<1>2. ASSUME NEW y \in S PROVE x <= y
  <2>1. ~(<<y, x>> \in OpToRel(<, Nat))
    BY <1>1
  <2>2. ~(y < x)
    BY <2>1 DEF OpToRel
  <2> QED BY <2>2
<1> QED BY <1>2

(* ... and, when it is finite, a greatest.                                  *)
LEMMA GreatestMember ==
    ASSUME NEW S \in SUBSET Nat, S # {}, IsFiniteSet(S)
    PROVE  \E x \in S : \A y \in S : y <= x
<1> DEFINE Above(x) == {y \in S : x < y}
           T == {Cardinality(Above(x)) : x \in S}
<1>1. ASSUME NEW x \in S PROVE IsFiniteSet(Above(x)) /\ Cardinality(Above(x)) \in Nat
  <2>1. Above(x) \in SUBSET S
    OBVIOUS
  <2>2. IsFiniteSet(Above(x))
    BY <2>1, FS_Subset
  <2> QED BY <2>2, FS_CardinalityType
<1>2. T \in SUBSET Nat /\ T # {}
  BY <1>1
<1>3. PICK n \in T : \A k \in T : n <= k
  BY <1>2, LeastMember
<1>4. PICK x \in S : n = Cardinality(Above(x))
  BY <1>3
<1>5. ASSUME NEW y \in S, ~(y <= x) PROVE FALSE
  <2>0. x \in Nat /\ y \in Nat /\ x < y /\ \A z \in S : z \in Nat
    BY <1>5
  <2>1. Above(y) \in SUBSET Above(x) /\ y \in Above(x) /\ y \notin Above(y)
    <3>1. ASSUME NEW z \in Above(y) PROVE z \in Above(x)
      <4>1. z \in S /\ y < z /\ z \in Nat
        BY <2>0
      <4>2. x < z
        BY <2>0, <4>1
      <4> QED BY <4>1, <4>2
    <3>2. y \in Above(x)
      BY <2>0
    <3>3. ~(y < y)
      BY <2>0
    <3> QED BY <3>1, <3>2, <3>3
  <2>2. Cardinality(Above(y)) <= Cardinality(Above(x))
        /\ (Cardinality(Above(y)) = Cardinality(Above(x)) => Above(y) = Above(x))
    <3> HIDE DEF Above
    <3> QED BY <2>1, <1>1, FS_Subset
  <2>3. n <= Cardinality(Above(y))
    BY <1>3
  <2>4. Above(y) # Above(x)
    BY <2>1
  <2>5. Cardinality(Above(y)) \in Nat /\ Cardinality(Above(x)) \in Nat
    BY <1>1
  <2> HIDE DEF Above
  <2> QED BY <2>2, <2>3, <2>4, <2>5, <1>4
<1> QED BY <1>5

LEMMA StoredChannelIsOne ==
    ASSUME collected \subseteq Channels, NEW a \in Channels \cup Handles
    PROVE  /\ StoredChannel(a) \in Channels \cup {NoChannel}
           /\ a \in Channels => StoredChannel(a) = a
<1> DEFINE rows == {c \in collected : username[c] = a}
<1>1. CASE a \in Channels \/ rows = {}
  BY <1>1 DEF StoredChannel
<1>2. CASE a \notin Channels /\ rows # {}
  <2>1. rows \in SUBSET Channels /\ rows \in SUBSET Nat /\ IsFiniteSet(Channels)
    BY ListAssumption
  <2>2. IsFiniteSet(rows)
    BY <2>1, FS_Subset
  <2>3. \E c \in rows : \A d \in rows : d <= c
    <3> HIDE DEF rows
    <3> QED BY <1>2, <2>1, <2>2, GreatestMember
  <2>4. StoredChannel(a) = CHOOSE c \in rows : \A d \in rows : d <= c
    BY <1>2 DEF StoredChannel
  <2>5. StoredChannel(a) \in rows
    <3> HIDE DEF rows
    <3> QED BY <2>3, <2>4
  <2> QED BY <2>5, <2>1, <1>2
<1> QED BY <1>1, <1>2

(* The rows of a list are lines of it.                                      *)
LEMMA RowsAreLines ==
    ASSUME NEW l \in Lists \cup {<<>>}
    PROVE  /\ DOMAIN l \subseteq Nat
           /\ \A i \in DOMAIN l :
                 /\ l[i].addr \in Channels \cup Handles /\ l[i].msg \in Msgs
                 /\ \A j \in 1..(i - 1) : j \in DOMAIN l
<1> DEFINE Line == [addr : Channels \cup Handles, msg : Msgs, prio : Priorities]
<1>1. Lists \subseteq Seq(Line)
  BY ListAssumption
<1>2. l \in Seq(Line)
  <2>1. <<>> \in Seq(Line)
    OBVIOUS
  <2> HIDE DEF Line
  <2> QED BY <1>1, <2>1
<1>3. DOMAIN l = 1..Len(l) /\ Len(l) \in Nat
  <2> HIDE DEF Line
  <2> QED BY <1>2
<1>4. \A i \in DOMAIN l : l[i] \in Line
  <2> HIDE DEF Line
  <2> QED BY <1>2
<1>5. \A i \in DOMAIN l : i \in Nat /\ \A j \in 1..(i - 1) : j \in DOMAIN l
  BY <1>3
<1> QED BY <1>4, <1>5

(* While the channels excluded by name are on record and every edge touches *)
(* a channel on record, nothing but what is off limits follows an exclusion. *)
LEMMA FollowersAreOffLimits ==
    ASSUME spec \subseteq collected, collected \subseteq Channels, edges \subseteq Link,
           \A l \in edges : {l[1], l[2]} \cap collected # {},
           NEW p \in OffLimits
    PROVE  Followers(p) \subseteq OffLimits
<1>1. Link \subseteq (Channels \ Groups) \X Groups
  BY ListAssumption
<1> SUFFICES ASSUME NEW o \in Followers(p) PROVE o \in OffLimits
  OBVIOUS
<1>2. /\ p \notin collected \cap Groups
      /\ <<p, o>> \in edges \/ <<o, p>> \in edges
      /\ ~(o \in collected /\ o \notin Groups)
  BY DEF Followers
<1>3. CASE p \in spec
  <2>1. p \notin Groups
    BY <1>2, <1>3
  <2>2. <<o, p>> \notin edges
    BY <1>1, <2>1
  <2>3. <<p, o>> \in Link
    BY <1>2, <2>2
  <2>4. <<p, o>>[1] = p /\ <<p, o>>[2] = o
    OBVIOUS
  <2> QED BY <1>3, <2>3, <2>4 DEF OffLimits
<1>4. CASE p \notin spec
  <2>1. p \in Groups
    BY <1>1, <1>4 DEF OffLimits
  <2>2. p \notin collected
    BY <1>2, <2>1
  <2>3. <<p, o>> \notin edges
    BY <1>1, <2>1
  <2>4. <<o, p>> \in edges /\ o \notin Groups
    BY <1>1, <1>2, <2>3
  <2>5. o \notin collected
    BY <1>2, <2>4
  <2>6. <<o, p>>[1] = o /\ <<o, p>>[2] = p
    OBVIOUS
  <2> QED BY <2>2, <2>4, <2>5, <2>6
<1> QED BY <1>3, <1>4

(* What is planned: disjoint segments of pending rows, each of one address. *)
LEMMA PlanPartitions ==
    ASSUME collected \subseteq Channels, NEW l \in Lists, NEW S \in SUBSET DOMAIN l
    PROVE  /\ Plan(l, S) \subseteq [addr : Channels \cup Handles, rows : SUBSET S]
           /\ \A s \in Plan(l, S) : \A i \in s.rows : s.addr = Address(l[i].addr)
           /\ \A s, t \in Plan(l, S) : s = t \/ s.rows \cap t.rows = {}
           /\ \A i \in S : \E s \in Plan(l, S) : i \in s.rows
<1> DEFINE together(i, j) == /\ l[i].prio = l[j].prio
                             /\ Address(l[i].addr) = Address(l[j].addr)
           seg(i) == [addr |-> Address(l[i].addr), rows |-> {j \in S : together(i, j)}]
<1>1. Plan(l, S) = {seg(i) : i \in S}
  BY DEF Plan
<1>2. ASSUME NEW i \in S PROVE Address(l[i].addr) \in Channels \cup Handles
  <2>1. l[i].addr \in Channels \cup Handles
    BY RowsAreLines
  <2> QED BY <2>1, StoredChannelIsOne DEF Address
<1>3. ASSUME NEW i \in S PROVE seg(i).addr = Address(l[i].addr)
                               /\ seg(i).rows = {j \in S : together(i, j)}
  OBVIOUS
<1>4. \A i \in S : seg(i) \in [addr : Channels \cup Handles, rows : SUBSET S]
  BY <1>2
<1>5. \A i \in S : \A j \in seg(i).rows : seg(i).addr = Address(l[j].addr)
  BY <1>3
<1>6. \A i, j \in S : seg(i) = seg(j) \/ seg(i).rows \cap seg(j).rows = {}
  BY <1>3
<1>7. \A i \in S : i \in seg(i).rows
  BY <1>3
<1> HIDE DEF seg
<1> QED BY <1>1, <1>4, <1>5, <1>6, <1>7

-----------------------------------------------------------------------------
(* Types.                                                                   *)
LEMMA InitTypes == Init => TypeOK
<1> SUFFICES ASSUME Init PROVE TypeOK
  OBVIOUS
<1>1. DOMAIN list = {} /\ DOMAIN outcome = {} /\ DOMAIN post = {} /\ DOMAIN chanOf = {}
  BY DEF Init
<1>2. /\ outcome \in [DOMAIN list -> Outcomes]
      /\ chanOf \in [DOMAIN list -> Channels \cup {NoChannel}]
      /\ post \in [DOMAIN list -> {"skipped", "fetched", "deleted_upstream"}]
  BY DEF Init
<1>3. edges \subseteq Link /\ tombs \subseteq Channels \X Msgs
      /\ username \in [Channels -> Handles \cup {NoHandle}]
  BY ListAssumption DEF Init
<1> QED BY <1>1, <1>2, <1>3 DEF Init, TypeOK, Idle, Blank, Answers

(* The segment in hand has a channel, or a handle to find it by.            *)
LEMMA WhatIsReached ==
    ASSUME TypeOK, Addressed, pc = "access", routes # <<>>, SameChannel
    PROVE  LET c == IF cid = NoChannel THEN Reached ELSE cid
           IN  c \in Channels /\ Reached = c
<1>1. CASE cid = NoChannel
  <2>1. addr \in Handles /\ Head(routes) = "handle"
    BY <1>1 DEF Addressed
  <2>2. Reached = Owner[addr]
    BY <1>1, <2>1 DEF Reached
  <2> QED BY <1>1, <2>1, <2>2, ListAssumption
<1>2. CASE cid # NoChannel
  BY <1>2 DEF SameChannel, TypeOK
<1> QED BY <1>1, <1>2

(* A command starts with its list classified and cut into segments.         *)
Started(l, x) ==
    /\ list' = l /\ spec' = x /\ withMedia' \in BOOLEAN
    /\ excluded' = x \cup UNION {Followers(p) : p \in x}
    /\ outcome' = Classified(l, excluded')
    /\ post' = [i \in DOMAIN l |-> "skipped"]
    /\ chanOf' = [i \in DOMAIN l |->
          IF Verbatim(l, i) /\ l[i].addr \in Handles THEN NoChannel
          ELSE StoredChannel(l[i].addr)]
    /\ segs' \subseteq [addr : Channels \cup Handles, rows : SUBSET DOMAIN l]
    /\ \A s \in segs' : \A i \in s.rows :
          s.addr = Address(l[i].addr) /\ outcome'[i] = "not_attempted"
    /\ \A s, t \in segs' : s = t \/ s.rows \cap t.rows = {}
    /\ \A i \in DOMAIN l : outcome'[i] = "not_attempted" => \E s \in segs' : i \in s.rows

LEMMA StartsOne ==
    ASSUME TypeOK, StartCommand
    PROVE  \E l \in Lists, x \in SUBSET collected : Started(l, x)
<1>1. PICK l \in Lists, x \in Specs \cap SUBSET collected :
          LET out == x \cup UNION {Followers(p) : p \in x}
              cl  == Classified(l, out)
          IN  /\ list' = l /\ spec' = x /\ withMedia' \in BOOLEAN
              /\ excluded' = out /\ outcome' = cl
              /\ post' = [i \in DOMAIN l |-> "skipped"]
              /\ chanOf' = [i \in DOMAIN l |->
                    IF Verbatim(l, i) /\ l[i].addr \in Handles THEN NoChannel
                    ELSE StoredChannel(l[i].addr)]
              /\ segs' = Plan(l, {i \in DOMAIN l : cl[i] = "not_attempted"})
  BY DEF StartCommand
<1> DEFINE S == {i \in DOMAIN l : outcome'[i] = "not_attempted"}
<1>2. segs' = Plan(l, S) /\ S \in SUBSET DOMAIN l /\ collected \subseteq Channels
  BY <1>1 DEF TypeOK
<1>3. /\ segs' \subseteq [addr : Channels \cup Handles, rows : SUBSET S]
      /\ \A s \in segs' : \A i \in s.rows : s.addr = Address(l[i].addr)
      /\ \A s, t \in segs' : s = t \/ s.rows \cap t.rows = {}
      /\ \A i \in S : \E s \in segs' : i \in s.rows
  <2> HIDE DEF S
  <2> QED BY <1>2, PlanPartitions
<1>4. /\ segs' \subseteq [addr : Channels \cup Handles, rows : SUBSET DOMAIN l]
      /\ \A s \in segs' : \A i \in s.rows : outcome'[i] = "not_attempted"
      /\ \A i \in DOMAIN l : outcome'[i] = "not_attempted" =>
            \E s \in segs' : i \in s.rows
  BY <1>3
<1>5. excluded' = x \cup UNION {Followers(p) : p \in x} /\ outcome' = Classified(l, excluded')
  BY <1>1, Zenon
<1>6. /\ list' = l /\ spec' = x /\ withMedia' \in BOOLEAN
      /\ post' = [i \in DOMAIN l |-> "skipped"]
      /\ chanOf' = [i \in DOMAIN l |->
            IF Verbatim(l, i) /\ l[i].addr \in Handles THEN NoChannel
            ELSE StoredChannel(l[i].addr)]
  BY <1>1, Zenon
<1> HIDE DEF S
<1> QED BY <1>3, <1>4, <1>5, <1>6, Zenon DEF Started

LEMMA BatchIsAsked == batch \subseteq toAsk
BY DEF batch, Lowest

LEMMA WalkIsSelected ==
    ASSUME TypeOK, toWalk # {}
    PROVE  walk \in toWalk
<1>1. toWalk \in SUBSET Nat
  BY ListAssumption DEF TypeOK
<1>2. \E m \in toWalk : \A k \in toWalk : m <= k
  BY <1>1, LeastMember
<1> QED BY <1>2 DEF walk

LEMMA CurrentHandleType ==
    ASSUME NEW c PROVE CurrentHandle(c) \in Handles \cup {NoHandle}
BY DEF CurrentHandle

(* A channel is established under its own id, and all its links with it.    *)
Established(c) ==
    /\ pc = "access" /\ pc' = "judge" /\ routes' = <<>>
    /\ cid \in {c, NoChannel} /\ cid' = c /\ chanOf' = Adopted(mine, c)
    /\ cid = NoChannel => addr \in Handles
    /\ contexts' = [contexts EXCEPT ![c] = c]
    /\ resolved' = IF addr \in Handles THEN [resolved EXCEPT ![addr] = c] ELSE resolved
    /\ collected' = collected \cup {c}
    /\ c \in saved' /\ saved \subseteq saved' /\ saved' \subseteq Channels
    /\ username' \in [Channels -> Handles \cup {NoHandle}]
    /\ edges' = edges \cup {k \in Link : c \in {k[1], k[2]}}
    /\ UNCHANGED <<tombs, sightings, list, withMedia, spec, outcome, post, segs, excluded,
                   dead, claimed, stop, addr, mine, toAsk, answered, refused, held,
                   toWalk, media, asked, told, refusals>>

LEMMA EstablishesOne ==
    ASSUME TypeOK, Addressed, Establish
    PROVE  \E c \in Channels : Established(c)
<1>1. PICK c \in Channels : c = IF cid = NoChannel THEN Reached ELSE cid
  BY WhatIsReached DEF Establish
<1>2. Reached = c
  BY <1>1, WhatIsReached DEF Establish
<1>3. PICK with \in SUBSET {o \in Channels : <<c, o>> \in Link \/ <<o, c>> \in Link} :
          /\ saved' = saved \cup {c} \cup with
          /\ username' = [o \in Channels |->
                IF o = c \/ o \in with \ collected THEN CurrentHandle(o) ELSE username[o]]
  BY <1>1 DEF Establish
<1>4. username' \in [Channels -> Handles \cup {NoHandle}]
  BY <1>3, CurrentHandleType DEF TypeOK
<1>5. /\ cid' = c /\ chanOf' = Adopted(mine, c)
      /\ resolved' = IF addr \in Handles THEN [resolved EXCEPT ![addr] = c] ELSE resolved
      /\ collected' = collected \cup {c}
  BY <1>1 DEF Establish
<1>6. contexts' = [contexts EXCEPT ![c] = c]
  BY <1>1, <1>2 DEF Establish
<1>7. edges' = edges \cup {k \in Link : c \in {k[1], k[2]}}
  BY <1>1, Zenon DEF Establish
<1>8. /\ pc = "access" /\ pc' = "judge" /\ routes' = <<>>
      /\ UNCHANGED <<tombs, sightings, input, outcome, post, segs, excluded, dead,
                     claimed, stop, addr, mine, toAsk, answered, refused, held, toWalk,
                     media, ghost>>
  BY DEF Establish
<1>9. saved' \subseteq Channels /\ saved \subseteq saved' /\ c \in saved'
  BY <1>3 DEF TypeOK
<1>10. cid \in {c, NoChannel} /\ (cid = NoChannel => addr \in Handles)
  BY <1>1, <1>8 DEF Addressed
<1> QED BY <1>4, <1>5, <1>6, <1>7, <1>8, <1>9, <1>10 DEF Established, input, ghost

(* A claim sorts out the rows of messages that are taken already.           *)
Claimed(again) ==
    /\ again = {i \in mine : Taken(i)}
    /\ outcome' = [i \in DOMAIN outcome |->
          IF i \in again THEN "duplicate_row" ELSE outcome[i]]
    /\ claimed' = claimed \cup {<<cid, Msg(i)>> : i \in mine}
    /\ mine' = mine \ again
    /\ \/ again = mine /\ Advance
       \/ /\ mine' # {} /\ toAsk' = {Msg(i) : i \in mine \ again} /\ pc' = "posts"
          /\ UNCHANGED <<segs, addr, cid, routes, answered, refused, held, toWalk, media>>
    /\ UNCHANGED <<disk, input, post, chanOf, excluded, contexts, dead, resolved,
                   stop, ghost>>

LEMMA ClaimsOnce ==
    ASSUME Claim
    PROVE  \E again \in SUBSET mine : Claimed(again)
<1> DEFINE again == {i \in mine : Taken(i)}
<1>1. /\ outcome' = [i \in DOMAIN outcome |->
            IF i \in again THEN "duplicate_row" ELSE outcome[i]]
      /\ claimed' = claimed \cup {<<cid, Msg(i)>> : i \in mine}
      /\ IF again = mine THEN Advance
         ELSE /\ mine' = mine \ again
              /\ toAsk' = {Msg(i) : i \in mine \ again}
              /\ pc' = "posts"
              /\ UNCHANGED <<segs, addr, cid, routes, answered, refused, held,
                             toWalk, media>>
      /\ UNCHANGED <<disk, input, post, chanOf, excluded, contexts, dead, resolved,
                     stop, ghost>>
  BY DEF Claim
<1>2. again \subseteq mine
  OBVIOUS
<1>3. CASE again = mine
  <2>1. mine' = {}
    BY <1>1, <1>3 DEF Advance, Reset
  <2>2. mine' = mine \ again
    BY <1>3, <2>1
  <2>3. Claimed(again)
    BY <1>1, <1>3, <2>2 DEF Claimed
  <2> QED BY <1>2, <2>3
<1>4. CASE again # mine
  <2>1. mine' # {}
    BY <1>1, <1>2, <1>4
  <2>2. Claimed(again)
    BY <1>1, <1>4, <2>1 DEF Claimed
  <2> QED BY <1>2, <2>2
<1> QED BY <1>3, <1>4

(* Every step keeps the types.                                              *)
LEMMA TypesHold ==
    ASSUME IInv, [Next]_vars
    PROVE  TypeOK'
<1> USE DEF IInv
<1> USE DEF vars, disk, known, input, report, memory, work, ghost
<1>1. CASE UNCHANGED vars
  BY <1>1 DEF TypeOK
<1>2. CASE StartCommand
  <2>1. PICK l \in Lists, x \in SUBSET collected : Started(l, x)
    BY <1>2, StartsOne
  <2>2. chanOf' \in [DOMAIN l -> Channels \cup {NoChannel}]
    BY <2>1, RowsAreLines, StoredChannelIsOne DEF TypeOK, Started
  <2>3. outcome' \in [DOMAIN l -> Outcomes]
    BY <2>1 DEF Classified, Outcomes, Started
  <2>4. segs' \subseteq [addr : Channels \cup Handles, rows : SUBSET DOMAIN l]
    BY <2>1 DEF Started
  <2>5. excluded' \subseteq Channels
    BY <2>1 DEF TypeOK, Followers, Started
  <2>6. post' \in [DOMAIN l -> {"skipped", "fetched", "deleted_upstream"}]
    BY <2>1 DEF Started
  <2>7. list' \in Lists /\ DOMAIN list' = DOMAIN l /\ spec' \subseteq collected'
        /\ withMedia' \in BOOLEAN
    BY <1>2, <2>1 DEF StartCommand, Started
  <2> QED BY <1>2, <2>2, <2>3, <2>4, <2>5, <2>6, <2>7 DEF StartCommand, TypeOK, Phased, Idle
<1>3. CASE BeginSegment
  BY <1>3 DEF BeginSegment, TypeOK, Adopted, NoAccess, Phased, Idle, Outcomes
<1>4. CASE Finish
  BY <1>4 DEF Finish, TypeOK
<1>5. CASE Establish
  <2>1. PICK c \in Channels : Established(c)
    BY <1>5, EstablishesOne
  <2>2. chanOf' \in [DOMAIN list -> Channels \cup {NoChannel}]
    BY <2>1 DEF Adopted, TypeOK, Established
  <2>3. /\ contexts' \in [Channels -> Channels \cup {NoChannel}]
        /\ resolved' \in [Handles -> Channels \cup {NoChannel}]
        /\ collected' \subseteq saved' /\ edges' \subseteq Link /\ spec' \subseteq collected'
    BY <2>1 DEF TypeOK, Established
  <2>4. /\ saved' \subseteq Channels
        /\ username' \in [Channels -> Handles \cup {NoHandle}]
    BY <2>1 DEF Established
  <2>5. /\ cid' \in Channels /\ pc' = "judge"
        /\ UNCHANGED <<tombs, sightings, list, withMedia, outcome, post, segs, excluded,
                       dead, claimed, stop, addr, mine, toAsk, answered, refused, held,
                       toWalk, media, asked, told, refusals>>
    BY <2>1 DEF Established
  <2>6. /\ tombs' \subseteq Channels \X Msgs
        /\ sightings' \subseteq Channels \X Msgs \X Files
        /\ list' \in Lists \cup {<<>>} /\ withMedia' \in BOOLEAN
    BY <2>5 DEF TypeOK
  <2>7. /\ outcome' \in [DOMAIN list' -> Outcomes]
        /\ post' \in [DOMAIN list' -> {"skipped", "fetched", "deleted_upstream"}]
        /\ chanOf' \in [DOMAIN list' -> Channels \cup {NoChannel}]
        /\ segs' \subseteq [addr : Channels \cup Handles, rows : SUBSET DOMAIN list']
        /\ mine' \subseteq DOMAIN list'
    BY <2>2, <2>5 DEF TypeOK
  <2>8. /\ addr' \in Channels \cup Handles \cup {NoChannel}
        /\ excluded' \subseteq Channels
        /\ dead' \subseteq Channels \cup Handles
        /\ claimed' \subseteq Channels \X Msgs /\ stop' \in BOOLEAN
        /\ toAsk' \subseteq Msgs /\ answered' \in [Msgs -> Answers \cup {"none"}]
        /\ refused' \in BOOLEAN /\ held' \subseteq mine' /\ toWalk' \subseteq Msgs
    BY <2>5 DEF TypeOK
  <2>9. /\ media' \in [Msgs -> {"none", "downloaded", "duplicate", "skipped"}]
        /\ asked' \subseteq Channels \X Msgs /\ refusals' \subseteq Channels \cup Handles
    BY <2>5 DEF TypeOK
  <2> QED BY <2>3, <2>4, <2>5, <2>6, <2>7, <2>8, <2>9 DEF TypeOK
<1>6. CASE RouteRefused
  <2>1. CASE Len(routes) > 1
    BY <1>6, <2>1 DEF RouteRefused, TypeOK
  <2>2. CASE ~(Len(routes) > 1)
    <3>1. {addr, cid} \ {NoChannel} \subseteq Channels \cup Handles
      BY DEF TypeOK
    <3>2. dead' \subseteq Channels \cup Handles /\ refusals' \subseteq Channels \cup Handles
      BY <1>6, <2>2, <3>1 DEF RouteRefused, TypeOK
    <3>3. outcome' \in [DOMAIN list' -> Outcomes]
      BY <1>6, <2>2 DEF RouteRefused, TypeOK, NoAccess, Outcomes
    <3> QED BY <1>6, <2>2, <3>2, <3>3
            DEF RouteRefused, TypeOK, Advance, Reset, Blank
  <2> QED BY <2>1, <2>2
<1>7. CASE AccessStops
  BY <1>7 DEF AccessStops, TypeOK, End, Reset, Blank
<1>8. CASE DeadChannel
  BY <1>8 DEF DeadChannel, TypeOK, Advance, Reset, NoAccess, Outcomes, Blank
<1>9. CASE ExcludedChannel
  BY <1>9 DEF ExcludedChannel, TypeOK, Advance, Reset, Outcomes, Blank, Addressed, Followers
<1>10. CASE EnterChannel
  BY <1>10 DEF EnterChannel, TypeOK
<1>11. CASE Claim
  <2>1. /\ outcome' \in [DOMAIN list -> Outcomes]
        /\ claimed' \subseteq Channels \X Msgs
    <3>1. outcome' \in [DOMAIN list -> Outcomes]
      BY <1>11 DEF Claim, TypeOK, Outcomes
    <3>2. cid \in Channels /\ \A i \in mine : Msg(i) \in Msgs
      BY <1>11, RowsAreLines DEF Claim, Judged, TypeOK, Addressed, Msg
    <3>3. claimed' \subseteq Channels \X Msgs
      BY <1>11, <3>2 DEF Claim, TypeOK
    <3> QED BY <3>1, <3>3
  <2>2. mine' \subseteq DOMAIN list /\ toAsk' \subseteq Msgs
    <3>1. PICK again \in SUBSET mine : Claimed(again)
      BY <1>11, ClaimsOnce
    <3>2. mine' \subseteq mine
      BY <3>1 DEF Claimed
    <3>3. toAsk' = {} \/ toAsk' \subseteq {Msg(i) : i \in mine}
      BY <3>1 DEF Claimed, Advance, Reset
    <3>4. \A i \in mine : Msg(i) \in Msgs
      BY RowsAreLines DEF TypeOK, Msg
    <3> QED BY <3>2, <3>3, <3>4 DEF TypeOK
  <2>3. /\ pc' \in {"segment", "posts"} /\ held' = {}
        /\ addr' \in {addr, NoChannel} /\ cid' \in {cid, NoChannel}
        /\ answered' \in [Msgs -> Answers \cup {"none"}]
        /\ refused' \in BOOLEAN /\ toWalk' \subseteq Msgs
        /\ media' \in [Msgs -> {"none", "downloaded", "duplicate", "skipped"}]
        /\ segs' = segs
    <3>1. CASE Advance
      BY <3>1, ListAssumption DEF TypeOK, Advance, Reset, Blank
    <3>2. CASE ~Advance
      <4>1. /\ pc' = "posts"
            /\ UNCHANGED <<segs, addr, cid, routes, answered, refused, held, toWalk, media>>
        BY <1>11, <3>2 DEF Claim
      <4>2. held = {}
        BY <1>11 DEF Claim, Judged, Phased
      <4> QED BY <4>1, <4>2 DEF TypeOK
    <3> QED BY <3>1, <3>2
  <2>4. UNCHANGED <<disk, input, post, chanOf, excluded, contexts, dead, resolved, stop, ghost>>
    BY <1>11 DEF Claim
  <2> QED BY <2>1, <2>2, <2>3, <2>4 DEF TypeOK
<1>12. CASE GetMessages
  BY <1>12, BatchIsAsked DEF GetMessages, TypeOK, TombsAfter, Addressed
<1>13. CASE PostsFail(TRUE)
  BY <1>13 DEF PostsFail, TypeOK
<1>14. CASE PostsFail(FALSE)
  BY <1>14 DEF PostsFail, TypeOK, Phased, Addressed
<1>15. CASE Refresh
  BY <1>15 DEF Refresh, TypeOK, Selected
<1>16. CASE RefreshFails
  BY <1>16 DEF RefreshFails, TypeOK
<1>17. CASE WalkMedia
  <2>1. walk \in Msgs /\ answered[walk] \in Files /\ cid \in Channels
    BY <1>17, WalkIsSelected DEF WalkMedia, Phased, Walked, TypeOK, Addressed
  <2> QED BY <1>17, <2>1 DEF WalkMedia, TypeOK
<1>18. CASE MediaStops
  BY <1>18 DEF MediaStops, TypeOK
<1>19. CASE Settle
  <2>1. \A i \in mine : Final(i) \in Outcomes
    BY RowsAreLines DEF Final, TypeOK, Outcomes, Msg
  <2>2. outcome' \in [DOMAIN list -> Outcomes]
    BY <1>19, <2>1 DEF Settle, NoAccess, TypeOK, Outcomes
  <2>3. post' \in [DOMAIN list -> {"skipped", "fetched", "deleted_upstream"}]
    BY <1>19 DEF Settle, TypeOK
  <2>4. dead' \subseteq Channels \cup Handles
    BY <1>19 DEF Settle, TypeOK, Phased, Addressed
  <2> QED BY <1>19, <2>2, <2>3, <2>4 DEF Settle, TypeOK, Advance, End, Reset, Blank
<1> QED BY <1>1, <1>2, <1>3, <1>4, <1>5, <1>6, <1>7, <1>8, <1>9, <1>10, <1>11, <1>12,
           <1>13, <1>14, <1>15, <1>16, <1>17, <1>18, <1>19 DEF Next

(* The next segment either comes too late for its channel or is taken up.   *)
Begun(s) ==
    /\ s \in segs /\ segs' = segs \ {s}
    /\ \/ /\ s.addr \in dead /\ outcome' = NoAccess(s.rows, outcome)
          /\ UNCHANGED <<chanOf, pc, addr, cid, mine, routes>>
       \/ /\ s.addr \notin dead /\ addr' = s.addr /\ mine' = s.rows
          /\ s.addr \in Channels => cid' = s.addr
          /\ \/ /\ s.addr \in Handles /\ cid' = NoChannel
                /\ pc' = "access" /\ routes' = <<"handle">> /\ UNCHANGED chanOf
             \/ /\ cid' \in Channels
                /\ pc' = "judge" /\ chanOf' = Adopted(s.rows, cid') /\ UNCHANGED routes
          /\ UNCHANGED outcome

LEMMA BeginsOne ==
    ASSUME TypeOK, BeginSegment
    PROVE  \E s \in segs : Begun(s)
<1>1. PICK s \in segs :
          /\ segs' = segs \ {s}
          /\ IF s.addr \in dead
             THEN /\ outcome' = NoAccess(s.rows, outcome)
                  /\ UNCHANGED <<chanOf, pc, addr, cid, mine, routes>>
             ELSE LET c == IF s.addr \in Channels THEN s.addr ELSE resolved[s.addr]
                  IN  /\ addr' = s.addr /\ cid' = c /\ mine' = s.rows
                      /\ IF c = NoChannel
                         THEN /\ pc' = "access" /\ routes' = <<"handle">>
                              /\ UNCHANGED chanOf
                         ELSE /\ pc' = "judge" /\ chanOf' = Adopted(s.rows, c)
                              /\ UNCHANGED routes
                      /\ UNCHANGED outcome
  BY DEF BeginSegment
<1>2. s.addr \in Channels \cup Handles /\ NoChannel \notin Channels
  BY ListAssumption DEF TypeOK
<1>3. s.addr \notin Channels => resolved[s.addr] \in Channels \cup {NoChannel}
  BY <1>2 DEF TypeOK
<1> QED BY <1>1, <1>2, <1>3 DEF Begun

-----------------------------------------------------------------------------
(* Every step keeps each part of the inductive invariant.                   *)

(* The slate is blank when it has to be.                                    *)
LEMMA PhasedHolds ==
    ASSUME IInv, [Next]_vars
    PROVE  Phased'
<1> USE DEF IInv, vars, disk, known, input, report, memory, work, ghost
<1>1. CASE UNCHANGED vars
  BY <1>1 DEF Phased, Idle, Blank
<1>2. CASE StartCommand
  BY <1>2 DEF StartCommand, Phased, TypeOK, Idle
<1>3. CASE BeginSegment
  <2>1. PICK s \in segs : Begun(s)
    BY <1>3, BeginsOne
  <2>2. s.addr # NoChannel
    BY ListAssumption DEF TypeOK
  <2>3. /\ pc = "segment" /\ UNCHANGED <<toAsk, answered, refused, held, toWalk, media, stop>>
    BY <1>3 DEF BeginSegment
  <2>4. CASE s.addr \in dead
    BY <2>1, <2>3, <2>4 DEF Begun, Phased, Idle
  <2>5. CASE s.addr \notin dead
    BY <2>1, <2>2, <2>3, <2>5 DEF Begun, Phased, Idle, Blank
  <2> QED BY <2>4, <2>5
<1>4. CASE Finish
  BY <1>4 DEF Finish, Phased, TypeOK, Idle
<1>5. CASE Establish
  <2>1. PICK c \in Channels : Established(c)
    BY <1>5, EstablishesOne
  <2> QED BY <2>1 DEF Established, Phased, TypeOK
<1>6. CASE RouteRefused
  BY <1>6 DEF RouteRefused, Phased, TypeOK, Advance, Reset, Idle, Blank
<1>7. CASE AccessStops
  BY <1>7 DEF AccessStops, Phased, TypeOK, End, Reset, Idle, Blank
<1>8. CASE DeadChannel
  BY <1>8 DEF DeadChannel, Phased, TypeOK, Advance, Reset, Idle, Blank
<1>9. CASE ExcludedChannel
  BY <1>9 DEF ExcludedChannel, Phased, TypeOK, Advance, Reset, Idle, Blank
<1>10. CASE EnterChannel
  BY <1>10 DEF EnterChannel, Judged, Phased
<1>11. CASE Claim
  <2>1. CASE Advance
    BY <1>11, <2>1 DEF Claim, Judged, Phased, TypeOK, Advance, Reset, Idle, Blank
  <2>2. CASE ~Advance
    BY <1>11, <2>2 DEF Claim, Judged, Phased, TypeOK
  <2> QED BY <2>1, <2>2
<1>12. CASE GetMessages
  BY <1>12 DEF GetMessages, Phased, TypeOK
<1>13. CASE PostsFail(TRUE)
  BY <1>13 DEF PostsFail, Phased, TypeOK
<1>14. CASE PostsFail(FALSE)
  BY <1>14 DEF PostsFail, Phased, TypeOK
<1>15. CASE Refresh
  BY <1>15 DEF Refresh, Phased, TypeOK
<1>16. CASE RefreshFails
  BY <1>16 DEF RefreshFails, Phased, TypeOK
<1>17. CASE WalkMedia
  BY <1>17 DEF WalkMedia, Phased, TypeOK
<1>18. CASE MediaStops
  BY <1>18 DEF MediaStops, Phased, TypeOK
<1>19. CASE Settle
  BY <1>19 DEF Settle, Phased, TypeOK, End, Advance, Reset, Idle, Blank
<1> QED BY <1>1, <1>2, <1>3, <1>4, <1>5, <1>6, <1>7, <1>8, <1>9, <1>10,
           <1>11, <1>12, <1>13, <1>14, <1>15, <1>16, <1>17, <1>18, <1>19 DEF Next

(* A segment's rows stay those of its address.                              *)
LEMMA AddressedHolds ==
    ASSUME IInv, [Next]_vars
    PROVE  Addressed'
<1> USE DEF IInv, vars, disk, known, input, report, memory, work, ghost
<1>1. CASE UNCHANGED vars
  BY <1>1 DEF Addressed, TypeOK
<1>2. CASE StartCommand
  <2>1. PICK l \in Lists, x \in SUBSET collected : Started(l, x)
    BY <1>2, StartsOne
  <2>2. addr' = NoChannel /\ cid' = NoChannel /\ mine' = {} /\ pc' = "segment"
    BY <1>2 DEF StartCommand, Phased, Idle
  <2>3. ASSUME NEW s \in segs', NEW i \in s.rows
        PROVE  IF s.addr \in Channels THEN chanOf'[i] = s.addr
               ELSE chanOf'[i] = NoChannel /\ list'[i].addr = s.addr
    <3>1. i \in DOMAIN l /\ s.addr = Address(l[i].addr) /\ outcome'[i] = "not_attempted"
      BY <2>1 DEF Started
    <3>2. ~Verbatim(l, i)
      BY <2>1, <3>1 DEF Started, Classified
    <3>3. chanOf'[i] = StoredChannel(l[i].addr) /\ list' = l
      BY <2>1, <3>1, <3>2 DEF Started
    <3>4. /\ StoredChannel(l[i].addr) \in Channels \cup {NoChannel}
          /\ l[i].addr \in Channels => StoredChannel(l[i].addr) = l[i].addr
      BY <3>1, RowsAreLines, StoredChannelIsOne DEF TypeOK
    <3> QED BY <3>1, <3>3, <3>4, ListAssumption DEF Address
  <2> QED BY <2>2, <2>3, ListAssumption DEF Addressed
<1>3. CASE BeginSegment
  <2>1. PICK s \in segs : Begun(s)
    BY <1>3, BeginsOne
  <2>2. s.addr \in Channels \cup Handles /\ s.rows \subseteq DOMAIN list
        /\ Channels \cap Handles = {} /\ NoChannel \notin Channels \cup Handles
    BY ListAssumption DEF TypeOK
  <2>3. \A t \in segs : t = s \/ s.rows \cap t.rows = {}
    BY DEF Pending
  <2>4. /\ pc = "segment" /\ UNCHANGED list /\ segs' = segs \ {s}
        /\ DOMAIN chanOf = DOMAIN list
    BY <1>3, <2>1 DEF BeginSegment, Begun, TypeOK
  <2>5. CASE s.addr \in dead
    BY <2>1, <2>4, <2>5 DEF Begun, Addressed
  <2>6. CASE s.addr \notin dead
    <3>1. \A i \in s.rows : IF s.addr \in Channels THEN chanOf[i] = s.addr
                            ELSE chanOf[i] = NoChannel /\ list[i].addr = s.addr
      BY DEF Addressed
    <3>2. addr' = s.addr /\ mine' = s.rows /\ (s.addr \in Channels => cid' = s.addr)
      BY <2>1, <2>6 DEF Begun
    <3>3. CASE s.addr \in Handles /\ cid' = NoChannel /\ pc' = "access"
               /\ routes' = <<"handle">> /\ UNCHANGED chanOf
      BY <2>2, <2>4, <3>1, <3>2, <3>3 DEF Addressed
    <3>4. CASE cid' \in Channels /\ pc' = "judge" /\ chanOf' = Adopted(s.rows, cid')
      <4>1. \A i \in DOMAIN list :
               chanOf'[i] = IF i \in s.rows THEN cid' ELSE chanOf[i]
        BY <2>4, <3>4 DEF Adopted
      <4>2. \A i \in mine' : chanOf'[i] = cid' /\ (addr' \in Handles => list'[i].addr = addr')
        BY <2>2, <2>4, <3>1, <3>2, <4>1
      <4>3. \A t \in segs' : \A i \in t.rows :
               i \in DOMAIN list /\ chanOf'[i] = chanOf[i] /\ t \in segs
        BY <2>3, <2>4, <4>1 DEF TypeOK
      <4> QED BY <2>2, <2>4, <3>2, <3>4, <4>2, <4>3 DEF Addressed
    <3> QED BY <2>1, <2>6, <3>3, <3>4 DEF Begun
  <2> QED BY <2>5, <2>6
<1>4. CASE Finish
  BY <1>4 DEF Finish, Addressed, TypeOK
<1>5. CASE Establish
  <2>1. PICK c \in Channels : Established(c)
    BY <1>5, EstablishesOne
  <2>2. \A i \in DOMAIN list : chanOf'[i] = IF i \in mine THEN c ELSE chanOf[i]
    BY <2>1 DEF Established, Adopted, TypeOK
  <2>3. \A s \in segs : \A i \in s.rows : i \in DOMAIN list /\ i \notin mine
    BY DEF Pending, TypeOK
  <2>4. /\ cid' = c /\ pc' = "judge" /\ UNCHANGED <<addr, mine, segs, list>>
        /\ cid \in {c, NoChannel} /\ (cid = NoChannel => addr \in Handles)
    BY <2>1 DEF Established
  <2>5. Channels \cap Handles = {} /\ NoChannel \notin Channels
    BY ListAssumption
  <2>6. \A i \in mine : i \in DOMAIN list
    BY DEF TypeOK
  <2> QED BY <2>2, <2>3, <2>4, <2>5, <2>6 DEF Addressed
<1>6. CASE RouteRefused
  BY <1>6 DEF RouteRefused, Addressed, TypeOK, Advance, Reset
<1>7. CASE AccessStops
  BY <1>7 DEF AccessStops, Addressed, TypeOK, End, Reset
<1>8. CASE DeadChannel
  BY <1>8 DEF DeadChannel, Addressed, TypeOK, Advance, Reset
<1>9. CASE ExcludedChannel
  BY <1>9 DEF ExcludedChannel, Addressed, TypeOK, Advance, Reset
<1>10. CASE EnterChannel
  BY <1>10 DEF EnterChannel, Addressed, TypeOK, Judged
<1>11. CASE Claim
  BY <1>11 DEF Claim, Addressed, TypeOK, Judged, Advance, Reset
<1>12. CASE GetMessages
  BY <1>12 DEF GetMessages, Addressed, TypeOK
<1>13. CASE PostsFail(TRUE)
  BY <1>13 DEF PostsFail, Addressed, TypeOK
<1>14. CASE PostsFail(FALSE)
  BY <1>14 DEF PostsFail, Addressed, TypeOK
<1>15. CASE Refresh
  BY <1>15 DEF Refresh, Addressed, TypeOK
<1>16. CASE RefreshFails
  BY <1>16 DEF RefreshFails, Addressed, TypeOK
<1>17. CASE WalkMedia
  BY <1>17 DEF WalkMedia, Addressed, TypeOK
<1>18. CASE MediaStops
  BY <1>18 DEF MediaStops, Addressed, TypeOK
<1>19. CASE Settle
  BY <1>19 DEF Settle, Addressed, TypeOK, End, Advance, Reset
<1> QED BY <1>1, <1>2, <1>3, <1>4, <1>5, <1>6, <1>7, <1>8, <1>9, <1>10,
           <1>11, <1>12, <1>13, <1>14, <1>15, <1>16, <1>17, <1>18, <1>19 DEF Next

(* A segment that settles all its rows leaves the others as they were.      *)
LEMMA SegmentEnds ==
    ASSUME TypeOK, Pending, mine' = {}, UNCHANGED <<segs, list, stop>>,
           \A i \in DOMAIN list : IF i \in mine THEN outcome'[i] # "not_attempted"
                                ELSE outcome'[i] = outcome[i],
           \A i \in DOMAIN list : i \notin mine => post'[i] = post[i]
    PROVE  Pending'
<1>1. \A s \in segs : \A i \in s.rows : i \in DOMAIN list /\ i \notin mine
  BY DEF TypeOK, Pending
<1>2. \A s \in segs : \A i \in s.rows :
         outcome'[i] = "not_attempted" /\ post'[i] = "skipped"
  BY <1>1 DEF Pending
<1> QED BY <1>1, <1>2 DEF Pending

(* A row nobody attempted stays in one segment.                             *)
LEMMA PendingHolds ==
    ASSUME IInv, [Next]_vars
    PROVE  Pending'
<1> USE DEF IInv, vars, disk, known, input, report, memory, work, ghost
<1>1. CASE UNCHANGED vars
  BY <1>1 DEF Pending
<1>2. CASE StartCommand
  <2>1. PICK l \in Lists, x \in SUBSET collected : Started(l, x)
    BY <1>2, StartsOne
  <2>2. mine' = {} /\ list' = l /\ \A i \in DOMAIN l : post'[i] = "skipped"
    BY <1>2, <2>1 DEF StartCommand, Started, Phased, Idle
  <2>3. \A s \in segs' : s.rows \subseteq DOMAIN l
    BY <2>1 DEF Started
  <2> QED BY <2>1, <2>2, <2>3 DEF Started, Pending
<1>3. CASE BeginSegment
  <2>1. PICK s \in segs : Begun(s)
    BY <1>3, BeginsOne
  <2>2. \A t \in segs : \A i \in t.rows : i \in DOMAIN list /\ (t = s \/ i \notin s.rows)
    BY DEF Pending, TypeOK
  <2>3. pc = "segment" /\ mine = {} /\ UNCHANGED <<list, post, stop>>
    BY <1>3 DEF BeginSegment, Phased, Idle
  <2>4. segs' = segs \ {s}
    BY <2>1 DEF Begun
  <2>5. CASE s.addr \in dead
    <3>1. mine' = {} /\ \A i \in DOMAIN list :
             outcome'[i] = IF i \in s.rows THEN "no_access" ELSE outcome[i]
      BY <2>1, <2>3, <2>5 DEF Begun, NoAccess, TypeOK, Pending
    <3> QED BY <2>2, <2>3, <2>4, <3>1 DEF Pending
  <2>6. CASE s.addr \notin dead
    <3>1. mine' = s.rows /\ UNCHANGED outcome
      BY <2>1, <2>6 DEF Begun
    <3> QED BY <2>2, <2>3, <2>4, <3>1 DEF Pending
  <2> QED BY <2>5, <2>6
<1>4. CASE Finish
  BY <1>4 DEF Finish, Pending, Phased, Idle
<1>5. CASE Establish
  <2>1. PICK c \in Channels : Established(c)
    BY <1>5, EstablishesOne
  <2> QED BY <2>1 DEF Established, Pending
<1>6. CASE RouteRefused
  <2>1. CASE Len(routes) > 1
    BY <1>6, <2>1 DEF RouteRefused, Pending
  <2>2. CASE ~(Len(routes) > 1)
    <3>1. mine' = {} /\ UNCHANGED <<segs, post, list, stop>>
      BY <1>6, <2>2 DEF RouteRefused, Advance, Reset
    <3>2. \A i \in DOMAIN list : IF i \in mine THEN outcome'[i] # "not_attempted"
                               ELSE outcome'[i] = outcome[i]
      BY <1>6, <2>2 DEF RouteRefused, NoAccess, TypeOK, Pending
    <3> QED BY <3>1, <3>2, SegmentEnds
  <2> QED BY <2>1, <2>2
<1>7. CASE AccessStops
  BY <1>7 DEF AccessStops, Pending, End, Reset
<1>8. CASE DeadChannel
  <2>1. mine' = {} /\ UNCHANGED <<segs, post, list, stop>>
    BY <1>8 DEF DeadChannel, Advance, Reset
  <2>2. \A i \in DOMAIN list : IF i \in mine THEN outcome'[i] # "not_attempted"
                             ELSE outcome'[i] = outcome[i]
    BY <1>8 DEF DeadChannel, NoAccess, TypeOK, Pending
  <2> QED BY <2>1, <2>2, SegmentEnds
<1>9. CASE ExcludedChannel
  <2>1. mine' = {} /\ UNCHANGED <<segs, post, list, stop>>
    BY <1>9 DEF ExcludedChannel, Advance, Reset
  <2>2. \A i \in DOMAIN list : IF i \in mine THEN outcome'[i] # "not_attempted"
                             ELSE outcome'[i] = outcome[i]
    BY <1>9 DEF ExcludedChannel, NoAccess, TypeOK, Pending
  <2> QED BY <2>1, <2>2, SegmentEnds
<1>10. CASE EnterChannel
  BY <1>10 DEF EnterChannel, Pending, Judged
<1>11. CASE Claim
  <2>1. PICK again \in SUBSET mine :
            /\ outcome' = [i \in DOMAIN outcome |->
                  IF i \in again THEN "duplicate_row" ELSE outcome[i]]
            /\ mine' = mine \ again
    BY <1>11, ClaimsOnce DEF Claimed
  <2>2. UNCHANGED <<segs, post, list, stop>>
    BY <1>11 DEF Claim, Advance
  <2>3. \A i \in DOMAIN list :
           outcome'[i] = IF i \in again THEN "duplicate_row" ELSE outcome[i]
    BY <2>1 DEF TypeOK
  <2>4. \A s \in segs : \A i \in s.rows : i \in DOMAIN list
    BY DEF TypeOK
  <2>5. mine \subseteq DOMAIN list
    BY DEF TypeOK
  <2> QED BY <2>1, <2>2, <2>3, <2>4, <2>5 DEF Pending
<1>12. CASE GetMessages
  BY <1>12 DEF GetMessages, Pending
<1>13. CASE PostsFail(TRUE)
  BY <1>13 DEF PostsFail, Pending
<1>14. CASE PostsFail(FALSE)
  BY <1>14 DEF PostsFail, Pending
<1>15. CASE Refresh
  BY <1>15 DEF Refresh, Pending
<1>16. CASE RefreshFails
  BY <1>16 DEF RefreshFails, Pending
<1>17. CASE WalkMedia
  BY <1>17 DEF WalkMedia, Pending
<1>18. CASE MediaStops
  BY <1>18 DEF MediaStops, Pending
<1>19. CASE Settle
  <2>1. CASE stop
    BY <1>19, <2>1 DEF Settle, End, Reset, Pending
  <2>2. CASE ~stop
    <3>1. mine' = {} /\ UNCHANGED <<segs, list, stop>>
      BY <1>19, <2>2 DEF Settle, Advance, Reset
    <3>2. \A i \in mine : refused \/ Final(i) # "not_attempted"
      <4> SUFFICES ASSUME NEW i \in mine, ~refused PROVE Final(i) # "not_attempted"
        OBVIOUS
      <4>1. Msg(i) \in Msgs
        BY RowsAreLines DEF TypeOK, Msg
      <4>2. /\ answered[Msg(i)] # "none"
            /\ toAsk = {} /\ toWalk = {}
        BY <1>19, <2>2, <4>1 DEF Settle, Asked, Phased
      <4>3. media[Msg(i)] \in {"none", "downloaded", "duplicate", "skipped"}
        BY <4>1 DEF TypeOK
      <4>4. answered[Msg(i)] \in Files \cup {Gone, Text}
        BY <4>1, <4>2 DEF TypeOK, Answers
      <4>5. withMedia /\ i \notin held /\ answered[Msg(i)] \in Files =>
               media[Msg(i)] # "none"
        BY <1>19, <2>2, <4>2 DEF Settle, Walked
      <4> QED BY <4>2, <4>3, <4>4, <4>5 DEF Final
    <3>3. \A i \in DOMAIN list : IF i \in mine THEN outcome'[i] # "not_attempted"
                               ELSE outcome'[i] = outcome[i]
      BY <1>19, <2>2, <3>2 DEF Settle, NoAccess, TypeOK
    <3>4. \A i \in DOMAIN list : i \notin mine => post'[i] = post[i]
      BY <1>19 DEF Settle, TypeOK
    <3> QED BY <3>1, <3>3, <3>4, SegmentEnds
  <2> QED BY <2>1, <2>2
<1> QED BY <1>1, <1>2, <1>3, <1>4, <1>5, <1>6, <1>7, <1>8, <1>9, <1>10,
           <1>11, <1>12, <1>13, <1>14, <1>15, <1>16, <1>17, <1>18, <1>19 DEF Next

(* What _excludes finds is off limits, and when every link of the channel   *)
(* is on record it finds all that is.                                       *)
LEMMA ExcludedIsOffLimits ==
    ASSUME TypeOK, Linked, NEW c, Excludes(c)
    PROVE  c \in OffLimits
<1>1. CASE c \in excluded
  BY <1>1 DEF Linked
<1>2. CASE c \notin excluded
  <2>1. PICK p \in excluded : c \in Followers(p)
    BY <1>2 DEF Excludes
  <2>2. p \in OffLimits
    BY <2>1 DEF Linked
  <2>3. Followers(p) \subseteq OffLimits
    BY <2>2, FollowersAreOffLimits DEF TypeOK, Linked
  <2> QED BY <2>1, <2>3
<1> QED BY <1>1, <1>2

LEMMA OffLimitsIsExcluded ==
    ASSUME TypeOK, Linked, NEW c \in Channels, c \in OffLimits, contexts[c] # NoChannel
    PROVE  Excludes(c)
<1>1. CASE c \in spec
  BY <1>1 DEF Linked, Excludes
<1>2. CASE c \notin spec
  <2>1. PICK l \in Link : l[1] \in spec /\ l[2] = c
    BY <1>2 DEF OffLimits
  <2>2. l = <<l[1], c>> /\ l[1] \notin Groups /\ c \in Groups
    BY <2>1, ListAssumption
  <2>3. l \in edges
    BY <2>1 DEF Linked
  <2>4. c \in Followers(l[1])
    BY <2>2, <2>3 DEF Followers
  <2>5. l[1] \in excluded
    BY <2>1 DEF Linked
  <2> QED BY <2>4, <2>5 DEF Excludes
<1> QED BY <1>1, <1>2

LEMMA KnownFollowers ==
    ASSUME TypeOK, Linked, spec' \subseteq collected, NEW p \in spec'
    PROVE  Followers(p) \subseteq OffLimits'
<1> SUFFICES ASSUME NEW o \in Followers(p) PROVE o \in OffLimits'
  OBVIOUS
<1>1. Link \subseteq (Channels \ Groups) \X Groups /\ edges \subseteq Link
  BY ListAssumption DEF TypeOK
<1>2. p \notin Groups /\ (<<p, o>> \in edges \/ <<o, p>> \in edges)
  BY DEF Followers
<1>3. <<p, o>> \in Link
  BY <1>1, <1>2
<1>4. <<p, o>>[1] = p /\ <<p, o>>[2] = o
  OBVIOUS
<1> QED BY <1>3, <1>4 DEF OffLimits

(* What is excluded stays off limits, and what is asked within them.        *)
LEMMA LinkedHolds ==
    ASSUME IInv, [Next]_vars
    PROVE  Linked'
<1> USE DEF IInv, vars, disk, known, input, report, memory, work, ghost
<1>1. CASE UNCHANGED vars
  BY <1>1 DEF Linked, OffLimits
<1>2. CASE StartCommand
  <2>1. PICK l \in Lists, x \in SUBSET collected : Started(l, x)
    BY <1>2, StartsOne
  <2>2. x \subseteq OffLimits' /\ x \subseteq excluded'
    BY <2>1 DEF Started, OffLimits
  <2>3. \A p \in x : Followers(p) \subseteq OffLimits'
    BY <2>1, KnownFollowers DEF Started
  <2>4. excluded' \subseteq OffLimits' /\ spec' = x
    BY <2>1, <2>2, <2>3 DEF Started
  <2>5. /\ pc' = "segment" /\ UNCHANGED <<edges, collected>>
        /\ contexts' = [c \in Channels |-> NoChannel]
    BY <1>2 DEF StartCommand
  <2> QED BY <2>2, <2>4, <2>5 DEF Linked
<1>3. CASE BeginSegment
  <2>1. PICK s \in segs : Begun(s)
    BY <1>3, BeginsOne
  <2> QED BY <1>3, <2>1 DEF BeginSegment, Begun, Linked, OffLimits
<1>4. CASE Finish
  BY <1>4 DEF Finish, Linked, OffLimits
<1>5. CASE Establish
  <2>1. PICK c \in Channels : Established(c)
    BY <1>5, EstablishesOne
  <2>2. /\ contexts' = [contexts EXCEPT ![c] = c] /\ collected' = collected \cup {c}
        /\ edges' = edges \cup {k \in Link : c \in {k[1], k[2]}}
        /\ pc' = "judge" /\ UNCHANGED <<spec, excluded>>
    BY <2>1 DEF Established
  <2>3. \A l \in edges' : {l[1], l[2]} \cap collected' # {}
    BY <2>2 DEF Linked
  <2>4. \A o \in Channels : contexts'[o] # NoChannel =>
           \A l \in Link : o \in {l[1], l[2]} => l \in edges'
    <3> SUFFICES ASSUME NEW o \in Channels, contexts'[o] # NoChannel,
                        NEW l \in Link, o \in {l[1], l[2]}
                 PROVE  l \in edges'
      OBVIOUS
    <3>1. CASE o = c
      BY <2>2, <3>1
    <3>2. CASE o # c
      <4>1. contexts[o] # NoChannel
        BY <2>2, <3>2 DEF TypeOK
      <4> QED BY <2>2, <4>1 DEF Linked
    <3> QED BY <3>1, <3>2
  <2>5. UNCHANGED OffLimits
    BY <2>2 DEF OffLimits
  <2> QED BY <2>2, <2>3, <2>4, <2>5 DEF Linked
<1>6. CASE RouteRefused
  BY <1>6 DEF RouteRefused, Linked, OffLimits, Advance, Reset
<1>7. CASE AccessStops
  BY <1>7 DEF AccessStops, Linked, OffLimits, End, Reset
<1>8. CASE DeadChannel
  BY <1>8 DEF DeadChannel, Linked, OffLimits, Advance, Reset
<1>9. CASE ExcludedChannel
  <2>1. cid \in OffLimits
    BY <1>9, ExcludedIsOffLimits DEF ExcludedChannel
  <2>2. Followers(cid) \subseteq OffLimits
    BY <2>1, FollowersAreOffLimits DEF TypeOK, Linked
  <2>3. /\ UNCHANGED <<edges, collected, spec, contexts>> /\ pc' = "segment"
        /\ excluded' = excluded \cup {cid} \cup Followers(cid)
    BY <1>9 DEF ExcludedChannel, Advance
  <2> QED BY <2>1, <2>2, <2>3 DEF Linked, OffLimits
<1>10. CASE EnterChannel
  BY <1>10 DEF EnterChannel, Linked, OffLimits, Judged
<1>11. CASE Claim
  <2>1. Judged /\ contexts[cid] # NoChannel
    BY <1>11 DEF Claim
  <2>2. cid \in Channels
    BY <2>1 DEF Judged, Addressed, TypeOK
  <2>3. cid \notin OffLimits
    BY <2>1, <2>2, OffLimitsIsExcluded DEF Judged
  <2>4. /\ UNCHANGED <<edges, collected, spec, contexts, excluded>>
        /\ pc' = "segment" \/ UNCHANGED cid
        /\ pc' \in {"segment", "posts"}
    BY <1>11 DEF Claim, Advance
  <2> QED BY <2>3, <2>4 DEF Linked, OffLimits
<1>12. CASE GetMessages
  BY <1>12 DEF GetMessages, Linked, OffLimits
<1>13. CASE PostsFail(TRUE)
  BY <1>13 DEF PostsFail, Linked, OffLimits
<1>14. CASE PostsFail(FALSE)
  BY <1>14 DEF PostsFail, Linked, OffLimits
<1>15. CASE Refresh
  BY <1>15 DEF Refresh, Linked, OffLimits
<1>16. CASE RefreshFails
  BY <1>16 DEF RefreshFails, Linked, OffLimits
<1>17. CASE WalkMedia
  BY <1>17 DEF WalkMedia, Linked, OffLimits
<1>18. CASE MediaStops
  BY <1>18 DEF MediaStops, Linked, OffLimits
<1>19. CASE Settle
  BY <1>19 DEF Settle, Linked, OffLimits, Advance, Reset, End
<1> QED BY <1>1, <1>2, <1>3, <1>4, <1>5, <1>6, <1>7, <1>8, <1>9, <1>10,
           <1>11, <1>12, <1>13, <1>14, <1>15, <1>16, <1>17, <1>18, <1>19 DEF Next

(* Exclusion neither leaks nor takes anything else.                         *)
LEMMA RightChannelHolds ==
    ASSUME IInv, [Next]_vars
    PROVE  OnlyTheRightChannel'
<1> USE DEF IInv, vars, disk, known, input, report, memory, work, ghost
<1>1. CASE UNCHANGED vars
  BY <1>1 DEF OnlyTheRightChannel, OffLimits
<1>2. CASE StartCommand
  <2>1. PICK l \in Lists, x \in SUBSET collected : Started(l, x)
    BY <1>2, StartsOne
  <2>2. x \subseteq OffLimits'
    BY <2>1 DEF Started, OffLimits
  <2>3. \A p \in x : Followers(p) \subseteq OffLimits'
    BY <2>1, KnownFollowers DEF Started
  <2>4. excluded' \subseteq OffLimits' /\ list' = l
    BY <2>1, <2>2, <2>3 DEF Started
  <2>5. asked' = {} /\ contexts' = [c \in Channels |-> NoChannel]
    BY <1>2 DEF StartCommand
  <2>6. ASSUME NEW i \in DOMAIN l, outcome'[i] = "excluded" PROVE chanOf'[i] \in excluded'
    <3>1. ~Verbatim(l, i) /\ StoredChannel(l[i].addr) \in excluded'
      BY <2>1, <2>6 DEF Started, Classified
    <3> QED BY <2>1, <3>1 DEF Started
  <2> QED BY <2>4, <2>5, <2>6 DEF OnlyTheRightChannel
<1>3. CASE BeginSegment
  <2>1. PICK s \in segs : Begun(s)
    BY <1>3, BeginsOne
  <2>2. UNCHANGED <<asked, contexts, list, spec>>
    BY <1>3 DEF BeginSegment
  <2>3. \A i \in DOMAIN list : outcome'[i] = "excluded" =>
           outcome[i] = "excluded" /\ chanOf'[i] = chanOf[i]
    BY <2>1 DEF Begun, Adopted, NoAccess, Pending, TypeOK
  <2> QED BY <2>2, <2>3 DEF OnlyTheRightChannel, OffLimits
<1>4. CASE Finish
  BY <1>4 DEF Finish, OnlyTheRightChannel, OffLimits
<1>5. CASE Establish
  <2>1. PICK c \in Channels : Established(c)
    BY <1>5, EstablishesOne
  <2>2. /\ contexts' = [contexts EXCEPT ![c] = c]
        /\ UNCHANGED <<spec, list, outcome, asked>> /\ chanOf' = Adopted(mine, c)
    BY <2>1 DEF Established
  <2>3. \A i \in DOMAIN list : outcome[i] = "excluded" => chanOf'[i] = chanOf[i]
    BY <2>2 DEF Adopted, Pending, TypeOK
  <2> QED BY <2>2, <2>3 DEF OnlyTheRightChannel, OffLimits, TypeOK
<1>6. CASE RouteRefused
  <2>1. \A i \in DOMAIN list : outcome'[i] = "excluded" => outcome[i] = "excluded"
    BY <1>6 DEF RouteRefused, NoAccess, TypeOK
  <2> QED BY <1>6, <2>1 DEF RouteRefused, OnlyTheRightChannel, OffLimits
<1>7. CASE AccessStops
  BY <1>7 DEF AccessStops, OnlyTheRightChannel, OffLimits
<1>8. CASE DeadChannel
  <2>1. \A i \in DOMAIN list : outcome'[i] = "excluded" => outcome[i] = "excluded"
    BY <1>8 DEF DeadChannel, NoAccess, TypeOK
  <2> QED BY <1>8, <2>1 DEF DeadChannel, OnlyTheRightChannel, OffLimits
<1>9. CASE ExcludedChannel
  <2>1. cid \in OffLimits
    BY <1>9, ExcludedIsOffLimits DEF ExcludedChannel
  <2>2. UNCHANGED <<asked, contexts, list, spec, chanOf>>
    BY <1>9 DEF ExcludedChannel
  <2>3. \A i \in DOMAIN list : outcome'[i] = "excluded" =>
           outcome[i] = "excluded" \/ chanOf[i] = cid
    BY <1>9 DEF ExcludedChannel, Addressed, TypeOK
  <2> QED BY <2>1, <2>2, <2>3 DEF OnlyTheRightChannel, OffLimits
<1>10. CASE EnterChannel
  BY <1>10 DEF EnterChannel, OnlyTheRightChannel, OffLimits
<1>11. CASE Claim
  <2>1. \A i \in DOMAIN list : outcome'[i] = "excluded" => outcome[i] = "excluded"
    BY <1>11 DEF Claim, NoAccess, TypeOK
  <2> QED BY <1>11, <2>1 DEF Claim, OnlyTheRightChannel, OffLimits
<1>12. CASE GetMessages
  <2>1. cid \notin OffLimits
    BY <1>12 DEF GetMessages, Linked
  <2> QED BY <1>12, <2>1 DEF GetMessages, OnlyTheRightChannel, OffLimits
<1>13. CASE PostsFail(TRUE)
  BY <1>13 DEF PostsFail, OnlyTheRightChannel, OffLimits
<1>14. CASE PostsFail(FALSE)
  BY <1>14 DEF PostsFail, OnlyTheRightChannel, OffLimits
<1>15. CASE Refresh
  BY <1>15 DEF Refresh, OnlyTheRightChannel, OffLimits
<1>16. CASE RefreshFails
  BY <1>16 DEF RefreshFails, OnlyTheRightChannel, OffLimits
<1>17. CASE WalkMedia
  BY <1>17 DEF WalkMedia, OnlyTheRightChannel, OffLimits
<1>18. CASE MediaStops
  BY <1>18 DEF MediaStops, OnlyTheRightChannel, OffLimits
<1>19. CASE Settle
  <2>1. \A i \in DOMAIN list : outcome'[i] = "excluded" => outcome[i] = "excluded"
    <3>1. ASSUME NEW i \in mine PROVE Final(i) # "excluded"
      <4>1. Msg(i) \in Msgs /\ outcome[i] = "not_attempted"
        BY RowsAreLines DEF TypeOK, Msg, Pending
      <4>2. media[Msg(i)] \in {"none", "downloaded", "duplicate", "skipped"}
        BY <4>1 DEF TypeOK
      <4> QED BY <4>1, <4>2 DEF Final
    <3> QED BY <1>19, <3>1 DEF Settle, NoAccess, TypeOK
  <2> QED BY <1>19, <2>1 DEF Settle, OnlyTheRightChannel, OffLimits
<1> QED BY <1>1, <1>2, <1>3, <1>4, <1>5, <1>6, <1>7, <1>8, <1>9, <1>10,
           <1>11, <1>12, <1>13, <1>14, <1>15, <1>16, <1>17, <1>18, <1>19 DEF Next

(* Whoever is in hand, by its address or by its channel, answers for its rows. *)
LEMMA RowsAnswer ==
    ASSUME TypeOK, Phased, Addressed, NEW i \in mine
    PROVE  /\ chanOf[i] = cid
           /\ addr \in {list[i].addr, chanOf[i]}
<1>1. mine # {}
  OBVIOUS
<1>2. addr # NoChannel
  BY <1>1 DEF Phased, Idle
<1>3. addr \in Channels \cup Handles
  BY <1>2 DEF TypeOK
<1> QED BY <1>3 DEF Addressed

LEMMA FinalIsLate ==
    ASSUME TypeOK, Pending, NEW i \in mine
    PROVE  Final(i) \notin {"excluded", "no_access", "duplicate_row"}
<1>1. Msg(i) \in Msgs /\ outcome[i] = "not_attempted"
  BY RowsAreLines DEF TypeOK, Msg, Pending
<1>2. media[Msg(i)] \in {"none", "downloaded", "duplicate", "skipped"}
  BY <1>1 DEF TypeOK
<1> QED BY <1>1, <1>2 DEF Final

(* Whoever is told of no access was refused.                                *)
LEMMA RefusedHolds ==
    ASSUME IInv, [Next]_vars
    PROVE  Refused'
<1> USE DEF IInv, vars, disk, known, input, report, memory, work, ghost
<1>1. CASE UNCHANGED vars
  BY <1>1 DEF Refused
<1>2. CASE StartCommand
  <2>1. PICK l \in Lists, x \in SUBSET collected : Started(l, x)
    BY <1>2, StartsOne
  <2>2. \A i \in DOMAIN l : outcome'[i] # "no_access"
    BY <2>1 DEF Started, Classified
  <2>3. dead' = {} /\ refused' = FALSE /\ list' = l
    BY <1>2, <2>1 DEF StartCommand, Started, Phased, Idle
  <2> QED BY <2>2, <2>3 DEF Refused
<1>3. CASE BeginSegment
  <2>1. PICK s \in segs : Begun(s)
    BY <1>3, BeginsOne
  <2>2. UNCHANGED <<dead, refusals, list, refused>> /\ refused = FALSE
    BY <1>3 DEF BeginSegment, Phased, Idle
  <2>3. CASE s.addr \in dead
    <3>1. \A i \in s.rows : s.addr \in {list[i].addr, chanOf[i]}
      BY DEF Addressed
    <3>2. UNCHANGED chanOf /\ outcome' = NoAccess(s.rows, outcome)
      BY <2>1, <2>3 DEF Begun
    <3>3. \A i \in DOMAIN list : outcome'[i] = "no_access" =>
             outcome[i] = "no_access" \/ i \in s.rows
      BY <3>2 DEF NoAccess, TypeOK
    <3> QED BY <2>2, <2>3, <3>1, <3>2, <3>3 DEF Refused
  <2>4. CASE s.addr \notin dead
    <3>1. \A i \in DOMAIN list : outcome'[i] = "no_access" =>
             outcome[i] = "no_access" /\ chanOf'[i] = chanOf[i]
      BY <2>1, <2>4 DEF Begun, Adopted, Pending, TypeOK
    <3> QED BY <2>2, <3>1 DEF Refused
  <2> QED BY <2>3, <2>4
<1>4. CASE Finish
  BY <1>4 DEF Finish, Refused
<1>5. CASE Establish
  <2>1. PICK c \in Channels : Established(c)
    BY <1>5, EstablishesOne
  <2>2. UNCHANGED <<dead, refusals, list, outcome, refused>> /\ refused = FALSE
    BY <1>5, <2>1 DEF Establish, Established, Phased
  <2>3. \A i \in DOMAIN list : outcome[i] = "no_access" => chanOf'[i] = chanOf[i]
    BY <2>1 DEF Established, Adopted, Pending, TypeOK
  <2> QED BY <2>2, <2>3 DEF Refused
<1>6. CASE RouteRefused
  <2>1. CASE Len(routes) > 1
    BY <1>6, <2>1 DEF RouteRefused, Refused
  <2>2. CASE ~(Len(routes) > 1)
    <3>1. /\ dead' = dead \cup ({addr, cid} \ {NoChannel})
          /\ refusals' = refusals \cup ({addr, cid} \ {NoChannel})
          /\ outcome' = NoAccess(mine, outcome)
          /\ refused' = FALSE /\ UNCHANGED <<list, chanOf>>
          /\ addr # NoChannel
      BY <1>6, <2>2 DEF RouteRefused, Advance, Reset, Phased
    <3>2. \A i \in DOMAIN list : outcome'[i] = "no_access" =>
             outcome[i] = "no_access" \/ i \in mine
      BY <3>1 DEF NoAccess, TypeOK
    <3>3. \A i \in mine : addr \in {list[i].addr, chanOf[i]}
      BY RowsAnswer
    <3> QED BY <3>1, <3>2, <3>3 DEF Refused
  <2> QED BY <2>1, <2>2
<1>7. CASE AccessStops
  BY <1>7 DEF AccessStops, Refused, End, Reset
<1>8. CASE DeadChannel
  <2>1. /\ UNCHANGED <<dead, refusals, list, chanOf>> /\ refused' = FALSE /\ cid \in dead
        /\ outcome' = NoAccess(mine, outcome)
    BY <1>8 DEF DeadChannel, Advance, Reset
  <2>2. \A i \in DOMAIN list : outcome'[i] = "no_access" =>
           outcome[i] = "no_access" \/ i \in mine
    BY <2>1 DEF NoAccess, TypeOK
  <2>3. \A i \in mine : chanOf[i] = cid
    BY RowsAnswer
  <2> QED BY <2>1, <2>2, <2>3 DEF Refused
<1>9. CASE ExcludedChannel
  <2>1. /\ UNCHANGED <<dead, refusals, list, chanOf>>
        /\ refused' = FALSE
    BY <1>9 DEF ExcludedChannel, Advance, Reset, Judged, Phased
  <2>2. \A i \in DOMAIN list : outcome'[i] = "no_access" => outcome[i] = "no_access"
    BY <1>9 DEF ExcludedChannel, TypeOK
  <2> QED BY <2>1, <2>2 DEF Refused
<1>10. CASE EnterChannel
  BY <1>10 DEF EnterChannel, Refused
<1>11. CASE Claim
  <2>1. /\ UNCHANGED <<dead, refusals, list, chanOf>>
        /\ refused' = FALSE
    BY <1>11 DEF Claim, Advance, Reset, Judged, Phased
  <2>2. \A i \in DOMAIN list : outcome'[i] = "no_access" => outcome[i] = "no_access"
    BY <1>11 DEF Claim, TypeOK
  <2> QED BY <2>1, <2>2 DEF Refused
<1>12. CASE GetMessages
  BY <1>12 DEF GetMessages, Refused
<1>13. CASE PostsFail(TRUE)
  BY <1>13 DEF PostsFail, Refused
<1>14. CASE PostsFail(FALSE)
  BY <1>14 DEF PostsFail, Refused
<1>15. CASE Refresh
  BY <1>15 DEF Refresh, Refused
<1>16. CASE RefreshFails
  BY <1>16 DEF RefreshFails, Refused
<1>17. CASE WalkMedia
  BY <1>17 DEF WalkMedia, Refused
<1>18. CASE MediaStops
  BY <1>18 DEF MediaStops, Refused
<1>19. CASE Settle
  <2>1. /\ UNCHANGED <<refusals, list, chanOf>> /\ refused' = FALSE
        /\ dead' = IF refused /\ ~stop THEN dead \cup {addr, cid} ELSE dead
    BY <1>19 DEF Settle, Advance, End, Reset
  <2>2. \A i \in mine : Final(i) # "no_access" /\ chanOf[i] = cid
    BY FinalIsLate, RowsAnswer
  <2>3. \A i \in DOMAIN list : outcome'[i] = "no_access" =>
           outcome[i] = "no_access" \/ (i \in mine /\ refused)
    <3> DEFINE settled == [i \in DOMAIN outcome |->
                             IF i \in mine THEN Final(i) ELSE outcome[i]]
    <3>1. outcome' = IF refused /\ ~stop THEN NoAccess(mine, settled) ELSE settled
      BY <1>19 DEF Settle
    <3>2. DOMAIN outcome = DOMAIN list
      BY DEF TypeOK
    <3>3. \A i \in DOMAIN list : settled[i] = "no_access" =>
             outcome[i] = "no_access" /\ i \notin mine
      BY <2>2, <3>2
    <3>4. DOMAIN settled = DOMAIN list
      BY <3>2
    <3> HIDE DEF settled
    <3>5. CASE refused /\ ~stop
      <4>1. \A i \in DOMAIN list : i \notin mine => outcome'[i] = settled[i]
        BY <3>1, <3>4, <3>5 DEF NoAccess
      <4> QED BY <3>3, <3>5, <4>1
    <3>6. CASE ~(refused /\ ~stop)
      <4>1. outcome' = settled
        BY <3>1, <3>6
      <4>2. \A i \in DOMAIN list : outcome'[i] = settled[i]
        BY <4>1, Zenon
      <4> QED BY <3>3, <4>2, Zenon
    <3> QED BY <3>5, <3>6
  <2> QED BY <2>1, <2>2, <2>3 DEF Refused
<1> QED BY <1>1, <1>2, <1>3, <1>4, <1>5, <1>6, <1>7, <1>8, <1>9, <1>10,
           <1>11, <1>12, <1>13, <1>14, <1>15, <1>16, <1>17, <1>18, <1>19 DEF Next

LEMMA NothingAnswered ==
    \A m \in Msgs : Blank[m] = "none" /\ "none" # Gone /\ "none" \notin Files
BY ListAssumption DEF Blank

(* Whatever is asked is claimed, once, and its answer is stored.            *)
LEMMA AskedHolds ==
    ASSUME IInv, [Next]_vars
    PROVE  Asked'
<1> USE DEF IInv, vars, disk, known, input, report, memory, work, ghost
<1>1. CASE UNCHANGED vars
  BY <1>1 DEF Asked, Msg
<1>2. CASE StartCommand
  <2>1. /\ asked' = {} /\ toAsk' = {} /\ pc' = "segment"
        /\ \A m \in Msgs : answered'[m] = "none"
    BY <1>2 DEF StartCommand, Phased, Idle, Blank
  <2> QED BY <2>1, ListAssumption DEF Asked
<1>3. CASE BeginSegment
  <2>1. PICK s \in segs : Begun(s)
    BY <1>3, BeginsOne
  <2>2. /\ UNCHANGED <<asked, told, claimed, tombs>> /\ toAsk' = {} /\ answered' = Blank
        /\ pc' \in {"done", "segment", "access", "judge"}
    BY <1>3, <2>1 DEF BeginSegment, Begun, Phased, Idle
  <2> QED BY <2>2, NothingAnswered DEF Asked
<1>4. CASE Finish
  BY <1>4 DEF Finish, Asked, Msg
<1>5. CASE Establish
  <2>1. /\ UNCHANGED <<asked, told, claimed, tombs>> /\ toAsk' = {} /\ answered' = Blank
        /\ pc' \in {"done", "segment", "access", "judge"}
    BY <1>5 DEF Establish, Phased
  <2> QED BY <2>1, NothingAnswered DEF Asked
<1>6. CASE RouteRefused
  <2>1. /\ UNCHANGED <<asked, told, claimed, tombs>> /\ toAsk' = {} /\ answered' = Blank
        /\ pc' \in {"done", "segment", "access", "judge"}
    BY <1>6 DEF RouteRefused, Advance, Reset, Phased
  <2> QED BY <2>1, NothingAnswered DEF Asked
<1>7. CASE AccessStops
  <2>1. /\ UNCHANGED <<asked, told, claimed, tombs>> /\ toAsk' = {} /\ answered' = Blank
        /\ pc' \in {"done", "segment", "access", "judge"}
    BY <1>7 DEF AccessStops, End, Reset
  <2> QED BY <2>1, NothingAnswered DEF Asked
<1>8. CASE DeadChannel
  <2>1. /\ UNCHANGED <<asked, told, claimed, tombs>> /\ toAsk' = {} /\ answered' = Blank
        /\ pc' \in {"done", "segment", "access", "judge"}
    BY <1>8 DEF DeadChannel, Advance, Reset
  <2> QED BY <2>1, NothingAnswered DEF Asked
<1>9. CASE ExcludedChannel
  <2>1. /\ UNCHANGED <<asked, told, claimed, tombs>> /\ toAsk' = {} /\ answered' = Blank
        /\ pc' \in {"done", "segment", "access", "judge"}
    BY <1>9 DEF ExcludedChannel, Advance, Reset
  <2> QED BY <2>1, NothingAnswered DEF Asked
<1>10. CASE EnterChannel
  <2>1. /\ UNCHANGED <<asked, told, claimed, tombs>> /\ toAsk' = {} /\ answered' = Blank
        /\ pc' \in {"done", "segment", "access", "judge"}
    BY <1>10 DEF EnterChannel, Judged, Phased
  <2> QED BY <2>1, NothingAnswered DEF Asked
<1>11. CASE Claim
  <2>1. PICK again \in SUBSET mine : Claimed(again)
    BY <1>11, ClaimsOnce
  <2>2. CASE Advance
    <3>1. /\ UNCHANGED <<asked, told, tombs>> /\ toAsk' = {} /\ answered' = Blank
          /\ pc' = "segment" /\ claimed \subseteq claimed'
      BY <2>1, <2>2 DEF Claimed, Advance, Reset
    <3> QED BY <3>1, NothingAnswered DEF Asked
  <2>3. CASE ~Advance
    <3>1. /\ UNCHANGED <<asked, told, tombs, cid, list, answered>> /\ answered = Blank
          /\ toAsk' = {Msg(i) : i \in mine \ again} /\ pc' = "posts"
          /\ claimed' = claimed \cup {<<cid, Msg(i)>> : i \in mine}
          /\ again = {i \in mine : Taken(i)} /\ mine' = mine \ again
      BY <1>11, <2>1, <2>3 DEF Claimed, Claim, Judged, Phased
    <3>2. \A i \in mine \ again : <<cid, Msg(i)>> \notin asked
      BY <3>1 DEF Taken, Asked
    <3>3. \A m \in toAsk' : <<cid, m>> \in claimed' \ asked
      BY <3>1, <3>2
    <3>4. \A i \in mine' : Msg(i)' \in toAsk'
      BY <3>1 DEF Msg
    <3> QED BY <3>1, <3>3, <3>4, NothingAnswered DEF Asked
  <2> QED BY <2>2, <2>3
<1>12. CASE GetMessages
  <2>1. PICK ans \in [batch -> Answers] :
            /\ answered' = [m \in Msgs |-> IF m \in batch THEN ans[m] ELSE answered[m]]
            /\ tombs' = TombsAfter(ans)
            /\ told' = told \cup {<<cid, m, ans[m]>> : m \in batch}
    BY <1>12 DEF GetMessages
  <2>2. /\ pc = "posts" /\ toAsk' = toAsk \ batch /\ asked' = asked \cup ({cid} \X batch)
        /\ UNCHANGED <<claimed, cid, mine, list, refused, stop>>
        /\ pc' = IF toAsk' = {} THEN "refresh" ELSE "posts"
    BY <1>12 DEF GetMessages
  <2>3. batch \subseteq toAsk /\ toAsk \subseteq Msgs
    BY BatchIsAsked DEF TypeOK
  <2>4. \A m \in Msgs : answered'[m] = IF m \in batch THEN ans[m] ELSE answered[m]
    BY <2>1
  <2>5. \A m \in batch : ans[m] # "none" /\ (ans[m] = Gone => ans[m] \notin Files)
    BY ListAssumption DEF Answers
  <2>6. \A m \in Msgs : IF m \in batch THEN <<cid, m>> \in tombs' <=> ans[m] = Gone
                      ELSE <<cid, m>> \in tombs' <=> <<cid, m>> \in tombs
    BY <2>1 DEF TombsAfter
  <2>7. asked' \subseteq claimed'
    BY <2>2, <2>3 DEF Asked
  <2>8. \A m \in toAsk' : <<cid, m>> \in claimed' \ asked'
    BY <2>2 DEF Asked
  <2>9. \A i \in mine : Msg(i)' = Msg(i) /\ Msg(i) \in Msgs
    BY <2>2, RowsAreLines DEF Msg, TypeOK
  <2>10. \A m \in Msgs :
            /\ answered'[m] # "none" => <<cid, m>> \in asked'
            /\ answered'[m] = Gone => <<cid, m>> \in tombs'
            /\ answered'[m] \in Files => <<cid, m>> \notin tombs'
    BY <2>2, <2>4, <2>5, <2>6 DEF Asked
  <2>17. \A m \in Msgs : answered'[m] # "none" => <<cid, m, answered'[m]>> \in told'
    BY <2>1, <2>4 DEF Asked
  <2>11. \A i \in mine : answered'[Msg(i)] = "none" => Msg(i) \in toAsk'
    BY <2>2, <2>4, <2>5, <2>9 DEF Asked
  <2>12. \A i \in mine' : answered'[Msg(i)'] = "none" => Msg(i)' \in toAsk'
    BY <2>2, <2>9, <2>11
  <2>13. cid' = cid /\ (pc' = "refresh" => toAsk' = {}) /\ pc' \in {"posts", "refresh"}
    BY <2>2
  <2>14. \A m \in toAsk' : <<cid', m>> \in claimed' \ asked'
    BY <2>8, <2>13
  <2>15. /\ \A m \in Msgs : answered'[m] # "none" =>
               <<cid', m>> \in asked' /\ <<cid', m, answered'[m]>> \in told'
         /\ \A m \in Msgs : answered'[m] = Gone => <<cid', m>> \in tombs'
         /\ \A m \in Msgs : answered'[m] \in Files => <<cid', m>> \notin tombs'
    BY <2>10, <2>13, <2>17, Zenon
  <2>16. pc' \in {"refresh", "media", "settle"} => refused' \/ stop' \/ toAsk' = {}
    BY <2>13
  <2> QED BY <2>7, <2>12, <2>14, <2>15, <2>16 DEF Asked
<1>13. CASE PostsFail(TRUE)
  BY <1>13 DEF PostsFail, Asked, Msg
<1>14. CASE PostsFail(FALSE)
  BY <1>14 DEF PostsFail, Asked, Msg
<1>15. CASE Refresh
  BY <1>15 DEF Refresh, Asked, Msg
<1>16. CASE RefreshFails
  BY <1>16 DEF RefreshFails, Asked, Msg
<1>17. CASE WalkMedia
  BY <1>17 DEF WalkMedia, Asked, Msg
<1>18. CASE MediaStops
  BY <1>18 DEF MediaStops, Asked, Msg
<1>19. CASE Settle
  <2>1. /\ UNCHANGED <<asked, told, claimed, tombs>> /\ toAsk' = {} /\ answered' = Blank
        /\ pc' \in {"done", "segment", "access", "judge"}
    BY <1>19 DEF Settle, Advance, End, Reset
  <2> QED BY <2>1, NothingAnswered DEF Asked
<1> QED BY <1>1, <1>2, <1>3, <1>4, <1>5, <1>6, <1>7, <1>8, <1>9, <1>10,
           <1>11, <1>12, <1>13, <1>14, <1>15, <1>16, <1>17, <1>18, <1>19 DEF Next

(* Before a segment's media run nothing is walked.                          *)
LEMMA NothingWalked ==
    ASSUME toWalk' = {}, media' = Blank, held' = {}, pc' \notin {"media", "settle"}
    PROVE  Walked'
BY DEF Walked, Blank

(* A file sighted where it is new puts nothing out of order.                *)
LEMMA OrderStays ==
    ASSUME NEW m \in Msgs, NEW f, New(f), cid \in Channels,
           sightings' = sightings \cup {<<cid, m, f>>}
    PROVE  \A c, k, g : InOrder(c, k, g) => InOrder(c, k, g)'
<1> SUFFICES ASSUME NEW c, NEW k, NEW g, InOrder(c, k, g)
             PROVE  HeldFile(g)' /\ (<<c, k, g>> \in sightings' \/ ~Sighted(c, g)')
  BY DEF InOrder
<1>1. HeldFile(g)'
  BY DEF InOrder, HeldFile, Sighted
<1>2. CASE <<c, k, g>> \in sightings
  BY <1>1, <1>2
<1>3. CASE ~Sighted(c, g)
  <2>1. HeldFile(g)
    BY DEF InOrder
  <2>2. ~(c = cid /\ g = f)
    BY <1>3, <2>1 DEF New
  <2>3. ~Sighted(c, g)'
    BY <1>3, <2>2 DEF Sighted
  <2> QED BY <1>1, <2>3
<1> QED BY <1>2, <1>3 DEF InOrder

(* The media run walks what is new, and accounts for it.                    *)
LEMMA WalkedHolds ==
    ASSUME IInv, [Next]_vars
    PROVE  Walked'
<1> USE DEF IInv, vars, disk, known, input, report, memory, work, ghost
<1>1. CASE UNCHANGED vars
  BY <1>1 DEF Walked, New, Sighted, HeldFile, HoldsFile, InOrder, Msg
<1>2. CASE StartCommand
  <2>1. toWalk' = {} /\ media' = Blank /\ held' = {} /\ pc' \notin {"media", "settle"}
    BY <1>2 DEF StartCommand, Phased, Idle
  <2> QED BY <2>1, NothingWalked
<1>3. CASE BeginSegment
  <2>1. PICK s \in segs : Begun(s)
    BY <1>3, BeginsOne
  <2>2. toWalk' = {} /\ media' = Blank /\ held' = {} /\ pc' \notin {"media", "settle"}
    BY <1>3, <2>1 DEF BeginSegment, Begun, Phased, Idle
  <2> QED BY <2>2, NothingWalked
<1>4. CASE Finish
  <2>1. toWalk' = {} /\ media' = Blank /\ held' = {} /\ pc' \notin {"media", "settle"}
    BY <1>4 DEF Finish, Phased, Idle
  <2> QED BY <2>1, NothingWalked
<1>5. CASE Establish
  <2>1. toWalk' = {} /\ media' = Blank /\ held' = {} /\ pc' \notin {"media", "settle"}
    BY <1>5 DEF Establish, Phased
  <2> QED BY <2>1, NothingWalked
<1>6. CASE RouteRefused
  <2>1. toWalk' = {} /\ media' = Blank /\ held' = {} /\ pc' \notin {"media", "settle"}
    BY <1>6 DEF RouteRefused, Advance, Reset, Phased
  <2> QED BY <2>1, NothingWalked
<1>7. CASE AccessStops
  <2>1. toWalk' = {} /\ media' = Blank /\ held' = {} /\ pc' \notin {"media", "settle"}
    BY <1>7 DEF AccessStops, End, Reset
  <2> QED BY <2>1, NothingWalked
<1>8. CASE DeadChannel
  <2>1. toWalk' = {} /\ media' = Blank /\ held' = {} /\ pc' \notin {"media", "settle"}
    BY <1>8 DEF DeadChannel, Advance, Reset
  <2> QED BY <2>1, NothingWalked
<1>9. CASE ExcludedChannel
  <2>1. toWalk' = {} /\ media' = Blank /\ held' = {} /\ pc' \notin {"media", "settle"}
    BY <1>9 DEF ExcludedChannel, Advance, Reset
  <2> QED BY <2>1, NothingWalked
<1>10. CASE EnterChannel
  <2>1. toWalk' = {} /\ media' = Blank /\ held' = {} /\ pc' \notin {"media", "settle"}
    BY <1>10 DEF EnterChannel, Judged, Phased
  <2> QED BY <2>1, NothingWalked
<1>11. CASE Claim
  <2>1. toWalk' = {} /\ media' = Blank /\ held' = {} /\ pc' \notin {"media", "settle"}
    BY <1>11 DEF Claim, Judged, Advance, Reset, Phased
  <2> QED BY <2>1, NothingWalked
<1>12. CASE GetMessages
  <2>1. toWalk' = {} /\ media' = Blank /\ held' = {} /\ pc' \notin {"media", "settle"}
    BY <1>12 DEF GetMessages, Phased
  <2> QED BY <2>1, NothingWalked
<1>13. CASE PostsFail(TRUE)
  <2>1. toWalk' = {} /\ media' = Blank /\ held' = {} /\ pc' \notin {"media", "settle"}
    BY <1>13 DEF PostsFail, Phased
  <2> QED BY <2>1, NothingWalked
<1>14. CASE PostsFail(FALSE)
  <2>1. toWalk' = {} /\ media' = Blank /\ held' = {} /\ pc' \notin {"media", "settle"}
    BY <1>14 DEF PostsFail, Phased
  <2> QED BY <2>1, NothingWalked
<1>15. CASE Refresh
  <2>1. /\ held' = {i \in mine : HoldsFile(Msg(i))}
        /\ toWalk' = IF withMedia /\ ~refused /\ ~stop THEN Selected ELSE {}
        /\ UNCHANGED <<mine, list, answered, media, sightings, cid, withMedia, refused, stop>>
    BY <1>15 DEF Refresh
  <2>2. ASSUME NEW m \in toWalk' PROVE answered[m] \in Files /\ New(answered[m])
    BY <2>1 DEF Selected, Due, New
  <2>4. media = Blank
    BY <1>15 DEF Refresh, Phased
  <2>5. ASSUME NEW i \in mine \ held', answered[Msg(i)] \in Files,
               withMedia, ~refused, ~stop
        PROVE  Msg(i) \in toWalk'
    <3>1. Msg(i) \in Msgs
      BY RowsAreLines DEF Msg, TypeOK
    <3>2. ~HeldFile(answered[Msg(i)])
      BY <2>1, <2>5 DEF HoldsFile
    <3>3. <<cid, Msg(i)>> \notin tombs
      BY <2>5, <3>1 DEF Asked
    <3> QED BY <2>1, <2>5, <3>1, <3>2, <3>3 DEF Selected, Due
  <2>6. (\A m \in toWalk : answered[m] \in Files /\ New(answered[m]))'
    BY <2>1, <2>2 DEF New, Sighted, HeldFile
  <2>7. \A m \in Msgs : media'[m] = "none"
    BY <2>1, <2>4 DEF Blank
  <2>8. withMedia' => \/ refused' \/ stop'
                     \/ \A i \in mine' \ held' : answered'[Msg(i)'] \in Files =>
                           Msg(i)' \in toWalk'
    BY <2>1, <2>5 DEF Msg
  <2>9. ASSUME NEW m \in Msgs, answered[m] \in Files, withMedia, ~refused, ~stop,
               m \notin toWalk'
        PROVE  InOrder(cid, m, answered[m])
    <3>1. <<cid, m>> \notin tombs
      BY <2>9 DEF Asked
    <3> QED BY <2>1, <2>9, <3>1 DEF Selected, Due, InOrder
  <2>10. withMedia' => \/ refused' \/ stop'
                      \/ \A m \in Msgs : answered'[m] \in Files =>
                            m \in toWalk' \/ InOrder(cid, m, answered[m])'
    BY <2>1, <2>9 DEF InOrder, HeldFile, Sighted
  <2>11. \A i \in held' : HoldsFile(Msg(i))'
    BY <2>1 DEF HoldsFile, HeldFile, Sighted, Msg
  <2> QED BY <2>6, <2>7, <2>8, <2>10, <2>11 DEF Walked
<1>16. CASE RefreshFails
  <2>1. /\ toWalk' = {} /\ media' = Blank /\ stop' = (stop \/ ~refused)
        /\ UNCHANGED <<refused, list, answered, sightings>>
        /\ held' \in {{}, {i \in mine : HoldsFile(Msg(i))}}
    BY <1>16 DEF RefreshFails, Phased
  <2>2. \A i \in held' : HoldsFile(Msg(i))'
    BY <2>1 DEF HoldsFile, HeldFile, Sighted, Msg
  <2> QED BY <2>1, <2>2 DEF Walked, Blank
<1>17. CASE WalkMedia
  <2>1. pc = "media" /\ walk \in toWalk
    BY <1>17, WalkIsSelected DEF WalkMedia, Phased
  <2>2. walk \in Msgs /\ cid \in Channels /\ answered[walk] \in Files
    BY <2>1 DEF TypeOK, Addressed, Walked
  <2>3. PICK end \in {"downloaded", "duplicate", "skipped"} :
            /\ media' = [media EXCEPT ![walk] = end]
            /\ sightings' = IF end = "skipped" THEN sightings
                            ELSE sightings \cup {<<cid, walk, answered[walk]>>}
    BY <1>17 DEF WalkMedia
  <2>4. /\ toWalk' = toWalk \ {walk}
        /\ UNCHANGED <<mine, held, list, answered, cid, withMedia, refused, stop>>
    BY <1>17 DEF WalkMedia
  <2>5. \A m \in Msgs : media'[m] = IF m = walk THEN end ELSE media[m]
    BY <2>2, <2>3 DEF TypeOK
  <2>6. ASSUME NEW g, New(g) PROVE New(g)'
    <3>1. CASE sightings' = sightings
      BY <2>4, <2>6, <3>1 DEF New, Sighted, HeldFile
    <3>2. CASE sightings' = sightings \cup {<<cid, walk, answered[walk]>>}
      <4>1. CASE g = answered[walk]
        BY <2>2, <2>4, <3>2, <4>1 DEF New, Sighted
      <4>2. CASE g # answered[walk]
        BY <2>4, <2>6, <3>2, <4>2 DEF New, Sighted, HeldFile
      <4> QED BY <4>1, <4>2
    <3> QED BY <2>3, <3>1, <3>2
  <2>7. (\A m \in toWalk : answered[m] \in Files /\ New(answered[m]))'
    <3>1. \A m \in toWalk' : answered[m] \in Files /\ New(answered[m])
      BY <2>4 DEF Walked
    <3> QED BY <2>4, <2>6, <3>1 DEF New, Sighted, HeldFile
  <2>8. ASSUME NEW m \in Msgs, media'[m] \in {"downloaded", "duplicate"}
        PROVE  <<cid, m, answered[m]>> \in sightings'
    <3>1. CASE m = walk
      BY <2>2, <2>3, <2>5, <2>8, <3>1
    <3>2. CASE m # walk
      <4>1. <<cid, m, answered[m]>> \in sightings
        BY <2>5, <2>8, <3>2 DEF Walked
      <4> QED BY <2>3, <4>1
    <3> QED BY <3>1, <3>2
  <2>9. \A i \in mine : Msg(i)' = Msg(i) /\ Msg(i) \in Msgs
    BY <2>4, RowsAreLines DEF Msg, TypeOK
  <2>10. ASSUME NEW i \in mine \ held, answered[Msg(i)] \in Files,
                withMedia, ~refused, ~stop, media'[Msg(i)] = "none"
         PROVE  Msg(i) \in toWalk'
    <3>1. Msg(i) # walk /\ media[Msg(i)] = "none"
      BY <2>5, <2>9, <2>10
    <3>2. Msg(i) \in toWalk
      BY <2>1, <2>10, <3>1 DEF Walked
    <3> QED BY <2>4, <3>1, <3>2
  <2>11. withMedia' => \/ refused' \/ stop'
                      \/ \A i \in mine' \ held' :
                            answered'[Msg(i)'] \in Files /\ media'[Msg(i)'] = "none" =>
                               Msg(i)' \in toWalk'
    BY <2>4, <2>9, <2>10
  <2>12. \A m \in Msgs : media'[m] \in {"downloaded", "duplicate"} =>
            <<cid', m, answered'[m]>> \in sightings'
    BY <2>4, <2>8
  <2>13. \A c, m, g : InOrder(c, m, g) => InOrder(c, m, g)'
    <3>1. CASE sightings' = sightings
      BY <3>1 DEF InOrder, HeldFile, Sighted
    <3>2. CASE sightings' = sightings \cup {<<cid, walk, answered[walk]>>}
      <4>1. New(answered[walk])
        BY <2>1 DEF Walked
      <4> QED BY <2>2, <3>2, <4>1, OrderStays
    <3> QED BY <2>3, <3>1, <3>2
  <2>14. ASSUME NEW m \in Msgs, answered[m] \in Files, media'[m] = "none",
                withMedia, ~refused, ~stop, m \notin toWalk'
         PROVE  InOrder(cid, m, answered[m])
    <3>1. m # walk /\ media[m] = "none" /\ m \notin toWalk
      BY <2>4, <2>5, <2>14
    <3> QED BY <2>1, <2>14, <3>1 DEF Walked
  <2>15. withMedia' => \/ refused' \/ stop'
                      \/ \A m \in Msgs : answered'[m] \in Files /\ media'[m] = "none" =>
                            m \in toWalk' \/ InOrder(cid, m, answered[m])'
    <3>1. \A m \in Msgs : InOrder(cid, m, answered[m]) => InOrder(cid, m, answered[m])'
      BY <2>4, <2>13 DEF InOrder, HeldFile, Sighted
    <3> QED BY <2>4, <2>14, <3>1
  <2>16. \A m \in Msgs : media'[m] # "none" => answered'[m] \in Files
    BY <2>2, <2>4, <2>5 DEF Walked
  <2>17. \A i \in held' : HoldsFile(Msg(i))'
    <3>1. \A i \in held : HoldsFile(Msg(i))
      BY DEF Walked
    <3>2. sightings \subseteq sightings'
      BY <2>3
    <3> QED BY <2>4, <3>1, <3>2 DEF HoldsFile, HeldFile, Sighted, Msg
  <2> QED BY <2>7, <2>11, <2>12, <2>15, <2>16, <2>17 DEF Walked
<1>18. CASE MediaStops
  <2>1. stop' = TRUE /\ UNCHANGED <<toWalk, answered, media, cid, sightings, held, list>>
    BY <1>18 DEF MediaStops
  <2> QED BY <2>1 DEF Walked, New, Sighted, HeldFile, HoldsFile, Msg
<1>19. CASE Settle
  <2>1. toWalk' = {} /\ media' = Blank /\ held' = {} /\ pc' \notin {"media", "settle"}
    BY <1>19 DEF Settle, Advance, End, Reset
  <2> QED BY <2>1, NothingWalked
<1> QED BY <1>1, <1>2, <1>3, <1>4, <1>5, <1>6, <1>7, <1>8, <1>9, <1>10,
           <1>11, <1>12, <1>13, <1>14, <1>15, <1>16, <1>17, <1>18, <1>19 DEF Next

(* Nothing is forgotten of what this command was told, refused and kept.    *)
Kept ==
    /\ UNCHANGED <<list, withMedia>> /\ (stop => stop')
    /\ told \subseteq told' /\ asked \subseteq asked' /\ refusals \subseteq refusals'
    /\ \/ UNCHANGED sightings
       \/ \E m \in Msgs, f \in Files :
             New(f) /\ sightings' = sightings \cup {<<cid, m, f>>}

LEMMA SoStays ==
    ASSUME Kept, sightings' # sightings => cid \in Channels,
           NEW o, NEW c, NEW m, IsSo(o, c, m),
           o = "deleted_upstream" => <<c, m>> \in tombs'
    PROVE  /\ o \in {"downloaded", "duplicate"} =>
                 \E f \in Files : <<c, m, f>> \in told' \cap sightings'
           /\ o = "already_stored" =>
                 \E f \in Files : /\ <<c, m, f>> \in told' /\ HeldFile(f)'
                                  /\ SeenThrough(c)' => InOrder(c, m, f)'
           /\ o = "no_media" => <<c, m, Text>> \in told'
           /\ o = "deleted_upstream" => <<c, m, Gone>> \in told' /\ <<c, m>> \in tombs'
<1>1. sightings \subseteq sightings' /\ told \subseteq told'
  BY DEF Kept
<1>2. \A d, k, g : InOrder(d, k, g) => InOrder(d, k, g)'
  <2>1. CASE UNCHANGED sightings
    BY <2>1 DEF InOrder, HeldFile, Sighted
  <2>2. CASE sightings' # sightings
    BY <2>2, OrderStays DEF Kept
  <2> QED BY <2>1, <2>2
<1>3. SeenThrough(c)' => SeenThrough(c)
  BY DEF Kept, SeenThrough
<1>4. \A f : HeldFile(f) => HeldFile(f)'
  BY <1>1 DEF HeldFile, Sighted
<1>5. o \in {"downloaded", "duplicate"} =>
         \E f \in Files : <<c, m, f>> \in told' \cap sightings'
  BY <1>1 DEF IsSo
<1>6. ASSUME o = "already_stored"
      PROVE  \E f \in Files : /\ <<c, m, f>> \in told' /\ HeldFile(f)'
                              /\ SeenThrough(c)' => InOrder(c, m, f)'
  <2>1. PICK f \in Files : /\ <<c, m, f>> \in told /\ HeldFile(f)
                           /\ SeenThrough(c) => InOrder(c, m, f)
    BY <1>6 DEF IsSo
  <2> QED BY <1>1, <1>2, <1>3, <1>4, <2>1
<1>7. /\ o = "no_media" => <<c, m, Text>> \in told'
      /\ o = "deleted_upstream" => <<c, m, Gone>> \in told' /\ <<c, m>> \in tombs'
  BY <1>1 DEF IsSo
<1> QED BY <1>5, <1>6, <1>7

(* A report that is true stays true while the store keeps what it is about, *)
(* and only rows of the segment in hand, or of one not begun, change.       *)
LEMMA ReportStays ==
    ASSUME Reported, Kept, sightings' # sightings => cid \in Channels,
           \A p \in asked : p \in tombs => p \in tombs',
           \A i \in DOMAIN list :
              \/ outcome'[i] = outcome[i] /\ post'[i] = post[i] /\ chanOf'[i] = chanOf[i]
              \/ /\ outcome'[i] \in {"not_attempted", "excluded", "no_access", "duplicate_row"}
                 /\ post'[i] = "skipped"
    PROVE  Reported'
<1>1. UNCHANGED list /\ asked \subseteq asked'
  BY DEF Kept
<1>2. ASSUME NEW i \in DOMAIN list
      PROVE  /\ IsSo(outcome[i], chanOf[i], Msg(i))'
             /\ outcome'[i] = "deleted_upstream" => <<chanOf'[i], Msg(i)>> \in asked'
             /\ post'[i] # "skipped" => <<chanOf'[i], Msg(i)>> \in asked'
  <2>1. CASE outcome'[i] = outcome[i] /\ post'[i] = post[i] /\ chanOf'[i] = chanOf[i]
    <3>1. /\ IsSo(outcome[i], chanOf[i], Msg(i))
          /\ outcome[i] = "deleted_upstream" => <<chanOf[i], Msg(i)>> \in asked
          /\ post[i] # "skipped" => <<chanOf[i], Msg(i)>> \in asked
      BY DEF Reported
    <3>2. outcome[i] = "deleted_upstream" => <<chanOf[i], Msg(i)>> \in tombs'
      BY <3>1 DEF IsSo
    <3> DEFINE o == outcome[i]
               c == chanOf[i]
               m == Msg(i)
    <3>3. /\ o \in {"downloaded", "duplicate"} =>
                \E f \in Files : <<c, m, f>> \in told' \cap sightings'
          /\ o = "already_stored" =>
                \E f \in Files : /\ <<c, m, f>> \in told'
                                 /\ \E d \in Channels, k \in Msgs : <<d, k, f>> \in sightings'
                                 /\ withMedia' /\ ~stop' /\ c \notin refusals' =>
                                       \/ <<c, m, f>> \in sightings'
                                       \/ \A k \in Msgs : <<c, k, f>> \notin sightings'
          /\ o = "no_media" => <<c, m, Text>> \in told'
          /\ o = "deleted_upstream" => <<c, m, Gone>> \in told' /\ <<c, m>> \in tombs'
      <4>1. IsSo(o, c, m) /\ (o = "deleted_upstream" => <<c, m>> \in tombs')
        BY <3>1, <3>2
      <4> HIDE DEF o, c, m
      <4> QED BY <4>1, SoStays DEF HeldFile, InOrder, Sighted, SeenThrough
    <3>4. IsSo(outcome[i], chanOf[i], Msg(i))'
      BY <1>1, <2>1, <3>3 DEF IsSo, HeldFile, InOrder, Sighted, SeenThrough, Msg
    <3> QED BY <1>1, <2>1, <3>1, <3>4
  <2>2. CASE /\ outcome'[i] \in {"not_attempted", "excluded", "no_access", "duplicate_row"}
             /\ post'[i] = "skipped"
    BY <2>2 DEF IsSo
  <2> QED BY <2>1, <2>2
<1> QED BY <1>1, <1>2 DEF Reported, Msg

(* What the report says of a message stays so.                              *)
LEMMA ReportedHolds ==
    ASSUME IInv, [Next]_vars
    PROVE  Reported'
<1> USE DEF IInv, vars, disk, known, input, report, memory, work, ghost
<1>1. CASE UNCHANGED vars
  BY <1>1 DEF Reported, IsSo, SeenThrough, InOrder, HeldFile, Sighted, Msg
<1>2. CASE StartCommand
  <2>1. PICK l \in Lists, x \in SUBSET collected : Started(l, x)
    BY <1>2, StartsOne
  <2>2. list' = l /\ \A i \in DOMAIN l : post'[i] = "skipped"
    BY <2>1 DEF Started
  <2>3. \A i \in DOMAIN l : outcome'[i] \in {"duplicate_row", "excluded", "not_attempted"}
    BY <2>1 DEF Started, Classified
  <2> QED BY <2>2, <2>3 DEF Reported, IsSo
<1>3. CASE BeginSegment
  <2>1. PICK s \in segs : Begun(s)
    BY <1>3, BeginsOne
  <2>2. Kept /\ UNCHANGED <<post, tombs, sightings>>
    BY <1>3 DEF BeginSegment, Kept
  <2>3. \A i \in s.rows : outcome[i] = "not_attempted" /\ post[i] = "skipped"
    BY DEF Pending
  <2>4. \A i \in DOMAIN list : i \notin s.rows =>
           outcome'[i] = outcome[i] /\ chanOf'[i] = chanOf[i]
    BY <2>1 DEF Begun, Adopted, NoAccess, TypeOK
  <2>5. \A i \in DOMAIN list : i \in s.rows => outcome'[i] \in {"not_attempted", "no_access"}
    BY <2>1, <2>3 DEF Begun, NoAccess, TypeOK
  <2> QED BY <2>2, <2>3, <2>4, <2>5, ReportStays
<1>4. CASE Finish
  <2>1. Kept /\ UNCHANGED <<outcome, post, chanOf, tombs, sightings>>
    BY <1>4 DEF Finish, Kept
  <2> QED BY <2>1, ReportStays
<1>5. CASE Establish
  <2>1. PICK c \in Channels : Established(c)
    BY <1>5, EstablishesOne
  <2>2. Kept /\ UNCHANGED <<outcome, post, tombs, sightings>>
    BY <2>1 DEF Established, Kept
  <2>3. \A i \in DOMAIN list : chanOf'[i] = chanOf[i]
                             \/ (outcome[i] = "not_attempted" /\ post[i] = "skipped")
    BY <2>1 DEF Established, Adopted, Pending, TypeOK
  <2> QED BY <2>2, <2>3, ReportStays
<1>6. CASE RouteRefused
  <2>1. Kept /\ UNCHANGED <<post, chanOf, tombs, sightings>>
    BY <1>6 DEF RouteRefused, Kept
  <2>2. \A i \in DOMAIN list :
           \/ outcome'[i] = outcome[i]
           \/ outcome'[i] \in {"excluded", "no_access", "duplicate_row"} /\ post[i] = "skipped"
    BY <1>6 DEF RouteRefused, NoAccess, Pending, TypeOK
  <2> QED BY <2>1, <2>2, ReportStays
<1>7. CASE AccessStops
  <2>1. Kept /\ UNCHANGED <<outcome, post, chanOf, tombs, sightings>>
    BY <1>7 DEF AccessStops, End, Kept
  <2> QED BY <2>1, ReportStays
<1>8. CASE DeadChannel
  <2>1. Kept /\ UNCHANGED <<post, chanOf, tombs, sightings>>
    BY <1>8 DEF DeadChannel, Kept
  <2>2. \A i \in DOMAIN list :
           \/ outcome'[i] = outcome[i]
           \/ outcome'[i] \in {"excluded", "no_access", "duplicate_row"} /\ post[i] = "skipped"
    BY <1>8 DEF DeadChannel, NoAccess, Pending, TypeOK
  <2> QED BY <2>1, <2>2, ReportStays
<1>9. CASE ExcludedChannel
  <2>1. Kept /\ UNCHANGED <<post, chanOf, tombs, sightings>>
    BY <1>9 DEF ExcludedChannel, Kept
  <2>2. \A i \in DOMAIN list :
           \/ outcome'[i] = outcome[i]
           \/ outcome'[i] \in {"excluded", "no_access", "duplicate_row"} /\ post[i] = "skipped"
    BY <1>9 DEF ExcludedChannel, NoAccess, Pending, TypeOK
  <2> QED BY <2>1, <2>2, ReportStays
<1>10. CASE EnterChannel
  <2>1. Kept /\ UNCHANGED <<outcome, post, chanOf, tombs, sightings>>
    BY <1>10 DEF EnterChannel, Kept
  <2> QED BY <2>1, ReportStays
<1>11. CASE Claim
  <2>1. PICK again \in SUBSET mine : Claimed(again)
    BY <1>11, ClaimsOnce
  <2>2. Kept /\ UNCHANGED <<post, chanOf, tombs, sightings>>
    BY <2>1 DEF Claimed, Kept
  <2>3. \A i \in DOMAIN list :
           \/ outcome'[i] = outcome[i]
           \/ outcome'[i] = "duplicate_row" /\ post[i] = "skipped"
    BY <2>1 DEF Claimed, Pending, TypeOK
  <2> QED BY <2>2, <2>3, ReportStays
<1>12. CASE GetMessages
  <2>1. Kept /\ UNCHANGED <<outcome, post, chanOf, sightings>>
    BY <1>12 DEF GetMessages, Kept
  <2>2. ASSUME NEW p \in asked, p \in tombs PROVE p \in tombs'
    <3>1. p \notin {cid} \X batch
      BY BatchIsAsked DEF Asked
    <3> QED BY <1>12, <2>2, <3>1 DEF GetMessages, TombsAfter
  <2> QED BY <2>1, <2>2, ReportStays
<1>13. CASE PostsFail(TRUE)
  <2>1. Kept /\ UNCHANGED <<outcome, post, chanOf, tombs, sightings>>
    BY <1>13 DEF PostsFail, Kept
  <2> QED BY <2>1, ReportStays
<1>14. CASE PostsFail(FALSE)
  <2>1. Kept /\ UNCHANGED <<outcome, post, chanOf, tombs, sightings>>
    BY <1>14 DEF PostsFail, Kept
  <2> QED BY <2>1, ReportStays
<1>15. CASE Refresh
  <2>1. Kept /\ UNCHANGED <<outcome, post, chanOf, tombs, sightings>>
    BY <1>15 DEF Refresh, Kept
  <2> QED BY <2>1, ReportStays
<1>16. CASE RefreshFails
  <2>1. Kept /\ UNCHANGED <<outcome, post, chanOf, tombs, sightings>>
    BY <1>16 DEF RefreshFails, Kept
  <2> QED BY <2>1, ReportStays
<1>17. CASE WalkMedia
  <2>1. UNCHANGED <<list, withMedia, stop, told, asked, refusals, outcome, post, chanOf, tombs>>
        /\ \/ UNCHANGED sightings
           \/ sightings' = sightings \cup {<<cid, walk, answered[walk]>>}
    BY <1>17 DEF WalkMedia
  <2>2. walk \in toWalk
    BY <1>17, WalkIsSelected DEF WalkMedia, Phased
  <2>3. walk \in Msgs /\ answered[walk] \in Files /\ New(answered[walk])
    BY <2>2 DEF TypeOK, Walked
  <2>4. cid \in Channels
    BY <1>17 DEF WalkMedia, Addressed, TypeOK
  <2>5. Kept
    BY <2>1, <2>3 DEF Kept
  <2> QED BY <2>1, <2>4, <2>5, ReportStays
<1>18. CASE MediaStops
  <2>1. Kept /\ UNCHANGED <<outcome, post, chanOf, tombs, sightings>>
    BY <1>18 DEF MediaStops, Kept
  <2> QED BY <2>1, ReportStays
<1>19. CASE Settle
  <2>1. UNCHANGED <<list, withMedia, chanOf, tombs, sightings, asked, told, refusals, stop>>
    BY <1>19 DEF Settle, Advance, End
  <2>2. \A i \in DOMAIN list : i \notin mine =>
           outcome'[i] = outcome[i] /\ post'[i] = post[i]
    BY <1>19 DEF Settle, NoAccess, TypeOK
  <2>3. ASSUME NEW i \in mine
        PROVE  /\ IsSo(outcome'[i], chanOf[i], Msg(i))
               /\ outcome'[i] = "deleted_upstream" => <<chanOf[i], Msg(i)>> \in asked
               /\ post'[i] # "skipped" => <<chanOf[i], Msg(i)>> \in asked
    <3> DEFINE m == Msg(i)
    <3>1. m \in Msgs /\ chanOf[i] = cid
          /\ outcome[i] = "not_attempted" /\ post[i] = "skipped" /\ i \in DOMAIN list
      BY RowsAnswer, RowsAreLines DEF Msg, TypeOK, Pending
    <3>2. outcome'[i] \in {Final(i), "no_access"}
      BY <1>19, <3>1 DEF Settle, NoAccess, TypeOK
    <3>3. media[m] \in {"none", "downloaded", "duplicate", "skipped"}
      BY <3>1 DEF TypeOK
    <3>4. answered[m] # "none" => <<cid, m>> \in asked /\ <<cid, m, answered[m]>> \in told
      BY <3>1 DEF Asked
    <3>5. Final(i) \in {"downloaded", "duplicate"} =>
             \E f \in Files : <<cid, m, f>> \in told \cap sightings
      <4>1. Final(i) \in {"downloaded", "duplicate"} => media[m] = Final(i)
        BY <3>3, <3>1 DEF Final
      <4>2. media[m] \in {"downloaded", "duplicate"} =>
               answered[m] \in Files /\ <<cid, m, answered[m]>> \in sightings
        BY <3>1 DEF Walked
      <4> QED BY <3>4, <4>1, <4>2, ListAssumption
    <3>6. ASSUME Final(i) = "already_stored"
          PROVE  \E f \in Files : /\ <<cid, m, f>> \in told /\ HeldFile(f)
                                  /\ SeenThrough(cid) => InOrder(cid, m, f)
      <4>1. media[m] = "none" /\ answered[m] # "none" /\ i \in held
        BY <3>1, <3>3, <3>6 DEF Final
      <4>2. answered[m] \in Files /\ HeldFile(answered[m])
        BY <4>1 DEF Walked, HoldsFile
      <4>3. ASSUME SeenThrough(cid) PROVE InOrder(cid, m, answered[m])
        <5>1. withMedia /\ ~stop /\ ~refused /\ pc = "settle"
          BY <1>19, <4>3 DEF SeenThrough, Refused, Settle
        <5>2. toWalk = {}
          BY <5>1 DEF Phased
        <5> QED BY <3>1, <4>1, <4>2, <5>1, <5>2 DEF Walked
      <4> QED BY <3>4, <4>1, <4>2, <4>3
    <3>7. Final(i) = "no_media" => answered[m] = Text
      BY <3>1, <3>3 DEF Final
    <3>8. Final(i) = "deleted_upstream" => answered[m] = Gone /\ <<cid, m>> \in tombs
      BY <3>1, <3>3 DEF Final, Asked
    <3>9. Text # "none" /\ Gone # "none"
      BY ListAssumption
    <3>10. IsSo(Final(i), cid, m)
      <4> HIDE DEF m
      <4> QED BY <3>4, <3>5, <3>6, <3>7, <3>8, <3>9 DEF IsSo
    <3>11. IsSo("no_access", cid, m)
      BY DEF IsSo
    <3>12. post'[i] # "skipped" => <<cid, m>> \in asked
      BY <1>19, <3>1 DEF Settle, Asked, TypeOK
    <3>13. Final(i) = "deleted_upstream" => <<cid, m>> \in asked
      BY <3>4, <3>8, <3>9
    <3> HIDE DEF m
    <3>14. IsSo(outcome'[i], chanOf[i], m)
      BY <3>1, <3>2, <3>10, <3>11
    <3>15. outcome'[i] = "deleted_upstream" => <<chanOf[i], m>> \in asked
      BY <3>1, <3>2, <3>13
    <3> QED BY <3>1, <3>12, <3>14, <3>15 DEF m
  <2>4. \A i \in DOMAIN list :
           /\ IsSo(outcome'[i], chanOf[i], Msg(i))
           /\ outcome'[i] = "deleted_upstream" => <<chanOf[i], Msg(i)>> \in asked
           /\ post'[i] # "skipped" => <<chanOf[i], Msg(i)>> \in asked
    BY <2>2, <2>3 DEF Reported
  <2> QED BY <2>1, <2>4 DEF Reported, IsSo, SeenThrough, InOrder, HeldFile, Sighted, Msg
<1> QED BY <1>1, <1>2, <1>3, <1>4, <1>5, <1>6, <1>7, <1>8, <1>9, <1>10,
           <1>11, <1>12, <1>13, <1>14, <1>15, <1>16, <1>17, <1>18, <1>19 DEF Next

(* No row is lost and no owner of a claim changes while rows only get       *)
(* outcomes of their own and channels they had not.                         *)
LEMMA DuplicatesStay ==
    ASSUME TypeOK, Duplicates, UNCHANGED <<list, claimed>>,
           \A k \in DOMAIN list : outcome[k] # "duplicate_row" => outcome'[k] # "duplicate_row",
           \A k \in DOMAIN list : chanOf[k] # NoChannel => chanOf'[k] = chanOf[k],
           \A k \in DOMAIN list : PastClaim(k) => PastClaim(k)'
    PROVE  Duplicates'
<1>1. ASSUME NEW c \in Channels, NEW m, NEW k \in DOMAIN list, StandsFor(k, c, m)
      PROVE  StandsFor(k, c, m)'
  BY <1>1, ListAssumption DEF StandsFor, Msg
<1>2. ASSUME NEW p \in claimed'
      PROVE  \E k \in DOMAIN list : StandsFor(k, p[1], p[2])' /\ PastClaim(k)'
  <2>1. p \in claimed /\ p[1] \in Channels
    BY DEF TypeOK
  <2>2. PICK k \in DOMAIN list : StandsFor(k, p[1], p[2]) /\ PastClaim(k)
    BY <2>1 DEF Duplicates
  <2>3. StandsFor(k, p[1], p[2])'
    BY <2>1, <2>2, <1>1
  <2> QED BY <2>2, <2>3
<1>3. ASSUME NEW j \in DOMAIN list, Covered(j) PROVE Covered(j)'
  <2>1. CASE outcome[j] # "duplicate_row"
    BY <2>1 DEF Covered
  <2>2. CASE outcome[j] = "duplicate_row"
    <3>1. PICK k \in DOMAIN list : chanOf[j] # NoChannel /\ StandsFor(k, chanOf[j], Msg(j))
      BY <1>3, <2>2 DEF Covered
    <3>2. chanOf[j] \in Channels /\ chanOf'[j] = chanOf[j] /\ Msg(j)' = Msg(j)
      BY <3>1 DEF TypeOK, Msg
    <3>3. chanOf'[k] = chanOf[j] /\ Msg(k)' = Msg(j) /\ outcome'[k] # "duplicate_row"
      BY <3>1, <3>2 DEF StandsFor, Msg
    <3> QED BY <3>1, <3>2, <3>3 DEF Covered, StandsFor
  <2> QED BY <2>1, <2>2
<1>4. ASSUME NEW i \in DOMAIN list'
      PROVE  \E j \in DOMAIN list' :
                list'[j].addr = list'[i].addr /\ Msg(j)' = Msg(i)' /\ Covered(j)'
  <2>1. PICK j \in DOMAIN list :
            list[j].addr = list[i].addr /\ Msg(j) = Msg(i) /\ Covered(j)
    BY DEF Duplicates
  <2> QED BY <2>1, <1>3 DEF Msg
<1> QED BY <1>2, <1>4 DEF Duplicates

(* A list is classified so that no row is lost: what is set aside repeats a *)
(* line, or names what the first row of the same channel names.             *)
LEMMA ClassifiedLosesNone ==
    ASSUME TypeOK, NEW l \in Lists, NEW x \in SUBSET collected, Started(l, x), claimed' = {}
    PROVE  Duplicates'
<1>1. /\ DOMAIN l \subseteq Nat
      /\ \A i \in DOMAIN l : /\ l[i].addr \in Channels \cup Handles
                            /\ \A j \in 1..(i - 1) : j \in DOMAIN l
  BY RowsAreLines
<1>2. list' = l /\ (\A i \in DOMAIN l : Msg(i)' = l[i].msg)
  BY DEF Started, Msg
<1>3. \A i \in DOMAIN l : 
         /\ outcome'[i] = "duplicate_row" => Verbatim(l, i) \/ Repeats(l, i)
         /\ ~Verbatim(l, i) => chanOf'[i] = StoredChannel(l[i].addr)
  BY DEF Started, Classified
<1>4. \A i, j \in DOMAIN l : j < i => j \in 1..(i - 1)
  <2>1. ASSUME NEW j \in DOMAIN l PROVE j >= 1
    <3>1. DOMAIN l = 1..Len(l)
      BY ListAssumption
    <3> QED BY <3>1
  <2> QED BY <1>1, <2>1
<1>5. ASSUME NEW i \in DOMAIN l
      PROVE  \E j \in DOMAIN l : /\ l[j].addr = l[i].addr /\ l[j].msg = l[i].msg
                                /\ ~Verbatim(l, j)
  <2> DEFINE S == {j \in DOMAIN l : l[j].addr = l[i].addr /\ l[j].msg = l[i].msg}
  <2>1. S \in SUBSET Nat /\ i \in S
    BY <1>1
  <2>2. PICK j \in S : \A k \in S : j <= k
    <3> HIDE DEF S
    <3> QED BY <2>1, LeastMember
  <2>3. ASSUME Verbatim(l, j) PROVE FALSE
    <3>1. PICK k \in 1..(j - 1) : l[k].msg = l[j].msg /\ l[k].addr = l[j].addr
      BY <2>3 DEF Verbatim
    <3>2. k \in S
      BY <1>1, <2>2, <3>1
    <3>3. j \in Nat /\ k < j /\ k \in Nat
      BY <2>1, <2>2, <3>1
    <3> QED BY <2>2, <3>2, <3>3
  <2> QED BY <2>2, <2>3
<1>6. ASSUME NEW j \in DOMAIN l, Repeats(l, j)
      PROVE  \E k \in DOMAIN l : /\ StoredChannel(l[k].addr) = StoredChannel(l[j].addr)
                                /\ l[k].msg = l[j].msg
                                /\ ~Verbatim(l, k) /\ ~Repeats(l, k)
  <2> DEFINE S == {k \in DOMAIN l : /\ StoredChannel(l[k].addr) = StoredChannel(l[j].addr)
                                    /\ l[k].msg = l[j].msg}
  <2>1. S \in SUBSET Nat /\ j \in S
    BY <1>1
  <2>2. PICK k \in S : \A n \in S : k <= n
    <3> HIDE DEF S
    <3> QED BY <2>1, LeastMember
  <2>3. ASSUME NEW n \in 1..(k - 1), l[n].msg = l[k].msg,
               StoredChannel(l[n].addr) = StoredChannel(l[k].addr)
        PROVE  FALSE
    <3>1. n \in S
      BY <1>1, <2>2, <2>3
    <3>2. k \in Nat /\ n < k /\ n \in Nat
      BY <2>1, <2>2
    <3> QED BY <2>2, <3>1, <3>2
  <2>4. ~Verbatim(l, k) /\ ~Repeats(l, k)
    BY <2>3 DEF Verbatim, Repeats
  <2> QED BY <2>2, <2>4
<1>7. ASSUME NEW j \in DOMAIN l, ~Verbatim(l, j) PROVE Covered(j)'
  <2>1. CASE outcome'[j] # "duplicate_row"
    BY <2>1 DEF Covered
  <2>2. CASE outcome'[j] = "duplicate_row"
    <3>1. Repeats(l, j)
      BY <1>3, <1>7, <2>2
    <3>2. PICK k \in DOMAIN l : /\ StoredChannel(l[k].addr) = StoredChannel(l[j].addr)
                               /\ l[k].msg = l[j].msg
                               /\ ~Verbatim(l, k) /\ ~Repeats(l, k)
      BY <1>6, <3>1
    <3>3. outcome'[k] # "duplicate_row" /\ chanOf'[k] = chanOf'[j]
      BY <1>3, <1>7, <3>2
    <3>4. chanOf'[j] # NoChannel
      BY <1>3, <1>7, <3>1 DEF Repeats
    <3>5. StandsFor(k, chanOf[j], Msg(j))'
      BY <1>2, <3>2, <3>3 DEF StandsFor
    <3> QED BY <1>2, <3>4, <3>5 DEF Covered
  <2> QED BY <2>1, <2>2
<1>8. \A i \in DOMAIN list' : \E j \in DOMAIN list' :
         list'[j].addr = list'[i].addr /\ Msg(j)' = Msg(i)' /\ Covered(j)'
  <2>1. ASSUME NEW i \in DOMAIN l
        PROVE  \E j \in DOMAIN l : l[j].addr = l[i].addr /\ Msg(j)' = Msg(i)' /\ Covered(j)'
    BY <1>2, <1>5, <1>7
  <2> QED BY <1>2, <2>1
<1> QED BY <1>8 DEF Duplicates

(* A claim finds a row that stands for every message it sets rows aside for. *)
LEMMA ClaimLosesNone ==
    ASSUME TypeOK, Phased, Addressed, Pending, Duplicates, Claim
    PROVE  Duplicates'
<1>1. PICK again \in SUBSET mine : Claimed(again)
  BY ClaimsOnce
<1>2. /\ UNCHANGED <<list, chanOf, segs>>
      /\ claimed' = claimed \cup {<<cid, Msg(i)>> : i \in mine}
      /\ mine' = mine \ again /\ again = {i \in mine : Taken(i)}
  BY <1>1 DEF Claimed, input, Advance
<1>3. /\ pc = "judge" /\ (mine' # {} => pc' = "posts") /\ cid \in Channels
  BY <1>1 DEF Claim, Judged, Claimed, Advance, Reset, Addressed, TypeOK
<1>4. \A i \in DOMAIN list :
         outcome'[i] = IF i \in again THEN "duplicate_row" ELSE outcome[i]
  BY <1>1 DEF Claimed, TypeOK
<1>5. mine \subseteq DOMAIN list /\ mine \in SUBSET Nat
  BY RowsAreLines DEF TypeOK
<1>6. \A i \in mine : /\ chanOf[i] = cid /\ outcome[i] = "not_attempted"
                     /\ \A s \in segs : i \notin s.rows
  BY RowsAnswer DEF Pending
<1> DEFINE Owner1(k, c, m) == /\ chanOf[k] = c /\ Msg(k) = m /\ outcome'[k] # "duplicate_row"
                              /\ PastClaim(k)'
<1>7. ASSUME NEW p \in claimed PROVE \E k \in DOMAIN list : Owner1(k, p[1], p[2])
  <2>1. PICK k \in DOMAIN list : StandsFor(k, p[1], p[2]) /\ PastClaim(k)
    BY DEF Duplicates
  <2>2. k \notin mine
    BY <1>3, <2>1 DEF PastClaim
  <2>3. outcome'[k] = outcome[k] /\ PastClaim(k)'
    BY <1>2, <1>4, <2>1, <2>2 DEF PastClaim
  <2> QED BY <2>1, <2>3 DEF StandsFor
<1>8. ASSUME NEW i \in mine PROVE \E k \in DOMAIN list : Owner1(k, cid, Msg(i))
  <2>1. CASE <<cid, Msg(i)>> \in claimed
    <3>1. <<cid, Msg(i)>>[1] = cid /\ <<cid, Msg(i)>>[2] = Msg(i)
      OBVIOUS
    <3> HIDE DEF Owner1
    <3> QED BY <1>7, <2>1, <3>1
  <2>2. CASE <<cid, Msg(i)>> \notin claimed
    <3> DEFINE S == {j \in mine : Msg(j) = Msg(i)}
    <3>1. S \in SUBSET Nat /\ i \in S
      BY <1>5
    <3>2. PICK k \in S : \A j \in S : k <= j
      <4> HIDE DEF S
      <4> QED BY <3>1, LeastMember
    <3>3. ASSUME NEW j \in mine, j < k, Msg(j) = Msg(k) PROVE FALSE
      <4>1. j \in S /\ j \in Nat /\ k \in Nat
        BY <1>5, <3>2, <3>3
      <4> QED BY <3>2, <3>3, <4>1
    <3>4. ~Taken(k) /\ k \in mine
      BY <2>2, <3>2, <3>3 DEF Taken
    <3>5. k \notin again /\ k \in mine' /\ pc' = "posts"
      BY <1>2, <1>3, <3>4
    <3>6. chanOf[k] = cid /\ Msg(k) = Msg(i) /\ outcome'[k] # "duplicate_row"
          /\ \A s \in segs : k \notin s.rows
      BY <1>4, <1>5, <1>6, <3>2, <3>4, <3>5
    <3>7. PastClaim(k)'
      BY <1>2, <3>5, <3>6 DEF PastClaim
    <3>8. Owner1(k, cid, Msg(i))
      BY <3>6, <3>7
    <3> HIDE DEF Owner1
    <3> QED BY <1>5, <3>4, <3>8
  <2> QED BY <2>1, <2>2
<1>9. ASSUME NEW p \in claimed' PROVE \E k \in DOMAIN list : Owner1(k, p[1], p[2])
  <2>1. CASE p \in claimed
    <3> HIDE DEF Owner1
    <3> QED BY <1>7, <2>1
  <2>2. CASE p \notin claimed
    <3>1. PICK i \in mine : p = <<cid, Msg(i)>>
      BY <1>2, <2>2
    <3>2. p[1] = cid /\ p[2] = Msg(i)
      BY <3>1
    <3> HIDE DEF Owner1
    <3> QED BY <1>8, <3>2
  <2> QED BY <2>1, <2>2
<1>10. ASSUME NEW j \in DOMAIN list, Covered(j) PROVE Covered(j)'
  <2>1. CASE j \in again
    <3>1. PICK k \in DOMAIN list : Owner1(k, cid, Msg(j))
      <4> HIDE DEF Owner1
      <4> QED BY <1>8, <2>1
    <3>2. chanOf[j] = cid /\ cid # NoChannel
      BY <1>3, <1>6, <2>1, ListAssumption
    <3> QED BY <1>2, <3>1, <3>2 DEF Covered, StandsFor, Msg
  <2>2. CASE j \notin again /\ outcome[j] # "duplicate_row"
    BY <1>4, <2>2 DEF Covered
  <2>3. CASE j \notin again /\ outcome[j] = "duplicate_row"
    <3>1. PICK k \in DOMAIN list : chanOf[j] # NoChannel /\ StandsFor(k, chanOf[j], Msg(j))
      BY <1>10, <2>3 DEF Covered
    <3>2. CASE k \in again
      <4>1. PICK n \in DOMAIN list : Owner1(n, cid, Msg(k))
        <5> HIDE DEF Owner1
        <5> QED BY <1>8, <3>2
      <4>2. chanOf[n] = chanOf[j] /\ Msg(n) = Msg(j) /\ outcome'[n] # "duplicate_row"
        BY <1>6, <3>1, <3>2, <4>1 DEF StandsFor
      <4> QED BY <1>2, <3>1, <4>2 DEF Covered, StandsFor, Msg
    <3>3. CASE k \notin again
      BY <1>2, <1>4, <3>1, <3>3 DEF Covered, StandsFor, Msg
    <3> QED BY <3>2, <3>3
  <2> QED BY <2>1, <2>2, <2>3
<1>11. ASSUME NEW i \in DOMAIN list'
       PROVE  \E j \in DOMAIN list' :
                 list'[j].addr = list'[i].addr /\ Msg(j)' = Msg(i)' /\ Covered(j)'
  <2>1. PICK j \in DOMAIN list :
            list[j].addr = list[i].addr /\ Msg(j) = Msg(i) /\ Covered(j)
    BY <1>2 DEF Duplicates
  <2> QED BY <1>2, <1>10, <2>1 DEF Msg
<1>12. ASSUME NEW p \in claimed'
       PROVE  \E k \in DOMAIN list' : StandsFor(k, p[1], p[2])' /\ PastClaim(k)'
  <2>1. PICK k \in DOMAIN list : Owner1(k, p[1], p[2])
    <3> HIDE DEF Owner1
    <3> QED BY <1>9
  <2> QED BY <1>2, <2>1 DEF StandsFor, Msg
<1> QED BY <1>11, <1>12 DEF Duplicates

(* No message falls between two rows.                                       *)
LEMMA DuplicatesHold ==
    ASSUME IInv, [Next]_vars
    PROVE  Duplicates'
<1> USE DEF IInv, vars, disk, known, input, report, memory, work, ghost
<1>1. CASE UNCHANGED vars
  BY <1>1 DEF Duplicates, Covered, StandsFor, PastClaim, Msg
<1>2. CASE StartCommand
  <2>1. PICK l \in Lists, x \in SUBSET collected : Started(l, x)
    BY <1>2, StartsOne
  <2>2. claimed' = {}
    BY <1>2 DEF StartCommand
  <2> QED BY <2>1, <2>2, ClassifiedLosesNone
<1>3. CASE BeginSegment
  <2>1. PICK s \in segs : Begun(s)
    BY <1>3, BeginsOne
  <2>2. UNCHANGED <<list, claimed>> /\ segs' = segs \ {s} /\ mine = {}
    BY <1>3, <2>1 DEF BeginSegment, Begun, Phased, Idle
  <2>3. mine' = {} \/ mine' = s.rows
    BY <2>1, <2>2 DEF Begun
  <2>4. \A k \in DOMAIN list : outcome[k] # "duplicate_row" => outcome'[k] # "duplicate_row"
    BY <2>1 DEF Begun, NoAccess, TypeOK
  <2>5. \A i \in s.rows : chanOf[i] = IF s.addr \in Channels THEN s.addr ELSE NoChannel
    BY DEF Addressed
  <2>6. \A k \in DOMAIN list : chanOf[k] # NoChannel => chanOf'[k] = chanOf[k]
    BY <2>1, <2>5 DEF Begun, Adopted, TypeOK
  <2> QED BY <2>2, <2>3, <2>4, <2>6, DuplicatesStay DEF PastClaim
<1>4. CASE Finish
  <2>1. UNCHANGED <<list, claimed, outcome, chanOf, segs, mine>>
        /\ pc' \notin {"access", "judge"}
    BY <1>4 DEF Finish
  <2> QED BY <2>1, DuplicatesStay DEF PastClaim
<1>5. CASE Establish
  <2>1. PICK c \in Channels : Established(c)
    BY <1>5, EstablishesOne
  <2>2. UNCHANGED <<list, claimed, outcome, segs, mine>> /\ pc = "access"
    BY <2>1 DEF Established
  <2>3. \A i \in mine : chanOf[i] \in {c, NoChannel}
    BY <2>1, RowsAnswer DEF Established
  <2>4. \A k \in DOMAIN list : chanOf[k] # NoChannel => chanOf'[k] = chanOf[k]
    BY <2>1, <2>3 DEF Established, Adopted, TypeOK
  <2> QED BY <2>2, <2>4, DuplicatesStay DEF PastClaim
<1>6. CASE RouteRefused
  <2>1. UNCHANGED <<list, claimed, chanOf, segs>>
        /\ (mine' = {} \/ UNCHANGED <<mine, pc>>)
    BY <1>6 DEF RouteRefused, Advance, Reset
  <2>2. \A k \in DOMAIN list : outcome[k] # "duplicate_row" => outcome'[k] # "duplicate_row"
    BY <1>6 DEF RouteRefused, NoAccess, TypeOK
  <2> QED BY <2>1, <2>2, DuplicatesStay DEF PastClaim
<1>7. CASE AccessStops
  <2>1. UNCHANGED <<list, claimed, chanOf, outcome>> /\ mine' = {} /\ segs' = {}
    BY <1>7 DEF AccessStops, End, Reset
  <2> QED BY <2>1, DuplicatesStay DEF PastClaim
<1>8. CASE DeadChannel
  <2>1. UNCHANGED <<list, claimed, chanOf, segs>> /\ mine' = {}
    BY <1>8 DEF DeadChannel, Advance, Reset
  <2>2. \A k \in DOMAIN list : outcome[k] # "duplicate_row" => outcome'[k] # "duplicate_row"
    BY <1>8 DEF DeadChannel, NoAccess, TypeOK
  <2> QED BY <2>1, <2>2, DuplicatesStay DEF PastClaim
<1>9. CASE ExcludedChannel
  <2>1. UNCHANGED <<list, claimed, chanOf, segs>> /\ mine' = {}
    BY <1>9 DEF ExcludedChannel, Advance, Reset
  <2>2. \A k \in DOMAIN list : outcome[k] # "duplicate_row" => outcome'[k] # "duplicate_row"
    BY <1>9 DEF ExcludedChannel, NoAccess, TypeOK
  <2> QED BY <2>1, <2>2, DuplicatesStay DEF PastClaim
<1>10. CASE EnterChannel
  <2>1. UNCHANGED <<list, claimed, outcome, chanOf, segs, mine>> /\ pc = "judge"
    BY <1>10 DEF EnterChannel, Judged
  <2> QED BY <2>1, DuplicatesStay DEF PastClaim
<1>11. CASE Claim
  BY <1>11, ClaimLosesNone
<1>12. CASE GetMessages
  <2>1. UNCHANGED <<list, claimed, outcome, chanOf, segs, mine>>
        /\ pc' \notin {"access", "judge"}
    BY <1>12 DEF GetMessages
  <2> QED BY <2>1, DuplicatesStay DEF PastClaim
<1>13. CASE PostsFail(TRUE)
  <2>1. UNCHANGED <<list, claimed, outcome, chanOf, segs, mine>>
        /\ pc' \notin {"access", "judge"}
    BY <1>13 DEF PostsFail
  <2> QED BY <2>1, DuplicatesStay DEF PastClaim
<1>14. CASE PostsFail(FALSE)
  <2>1. UNCHANGED <<list, claimed, outcome, chanOf, segs, mine>>
        /\ pc' \notin {"access", "judge"}
    BY <1>14 DEF PostsFail
  <2> QED BY <2>1, DuplicatesStay DEF PastClaim
<1>15. CASE Refresh
  <2>1. UNCHANGED <<list, claimed, outcome, chanOf, segs, mine>>
        /\ pc' \notin {"access", "judge"}
    BY <1>15 DEF Refresh
  <2> QED BY <2>1, DuplicatesStay DEF PastClaim
<1>16. CASE RefreshFails
  <2>1. UNCHANGED <<list, claimed, outcome, chanOf, segs, mine>>
        /\ pc' \notin {"access", "judge"}
    BY <1>16 DEF RefreshFails
  <2> QED BY <2>1, DuplicatesStay DEF PastClaim
<1>17. CASE WalkMedia
  <2>1. UNCHANGED <<list, claimed, outcome, chanOf, segs, mine>>
        /\ pc' \notin {"access", "judge"}
    BY <1>17 DEF WalkMedia
  <2> QED BY <2>1, DuplicatesStay DEF PastClaim
<1>18. CASE MediaStops
  <2>1. UNCHANGED <<list, claimed, outcome, chanOf, segs, mine>>
        /\ pc' \notin {"access", "judge"}
    BY <1>18 DEF MediaStops
  <2> QED BY <2>1, DuplicatesStay DEF PastClaim
<1>19. CASE Settle
  <2>1. UNCHANGED <<list, claimed, chanOf>> /\ mine' = {} /\ segs' \subseteq segs
    BY <1>19 DEF Settle, Advance, End, Reset
  <2>2. \A i \in mine : Final(i) # "duplicate_row"
    BY FinalIsLate
  <2>3. \A k \in DOMAIN list : outcome[k] # "duplicate_row" => outcome'[k] # "duplicate_row"
    BY <1>19, <2>2 DEF Settle, NoAccess, TypeOK
  <2> QED BY <2>1, <2>3, DuplicatesStay DEF PastClaim
<1> QED BY <1>1, <1>2, <1>3, <1>4, <1>5, <1>6, <1>7, <1>8, <1>9, <1>10,
           <1>11, <1>12, <1>13, <1>14, <1>15, <1>16, <1>17, <1>18, <1>19 DEF Next

-----------------------------------------------------------------------------
LEMMA InitHolds == Init => IInv
<1> SUFFICES ASSUME Init PROVE IInv
  OBVIOUS
<1>1. TypeOK
  BY InitTypes
<1>2. /\ list = <<>> /\ DOMAIN list = {} /\ segs = {} /\ mine = {} /\ claimed = {}
      /\ asked = {} /\ dead = {} /\ spec = {} /\ excluded = {} /\ toAsk = {} /\ toWalk = {}
      /\ held = {} /\ refused = FALSE /\ pc = "done" /\ addr = NoChannel
      /\ \A m \in Msgs : answered[m] = "none" /\ media[m] = "none"
      /\ \A c \in Channels : contexts[c] = NoChannel
  BY DEF Init, Idle, Blank
<1>3. Phased
  BY DEF Init, Phased
<1>4. Addressed /\ Pending /\ Refused /\ Reported /\ Duplicates
  BY <1>2, ListAssumption DEF Addressed, Pending, Refused, Reported, Duplicates
<1>5. Linked /\ OnlyTheRightChannel
  BY <1>2 DEF Linked, OnlyTheRightChannel, Init
<1>6. Asked /\ Walked
  BY <1>2, NothingAnswered DEF Asked, Walked
<1> QED BY <1>1, <1>3, <1>4, <1>5, <1>6 DEF IInv

LEMMA InvHolds == Spec => []IInv
<1>1. IInv /\ [Next]_vars => IInv'
  <2> SUFFICES ASSUME IInv, [Next]_vars PROVE IInv'
    OBVIOUS
  <2> QED BY TypesHold, PhasedHolds, AddressedHolds, PendingHolds, LinkedHolds,
             RefusedHolds, RightChannelHolds, AskedHolds, WalkedHolds, ReportedHolds,
             DuplicatesHold DEF IInv
<1> QED BY <1>1, InitHolds, PTL DEF Spec

(* Every variable keeps its type: in particular a segment in hand has an    *)
(* address, a channel under its own id once one is established, and the     *)
(* files held are its own rows'.                                            *)
THEOREM ListTypeCorrect == Spec => []TypeOK
<1>1. IInv => TypeOK
  BY DEF IInv
<1> QED BY <1>1, InvHolds, PTL

(* "Exclusion is fail-closed" and one-way (docs/features/fetch-from-list.md): *)
(* whatever the links, the handles that changed hands and the order of the  *)
(* rows, nothing is asked of an excluded channel or of the group of one, no *)
(* other row is reported excluded, and no channel is read under another's id. *)
THEOREM RightChannelOnly == Spec => []OnlyTheRightChannel
<1>1. IInv => OnlyTheRightChannel
  BY DEF IInv
<1> QED BY <1>1, InvHolds, PTL

(* A command that nobody stopped has settled every row of its list, and     *)
(* whoever is told of no access was refused in this command, by Telegram,   *)
(* for want of a route, or because a handle leads elsewhere now.            *)
THEOREM EveryRowSettles == Spec => []EveryRowIsSettled
<1>1. IInv => EveryRowIsSettled
  <2> SUFFICES ASSUME IInv PROVE EveryRowIsSettled
    OBVIOUS
  <2>1. pc = "done" => segs = {} /\ mine = {}
    BY DEF IInv, Phased, Idle
  <2>2. \A i \in DOMAIN list : outcome[i] = "no_access" =>
           {list[i].addr, chanOf[i]} \cap refusals # {}
    BY DEF IInv, Refused
  <2> QED BY <2>1, <2>2 DEF IInv, Pending, EveryRowIsSettled
<1> QED BY <1>1, InvHolds, PTL

(* What the report says of a row is so: its own file, as Telegram named it  *)
(* in this command, is in the store when the row is said to be downloaded,  *)
(* a duplicate or already stored, with the row's custody unless only another *)
(* channel has the file or the media run was cut short; "no media" and      *)
(* "deleted" are what Telegram answered; and a row set aside as a duplicate *)
(* leads to one that was not.                                               *)
THEOREM ReportStaysTrue == Spec => []ReportIsTrue
<1>1. IInv => ReportIsTrue
  <2> SUFFICES ASSUME IInv PROVE ReportIsTrue
    OBVIOUS
  <2>1. ASSUME NEW i \in DOMAIN list, outcome[i] = "duplicate_row"
        PROVE  \E j, k \in DOMAIN list :
                  Names(i, j) /\ Names(j, k) /\ outcome[k] # "duplicate_row"
    <3>1. PICK j \in DOMAIN list :
              list[j].addr = list[i].addr /\ Msg(j) = Msg(i) /\ Covered(j)
      BY DEF IInv, Duplicates
    <3>2. Names(i, j)
      BY <3>1 DEF Names
    <3>3. CASE outcome[j] # "duplicate_row"
      BY <3>2, <3>3 DEF Names
    <3>4. CASE outcome[j] = "duplicate_row"
      <4>1. PICK k \in DOMAIN list : chanOf[j] # NoChannel /\ StandsFor(k, chanOf[j], Msg(j))
        BY <3>1, <3>4 DEF Covered
      <4>2. Names(j, k) /\ outcome[k] # "duplicate_row"
        BY <4>1 DEF StandsFor, Names
      <4> QED BY <3>2, <4>2
    <3> QED BY <3>3, <3>4
  <2> QED BY <2>1 DEF IInv, Reported, ReportIsTrue
<1> QED BY <1>1, InvHolds, PTL

(* What has been said of a row stands.                                      *)
Stands ==
    \A i \in DOMAIN list :
        /\ outcome[i] # "not_attempted" => outcome'[i] = outcome[i] /\ post'[i] = post[i]
        /\ chanOf[i] # NoChannel => chanOf'[i] = chanOf[i]

LEMMA DecisionsStand ==
    ASSUME IInv, [Next]_vars, pc # "done"
    PROVE  Stands
<1> USE DEF IInv, vars, disk, known, input, report, memory, work, ghost
<1>1. CASE UNCHANGED vars
  BY <1>1 DEF Stands
<1>2. CASE StartCommand
  BY <1>2 DEF StartCommand
<1>3. CASE BeginSegment
  <2>1. PICK s \in segs : Begun(s)
    BY <1>3, BeginsOne
  <2>2. /\ UNCHANGED post
        /\ \A i \in s.rows :
              /\ outcome[i] = "not_attempted"
              /\ chanOf[i] = IF s.addr \in Channels THEN s.addr ELSE NoChannel
    BY <1>3 DEF BeginSegment, Pending, Addressed
  <2>3. \A i \in DOMAIN list : outcome[i] # "not_attempted" => outcome'[i] = outcome[i]
    BY <2>1, <2>2 DEF Begun, NoAccess, TypeOK
  <2>4. \A i \in DOMAIN list : chanOf[i] # NoChannel => chanOf'[i] = chanOf[i]
    BY <2>1, <2>2 DEF Begun, Adopted, TypeOK
  <2> QED BY <2>2, <2>3, <2>4 DEF Stands
<1>4. CASE Establish
  <2>1. PICK c \in Channels : Established(c)
    BY <1>4, EstablishesOne
  <2>2. \A i \in mine : chanOf[i] \in {c, NoChannel}
    BY <2>1, RowsAnswer DEF Established
  <2>3. \A k \in DOMAIN list : chanOf[k] # NoChannel => chanOf'[k] = chanOf[k]
    BY <2>1, <2>2 DEF Established, Adopted, TypeOK
  <2> QED BY <2>1, <2>3 DEF Established, Stands
<1>5. CASE RouteRefused
  BY <1>5 DEF RouteRefused, NoAccess, TypeOK, Stands
<1>6. CASE DeadChannel
  BY <1>6 DEF DeadChannel, NoAccess, TypeOK, Stands
<1>7. CASE ExcludedChannel
  BY <1>7 DEF ExcludedChannel, TypeOK, Stands
<1>8. CASE Claim
  <2>1. PICK again \in SUBSET mine : Claimed(again)
    BY <1>8, ClaimsOnce
  <2> QED BY <2>1 DEF Claimed, Pending, TypeOK, Stands
<1>9. CASE Settle
  <2>1. \A i \in mine : outcome[i] = "not_attempted"
    BY DEF Pending
  <2>2. UNCHANGED chanOf
    BY <1>9 DEF Settle
  <2>3. \A i \in DOMAIN list : i \notin mine => outcome'[i] = outcome[i]
    BY <1>9 DEF Settle, NoAccess, TypeOK
  <2>4. \A i \in DOMAIN list : i \notin mine => post'[i] = post[i]
    BY <1>9 DEF Settle, TypeOK
  <2> QED BY <2>1, <2>2, <2>3, <2>4 DEF Stands
<1>10. CASE \/ Finish \/ AccessStops \/ EnterChannel \/ GetMessages
            \/ PostsFail(TRUE) \/ PostsFail(FALSE)
            \/ Refresh \/ RefreshFails \/ WalkMedia \/ MediaStops
  <2>1. UNCHANGED report
    BY <1>10 DEF Finish, AccessStops, EnterChannel, GetMessages, PostsFail, Refresh,
                 RefreshFails, WalkMedia, MediaStops
  <2> QED BY <2>1 DEF Stands
<1> QED BY <1>1, <1>2, <1>3, <1>4, <1>5, <1>6, <1>7, <1>8, <1>9, <1>10 DEF Next

(* No message is asked for twice in one command, under whatever addresses   *)
(* its list names it; only a file that no channel's sighting holds is       *)
(* streamed; and what has been said of a row is not taken back.             *)
THEOREM NothingIsDoneTwice == Spec => NothingIsRedone
<1>1. IInv /\ [Next]_vars =>
         [/\ GetMessages => \A m \in batch : <<cid, m>> \notin asked
          /\ WalkMedia => \/ Sighted(cid, answered[walk])
                          \/ ~HeldFile(answered[walk])
          /\ pc # "done" => \A i \in DOMAIN list :
                /\ outcome[i] # "not_attempted" =>
                      outcome'[i] = outcome[i] /\ post'[i] = post[i]
                /\ chanOf[i] # NoChannel => chanOf'[i] = chanOf[i]]_vars
  <2> SUFFICES ASSUME IInv, [Next]_vars
               PROVE  /\ GetMessages => \A m \in batch : <<cid, m>> \notin asked
                      /\ WalkMedia => New(answered[walk])
                      /\ pc # "done" => Stands
    BY DEF New, Stands
  <2>1. \A m \in batch : <<cid, m>> \notin asked
    BY BatchIsAsked DEF IInv, Asked
  <2>2. ASSUME WalkMedia PROVE New(answered[walk])
    <3>1. walk \in toWalk
      BY <2>2, WalkIsSelected DEF IInv, Phased, WalkMedia
    <3> QED BY <3>1 DEF IInv, Walked
  <2> QED BY <2>1, <2>2, DecisionsStand
<1> QED BY <1>1, InvHolds, PTL DEF Spec, NothingIsRedone
=============================================================================
