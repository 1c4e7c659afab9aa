-------------------------- MODULE MigrationsProofs --------------------------
(***************************************************************************)
(* Theorems about Migrations, for any number of kills: its types, and that *)
(* schema_migrations never claims a script whose effects are missing.      *)
(***************************************************************************)
EXTENDS Migrations, TLAPS

(* There are eight scripts, each a nonempty sequence of statements: all that *)
(* the proofs use of what they say.                                         *)
LEMMA ScriptsAreSequences ==
    /\ Names = 1..8 /\ Len(Scripts) = 8
    /\ \A n \in Names : /\ Len(Scripts[n]) \in Nat \ {0}
                        /\ DOMAIN Scripts[n] = 1..Len(Scripts[n])
<1>1. Names = 1..8 /\ Len(Scripts) = 8
  BY DEF Names, Scripts
<1>2. /\ Len(Scripts[1]) = 3 /\ DOMAIN Scripts[1] = 1..3
      /\ Len(Scripts[2]) = 2 /\ DOMAIN Scripts[2] = 1..2
      /\ Len(Scripts[3]) = 2 /\ DOMAIN Scripts[3] = 1..2
  BY DEF Scripts
<1>3. /\ Len(Scripts[4]) = 2 /\ DOMAIN Scripts[4] = 1..2
      /\ Len(Scripts[5]) = 1 /\ DOMAIN Scripts[5] = 1..1
      /\ Len(Scripts[6]) = 2 /\ DOMAIN Scripts[6] = 1..2
      /\ Len(Scripts[7]) = 1 /\ DOMAIN Scripts[7] = 1..1
  BY DEF Scripts
<1>4. Len(Scripts[8]) = 8 /\ DOMAIN Scripts[8] = 1..8
  BY DEF Scripts
<1>5. ASSUME NEW n \in Names
      PROVE  n = 1 \/ n = 2 \/ n = 3 \/ n = 4 \/ n = 5 \/ n = 6 \/ n = 7 \/ n = 8
  BY <1>1
<1>6. ASSUME NEW n \in Names
      PROVE  Len(Scripts[n]) \in Nat \ {0} /\ DOMAIN Scripts[n] = 1..Len(Scripts[n])
  <2>1. CASE n = 1
    BY <2>1, <1>2
  <2>2. CASE n = 2
    BY <2>2, <1>2
  <2>3. CASE n = 3
    BY <2>3, <1>2
  <2>4. CASE n = 4
    BY <2>4, <1>3
  <2>5. CASE n = 5
    BY <2>5, <1>3
  <2>6. CASE n = 6
    BY <2>6, <1>3
  <2>7. CASE n = 7
    BY <2>7, <1>3
  <2>8. CASE n = 8
    BY <2>8, <1>4
  <2> QED BY <1>5, <2>1, <2>2, <2>3, <2>4, <2>5, <2>6, <2>7, <2>8
<1> QED BY <1>1, <1>6

(* The loop takes the least pending script.                                 *)
LEMMA LeastPending ==
    ASSUME NEW S, S \subseteq Names, S # {}
    PROVE  \E n \in S : \A m \in S : n <= m
<1> DEFINE Least(n) == n \in S /\ \A m \in S : n <= m
<1>1. S \subseteq 1..8
  BY ScriptsAreSequences
<1>2. CASE 1 \in S \/ 2 \in S \/ 3 \in S \/ 4 \in S
  <2>1. Least(1) \/ Least(2) \/ Least(3) \/ Least(4)
    BY <1>1, <1>2
  <2> QED BY <2>1
<1>3. CASE S \subseteq 5..8
  <2>1. 5 \in S \/ 6 \in S \/ 7 \in S \/ 8 \in S
    <3>1. PICK n \in S : TRUE
      OBVIOUS
    <3> QED BY <1>3, <3>1
  <2>2. Least(5) \/ Least(6) \/ Least(7) \/ Least(8)
    BY <1>3, <2>1
  <2> QED BY <2>2
<1>4. (1 \in S \/ 2 \in S \/ 3 \in S \/ 4 \in S) \/ S \subseteq 5..8
  BY <1>1
<1> QED BY <1>2, <1>3, <1>4

(* What one more statement adds to what a script has executed, and what the *)
(* last one makes of it.                                                    *)
LEMMA ExecutedGrows ==
    ASSUME NEW n \in Names, NEW i \in DOMAIN Scripts[n]
    PROVE  Executed(n, i + 1) \subseteq
              Executed(n, i) \cup (IF Scripts[n][i].kind \in {"create", "column", "update"}
                                    THEN {Scripts[n][i].on} ELSE {})
<1>1. DOMAIN Scripts[n] \subseteq Nat
  <2>1. DOMAIN Scripts[n] = 1..Len(Scripts[n]) /\ Len(Scripts[n]) \in Nat
    BY ScriptsAreSequences
  <2> QED BY <2>1
<1> QED BY <1>1 DEF Executed

LEMMA ExecutedAll ==
    ASSUME NEW n \in Names
    PROVE  /\ Executed(n, 1) = {}
           /\ Executed(n, Len(Scripts[n]) + 1) = Effects(n)
<1> /\ DOMAIN Scripts[n] = 1..Len(Scripts[n]) /\ Len(Scripts[n]) \in Nat
  BY ScriptsAreSequences
<1>1. Executed(n, 1) = {}
  BY DEF Executed
<1>2. {k \in DOMAIN Scripts[n] : k < Len(Scripts[n]) + 1 /\
                       Scripts[n][k].kind \in {"create", "column", "update"}}
         = {k \in DOMAIN Scripts[n] : Scripts[n][k].kind \in {"create", "column", "update"}}
  OBVIOUS
<1>3. Executed(n, Len(Scripts[n]) + 1) = Effects(n)
  BY <1>2 DEF Executed, Effects
<1> QED BY <1>1, <1>3

-----------------------------------------------------------------------------
(* The strengthened invariant holds of a database any earlier release left. *)
LEMMA IInvInit == Init => IInv
<1> SUFFICES ASSUME Init PROVE IInv
  OBVIOUS
<1>1. PICK n \in 0..8 : recorded = 1..n /\ schema = UNION {Effects(m) : m \in 1..n}
  BY ScriptsAreSequences DEF Init
<1>2. 1..n \subseteq Names
  BY ScriptsAreSequences
<1>3. TypeOK
  <2>1. schema \subseteq UNION {Effects(m) : m \in Names} /\ recorded \subseteq Names
    BY <1>1, <1>2
  <2>2. Len(Scripts) = 8
    BY ScriptsAreSequences
  <2> QED BY <2>1, <2>2, MigrationAssumption DEF Init, TypeOK
<1>4. RecordsAreHonest
  BY <1>1 DEF Init, RecordsAreHonest
<1>5. Behind
  BY DEF Init, Behind
<1> QED BY <1>3, <1>4, <1>5 DEF IInv

(* Every step preserves it.                                                 *)
LEMMA IInvNext == IInv /\ [Next]_vars => IInv'
<1> SUFFICES ASSUME IInv, [Next]_vars PROVE IInv'
  OBVIOUS
<1>a. ASSUME NEW n \in Names, NEW m \in 1..(n - 1) PROVE m \in Names /\ ~(n <= m)
  <2>1. n \in 1..8
    BY ScriptsAreSequences
  <2>2. m \in 1..8 /\ ~(n <= m)
    BY <2>1
  <2> QED BY <2>2, ScriptsAreSequences
<1>b. ASSUME NEW n \in Names, NEW i \in DOMAIN Scripts[n]
      PROVE  /\ n # 0 /\ n \in 0..8 /\ Len(Scripts[n]) \in Nat
             /\ i \in Nat /\ 1 <= i /\ i <= Len(Scripts[n])
  <2>1. n \in 1..8 /\ Len(Scripts[n]) \in Nat /\ DOMAIN Scripts[n] = 1..Len(Scripts[n])
    BY ScriptsAreSequences
  <2> QED BY <2>1
<1>c. ASSUME NEW n \in Names, NEW S, 1..(n - 1) \subseteq S
      PROVE  1..n \subseteq S \cup {n}
  <2>1. n \in Nat
    BY ScriptsAreSequences
  <2> QED BY <1>c, <2>1
<1>d. /\ Names = 1..8 /\ Len(Scripts) = 8
      /\ \A n \in Names : n # 0 /\ n \in 0..8 /\ Len(Scripts[n]) \in Nat \ {0}
  <2>1. Names = 1..8 /\ Len(Scripts) = 8
    BY ScriptsAreSequences
  <2>2. \A n \in Names : Len(Scripts[n]) \in Nat \ {0}
    BY ScriptsAreSequences
  <2> QED BY <2>1, <2>2
<1> USE MigrationAssumption DEF IInv
<1>1. CASE Open
  <2> USE <1>1 DEF Open
  <2>1. TypeOK'
    BY DEF TypeOK
  <2>2. RecordsAreHonest' /\ Behind'
    BY DEF RecordsAreHonest, Behind
  <2> QED BY <2>1, <2>2
<1>2. CASE NextScript
  <2> USE <1>2 DEF NextScript
  <2>1. script \in 0..8 /\ 1..script \subseteq recorded /\ applied \subseteq recorded
        /\ recorded \subseteq Names
    BY <1>d DEF Behind, TypeOK
  <2>2. CASE \E n \in Names : Pending(n)
    <3> DEFINE S == {n \in Names : Pending(n)}
    <3>1. \E n \in S : \A m \in S : n <= m
      BY <2>2, LeastPending
    <3>2. /\ script' \in Names /\ Pending(script')
          /\ \A m \in Names : Pending(m) => script' <= m
      BY <2>2, <3>1
    <3>3. 1..(script' - 1) \subseteq recorded
      <4> SUFFICES ASSUME NEW m \in 1..(script' - 1) PROVE m \in recorded
        OBVIOUS
      <4>1. m \in Names /\ ~(script' <= m)
        BY <1>a, <3>2
      <4>2. ~Pending(m)
        BY <3>2, <4>1
      <4> QED BY <2>1, <4>1, <4>2 DEF Pending
    <3>4. at' = 1 /\ pc' = "running"
      BY <2>2
    <3>5. TypeOK'
      <4>1. script' \in 0..8 /\ script' # 0
        BY <1>d, <3>2
      <4>2. Len(Scripts[script']) \in Nat
        BY <3>2
      <4>3. at' \in 1..(IF script' = 0 THEN 1 ELSE Len(Scripts[script']) + 1)
        BY <3>4, <4>1, <4>2
      <4> QED BY <1>d, <3>4, <4>1, <4>3 DEF TypeOK
    <3>6. RecordsAreHonest'
      BY <3>4 DEF RecordsAreHonest
    <3>7. Behind'
      BY <2>1, <3>2, <3>3, <3>4, ExecutedAll DEF Behind
    <3> QED BY <3>5, <3>6, <3>7
  <2>3. CASE ~\E n \in Names : Pending(n)
    <3>1. Names \subseteq recorded
      <4> SUFFICES ASSUME NEW m \in Names PROVE m \in recorded
        OBVIOUS
      <4>1. ~Pending(m)
        BY <2>3
      <4> QED BY <1>d, <2>1, <4>1 DEF Pending
    <3>2. pc' = "ready" /\ UNCHANGED <<script, at>>
      BY <2>3
    <3>3. TypeOK'
      BY <3>2 DEF TypeOK
    <3>4. RecordsAreHonest'
      BY <2>1, <3>1, <3>2 DEF RecordsAreHonest
    <3>5. Behind'
      BY <3>2 DEF Behind
    <3> QED BY <3>3, <3>4, <3>5
  <2> QED BY <2>2, <2>3
<1>3. CASE Exec
  <2>1. script \in Names /\ at \in DOMAIN Scripts[script]
    <3>1. script \in Names /\ at <= Len(Scripts[script])
      BY <1>3 DEF Exec, Behind
    <3>2. script # 0 /\ Len(Scripts[script]) \in Nat
      BY <1>d, <3>1
    <3>3. at \in 1..(Len(Scripts[script]) + 1)
      BY <3>2 DEF TypeOK
    <3>4. at \in 1..Len(Scripts[script])
      BY <3>1, <3>2, <3>3
    <3> QED BY <3>1, <3>4
  <2>2. UNCHANGED <<recorded, applied, script, kills>> /\ pc = "running"
    BY <1>3 DEF Exec
  <2>3. script # 0 /\ script \in 0..8 /\ at \in Nat /\ at <= Len(Scripts[script])
        /\ at >= 1 /\ Len(Scripts[script]) \in Nat
    BY <1>b, <2>1
  <2>4. CASE Raises
    <3>1. pc' = "failed" /\ UNCHANGED <<schema, temp, at>>
      BY <1>3, <2>4 DEF Exec
    <3>2. TypeOK'
      BY <2>2, <3>1 DEF TypeOK
    <3>3. RecordsAreHonest' /\ Behind'
      BY <2>2, <3>1 DEF RecordsAreHonest, Behind
    <3> QED BY <3>2, <3>3
  <2>5. CASE ~Raises
    <3> DEFINE Lasting == statement.kind \in {"create", "column", "update"}
    <3>1. /\ at' = at + 1 /\ pc' = "running"
          /\ schema' = IF Lasting THEN schema \cup {statement.on} ELSE schema
      BY <1>3, <2>2, <2>5 DEF Exec
    <3>2. Lasting => statement.on \in Effects(script)
      BY <2>1 DEF Effects, statement
    <3>3. Executed(script, at + 1) \subseteq
            Executed(script, at) \cup (IF Lasting THEN {statement.on} ELSE {})
      BY <2>1, ExecutedGrows DEF statement
    <3> HIDE DEF Lasting
    <3>4. schema \subseteq schema'
      BY <3>1
    <3>5. TypeOK'
      <4>1. schema' \subseteq UNION {Effects(n) : n \in Names}
        <5>1. schema \subseteq UNION {Effects(n) : n \in Names}
          BY DEF TypeOK
        <5>2. Effects(script) \subseteq UNION {Effects(n) : n \in Names}
          BY <2>1
        <5> QED BY <3>1, <3>2, <5>1, <5>2
      <4>2. at' \in 1..(IF script' = 0 THEN 1 ELSE Len(Scripts[script']) + 1)
        BY <2>2, <2>3, <3>1
      <4> QED BY <2>2, <3>1, <4>1, <4>2 DEF TypeOK
    <3>6. RecordsAreHonest'
      BY <2>2, <3>1, <3>4 DEF RecordsAreHonest
    <3>7. Executed(script, at) \subseteq schema
      BY <2>2 DEF Behind
    <3>8. Executed(script, at + 1) \subseteq schema'
      BY <3>1, <3>3, <3>7
    <3>9. Behind'
      BY <2>2, <3>1, <3>8 DEF Behind
    <3> QED BY <3>5, <3>6, <3>9
  <2> QED BY <2>4, <2>5
<1>4. CASE Record
  <2> USE <1>4 DEF Record
  <2>1. /\ script \in Names /\ 1..(script - 1) \subseteq recorded
        /\ Effects(script) \subseteq schema
    BY ExecutedAll DEF Behind
  <2>2. 1..script \subseteq recorded'
    BY <1>c, <2>1
  <2>3. TypeOK'
    BY <2>1 DEF TypeOK
  <2>4. RecordsAreHonest'
    BY <2>1, <2>2 DEF RecordsAreHonest
  <2>5. Behind'
    BY <2>2 DEF Behind
  <2> QED BY <2>3, <2>4, <2>5
<1>5. CASE Close
  <2>1. TypeOK'
    BY <1>5 DEF Close, TypeOK
  <2>2. RecordsAreHonest' /\ Behind'
    BY <1>5 DEF Close, RecordsAreHonest, Behind
  <2> QED BY <2>1, <2>2
<1>6. CASE Kill
  <2>1. TypeOK'
    BY <1>6 DEF Kill, TypeOK
  <2>2. RecordsAreHonest' /\ Behind'
    BY <1>6 DEF Kill, RecordsAreHonest, Behind
  <2> QED BY <2>1, <2>2
<1>7. CASE UNCHANGED vars
  BY <1>7 DEF vars, TypeOK, RecordsAreHonest, Behind
<1> QED BY <1>1, <1>2, <1>3, <1>4, <1>5, <1>6, <1>7 DEF Next

-----------------------------------------------------------------------------
(* _apply_migrations keeps every variable in its type: nothing but what the *)
(* scripts create ever enters the schema, and the position of an unfinished *)
(* script stays within its statements.                                      *)
THEOREM MigrationTypeCorrect == Spec => []TypeOK
<1>1. IInv => TypeOK
  BY DEF IInv
<1> QED BY IInvInit, IInvNext, <1>1, PTL DEF Spec

(* After any number of kills, in a database any earlier release left,       *)
(* schema_migrations never claims a script whose effects are missing nor    *)
(* one out of order, and Store.open hands out only a current schema.        *)
THEOREM RecordsStayHonest == Spec => []RecordsAreHonest
<1>1. IInv => RecordsAreHonest
  BY DEF IInv
<1> QED BY IInvInit, IInvNext, <1>1, PTL DEF Spec
=============================================================================
