----------------------------- MODULE Migrations -----------------------------
(***************************************************************************)
(* Store.open bringing a database up to the current schema (store/db.py,   *)
(* _apply_migrations, and the eight files of store/migrations).  Every     *)
(* statement of a script is autocommitted, the script is recorded in       *)
(* schema_migrations after its last one, and the process may be killed     *)
(* between any two statements.  A run of statements of one kind that no    *)
(* property tells apart stands as one statement.                           *)
(***************************************************************************)
EXTENDS Naturals, Sequences

CONSTANTS MaxKills   \* bound: kills while migrating

ASSUME MigrationAssumption == MaxKills \in Nat

Create(x)    == [kind |-> "create", on |-> x, needs |-> ""]   \* IF NOT EXISTS
Index(x, y)  == [kind |-> "create", on |-> x, needs |-> y]
Column(x, y) == [kind |-> "column", on |-> x, needs |-> y]
Update(x, y) == [kind |-> "update", on |-> x, needs |-> y]
Temp(x, y)   == [kind |-> "temp", on |-> x, needs |-> y]
Drop(x)      == [kind |-> "drop", on |-> x, needs |-> x]

(* The scripts, in the order sorted(glob) yields them.                      *)
Scripts == <<
    <<Create("tables"), Index("indexes", "tables"), Create("fts")>>,
    <<Create("web_snapshots"), Index("idx_web", "web_snapshots")>>,
    <<Column("run_id", "tables"), Index("idx_run", "run_id")>>,
    <<Create("people"), Index("idx_people", "people")>>,
    <<Column("applied_seconds", "tables")>>,
    <<Update("media.path", "tables"), Update("custody.path", "tables")>>,
    <<Column("store", "tables")>>,
    <<Column("content_key", "tables"), Temp("_msg_key", "tables"),
      Temp("_rev_key", "tables"), Temp("_stable_key", "_msg_key"),
      Update("custody.content_key", "content_key"),
      Drop("_stable_key"), Drop("_rev_key"), Drop("_msg_key")>>
>>

Names == DOMAIN Scripts

VARIABLES
    schema,    \* what the database file holds: objects, columns, data rewrites
    recorded,  \* schema_migrations
    temp,      \* temp tables of the open connection
    pc,        \* "closed", "reading", "running", "ready" or "failed"
    applied,   \* `applied`, read once per open
    script,    \* the script the loop has reached, 0 before the first
    at,        \* its next statement
    kills      \* bound counter

vars == <<schema, recorded, temp, pc, applied, script, at, kills>>

Effects(n) == {Scripts[n][i].on : i \in {j \in DOMAIN Scripts[n] :
                                   Scripts[n][j].kind \in {"create", "column", "update"}}}

(* A database some earlier release left, with its first scripts applied.    *)
Init ==
    /\ \E n \in 0..Len(Scripts) :
          /\ recorded = 1..n
          /\ schema = UNION {Effects(m) : m \in 1..n}
    /\ temp = {} /\ pc = "closed" /\ applied = {}
    /\ script = 0 /\ at = 1 /\ kills = 0

Open ==
    /\ pc = "closed"
    /\ pc' = "reading" /\ temp' = {} /\ applied' = recorded
    /\ script' = 0 /\ at' = 1
    /\ UNCHANGED <<schema, recorded, kills>>

Pending(n) == n > script /\ n \notin applied

(* The for loop over the sorted scripts reaches the next one not applied.   *)
NextScript ==
    /\ pc = "reading"
    /\ IF \E n \in Names : Pending(n)
       THEN /\ script' = CHOOSE n \in Names :
                            Pending(n) /\ \A m \in Names : Pending(m) => n <= m
            /\ at' = 1 /\ pc' = "running"
       ELSE pc' = "ready" /\ UNCHANGED <<script, at>>
    /\ UNCHANGED <<schema, recorded, temp, applied, kills>>

statement == Scripts[script][at]

\* A column or a temp table that is already there, or an object that is not,
\* raises; every other statement succeeds.
Raises ==
    \/ statement.kind = "column" /\ statement.on \in schema
    \/ statement.kind = "temp" /\ statement.on \in temp
    \/ statement.needs \notin schema \cup temp \cup {""}

Exec ==
    /\ pc = "running" /\ at <= Len(Scripts[script])
    /\ IF Raises
       THEN pc' = "failed" /\ UNCHANGED <<schema, temp, at>>
       ELSE /\ at' = at + 1
            /\ schema' = IF statement.kind \in {"create", "column", "update"}
                         THEN schema \cup {statement.on} ELSE schema
            /\ temp' = CASE statement.kind = "temp" -> temp \cup {statement.on}
                         [] statement.kind = "drop" -> temp \ {statement.on}
                         [] OTHER -> temp
            /\ UNCHANGED pc
    /\ UNCHANGED <<recorded, applied, script, kills>>

\* Mutant: the script is recorded before its last statement has run.
RecordEarly ==
    /\ pc = "running" /\ at = Len(Scripts[script])
    /\ recorded' = recorded \cup {script}
    /\ pc' = "reading"
    /\ UNCHANGED <<schema, temp, applied, script, at, kills>>

Record ==
    /\ pc = "running" /\ at = Len(Scripts[script]) + 1
    /\ recorded' = recorded \cup {script}
    /\ pc' = "reading"
    /\ UNCHANGED <<schema, temp, applied, script, at, kills>>

(* The command ends, or the failed open propagates out of it.               *)
Close ==
    /\ pc \in {"ready", "failed"}
    /\ pc' = "closed" /\ temp' = {}
    /\ UNCHANGED <<schema, recorded, applied, script, at, kills>>

Kill ==
    /\ pc \in {"reading", "running"} /\ kills < MaxKills
    /\ kills' = kills + 1
    /\ pc' = "closed" /\ temp' = {}
    /\ UNCHANGED <<schema, recorded, applied, script, at>>

Next == Open \/ NextScript \/ Exec \/ Record \/ Close \/ Kill

Spec == Init /\ [][Next]_vars

-----------------------------------------------------------------------------
(* The schema holds only objects the eight scripts create, and the position  *)
(* of an unfinished script stays within its statements.                      *)
TypeOK ==
    /\ schema \subseteq UNION {Effects(n) : n \in Names}
    /\ recorded \subseteq Names /\ applied \subseteq Names
    /\ pc \in {"closed", "reading", "running", "ready", "failed"}
    /\ script \in 0..Len(Scripts)
    /\ at \in 1..(IF script = 0 THEN 1 ELSE Len(Scripts[script]) + 1)
    /\ kills \in 0..MaxKills

(* Store.open hands out a database only with the whole current schema, and   *)
(* schema_migrations never claims a script whose effects are missing, or one *)
(* out of order - from any earlier release and after any kills.              *)
RecordsAreHonest ==
    /\ \A n \in recorded : Effects(n) \subseteq schema /\ 1..n \subseteq recorded
    /\ pc = "ready" => recorded = Names

(* "a migration interrupted partway through must be safe to re-run from the  *)
(* top" (0001_init.sql:3-6): opening the database never fails.               *)
InterruptedIsSafe == pc # "failed"

-----------------------------------------------------------------------------
(* What RecordsAreHonest rests on while a database is being opened: the names *)
(* read at the start are recorded, the loop leaves no script unrecorded       *)
(* behind, and what the running script has executed is in the schema.         *)
Executed(n, i) == {Scripts[n][j].on : j \in {k \in DOMAIN Scripts[n] :
                      k < i /\ Scripts[n][k].kind \in {"create", "column", "update"}}}

Behind ==
    /\ applied \subseteq recorded
    /\ pc = "reading" => 1..script \subseteq recorded
    /\ pc = "running" => /\ script \in Names /\ 1..(script - 1) \subseteq recorded
                         /\ Executed(script, at) \subseteq schema

\* RecordsAreHonest is not inductive by itself; this is.
IInv == TypeOK /\ RecordsAreHonest /\ Behind
=============================================================================
