------------------------------ MODULE RawLog ------------------------------
(***************************************************************************)
(* raw_records and its run structure (store/db.py begin_run and add_raw,   *)
(* replay.py ReplaySource.runs, ADR-0005).  The log only grows.  A row     *)
(* carries the run_id its process set at begin_run, or none when it was    *)
(* written before run ids existed: such rows are cut into passes again by  *)
(* the cluster of records every pass opens with.                           *)
(*                                                                         *)
(* A row is [run, pass, kind, tier, ch, tgt, at, p]: run is 0 for NULL; ch *)
(* and tgt are the channel id and the target of the context; at is the     *)
(* observation's stamp; p is the payload, as far as a replay reads it.     *)
(* pass, the collect pass that wrote the row (0: a process that is not     *)
(* collecting), is what the code does not know and has to work out.        *)
(***************************************************************************)
EXTENDS Integers, FiniteSets, SequencesExt

\* The three roles of an opening cluster; any other row is substantive.
Roles == {"self", "resolved", "full"}

Role(row) == IF row.kind = "user" /\ row.tier = "self" THEN "self" ELSE row.kind

Opening(log, i) == i \in DOMAIN log /\ log[i].run = 0 /\ Role(log[i]) \in Roles

\* The rows in order: what f makes of a row is added to what it made of the others.
Scan(f(_, _), log) ==
    FoldLeft(LAMBDA done, i : Append(done, f(done, i)), <<>>, [i \in DOMAIN log |-> i])

\* Mutant: a cluster is never cut, however often a role repeats.
ClusterStartUncut(log) ==
    LET of(start, i) == IF Opening(log, i - 1) THEN start[i - 1] ELSE i
    IN  Scan(of, log)

(* Where the cluster of opening rows that row i belongs to starts: at the   *)
(* last row that is not such an opening row, or at a repeated role, since   *)
(* one pass writes each role at most once.                                  *)
ClusterStart(log) ==
    LET of(start, i) ==
            IF /\ Opening(log, i - 1)
               /\ \A j \in start[i - 1]..(i - 1) : Role(log[j]) # Role(log[i])
            THEN start[i - 1] ELSE i
    IN  Scan(of, log)

\* Mutant: a lone ResolvedPeer or ChatFull opens a pass too.
IsBoundaryLone(log, start, i) == Opening(log, i) /\ start[i] = i

(* A cluster opens a pass when it holds the self marker; any other cluster  *)
(* is a foreign record that landed in somebody's pass.                      *)
IsBoundary(log, start, i) ==
    /\ Opening(log, i) /\ start[i] = i
    /\ \E j \in i..Len(log) :
          Opening(log, j) /\ start[j] = i /\ Role(log[j]) = "self"

(* The label of every row's run: its run_id; legacy-n, written -n, for the  *)
(* n-th boundary among the legacy rows; the run it landed in otherwise.     *)
Labels(log) ==
    LET start == ClusterStart(log)
        fresh(labels) == Min({0} \cup ToSet(labels)) - 1
        of(labels, i) ==
            IF log[i].run # 0 THEN log[i].run
            ELSE IF i = 1 \/ IsBoundary(log, start, i) THEN fresh(labels)
            ELSE labels[i - 1]
    IN  Scan(of, log)

(* ReplaySource.runs: the runs in capture order, each a range of rowids.    *)
Runs(log) ==
    LET label == Labels(log)
        first(i) == i = 1 \/ label[i] # label[i - 1]
        last(i)  == i = Len(log) \/ label[i] # label[i + 1]
        lows     == SelectSeq([i \in DOMAIN log |-> i], first)
        highs    == SelectSeq([i \in DOMAIN log |-> i], last)
    IN  [k \in DOMAIN lows |-> [id |-> label[lows[k]], lo |-> lows[k], hi |-> highs[k]]]

(* A run that is not one range of rowids is refused (ReprojectSourceError). *)
Contiguous(log) ==
    LET runs == Runs(log)
    IN  \A j, k \in DOMAIN runs : runs[j].id = runs[k].id => j = k
=============================================================================
