------------------------------- MODULE Archive -------------------------------
(***************************************************************************)
(* What collecting a channel promises about its messages, whoever collects *)
(* (README.md, ADR-0004): rows are only ever added, and only of messages   *)
(* Telegram has posted; a tombstone is written only for a message Telegram *)
(* no longer has; and the high-water mark, below which no later sweep will *)
(* look again, only rises, to a message below which nothing that is still  *)
(* there lacks a row.  How the rows come in - page by page, by difference, *)
(* in runs that are cut short - is the business of the modules that        *)
(* implement this one.                                                     *)
(***************************************************************************)
EXTENDS Integers

CONSTANT MaxId

VARIABLES
    posted,   \* Telegram: the ids that have been assigned
    live,     \* Telegram: those that still resolve to a message
    held,     \* ids with a row
    gone,     \* ids with a tombstone
    mark      \* the high-water mark

Init ==
    /\ \E n \in 0..MaxId : posted = 1..n
    /\ live = posted /\ held = {} /\ gone = {} /\ mark = 0

Post ==
    /\ \E i \in 1..MaxId :
          /\ \A j \in posted : j < i
          /\ posted' = posted \cup {i} /\ live' = live \cup {i}
    /\ UNCHANGED <<held, gone, mark>>

Delete ==
    /\ \E i \in live : live' = live \ {i}
    /\ UNCHANGED <<posted, held, gone, mark>>

Hold(S) ==
    /\ S \subseteq posted
    /\ held' = held \cup S
    /\ UNCHANGED <<posted, live, gone, mark>>

Bury(S) ==
    /\ S \subseteq posted /\ S \cap live = {}
    /\ gone' = gone \cup S
    /\ UNCHANGED <<posted, live, held, mark>>

\* The last rows of a sweep come in, and the mark rises to message n.
Rise(n, S) ==
    /\ S \subseteq posted /\ held' = held \cup S
    /\ n \in posted /\ mark < n
    /\ \A i \in live : i <= n => i \in held'
    /\ mark' = n
    /\ UNCHANGED <<posted, live, gone>>

Next ==
    \/ Post \/ Delete
    \/ \E S \in SUBSET posted : Hold(S) \/ Bury(S) \/ \E n \in posted : Rise(n, S)

Spec == Init /\ [][Next]_<<posted, live, held, gone, mark>>
=============================================================================
