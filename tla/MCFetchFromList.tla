--------------------------- MODULE MCFetchFromList ---------------------------
(* A channel, its discussion group and a handle that changed hands from the  *)
(* first to the second, for TLC.                                             *)
EXTENDS FetchFromList

CONSTANTS h, f

a == 1
g == 2

Row(x, m, p) == [addr |-> x, msg |-> m, prio |-> p]

MCChannels == {a, g}
MCHandles  == {h}
MCGroups   == {g}
MCLink     == {<<a, g>>}
MCOwner    == [x \in {h} |-> g]
MCStored   == [c \in {a, g} |-> IF c = a THEN h ELSE NoHandle]
MCSeenIn   == {g}
MCFiles    == {f}
MCMsgs     == {1, 2}
MCPriorities == {"p1", "p2"}
MCLists    == {<<Row(h, 1, "p1"), Row(g, 1, "p1"), Row(g, 2, "p1")>>,
               <<Row(g, 2, "p1"), Row(h, 1, "p1"), Row(g, 1, "p1")>>,
               <<Row(g, 1, "p1"), Row(h, 1, "p1"), Row(h, 1, "p2")>>,
               <<Row(g, 1, "p1"), Row(a, 1, "p1"), Row(h, 1, "p2"), Row(g, 2, "p2")>>}
MCSpecs    == {{}, {a}, {g}}
MCOldTombs == {<<g, 1>>}
=============================================================================
