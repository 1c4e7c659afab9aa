--------------------------- MODULE MCCollectReplay ---------------------------
(* A channel of three messages and its archives, for TLC.                     *)
EXTENDS CollectReplay, TLC

MCFile == [id \in 1..5 |-> IF id \in {1, 3} THEN "photo" ELSE IF id = 2 THEN "doc" ELSE NoFile]
MCById == "1" :> [ch |-> 1, handle |-> "@one"]
MCLeads == "@one" :> {1} @@ "1" :> {1, 2} @@ "@two" :> {2} @@ "@four" :> {4} @@ "@five" :> {5}
               @@ "@someone" :> {0}
MCLinked == [ch \in 1..5 |-> IF ch = 1 THEN 3 ELSE IF ch = 4 THEN 1 ELSE 0]
MCAuthor == [id \in 1..5 |-> IF id = 1 THEN 5 ELSE IF id = 3 THEN 7 ELSE 6]
MCReactors == 3 :> <<6, 8>> @@ 1 :> <<5>>

Of(target, phases) ==
    [era |-> "now", tgt |-> target, phases |-> phases, posts |-> {}, sel |-> {},
     young |-> FALSE, join |-> FALSE]
Old(order, target, phases) == [Of(target, phases) EXCEPT !.era = order]
Segment(target, posts, sel) ==
    [Of(target, <<"posts", "media">>) EXCEPT !.posts = posts, !.sel = sel]
Sweep == Of("@one", <<"history">>)
Walk  == Of("@one", <<"history", "media">>)

Meet(target) == Of(target, <<"history", "participants">>)
Revisit(target) == Of(target, <<"participants">>)
Joining(spec) == [spec EXCEPT !.join = TRUE]
Young(spec)   == [spec EXCEPT !.young = TRUE]

Plan(runs, luck) == [runs |-> runs, faults |-> luck, passes |-> <<"full", "again">>,
                     intruders |-> {}]
Split(plan0) == [plan0 EXCEPT !.passes = <<"full", "include", "exclude">>]
With(names, plan0) == [plan0 EXCEPT !.intruders = names]

MCPlans == {
    \* updates, floods and kills in two sweeps
    Plan(<<Sweep, Sweep>>, 3), Plan(<<Sweep, Sweep, Sweep>>, 2),
    \* an archive whose first passes carry no run id, and other processes' rows
    With({"@someone"}, Plan(<<Old("selfLast", "@one", <<"history">>), Old("selfFirst", "@one", <<>>), Sweep>>, 2)),
    Split(With({"@one", "@someone"}, Plan(<<Old("selfFirst", "@two", <<"history">>), Old("selfLast", "@one", <<>>)>>, 2))),
    \* a target that is an id: the saved key, the handle, somebody else's handle
    Plan(<<Sweep, Of("1", <<"history", "profiles">>)>>, 2),
    \* another channel, which the account created, and a name that is no channel
    Plan(<<Of("@two", <<"history">>), Of("@two", <<"profiles">>)>>, 1),
    Split(Plan(<<Sweep, Of("@two", <<"profiles">>), Of("@someone", <<"history">>)>>, 1)),
    \* files, walked and selected; posts fetched by id, on a context that is reused
    Plan(<<Walk, Walk>>, 2),
    Plan(<<Sweep, Segment("1", {2}, {1, 2}), Segment("none", {2, 4}, {2, 3})>>, 2),
    \* a group and its linked broadcast; a broadcast and its linked group; hidden members
    Plan(<<Meet("@four"), Revisit("@four")>>, 2),
    Plan(<<Joining(Meet("@four")), Joining(Revisit("@four"))>>, 1),
    Plan(<<Meet("@one"), Joining(Revisit("@one")), Revisit("@one")>>, 1),
    Plan(<<Meet("@five"), Revisit("@five")>>, 1),
    Plan(<<Young(Meet("@one")), Revisit("@one")>>, 1)}
=============================================================================
