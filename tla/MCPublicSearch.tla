----------------------------- MODULE MCPublicSearch -----------------------------
(* An instance of PublicSearch: a thorough search of a user, two standard ones *)
(* of an address, and one from the command line.                               *)
EXTENDS PublicSearch

CONSTANTS u1, a1, a2, c1

SmallLimits == [p \in Pools |-> 1]

Asked(level, fusion, filtered, ids, k) ==
    [level |-> level, strategy |-> "none", fusion |-> fusion, filtered |-> filtered, ids |-> ids,
     top_k |-> k]

SomeRequests ==
    (u1 :> Asked(2, FALSE, TRUE, {}, 2)) @@ (a1 :> Asked(2, FALSE, FALSE, {}, 2))
        @@ (a2 :> Asked(1, FALSE, TRUE, {}, 1)) @@ (c1 :> Asked(1, TRUE, FALSE, {1, 2}, 1))

FullStore ==
    [papers |-> {1, 2, 3}, fit |-> {1, 3}, chunks |-> {<<1, 0>>, <<1, 1>>, <<2, 0>>, <<3, 0>>}]

\* One paper has lost its row and one its category; a part of the chunks is not there yet.
LaterStore ==
    [papers |-> {1, 2}, fit |-> {1}, chunks |-> {<<1, 0>>, <<2, 0>>, <<3, 0>>}]

SomeHistories == {<<FullStore>>, <<FullStore, LaterStore>>, <<LaterStore, FullStore>>}

\* A paper is near by its abstract, another by its chunks: the fusions bring equal scores.
SomeQueries ==
    {[paper |-> (1 :> 1) @@ (2 :> 3) @@ (3 :> 2),
      bm25  |-> (<<1, 0>> :> 1) @@ (<<1, 1>> :> 3) @@ (<<2, 0>> :> 4) @@ (<<3, 0>> :> 2),
      chunk |-> (<<1, 0>> :> 3) @@ (<<1, 1>> :> 1) @@ (<<2, 0>> :> 4) @@ (<<3, 0>> :> 2)]}
================================================================================
