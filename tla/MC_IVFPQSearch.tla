--------------------------- MODULE MC_IVFPQSearch ---------------------------
(* Two queries, three lists, six vids, two threads.  Query 0 probes no    *)
(* list (-1) and list 1; query 1 probes lists 0 and 2 and has four         *)
(* candidates for a recall of three.  PQ and exact distances rank the vids *)
(* differently, so recall truncation and rerank both matter; vids 0 and 3  *)
(* belong to docid 0, so deduplication matters; docid 4 (vid 5) is         *)
(* deleted.  Direct search scans all six vids in two chunks of three.      *)
EXTENDS IVFPQSearch

MCListVids == (0 :> <<0, 1>>) @@ (1 :> <<2, 5>>) @@ (2 :> <<3, 4>>)
MCProbes == (0 :> <<-1, 1>>) @@ (1 :> <<0, 2>>)
MCPQDist == [v \in 0 .. 5 |-> <<2, 4, 5, 1, 3, 6>>[v + 1]]
MCExactDist == [v \in 0 .. 5 |-> <<2, 5, 4, 3, 6, 1>>[v + 1]]
MCVid2Docid == [v \in 0 .. 5 |-> <<0, 1, 2, 0, 3, 4>>[v + 1]]

(* use_direct_search = FALSE. *)
CondsWith(ranks) ==
    [direct : {FALSE}, byQuery : BOOLEAN, hasRank : ranks, sortByDocid : BOOLEAN,
     minD : {-1, 2}, maxD : {-1, 4}]

(* use_direct_search = TRUE (has_rank plays no part there) with the range  *)
(* bounds `bounds` as <<min_dist, max_dist>> pairs.                        *)
DirectWith(bounds) ==
    {c \in [direct : {TRUE}, byQuery : BOOLEAN, hasRank : {TRUE}, sortByDocid : BOOLEAN,
            minD : {-1, 2}, maxD : {-1, 4}] : <<c.minD, c.maxD>> \in bounds}

MCCondsRank == CondsWith({TRUE}) \cup DirectWith({<<-1, -1>>, <<2, 4>>})
MCCondsNoRank == CondsWith({FALSE})
MCCondsDirectOneSided == DirectWith({<<-1, 4>>, <<2, -1>>})
=============================================================================
