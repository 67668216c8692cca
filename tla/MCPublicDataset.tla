-------------------------- MODULE MCPublicDataset --------------------------
(***************************************************************************)
(* PublicDataset for TLC: two polygons seen by three shards.  Shards a1    *)
(* and a2 are two contents of one PBF; every tie of the ranking occurs.    *)
(* Asset shard x1 may be replaced by x2 while a build has x1 on its list.  *)
(***************************************************************************)
EXTENDS PublicDataset

R(id, version, time, source, order) ==
  [id |-> id, version |-> version, time |-> time, source |-> source, order |-> order]

MCShards == {"a1", "a2", "b"}
MCRows(shard) ==
  CASE shard = "a1" -> {R(1, 2, 5, "a", 1), R(2, -1, 5, "a", 2)}
    [] shard = "a2" -> {R(1, 2, 5, "a", 3), R(1, 1, 9, "a", 4)}
    [] shard = "b"  -> {R(1, 2, 5, "b", 5), R(2, -1, -1, "b", 6)}
MCPolygonLists == {<<"a1", "b">>, <<"a2", "b">>, <<"a1">>}

MCAssetShards == {"x1", "x2", "y"}
MCRebuilt(shard) == IF shard = "x1" THEN {"x2"} ELSE {}
MCAssetLists == {<<>>, <<"x1", "y">>}
=============================================================================
