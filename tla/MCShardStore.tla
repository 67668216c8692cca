---------------------------- MODULE MCShardStore ----------------------------
(***************************************************************************)
(* ShardStore for TLC: how the sizes of files tell their contents apart.   *)
(***************************************************************************)
EXTENDS ShardStore

\* Of the versions of a PBF only the last gives a shard of another size, and
\* contracts do not, so that a scan can tell only some of the contents apart.
\* Asset shards of other answers have another size.
CoarseSizes(file) ==
  IF file \in Polygons THEN <<"polygons", file.version = MaxVersion>>
  ELSE IF file = None THEN None
  ELSE <<"assets", file.polygon.version = MaxVersion, file.epoch>>
=============================================================================
