------------------------ MODULE PublicDatasetProofs ------------------------
(***************************************************************************)
(* Proofs about PublicDataset, for any rows, any lists of shards and any   *)
(* number of interrupted builds.  The invariant says of each database and  *)
(* file which rows it was made from, and of each place of a build what it  *)
(* can rely on.                                                            *)
(***************************************************************************)
EXTENDS PublicDataset, TLAPS

RowsOfDone(done) == UNION {Rows(mark[2]) : mark \in done}

\* A committed database holds the rows of the shards it has marked.
CheckpointSound ==
  checkpoint # None =>
    /\ MarksMatch(checkpoint.done, checkpoint.inputs)
    /\ Canonical(checkpoint.table, RowsOfDone(checkpoint.done))
    /\ checkpoint.output # None => Canonical(checkpoint.output, RowsOfAll(checkpoint.inputs))

\* The same for the images of the marked asset shards, as they were read.
IsJoinOfDone(J, done, t, replaced) ==
  /\ \A mark \in done : \E s \in Contents(mark[2], replaced) : <<s, t>> \in J
  /\ \A pair \in J : \E mark \in done :
       \E s \in Contents(mark[2], replaced) : pair = <<s, t>>

AssetCheckpointSound ==
  assetCheckpoint # None =>
    /\ MarksMatch(assetCheckpoint.done, assetCheckpoint.inputs)
    /\ IsJoinOfDone(assetCheckpoint.joined, assetCheckpoint.done,
                    assetCheckpoint.fingerprint, misread)

\* A manifest describes one release.
ManifestSound ==
  manifest # None =>
    /\ Canonical(manifest.polygons, RowsOfAll(manifest.inputs))
    /\ IsJoin(manifest.images, manifest.assetInputs, manifest.polygons, misread)
    /\ manifest.links = manifest.images

\* The database of a build under way is the one of its inputs.
OwnCheckpoint ==
  ~AtRest => checkpoint # None /\ checkpoint.inputs = inputs

\* The shards before the index are in the database.
SourcesBehind ==
  build \in {"sources", "rows"} =>
    /\ index \in Nat \ {0}
    /\ \A i \in DOMAIN inputs : i < index => <<i, inputs[i]>> \in checkpoint.done

\* The transaction holds the rows of those shards and the ones added so far.
TransactionSound ==
  build = "rows" =>
    /\ index \in DOMAIN inputs
    /\ left \subseteq Rows(inputs[index])
    /\ Canonical(table, RowsOfDone(checkpoint.done) \cup (Rows(inputs[index]) \ left))

PolygonsWritten == {"record", "assets", "assetSources", "images", "links", "dropAssets",
                    "manifest", "dropPolygons"}
PolygonsSound ==
  build \in PolygonsWritten => polygons \in Tables /\ Canonical(polygons, RowsOfAll(inputs))

OwnAssetCheckpoint ==
  build = "assetSources" =>
    /\ assetCheckpoint # None
    /\ assetCheckpoint.inputs = assetInputs /\ assetCheckpoint.fingerprint = polygons
    /\ index \in Nat \ {0}
    /\ \A i \in DOMAIN assetInputs : i < index => <<i, assetInputs[i]>> \in assetCheckpoint.done

OutputSound ==
  /\ build \in {"images", "links"} => IsJoin(Output, assetInputs, polygons, misread)
  /\ build = "links" => images = Output
  /\ build \in {"links", "dropAssets", "manifest", "dropPolygons"} =>
       images \in Joined /\ IsJoin(images, assetInputs, polygons, misread)
  /\ build \in {"dropAssets", "manifest", "dropPolygons"} => links = images

ReleaseReady == build \in {"dropPolygons", "returned"} => Reusable

IInv ==
  /\ TypeOK
  /\ CheckpointSound /\ AssetCheckpointSound /\ ManifestSound
  /\ OwnCheckpoint /\ SourcesBehind /\ TransactionSound /\ PolygonsSound
  /\ OwnAssetCheckpoint /\ OutputSound /\ ReleaseReady

USE RowsAssumption, OrderAssumption, RebuiltAssumption, ListsAssumption, NoneAssumption

(***************************************************************************)
(* The ranking of rows and the tables it leaves.                           *)
(***************************************************************************)

AllRows == UNION {Rows(s) : s \in Shards}

LEMMA AllRowsAreRows == AllRows \subseteq Row
  BY DEF AllRows

\* Of two different rows one beats the other: there is no tie.
LEMMA BeatsTotal ==
  ASSUME NEW r \in AllRows, NEW q \in AllRows
  PROVE  r = q \/ Beats(r, q) \/ Beats(q, r)
<1>1. r \in Row /\ q \in Row
  BY AllRowsAreRows
<1>2. r.order = q.order => r = q
  BY DEF AllRows
<1> QED BY <1>1, <1>2 DEF Row, Beats

LEMMA BeatsTransitive ==
  ASSUME NEW a \in Row, NEW b \in Row, NEW c \in Row, Beats(a, b), Beats(b, c)
  PROVE  Beats(a, c)
  BY DEF Row, Beats

LEMMA CanonicalEmpty == Canonical(NoRows, {})
  BY DEF Canonical, NoRows

\* What add_many makes of a table.
WinnerWith(t, row) ==
  LET old == t.winner[row.id]
      wins == old = None \/ Beats(row, old)
  IN [t.winner EXCEPT ![row.id] = IF wins THEN row ELSE @]
SourcesWith(t, row) == [t.sources EXCEPT ![row.id] = @ \cup {row.source}]
With(t, row) == [winner |-> WinnerWith(t, row), sources |-> SourcesWith(t, row)]

LEMMA WithIsTable ==
  ASSUME NEW t \in Tables, NEW row \in Row
  PROVE  With(t, row) \in Tables
<1>1. row.id \in Ids /\ row.source \in SourcePbfs
  BY DEF Row
<1>2. t.winner \in [Ids -> OrNone(Row)] /\ t.sources \in [Ids -> SUBSET SourcePbfs]
  BY DEF Tables
<1>3. WinnerWith(t, row) \in [Ids -> OrNone(Row)]
  BY <1>1, <1>2 DEF WinnerWith, OrNone
<1>4. SourcesWith(t, row) \in [Ids -> SUBSET SourcePbfs]
  BY <1>1, <1>2 DEF SourcesWith
<1> QED BY <1>3, <1>4 DEF With, Tables

\* Whatever the order, adding a row to the table of some rows makes the table
\* of those rows and it.
LEMMA CanonicalWith ==
  ASSUME NEW t \in Tables, NEW rows \in SUBSET AllRows, NEW row \in AllRows,
         Canonical(t, rows)
  PROVE  Canonical(With(t, row), rows \cup {row})
<1> DEFINE W == With(t, row)
           new == rows \cup {row}
<1>1. row \in Row /\ row.id \in Ids /\ row # None
  BY AllRowsAreRows DEF Row
<1>2. t.winner \in [Ids -> OrNone(Row)] /\ t.sources \in [Ids -> SUBSET SourcePbfs]
  BY DEF Tables
<1>3. ASSUME NEW id \in Ids
      PROVE  W.sources[id] = {r.source : r \in {q \in new : q.id = id}}
  <2>1. t.sources[id] = {r.source : r \in {q \in rows : q.id = id}}
    BY DEF Canonical
  <2>2. W.sources[id] = IF id = row.id THEN t.sources[id] \cup {row.source} ELSE t.sources[id]
    BY <1>1, <1>2 DEF With, SourcesWith
  <2> QED BY <2>1, <2>2
<1>4. ASSUME NEW id \in Ids
      PROVE  IF W.winner[id] = None THEN \A r \in new : r.id # id
             ELSE /\ W.winner[id] \in new /\ W.winner[id].id = id
                  /\ \A r \in new : r.id = id => r = W.winner[id] \/ Beats(W.winner[id], r)
  <2> DEFINE old == t.winner[id]
  <2>1. IF old = None THEN \A r \in rows : r.id # id
        ELSE /\ old \in rows /\ old.id = id
             /\ \A r \in rows : r.id = id => r = old \/ Beats(old, r)
    BY DEF Canonical
  <2>2. CASE id # row.id
    <3>1. W.winner[id] = old
      BY <1>1, <1>2, <2>2 DEF With, WinnerWith
    <3> QED BY <2>1, <2>2, <3>1
  <2>3. CASE id = row.id /\ (old = None \/ Beats(row, old))
    <3>1. W.winner[id] = row
      BY <1>1, <1>2, <2>3 DEF With, WinnerWith
    <3>2. ASSUME NEW r \in rows, r.id = id
          PROVE  r = row \/ Beats(row, r)
      <4>1. old # None /\ old \in Row /\ r \in Row /\ Beats(row, old)
        BY <2>1, <2>3, <3>2, AllRowsAreRows
      <4>2. r = old \/ Beats(old, r)
        BY <2>1, <3>2, <4>1
      <4> QED BY <1>1, <4>1, <4>2, BeatsTransitive
    <3> QED BY <1>1, <2>3, <3>1, <3>2
  <2>4. CASE id = row.id /\ old # None /\ ~Beats(row, old)
    <3>1. W.winner[id] = old
      BY <1>1, <1>2, <2>4 DEF With, WinnerWith
    <3>2. old \in AllRows
      BY <2>1, <2>4
    <3>3. row = old \/ Beats(old, row)
      BY <2>4, <3>2, BeatsTotal
    <3> QED BY <2>1, <2>4, <3>1, <3>3
  <2> QED BY <2>2, <2>3, <2>4
<1> HIDE DEF W, new
<1>5. Canonical(W, new)
  BY <1>3, <1>4 DEF Canonical
<1> QED BY <1>5 DEF W, new

(***************************************************************************)
(* When every shard is marked.                                             *)
(***************************************************************************)

LEMMA RowsOfDoneAreRows ==
  ASSUME NEW done \in Marks(Shards)
  PROVE  RowsOfDone(done) \subseteq AllRows
  BY DEF RowsOfDone, AllRows, Marks

LEMMA RowsOfEmpty == RowsOfDone({}) = {}
  BY DEF RowsOfDone

LEMMA RowsOfOneMore ==
  ASSUME NEW done, NEW i, NEW shard
  PROVE  RowsOfDone(done \cup {<<i, shard>>}) = RowsOfDone(done) \cup Rows(shard)
<1> DEFINE more == done \cup {<<i, shard>>}
<1>1. ASSUME NEW row
      PROVE  row \in RowsOfDone(more) <=> \E mark \in more : row \in Rows(mark[2])
  BY DEF RowsOfDone
<1>2. ASSUME NEW row
      PROVE  row \in RowsOfDone(done) <=> \E mark \in done : row \in Rows(mark[2])
  BY DEF RowsOfDone
<1>3. <<i, shard>>[2] = shard
  OBVIOUS
<1>4. ASSUME NEW row
      PROVE  row \in RowsOfDone(more) <=> row \in RowsOfDone(done) \cup Rows(shard)
  BY <1>1, <1>2, <1>3
<1> QED BY <1>4

LEMMA AllRowsDone ==
  ASSUME NEW list \in Seq(Shards), NEW done \in Marks(Shards), MarksMatch(done, list),
         \A i \in DOMAIN list : <<i, list[i]>> \in done
  PROVE  RowsOfDone(done) = RowsOfAll(list)
<1>1. RowsOfDone(done) \subseteq RowsOfAll(list)
  BY DEF RowsOfDone, RowsOfAll, MarksMatch
<1>2. ASSUME NEW i \in DOMAIN list
      PROVE  Rows(list[i]) \subseteq RowsOfDone(done)
  <2>1. <<i, list[i]>> \in done /\ <<i, list[i]>>[2] = list[i]
    OBVIOUS
  <2> QED BY <2>1 DEF RowsOfDone
<1> QED BY <1>1, <1>2 DEF RowsOfAll

LEMMA AllJoined ==
  ASSUME NEW list \in Seq(AssetShards), NEW done \in Marks(AssetShards), NEW t,
         NEW J, NEW replaced,
         MarksMatch(done, list), \A i \in DOMAIN list : <<i, list[i]>> \in done,
         IsJoinOfDone(J, done, t, replaced)
  PROVE  IsJoin(J, list, t, replaced)
<1>1. ASSUME NEW i \in DOMAIN list
      PROVE  \E s \in Contents(list[i], replaced) : <<s, t>> \in J
  <2>1. <<i, list[i]>> \in done /\ <<i, list[i]>>[2] = list[i]
    OBVIOUS
  <2>2. \E s \in Contents(<<i, list[i]>>[2], replaced) : <<s, t>> \in J
    BY <2>1, Zenon DEF IsJoinOfDone
  <2> QED BY <2>1, <2>2
<1>2. ASSUME NEW pair \in J
      PROVE  \E i \in DOMAIN list : \E s \in Contents(list[i], replaced) : pair = <<s, t>>
  <2>1. PICK mark \in done : \E s \in Contents(mark[2], replaced) : pair = <<s, t>>
    BY Zenon DEF IsJoinOfDone
  <2>2. mark[1] \in DOMAIN list /\ list[mark[1]] = mark[2]
    BY DEF MarksMatch
  <2> QED BY <2>1, <2>2, Zenon
<1> QED BY <1>1, <1>2, Zenon DEF IsJoin

\* A join stays one whatever else is replaced later.
LEMMA JoinStays ==
  ASSUME NEW J, NEW list, NEW t, NEW old, NEW new, old \subseteq new,
         IsJoin(J, list, t, old)
  PROVE  IsJoin(J, list, t, new)
<1>1. \A s : Contents(s, old) \subseteq Contents(s, new)
  BY DEF Contents
<1> QED BY <1>1, Zenon DEF IsJoin

\* One more shard is marked, and read as it is or as what replaced it.
LEMMA JoinOfOneMore ==
  ASSUME NEW J, NEW done, NEW t, NEW old, NEW new, old \subseteq new,
         IsJoinOfDone(J, done, t, old),
         NEW mark, NEW content \in Contents(mark[2], new)
  PROVE  IsJoinOfDone(J \cup {<<content, t>>}, done \cup {mark}, t, new)
<1>1. \A s : Contents(s, old) \subseteq Contents(s, new)
  BY DEF Contents
<1>2. ASSUME NEW m \in done \cup {mark}
      PROVE  \E s \in Contents(m[2], new) : <<s, t>> \in J \cup {<<content, t>>}
  BY <1>1 DEF IsJoinOfDone
<1>3. ASSUME NEW pair \in J \cup {<<content, t>>}
      PROVE  \E m \in done \cup {mark} : \E s \in Contents(m[2], new) : pair = <<s, t>>
  BY <1>1 DEF IsJoinOfDone
<1> QED BY <1>2, <1>3, Zenon DEF IsJoinOfDone

\* The loop over a list ends when the index has left it.
LEMMA LoopEnds ==
  ASSUME NEW S, NEW list \in Seq(S), NEW k \in Nat \ {0}, k \notin DOMAIN list
  PROVE  \A i \in DOMAIN list : i < k
  OBVIOUS

(***************************************************************************)
(* Types.                                                                  *)
(***************************************************************************)

LEMMA NoRowsIsTable == NoRows \in Tables
  BY DEF NoRows, Tables, OrNone

LEMMA OutputIsJoined ==
  ASSUME TypeOK
  PROVE  Output \in Joined
<1>1. CASE assetCheckpoint = None
  BY <1>1 DEF Output, Joined
<1>2. CASE assetCheckpoint # None
  BY <1>2 DEF Output, TypeOK, AssetCheckpoints
<1> QED BY <1>1, <1>2

(***************************************************************************)
(* The invariant holds at first, and every action keeps it.                *)
(***************************************************************************)

LEMMA InitInvariant ==
  ASSUME Init
  PROVE  IInv
<1> USE DEF Init
<1>1. TypeOK
  BY NoRowsIsTable DEF TypeOK
<1>2. CheckpointSound /\ AssetCheckpointSound /\ ManifestSound
  BY DEF CheckpointSound, AssetCheckpointSound, ManifestSound
<1>3. OwnCheckpoint /\ SourcesBehind /\ TransactionSound
  BY DEF OwnCheckpoint, SourcesBehind, TransactionSound, AtRest
<1>4. PolygonsSound /\ OwnAssetCheckpoint
  BY DEF PolygonsSound, PolygonsWritten, OwnAssetCheckpoint
<1>5. OutputSound /\ ReleaseReady
  BY DEF OutputSound, ReleaseReady
<1> QED BY <1>1, <1>2, <1>3, <1>4, <1>5 DEF IInv

(***************************************************************************)
(* One lemma per action: first the conjuncts of the invariant it disturbs, *)
(* then those it leaves as they are.                                       *)
(***************************************************************************)

LEMMA InputsChangeStep ==
  ASSUME IInv, InputsChange
  PROVE  IInv'
<1> USE DEF InputsChange, IInv, AtRest, inputVars, transaction, fileVars, control
<1>1. TypeOK' /\ CheckpointSound' /\ OwnCheckpoint' /\ SourcesBehind' /\ TransactionSound' /\
      PolygonsSound'
  BY DEF TypeOK, CheckpointSound, OwnCheckpoint, SourcesBehind, TransactionSound,
         PolygonsSound, PolygonsWritten
<1>2. AssetCheckpointSound' /\ ManifestSound' /\ OwnAssetCheckpoint' /\ OutputSound' /\
      ReleaseReady'
  BY DEF AssetCheckpointSound, ManifestSound, OwnAssetCheckpoint, OutputSound, Output,
         ReleaseReady, Reusable, Validated
<1> QED BY <1>1, <1>2

LEMMA ReuseReleaseStep ==
  ASSUME IInv, ReuseRelease
  PROVE  IInv'
<1> USE DEF ReuseRelease, IInv, AtRest, inputVars, transaction, fileVars, control
<1>1. TypeOK' /\ CheckpointSound' /\ OwnCheckpoint' /\ SourcesBehind' /\ TransactionSound' /\
      PolygonsSound'
  BY DEF TypeOK, CheckpointSound, OwnCheckpoint, SourcesBehind, TransactionSound,
         PolygonsSound, PolygonsWritten
<1>2. AssetCheckpointSound' /\ ManifestSound' /\ OwnAssetCheckpoint' /\ OutputSound' /\
      ReleaseReady'
  BY DEF AssetCheckpointSound, ManifestSound, OwnAssetCheckpoint, OutputSound, Output,
         ReleaseReady, Reusable, Validated
<1> QED BY <1>1, <1>2

LEMMA OpenCheckpointStep ==
  ASSUME IInv, OpenCheckpoint
  PROVE  IInv'
<1> USE DEF OpenCheckpoint, IInv, AtRest, inputVars, transaction, fileVars, control
<1> DEFINE fresh == [inputs |-> inputs, done |-> {}, table |-> NoRows, output |-> None]
<1>a. fresh \in Checkpoints
  BY NoRowsIsTable DEF TypeOK, Checkpoints, Marks, OrNone
<1>b. (checkpoint' = checkpoint /\ Compatible) \/ checkpoint' = fresh
  OBVIOUS
<1>c. checkpoint' \in Checkpoints /\ checkpoint' # None
  BY <1>a, <1>b DEF TypeOK, Compatible
<1>1. TypeOK'
  BY <1>c DEF TypeOK
<1>2. CheckpointSound'
  <2>1. CASE checkpoint' = checkpoint
    BY <2>1 DEF CheckpointSound
  <2>2. CASE checkpoint' = fresh
    <3>1. MarksMatch({}, inputs) /\ Canonical(NoRows, RowsOfDone({}))
      BY CanonicalEmpty, RowsOfEmpty DEF MarksMatch
    <3> QED BY <2>2, <3>1 DEF CheckpointSound
  <2> QED BY <1>b, <2>1, <2>2
<1>3. OwnCheckpoint'
  <2>1. checkpoint'.inputs = inputs
    BY <1>b DEF Compatible
  <2> QED BY <1>c, <2>1 DEF OwnCheckpoint
<1>4. SourcesBehind'
  <2>1. DOMAIN inputs \subseteq Nat \ {0}
    BY DEF TypeOK
  <2> QED BY <2>1 DEF SourcesBehind
<1>5. TransactionSound' /\ PolygonsSound'
  BY DEF TransactionSound, PolygonsSound, PolygonsWritten
<1>6. AssetCheckpointSound' /\ ManifestSound' /\ OwnAssetCheckpoint' /\ OutputSound' /\
      ReleaseReady'
  BY DEF AssetCheckpointSound, ManifestSound, OwnAssetCheckpoint, OutputSound, Output,
         ReleaseReady, Reusable, Validated
<1> QED BY <1>1, <1>2, <1>3, <1>4, <1>5, <1>6

LEMMA SkipSourceStep ==
  ASSUME IInv, SkipSource
  PROVE  IInv'
<1> USE DEF SkipSource, IInv, AtRest, inputVars, transaction, fileVars, control
<1>1. SourcesBehind'
  <2>1. index \in Nat /\ DOMAIN inputs \subseteq Nat
    BY DEF TypeOK
  <2> QED BY <2>1 DEF SourcesBehind, Completed
<1>2. TypeOK' /\ CheckpointSound' /\ OwnCheckpoint' /\ TransactionSound' /\ PolygonsSound'
  BY DEF TypeOK, CheckpointSound, OwnCheckpoint, TransactionSound, PolygonsSound,
         PolygonsWritten
<1>3. AssetCheckpointSound' /\ ManifestSound' /\ OwnAssetCheckpoint' /\ OutputSound' /\
      ReleaseReady'
  BY DEF AssetCheckpointSound, ManifestSound, OwnAssetCheckpoint, OutputSound, Output,
         ReleaseReady, Reusable, Validated
<1> QED BY <1>1, <1>2, <1>3

LEMMA BeginSourceStep ==
  ASSUME IInv, BeginSource
  PROVE  IInv'
<1> USE DEF BeginSource, IInv, AtRest, inputVars, transaction, fileVars, control
<1>a. checkpoint \in Checkpoints
  BY DEF OwnCheckpoint, TypeOK
<1>b. inputs[index] \in Shards
  BY DEF TypeOK
<1>1. TypeOK'
  <2>1. table' \in Tables
    BY <1>a DEF Checkpoints
  <2>2. left' \in SUBSET Row
    BY <1>b
  <2> QED BY <2>1, <2>2 DEF TypeOK
<1>2. TransactionSound'
  <2>1. RowsOfDone(checkpoint.done) \cup (Rows(inputs[index]) \ left') = RowsOfDone(checkpoint.done)
    OBVIOUS
  <2>2. Canonical(checkpoint.table, RowsOfDone(checkpoint.done))
    BY DEF CheckpointSound, OwnCheckpoint
  <2> QED BY <2>1, <2>2 DEF TransactionSound
<1>3. CheckpointSound' /\ OwnCheckpoint' /\ SourcesBehind' /\ PolygonsSound'
  BY DEF CheckpointSound, OwnCheckpoint, SourcesBehind, PolygonsSound, PolygonsWritten
<1>4. AssetCheckpointSound' /\ ManifestSound' /\ OwnAssetCheckpoint' /\ OutputSound' /\
      ReleaseReady'
  BY DEF AssetCheckpointSound, ManifestSound, OwnAssetCheckpoint, OutputSound, Output,
         ReleaseReady, Reusable, Validated
<1> QED BY <1>1, <1>2, <1>3, <1>4

LEMMA AddRowStep ==
  ASSUME IInv, NEW row \in left, AddRow(row)
  PROVE  IInv'
<1> USE DEF AddRow, IInv, AtRest, inputVars, transaction, fileVars, control
<1>a. table' = With(table, row)
  BY DEF With, WinnerWith, SourcesWith
<1>b. table \in Tables /\ row \in Row
  BY DEF TypeOK
<1>1. TypeOK'
  <2>1. table' \in Tables
    BY <1>a, <1>b, WithIsTable
  <2>2. left' \in SUBSET Row
    BY DEF TypeOK
  <2> QED BY <2>1, <2>2 DEF TypeOK
<1>2. TransactionSound'
  <2> DEFINE shard == inputs[index]
             rows == RowsOfDone(checkpoint.done) \cup (Rows(shard) \ left)
  <2>1. index \in DOMAIN inputs /\ left \subseteq Rows(shard) /\ Canonical(table, rows)
    BY DEF TransactionSound
  <2>2. shard \in Shards
    BY <2>1 DEF TypeOK
  <2>3. checkpoint.done \in Marks(Shards)
    BY DEF OwnCheckpoint, TypeOK, Checkpoints
  <2>4. rows \in SUBSET AllRows /\ row \in AllRows
    BY <2>1, <2>2, <2>3, RowsOfDoneAreRows DEF AllRows
  <2>5. Canonical(table', rows \cup {row})
    BY <1>a, <1>b, <2>1, <2>4, CanonicalWith
  <2>6. rows \cup {row} = RowsOfDone(checkpoint.done) \cup (Rows(shard) \ left')
    BY <2>1
  <2> QED BY <2>1, <2>5, <2>6 DEF TransactionSound
<1>3. CheckpointSound' /\ OwnCheckpoint' /\ SourcesBehind' /\ PolygonsSound'
  BY DEF CheckpointSound, OwnCheckpoint, SourcesBehind, PolygonsSound, PolygonsWritten
<1>4. AssetCheckpointSound' /\ ManifestSound' /\ OwnAssetCheckpoint' /\ OutputSound' /\
      ReleaseReady'
  BY DEF AssetCheckpointSound, ManifestSound, OwnAssetCheckpoint, OutputSound, Output,
         ReleaseReady, Reusable, Validated
<1> QED BY <1>1, <1>2, <1>3, <1>4

LEMMA CompleteSourceStep ==
  ASSUME IInv, CompleteSource
  PROVE  IInv'
<1> USE DEF CompleteSource, IInv, AtRest, inputVars, transaction, fileVars, control
<1> DEFINE mark == <<index, inputs[index]>>
<1>a. checkpoint \in Checkpoints /\ checkpoint.inputs = inputs /\ index \in DOMAIN inputs
  BY DEF OwnCheckpoint, TypeOK, TransactionSound
<1>b. /\ checkpoint'.inputs = inputs /\ checkpoint'.output = checkpoint.output
      /\ checkpoint'.done = checkpoint.done \cup {mark} /\ checkpoint'.table = table
  BY <1>a DEF Checkpoints
<1>c. checkpoint' \in Checkpoints /\ checkpoint' # None
  <2>1. mark \in Nat \X Shards /\ table \in Tables
    BY <1>a DEF TypeOK
  <2>2. checkpoint' \in Checkpoints
    BY <1>a, <2>1 DEF Checkpoints, Marks
  <2> QED BY <2>2
<1>1. TypeOK'
  <2>1. index' \in Nat
    BY DEF TypeOK
  <2> QED BY <1>c, <2>1, NoRowsIsTable DEF TypeOK
<1>2. CheckpointSound'
  <2>1. checkpoint # None
    BY <1>a
  <2>2. MarksMatch(checkpoint'.done, checkpoint'.inputs)
    BY <1>a, <1>b, <2>1 DEF CheckpointSound, MarksMatch
  <2>3. RowsOfDone(checkpoint'.done) = RowsOfDone(checkpoint.done) \cup Rows(inputs[index])
    <3>1. RowsOfDone(checkpoint.done \cup {<<index, inputs[index]>>})
            = RowsOfDone(checkpoint.done) \cup Rows(inputs[index])
      BY ONLY RowsOfOneMore
    <3> QED BY <1>b, <3>1
  <2>4. Canonical(checkpoint'.table, RowsOfDone(checkpoint'.done))
    BY <1>b, <2>3 DEF TransactionSound
  <2>5. checkpoint'.output # None => Canonical(checkpoint'.output, RowsOfAll(checkpoint'.inputs))
    BY <1>a, <1>b, <2>1 DEF CheckpointSound
  <2> QED BY <2>2, <2>4, <2>5 DEF CheckpointSound
<1>3. OwnCheckpoint'
  BY <1>b, <1>c DEF OwnCheckpoint
<1>4. SourcesBehind'
  <2>1. index \in Nat /\ DOMAIN inputs \subseteq Nat
    BY DEF TypeOK
  <2> QED BY <1>b, <2>1 DEF SourcesBehind
<1>5. TransactionSound' /\ PolygonsSound'
  BY DEF TransactionSound, PolygonsSound, PolygonsWritten
<1>6. AssetCheckpointSound' /\ ManifestSound' /\ OwnAssetCheckpoint' /\ OutputSound' /\
      ReleaseReady'
  BY DEF AssetCheckpointSound, ManifestSound, OwnAssetCheckpoint, OutputSound, Output,
         ReleaseReady, Reusable, Validated
<1> QED BY <1>1, <1>2, <1>3, <1>4, <1>5, <1>6

LEMMA ReusePolygonsStep ==
  ASSUME IInv, ReusePolygons
  PROVE  IInv'
<1> USE DEF ReusePolygons, SourcesDone, IInv, AtRest,
           inputVars, transaction, fileVars, control
<1>1. PolygonsSound'
  <2>1. checkpoint \in Checkpoints /\ checkpoint # None /\ checkpoint.inputs = inputs
    BY DEF OwnCheckpoint, TypeOK
  <2>2. polygons \in Tables /\ Canonical(polygons, RowsOfAll(inputs))
    BY <2>1 DEF PolygonsReusable, CheckpointSound, Checkpoints, OrNone
  <2> QED BY <2>2 DEF PolygonsSound
<1>2. TypeOK' /\ CheckpointSound' /\ OwnCheckpoint' /\ SourcesBehind' /\ TransactionSound'
  BY DEF TypeOK, CheckpointSound, OwnCheckpoint, SourcesBehind, TransactionSound
<1>3. AssetCheckpointSound' /\ ManifestSound' /\ OwnAssetCheckpoint' /\ OutputSound' /\
      ReleaseReady'
  BY DEF AssetCheckpointSound, ManifestSound, OwnAssetCheckpoint, OutputSound, Output,
         ReleaseReady, Reusable, Validated
<1> QED BY <1>1, <1>2, <1>3

LEMMA WritePolygonsStep ==
  ASSUME IInv, WritePolygons
  PROVE  IInv'
<1> USE DEF WritePolygons, SourcesDone, IInv, AtRest,
           inputVars, transaction, fileVars, control
<1>a. checkpoint \in Checkpoints /\ checkpoint # None /\ checkpoint.inputs = inputs
  BY DEF OwnCheckpoint, TypeOK
<1>b. polygons' \in Tables
  BY <1>a DEF Checkpoints
<1>1. TypeOK'
  BY <1>b DEF TypeOK
<1>2. PolygonsSound'
  <2>1. inputs \in Seq(Shards) /\ checkpoint.done \in Marks(Shards)
    BY <1>a DEF TypeOK, Checkpoints
  <2>2. MarksMatch(checkpoint.done, inputs) /\ Canonical(polygons', RowsOfDone(checkpoint.done))
    BY <1>a DEF CheckpointSound
  <2>3. \A i \in DOMAIN inputs : <<i, inputs[i]>> \in checkpoint.done
    BY <2>1, LoopEnds DEF SourcesBehind
  <2>4. RowsOfDone(checkpoint.done) = RowsOfAll(inputs)
    BY <2>1, <2>2, <2>3, AllRowsDone
  <2> QED BY <1>b, <2>2, <2>4 DEF PolygonsSound
<1>3. CheckpointSound' /\ OwnCheckpoint' /\ SourcesBehind' /\ TransactionSound'
  BY DEF CheckpointSound, OwnCheckpoint, SourcesBehind, TransactionSound
<1>4. AssetCheckpointSound' /\ ManifestSound' /\ OwnAssetCheckpoint' /\ OutputSound' /\
      ReleaseReady'
  BY DEF AssetCheckpointSound, ManifestSound, OwnAssetCheckpoint, OutputSound, Output,
         ReleaseReady, Reusable, Validated
<1> QED BY <1>1, <1>2, <1>3, <1>4

LEMMA RecordOutputStep ==
  ASSUME IInv, RecordOutput
  PROVE  IInv'
<1> USE DEF RecordOutput, IInv, AtRest, inputVars, transaction, fileVars, control
<1>a. checkpoint \in Checkpoints /\ checkpoint # None /\ checkpoint.inputs = inputs
  BY DEF OwnCheckpoint, TypeOK
<1>b. polygons \in Tables /\ Canonical(polygons, RowsOfAll(inputs))
  BY DEF PolygonsSound, PolygonsWritten
<1>c. /\ checkpoint'.inputs = inputs /\ checkpoint'.output = polygons
      /\ checkpoint'.done = checkpoint.done /\ checkpoint'.table = checkpoint.table
  BY <1>a DEF Checkpoints
<1>d. checkpoint' \in Checkpoints
  BY <1>a, <1>b DEF Checkpoints, OrNone
<1>1. TypeOK'
  BY <1>d DEF TypeOK
<1>2. CheckpointSound'
  BY <1>a, <1>b, <1>c DEF CheckpointSound
<1>3. OwnCheckpoint'
  BY <1>c, <1>d DEF OwnCheckpoint
<1>4. SourcesBehind' /\ TransactionSound' /\ PolygonsSound'
  BY DEF SourcesBehind, TransactionSound, PolygonsSound, PolygonsWritten
<1>5. AssetCheckpointSound' /\ ManifestSound' /\ OwnAssetCheckpoint' /\ OutputSound' /\
      ReleaseReady'
  BY DEF AssetCheckpointSound, ManifestSound, OwnAssetCheckpoint, OutputSound, Output,
         ReleaseReady, Reusable, Validated
<1> QED BY <1>1, <1>2, <1>3, <1>4, <1>5

LEMMA OpenAssetCheckpointStep ==
  ASSUME IInv, OpenAssetCheckpoint
  PROVE  IInv'
<1> USE DEF OpenAssetCheckpoint, IInv, AtRest, inputVars, transaction, fileVars, control
<1> DEFINE fresh == [inputs |-> assetInputs, fingerprint |-> polygons, done |-> {}, joined |-> {}]
<1>a. polygons \in Tables /\ assetInputs \in Seq(AssetShards)
  BY DEF PolygonsSound, PolygonsWritten, TypeOK
<1>b. fresh \in AssetCheckpoints
  BY <1>a DEF AssetCheckpoints, Marks, Joined
<1>c. \/ /\ assetInputs = <<>> /\ assetCheckpoint' = None /\ build' = "images"
      \/ /\ build' = "assetSources"
         /\ \/ AssetCompatible /\ assetCheckpoint' = assetCheckpoint
            \/ assetCheckpoint' = fresh
  OBVIOUS
<1>1. TypeOK'
  <2>1. assetCheckpoint' = None \/ assetCheckpoint' \in AssetCheckpoints
    BY <1>b, <1>c DEF TypeOK
  <2> QED BY <1>c, <2>1 DEF TypeOK
<1>2. AssetCheckpointSound'
  <2>1. CASE assetCheckpoint' = None
    BY <2>1 DEF AssetCheckpointSound
  <2>2. CASE assetCheckpoint' = assetCheckpoint
    BY <2>2 DEF AssetCheckpointSound
  <2>3. CASE assetCheckpoint' = fresh
    <3>1. MarksMatch({}, assetInputs) /\ IsJoinOfDone({}, {}, polygons, misread)
      BY DEF MarksMatch, IsJoinOfDone
    <3> QED BY <2>3, <3>1 DEF AssetCheckpointSound
  <2> QED BY <1>c, <2>1, <2>2, <2>3
<1>3. OwnAssetCheckpoint'
  <2>1. ASSUME build' = "assetSources"
        PROVE  /\ assetCheckpoint' # None
               /\ assetCheckpoint'.inputs = assetInputs /\ assetCheckpoint'.fingerprint = polygons
    BY <1>b, <1>c, <2>1 DEF AssetCompatible
  <2>2. DOMAIN assetInputs \subseteq Nat \ {0}
    BY <1>a
  <2> QED BY <2>1, <2>2 DEF OwnAssetCheckpoint
<1>4. OutputSound'
  <2>1. ASSUME build' = "images"
        PROVE  Output' = {} /\ IsJoin({}, assetInputs, polygons, misread)
    BY <1>c, <2>1 DEF Output, IsJoin
  <2> QED BY <2>1 DEF OutputSound
<1>5. CheckpointSound' /\ OwnCheckpoint' /\ SourcesBehind' /\ TransactionSound' /\
      PolygonsSound'
  BY DEF CheckpointSound, OwnCheckpoint, SourcesBehind, TransactionSound, PolygonsSound,
         PolygonsWritten
<1>6. ManifestSound' /\ ReleaseReady'
  BY DEF ManifestSound, ReleaseReady, Reusable, Validated
<1> QED BY <1>1, <1>2, <1>3, <1>4, <1>5, <1>6

LEMMA SkipAssetSourceStep ==
  ASSUME IInv, SkipAssetSource
  PROVE  IInv'
<1> USE DEF SkipAssetSource, IInv, AtRest, inputVars, transaction, fileVars, control
<1>1. OwnAssetCheckpoint'
  <2>1. index \in Nat /\ DOMAIN assetInputs \subseteq Nat
    BY DEF TypeOK
  <2> QED BY <2>1 DEF OwnAssetCheckpoint, AssetCompleted
<1>2. TypeOK' /\ CheckpointSound' /\ OwnCheckpoint' /\ SourcesBehind' /\ TransactionSound' /\
      PolygonsSound'
  BY DEF TypeOK, CheckpointSound, OwnCheckpoint, SourcesBehind, TransactionSound,
         PolygonsSound, PolygonsWritten
<1>3. AssetCheckpointSound' /\ ManifestSound' /\ OutputSound' /\ ReleaseReady'
  BY DEF AssetCheckpointSound, ManifestSound, OutputSound, Output, ReleaseReady, Reusable,
         Validated
<1> QED BY <1>1, <1>2, <1>3

LEMMA ProcessAssetSourceStep ==
  ASSUME IInv, NEW content \in AssetShards, ProcessAssetSource(content)
  PROVE  IInv'
<1> USE DEF ProcessAssetSource, IInv, AtRest, transaction, fileVars, control
<1> DEFINE mark == <<index, assetInputs[index]>>
           more == assetCheckpoint.joined \cup {<<content, polygons>>}
<1>a. /\ assetCheckpoint \in AssetCheckpoints /\ assetCheckpoint.inputs = assetInputs
      /\ assetCheckpoint.fingerprint = polygons /\ assetCheckpoint # None
  BY DEF OwnAssetCheckpoint, TypeOK
<1>b. index \in Nat /\ mark \in Nat \X AssetShards /\ mark[2] = assetInputs[index]
  BY DEF TypeOK
<1>c. /\ assetCheckpoint' \in AssetCheckpoints
      /\ assetCheckpoint'.inputs = assetInputs /\ assetCheckpoint'.fingerprint = polygons
      /\ assetCheckpoint'.done = assetCheckpoint.done \cup {mark}
      /\ assetCheckpoint'.joined = more
  <2>1. polygons \in Tables /\ <<content, polygons>> \in AssetShards \X Tables
    BY <1>a DEF AssetCheckpoints
  <2>2. more \in Joined
    BY <1>a, <2>1 DEF AssetCheckpoints, Joined
  <2>3. assetCheckpoint.done \cup {mark} \in Marks(AssetShards)
    BY <1>a, <1>b DEF AssetCheckpoints, Marks
  <2>4. assetCheckpoint' = [assetCheckpoint EXCEPT !.joined = more,
                                                  !.done = assetCheckpoint.done \cup {mark}]
    OBVIOUS
  <2> QED BY <1>a, <2>2, <2>3, <2>4 DEF AssetCheckpoints
<1>d. /\ misread \subseteq misread' /\ misread' \in SUBSET (AssetShards \X AssetShards)
      /\ content \in Contents(mark[2], misread')
  BY <1>b DEF TypeOK, Contents
<1>1. TypeOK'
  BY <1>b, <1>c, <1>d DEF TypeOK
<1>2. AssetCheckpointSound'
  <2>1. /\ MarksMatch(assetCheckpoint.done, assetInputs)
        /\ IsJoinOfDone(assetCheckpoint.joined, assetCheckpoint.done, polygons, misread)
    BY <1>a DEF AssetCheckpointSound
  <2>2. MarksMatch(assetCheckpoint'.done, assetInputs)
    BY <1>c, <2>1 DEF MarksMatch
  <2>3. IsJoinOfDone(more, assetCheckpoint.done \cup {mark}, polygons, misread')
    BY <1>d, <2>1, JoinOfOneMore
  <2> QED BY <1>c, <2>2, <2>3 DEF AssetCheckpointSound
<1>3. OwnAssetCheckpoint'
  <2>1. DOMAIN assetInputs \subseteq Nat
    BY DEF TypeOK
  <2> QED BY <1>a, <1>b, <1>c, <2>1 DEF OwnAssetCheckpoint
<1>4. CheckpointSound' /\ OwnCheckpoint' /\ SourcesBehind' /\ TransactionSound' /\
      PolygonsSound'
  BY DEF CheckpointSound, OwnCheckpoint, SourcesBehind, TransactionSound, PolygonsSound,
         PolygonsWritten
<1>5. ManifestSound'
  <2>1. ASSUME manifest # None
        PROVE  IsJoin(manifest.images, manifest.assetInputs, manifest.polygons, misread')
    BY <1>d, <2>1, JoinStays DEF ManifestSound
  <2> QED BY <2>1 DEF ManifestSound
<1>6. OutputSound' /\ ReleaseReady'
  BY DEF OutputSound, ReleaseReady
<1> QED BY <1>1, <1>2, <1>3, <1>4, <1>5, <1>6

LEMMA AssetSourcesDoneStep ==
  ASSUME IInv, AssetSourcesDone
  PROVE  IInv'
<1> USE DEF AssetSourcesDone, IInv, AtRest, inputVars, transaction, fileVars, control
<1>1. OutputSound'
  <2>1. assetCheckpoint \in AssetCheckpoints /\ assetCheckpoint # None
    BY DEF OwnAssetCheckpoint, TypeOK
  <2>2. assetInputs \in Seq(AssetShards) /\ assetCheckpoint.done \in Marks(AssetShards)
    BY <2>1 DEF TypeOK, AssetCheckpoints
  <2>3. /\ MarksMatch(assetCheckpoint.done, assetInputs)
        /\ IsJoinOfDone(assetCheckpoint.joined, assetCheckpoint.done, polygons, misread)
    BY <2>1 DEF AssetCheckpointSound, OwnAssetCheckpoint
  <2>4. \A i \in DOMAIN assetInputs : <<i, assetInputs[i]>> \in assetCheckpoint.done
    BY <2>2, LoopEnds DEF OwnAssetCheckpoint
  <2>5. IsJoin(assetCheckpoint.joined, assetInputs, polygons, misread)
    BY <2>2, <2>3, <2>4, AllJoined
  <2> QED BY <2>1, <2>5 DEF OutputSound, Output
<1>2. TypeOK' /\ CheckpointSound' /\ OwnCheckpoint' /\ SourcesBehind' /\ TransactionSound' /\
      PolygonsSound'
  BY DEF TypeOK, CheckpointSound, OwnCheckpoint, SourcesBehind, TransactionSound,
         PolygonsSound, PolygonsWritten
<1>3. AssetCheckpointSound' /\ ManifestSound' /\ OwnAssetCheckpoint' /\ ReleaseReady'
  BY DEF AssetCheckpointSound, ManifestSound, OwnAssetCheckpoint, ReleaseReady, Reusable,
         Validated
<1> QED BY <1>1, <1>2, <1>3

LEMMA WriteImagesStep ==
  ASSUME IInv, WriteImages
  PROVE  IInv'
<1> USE DEF WriteImages, IInv, AtRest, inputVars, transaction, fileVars, control
<1>1. TypeOK'
  BY OutputIsJoined DEF TypeOK
<1>2. CheckpointSound' /\ OwnCheckpoint' /\ SourcesBehind' /\ TransactionSound' /\
      PolygonsSound'
  BY DEF CheckpointSound, OwnCheckpoint, SourcesBehind, TransactionSound, PolygonsSound,
         PolygonsWritten
<1>3. OutputSound'
  <2>1. Output' = Output /\ images' = Output /\ build' = "links"
    BY DEF Output
  <2>2. Output \in Joined /\ IsJoin(Output, assetInputs, polygons, misread)
    BY OutputIsJoined DEF OutputSound
  <2> QED BY <2>1, <2>2 DEF OutputSound
<1>4. AssetCheckpointSound' /\ ManifestSound' /\ OwnAssetCheckpoint' /\ ReleaseReady'
  BY DEF AssetCheckpointSound, ManifestSound, OwnAssetCheckpoint, ReleaseReady, Reusable,
         Validated
<1> QED BY <1>1, <1>2, <1>3, <1>4

LEMMA WriteLinksStep ==
  ASSUME IInv, WriteLinks
  PROVE  IInv'
<1> USE DEF WriteLinks, IInv, AtRest, inputVars, transaction, fileVars, control
<1>1. TypeOK'
  BY OutputIsJoined DEF TypeOK
<1>2. CheckpointSound' /\ OwnCheckpoint' /\ SourcesBehind' /\ TransactionSound' /\
      PolygonsSound'
  BY DEF CheckpointSound, OwnCheckpoint, SourcesBehind, TransactionSound, PolygonsSound,
         PolygonsWritten
<1>3. AssetCheckpointSound' /\ ManifestSound' /\ OwnAssetCheckpoint' /\ OutputSound' /\
      ReleaseReady'
  BY DEF AssetCheckpointSound, ManifestSound, OwnAssetCheckpoint, OutputSound, Output,
         ReleaseReady, Reusable, Validated
<1> QED BY <1>1, <1>2, <1>3

LEMMA DropAssetCheckpointStep ==
  ASSUME IInv, DropAssetCheckpoint
  PROVE  IInv'
<1> USE DEF DropAssetCheckpoint, IInv, AtRest, inputVars, transaction, fileVars, control
<1>1. TypeOK' /\ CheckpointSound' /\ OwnCheckpoint' /\ SourcesBehind' /\ TransactionSound' /\
      PolygonsSound'
  BY DEF TypeOK, CheckpointSound, OwnCheckpoint, SourcesBehind, TransactionSound,
         PolygonsSound, PolygonsWritten
<1>2. AssetCheckpointSound' /\ ManifestSound' /\ OwnAssetCheckpoint' /\ OutputSound' /\
      ReleaseReady'
  BY DEF AssetCheckpointSound, ManifestSound, OwnAssetCheckpoint, OutputSound, Output,
         ReleaseReady, Reusable, Validated
<1> QED BY <1>1, <1>2

LEMMA WriteManifestStep ==
  ASSUME IInv, WriteManifest
  PROVE  IInv'
<1> USE DEF WriteManifest, IInv, AtRest, inputVars, transaction, fileVars, control
<1>a. polygons \in Tables /\ Canonical(polygons, RowsOfAll(inputs))
  BY DEF PolygonsSound, PolygonsWritten
<1>b. /\ images \in Joined /\ IsJoin(images, assetInputs, polygons, misread)
      /\ links = images
  BY DEF OutputSound
<1>c. manifest' \in PublicManifests /\ manifest' # None
  <2>1. manifest' \in PublicManifests
    BY <1>a, <1>b DEF TypeOK, PublicManifests
  <2> QED BY <2>1
<1>1. TypeOK'
  BY <1>c DEF TypeOK
<1>2. ManifestSound'
  BY <1>a, <1>b DEF ManifestSound
<1>3. ReleaseReady'
  BY <1>c DEF ReleaseReady, Reusable, Validated
<1>4. CheckpointSound' /\ OwnCheckpoint' /\ SourcesBehind' /\ TransactionSound' /\
      PolygonsSound'
  BY DEF CheckpointSound, OwnCheckpoint, SourcesBehind, TransactionSound, PolygonsSound,
         PolygonsWritten
<1>5. AssetCheckpointSound' /\ OwnAssetCheckpoint' /\ OutputSound'
  BY DEF AssetCheckpointSound, OwnAssetCheckpoint, OutputSound, Output
<1> QED BY <1>1, <1>2, <1>3, <1>4, <1>5

LEMMA DropCheckpointStep ==
  ASSUME IInv, DropCheckpoint
  PROVE  IInv'
<1> USE DEF DropCheckpoint, IInv, AtRest, inputVars, transaction, fileVars, control
<1>1. TypeOK' /\ CheckpointSound' /\ OwnCheckpoint' /\ SourcesBehind' /\ TransactionSound' /\
      PolygonsSound'
  BY DEF TypeOK, CheckpointSound, OwnCheckpoint, SourcesBehind, TransactionSound,
         PolygonsSound, PolygonsWritten
<1>2. AssetCheckpointSound' /\ ManifestSound' /\ OwnAssetCheckpoint' /\ OutputSound' /\
      ReleaseReady'
  BY DEF AssetCheckpointSound, ManifestSound, OwnAssetCheckpoint, OutputSound, Output,
         ReleaseReady, Reusable, Validated
<1> QED BY <1>1, <1>2

LEMMA InterruptedStep ==
  ASSUME IInv, Interrupted
  PROVE  IInv'
<1> USE DEF Interrupted, IInv, AtRest, inputVars, transaction, fileVars, control
<1>1. TypeOK'
  BY NoRowsIsTable DEF TypeOK
<1>2. CheckpointSound' /\ OwnCheckpoint' /\ SourcesBehind' /\ TransactionSound' /\
      PolygonsSound'
  BY DEF CheckpointSound, OwnCheckpoint, SourcesBehind, TransactionSound, PolygonsSound,
         PolygonsWritten
<1>3. AssetCheckpointSound' /\ ManifestSound' /\ OwnAssetCheckpoint' /\ OutputSound' /\
      ReleaseReady'
  BY DEF AssetCheckpointSound, ManifestSound, OwnAssetCheckpoint, OutputSound, Output,
         ReleaseReady, Reusable, Validated
<1> QED BY <1>1, <1>2, <1>3

LEMMA StutterStep ==
  ASSUME IInv, UNCHANGED vars
  PROVE  IInv'
<1> USE DEF vars, inputVars, transaction, fileVars, control, IInv, AtRest
<1>1. TypeOK' /\ ManifestSound' /\ PolygonsSound'
  BY DEF TypeOK, ManifestSound, PolygonsSound
<1>2. CheckpointSound' /\ OwnCheckpoint' /\ SourcesBehind' /\ TransactionSound'
  BY DEF CheckpointSound, OwnCheckpoint, SourcesBehind, TransactionSound
<1>3. AssetCheckpointSound' /\ OwnAssetCheckpoint' /\ OutputSound'
  BY DEF AssetCheckpointSound, OwnAssetCheckpoint, OutputSound, Output
<1>4. ReleaseReady'
  BY DEF ReleaseReady, Reusable, Validated
<1> QED BY <1>1, <1>2, <1>3, <1>4

LEMMA NextInvariant ==
  ASSUME IInv, [Next]_vars
  PROVE  IInv'
<1>1. CASE InputsChange
  BY <1>1, InputsChangeStep
<1>2. CASE ReuseRelease
  BY <1>2, ReuseReleaseStep
<1>3. CASE OpenCheckpoint
  BY <1>3, OpenCheckpointStep
<1>4. CASE SkipSource
  BY <1>4, SkipSourceStep
<1>5. CASE BeginSource
  BY <1>5, BeginSourceStep
<1>6. CASE \E row \in left : AddRow(row)
  BY <1>6, AddRowStep
<1>7. CASE CompleteSource
  BY <1>7, CompleteSourceStep
<1>8. CASE ReusePolygons
  BY <1>8, ReusePolygonsStep
<1>9. CASE WritePolygons
  BY <1>9, WritePolygonsStep
<1>10. CASE RecordOutput
  BY <1>10, RecordOutputStep
<1>11. CASE OpenAssetCheckpoint
  BY <1>11, OpenAssetCheckpointStep
<1>12. CASE SkipAssetSource
  BY <1>12, SkipAssetSourceStep
<1>13. CASE \E content \in AssetShards : ProcessAssetSource(content)
  BY <1>13, ProcessAssetSourceStep
<1>14. CASE AssetSourcesDone
  BY <1>14, AssetSourcesDoneStep
<1>15. CASE WriteImages
  BY <1>15, WriteImagesStep
<1>16. CASE WriteLinks
  BY <1>16, WriteLinksStep
<1>17. CASE DropAssetCheckpoint
  BY <1>17, DropAssetCheckpointStep
<1>18. CASE WriteManifest
  BY <1>18, WriteManifestStep
<1>19. CASE DropCheckpoint
  BY <1>19, DropCheckpointStep
<1>20. CASE Interrupted
  BY <1>20, InterruptedStep
<1>21. CASE UNCHANGED vars
  BY <1>21, StutterStep
<1> QED BY <1>1, <1>2, <1>3, <1>4, <1>5, <1>6, <1>7, <1>8, <1>9, <1>10, <1>11, <1>12, <1>13,
       <1>14, <1>15, <1>16, <1>17, <1>18, <1>19, <1>20, <1>21, Zenon DEF Next

\* In every state, of a build or between two, each database and file holds what
\* the invariant says it was made from.
THEOREM InvariantHolds == Spec => []IInv
<1>1. Init => IInv
  BY InitInvariant
<1>2. IInv /\ [Next]_vars => IInv'
  BY NextInvariant
<1> QED BY <1>1, <1>2, PTL DEF Spec

(***************************************************************************)
(* What follows from it.                                                   *)
(***************************************************************************)

\* All variables keep their types; the output a database has recorded is a
\* table and never a missing file.
THEOREM TypeCorrect == Spec => []TypeOK
<1>1. IInv => TypeOK
  BY DEF IInv
<1> QED BY <1>1, InvariantHolds, PTL

\* The files that validate against the manifest are one release of the inputs
\* it lists, whichever builds were interrupted, and wherever.
THEOREM ReleaseCorrect == Spec => []ReleaseIsWhole
<1>1. IInv => ReleaseIsWhole
  BY DEF IInv, ManifestSound, Validated, ReleaseIsWhole
<1> QED BY <1>1, InvariantHolds, PTL

\* A build that returns leaves the release of the present inputs, whatever it
\* reused of earlier ones.
THEOREM ReturnsCorrect == Spec => []ReturnsCurrent
<1>1. IInv => ReturnsCurrent
  BY DEF IInv, ManifestSound, ReleaseReady, Reusable, Validated, ReturnsCurrent
<1> QED BY <1>1, InvariantHolds, PTL

\* A build, killed or not, drops the database of the present inputs only when
\* the manifest has them: what was deduplicated is never done twice.
THEOREM WorkIsKept == Spec => WorkKept
<1> DEFINE Kept == checkpoint # None /\ checkpoint.inputs = inputs =>
                     \/ checkpoint' # None /\ checkpoint.done \subseteq checkpoint'.done
                     \/ UNCHANGED inputs /\ manifest # None /\ manifest.inputs = inputs
<1>1. ASSUME IInv, [Next]_vars, checkpoint # None, checkpoint.inputs = inputs
      PROVE  \/ checkpoint' # None /\ checkpoint.done \subseteq checkpoint'.done
             \/ UNCHANGED inputs /\ manifest # None /\ manifest.inputs = inputs
  <2>1. checkpoint \in Checkpoints
    BY <1>1 DEF IInv, TypeOK
  <2>2. MarksMatch(checkpoint.done, checkpoint.inputs)
    BY <1>1 DEF IInv, CheckpointSound
  <2>3. CASE OpenCheckpoint
    BY <1>1, <2>2, <2>3 DEF OpenCheckpoint, Compatible
  <2>4. ~AtRest' => checkpoint' # None
    BY <1>1, NextInvariant DEF IInv, OwnCheckpoint
  <2>5. CASE CompleteSource \/ RecordOutput
    BY <2>1, <2>4, <2>5 DEF CompleteSource, RecordOutput, Checkpoints, AtRest
  <2>6. CASE ReuseRelease
    BY <2>6 DEF ReuseRelease, Reusable, Validated, inputVars
  <2>7. CASE DropCheckpoint
    BY <1>1, <2>7 DEF DropCheckpoint, IInv, ReleaseReady, Reusable, Validated, inputVars
  <2>8. ASSUME UNCHANGED checkpoint
        PROVE  checkpoint' # None /\ checkpoint.done \subseteq checkpoint'.done
    BY <1>1, <2>8
  <2> QED BY <1>1, <2>3, <2>5, <2>6, <2>7, <2>8, Zenon
          DEF Next, InputsChange, SkipSource, BeginSource, AddRow, ReusePolygons, WritePolygons,
              OpenAssetCheckpoint, SkipAssetSource, ProcessAssetSource, AssetSourcesDone,
              WriteImages, WriteLinks, DropAssetCheckpoint, WriteManifest, Interrupted, vars
<1>2. IInv /\ [Next]_vars => [Kept]_vars
  BY <1>1
<1> QED BY <1>2, InvariantHolds, PTL DEF Spec, WorkKept
=============================================================================
