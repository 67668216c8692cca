---------------------------- MODULE MCExtraction ----------------------------
(***************************************************************************)
(* Three sources: one with every kind of line, one that mentions an object *)
(* twice, one whose last batch is short.  The batches of the generators    *)
(* have sizes that do not divide each other, as in the code (400 and 512). *)
(***************************************************************************)
EXTENDS Extraction

Object(id, tagged) == [id |-> id, tagged |-> tagged]
Record(id, defects) == [kind |-> "record", id |-> id, defects |-> defects]
Blank == [kind |-> "blank"]

MCSources ==
  {[objects |-> <<Object(1, TRUE), Object(2, FALSE), Object(3, TRUE), Object(4, TRUE)>>,
    lines |-> <<Record(3, {"invalid_geometry", "invalid_timestamp"}), Record(2, {}), Blank,
                Record(1, {}), Record(4, {"invalid_timestamp"}), Record(1, {})>>],
   [objects |-> <<Object(1, TRUE), Object(1, TRUE)>>, lines |-> <<Record(1, {})>>],
   [objects |-> <<Object(1, TRUE), Object(5, TRUE)>>, lines |-> <<Record(5, {}), Record(1, {"invalid_timestamp"})>>]}

MCAssetJobs == {File("assets", "database", "asset-sort"), Temp("assets", ".parquet")}
MCReports == {Temp("public", "public-manifest"), Temp("assets", ".png")}
\* Without the picture, whose temporary file stays as well.
ReportsSwept == {Temp("public", "public-manifest")}
MCForeign == {Temp("data", ".txt")}
=============================================================================
