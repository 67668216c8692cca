------------------------------ MODULE Reports ------------------------------
(***************************************************************************)
(* What generate_metadata promises of the reports of a release: the map,   *)
(* the statistics, the card, and the copies of the hero picture and of the *)
(* citation.  Each is only ever replaced by that of the release being      *)
(* reported, and when a generation returns, all are those that a first     *)
(* generation in an empty directory would write.  Nothing else, no cache   *)
(* and no earlier release, can be seen in them.                            *)
(*                                                                         *)
(* The code keeps this promise with one exception: when a generation is    *)
(* killed after it drew the map and before it recorded that, the map is    *)
(* doubtful until it is drawn again.                                       *)
(***************************************************************************)
CONSTANTS Releases, MapOf(_), StatisticsOf(_), Packaged, NoReport

VARIABLES release,                        \* what is reported
          map, statistics, card, copies,  \* the files
          drawn, doubtful,
          returned                        \* the release a generation last returned for

files == <<map, statistics, card, copies>>
doubts == <<drawn, doubtful>>
reports == <<release, files, doubts, returned>>

Init ==
  /\ release \in Releases /\ returned = NoReport
  /\ map = NoReport /\ statistics = NoReport /\ card = NoReport /\ copies \subseteq Packaged
  /\ drawn = FALSE /\ doubtful = FALSE

NewRelease == release' \in Releases /\ UNCHANGED <<files, doubts, returned>>

Begin == returned' = NoReport /\ UNCHANGED <<release, files, doubts>>

DrawMap ==
  /\ map' = MapOf(release) /\ drawn' = TRUE /\ doubtful' = FALSE
  /\ UNCHANGED <<release, statistics, card, copies, returned>>
Record == drawn' = FALSE /\ UNCHANGED <<release, files, doubtful, returned>>

Copy == copies' \in {copies \cup {c} : c \in Packaged}
        /\ UNCHANGED <<release, map, statistics, card, doubts, returned>>

WriteStatistics ==
  /\ statistics' = StatisticsOf(release)
  /\ UNCHANGED <<release, map, card, copies, doubts, returned>>

WriteCard ==
  /\ statistics = StatisticsOf(release)
  /\ card' = StatisticsOf(release)
  /\ UNCHANGED <<release, map, statistics, copies, doubts, returned>>

Current ==
  /\ statistics = StatisticsOf(release) /\ card = StatisticsOf(release) /\ copies = Packaged
  /\ map = MapOf(release) \/ doubtful

Return == Current /\ returned' = release /\ UNCHANGED <<release, files, doubts>>

Kill ==
  /\ drawn' = FALSE /\ doubtful' = (doubtful \/ drawn)
  /\ UNCHANGED <<release, files, returned>>

Next ==
  \/ NewRelease \/ Begin \/ DrawMap \/ Record \/ Copy \/ WriteStatistics \/ WriteCard
  \/ Return \/ Kill
Spec == Init /\ [][Next]_reports
=============================================================================
