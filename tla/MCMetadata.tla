---------------------------- MODULE MCMetadata -----------------------------
(***************************************************************************)
(* Two tables whose maps have the same dimensions, one with more rows, and *)
(* a release without rows.  Two releases share a table and not the images. *)
(***************************************************************************)
EXTENDS Metadata

CONSTANTS r1, r2, r3, r4, r5, A, B, C, old, new, hero, citation

MCTableOf(r) == CASE r \in {r1, r2} -> A [] r = r3 -> B [] r = r4 -> C [] OTHER -> NoTable

Row(t, area, columns, panoramax, cell) ==
  [type |-> t, area |-> area, columns |-> columns, panoramax |-> panoramax, cell |-> cell]
MCRows(table) ==
  CASE table = A -> <<Row("way", 3, {0, 1}, {"panoramax:1"}, "x"), Row("relation", 5, {1}, {}, "y")>>
    [] table = B -> <<Row("way", 3, {0}, {}, "x"), Row("way", 2, {2}, {}, "z")>>
    [] table = C -> <<Row("way", 4, {0, 2}, {}, "x"), Row("way", 1, {}, {"panoramax"}, "x"),
                      Row("way", 4, {2}, {}, "y")>>

Image(id, url, expires) == [id |-> id, provider |-> "mapillary", url |-> url, expires |-> expires]
Link(image, polygon, relation) == [image |-> image, polygon |-> polygon, relation |-> relation]
MCImages(r) ==
  IF r = r1 THEN {Image(1, TRUE, TRUE), Image(2, FALSE, FALSE)}
  ELSE IF r = r5 THEN {} ELSE {Image(1, TRUE, TRUE), Image(2, TRUE, FALSE)}
MCLinks(r) ==
  IF r = r5 THEN {}
  ELSE {Link(1, 1, "direct_reference"), Link(2, 1, "category_membership"), Link(2, 2, "direct_reference")}
=============================================================================
