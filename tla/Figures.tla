------------------------------ MODULE Figures ------------------------------
(***************************************************************************)
(* The figures of the dataset card: the catalog row of a polygon           *)
(* (artifacts/catalog.py), what SQL makes of the catalog (statistics.py),  *)
(* the counts of the public images and links (asset_statistics.py), and    *)
(* the polygons of each H3 cell (geography/pipeline.py).                   *)
(***************************************************************************)
EXTENDS Integers, Sequences, FiniteSets, FiniteSetsExt

CONSTANTS ProviderCount,   \* PROVIDERS are 0 .. ProviderCount - 1
          Panoramax,       \* which of them is panoramax
          Percents         \* AREA_QUANTILES

Providers == 0..(ProviderCount - 1)

ASSUME ProvidersAssumption == ProviderCount \in Nat /\ Percents \subseteq 0..100
\* A fact of arithmetic, which provers have no rule for.
ASSUME PowersAssumption == \A p \in Providers : 2^(p + 1) = 2 * 2^p

Count(s, Test(_)) == Cardinality({n \in DOMAIN s : Test(s[n])})
Values(s, Field(_)) == {Field(s[n]) : n \in DOMAIN s}
Sum(s, Field(_)) == MapThenSumSet(LAMBDA n : Field(s[n]), DOMAIN s)

(***************************************************************************)
(* A row of polygons.parquet has the columns that are not null and the     *)
(* keys of panoramax_values.                                               *)
(***************************************************************************)

Tagged(row, p) == IF p = Panoramax THEN row.panoramax # {} ELSE p \in row.columns

\* _provider_mask.  Faulty: the column panoramax is read like the others.
MaskOfColumns(row) == MapThenSumSet(LAMBDA p : 2^p, Providers \cap row.columns)
ProviderMask(row) == MapThenSumSet(LAMBDA p : 2^p, {p \in Providers : Tagged(row, p)})
CatalogRow(row) == [type |-> row.type, area |-> row.area, mask |-> ProviderMask(row)]

HasBit(mask, p) == (mask \div 2^p) % 2 = 1

\* ORDER BY area_m2 LIMIT 1 OFFSET offset.
AreaAt(observations, offset) ==
  CHOOSE area \in Values(observations, LAMBDA o : o.area) :
    /\ Count(observations, LAMBDA o : o.area < area) <= offset
    /\ Count(observations, LAMBDA o : o.area <= area) > offset
Offset(percent, rows) == LET rank == -((-percent * rows) \div 100) IN IF rank = 0 THEN 0 ELSE rank - 1

DatasetStatistics(observations) ==
  LET rows == Len(observations)
      masks == Values(observations, LAMBDA o : o.mask)
      areas == Values(observations, LAMBDA o : o.area)
  IN [rows |-> rows,
      types |-> [t \in Values(observations, LAMBDA o : o.type) |->
                   Count(observations, LAMBDA o : o.type = t)],
      providers |-> [p \in Providers |-> Count(observations, LAMBDA o : HasBit(o.mask, p))],
      combinations |-> [c \in {{p \in Providers : HasBit(mask, p)} : mask \in masks} |->
                          Count(observations, LAMBDA o : \A p \in Providers :
                                                HasBit(o.mask, p) <=> p \in c)],
      area |-> IF rows = 0 THEN <<>>
               ELSE <<Sum(observations, LAMBDA o : o.area), Min(areas), Max(areas)>>,
      quantiles |-> IF rows = 0 THEN <<>>
                    ELSE [p \in Percents |-> AreaAt(observations, Offset(p, rows))]]

\* public_asset_statistics, from one pass over the images and then one over
\* the links.
AssetStatistics(images, links) ==
  LET direct == {i \in images : i.url}
      usable == {l \in links : \E i \in direct : i.id = l.image}
      By(S, Field(_)) == [v \in {Field(x) : x \in S} |-> Cardinality({x \in S : Field(x) = v})]
  IN [rows |-> Cardinality(images), relationships |-> Cardinality(links),
      providers |-> By(images, LAMBDA i : i.provider),
      direct |-> Cardinality(direct),
      stable |-> Cardinality({i \in direct : ~ i.expires}),
      expiring |-> Cardinality({i \in direct : i.expires}),
      usable |-> By(usable, LAMBDA l : l.relation),
      polygons |-> Cardinality({l.polygon : l \in usable})]

\* _aggregate_shard with _aggregate_cells: one shard, so the sum is its own.
Cells(rows) ==
  [c \in Values(rows, LAMBDA r : r.cell) |-> Count(rows, LAMBDA r : r.cell = c)]
CellRange(cells) ==
  LET counts == {cells[c] : c \in DOMAIN cells}
  IN IF counts = {} THEN <<0, 0>> ELSE <<Min(counts), Max(counts)>>
=============================================================================
