----------------------------- MODULE References -----------------------------
(***************************************************************************)
(* assets/references.py: what a tag value refers to.  A value, stripped,   *)
(* is a prefix and a text.  The prefix "photo:" stands for a URL of a      *)
(* Flickr photo, whose text is its id, "http:" for any other http(s) URL,  *)
(* "broken:" for a URL urlparse raises ValueError on, and "blank:" for a   *)
(* value of white space only, which is a reference, and an invalid one.    *)
(***************************************************************************)
EXTENDS FiniteSets

CONSTANTS Digits, Pairs, Uuids,   \* the texts that are a number, two, a UUID
          Lower(_),
          PanoramaxKeys           \* panoramax and panoramax:<digits>

ImageReferenceKeys ==
  {"image", "wikimedia_commons", "mapillary", "panoramax", "kartaview", "flickr", "bubbleid"}

ASSUME PanoramaxAssumption == PanoramaxKeys \cap ImageReferenceKeys \subseteq {"panoramax"}

Value(prefix, text) == [prefix |-> prefix, text |-> text]
Urls == {"photo:", "http:"}
Titles == {"Category:", "File:", "Image:"}

Reference(provider, key, value, canonical, kind) ==
  [provider |-> provider, key |-> key, value |-> value, canonical |-> canonical, kind |-> kind]

Number(v) == v.prefix = "" /\ v.text \in Digits

\* _commons: a category loses its prefix, Image: becomes File:.
Commons(v) ==
  CASE v.prefix = "Category:" /\ v.text # "" -> <<Value("", v.text), "commons_category">>
    [] v.prefix \in {"File:", "Image:"} /\ v.text # "" -> <<Value("File:", v.text), "commons_file">>
    [] OTHER -> <<v, "invalid">>

Flickr(v) ==
  IF Number(v) \/ (v.prefix = "photo:" /\ v.text \in Digits)
  THEN <<Value("", v.text), "flickr">> ELSE <<v, "invalid">>

KeptIf(valid, v, kind) == <<v, IF valid THEN kind ELSE "invalid">>

\* _canonical: the provider, and the canonical reference with its kind.
ProviderOf(key, v) ==
  CASE key = "image" /\ v.prefix \in Titles -> "wikimedia_commons"
    [] key = "bubbleid" -> "streetside"
    [] key \in PanoramaxKeys -> "panoramax"
    [] OTHER -> key
Canonical(key, v) ==
  CASE key = "wikimedia_commons" \/ (key = "image" /\ v.prefix \in Titles) -> Commons(v)
    [] key = "image" /\ v.prefix \notin Titles -> KeptIf(v.prefix \in Urls, v, "generic_http")
    [] key \in PanoramaxKeys /\ v.prefix = "" /\ v.text \in Uuids ->
         <<Value("", Lower(v.text)), "panoramax">>
    [] key = "flickr" -> Flickr(v)
    [] key = "mapillary" -> KeptIf(Number(v), v, "mapillary")
    [] key = "bubbleid" -> KeptIf(Number(v), v, "streetside")
    [] key = "kartaview" -> KeptIf(v.prefix = "" /\ v.text \in Pairs, v, "kartaview")
    [] OTHER -> <<v, "invalid">>

ReferenceOf(key, v) ==
  LET found == Canonical(key, v) IN Reference(ProviderOf(key, v), key, v, found[1], found[2])

\* urlparse in _image_reference and _flickr_url_id.
Raises(key, v) == key \in {"image", "flickr"} /\ v.prefix = "broken:"

\* references_from_row.  Both fields of a row are functions of keys; the
\* primary panoramax tag is taken from panoramax_values when there are any.  The
\* columns _tag_value falls back to repeat the tags (ingest/transform.py:234).
Tags(row) ==
  {<<key, row.tags[key]>> : key \in {k \in DOMAIN row.tags \cap ImageReferenceKeys :
     k # "panoramax" \/ DOMAIN row.panoramax = {}}}
  \cup {<<key, row.panoramax[key]>> : key \in DOMAIN row.panoramax}
Referring(row) == {tag \in Tags(row) : tag[2] # Value("", "")}
ReferencesOf(row) == {ReferenceOf(tag[1], tag[2]) : tag \in Referring(row)}
RowRaises(row) == \E tag \in Referring(row) : Raises(tag[1], tag[2])
=============================================================================
