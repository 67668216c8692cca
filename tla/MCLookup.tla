------------------------------ MODULE MCLookup ------------------------------
\* Lookup for TLC.  The API of Mapillary may redirect to itself, to a mirror
\* and from there back or to plain HTTP; the site of an image may resolve to
\* anything; the category has four files, two more than the cap.
EXTENDS Lookup, TLC

Row(key, v) == [tags |-> (key :> v), panoramax |-> <<>>]
Row2(key, v, other, w) == [tags |-> (key :> v @@ other :> w), panoramax |-> <<>>]
Picture == Row2("mapillary", Value("", "1"), "image", Value("http:", "site"))
Members == Row("wikimedia_commons", Value("Category:", "c"))
SameFile ==
  Row2("image", Value("Image:", "f1"), "wikimedia_commons", Value("File:", "f1"))
Sized == Row2("flickr", Value("photo:", "1"), "kartaview", Value("", "1/2"))
Panorama ==
  [tags |-> ("panoramax" :> Value("", "U") @@ "bubbleid" :> Value("", "1")),
   panoramax |-> ("panoramax" :> Value("", "U") @@ "panoramax:0" :> Value("", "u"))]
Named == Row("wikimedia_commons", Value("", "c"))
Blank == Row("mapillary", Value("blank:", ""))
Broken == Row("image", Value("broken:", "site"))

MCLower(text) == IF text = "U" THEN "u" ELSE text
MCBatches == {{Picture}, {Members}, {SameFile}, {Sized}, {Panorama, Broken}, {Panorama},
              {Blank}}
CollidingBatches == {{Members, Named}}

MCApi(kind) == Url("https", kind, "default")
Mirror == Url("https", "mirror", "default")
Plain == Url("http", "mirror", "default")
Site == Url("http", "site", "default")
BadPort == Url("http", "site", "bad")
Address == Url("http", "127.0.0.1", "default")
Address6 == Url("http", "2001:1::1", "default")
MCUrlOf(canonical) == Site
MCLiteral(host) ==
  CASE host = "127.0.0.1" -> host
    [] host = "2001:1::1" -> "public1"
    [] OTHER -> None
MCDns(host) ==
  CASE host = "site" -> {{"public1"}, {"private", "public1"}, {}, Unresolved}
    [] host = "mapillary" -> {{"public1"}, {"private", "public2"}, Unresolved}
    [] OTHER -> {{"public2"}}

R(status, body) == [status |-> status, location |-> None, body |-> body]
To(location) == [status |-> "redirect", location |-> location, body |-> None]
MCReplies(kind, url) ==
  CASE kind = "generic_http" ->
         {To(Site), To(BadPort), To(Address), To(Address6), To(None), R("broken", None), R("http_error", None)}
         \cup {R("ok", [image |-> b]) : b \in BOOLEAN}
    [] kind = "mapillary" /\ url = Mirror ->
         {To(MCApi("mapillary")), To(Plain), R("not_found", None)}
    [] kind = "mapillary" /\ url # Mirror ->
         {To(MCApi("mapillary")), To(Mirror), R("rate_limited", None), R("denied", None),
          R("undecodable", None)}
         \cup {R("ok", [error |-> "none", link |-> TRUE, expiry |-> e]) : e \in {"good", "bad"}}
    [] kind = "flickr" ->
         {R("ok", [ok |-> b, sizes |-> s]) : b \in BOOLEAN, s \in {{}, {6, 12}}}
    [] kind = "kartaview" ->
         {R("ok", [success |-> a, empty |-> b, link |-> c]) : a, b, c \in BOOLEAN}
    [] kind = "panoramax" ->
         {R("ok", [empty |-> a, same |-> b, link |-> c]) : a, b, c \in BOOLEAN}
    [] kind = "commons_file" -> {R("ok", "answer"), R("ok", "error"), R("ok", "partial")}
    [] kind = "commons_category" ->
         {R("ok", "answer"), R("ok", "error"), R("ok", "partial"), R("ok", "malformed"),
          R("http_error", None)}

MCPageId(f) == CASE f = "f1" -> 1 [] f = "f2" -> 2 [] f = "f3" -> 3 [] OTHER -> 4
MCSortKey(f) == CASE f = "f3" -> 1 [] f = "f1" -> 2 [] f = "f4" -> 3 [] OTHER -> 4
MCFileIs(f) == IF f = "f2" THEN "other" ELSE "image"
=============================================================================
