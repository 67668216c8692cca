------------------------------- MODULE Lookup -------------------------------
(***************************************************************************)
(* What happens inside the lookups of one batch of references: the chain   *)
(* of requests of resolvers/http.py, with its URL policy, the connections  *)
(* of pinned_transport.py, the resolver of each provider, and how a        *)
(* failure becomes a status (registry.py) or reaches the gather of         *)
(* assets/batch.py.  Module Resolution has the waiting around it: slots,   *)
(* pace, cooldowns, the cache over many builds.                            *)
(*                                                                         *)
(* Lookups run concurrently; the DNS and the Commons category may answer   *)
(* otherwise at each step.  A URL is a record of what the policy looks at. *)
(***************************************************************************)
EXTENDS References, Integers

CONSTANTS Batches,        \* the batches of polygon rows that may be processed
          Environment,    \* providers whose credential is set
          UrlOf(_),       \* URL of a canonical reference of kind generic_http
          Api(_),         \* URL of the API of a kind of resolver
          Dns(_),         \* answers a host can have: sets of addresses, in any order, or Unresolved
          Literal(_),     \* the address a host is, or None
          Colons,         \* the hosts that are IPv6 addresses
          Public,         \* the global addresses
          Replies(_, _),  \* what a server can reply to a kind of resolver at a URL
          Files,          \* the files the category can have
          PageId(_), SortKey(_),   \* of a file; the API lists by sort key
          FileIs(_),      \* of a title: "image", "other" or "missing"
          FirstMembers, Edits,   \* the category at first, and how often it changes
          Cap, Page, TitleBatch, \* category_cap, cmlimit, title_batch_size
          MaxRedirects, Attempts,
          Unresolved, None

Key(ref) == <<ref.provider, ref.canonical>>
AllReferences == UNION {ReferencesOf(row) : row \in UNION Batches}
Keys == {Key(ref) : ref \in AllReferences}

Url(scheme, host, port) == [scheme |-> scheme, host |-> host, userinfo |-> FALSE, port |-> port]
Origin(url) == <<url.scheme, url.host, url.port>>

ASSUME SizesAssumption ==
  {Cap, Page, TitleBatch, MaxRedirects, Attempts} \subseteq Nat \ {0} /\ Edits \in Nat
ASSUME FilesAssumption ==
  /\ FirstMembers \subseteq Files /\ IsFiniteSet(Files)
  /\ \A f, g \in Files : /\ PageId(f) \in Nat /\ SortKey(f) \in Nat
                         /\ f # g => PageId(f) # PageId(g) /\ SortKey(f) # SortKey(g)
ASSUME NoneAssumption == None \notin Files /\ None \notin AllReferences
ASSUME OneCategory ==
  \A r, q \in AllReferences :
    r.kind = "commons_category" /\ q.kind = "commons_category" => r.canonical = q.canonical

VARIABLES
  batch,      \* of polygon rows
  state,      \* of the batch: "new", "open", "done" or "failed"
  task,       \* the reference each key is resolved for
  tries,      \* attempt_count
  request,    \* of each lookup: where get_json or probe_image is
  pool,       \* open connections
  work,       \* what a Commons resolver has collected
  result,     \* of each lookup
  category,   \* the members of the Commons category
  edits,      \* how often it changed
  disturbed   \* whether it did, or its API said less than it should, during a lookup

lookupVars == <<tries, request, work, result>>
vars == <<batch, state, task, lookupVars, pool, category, edits, disturbed>>

(***************************************************************************)
(* resolvers/policy.py.                                                    *)
(***************************************************************************)

\* validate_public_url.  A port that is no number, or out of range, makes
\* parsed.port raise ValueError, before the range is looked at.
Candidates(url, addresses) ==
  addresses \cup (IF Literal(url.host) = None THEN {} ELSE {Literal(url.host)})
\* Faulty: one public address is enough.
VerdictOfAny(url, addresses) ==
  CASE url.scheme \notin {"http", "https"} \/ url.host = None \/ url.userinfo -> "unsafe"
    [] url.port = "bad" -> "escapes"
    [] url.port = "zero" \/ Candidates(url, addresses) \cap Public = {} -> "unsafe"
    [] OTHER -> "safe"
Verdict(url, addresses) ==
  CASE url.scheme \notin {"http", "https"} \/ url.host = None \/ url.userinfo -> "unsafe"
    [] url.port = "bad" -> "escapes"
    [] url.port = "zero" \/ Candidates(url, addresses) = {} -> "unsafe"
    [] ~ (Candidates(url, addresses) \subseteq Public) -> "unsafe"
    [] OTHER -> "safe"

(***************************************************************************)
(* Outcomes.                                                               *)
(***************************************************************************)

Result(status, assets, reason) ==
  [status |-> status, assets |-> assets, reason |-> reason, truncated |-> FALSE]
Escaped == Result("escaped", {}, "exception")

NoWork == [members |-> {}, from |-> None, left |-> {}, assets |-> {},
           other |-> FALSE, truncated |-> FALSE]
Idle == [step |-> "idle", url |-> None, hops |-> 0, secret |-> FALSE, peer |-> None]

Resolves(k, res) ==
  /\ result' = [result EXCEPT ![k] = res]
  /\ request' = [request EXCEPT ![k] = Idle] /\ work' = [work EXCEPT ![k] = NoWork]
  /\ UNCHANGED tries

\* _resolve_attempt with _safe_http_result: another attempt, from nothing.
\* Faulty: one too many, and it goes on with the work of the last.
TransientFailureKeepingWork(k) ==
  IF tries[k] <= Attempts
  THEN /\ request' = [request EXCEPT ![k] = [Idle EXCEPT !.step = "start"]]
       /\ UNCHANGED <<tries, result, work>>
  ELSE Resolves(k, Result("temporary_failure", {}, "provider_request_failed"))
TransientFailure(k) ==
  IF tries[k] < Attempts
  THEN /\ request' = [request EXCEPT ![k] = [Idle EXCEPT !.step = "start"]]
       /\ work' = [work EXCEPT ![k] = NoWork]
       /\ UNCHANGED <<tries, result>>
  ELSE Resolves(k, Result("temporary_failure", {}, "provider_request_failed"))
Fails(k, error) ==
  \/ error = "safe_http" /\ TransientFailure(k)
  \/ error = "unsafe" /\ Resolves(k, Result("invalid_reference", {}, "unsafe_url"))
  \/ error = "not_found" /\ Resolves(k, Result("not_found", {}, "provider_not_found"))
  \/ error = "denied" /\ Resolves(k, Result("requires_auth", {}, "provider_access_denied"))
  \/ error = "rate_limited" /\ Resolves(k, Result("temporary_failure", {}, "provider_rate_limited"))
  \/ error = "escapes" /\ Resolves(k, Escaped)

(***************************************************************************)
(* What a resolver makes of the answer of its API.                         *)
(***************************************************************************)

Resolved(assets) == Result("resolved", assets, "")
NotFound == Result("not_found", {}, "missing")
NotDirect == Result("not_direct_image", {}, "no_image")
PageOnly == Result("resolved_page_only", {"page"}, "")

\* _expiry raises when the URL names a time no datetime can be.
Mapillary(p) ==
  CASE p.error = "token" -> Result("requires_auth", {}, "mapillary_api_error")
    [] p.error = "other" \/ ~ p.link -> NotFound
    [] OTHER -> IF p.expiry = "bad" THEN Escaped ELSE Resolved({"image"})
Panoramax(p) ==
  CASE p.empty -> NotFound
    [] ~ p.same -> Result("temporary_failure", {}, "picture_id_mismatch")
    [] OTHER -> IF p.link THEN Resolved({"image"}) ELSE NotDirect
KartaView(p) ==
  CASE ~ p.success \/ p.empty -> NotFound
    [] OTHER -> IF p.link THEN Resolved({"image"}) ELSE NotDirect
\* The usable sizes by width times height.
Largest(sizes) == CHOOSE x \in sizes : \A y \in sizes : x >= y
FlickrSizes(p) == IF p.ok /\ p.sizes # {} THEN Resolved({Largest(p.sizes)}) ELSE PageOnly
Generic(url, p) == IF p.image THEN Resolved({url}) ELSE NotDirect

Interpret(kind, p) ==
  CASE kind = "mapillary" -> Mapillary(p) [] kind = "panoramax" -> Panoramax(p)
    [] kind = "kartaview" -> KartaView(p) [] kind = "flickr" -> FlickrSizes(p)

\* CommonsResolver._files, once every batch of titles is answered.
FilesResult(w) ==
  CASE w.assets # {} -> Resolved(w.assets)
    [] w.assets = {} /\ w.other -> NotDirect
    [] OTHER -> NotFound

(***************************************************************************)
(* Requests.                                                               *)
(***************************************************************************)

Active(k, step) == state = "open" /\ request[k].step = step
UnchangedBatch == UNCHANGED <<batch, state, task, edits>>

Getting(url, secret) ==
  [step |-> "validate", url |-> url, hops |-> 0, secret |-> secret, peer |-> None]

CommonsKinds == {"commons_category", "commons_file"}

\* The first request of an attempt, or the result that needs none.
NeedsNoRequest(ref) ==
  ref.kind = "streetside" \/ (ref.kind \in {"mapillary", "flickr"} /\ ref.kind \notin Environment)
Start(k) ==
  /\ Active(k, "start")
  /\ LET ref == task[k] IN
     CASE ref.kind = "invalid" ->
            Resolves(k, Result("invalid_reference", {}, "invalid_provider_reference"))
       [] NeedsNoRequest(ref) -> Resolves(k, PageOnly)
       [] OTHER ->
            /\ request' = [request EXCEPT ![k] =
                 Getting(IF ref.kind = "generic_http" THEN UrlOf(ref.canonical) ELSE Api(ref.kind),
                         ref.kind = "mapillary")]
            /\ work' = IF ref.kind = "commons_file"
                       THEN [work EXCEPT ![k].left = {ref.canonical.text}] ELSE work
            /\ tries' = [tries EXCEPT ![k] = @ + 1]
            /\ UNCHANGED result
  /\ disturbed' = (disturbed /\ task[k].kind # "commons_category")
  /\ UnchangedBatch /\ UNCHANGED <<pool, category>>

\* _resolved_addresses: nothing for an address, the DNS for a name.
Answers(host) == IF host = None \/ Literal(host) # None THEN {{}} ELSE Dns(host)

\* SafeHttpClient._validate.
Validate(k) ==
  /\ Active(k, "validate")
  /\ \E answer \in Answers(request[k].url.host) :
       CASE answer = Unresolved -> Fails(k, "safe_http")
         [] Verdict(request[k].url, answer) = "safe" ->
              request' = [request EXCEPT ![k].step = "connect"] /\ UNCHANGED <<tries, work, result>>
         [] OTHER -> Fails(k, Verdict(request[k].url, answer))
  /\ UnchangedBatch /\ UNCHANGED <<pool, category, disturbed>>

\* The URL that connect_tcp validates: an IPv6 address comes without brackets,
\* and what follows its first colon reads as a port.
Pinned(url) == IF url.host \in Colons THEN [url EXCEPT !.port = "bad"] ELSE url

\* PinnedNetworkBackend.connect_tcp asks the DNS again, and validates again;
\* an OSError of it is neither caught nor wrapped.  Or a connection is reused.
Connect(k) ==
  /\ Active(k, "connect")
  /\ LET url == request[k].url
         verdict(answer) == Verdict(Pinned(url), answer)
         Peer(address) == request' = [request EXCEPT ![k].step = "answer", ![k].peer = address]
     IN \/ \E c \in pool :
             c[1] = Origin(url) /\ Peer(c[2]) /\ UNCHANGED <<tries, work, result, pool>>
        \/ \E answer \in IF Literal(url.host) # None THEN {{Literal(url.host)}} ELSE Dns(url.host) :
             \/ answer = Unresolved /\ Fails(k, "escapes") /\ UNCHANGED pool
             \/ /\ answer # Unresolved
                /\ verdict(answer) # "safe" /\ Fails(k, verdict(answer)) /\ UNCHANGED pool
             \/ /\ answer # Unresolved /\ verdict(answer) = "safe"
                /\ \E address \in answer :
                     Peer(address) /\ pool' = pool \cup {<<Origin(url), address>>}
                /\ UNCHANGED <<tries, work, result>>
        \/ Fails(k, "safe_http") /\ UNCHANGED pool
  /\ UnchangedBatch /\ UNCHANGED <<category, disturbed>>

\* _redirect_headers: stripped once and for all when the origin changes.
\* Faulty: what counts is the scheme.
KeepsOnHttps(from, to, secret) == secret /\ to.scheme = "https"
Keeps(from, to, secret) == secret /\ Origin(from) = Origin(to)

\* _json_redirect and _probe_redirect.
Redirect(k, location) ==
  LET json == task[k].kind # "generic_http"
      url == request[k].url
  IN CASE location = None -> Fails(k, "safe_http")
       [] location # None /\ json /\ location.port = "bad" -> Fails(k, "escapes")
       [] location # None /\ json /\ location.port # "bad"
          /\ url.scheme = "https" /\ location.scheme # "https" -> Fails(k, "unsafe")
       [] OTHER ->
            IF request[k].hops = MaxRedirects THEN Fails(k, "safe_http")
            ELSE /\ request' = [request EXCEPT ![k] =
                      [step |-> "validate", url |-> location, hops |-> request[k].hops + 1,
                       secret |-> Keeps(url, location, request[k].secret), peer |-> None]]
                 /\ UNCHANGED <<tries, work, result>>

Sends(k, w) ==
  /\ work' = [work EXCEPT ![k] = w]
  /\ request' = [request EXCEPT ![k] = Getting(Api(task[k].kind), FALSE)]
  /\ UNCHANGED <<tries, result>>

(***************************************************************************)
(* resolvers/commons.py.  The members are a set: by sort key, none is      *)
(* listed twice.                                                           *)
(***************************************************************************)

First(n, S, rank(_)) == {f \in S : Cardinality({g \in S : rank(g) < rank(f)}) < n}

\* What the API lists from a continuation on, and the replies it can give: it
\* may cut a page short, even to nothing, and ask to continue.
Listing(from) == {f \in category : from = None \/ SortKey(f) >= SortKey(from)}
Pages(from) ==
  {[members |-> First(n, Listing(from), SortKey),
    next |-> LET rest == Listing(from) \ First(n, Listing(from), SortKey)
             IN IF rest = {} THEN None ELSE CHOOSE f \in rest : {f} = First(1, rest, SortKey)]
   : n \in 0..Page}

\* _category_complete, _category_truncated.  Faulty: only the count is looked at.
Complete(next, count) == next = None \/ count >= Cap
TruncatedByCount(next, count) == count > Cap
Truncated(next, count) == count > Cap \/ next # None

Truncate(res, truncated) ==
  [res EXCEPT !.truncated = truncated, !.status = IF truncated THEN "category_truncated" ELSE @]

\* _collect_category_members, then _category.
CategoryPage(k, page) ==
  LET members == work[k].members \cup page.members
      count == Cardinality(members)
      selected == First(Cap, members, PageId)
      truncated == Truncated(page.next, count)
  IN CASE ~ Complete(page.next, count) ->
            Sends(k, [work[k] EXCEPT !.members = members, !.from = page.next])
       [] Complete(page.next, count) /\ selected = {} ->
            Resolves(k, Result("category_empty", {}, "no_direct_file_members"))
       [] OTHER -> Sends(k, [NoWork EXCEPT !.left = selected, !.truncated = truncated])

\* _file_batch, and _files after the last.  answered: the titles the reply has
\* imageinfo for; named: those it has under the name that was asked for.
FileBatch(k, answered, named) ==
  LET titles == First(TitleBatch, work[k].left, PageId)
      w == [work[k] EXCEPT
             !.left = @ \ titles,
             !.assets = @ \cup {f \in titles \cap answered \cap named : FileIs(f) = "image"},
             !.other = @ \/ \E f \in titles \cap answered : FileIs(f) = "other"]
  IN IF w.left # {} THEN Sends(k, w) ELSE Resolves(k, Truncate(FilesResult(w), w.truncated))

\* Replies that say less than was asked for.  One that reports an error has no
\* "query" and no "continue": it reads as a last page without members, or as
\* titles without pages.  In a partial one members lack their id or title, and
\* titles are normalised, or left for a "continue" that is not followed.
Lossy == {"error", "partial"}

CommonsReply(k, body) ==
  IF work[k].left # {}
  THEN \/ body \notin Lossy /\ FileBatch(k, work[k].left, work[k].left)
       \/ body = "error" /\ FileBatch(k, {}, {})
       \/ body = "partial" /\ \E answered, named \in SUBSET work[k].left : FileBatch(k, answered, named)
  ELSE \/ body = "malformed" /\ Resolves(k, Result("temporary_failure", {}, "malformed_continuation"))
       \/ body = "error" /\ CategoryPage(k, [members |-> {}, next |-> None])
       \/ body = "answer" /\ \E page \in Pages(work[k].from) : CategoryPage(k, page)
       \/ body = "partial" /\ \E page \in Pages(work[k].from) : \E usable \in SUBSET page.members :
            CategoryPage(k, [page EXCEPT !.members = usable])

(***************************************************************************)
(* The answer of a server, its absence, and the batch.                     *)
(***************************************************************************)

\* _request_json_once with _raise_json_status, then the resolver.  A reply is
\* "broken" when it is too large, cut off, or no JSON object, "undecodable"
\* when json.loads raises something else than JSONDecodeError.
JsonReply(k, reply) ==
  \/ reply.status = "redirect" /\ Redirect(k, reply.location)
  \/ reply.status \in {"rate_limited", "not_found", "denied"} /\ Fails(k, reply.status)
  \/ reply.status \in {"http_error", "broken"} /\ Fails(k, "safe_http")
  \/ reply.status = "undecodable" /\ Fails(k, "escapes")
  \/ /\ reply.status = "ok"
     /\ IF task[k].kind \in CommonsKinds THEN CommonsReply(k, reply.body)
        ELSE Resolves(k, Interpret(task[k].kind, reply.body))

\* _probe_image_once, then GenericImageResolver: every status from 400 on is
\* one answer.
ProbeReply(k, reply) ==
  \/ reply.status = "redirect" /\ Redirect(k, reply.location)
  \/ reply.status = "broken" /\ Fails(k, "safe_http")
  \/ reply.status = "ok" /\ Resolves(k, Generic(request[k].url, reply.body))
  \/ /\ reply.status \notin {"redirect", "broken", "ok"}
     /\ Resolves(k, Result("not_found", {}, "http_status"))

Respond(k) ==
  /\ Active(k, "answer")
  /\ \E reply \in Replies(task[k].kind, request[k].url) :
       /\ IF task[k].kind = "generic_http" THEN ProbeReply(k, reply) ELSE JsonReply(k, reply)
       /\ disturbed' = (disturbed \/ (task[k].kind \in CommonsKinds /\ reply.body \in Lossy))
  /\ UnchangedBatch /\ UNCHANGED <<pool, category>>

\* asyncio.timeout around all requests of one get_json or probe_image.  Faulty:
\* of get_json alone.
TimeOutOfJson(k) ==
  /\ state = "open" /\ request[k].step \in {"validate", "connect", "answer"}
  /\ task[k].kind # "generic_http" /\ Fails(k, "safe_http")
  /\ UnchangedBatch /\ UNCHANGED <<pool, category, disturbed>>
TimeOut(k) ==
  /\ state = "open" /\ request[k].step \in {"validate", "connect", "answer"}
  /\ Fails(k, "safe_http")
  /\ UnchangedBatch /\ UNCHANGED <<pool, category, disturbed>>

\* Someone edits the category.
Edit(f) ==
  /\ state = "open" /\ edits < Edits
  /\ category' = (category \ {f}) \cup ({f} \ category)
  /\ edits' = edits + 1 /\ disturbed' = TRUE
  /\ UNCHANGED <<batch, state, task, lookupVars, pool>>

\* process: references_from_row raises, or one lookup starts for each key,
\* with the first reference that has it.
OpenBatch ==
  /\ state = "new"
  /\ IF \E row \in batch : RowRaises(row)
     THEN state' = "failed" /\ UNCHANGED <<task, request>>
     ELSE LET references == UNION {ReferencesOf(row) : row \in batch}
              met == {Key(ref) : ref \in references}
          IN /\ state' = "open"
             /\ \E chosen \in [met -> references] :
                  /\ \A k \in met : Key(chosen[k]) = k
                  /\ task' = [k \in Keys |-> IF k \in met THEN chosen[k] ELSE None]
             /\ request' = [k \in Keys |->
                  IF k \in met THEN [Idle EXCEPT !.step = "start"] ELSE Idle]
  /\ UNCHANGED <<batch, tries, work, result, pool, category, edits, disturbed>>

\* The gather of _resolve_unique, which the first exception ends.
CloseBatch ==
  /\ state = "open"
  /\ \/ (\E k \in Keys : result[k] = Escaped) /\ state' = "failed"
     \/ /\ \A k \in Keys : task[k] # None => result[k] \notin {None, Escaped}
        /\ state' = "done"
  /\ UNCHANGED <<batch, task, lookupVars, pool, category, edits, disturbed>>

Init ==
  /\ batch \in Batches /\ state = "new" /\ task = [k \in Keys |-> None]
  /\ tries = [k \in Keys |-> 0] /\ request = [k \in Keys |-> Idle]
  /\ work = [k \in Keys |-> NoWork] /\ result = [k \in Keys |-> None]
  /\ pool = {} /\ category = FirstMembers /\ edits = 0 /\ disturbed = FALSE

Step(k) == Start(k) \/ Validate(k) \/ Connect(k) \/ TimeOut(k)
Next ==
  \/ OpenBatch \/ CloseBatch
  \/ \E k \in Keys : Step(k) \/ Respond(k)
  \/ \E f \in Files : Edit(f)
Spec == Init /\ [][Next]_vars

\* The event loop runs what is ready and time passes; no server has to answer.
FairSpec ==
  /\ Spec /\ WF_vars(OpenBatch) /\ WF_vars(CloseBatch)
  /\ \A k \in Keys : WF_vars(Step(k))

(***************************************************************************)
(* Properties.                                                             *)
(***************************************************************************)

Statuses == {"resolved", "resolved_page_only", "not_direct_image", "category_empty",
             "category_truncated", "not_found", "requires_auth", "invalid_reference",
             "temporary_failure", "escaped"}

\* The values the variables have.
TypeOK ==
  /\ batch \in Batches /\ state \in {"new", "open", "done", "failed"}
  /\ \A k \in Keys :
       /\ task[k] = None \/ Key(task[k]) = k
       /\ tries[k] \in 0..Attempts
       /\ request[k].step \in {"idle", "start", "validate", "connect", "answer"}
       /\ request[k].hops \in 0..MaxRedirects
       /\ work[k].members \subseteq Files /\ work[k].left \cap work[k].assets = {}
       /\ result[k] = None \/ result[k].status \in Statuses
  /\ category \subseteq Files /\ edits \in 0..Edits /\ disturbed \in BOOLEAN

\* The Authorization header goes to the origin it is meant for and to no
\* other, however the redirects lead away and back.
SecretStaysHome ==
  \A k \in Keys :
    request[k].step = "answer" /\ request[k].secret =>
      Origin(request[k].url) = Origin(Api("mapillary"))

\* A request goes to a public address, though the DNS may answer otherwise
\* when the connection is made than when the URL was validated, a redirect
\* may lead anywhere, and connections are reused.
PublicAddresses == \A k \in Keys : request[k].step = "answer" => request[k].peer \in Public

\* When nobody edits the category and its API says all it is asked for during the
\* lookup, what it ends with does not depend on how the API cuts the pages:
\* the images among the members if they are at most Cap, and otherwise the
\* mark that there are more, with at most Cap of them.
CategoryWhole ==
  \A k \in Keys :
    LET res == result[k]
        images == {f \in category : FileIs(f) = "image"}
    IN /\ task[k] # None /\ task[k].kind = "commons_category" /\ ~ disturbed
       /\ res # None /\ res.reason \in {"", "missing", "no_image", "no_direct_file_members"}
       => IF Cardinality(category) > Cap
          THEN res.truncated /\ res.assets \subseteq images /\ Cardinality(res.assets) <= Cap
          ELSE ~ res.truncated /\ res.assets = images

\* Every lookup ends, and so does the batch, whatever servers do and whether or
\* not they answer, but for one case: _collect_category_members has no limit of
\* its own, so that an API that answers for ever with pages without a member
\* and with a continuation keeps the batch open for ever.
EmptyPage(k) ==
  /\ Active(k, "answer") /\ task[k].kind = "commons_category" /\ work[k].left = {}
  /\ request'[k] = Getting(Api("commons_category"), FALSE)
  /\ work'[k].left = {} /\ work'[k].members = work[k].members
BatchEnds ==
  <>(state \in {"done", "failed"}) \/ []<><<\E k \in Keys : EmptyPage(k)>>_vars

\* assets/README.md: loading a resolution once and using it again affects no
\* "reference extraction, resolver decisions".  So a reference that is invalid
\* gets the record of an invalid reference, and no other does.
OwnDecision ==
  state = "done" =>
    \A row \in batch : \A ref \in ReferencesOf(row) :
      ref.kind = "invalid" <=> result[Key(ref)].reason = "invalid_provider_reference"
=============================================================================
