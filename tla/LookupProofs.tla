----------------------------- MODULE LookupProofs -----------------------------
(***************************************************************************)
(* What TLAPS proves of Lookup: whatever URLs references hold, whatever    *)
(* the DNS answers and whatever servers reply, for any number of lookups,  *)
(* retries, redirects, files and pages, requests go to public addresses    *)
(* only, the credential goes to its origin only, every result has a status *)
(* the rows know, and a category nobody edits is resolved as a whole.      *)
(*                                                                         *)
(* The first two are about one request at a time: from its first step on   *)
(* it carries the credential only at the credential's origin, and it has a *)
(* peer only after the peer was validated, as a connection in the pool.    *)
(*                                                                         *)
(* For the others, what a lookup of the category has collected is at every *)
(* step a function of the category: while it lists, the members before its *)
(* continuation; afterwards a selection, whole if it is not truncated, the *)
(* files of which are partly fetched.                                      *)
(***************************************************************************)
EXTENDS Lookup, FiniteSetTheorems, TLAPS

Sound(r) ==
  /\ DOMAIN r = {"step", "url", "hops", "secret", "peer"}
  /\ r.secret \in BOOLEAN
  /\ r.secret => Origin(r.url) = Origin(Api("mapillary"))
  /\ r.step = "answer" => r.peer \in Public

AllSound(requests) ==
  /\ requests = [k \in Keys |-> requests[k]]
  /\ \A k \in Keys : Sound(requests[k])

IInv == AllSound(request) /\ \A c \in pool : c[2] \in Public

\* A lookup moves to a sound request.
Moves(k) == \E r : Sound(r) /\ request' = [request EXCEPT ![k] = r]

LEMMA MovesLemma ==
  ASSUME AllSound(request), NEW k \in Keys, Moves(k) PROVE AllSound(request')
<1>1. PICK r : Sound(r) /\ request' = [request EXCEPT ![k] = r]
  BY DEF Moves
<1>2. \A j \in Keys : request'[j] = IF j = k THEN r ELSE request[j]
  BY <1>1 DEF AllSound
<1>3. request' = [j \in Keys |-> request'[j]]
  BY <1>1 DEF AllSound
<1> QED
  BY <1>1, <1>2, <1>3 DEF AllSound

LEMMA IdleLemma == Sound(Idle) /\ Sound([Idle EXCEPT !.step = "start"])
<1>1. Sound(Idle)
  BY DEF Sound, Idle
<1>2. Idle.secret = FALSE
  BY DEF Idle
<1> QED
  BY <1>1, <1>2 DEF Sound

LEMMA GettingLemma ==
  ASSUME NEW url, NEW secret \in BOOLEAN, secret => Origin(url) = Origin(Api("mapillary"))
  PROVE  Sound(Getting(url, secret))
BY DEF Sound, Getting

LEMMA ResolvesLemma == ASSUME NEW k, NEW res, Resolves(k, res) PROVE Moves(k)
BY IdleLemma DEF Resolves, Moves

LEMMA FailsLemma == ASSUME NEW k, NEW error, Fails(k, error) PROVE Moves(k)
<1>1. CASE TransientFailure(k)
  <2>1. CASE tries[k] < Attempts
    BY <1>1, <2>1, IdleLemma DEF TransientFailure, Moves
  <2>2. CASE ~ (tries[k] < Attempts)
    BY <1>1, <2>2, ResolvesLemma DEF TransientFailure
  <2> QED
    BY <2>1, <2>2
<1> QED
  BY <1>1, ResolvesLemma DEF Fails

\* A redirect keeps the credential only when the origin stays the same.
LEMMA RedirectLemma ==
  ASSUME AllSound(request), NEW k \in Keys, NEW location, Redirect(k, location) PROVE Moves(k)
<1> DEFINE url == request[k].url
           kept == Keeps(url, location, request[k].secret)
           to == [step |-> "validate", url |-> location, hops |-> request[k].hops + 1,
                  secret |-> kept, peer |-> None]
<1>1. Sound(to)
  <2>1. Sound(request[k])
    BY DEF AllSound
  <2>2. kept \in BOOLEAN
    BY <2>1 DEF Sound, Keeps
  <2>3. kept => Origin(location) = Origin(Api("mapillary"))
    BY <2>1 DEF Sound, Keeps
  <2> QED
    BY <2>2, <2>3 DEF Sound
<1>2. \/ \E error : Fails(k, error)
      \/ request' = [request EXCEPT ![k] = to]
  BY Zenon DEF Redirect
<1> QED
  BY <1>1, <1>2, FailsLemma DEF Moves

LEMMA SendsLemma == ASSUME NEW k, NEW w, Sends(k, w) PROVE Moves(k)
BY GettingLemma DEF Sends, Moves

\* A request goes on, to the connection or with a peer.
LEMMA ConnectingLemma ==
  ASSUME AllSound(request), NEW k \in Keys,
         request' = [request EXCEPT ![k].step = "connect"]
  PROVE  Moves(k)
<1> DEFINE r == [request[k] EXCEPT !.step = "connect"]
<1>1. Sound(request[k])
  BY DEF AllSound
<1>2. Sound(r)
  BY <1>1 DEF Sound
<1>3. request' = [request EXCEPT ![k] = r]
  OBVIOUS
<1> QED
  BY <1>2, <1>3 DEF Moves

LEMMA PeerLemma ==
  ASSUME AllSound(request), NEW k \in Keys, NEW address \in Public,
         request' = [request EXCEPT ![k].step = "answer", ![k].peer = address]
  PROVE  Moves(k)
<1> DEFINE r == [request[k] EXCEPT !.step = "answer", !.peer = address]
<1>1. Sound(request[k])
  BY DEF AllSound
<1>2. Sound(r)
  BY <1>1 DEF Sound
<1>3. request' = [request EXCEPT ![k] = r]
  BY DEF AllSound
<1> QED
  BY <1>2, <1>3 DEF Moves

LEMMA SafeLemma ==
  ASSUME NEW url, NEW addresses, Verdict(url, addresses) = "safe" PROVE addresses \subseteq Public
BY DEF Verdict, Candidates

(***************************************************************************)
(* The steps of a lookup.                                                  *)
(***************************************************************************)

LEMMA StartStep == ASSUME NEW k \in Keys, Start(k) PROVE Moves(k) /\ UNCHANGED pool
<1> DEFINE ref == task[k]
<1>1. CASE ref.kind = "invalid" \/ NeedsNoRequest(ref)
  BY <1>1, ResolvesLemma DEF Start
<1>2. CASE ~ (ref.kind = "invalid" \/ NeedsNoRequest(ref))
  <2> DEFINE url == IF ref.kind = "generic_http" THEN UrlOf(ref.canonical) ELSE Api(ref.kind)
             secret == ref.kind = "mapillary"
  <2>1. request' = [request EXCEPT ![k] = Getting(url, secret)]
    BY <1>2 DEF Start
  <2>2. secret \in BOOLEAN /\ (secret => url = Api("mapillary"))
    OBVIOUS
  <2>3. Sound(Getting(url, secret))
    BY <2>2, GettingLemma
  <2> QED
    BY <2>1, <2>3 DEF Start, Moves
<1> QED
  BY <1>1, <1>2

LEMMA ValidateStep ==
  ASSUME AllSound(request), NEW k \in Keys, Validate(k) PROVE Moves(k) /\ UNCHANGED pool
<1>1. \/ \E error : Fails(k, error)
      \/ request' = [request EXCEPT ![k].step = "connect"]
  BY Zenon DEF Validate
<1> QED
  BY <1>1, FailsLemma, ConnectingLemma DEF Validate

LEMMA ConnectStep ==
  ASSUME IInv, NEW k \in Keys, Connect(k)
  PROVE  Moves(k) /\ \A c \in pool' : c[2] \in Public
<1> DEFINE url == request[k].url
           Peer(address) == request' = [request EXCEPT ![k].step = "answer", ![k].peer = address]
<1>1. ASSUME NEW c \in pool, Peer(c[2]), UNCHANGED pool
      PROVE  Moves(k) /\ \A d \in pool' : d[2] \in Public
  BY <1>1, PeerLemma DEF IInv
<1>2. ASSUME NEW error, Fails(k, error), UNCHANGED pool
      PROVE  Moves(k) /\ \A d \in pool' : d[2] \in Public
  BY <1>2, FailsLemma DEF IInv
<1>3. ASSUME NEW answer, Verdict(Pinned(url), answer) = "safe", NEW address \in answer, Peer(address),
             pool' = pool \cup {<<Origin(url), address>>}
      PROVE  Moves(k) /\ \A d \in pool' : d[2] \in Public
  <2>1. address \in Public
    BY <1>3, SafeLemma
  <2>2. Moves(k)
    BY <1>3, <2>1, PeerLemma DEF IInv
  <2>3. \A d \in pool' : d \in pool \/ d = <<Origin(url), address>>
    BY <1>3
  <2> HIDE DEF url
  <2>4. <<Origin(url), address>>[2] = address
    OBVIOUS
  <2> QED
    BY <2>1, <2>2, <2>3, <2>4 DEF IInv
<1>4. \/ \E c \in pool : Peer(c[2]) /\ UNCHANGED pool
      \/ \E error : Fails(k, error) /\ UNCHANGED pool
      \/ \E answer : /\ Verdict(Pinned(url), answer) = "safe"
                     /\ \E address \in answer :
                          Peer(address) /\ pool' = pool \cup {<<Origin(url), address>>}
  BY Zenon DEF Connect
<1> QED
  BY <1>1, <1>2, <1>3, <1>4

LEMMA CommonsLemma ==
  ASSUME NEW k \in Keys, NEW body, CommonsReply(k, body) PROVE Moves(k)
<1>1. ASSUME NEW answered, NEW named, FileBatch(k, answered, named) PROVE Moves(k)
  BY <1>1, SendsLemma, ResolvesLemma DEF FileBatch
<1>2. ASSUME NEW page, CategoryPage(k, page) PROVE Moves(k)
  BY <1>2, SendsLemma, ResolvesLemma DEF CategoryPage
<1> QED
  BY <1>1, <1>2, ResolvesLemma, Zenon DEF CommonsReply

LEMMA RespondStep ==
  ASSUME AllSound(request), NEW k \in Keys, Respond(k) PROVE Moves(k) /\ UNCHANGED pool
<1>1. PICK reply : JsonReply(k, reply) \/ ProbeReply(k, reply)
  BY Zenon DEF Respond
<1>2. ASSUME JsonReply(k, reply) PROVE Moves(k)
  <2>1. ASSUME IF task[k].kind \in CommonsKinds THEN CommonsReply(k, reply.body)
               ELSE Resolves(k, Interpret(task[k].kind, reply.body))
        PROVE  Moves(k)
    <3>1. CASE task[k].kind \in CommonsKinds
      BY <2>1, <3>1, CommonsLemma
    <3>2. CASE task[k].kind \notin CommonsKinds
      BY <2>1, <3>2, ResolvesLemma
    <3> QED
      BY <3>1, <3>2
  <2>2. ASSUME \/ Redirect(k, reply.location) \/ Fails(k, reply.status)
               \/ Fails(k, "safe_http") \/ Fails(k, "escapes")
        PROVE  Moves(k)
    <3>1. ASSUME Redirect(k, reply.location) PROVE Moves(k)
      BY <3>1, RedirectLemma
    <3>2. ASSUME NEW error, Fails(k, error) PROVE Moves(k)
      BY <3>2, FailsLemma
    <3> QED
      BY <2>2, <3>1, <3>2
  <2> QED
    BY <1>2, <2>1, <2>2, Zenon DEF JsonReply
<1>3. ASSUME ProbeReply(k, reply) PROVE Moves(k)
  <2>1. ASSUME Redirect(k, reply.location) PROVE Moves(k)
    BY <2>1, RedirectLemma
  <2>2. ASSUME Fails(k, "safe_http") PROVE Moves(k)
    BY <2>2, FailsLemma
  <2>3. ASSUME NEW res, Resolves(k, res) PROVE Moves(k)
    BY <2>3, ResolvesLemma
  <2> QED
    BY <1>3, <2>1, <2>2, <2>3, Zenon DEF ProbeReply
<1> QED
  BY <1>1, <1>2, <1>3 DEF Respond

LEMMA OpenStep == ASSUME OpenBatch, AllSound(request) PROVE AllSound(request') /\ UNCHANGED pool
<1>1. CASE UNCHANGED request
  BY <1>1 DEF OpenBatch
<1>2. CASE \E met : request' = [k \in Keys |->
               IF k \in met THEN [Idle EXCEPT !.step = "start"] ELSE Idle]
  BY <1>2, IdleLemma DEF OpenBatch, AllSound
<1>3. UNCHANGED request \/ \E met : request' = [k \in Keys |->
               IF k \in met THEN [Idle EXCEPT !.step = "start"] ELSE Idle]
  BY Zenon DEF OpenBatch
<1> QED
  BY <1>1, <1>2, <1>3

(***************************************************************************)
(* The invariant, and what follows from it.                                *)
(***************************************************************************)

LEMMA InitInv == Init => IInv
BY IdleLemma DEF Init, IInv, AllSound

LEMMA NextInv == IInv /\ [Next]_vars => IInv'
<1> SUFFICES ASSUME IInv, [Next]_vars PROVE IInv'
  OBVIOUS
<1>1. ASSUME NEW k \in Keys, Step(k) \/ Respond(k) PROVE IInv'
  <2>1. CASE Start(k)
    BY <2>1, StartStep, MovesLemma DEF IInv
  <2>2. CASE Validate(k)
    BY <2>2, ValidateStep, MovesLemma DEF IInv
  <2>3. CASE Connect(k)
    BY <2>3, ConnectStep, MovesLemma DEF IInv
  <2>4. CASE TimeOut(k)
    BY <2>4, FailsLemma, MovesLemma DEF IInv, TimeOut
  <2>5. CASE Respond(k)
    BY <2>5, RespondStep, MovesLemma DEF IInv
  <2> QED
    BY <1>1, <2>1, <2>2, <2>3, <2>4, <2>5 DEF Step
<1>2. CASE OpenBatch
  BY <1>2, OpenStep DEF IInv
<1>3. CASE CloseBatch \/ UNCHANGED vars
  BY <1>3 DEF CloseBatch, vars, lookupVars, IInv
<1>4. ASSUME NEW f \in Files, Edit(f) PROVE IInv'
  BY <1>4 DEF Edit, lookupVars, IInv
<1> QED
  BY <1>1, <1>2, <1>3, <1>4 DEF Next

\* Every chain of requests is sound, and the pool holds public peers only.
THEOREM InvariantHolds == Spec => []IInv
BY InitInv, NextInv, PTL DEF Spec

\* No request goes to an address that is not public.
THEOREM PublicCorrect == Spec => []PublicAddresses
<1>1. IInv => PublicAddresses
  BY DEF IInv, AllSound, Sound, PublicAddresses
<1> QED
  BY <1>1, InvariantHolds, PTL

\* The credential of Mapillary goes to the origin of its API only.
THEOREM SecretCorrect == Spec => []SecretStaysHome
<1>1. IInv => SecretStaysHome
  BY DEF IInv, AllSound, Sound, SecretStaysHome
<1> QED
  BY <1>1, InvariantHolds, PTL

(***************************************************************************)
(* The first files of a set, by a rank.                                    *)
(***************************************************************************)

Below(S, r, f) == {g \in S : r[g] < r[f]}
FirstBy(n, S, r) == {f \in S : Cardinality(Below(S, r, f)) < n}
ByPage == [f \in Files |-> PageId(f)]
BySort == [f \in Files |-> SortKey(f)]

\* Both ranks as functions, and First in their terms.
LEMMA RankLemma ==
  /\ \A f \in Files : PageId(f) = ByPage[f] /\ SortKey(f) = BySort[f]
  /\ \A f \in Files : ByPage[f] \in Nat /\ BySort[f] \in Nat
  /\ \A f, g \in Files : f # g => ByPage[f] # ByPage[g] /\ BySort[f] # BySort[g]
BY FilesAssumption DEF ByPage, BySort

LEMMA FirstLemma ==
  ASSUME NEW S \in SUBSET Files, NEW n
  PROVE  /\ First(n, S, PageId) = FirstBy(n, S, ByPage)
         /\ First(n, S, SortKey) = FirstBy(n, S, BySort)
<1>1. ASSUME NEW f \in S
      PROVE  /\ {g \in S : PageId(g) < PageId(f)} = Below(S, ByPage, f)
             /\ {g \in S : SortKey(g) < SortKey(f)} = Below(S, BySort, f)
  BY RankLemma DEF Below
<1> QED
  BY <1>1 DEF First, FirstBy

\* A set of files is finite, and a smaller one has fewer.
LEMMA FiniteLemma ==
  ASSUME NEW S \in SUBSET Files
  PROVE  /\ IsFiniteSet(S) /\ Cardinality(S) \in Nat
         /\ \A T \in SUBSET S : /\ Cardinality(T) <= Cardinality(S)
                                /\ T # S => Cardinality(T) < Cardinality(S)
<1>1. IsFiniteSet(S)
  BY FilesAssumption, FS_Subset
<1>2. Cardinality(S) \in Nat
  BY <1>1, FS_CardinalityType
<1>3. ASSUME NEW T \in SUBSET S
      PROVE  Cardinality(T) <= Cardinality(S) /\ (T # S => Cardinality(T) < Cardinality(S))
  <2>1. /\ Cardinality(T) <= Cardinality(S) /\ IsFiniteSet(T)
        /\ Cardinality(S) = Cardinality(T) => S = T
    BY <1>1, FS_Subset
  <2>2. Cardinality(T) \in Nat
    BY <2>1, FS_CardinalityType
  <2> QED
    BY <1>2, <2>1, <2>2
<1> QED
  BY <1>1, <1>2, <1>3

\* A set of files that is not empty has one of least rank.
LEMMA LeastLemma ==
  ASSUME NEW r, \A f \in Files : r[f] \in Nat, NEW S \in SUBSET Files, S # {}
  PROVE  \E f \in S : \A g \in S : r[f] <= r[g]
<1> DEFINE T == {r[f] : f \in S}
           Less == {p \in Nat \X Nat : p[1] < p[2]}
<1>1. IsWellFoundedOn(Less, Nat)
  BY NatLessThanWellFounded DEF OpToRel
<1>2. T \subseteq Nat /\ T # {}
  OBVIOUS
<1> HIDE DEF T, Less
<1>3. PICK x \in T : \A y \in T : ~ (<<y, x>> \in Less)
  BY <1>1, <1>2, WFMin
<1> USE DEF T, Less
<1>4. \A y \in T : ~ (y < x)
  BY <1>2, <1>3
<1>5. PICK f \in S : x = r[f]
  BY <1>3
<1>6. \A g \in S : r[g] \in T /\ r[g] \in Nat /\ r[f] \in Nat
  OBVIOUS
<1> HIDE DEF T, Less
<1>7. \A g \in S : r[f] <= r[g]
  BY <1>4, <1>5, <1>6
<1> QED
  BY <1>7

\* And one of greatest: the one with the fewest above it.
LEMMA GreatestLemma ==
  ASSUME NEW r, \A f \in Files : r[f] \in Nat, NEW S \in SUBSET Files, S # {}
  PROVE  \E f \in S : \A g \in S : r[f] >= r[g]
<1> DEFINE above == [f \in Files |-> Cardinality({g \in S : r[g] > r[f]})]
<1>1. ASSUME NEW f \in Files PROVE above[f] \in Nat
  <2>1. {g \in S : r[g] > r[f]} \in SUBSET Files
    OBVIOUS
  <2>2. Cardinality({g \in S : r[g] > r[f]}) \in Nat
    BY <2>1, FiniteLemma
  <2> QED
    BY <2>2
<1> HIDE DEF above
<1>2. PICK f \in S : \A g \in S : above[f] <= above[g]
  BY <1>1, LeastLemma
<1>3. ASSUME NEW g \in S, r[g] > r[f] PROVE FALSE
  <2> DEFINE A == {h \in S : r[h] > r[f]}
             B == {h \in S : r[h] > r[g]}
  <2>1. B \subseteq A /\ g \in A /\ g \notin B
    BY <1>3
  <2>2. A \subseteq Files
    OBVIOUS
  <2>3. above[f] = Cardinality(A) /\ above[g] = Cardinality(B)
    BY DEF above
  <2> HIDE DEF A, B
  <2>4. Cardinality(B) < Cardinality(A) /\ Cardinality(A) \in Nat /\ Cardinality(B) \in Nat
    BY <2>1, <2>2, FiniteLemma
  <2> QED
    BY <1>2, <2>3, <2>4
<1> QED
  BY <1>3

\* The first n files of a set are at most n, and all of them if it has no more.
LEMMA FirstCardinality ==
  ASSUME NEW r, \A f \in Files : r[f] \in Nat, \A f, g \in Files : f # g => r[f] # r[g],
         NEW S \in SUBSET Files, NEW n \in Nat \ {0}
  PROVE  /\ FirstBy(n, S, r) \subseteq S
         /\ Cardinality(FirstBy(n, S, r)) <= n
         /\ Cardinality(S) <= n => FirstBy(n, S, r) = S
         /\ S # {} => FirstBy(n, S, r) # {}
<1> DEFINE T == FirstBy(n, S, r)
<1>0. /\ T \subseteq S /\ \A f \in S : Below(S, r, f) \subseteq S /\ f \notin Below(S, r, f)
      /\ \A f \in S : f \in T <=> Cardinality(Below(S, r, f)) < n
  BY DEF FirstBy, Below
<1>1. CASE S = {}
  BY <1>1, <1>0, FS_EmptySet
<1>2. CASE S # {}
  <2>1. PICK f \in S : \A g \in S : r[f] <= r[g]
    BY <1>2, LeastLemma
  <2>2. Below(S, r, f) = {}
    BY <2>1 DEF Below
  <2>3. f \in T
    <3>1. Cardinality(Below(S, r, f)) = 0
      BY <2>2, FS_EmptySet
    <3> QED
      BY <1>0, <3>1
  <2> HIDE DEF T
  <2>4. PICK m \in T : \A g \in T : r[m] >= r[g]
    BY <1>0, <2>3, GreatestLemma
  <2>5. T \ {m} \subseteq Below(S, r, m)
    BY <1>0, <2>4 DEF Below
  <2>6. Cardinality(T \ {m}) <= Cardinality(Below(S, r, m)) /\ Cardinality(Below(S, r, m)) \in Nat
    BY <1>0, <2>4, <2>5, FiniteLemma
  <2>7. Cardinality(T \ {m}) = Cardinality(T) - 1 /\ Cardinality(T) \in Nat
    BY <1>0, <2>4, FiniteLemma, FS_RemoveElement
  <2>8. Cardinality(T) <= n
    BY <1>0, <2>4, <2>6, <2>7
  <2>9. ASSUME Cardinality(S) <= n, NEW g \in S PROVE g \in T
    <3>1. Cardinality(Below(S, r, g)) < Cardinality(S) /\ Cardinality(S) \in Nat
          /\ Cardinality(Below(S, r, g)) \in Nat
      BY <1>0, FiniteLemma
    <3> QED
      BY <1>0, <2>9, <3>1
  <2> QED
    BY <1>0, <2>3, <2>8, <2>9 DEF T
<1> QED
  BY <1>1, <1>2

\* A set of files is cut at a file of it: what is first comes before the rest.
LEMMA FirstBefore ==
  ASSUME NEW r, \A f \in Files : r[f] \in Nat, \A f, g \in Files : f # g => r[f] # r[g],
         NEW S \in SUBSET Files, NEW n \in Nat,
         NEW f \in FirstBy(n, S, r), NEW g \in S \ FirstBy(n, S, r)
  PROVE  r[f] < r[g]
<1> SUFFICES ASSUME ~ (r[f] < r[g]) PROVE FALSE
  OBVIOUS
<1>1. f \in S /\ Cardinality(Below(S, r, f)) < n /\ ~ (Cardinality(Below(S, r, g)) < n)
  BY DEF FirstBy
<1>2. Below(S, r, g) \subseteq Below(S, r, f) /\ Below(S, r, f) \subseteq S
  BY <1>1 DEF Below
<1>3. /\ Cardinality(Below(S, r, g)) <= Cardinality(Below(S, r, f))
      /\ Cardinality(Below(S, r, g)) \in Nat /\ Cardinality(Below(S, r, f)) \in Nat
  BY <1>2, FiniteLemma
<1> QED
  BY <1>1, <1>3

(***************************************************************************)
(* What a step of a lookup does.                                           *)
(***************************************************************************)

Functions ==
  /\ task = [k \in Keys |-> task[k]] /\ tries = [k \in Keys |-> tries[k]]
  /\ work = [k \in Keys |-> work[k]] /\ result = [k \in Keys |-> result[k]]

Requesting == {"validate", "connect", "answer"}

\* The lookups of other keys stay.
Alone(k) ==
  /\ Functions' /\ UNCHANGED <<batch, state, task, edits, category>>
  /\ \A j \in Keys \ {k} : /\ tries'[j] = tries[j] /\ request'[j] = request[j]
                           /\ work'[j] = work[j] /\ result'[j] = result[j]

\* Lookup k ends; starts again from nothing; goes on with what it has; or sends
\* another request with w collected.
Ends(k, res) ==
  /\ request'[k] = Idle /\ work'[k] = NoWork /\ result'[k] = res /\ tries'[k] = tries[k]
Retries(k) ==
  /\ request'[k].step = "start" /\ request'[k].hops = 0 /\ work'[k] = NoWork
  /\ result'[k] = result[k] /\ tries'[k] = tries[k] /\ tries[k] < Attempts
Continues(k) ==
  /\ request'[k].step \in Requesting /\ request'[k].hops \in 0..MaxRedirects
  /\ work'[k] = work[k] /\ result'[k] = result[k] /\ tries'[k] = tries[k]
Asks(k, w) ==
  /\ request'[k].step = "validate" /\ request'[k].hops = 0
  /\ work'[k] = w /\ result'[k] = result[k] /\ tries'[k] = tries[k]

\* The reasons of the results that an answer of the category's API leads to.
Reasons == {"", "missing", "no_image", "no_direct_file_members"}
Failing(k) ==
  \/ Retries(k)
  \/ \E res : Ends(k, res) /\ res.status \in Statuses /\ res.reason \notin Reasons

Still == UNCHANGED <<batch, state, task, edits, category>>

LEMMA ResolvesEnds ==
  ASSUME AllSound(request), Functions, Still, NEW k \in Keys, NEW res, Resolves(k, res)
  PROVE  Alone(k) /\ Ends(k, res)
BY DEF AllSound, Functions, Still, Resolves, Alone, Ends

LEMMA FailsFailing ==
  ASSUME AllSound(request), Functions, Still, NEW k \in Keys, NEW error, Fails(k, error)
  PROVE  Alone(k) /\ Failing(k)
<1>1. ASSUME NEW res, Resolves(k, res), res.status \in Statuses, res.reason \notin Reasons
      PROVE  Alone(k) /\ Failing(k)
  BY <1>1, ResolvesEnds DEF Failing
<1>2. ASSUME NEW status, NEW reason, Resolves(k, Result(status, {}, reason)),
             status \in Statuses, reason \notin Reasons
      PROVE  Alone(k) /\ Failing(k)
  <2>1. Result(status, {}, reason).status = status /\ Result(status, {}, reason).reason = reason
    BY DEF Result
  <2> QED
    BY <1>1, <1>2, <2>1
<1>3. ASSUME TransientFailure(k) PROVE Alone(k) /\ Failing(k)
  <2>1. CASE tries[k] < Attempts
    <3>1. request'[k].step = "start" /\ request'[k].hops = 0
      BY <1>3, <2>1 DEF AllSound, TransientFailure, Idle
    <3>2. Retries(k)
      BY <1>3, <2>1, <3>1 DEF Functions, TransientFailure, Retries
    <3>3. Alone(k)
      BY <1>3, <2>1 DEF AllSound, Functions, TransientFailure, Alone, Still
    <3> QED
      BY <3>2, <3>3 DEF Failing
  <2>2. CASE ~ (tries[k] < Attempts)
    <3>1. Resolves(k, Result("temporary_failure", {}, "provider_request_failed"))
      BY <1>3, <2>2 DEF TransientFailure
    <3> QED
      BY <1>2, <3>1 DEF Statuses, Reasons
  <2> QED
    BY <2>1, <2>2
<1> QED
  BY <1>2, <1>3 DEF Fails, Escaped, Statuses, Reasons

LEMMA SendsAsks ==
  ASSUME AllSound(request), Functions, Still, NEW k \in Keys, NEW w, Sends(k, w)
  PROVE  Alone(k) /\ Asks(k, w)
BY DEF AllSound, Functions, Still, Sends, Alone, Asks, Getting

LEMMA RedirectContinues ==
  ASSUME AllSound(request), Functions, Still, NEW k \in Keys, NEW location, Redirect(k, location),
         request[k].hops \in 0..MaxRedirects
  PROVE  Alone(k) /\ (Failing(k) \/ Continues(k))
<1> DEFINE url == request[k].url
           kept == Keeps(url, location, request[k].secret)
           to == [step |-> "validate", url |-> location, hops |-> request[k].hops + 1,
                  secret |-> kept, peer |-> None]
<1>1. \/ \E error : Fails(k, error)
      \/ /\ request' = [request EXCEPT ![k] = to] /\ UNCHANGED <<tries, work, result>>
         /\ request[k].hops # MaxRedirects
  BY Zenon DEF Redirect
<1>2. ASSUME request' = [request EXCEPT ![k] = to], UNCHANGED <<tries, work, result>>,
             request[k].hops # MaxRedirects
      PROVE  Alone(k) /\ Continues(k)
  <2>1. request'[k] = to /\ \A j \in Keys \ {k} : request'[j] = request[j]
    BY <1>2 DEF AllSound
  <2> HIDE DEF kept, url
  <2>2. to.step = "validate" /\ to.hops = request[k].hops + 1
    OBVIOUS
  <2>3. request'[k].hops \in 0..MaxRedirects
    BY <1>2, <2>1, <2>2, SizesAssumption
  <2>4. Alone(k)
    BY <1>2, <2>1 DEF Functions, Alone, Still
  <2>5. Continues(k)
    BY <1>2, <2>1, <2>2, <2>3 DEF Continues, Requesting
  <2> QED
    BY <2>4, <2>5
<1> QED
  BY <1>1, <1>2, FailsFailing

(***************************************************************************)
(* The invariant of the lookups.                                           *)
(***************************************************************************)

Typed(k) ==
  /\ task[k] # None => task[k] \in AllReferences /\ Key(task[k]) = k
  /\ tries[k] \in 0..Attempts /\ request[k].hops \in 0..MaxRedirects
  /\ request[k].step \in {"idle", "start"} \cup Requesting
  /\ DOMAIN work[k] = DOMAIN NoWork /\ work[k].members \subseteq Files
  /\ work[k].left \cap work[k].assets = {}
  /\ result[k] # None => result[k].status \in Statuses

\* Where a lookup is: not begun, before an attempt, in one, or ended.
Placed(k) ==
  /\ request[k].step # "idle" => task[k] \in AllReferences /\ result[k] = None
  /\ request[k].step = "start" => tries[k] < Attempts /\ work[k] = NoWork
  /\ request[k].step \in Requesting => task[k].kind \notin {"invalid", "streetside"}
  /\ state = "new" =>
       /\ task[k] = None /\ request[k] = Idle /\ tries[k] = 0
       /\ work[k] = NoWork /\ result[k] = None

Types ==
  /\ batch \in Batches /\ state \in {"new", "open", "done", "failed"}
  /\ category \subseteq Files /\ edits \in 0..Edits /\ disturbed \in BOOLEAN
  /\ Functions

\* The members the category has before a continuation, and what a lookup of it
\* has collected: these while it lists, then a selection of which it fetches
\* the files.
Before(from) == {f \in category : from # None /\ SortKey(f) < SortKey(from)}
Images == {f \in category : FileIs(f) = "image"}
Lists(w) ==
  /\ w.left = {} /\ w.from \in category \cup {None} /\ w.members = Before(w.from)
Fetches(w) ==
  /\ w.left \subseteq category /\ w.assets \subseteq Images
  /\ Cardinality(w.left \cup w.assets) <= Cap
  /\ w.truncated = (Cardinality(category) > Cap)
  /\ ~ w.truncated => Images \subseteq w.left \cup w.assets

OfCategory(k) == task[k] # None /\ task[k].kind = "commons_category"
Whole(res) ==
  IF Cardinality(category) > Cap
  THEN res.truncated /\ res.assets \subseteq Images /\ Cardinality(res.assets) <= Cap
  ELSE ~ res.truncated /\ res.assets = Images
Faithful(k) ==
  OfCategory(k) /\ ~ disturbed =>
    /\ request[k].step \in Requesting => Lists(work[k]) \/ (work[k].left # {} /\ Fetches(work[k]))
    /\ result[k] # None /\ result[k].reason \in Reasons => Whole(result[k])

LInv == Types /\ \A k \in Keys : Typed(k) /\ Placed(k) /\ Faithful(k)

(***************************************************************************)
(* References, and what the outcomes of a step leave.                      *)
(***************************************************************************)

Kinds ==
  {"invalid", "commons_category", "commons_file", "flickr", "generic_http",
   "panoramax", "mapillary", "streetside", "kartaview"}

LEMMA KindsLemma ==
  ASSUME NEW ref \in AllReferences
  PROVE  /\ ref.kind \in Kinds
         /\ ref.kind = "commons_category" => ref.provider = "wikimedia_commons"
<1>1. PICK key, v : ref = ReferenceOf(key, v)
  BY DEF AllReferences, ReferencesOf
<1> DEFINE found == Canonical(key, v)
<1>2. ref.provider = ProviderOf(key, v) /\ ref.kind = found[2]
  BY <1>1 DEF ReferenceOf, Reference
<1>3. Commons(v)[2] \in Kinds
  BY DEF Commons, Kinds
<1>4. found[2] \in Kinds
  BY <1>3 DEF Canonical, KeptIf, Flickr, Kinds
<1>5. ASSUME found[2] = "commons_category" PROVE ProviderOf(key, v) = "wikimedia_commons"
  <2>1. key = "wikimedia_commons" \/ (key = "image" /\ v.prefix \in Titles)
    BY <1>5 DEF Canonical, KeptIf, Flickr
  <2> QED
    BY <2>1, PanoramaxAssumption DEF ProviderOf, ImageReferenceKeys
<1> QED
  BY <1>2, <1>4, <1>5

\* Only one key is the category's.
LEMMA OneCategoryKey ==
  ASSUME LInv, NEW j \in Keys, NEW k \in Keys, OfCategory(j), OfCategory(k)
  PROVE  j = k
<1>1. /\ task[j] \in AllReferences /\ task[k] \in AllReferences
      /\ Key(task[j]) = j /\ Key(task[k]) = k
  BY DEF LInv, Typed, OfCategory
<1>2. task[j].canonical = task[k].canonical /\ task[j].provider = task[k].provider
  BY <1>1, KindsLemma, OneCategory DEF OfCategory
<1> QED
  BY <1>1, <1>2 DEF Key

\* The API of the category reports an error, or a lookup of it begins anew.
Disturbs(k) == disturbed' \in BOOLEAN /\ (disturbed => disturbed' \/ OfCategory(k))

LEMMA OthersLemma ==
  ASSUME LInv, NEW k \in Keys, Alone(k), Disturbs(k), NEW j \in Keys \ {k}
  PROVE  Typed(j)' /\ Placed(j)' /\ Faithful(j)'
<1>1. /\ tries'[j] = tries[j] /\ request'[j] = request[j]
      /\ work'[j] = work[j] /\ result'[j] = result[j]
      /\ task' = task /\ state' = state /\ category' = category
  BY DEF Alone
<1>2. Typed(j) /\ Placed(j) /\ Faithful(j)
  BY DEF LInv
<1>3. Typed(j)'
  BY <1>1, <1>2 DEF Typed
<1>4. Placed(j)'
  BY <1>1, <1>2 DEF Placed
<1>5. Faithful(j)'
  <2> SUFFICES ASSUME OfCategory(j)', ~ disturbed' PROVE Faithful(j)'
    BY DEF Faithful
  <2>1. OfCategory(j)
    BY <1>1 DEF OfCategory
  <2>2. ~ disturbed
    BY <2>1, OneCategoryKey DEF Disturbs
  <2> QED
    BY <1>1, <1>2, <2>1, <2>2 DEF Faithful, Lists, Fetches, Before, Images, Whole
<1> QED
  BY <1>3, <1>4, <1>5

LEMMA AloneLemma ==
  ASSUME LInv, NEW k \in Keys, Alone(k), Disturbs(k), Typed(k)', Placed(k)', Faithful(k)'
  PROVE  LInv'
<1>1. Types'
  BY DEF LInv, Types, Alone, Disturbs
<1>2. \A j \in Keys : Typed(j)' /\ Placed(j)' /\ Faithful(j)'
  BY OthersLemma
<1> QED
  BY <1>1, <1>2 DEF LInv

Live(k) == state = "open" /\ request[k].step # "idle"

LEMMA EndsKeeps ==
  ASSUME LInv, NEW k \in Keys, Alone(k), Disturbs(k), Live(k),
         NEW res, Ends(k, res), res.status \in Statuses,
         OfCategory(k) /\ ~ disturbed' /\ res.reason \in Reasons => Whole(res)
  PROVE  LInv'
<1>1. Typed(k) /\ Placed(k)
  BY DEF LInv
<1>2. task' = task /\ state' = state /\ category' = category
  BY DEF Alone
<1>3. Idle.step = "idle" /\ Idle.hops = 0 /\ 0 \in 0..MaxRedirects
  BY SizesAssumption DEF Idle
<1>4. NoWork.members = {} /\ NoWork.left = {} /\ NoWork.assets = {}
  BY DEF NoWork
<1>5. Typed(k)'
  BY <1>1, <1>2, <1>3, <1>4 DEF Typed, Ends
<1>6. Placed(k)'
  BY <1>1, <1>2, <1>3 DEF Placed, Ends, Live, Requesting
<1>7. Faithful(k)'
  BY <1>2, <1>3 DEF Faithful, Ends, Requesting, OfCategory, Whole, Images
<1> QED
  BY <1>5, <1>6, <1>7, AloneLemma

LEMMA FailingKeeps ==
  ASSUME LInv, NEW k \in Keys, Alone(k), Disturbs(k), Live(k), Failing(k)
  PROVE  LInv'
<1>1. CASE Retries(k)
  <2>1. Typed(k) /\ Placed(k)
    BY DEF LInv
  <2>2. task' = task /\ state' = state
    BY DEF Alone
  <2>3. /\ NoWork.members = {} /\ NoWork.left = {} /\ NoWork.assets = {}
        /\ 0 \in 0..MaxRedirects
    BY SizesAssumption DEF NoWork
  <2>4. Typed(k)'
    BY <1>1, <2>1, <2>2, <2>3 DEF Typed, Retries
  <2>5. Placed(k)'
    BY <1>1, <2>1, <2>2 DEF Placed, Retries, Live, Requesting
  <2>6. result'[k] = None
    BY <1>1, <2>1 DEF Retries, Placed, Live
  <2>7. Faithful(k)'
    BY <1>1, <2>6 DEF Faithful, Retries, Requesting
  <2> QED
    BY <2>4, <2>5, <2>7, AloneLemma
<1>2. CASE \E res : Ends(k, res) /\ res.status \in Statuses /\ res.reason \notin Reasons
  BY <1>2, EndsKeeps
<1> QED
  BY <1>1, <1>2 DEF Failing

LEMMA ContinuesKeeps ==
  ASSUME LInv, NEW k \in Keys, Alone(k), disturbed' \in BOOLEAN, disturbed => disturbed',
         state = "open", request[k].step \in Requesting, Continues(k)
  PROVE  LInv'
<1>1. Typed(k) /\ Placed(k) /\ Faithful(k)
  BY DEF LInv
<1>2. task' = task /\ state' = state /\ category' = category
  BY DEF Alone
<1>3. Typed(k)'
  BY <1>1, <1>2 DEF Typed, Continues
<1>4. Placed(k)'
  BY <1>1, <1>2 DEF Placed, Continues, Requesting
<1>5. Faithful(k)'
  BY <1>1, <1>2 DEF Faithful, Continues, OfCategory, Lists, Fetches, Before, Images, Whole
<1> QED
  BY <1>3, <1>4, <1>5, AloneLemma DEF Disturbs

LEMMA AsksKeeps ==
  ASSUME LInv, NEW k \in Keys, Alone(k), disturbed' \in BOOLEAN, disturbed => disturbed',
         state = "open", request[k].step \in Requesting, NEW w, Asks(k, w),
         DOMAIN w = DOMAIN NoWork, w.members \subseteq Files, w.left \cap w.assets = {},
         OfCategory(k) /\ ~ disturbed' => Lists(w) \/ (w.left # {} /\ Fetches(w))
  PROVE  LInv'
<1>1. Typed(k) /\ Placed(k)
  BY DEF LInv
<1>2. task' = task /\ state' = state /\ category' = category
  BY DEF Alone
<1>3. Typed(k)'
  BY <1>1, <1>2, SizesAssumption DEF Typed, Asks, Requesting
<1>4. Placed(k)'
  BY <1>1, <1>2 DEF Placed, Asks, Requesting
<1>5. result'[k] = None
  BY <1>1 DEF Placed, Asks, Requesting
<1>6. Faithful(k)'
  BY <1>2, <1>5 DEF Faithful, Asks, OfCategory, Lists, Fetches, Before, Images
<1> QED
  BY <1>3, <1>4, <1>6, AloneLemma DEF Disturbs

(***************************************************************************)
(* The category: a page extends what is listed, and a selection is whole   *)
(* or as large as it may be.                                               *)
(***************************************************************************)

LEMMA PageLemma ==
  ASSUME category \subseteq Files, NEW from \in category \cup {None}, NEW page \in Pages(from)
  PROVE  /\ page.next \in category \cup {None}
         /\ Before(from) \cup page.members =
              IF page.next = None THEN category ELSE Before(page.next)
<1> DEFINE L == Listing(from)
<1>1. PICK n \in 0..Page :
        page = [members |-> First(n, L, SortKey),
                next |-> LET rest == L \ First(n, L, SortKey)
                         IN IF rest = {} THEN None
                            ELSE CHOOSE f \in rest : {f} = First(1, rest, SortKey)]
  BY DEF Pages
<1> DEFINE M == FirstBy(n, L, BySort)
           R == L \ M
<1>2. L \subseteq category /\ L \subseteq Files /\ R \subseteq Files
  BY DEF Listing
<1>3. First(n, L, SortKey) = M /\ First(1, R, SortKey) = FirstBy(1, R, BySort)
  BY <1>2, FirstLemma
<1>4. /\ page.members = M
      /\ page.next = IF R = {} THEN None ELSE CHOOSE f \in R : {f} = First(1, R, SortKey)
  BY <1>1, <1>3
<1>5. Before(from) \cup L = category
  BY RankLemma, NoneAssumption DEF Before, Listing
<1>6. n \in Nat /\ M \subseteq L
  BY SizesAssumption DEF FirstBy
<1>7. CASE R = {}
  BY <1>4, <1>5, <1>6, <1>7
<1>8. CASE R # {}
  <2> HIDE DEF L, M, R
  <2>1. PICK g \in R : \A h \in R : BySort[g] <= BySort[h]
    BY <1>2, <1>8, RankLemma, LeastLemma
  <2>2. FirstBy(1, R, BySort) = {g}
    <3>1. g \in FirstBy(1, R, BySort)
      <4>1. Below(R, BySort, g) = {}
        BY <1>2, <2>1, RankLemma DEF Below
      <4>2. Cardinality(Below(R, BySort, g)) = 0
        BY <4>1, FS_EmptySet
      <4> QED
        BY <4>2 DEF FirstBy
    <3>2. ASSUME NEW h \in FirstBy(1, R, BySort) PROVE h = g
      <4>1. h \in R /\ Cardinality(Below(R, BySort, h)) < 1
        BY <3>2 DEF FirstBy
      <4>2. Below(R, BySort, h) \in SUBSET Files
        BY <1>2 DEF Below
      <4>3. IsFiniteSet(Below(R, BySort, h)) /\ Cardinality(Below(R, BySort, h)) = 0
        BY <4>1, <4>2, FiniteLemma
      <4>4. Below(R, BySort, h) = {}
        BY <4>3, FS_EmptySet
      <4>5. ~ (BySort[g] < BySort[h])
        BY <4>4 DEF Below
      <4> QED
        BY <1>2, <2>1, <4>1, <4>5, RankLemma
    <3> QED
      BY <3>1, <3>2
  <2>3. page.next = g
    BY <1>3, <1>4, <1>8, <2>1, <2>2
  <2>4. g \in category /\ g # None /\ g \in L /\ g \notin M
    BY <1>2, <2>1, NoneAssumption DEF R
  <2>5. Before(g) = {f \in category : BySort[f] < BySort[g]}
    BY <2>4, RankLemma DEF Before
  <2>6. ASSUME NEW f \in Before(from) PROVE f \in category /\ BySort[f] < BySort[g]
    <3>1. from # None /\ from \in Files /\ f \in category /\ BySort[f] < BySort[from]
      BY RankLemma DEF Before
    <3>2. BySort[g] >= BySort[from]
      BY <2>4, <3>1, RankLemma DEF L, Listing
    <3>3. BySort[f] \in Nat /\ BySort[g] \in Nat /\ BySort[from] \in Nat
      BY <2>4, <3>1, RankLemma
    <3> QED
      BY <3>1, <3>2, <3>3
  <2>7. ASSUME NEW f \in M PROVE f \in category /\ BySort[f] < BySort[g]
    <3>1. f \in FirstBy(n, L, BySort) /\ g \in L \ FirstBy(n, L, BySort)
      BY <2>4 DEF M
    <3> QED
      BY <1>2, <1>6, <3>1, RankLemma, FirstBefore
  <2>8. ASSUME NEW f \in category, BySort[f] < BySort[g] PROVE f \in Before(from) \cup M
    <3>1. f \notin R
      BY <1>2, <2>1, <2>8, RankLemma
    <3> QED
      BY <1>5, <3>1 DEF R
  <2>9. Before(from) \cup M = Before(g)
    BY <2>5, <2>6, <2>7, <2>8
  <2> QED
    BY <1>4, <2>3, <2>4, <2>9
<1> QED
  BY <1>7, <1>8

LEMMA PageMembers ==
  ASSUME category \subseteq Files, NEW from, NEW page \in Pages(from)
  PROVE  page.members \subseteq Files
<1> DEFINE L == Listing(from)
<1>1. PICK n \in 0..Page :
        page = [members |-> First(n, L, SortKey),
                next |-> LET rest == L \ First(n, L, SortKey)
                         IN IF rest = {} THEN None
                            ELSE CHOOSE f \in rest : {f} = First(1, rest, SortKey)]
  BY DEF Pages
<1>2. page.members = First(n, L, SortKey)
  BY <1>1
<1> QED
  BY <1>2 DEF First, Listing

\* The selection of a listing that is complete.
LEMMA SelectionLemma ==
  ASSUME category \subseteq Files, NEW next \in category \cup {None},
         NEW members, members = (IF next = None THEN category ELSE Before(next)),
         Complete(next, Cardinality(members))
  PROVE  /\ Truncated(next, Cardinality(members)) = (Cardinality(category) > Cap)
         /\ First(Cap, members, PageId) \subseteq category
         /\ Cardinality(First(Cap, members, PageId)) <= Cap
         /\ Cardinality(category) <= Cap => First(Cap, members, PageId) = category
         /\ First(Cap, members, PageId) = {} => category = {}
<1> DEFINE sel == FirstBy(Cap, members, ByPage)
<1>1. Cap \in Nat \ {0}
  BY SizesAssumption
<1>2. members \subseteq category /\ members \in SUBSET Files
  BY DEF Before
<1>3. First(Cap, members, PageId) = sel
  BY <1>2, FirstLemma
<1>4. /\ sel \subseteq members /\ Cardinality(sel) <= Cap
      /\ Cardinality(members) <= Cap => sel = members
      /\ members # {} => sel # {}
  BY <1>1, <1>2, RankLemma, FirstCardinality
<1>5. Cardinality(members) \in Nat /\ Cardinality(category) \in Nat
  BY <1>2, FiniteLemma
<1> HIDE DEF sel
<1>6. CASE next = None
  <2>1. members = category
    BY <1>6
  <2>2. Truncated(next, Cardinality(members)) = (Cardinality(category) > Cap)
    BY <1>6, <2>1 DEF Truncated
  <2> QED
    BY <1>2, <1>3, <1>4, <2>1, <2>2, Zenon
<1>7. CASE next # None
  <2>1. next \in category /\ next \notin members
    BY <1>7, RankLemma DEF Before
  <2>2. Cardinality(members) < Cardinality(category)
    BY <1>2, <2>1, FiniteLemma
  <2>3. Cardinality(members) >= Cap
    BY <1>7 DEF Complete
  <2>4. Cardinality(category) > Cap /\ ~ (Cardinality(category) <= Cap)
    BY <1>1, <1>5, <2>2, <2>3
  <2>5. members # {}
    BY <1>1, <2>3, FS_EmptySet
  <2> QED
    BY <1>2, <1>3, <1>4, <1>7, <2>4, <2>5, Zenon DEF Truncated
<1> QED
  BY <1>6, <1>7

(***************************************************************************)
(* Answers.                                                                *)
(***************************************************************************)

\* What a lookup of the Commons kinds does with an answer, the right way.
LEMMA CategoryPageKeeps ==
  ASSUME LInv, AllSound(request), Still, NEW k \in Keys, disturbed' \in BOOLEAN,
         disturbed => disturbed', state = "open", request[k].step \in Requesting,
         NEW page, page.members \subseteq Files, CategoryPage(k, page),
         OfCategory(k) /\ ~ disturbed' => Lists(work[k]) /\ page \in Pages(work[k].from)
  PROVE  LInv'
<1> DEFINE members == work[k].members \cup page.members
           count == Cardinality(members)
           selected == First(Cap, members, PageId)
           truncated == Truncated(page.next, count)
<1>1. Functions /\ Typed(k) /\ category \subseteq Files
  BY DEF LInv, Types
<1>2. members \subseteq Files /\ selected \subseteq members
  BY <1>1 DEF Typed, First
<1>3. ASSUME OfCategory(k), ~ disturbed'
      PROVE  /\ page.next \in category \cup {None}
             /\ members = IF page.next = None THEN category ELSE Before(page.next)
  BY <1>1, <1>3, PageLemma DEF Lists
<1> HIDE DEF members, selected, truncated
<1>4. ASSUME OfCategory(k), ~ disturbed', Complete(page.next, count)
      PROVE  /\ truncated = (Cardinality(category) > Cap)
             /\ selected \subseteq category /\ Cardinality(selected) <= Cap
             /\ Cardinality(category) <= Cap => selected = category
             /\ selected = {} => category = {}
  BY <1>1, <1>3, <1>4, SelectionLemma DEF truncated, selected
<1>5. CASE ~ Complete(page.next, count)
  <2> DEFINE w == [work[k] EXCEPT !.members = members, !.from = page.next]
  <2>1. Sends(k, w)
    BY <1>5 DEF CategoryPage, members
  <2>2. /\ DOMAIN w = DOMAIN NoWork /\ w.members = members /\ w.from = page.next
        /\ w.left = work[k].left /\ w.assets = work[k].assets
    BY <1>1 DEF Typed, NoWork
  <2> HIDE DEF w
  <2>3. w.left \cap w.assets = {} /\ w.members \subseteq Files
    BY <1>1, <1>2, <2>2 DEF Typed
  <2>4. ASSUME OfCategory(k), ~ disturbed' PROVE Lists(w)
    <3>1. page.next # None
      BY <1>5 DEF Complete
    <3>2. w.left = {} /\ page.next \in category /\ members = Before(page.next)
      BY <1>3, <2>2, <2>4, <3>1 DEF Lists
    <3> QED
      BY <2>2, <3>2 DEF Lists
  <2>5. Alone(k) /\ Asks(k, w)
    BY <1>1, <2>1, SendsAsks
  <2> QED
    BY <2>2, <2>3, <2>4, <2>5, AsksKeeps
<1>6. CASE Complete(page.next, count) /\ selected = {}
  <2> DEFINE res == Result("category_empty", {}, "no_direct_file_members")
  <2>1. Resolves(k, res)
    BY <1>6 DEF CategoryPage, members, selected, truncated
  <2>2. res.status \in Statuses /\ res.assets = {} /\ res.truncated = FALSE
    BY DEF Result, Statuses
  <2> HIDE DEF res
  <2>3. ASSUME OfCategory(k), ~ disturbed' PROVE Whole(res)
    <3>1. category = {} /\ Images = {}
      BY <1>4, <1>6, <2>3 DEF Images
    <3>2. ~ (Cardinality(category) > Cap)
      BY <3>1, FS_EmptySet, SizesAssumption
    <3> QED
      BY <2>2, <3>1, <3>2 DEF Whole
  <2>4. Alone(k) /\ Ends(k, res)
    BY <1>1, <2>1, ResolvesEnds
  <2> QED
    BY <2>2, <2>3, <2>4, EndsKeeps DEF Disturbs, Live, Requesting
<1>7. CASE Complete(page.next, count) /\ selected # {}
  <2> DEFINE w == [NoWork EXCEPT !.left = selected, !.truncated = truncated]
  <2>1. Sends(k, w)
    BY <1>7 DEF CategoryPage, members, selected, truncated
  <2>2. /\ DOMAIN w = DOMAIN NoWork /\ w.members = {}
        /\ w.left = selected /\ w.assets = {} /\ w.truncated = truncated
    BY DEF NoWork
  <2> HIDE DEF w
  <2>3. ASSUME OfCategory(k), ~ disturbed' PROVE Fetches(w)
    <3>1. w.left \cup w.assets = selected
      BY <2>2
    <3>2. ASSUME ~ w.truncated PROVE Images \subseteq selected
      <4>1. ~ (Cardinality(category) > Cap)
        BY <1>4, <1>7, <2>2, <2>3, <3>2
      <4>2. Cardinality(category) <= Cap
        BY <1>1, <4>1, FiniteLemma, SizesAssumption
      <4> QED
        BY <1>4, <1>7, <2>3, <4>2 DEF Images
    <3>3. w.truncated = (Cardinality(category) > Cap)
      BY <1>4, <1>7, <2>2, <2>3
    <3>4. selected \subseteq category /\ Cardinality(selected) <= Cap
      BY <1>4, <1>7, <2>3
    <3> QED
      BY <2>2, <3>1, <3>2, <3>3, <3>4 DEF Fetches
  <2>4. Alone(k) /\ Asks(k, w)
    BY <1>1, <2>1, SendsAsks
  <2> QED
    BY <1>7, <2>2, <2>3, <2>4, AsksKeeps
<1> QED
  BY <1>5, <1>6, <1>7

LEMMA FileBatchKeeps ==
  ASSUME LInv, AllSound(request), Still, NEW k \in Keys, disturbed' \in BOOLEAN,
         disturbed => disturbed', state = "open", request[k].step \in Requesting,
         NEW answered, NEW named, FileBatch(k, answered, named), work[k].left # {},
         OfCategory(k) /\ ~ disturbed' =>
           Fetches(work[k]) /\ answered = work[k].left /\ named = work[k].left
  PROVE  LInv'
<1> DEFINE titles == First(TitleBatch, work[k].left, PageId)
           found == {f \in titles \cap answered \cap named : FileIs(f) = "image"}
           w == [work[k] EXCEPT
                  !.left = @ \ titles,
                  !.assets = @ \cup found,
                  !.other = @ \/ \E f \in titles \cap answered : FileIs(f) = "other"]
           res == Truncate(FilesResult(w), w.truncated)
<1>1. Functions /\ Typed(k)
  BY DEF LInv, Types
<1>2. titles \subseteq work[k].left
  BY DEF First
<1>3. IF w.left # {} THEN Sends(k, w) ELSE Resolves(k, res)
  BY DEF FileBatch
<1>4. /\ DOMAIN w = DOMAIN NoWork /\ w.members = work[k].members
      /\ w.left = work[k].left \ titles /\ w.assets = work[k].assets \cup found
      /\ w.truncated = work[k].truncated
  BY <1>1 DEF Typed, NoWork
<1>5. /\ found \subseteq titles
      /\ \A f \in found : FileIs(f) = "image"
      /\ \A f \in titles \cap answered \cap named : FileIs(f) = "image" => f \in found
  OBVIOUS
<1> HIDE DEF titles, found, w
<1>6. w.left \cap w.assets = {} /\ w.members \subseteq Files
  BY <1>1, <1>2, <1>4, <1>5 DEF Typed
<1>7. ASSUME OfCategory(k), ~ disturbed' PROVE Fetches(w)
  <2>1. Fetches(work[k]) /\ answered = work[k].left /\ named = work[k].left
    BY <1>7
  <2>2. w.left \subseteq category /\ w.assets \subseteq Images
    BY <1>2, <1>4, <1>5, <2>1 DEF Fetches, Images
  <2>3. w.left \cup w.assets \subseteq work[k].left \cup work[k].assets
    BY <1>2, <1>4, <1>5
  <2>4. Cardinality(w.left \cup w.assets) <= Cap
    <3>1. work[k].left \cup work[k].assets \in SUBSET Files
      BY <2>1 DEF Fetches, Images, LInv, Types
    <3>2. /\ Cardinality(w.left \cup w.assets) <= Cardinality(work[k].left \cup work[k].assets)
          /\ Cardinality(work[k].left \cup work[k].assets) \in Nat
      BY <2>3, <3>1, FiniteLemma
    <3>3. Cardinality(w.left \cup w.assets) \in Nat
      BY <2>3, <3>1, FiniteLemma
    <3> QED
      BY <2>1, <3>2, <3>3, SizesAssumption DEF Fetches
  <2>5. ASSUME ~ w.truncated, NEW f \in Images PROVE f \in w.left \cup w.assets
    <3>1. f \in work[k].left \cup work[k].assets /\ FileIs(f) = "image"
      BY <1>4, <2>1, <2>5 DEF Fetches, Images
    <3> QED
      BY <1>2, <1>4, <1>5, <2>1, <3>1
  <2>6. w.truncated = (Cardinality(category) > Cap)
    BY <1>4, <2>1 DEF Fetches
  <2> QED
    BY <2>2, <2>4, <2>5, <2>6 DEF Fetches
<1>8. CASE w.left # {}
  <2>1. Alone(k) /\ Asks(k, w)
    BY <1>1, <1>3, <1>8, SendsAsks
  <2> QED
    BY <1>4, <1>6, <1>7, <1>8, <2>1, AsksKeeps
<1>9. CASE w.left = {}
  <2>1. Alone(k) /\ Ends(k, res)
    BY <1>1, <1>3, <1>9, ResolvesEnds
  <2>2. res.status \in Statuses /\ res.assets = w.assets /\ res.truncated = w.truncated
    BY DEF Truncate, FilesResult, Resolved, NotDirect, NotFound, Result, Statuses
  <2> HIDE DEF res
  <2>3. ASSUME OfCategory(k), ~ disturbed' PROVE Whole(res)
    <3>1. w.left \cup w.assets = w.assets
      BY <1>9
    <3>2. Fetches(w)
      BY <1>7, <2>3
    <3> QED
      BY <2>2, <3>1, <3>2 DEF Fetches, Whole
  <2> QED
    BY <2>1, <2>2, <2>3, EndsKeeps DEF Disturbs, Live, Requesting
<1> QED
  BY <1>8, <1>9

\* What another resolver makes of an answer is one of the statuses.
LEMMA InterpretLemma ==
  ASSUME NEW kind \in Kinds \ ({"invalid", "streetside", "generic_http"} \cup CommonsKinds), NEW p
  PROVE  Interpret(kind, p).status \in Statuses
<1>1. kind \in {"mapillary", "panoramax", "kartaview", "flickr"}
  BY DEF Kinds, CommonsKinds
<1>2. Mapillary(p).status \in Statuses
  BY DEF Mapillary, Escaped, Result, NotFound, Resolved, Statuses
<1>3. Panoramax(p).status \in Statuses
  BY DEF Panoramax, Result, NotFound, NotDirect, Resolved, Statuses
<1>4. KartaView(p).status \in Statuses
  BY DEF KartaView, Result, NotFound, NotDirect, Resolved, Statuses
<1>5. FlickrSizes(p).status \in Statuses
  BY DEF FlickrSizes, Result, PageOnly, Resolved, Statuses
<1> QED
  BY <1>1, <1>2, <1>3, <1>4, <1>5 DEF Interpret

LEMMA CommonsReplyKeeps ==
  ASSUME LInv, AllSound(request), Still, NEW k \in Keys, disturbed' \in BOOLEAN,
         disturbed => disturbed', state = "open", request[k].step \in Requesting,
         NEW body, CommonsReply(k, body), body \in Lossy => disturbed',
         task[k].kind \in CommonsKinds
  PROVE  LInv'
<1>1. Functions /\ Typed(k) /\ Placed(k) /\ Faithful(k) /\ category \subseteq Files
  BY DEF LInv, Types
<1>2. CASE work[k].left # {}
  <2>1. ASSUME NEW answered, NEW named, FileBatch(k, answered, named),
               body \in Lossy \/ (answered = work[k].left /\ named = work[k].left)
        PROVE  LInv'
    <3>1. OfCategory(k) /\ ~ disturbed' =>
            Fetches(work[k]) /\ answered = work[k].left /\ named = work[k].left
      BY <1>1, <1>2, <2>1 DEF Faithful, Lists
    <3> QED
      BY <1>2, <2>1, <3>1, FileBatchKeeps
  <2>2. \/ body \notin Lossy /\ FileBatch(k, work[k].left, work[k].left)
        \/ body \in Lossy /\ \E answered, named : FileBatch(k, answered, named)
    BY <1>2, Zenon DEF CommonsReply, Lossy
  <2> QED
    BY <2>1, <2>2
<1>3. CASE work[k].left = {}
  <2>1. ASSUME Resolves(k, Result("temporary_failure", {}, "malformed_continuation"))
        PROVE  LInv'
    <3> DEFINE res == Result("temporary_failure", {}, "malformed_continuation")
    <3>1. Alone(k) /\ Ends(k, res)
      BY <1>1, <2>1, ResolvesEnds
    <3>2. res.status \in Statuses /\ res.reason \notin Reasons
      BY DEF Result, Statuses, Reasons
    <3> QED
      BY <3>1, <3>2, EndsKeeps DEF Disturbs, Live, Requesting
  <2> DEFINE none == [members |-> {}, next |-> None]
  <2>2. ASSUME body = "error", CategoryPage(k, none) PROVE LInv'
    <3>1. none.members \subseteq Files
      OBVIOUS
    <3>2. disturbed'
      BY <2>2 DEF Lossy
    <3> HIDE DEF none
    <3> QED
      BY <2>2, <3>1, <3>2, CategoryPageKeeps
  <2>3. ASSUME NEW page \in Pages(work[k].from), CategoryPage(k, page) PROVE LInv'
    <3>1. page.members \subseteq Files
      BY <1>1, PageMembers
    <3>2. OfCategory(k) /\ ~ disturbed' => Lists(work[k])
      BY <1>1, <1>3 DEF Faithful
    <3> QED
      BY <2>3, <3>1, <3>2, CategoryPageKeeps
  <2>4. ASSUME body = "partial", NEW page \in Pages(work[k].from),
               NEW usable \in SUBSET page.members,
               CategoryPage(k, [page EXCEPT !.members = usable])
        PROVE  LInv'
    <3> DEFINE part == [page EXCEPT !.members = usable]
    <3>1. part.members = usable
      BY DEF Pages
    <3>2. usable \subseteq Files
      BY <1>1, PageMembers
    <3>3. disturbed'
      BY <2>4 DEF Lossy
    <3> HIDE DEF part
    <3> QED
      BY <2>4, <3>1, <3>2, <3>3, CategoryPageKeeps DEF part
  <2> QED
    BY <1>3, <2>1, <2>2, <2>3, <2>4, Zenon DEF CommonsReply
<1> QED
  BY <1>2, <1>3

(***************************************************************************)
(* The steps of a lookup.                                                  *)
(***************************************************************************)

LEMMA StartKeeps ==
  ASSUME LInv, AllSound(request), NEW k \in Keys, Start(k) PROVE LInv'
<1> DEFINE ref == task[k]
<1>1. /\ Functions /\ Typed(k) /\ Placed(k) /\ Still /\ Live(k) /\ request[k].step = "start"
      /\ disturbed \in BOOLEAN /\ disturbed' = (disturbed /\ ref.kind # "commons_category")
  BY DEF LInv, Types, Start, Active, UnchangedBatch, Still, Live
<1>2. ref \in AllReferences /\ ref # None /\ result[k] = None /\ tries[k] < Attempts
      /\ work[k] = NoWork
  BY <1>1, NoneAssumption DEF Placed
<1>3. Disturbs(k)
  BY <1>1, <1>2 DEF Disturbs, OfCategory
<1>4. ASSUME NEW res, Resolves(k, res), res.status \in Statuses, ~ OfCategory(k) PROVE LInv'
  <2>1. Alone(k) /\ Ends(k, res)
    BY <1>1, <1>4, ResolvesEnds
  <2> QED
    BY <1>1, <1>3, <1>4, <2>1, EndsKeeps
<1>5. CASE ref.kind = "invalid"
  <2>1. Resolves(k, Result("invalid_reference", {}, "invalid_provider_reference"))
    BY <1>5 DEF Start, NeedsNoRequest
  <2>2. Result("invalid_reference", {}, "invalid_provider_reference").status \in Statuses
    BY DEF Result, Statuses
  <2> QED
    BY <1>4, <1>5, <2>1, <2>2 DEF OfCategory
<1>6. CASE ref.kind # "invalid" /\ NeedsNoRequest(ref)
  <2>1. Resolves(k, PageOnly)
    BY <1>6 DEF Start
  <2>2. PageOnly.status \in Statuses
    BY DEF PageOnly, Result, Statuses
  <2> QED
    BY <1>4, <1>6, <2>1, <2>2 DEF OfCategory, NeedsNoRequest
<1>7. CASE ref.kind # "invalid" /\ ~ NeedsNoRequest(ref)
  <2> DEFINE url == IF ref.kind = "generic_http" THEN UrlOf(ref.canonical) ELSE Api(ref.kind)
             w == IF ref.kind = "commons_file" THEN [NoWork EXCEPT !.left = {ref.canonical.text}]
                  ELSE NoWork
  <2>1. /\ request' = [request EXCEPT ![k] = Getting(url, ref.kind = "mapillary")]
        /\ work' = IF ref.kind = "commons_file"
                   THEN [work EXCEPT ![k].left = {ref.canonical.text}] ELSE work
        /\ tries' = [tries EXCEPT ![k] = @ + 1] /\ result' = result
    BY <1>7 DEF Start
  <2> HIDE DEF url
  <2>2. request'[k].step = "validate" /\ request'[k].hops = 0
    BY <2>1 DEF AllSound, Getting
  <2>3. work'[k] = w /\ tries'[k] = tries[k] + 1 /\ result'[k] = None
    BY <1>1, <1>2, <2>1 DEF Functions
  <2>4. Alone(k)
    BY <1>1, <2>1 DEF AllSound, Functions, Alone, Still
  <2>5. /\ DOMAIN w = DOMAIN NoWork /\ w.members = {} /\ w.assets = {}
        /\ ref.kind # "commons_file" => w = NoWork
    BY DEF NoWork
  <2>6. task' = task /\ state' = state /\ category' = category
    BY <2>4 DEF Alone
  <2> HIDE DEF w
  <2>7. Typed(k)'
    BY <1>1, <1>2, <2>2, <2>3, <2>5, <2>6, SizesAssumption DEF Typed, Requesting
  <2>8. Placed(k)'
    BY <1>1, <1>2, <1>7, <2>2, <2>3, <2>6 DEF Placed, Requesting, NeedsNoRequest, Live
  <2>9. Faithful(k)'
    <3>1. ASSUME OfCategory(k) PROVE Lists(w)
      BY <2>5, <3>1 DEF OfCategory, Lists, NoWork, Before
    <3> QED
      BY <2>2, <2>3, <2>6, <3>1 DEF Faithful, OfCategory, Lists, Before
  <2> QED
    BY <1>3, <2>4, <2>7, <2>8, <2>9, AloneLemma
<1> QED
  BY <1>5, <1>6, <1>7

LEMMA FailsKeeps ==
  ASSUME LInv, AllSound(request), Still, NEW k \in Keys, NEW error, Fails(k, error),
         disturbed' \in BOOLEAN, disturbed => disturbed',
         state = "open", request[k].step \in Requesting
  PROVE  LInv'
<1>1. Alone(k) /\ Failing(k)
  BY FailsFailing DEF LInv, Types
<1> QED
  BY <1>1, FailingKeeps DEF Disturbs, Live, Requesting

LEMMA ValidateKeeps ==
  ASSUME LInv, AllSound(request), NEW k \in Keys, Validate(k) PROVE LInv'
<1>1. /\ Functions /\ Typed(k) /\ Still /\ state = "open" /\ request[k].step \in Requesting
      /\ disturbed' = disturbed /\ disturbed \in BOOLEAN
  BY DEF LInv, Types, Validate, Active, UnchangedBatch, Still, Requesting
<1>2. \/ \E error : Fails(k, error)
      \/ request' = [request EXCEPT ![k].step = "connect"] /\ UNCHANGED <<tries, work, result>>
  BY Zenon DEF Validate
<1>3. ASSUME request' = [request EXCEPT ![k].step = "connect"], UNCHANGED <<tries, work, result>>
      PROVE  LInv'
  <2>1. request'[k].step = "connect" /\ request'[k].hops = request[k].hops
    BY <1>3 DEF AllSound, Sound
  <2>2. Alone(k)
    BY <1>1, <1>3 DEF AllSound, Functions, Alone, Still
  <2>3. Continues(k)
    BY <1>1, <1>3, <2>1 DEF Continues, Typed, Requesting
  <2> QED
    BY <1>1, <2>2, <2>3, ContinuesKeeps
<1> QED
  BY <1>1, <1>2, <1>3, FailsKeeps

LEMMA ConnectKeeps ==
  ASSUME LInv, AllSound(request), NEW k \in Keys, Connect(k) PROVE LInv'
<1>1. /\ Functions /\ Typed(k) /\ Still /\ state = "open" /\ request[k].step \in Requesting
      /\ disturbed' = disturbed /\ disturbed \in BOOLEAN
  BY DEF LInv, Types, Connect, Active, UnchangedBatch, Still, Requesting
<1>2. \/ \E error : Fails(k, error)
      \/ \E address : /\ request' = [request EXCEPT ![k].step = "answer", ![k].peer = address]
                      /\ UNCHANGED <<tries, work, result>>
  BY Zenon DEF Connect
<1>3. ASSUME NEW address,
             request' = [request EXCEPT ![k].step = "answer", ![k].peer = address],
             UNCHANGED <<tries, work, result>>
      PROVE  LInv'
  <2> DEFINE r == [request[k] EXCEPT !.step = "answer", !.peer = address]
  <2>1. request' = [request EXCEPT ![k] = r]
    BY <1>3 DEF AllSound
  <2>2. r.step = "answer" /\ r.hops = request[k].hops
    BY DEF AllSound, Sound
  <2> HIDE DEF r
  <2>3. request'[k] = r
    BY <2>1 DEF AllSound
  <2>4. Alone(k)
    BY <1>1, <1>3, <2>1 DEF AllSound, Functions, Alone, Still
  <2>5. Continues(k)
    BY <1>1, <1>3, <2>2, <2>3 DEF Continues, Typed, Requesting
  <2> QED
    BY <1>1, <2>4, <2>5, ContinuesKeeps
<1> QED
  BY <1>1, <1>2, <1>3, FailsKeeps

LEMMA RespondKeeps ==
  ASSUME LInv, AllSound(request), NEW k \in Keys, Respond(k) PROVE LInv'
<1>1. /\ Functions /\ Typed(k) /\ Placed(k) /\ Still /\ state = "open"
      /\ request[k].step \in Requesting /\ disturbed \in BOOLEAN
  BY DEF LInv, Types, Respond, Active, UnchangedBatch, Still, Requesting
<1>2. PICK reply :
        /\ IF task[k].kind = "generic_http" THEN ProbeReply(k, reply) ELSE JsonReply(k, reply)
        /\ disturbed' = (disturbed \/ (task[k].kind \in CommonsKinds /\ reply.body \in Lossy))
  BY Zenon DEF Respond
<1>3. disturbed' \in BOOLEAN /\ (disturbed => disturbed')
  BY <1>1, <1>2
<1>4. ASSUME NEW error, Fails(k, error) PROVE LInv'
  BY <1>1, <1>3, <1>4, FailsKeeps
<1>5. ASSUME NEW location, Redirect(k, location) PROVE LInv'
  <2>1. Alone(k) /\ (Failing(k) \/ Continues(k))
    BY <1>1, <1>5, RedirectContinues DEF Typed
  <2>2. CASE Failing(k)
    BY <1>1, <1>3, <2>1, <2>2, FailingKeeps DEF Disturbs, Live, Requesting
  <2>3. CASE Continues(k)
    BY <1>1, <1>3, <2>1, <2>3, ContinuesKeeps
  <2> QED
    BY <2>1, <2>2, <2>3
<1>6. ASSUME NEW res, Resolves(k, res), res.status \in Statuses, task[k].kind \notin CommonsKinds
      PROVE  LInv'
  <2>1. Alone(k) /\ Ends(k, res)
    BY <1>1, <1>6, ResolvesEnds
  <2> QED
    BY <1>1, <1>3, <1>6, <2>1, EndsKeeps DEF Disturbs, Live, Requesting, OfCategory, CommonsKinds
<1>7. CASE task[k].kind = "generic_http"
  <2>1. ProbeReply(k, reply) /\ task[k].kind \notin CommonsKinds
    BY <1>2, <1>7 DEF CommonsKinds
  <2>2. Generic(request[k].url, reply.body).status \in Statuses
    BY DEF Generic, Resolved, NotDirect, Result, Statuses
  <2>3. Result("not_found", {}, "http_status").status \in Statuses
    BY DEF Result, Statuses
  <2>4. ASSUME NEW res, Resolves(k, res), res.status \in Statuses PROVE LInv'
    BY <1>6, <2>1, <2>4
  <2> QED
    BY <1>4, <1>5, <2>1, <2>2, <2>3, <2>4, Zenon DEF ProbeReply
<1>8. CASE task[k].kind # "generic_http"
  <2>1. JsonReply(k, reply)
    BY <1>2, <1>8
  <2>2. ASSUME IF task[k].kind \in CommonsKinds THEN CommonsReply(k, reply.body)
               ELSE Resolves(k, Interpret(task[k].kind, reply.body))
        PROVE  LInv'
    <3>1. CASE task[k].kind \in CommonsKinds
      <4>1. reply.body \in Lossy => disturbed'
        BY <1>2, <3>1
      <4> QED
        BY <1>1, <1>3, <2>2, <3>1, <4>1, CommonsReplyKeeps
    <3>2. CASE task[k].kind \notin CommonsKinds
      <4>1. task[k].kind \in Kinds \ ({"invalid", "streetside", "generic_http"} \cup CommonsKinds)
        BY <1>1, <1>8, <3>2, KindsLemma DEF Placed, Requesting
      <4> QED
        BY <1>6, <2>2, <3>2, <4>1, InterpretLemma
    <3> QED
      BY <3>1, <3>2
  <2> QED
    BY <1>4, <1>5, <2>1, <2>2, Zenon DEF JsonReply
<1> QED
  BY <1>7, <1>8

(***************************************************************************)
(* The steps of the batch and of the world.                                *)
(***************************************************************************)

LEMMA TimeOutKeeps ==
  ASSUME LInv, AllSound(request), NEW k \in Keys, TimeOut(k) PROVE LInv'
<1>1. /\ Still /\ state = "open" /\ request[k].step \in Requesting
      /\ disturbed' = disturbed /\ disturbed \in BOOLEAN /\ Fails(k, "safe_http")
  BY DEF LInv, Types, TimeOut, UnchangedBatch, Still, Requesting
<1> QED
  BY <1>1, FailsKeeps

LEMMA OpenKeeps == ASSUME LInv, OpenBatch PROVE LInv'
<1>1. /\ Types /\ \A k \in Keys : Typed(k) /\ Placed(k)
      /\ UNCHANGED <<batch, tries, work, result, category, edits, disturbed>> /\ state = "new"
  BY DEF LInv, OpenBatch
<1>2. CASE \E row \in batch : RowRaises(row)
  <2>1. state' = "failed" /\ UNCHANGED <<task, request>>
    BY <1>2 DEF OpenBatch
  <2>2. ASSUME NEW k \in Keys PROVE Typed(k)' /\ Placed(k)' /\ Faithful(k)'
    <3>1. Typed(k) /\ Placed(k) /\ task[k] = None
      BY <1>1 DEF Placed
    <3>2. ~ OfCategory(k)'
      BY <2>1, <3>1 DEF OfCategory
    <3>3. Placed(k)'
      BY <1>1, <2>1, <3>1 DEF Placed
    <3>4. Typed(k)'
      BY <1>1, <2>1, <3>1 DEF Typed
    <3> QED
      BY <3>2, <3>3, <3>4 DEF Faithful
  <2>3. Types'
    BY <1>1, <2>1 DEF Types, Functions
  <2> QED
    BY <2>2, <2>3 DEF LInv
<1>3. CASE ~ \E row \in batch : RowRaises(row)
  <2> DEFINE references == UNION {ReferencesOf(row) : row \in batch}
             met == {Key(ref) : ref \in references}
  <2>1. PICK chosen \in [met -> references] :
          /\ \A k \in met : Key(chosen[k]) = k
          /\ task' = [k \in Keys |-> IF k \in met THEN chosen[k] ELSE None]
          /\ request' = [k \in Keys |->
                IF k \in met THEN [Idle EXCEPT !.step = "start"] ELSE Idle]
          /\ state' = "open"
    BY <1>3 DEF OpenBatch
  <2>2. references \subseteq AllReferences
    BY <1>1 DEF Types, AllReferences
  <2> HIDE DEF references, met
  <2>3. /\ Idle.step = "idle" /\ Idle.hops = 0
        /\ [Idle EXCEPT !.step = "start"].step = "start"
        /\ [Idle EXCEPT !.step = "start"].hops = 0
    BY DEF Idle
  <2>4. ASSUME NEW k \in Keys PROVE Typed(k)' /\ Placed(k)' /\ Faithful(k)'
    <3>1. /\ Typed(k) /\ Placed(k) /\ task[k] = None /\ tries[k] = 0 /\ work[k] = NoWork
          /\ result[k] = None
      BY <1>1 DEF Placed
    <3>2. /\ tries'[k] = 0 /\ work'[k] = NoWork /\ result'[k] = None
          /\ request'[k].hops = 0
          /\ request'[k].step = IF k \in met THEN "start" ELSE "idle"
      BY <1>1, <2>1, <2>3, <3>1
    <3>3. task'[k] = IF k \in met THEN chosen[k] ELSE None
      BY <2>1
    <3>4. k \in met => task'[k] \in AllReferences /\ Key(task'[k]) = k
      BY <2>1, <2>2, <3>3
    <3>5. 0 < Attempts /\ 0 \in 0..Attempts /\ 0 \in 0..MaxRedirects
      BY SizesAssumption
    <3>6. Typed(k)'
      <4>1. task'[k] # None => task'[k] \in AllReferences /\ Key(task'[k]) = k
        BY <3>3, <3>4
      <4> QED
        BY <1>1, <3>1, <3>2, <3>5, <4>1 DEF Typed
    <3>7. Placed(k)'
      BY <2>1, <3>2, <3>4, <3>5 DEF Placed, Requesting
    <3>8. Faithful(k)'
      BY <3>2 DEF Faithful, Requesting
    <3> QED
      BY <3>6, <3>7, <3>8
  <2>5. Types'
    BY <1>1, <2>1 DEF Types, Functions
  <2> QED
    BY <2>4, <2>5 DEF LInv
<1> QED
  BY <1>2, <1>3

LEMMA CloseKeeps == ASSUME LInv, CloseBatch PROVE LInv'
<1>1. /\ UNCHANGED <<batch, task, tries, request, work, result, category, edits, disturbed>>
      /\ state' \in {"failed", "done"}
  BY DEF CloseBatch, lookupVars
<1>2. Types'
  BY <1>1 DEF LInv, Types, Functions
<1>3. ASSUME NEW k \in Keys PROVE Typed(k)' /\ Placed(k)' /\ Faithful(k)'
  <2>1. Typed(k) /\ Placed(k) /\ Faithful(k)
    BY DEF LInv
  <2>2. Typed(k)'
    BY <1>1, <2>1 DEF Typed
  <2>3. Placed(k)'
    BY <1>1, <2>1 DEF Placed
  <2>4. Faithful(k)'
    BY <1>1, <2>1 DEF Faithful, OfCategory, Lists, Fetches, Before, Images, Whole
  <2> QED
    BY <2>2, <2>3, <2>4
<1> QED
  BY <1>2, <1>3 DEF LInv

LEMMA StutterKeeps == ASSUME LInv, UNCHANGED vars PROVE LInv'
<1>1. UNCHANGED <<batch, state, task, tries, request, work, result, category, edits, disturbed>>
  BY DEF vars, lookupVars
<1>2. Types'
  BY <1>1 DEF LInv, Types, Functions
<1>3. ASSUME NEW k \in Keys PROVE Typed(k)' /\ Placed(k)' /\ Faithful(k)'
  <2>1. Typed(k) /\ Placed(k) /\ Faithful(k)
    BY DEF LInv
  <2> QED
    BY <1>1, <2>1
       DEF Typed, Placed, Faithful, OfCategory, Lists, Fetches, Before, Images, Whole
<1> QED
  BY <1>2, <1>3 DEF LInv

LEMMA EditKeeps == ASSUME LInv, NEW f \in Files, Edit(f) PROVE LInv'
<1>1. /\ UNCHANGED <<batch, state, task, tries, request, work, result>>
      /\ disturbed' = TRUE /\ edits < Edits /\ edits' = edits + 1
      /\ category' = (category \ {f}) \cup ({f} \ category)
  BY DEF Edit, lookupVars
<1>2. Types'
  BY <1>1, SizesAssumption DEF LInv, Types, Functions
<1>3. ASSUME NEW k \in Keys PROVE Typed(k)' /\ Placed(k)' /\ Faithful(k)'
  <2>1. Typed(k) /\ Placed(k)
    BY DEF LInv
  <2>2. Typed(k)'
    BY <1>1, <2>1 DEF Typed
  <2>3. Placed(k)'
    BY <1>1, <2>1 DEF Placed
  <2>4. Faithful(k)'
    BY <1>1 DEF Faithful
  <2> QED
    BY <2>2, <2>3, <2>4
<1> QED
  BY <1>2, <1>3 DEF LInv

LEMMA InitLInv == Init => LInv
<1> SUFFICES ASSUME Init PROVE LInv
  OBVIOUS
<1>1. /\ batch \in Batches /\ state = "new" /\ task = [k \in Keys |-> None]
      /\ tries = [k \in Keys |-> 0] /\ request = [k \in Keys |-> Idle]
      /\ work = [k \in Keys |-> NoWork] /\ result = [k \in Keys |-> None]
      /\ category = FirstMembers /\ edits = 0 /\ disturbed = FALSE
  BY DEF Init
<1>2. Types
  <2>1. Functions
    BY <1>1 DEF Functions
  <2>2. 0 \in 0..Edits /\ FirstMembers \subseteq Files
    BY SizesAssumption, FilesAssumption
  <2> QED
    BY <1>1, <2>1, <2>2 DEF Types
<1>3. Idle.step = "idle" /\ Idle.hops = 0 /\ 0 \in 0..Attempts /\ 0 \in 0..MaxRedirects
  BY SizesAssumption DEF Idle
<1>4. NoWork.members = {} /\ NoWork.left = {} /\ NoWork.assets = {}
  BY DEF NoWork
<1>5. ASSUME NEW k \in Keys PROVE Typed(k) /\ Placed(k) /\ Faithful(k)
  <2>1. /\ task[k] = None /\ tries[k] = 0 /\ request[k] = Idle /\ work[k] = NoWork
        /\ result[k] = None
    BY <1>1
  <2>2. Typed(k)
    BY <1>3, <1>4, <2>1 DEF Typed
  <2>3. Placed(k)
    BY <1>3, <2>1 DEF Placed, Requesting
  <2>4. Faithful(k)
    BY <2>1 DEF Faithful, OfCategory
  <2> QED
    BY <2>2, <2>3, <2>4
<1> QED
  BY <1>2, <1>5 DEF LInv

LEMMA NextLInv == IInv /\ LInv /\ [Next]_vars => LInv'
<1> SUFFICES ASSUME AllSound(request), LInv, [Next]_vars PROVE LInv'
  BY DEF IInv
<1>1. ASSUME NEW k \in Keys, Step(k) \/ Respond(k) PROVE LInv'
  BY <1>1, StartKeeps, ValidateKeeps, ConnectKeeps, TimeOutKeeps, RespondKeeps DEF Step
<1> QED
  BY <1>1, OpenKeeps, CloseKeeps, StutterKeeps, EditKeeps DEF Next

\* Where every lookup is, and what a lookup of the category has collected.
THEOREM LookupsHold == Spec => []LInv
BY InitLInv, NextLInv, InvariantHolds, PTL DEF Spec

\* Lookups are well typed: attempts and redirects stay within their limits,
\* and every result has a status the rows know.
THEOREM TypeCorrect == Spec => []TypeOK
<1>1. LInv => TypeOK
  <2> SUFFICES ASSUME LInv PROVE TypeOK
    OBVIOUS
  <2>1. Types /\ \A k \in Keys : Typed(k)
    BY DEF LInv
  <2> QED
    BY <2>1, Zenon DEF TypeOK, Types, Typed, Requesting
<1> QED
  BY <1>1, LookupsHold, PTL

\* A category that nobody edits is resolved to all its images, or to as many
\* as may be with the mark that there are more, however the API cuts its pages.
THEOREM CategoryCorrect == Spec => []CategoryWhole
<1>1. LInv => CategoryWhole
  <2> SUFFICES ASSUME LInv PROVE CategoryWhole
    OBVIOUS
  <2>1. \A k \in Keys : Faithful(k)
    BY DEF LInv
  <2> QED
    BY <2>1 DEF CategoryWhole, Faithful, OfCategory, Whole, Images, Reasons
<1> QED
  BY <1>1, LookupsHold, PTL
=============================================================================
