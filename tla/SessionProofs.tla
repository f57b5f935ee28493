---------------------------- MODULE SessionProofs ----------------------------
(***************************************************************************)
(* Proofs about a session of the console (Session), for any keys and any   *)
(* tenants: types, the agreement of the stores with the browser's storage, *)
(* the confirmation dialogue, and that every call has its route.           *)
(***************************************************************************)
EXTENDS Session, SequenceTheorems, FiniteSetTheorems, TLAPS

KeyOrNone == Keys \cup {NoKey}

(* The tab s agrees with the stored key; unless it was overtaken, the      *)
(* validations in flight are of that key.                                  *)
Unanswered(s) == \E k \in Validations : s.sent[k] # Idle

Agrees(s, key) ==
  ~s.foreign
    => /\ Unanswered(s) \/ key = NoKey \/ s.authenticated
       /\ s.overtaken \/ /\ ~Overtaken(s, key)
                         /\ Unanswered(s) \/ (s.authenticated => s.tenant = key)

(* A question that can be executed still waits for its answer, and the last*)
(* call has reached its handler.                                           *)
Steady(s) == s.served /\ s.open # "again" /\ (s.callback => s.open = "yes")

Sound(s) == s \in TabState /\ Steady(s)

Good(s, key) == Sound(s) /\ Agrees(s, key)

SessionInv ==
  /\ saved \in KeyOrNone
  /\ errors \in 0..MaxErrors
  /\ Good(tab, saved)
-----------------------------------------------------------------------------
(***************************************************************************)
(* Every call has its route.  No two paths of the API, console's or        *)
(* gateway's, can be taken for each other, even with a parameter in the    *)
(* place of a word; so of the routes with a call's method exactly one      *)
(* matches, the one that is written like it.                               *)
(***************************************************************************)
(* Each segment of the route's path is the call's or a parameter.          *)
Fits(p, q) == Len(p) = Len(q) /\ \A i \in 1 .. Len(q) : q[i] \in {Id, p[i]}

(* The paths of both sides, by their number of segments below an id.       *)
Words == {"status", "instances", "messages", "metrics", "blacklist", "webhook", "pause", "resume",
          "qrcode", "pair", "connect", "disconnect", "restart"}
Seconds == {Broadcasts, <<"metrics", "daily">>, <<"metrics", "instances">>,
            <<"messages", "send">>, <<"webhook", "test">>, <<"blacklist", Id>>}
Thirds == {<<"messages", Id, "status">>, Broadcasts \o <<Id>>}
Fourths == {Broadcasts \o <<Id, verb>> : verb \in {"pause", "resume", "cancel"}}
Rests == {<<>>} \cup {<<w>> : w \in Words} \cup Seconds \cup Thirds \cup Fourths

Plain == {<<w>> : w \in {"register", "account", "logs", "groups"}}
         \cup {<<"health", "detailed">>, <<"account", "usage">>, <<"account", "audit-log">>}

Paths == Plain \cup OfGroup(Rests) \cup OfInstance(Rests)

(* The paths that ConsoleApi puts together.                                *)
LEMMA Joined ==
  /\ \A a, b, c : LET p == <<a, b>> \o <<c>>
                  IN  Len(p) = 3 /\ p[1] = a /\ p[2] = b /\ p[3] = c
  /\ \A a, b, c, d : LET p == <<a, b>> \o <<c, d>>
                     IN  Len(p) = 4 /\ p[1] = a /\ p[2] = b /\ p[3] = c /\ p[4] = d
OBVIOUS

(* The parts of Rests are told apart by their lengths.                     *)
LEMMA Lengths ==
  /\ \A p \in {<<w>> : w \in Words} : Len(p) = 1 /\ \E w \in Words : p = <<w>>
  /\ \A p \in Seconds : Len(p) = 2
  /\ \A p \in Thirds : Len(p) = 3
  /\ \A p \in Fourths : Len(p) = 4
<1>1. \A p \in {<<w>> : w \in Words} : Len(p) = 1 /\ \E w \in Words : p = <<w>>
  OBVIOUS
<1>2. \A p \in Seconds : Len(p) = 2
  BY DEF Seconds, Broadcasts
<1>3. \A p \in Thirds : Len(p) = 3
  BY Joined DEF Thirds, Broadcasts
<1>4. \A p \in Fourths : Len(p) = 4
  BY Joined DEF Fourths, Broadcasts
<1> QED
  BY <1>1, <1>2, <1>3, <1>4

(* What follows an id is told by its words.                                *)
LEMMA RestsDiffer ==
  ASSUME NEW p \in Rests, NEW q \in Rests, Fits(p, q)
  PROVE  p = q
<1>0. Len(p) = Len(q) /\ \A i \in 1 .. Len(q) : q[i] = Id \/ q[i] = p[i]
  BY DEF Fits
<1> DEFINE Firsts == {<<w>> : w \in Words}
<1>1. CASE p = <<>> /\ q = <<>>
  BY <1>1
<1>2. CASE p \in Firsts /\ q \in Firsts
  BY <1>0, <1>2 DEF Words, Id
<1>3. CASE p \in Seconds /\ q \in Seconds
  <2>1. Len(q) = 2 /\ (q[1] = Id \/ q[1] = p[1]) /\ (q[2] = Id \/ q[2] = p[2])
    BY <1>0, <1>3, Lengths
  <2> QED
    BY <1>3, <2>1 DEF Seconds, Broadcasts, Id
<1>4. CASE p \in Thirds /\ q \in Thirds
  <2> DEFINE asked == <<"messages", Id, "status">>
             listed == Broadcasts \o <<Id>>
  <2>1. Len(q) = 3 /\ (q[2] = Id \/ q[2] = p[2]) /\ (q[3] = Id \/ q[3] = p[3])
    BY <1>0, <1>4, Lengths
  <2>2. asked[2] = "id" /\ asked[3] = "status" /\ listed[2] = "broadcast" /\ listed[3] = "id"
    BY Joined DEF Broadcasts, Id
  <2>3. (p = asked \/ p = listed) /\ (q = asked \/ q = listed)
    BY <1>4, Zenon DEF Thirds
  <2> HIDE DEF asked, listed
  <2>4. ~(p = asked /\ q = listed)
    BY <2>1, <2>2, Zenon DEF Id
  <2>5. ~(p = listed /\ q = asked)
    BY <2>1, <2>2, Zenon DEF Id
  <2> QED
    BY <2>3, <2>4, <2>5
<1>5. CASE p \in Fourths /\ q \in Fourths
  <2>1. Len(q) = 4 /\ (q[4] = Id \/ q[4] = p[4])
    BY <1>0, <1>5, Lengths
  <2>2. \A verb : (Broadcasts \o <<Id, verb>>)[4] = verb
    BY Joined DEF Broadcasts
  <2>3. PICK u \in {"pause", "resume", "cancel"} : p = Broadcasts \o <<Id, u>>
    BY <1>5 DEF Fourths
  <2>4. PICK v \in {"pause", "resume", "cancel"} : q = Broadcasts \o <<Id, v>>
    BY <1>5 DEF Fourths
  <2>5. v # Id
    BY DEF Id
  <2>6. u = v
    <3>1. p[4] = u /\ q[4] = v
      BY <2>2, <2>3, <2>4, Zenon
    <3> QED
      BY <2>1, <2>5, <3>1
  <2> QED
    BY <2>3, <2>4, <2>6, Zenon
<1>6. ASSUME NEW r \in Rests
      PROVE  \/ r = <<>> /\ Len(r) = 0
             \/ r \in Firsts /\ Len(r) = 1
             \/ r \in Seconds /\ Len(r) = 2
             \/ r \in Thirds /\ Len(r) = 3
             \/ r \in Fourths /\ Len(r) = 4
  <2>1. r = <<>> \/ r \in Firsts \/ r \in Seconds \/ r \in Thirds \/ r \in Fourths
    BY Zenon DEF Rests
  <2>2. Len(<<>>) = 0
    OBVIOUS
  <2> HIDE DEF Firsts
  <2>3. \A x \in Firsts : Len(x) = 1
    BY Lengths, Zenon DEF Firsts
  <2> QED
    BY <2>1, <2>2, <2>3, Lengths, Zenon
<1> HIDE DEF Firsts
<1>7. Len(p) = Len(q)
  BY <1>0
<1> QED
  BY <1>1, <1>2, <1>3, <1>4, <1>5, <1>6, <1>7

Segments == Words \cup {"daily", "send", "test", "broadcast", "cancel", "groups", Id}

LEMMA RestsAreSeqs == Rests \subseteq Seq(Segments)
<1> USE DEF Segments, Words, Id, Broadcasts
<1>1. <<>> \in Seq(Segments) /\ \A w \in Segments : <<w>> \in Seq(Segments)
  <2> HIDE DEF Segments
  <2> QED
    OBVIOUS
<1>2. Seconds \subseteq Seq(Segments)
  BY DEF Seconds
<1>3. Broadcasts \in Seq(Segments) /\ <<Id>> \in Seq(Segments)
      /\ \A verb \in {"pause", "resume", "cancel"} : <<Id, verb>> \in Seq(Segments)
  OBVIOUS
<1>4. Broadcasts \o <<Id>> \in Seq(Segments) /\ <<"messages", Id, "status">> \in Seq(Segments)
      /\ \A verb \in {"pause", "resume", "cancel"} : Broadcasts \o <<Id, verb>> \in Seq(Segments)
  BY <1>3, ConcatProperties
<1> QED
  <2>1. \A w \in Words : w \in Segments
    BY DEF Segments
  <2>2. Thirds \subseteq Seq(Segments) /\ Fourths \subseteq Seq(Segments)
    BY <1>4 DEF Thirds, Fourths
  <2> HIDE DEF Segments, Words
  <2> QED
    BY <1>1, <1>2, <2>1, <2>2 DEF Rests

(* And so is a whole path: no route begins with a parameter.               *)
LEMMA PathsDiffer ==
  ASSUME NEW p \in Paths, NEW q \in Paths, Fits(p, q)
  PROVE  p = q
<1> DEFINE Inner == OfGroup(Rests) \cup OfInstance(Rests)
<1>0. Len(p) = Len(q) /\ \A i \in 1 .. Len(q) : q[i] = Id \/ q[i] = p[i]
  BY DEF Fits
<1>1. ASSUME NEW rest \in Rests, NEW w \in {"groups", "instances"}
      PROVE  LET r == <<w, Id>> \o rest
             IN  /\ Len(r) = 2 + Len(rest) /\ Len(rest) \in Nat /\ r[1] = w
                 /\ \A i \in 1 .. Len(rest) : r[i + 2] = rest[i]
  <2>1. rest \in Seq(Segments)
    BY RestsAreSeqs
  <2>2. <<w, Id>> \in Seq(Segments) /\ Len(<<w, Id>>) = 2 /\ <<w, Id>>[1] = w
    BY DEF Segments, Words
  <2>3. Len(rest) \in Nat
    BY <2>1
  <2> QED
    BY <2>1, <2>2, <2>3, ConcatProperties
<1>2. \A r \in Inner : Len(r) \in Nat /\ Len(r) >= 2 /\ r[1] \in {"groups", "instances"}
  BY <1>1 DEF OfGroup, OfInstance
<1>3. \A r \in Plain : /\ Len(r) \in {1, 2} /\ r[1] \notin {Id, "instances"}
                       /\ r[1] = "groups" => Len(r) = 1
  BY DEF Plain, Id
<1>4. CASE p \in Plain /\ q \in Plain
  <2> DEFINE Ones == {<<w>> : w \in {"register", "account", "logs", "groups"}}
             Twos == {<<"health", "detailed">>, <<"account", "usage">>, <<"account", "audit-log">>}
  <2>1. CASE p \in Ones /\ q \in Ones
    BY <1>0, <2>1 DEF Id
  <2>2. CASE p \in Twos /\ q \in Twos
    <3>1. (q[1] = Id \/ q[1] = p[1]) /\ (q[2] = Id \/ q[2] = p[2])
      BY <1>0, <2>2
    <3> QED
      BY <2>2, <3>1 DEF Id
  <2>3. (\A r \in Ones : Len(r) = 1) /\ (\A r \in Twos : Len(r) = 2)
    OBVIOUS
  <2>4. p \in Ones \cup Twos /\ q \in Ones \cup Twos
    BY <1>4 DEF Plain
  <2> HIDE DEF Ones, Twos
  <2> QED
    BY <1>0, <2>1, <2>2, <2>3, <2>4
<1>5. ASSUME NEW w \in {"groups", "instances"}, NEW v \in {"groups", "instances"},
             NEW a \in Rests, NEW b \in Rests, p = <<w, Id>> \o a, q = <<v, Id>> \o b
      PROVE  p = q
  <2>1. Len(a) = Len(b) /\ Len(b) \in Nat /\ Len(q) = 2 + Len(b)
    BY <1>0, <1>1, <1>5
  <2>2. \A i \in 1 .. Len(b) : i + 2 \in 1 .. Len(q) /\ b[i] = q[i + 2] /\ a[i] = p[i + 2]
    BY <1>1, <1>5, <2>1
  <2>3. Fits(a, b)
    BY <1>0, <2>1, <2>2 DEF Fits
  <2>4. 1 \in 1 .. Len(q) /\ p[1] = w /\ q[1] = v
    BY <1>1, <1>5, <2>1
  <2>5. v = w
    BY <1>0, <1>5, <2>4 DEF Id
  <2> QED
    BY <1>5, <2>3, <2>5, RestsDiffer
<1>6. CASE p \in Inner /\ q \in Inner
  BY <1>5, <1>6, Zenon DEF OfGroup, OfInstance
<1>7. ~(p \in Plain /\ q \in Inner) /\ ~(p \in Inner /\ q \in Plain)
  <2> HIDE DEF Inner
  <2>1. q \in Plain \cup Inner
    BY DEF Paths, Inner
  <2>2. Len(q) \in Nat /\ Len(q) >= 1
    BY <1>2, <1>3, <2>1
  <2>3. q[1] = Id \/ q[1] = p[1]
    BY <1>0, <2>2
  <2>4. ~(p \in Plain /\ q \in Inner)
    BY <1>0, <1>2, <1>3, <2>3 DEF Id
  <2>5. ~(p \in Inner /\ q \in Plain)
    BY <1>0, <1>2, <1>3, <2>3 DEF Id
  <2> QED
    BY <2>4, <2>5
<1> QED
  BY <1>4, <1>6, <1>7 DEF Paths

(* A call that is written like a route is answered by that route only.     *)
LEMMA OneFits ==
  ASSUME NEW call \in Routes, \A r \in Routes : r.path \in Paths
  PROVE  Served(call)
<1>1. \A r \in Routes : r = [method |-> r.method, path |-> r.path]
  BY DEF Routes, Request
<1>2. ASSUME NEW r \in Routes, Matches(call, r) PROVE r = call
  <2>1. Fits(call.path, r.path) /\ r.method = call.method
    BY <1>2 DEF Matches, Fits
  <2> QED
    BY <1>1, <2>1, PathsDiffer
<1>3. Matches(call, call)
  BY DEF Matches
<1>4. {r \in Routes : Matches(call, r)} = {call}
  BY <1>2, <1>3
<1> QED
  BY <1>4, FS_Singleton DEF Served

(* Every route is one of the paths.                                        *)
LEMMA RoutesListed == \A r \in Routes : r.path \in Paths
<1> DEFINE getsPlain == {<<"health", "detailed">>, <<"account">>, <<"account", "usage">>,
                         <<"account", "audit-log">>, <<"logs">>, <<"groups">>}
           postsPlain == {<<"register">>, <<"groups">>}
           account == {<<"account">>}
           gets == {<<>>, <<"status">>, <<"instances">>, <<"messages">>, <<"messages", Id, "status">>,
                    Broadcasts, Broadcasts \o <<Id>>, <<"metrics">>, <<"metrics", "daily">>,
                    <<"metrics", "instances">>, <<"blacklist">>, <<"webhook">>}
           posts == {<<"pause">>, <<"resume">>, <<"instances">>, <<"messages", "send">>, Broadcasts,
                     Broadcasts \o <<Id, "pause">>, Broadcasts \o <<Id, "resume">>,
                     Broadcasts \o <<Id, "cancel">>, <<"blacklist">>, <<"webhook", "test">>}
           puts == {<<"webhook">>}
           deletes == {<<>>, <<"blacklist", Id>>}
           shows == {<<>>, <<"qrcode">>, <<"status">>}
           does == {<<"pair">>, <<"connect">>, <<"disconnect">>, <<"restart">>}
           self == {<<>>}
<1>1. Routes = Request("GET", getsPlain \cup OfGroup(gets) \cup OfInstance(shows))
               \cup Request("POST", postsPlain \cup OfGroup(posts) \cup OfInstance(does))
               \cup Request("PATCH", account \cup OfGroup(self) \cup OfInstance(self))
               \cup Request("PUT", OfGroup(puts))
               \cup Request("DELETE", OfGroup(deletes) \cup OfInstance(self))
  BY Zenon DEF Routes
<1>2. getsPlain \cup postsPlain \cup account \subseteq Plain
  BY DEF Plain
<1>3. gets \subseteq Rests
  BY DEF Rests, Words, Seconds, Thirds
<1>4. posts \subseteq Rests
  BY DEF Rests, Words, Seconds, Fourths
<1>5. puts \cup deletes \cup shows \cup does \cup self \subseteq Rests
  BY DEF Rests, Words, Seconds
<1> HIDE DEF getsPlain, postsPlain, account, gets, posts, puts, deletes, shows, does, self
<1>6. \A S \in SUBSET Rests : OfGroup(S) \subseteq Paths /\ OfInstance(S) \subseteq Paths
  BY DEF OfGroup, OfInstance, Paths
<1>7. \A m, S : S \subseteq Paths => \A r \in Request(m, S) : r.path \in Paths
  BY DEF Request
<1>8. /\ getsPlain \cup OfGroup(gets) \cup OfInstance(shows) \subseteq Paths
      /\ postsPlain \cup OfGroup(posts) \cup OfInstance(does) \subseteq Paths
      /\ account \cup OfGroup(self) \cup OfInstance(self) \subseteq Paths
      /\ OfGroup(puts) \subseteq Paths
      /\ OfGroup(deletes) \cup OfInstance(self) \subseteq Paths
  BY <1>2, <1>3, <1>4, <1>5, <1>6 DEF Paths
<1> HIDE DEF Paths
<1> QED
  BY <1>1, <1>7, <1>8

(* Each of api.js's calls is written like a route of router.go.            *)
LEMMA CallsServed == \A call \in Calls : Served(call)
<1> USE DEF Request, OfGroup, OfInstance
<1>1. Registration \subseteq Routes
  BY DEF Registration, Routes
<1>2. AccountCalls \subseteq Routes
  BY DEF AccountCalls, Routes
<1>3. GroupCalls \subseteq Routes
  BY DEF GroupCalls, Routes
<1>4. InstanceCalls \subseteq Routes
  BY DEF InstanceCalls, Routes
<1>5. MessageCalls \subseteq Routes
  <2> DEFINE asked == {<<"messages">>, <<"messages", Id, "status">>, Broadcasts, Broadcasts \o <<Id>>}
             sent == {<<"messages", "send">>, Broadcasts}
             verbs == {Broadcasts \o <<Id, verb>> : verb \in {"pause", "resume", "cancel"}}
  <2>1. Request("GET", OfGroup(asked)) \subseteq Routes
    BY DEF Routes
  <2>2. Request("POST", OfGroup(sent)) \subseteq Routes
    BY DEF Routes
  <2>3. Request("POST", OfGroup(verbs)) \subseteq Routes
    <3>1. verbs = {Broadcasts \o <<Id, "pause">>, Broadcasts \o <<Id, "resume">>,
                   Broadcasts \o <<Id, "cancel">>}
      BY Zenon
    <3> HIDE DEF verbs
    <3> QED
      BY <3>1 DEF Routes
  <2>4. MessageCalls = Request("GET", OfGroup(asked)) \cup Request("POST", OfGroup(sent \cup verbs))
    BY Zenon DEF MessageCalls
  <2>5. Request("POST", OfGroup(sent \cup verbs))
          = Request("POST", OfGroup(sent)) \cup Request("POST", OfGroup(verbs))
    <3> HIDE DEF sent, verbs
    <3> QED
      OBVIOUS
  <2> HIDE DEF asked, sent, verbs, Request, OfGroup
  <2> QED
    BY <2>1, <2>2, <2>3, <2>4, <2>5, Zenon
<1>6. GroupDataCalls \subseteq Routes
  BY DEF GroupDataCalls, Routes
<1>7. Calls \subseteq Routes
  BY <1>1, <1>2, <1>3, <1>4, <1>5, <1>6 DEF Calls
<1> HIDE DEF Request, OfGroup, OfInstance
<1>8. \A r \in Routes : r.path \in Paths
  BY RoutesListed
<1> QED
  BY <1>7, <1>8, OneFits

(* So a request of the session has its route, whichever call it is.        *)
LEMMA OutcomesServed == \A served \in Outcomes : served = TRUE
  BY CallsServed DEF Outcomes, Served
-----------------------------------------------------------------------------
(* What a load of a detail page changes is none of this.                   *)
LEMMA EffectsGood ==
  ASSUME NEW s, NEW key \in KeyOrNone, Good(s, key)
  PROVE  Good(Effects(s, key), key)
<1> DEFINE sent == [s.sent EXCEPT !["detail"] = key]
           e == [s EXCEPT !.loaded = TRUE, !.sent["detail"] = key]
<1>1. CASE s.page = "detail" /\ ~s.loaded
  <2>1. sent \in [Kinds -> Keys \cup {NoKey, Idle}] /\ \A k \in Validations : sent[k] = s.sent[k]
    BY DEF Good, Sound, TabState, Kinds, Validations, KeyOrNone
  <2>2. e \in TabState /\ e.sent = sent /\ e.foreign = s.foreign /\ e.overtaken = s.overtaken
        /\ e.authenticated = s.authenticated /\ e.tenant = s.tenant
        /\ e.open = s.open /\ e.callback = s.callback /\ e.served = s.served
    BY <2>1 DEF Good, Sound, TabState
  <2>3. Effects(s, key) = e
    BY <1>1 DEF Effects
  <2>4. QED
    BY <2>1, <2>2, <2>3 DEF Good, Sound, Agrees, Steady, Unanswered, Overtaken
<1>2. CASE ~(s.page = "detail" /\ ~s.loaded)
  BY <1>2 DEF Effects
<1>3. QED
  BY <1>1, <1>2

(* Nor is a change of the hash, or of the page.                            *)
LEMMA NavigateSound ==
  ASSUME NEW s, NEW hash \in Hashes, Sound(s)
  PROVE  /\ Sound(Navigate(s, hash))
         /\ Navigate(s, hash).authenticated = s.authenticated
         /\ \A key : Agrees(s, key) => Agrees(Navigate(s, hash), key)
<1> DEFINE n == Navigate(s, hash)
<1>1. n \in TabState
  BY DEF Navigate, Sound, TabState
<1>2. n.sent = s.sent /\ n.foreign = s.foreign /\ n.overtaken = s.overtaken
      /\ n.authenticated = s.authenticated /\ n.tenant = s.tenant
      /\ n.open = s.open /\ n.callback = s.callback /\ n.served = s.served
  BY DEF Navigate, Sound, TabState
<1>3. QED
  BY <1>1, <1>2 DEF Sound, Steady, Agrees, Unanswered, Overtaken

LEMMA HandleHashSound ==
  ASSUME NEW s, Sound(s)
  PROVE  /\ Sound(HandleHash(s))
         /\ HandleHash(s).authenticated = s.authenticated
         /\ \A key : Agrees(s, key) => Agrees(HandleHash(s), key)
<1> DEFINE n == HandleHash(s)
<1>1. Route(s.hash, s.authenticated) \in Pages
  BY DEF Route, Pages
<1>2. n \in TabState
  BY <1>1 DEF HandleHash, Sound, TabState
<1>3. n.sent = s.sent /\ n.foreign = s.foreign /\ n.overtaken = s.overtaken
      /\ n.authenticated = s.authenticated /\ n.tenant = s.tenant
      /\ n.open = s.open /\ n.callback = s.callback /\ n.served = s.served
  BY DEF HandleHash, Sound, TabState
<1>4. QED
  BY <1>2, <1>3 DEF Sound, Steady, Agrees, Unanswered, Overtaken

(* Nor is the end of the session, as long as the key goes too.             *)
LEMMA SignedOutSound ==
  ASSUME NEW s, Sound(s)
  PROVE  Sound(SignedOut(s)) /\ ~SignedOut(s).authenticated
<1> DEFINE out == [s EXCEPT !.authenticated = FALSE, !.tenant = NoKey]
<1>1. Sound(out) /\ ~out.authenticated
  BY DEF Sound, TabState, Steady
<1>2. "login" \in Hashes
  BY DEF Hashes, Pages
<1>3. QED
  BY <1>1, <1>2, NavigateSound DEF SignedOut
-----------------------------------------------------------------------------
(* The two ways a step goes on.                                            *)
LEMMA BecomeGood ==
  ASSUME NEW s, saved \in KeyOrNone, Good(s, saved), Become(s)
  PROVE  saved' \in KeyOrNone /\ Good(tab', saved')
  BY EffectsGood DEF Become

(* A tab that stores a key it now validates, or stores none and is signed  *)
(* out, is in order: a validation of another key makes it overtaken.       *)
LEMMA StoreGood ==
  ASSUME NEW s, Sound(s), NEW key \in KeyOrNone, Store(key, s),
         Unanswered(s) \/ (key = NoKey /\ ~s.authenticated)
  PROVE  saved' \in KeyOrNone /\ Good(tab', saved')
<1> DEFINE own == [s EXCEPT !.foreign = FALSE, !.overtaken = Overtaken(s, key)]
<1>1. Overtaken(s, key) \in BOOLEAN
  BY DEF Overtaken
<1>2. own \in TabState
  BY <1>1 DEF Sound, TabState
<1>3. own.sent = s.sent /\ own.overtaken = Overtaken(s, key)
      /\ own.authenticated = s.authenticated
      /\ own.open = s.open /\ own.callback = s.callback /\ own.served = s.served
  BY DEF Sound, TabState
<1>4. Overtaken(own, key) = Overtaken(s, key) /\ Unanswered(own) = Unanswered(s)
  BY <1>3 DEF Overtaken, Unanswered
<1>5. Steady(own)
  BY <1>3 DEF Sound, Steady
<1>6. Agrees(own, key)
  BY <1>3, <1>4 DEF Agrees
<1>7. QED
  BY <1>2, <1>5, <1>6, EffectsGood DEF Store, Good, Sound

LEMMA StoreNoKeyGood ==
  ASSUME NEW s, Sound(s), ~s.authenticated, Store(NoKey, s)
  PROVE  saved' \in KeyOrNone /\ Good(tab', saved')
  BY StoreGood DEF KeyOrNone

(* What a tab is when it is loaded.                                        *)
LEMMA OpenedGood ==
  ASSUME NEW hash \in Hashes, NEW key \in KeyOrNone
  PROVE  Good(Opened(hash, key), key)
<1> DEFINE o == Opened(hash, key)
           sent == [k \in Kinds |-> IF k \in {"store", "body"} /\ key # NoKey THEN key ELSE Idle]
<1>1. Route(hash, FALSE) \in Pages
  BY DEF Route, Pages
<1>2. sent \in [Kinds -> Keys \cup {NoKey, Idle}]
  BY DEF KeyOrNone
<1>3. o \in TabState
  BY <1>1, <1>2 DEF Opened, TabState
<1>4. key # NoKey => o.sent["store"] # Idle /\ "store" \in Validations
  BY SessionAssumption DEF Opened, Kinds, Validations, KeyOrNone
<1>5. ~Overtaken(o, key)
  BY DEF Opened, Overtaken, Kinds, Validations
<1>6. ~o.authenticated /\ Steady(o)
  BY DEF Opened, Steady
<1>7. QED
  BY <1>3, <1>4, <1>5, <1>6 DEF Good, Sound, Agrees, Unanswered
-----------------------------------------------------------------------------
(* An accepted key is the session's; unless another tab or a write of this *)
(* one came between, it is the stored one.                                 *)
LEMMA AcceptedGood ==
  ASSUME NEW s, Sound(s), NEW k \in Validations, NEW key \in KeyOrNone,
         s.foreign \/ s.overtaken \/ (~Overtaken(s, saved) /\ key = saved)
  PROVE  Good(Accepted(k, key, s), saved)
<1> DEFINE accepted == [s EXCEPT !.tenant = key, !.authenticated = TRUE]
<1>1. accepted.tenant = key /\ accepted.authenticated = TRUE
      /\ accepted.sent = s.sent /\ accepted.foreign = s.foreign /\ accepted.overtaken = s.overtaken
      /\ accepted.callback = s.callback /\ accepted.open = s.open /\ accepted.served = s.served
  BY DEF Sound, TabState
<1>2. accepted \in TabState
  BY DEF Sound, TabState, KeyOrNone
<1>3. Good(accepted, saved)
  BY <1>1, <1>2 DEF Good, Sound, Steady, Agrees, Overtaken
<1>4. "list" \in Hashes
  BY DEF Hashes, Pages
<1>5. QED
  BY <1>3, <1>4, NavigateSound DEF Good, Accepted

(* The answer to a request has been taken out of flight.                   *)
LEMMA TakenGood ==
  ASSUME SessionInv, NEW k \in Kinds
  PROVE  LET s == [tab EXCEPT !.sent[k] = Idle]
         IN  /\ Sound(s)
             /\ k \notin Validations => Good(s, saved)
             /\ k \in Validations =>
                   s.foreign \/ s.overtaken
                     \/ (~Overtaken(s, saved) /\ tab.sent[k] \in {Idle, saved})
<1> DEFINE sent == [tab.sent EXCEPT ![k] = Idle]
           s == [tab EXCEPT !.sent[k] = Idle]
<1>1. sent \in [Kinds -> Keys \cup {NoKey, Idle}]
      /\ sent[k] = Idle /\ \A v \in Kinds : v # k => sent[v] = tab.sent[v]
  BY DEF SessionInv, Good, Sound, TabState
<1>2. s \in TabState /\ s.sent = sent /\ s.foreign = tab.foreign /\ s.overtaken = tab.overtaken
      /\ s.authenticated = tab.authenticated /\ s.tenant = tab.tenant
      /\ s.open = tab.open /\ s.callback = tab.callback /\ s.served = tab.served
  BY <1>1 DEF SessionInv, Good, Sound, TabState
<1>3. Sound(s)
  BY <1>2 DEF SessionInv, Good, Sound, Steady
<1>4. CASE k \notin Validations
  <2>1. \A v \in Validations : s.sent[v] = tab.sent[v]
    BY <1>1, <1>2, <1>4 DEF Validations, Kinds
  <2>2. QED
    BY <1>2, <1>3, <1>4, <2>1 DEF SessionInv, Good, Agrees, Unanswered, Overtaken
<1>5. CASE k \in Validations
  <2>1. \A v \in Validations : s.sent[v] \in {Idle, tab.sent[v]}
    BY <1>1, <1>2, <1>5 DEF Validations, Kinds
  <2>2. QED
    BY <1>2, <1>3, <1>5, <2>1 DEF SessionInv, Good, Agrees, Overtaken
<1>6. QED
  BY <1>4, <1>5

LEMMA ReceiveGood ==
  ASSUME SessionInv, NEW k \in Kinds, Receive(k)
  PROVE  SessionInv'
<1> DEFINE s == [tab EXCEPT !.sent[k] = Idle]
           key == tab.sent[k]
<1>1. key \in KeyOrNone
  BY SessionAssumption DEF SessionInv, Good, Sound, TabState, KeyOrNone, Receive
<1>2. /\ Sound(s)
      /\ k \notin Validations => Good(s, saved)
      /\ k \in Validations =>
            s.foreign \/ s.overtaken \/ (~Overtaken(s, saved) /\ key \in {Idle, saved})
  BY TakenGood
<1>3. PICK answer \in Answers(key) :
        /\ IF Clears(k, answer) THEN Store(NoKey, Continued(k, key, answer, s))
                                ELSE Become(Continued(k, key, answer, s))
        /\ errors' = IF answer = "error" THEN errors + 1 ELSE errors
  BY DEF Receive
<1>4. errors' \in 0..MaxErrors
  BY <1>3, SessionAssumption DEF Answers, SessionInv
<1>5. answer \in {"ok", "unauthorized", "error"} /\ (answer = "ok" => key # NoKey)
  BY <1>3, SessionAssumption DEF Answers
<1>6. saved \in KeyOrNone
  BY DEF SessionInv
<1>7. saved' \in KeyOrNone /\ Good(tab', saved')
  <2>1. CASE answer = "ok"
    <3> DEFINE accepted == Accepted(k, key, s)
    <3>1. Become(Continued(k, key, answer, s))
      BY <1>3, <2>1 DEF Clears
    <3>2. key # Idle
      BY DEF Receive
    <3>3. k \in Validations => Good(accepted, saved)
      BY <1>1, <1>2, <3>2, AcceptedGood
    <3>4. CASE k \in {"store", "login"}
      <4>1. Continued(k, key, answer, s) = accepted /\ k \in Validations
        BY <2>1, <3>4 DEF Continued, Validated, Validations
      <4>2. QED
        BY <1>6, <3>1, <3>3, <4>1, BecomeGood
    <3>5. CASE k = "body"
      <4>1. Continued(k, key, answer, s) = HandleHash(accepted) /\ k \in Validations
        BY <2>1, <3>5 DEF Continued, Validated, Validations
      <4>2. Good(HandleHash(accepted), saved)
        BY <3>3, <4>1, HandleHashSound DEF Good
      <4>3. QED
        BY <1>6, <3>1, <4>1, <4>2, BecomeGood
    <3>6. CASE k \notin Validations
      <4>1. Continued(k, key, answer, s) = s
        BY <2>1, <3>6 DEF Continued, Refused, Validations
      <4>2. QED
        BY <1>2, <1>6, <3>1, <3>6, <4>1, BecomeGood
    <3>7. QED
      BY <3>4, <3>5, <3>6 DEF Validations
  <2>2. CASE answer # "ok" /\ (k \in Validations \/ answer = "unauthorized")
    <3> DEFINE r == Refused(s, answer)
               failed == [r EXCEPT !.authenticated = FALSE]
    <3>1. Store(NoKey, Continued(k, key, answer, s))
      BY <1>3, <1>5, <2>2 DEF Clears
    <3>2. Sound(r) /\ (answer = "unauthorized" => ~r.authenticated)
      BY <1>2, SignedOutSound DEF Refused
    <3>3. Sound(failed) /\ ~failed.authenticated
      BY <3>2 DEF Sound, TabState, Steady
    <3>4. CASE k \in {"store", "login"}
      <4>1. Continued(k, key, answer, s) = failed
        BY <2>2, <3>4 DEF Continued, Validated
      <4>2. QED
        BY <3>1, <3>3, <4>1, StoreNoKeyGood
    <3>5. CASE k = "body"
      <4>1. Continued(k, key, answer, s) = HandleHash(failed)
        BY <2>2, <3>5 DEF Continued, Validated
      <4>2. Sound(HandleHash(failed)) /\ ~HandleHash(failed).authenticated
        BY <3>3, HandleHashSound
      <4>3. QED
        BY <3>1, <4>1, <4>2, StoreNoKeyGood
    <3>6. CASE k \notin Validations
      <4>1. Continued(k, key, answer, s) = r
        BY <2>2, <3>6 DEF Continued, Validations
      <4>2. QED
        BY <2>2, <3>1, <3>2, <3>6, <4>1, StoreNoKeyGood
    <3>7. QED
      BY <3>4, <3>5, <3>6 DEF Validations
  <2>3. CASE answer = "error" /\ k \notin Validations
    <3>1. Continued(k, key, answer, s) = s /\ Become(s)
      BY <1>3, <2>3 DEF Continued, Refused, Clears, Validations
    <3>2. QED
      BY <1>2, <1>6, <2>3, <3>1, BecomeGood
  <2>4. QED
    BY <1>5, <2>1, <2>2, <2>3
<1>8. QED
  BY <1>4, <1>7 DEF SessionInv
-----------------------------------------------------------------------------
(* A tab that writes a key while a validation is in flight.                *)
LEMMA SignInGood ==
  ASSUME SessionInv, NEW key \in Keys, SignIn(key)
  PROVE  SessionInv'
<1> DEFINE sent == [tab.sent EXCEPT !["login"] = key]
           s == [tab EXCEPT !.sent["login"] = key]
<1>1. "login" \in Kinds /\ "login" \in Validations /\ key # Idle /\ key \in KeyOrNone
  BY SessionAssumption DEF Kinds, Validations, KeyOrNone
<1>2. sent \in [Kinds -> Keys \cup {NoKey, Idle}] /\ sent["login"] = key
  BY <1>1 DEF SessionInv, Good, Sound, TabState
<1>3. s \in TabState /\ s.sent = sent
      /\ s.open = tab.open /\ s.callback = tab.callback /\ s.served = tab.served
  BY <1>2 DEF SessionInv, Good, Sound, TabState
<1>4. Sound(s) /\ Unanswered(s)
  BY <1>1, <1>2, <1>3 DEF SessionInv, Good, Sound, Steady, Unanswered
<1>5. Store(key, s) /\ errors' = errors
  BY DEF SignIn
<1>6. QED
  BY <1>1, <1>4, <1>5, StoreGood DEF SessionInv

(* A request that validates nothing is sent.                               *)
LEMMA SentGood ==
  ASSUME SessionInv, NEW key \in KeyOrNone
  PROVE  Good([tab EXCEPT !.sent["call"] = key], saved)
<1> DEFINE sent == [tab.sent EXCEPT !["call"] = key]
           s == [tab EXCEPT !.sent["call"] = key]
<1>1. sent \in [Kinds -> Keys \cup {NoKey, Idle}] /\ \A k \in Validations : sent[k] = tab.sent[k]
  BY DEF SessionInv, Good, Sound, TabState, Kinds, Validations, KeyOrNone
<1>2. s \in TabState /\ s.sent = sent /\ s.foreign = tab.foreign
      /\ s.overtaken = tab.overtaken
      /\ s.authenticated = tab.authenticated /\ s.tenant = tab.tenant
      /\ s.open = tab.open /\ s.callback = tab.callback /\ s.served = tab.served
  BY <1>1 DEF SessionInv, Good, Sound, TabState
<1>3. QED
  BY <1>1, <1>2 DEF SessionInv, Good, Sound, Agrees, Steady, Unanswered, Overtaken

LEMMA SendGood ==
  ASSUME SessionInv, NEW served \in Outcomes, Send(served)
  PROVE  SessionInv'
<1> DEFINE s == [tab EXCEPT !.sent["call"] = saved]
<1>1. Good(s, saved)
  BY SentGood DEF SessionInv
<1>2. [s EXCEPT !.served = served] = [tab EXCEPT !.sent["call"] = saved, !.served = served]
  OBVIOUS
<1>3. Good([s EXCEPT !.served = served], saved)
  BY <1>1, OutcomesServed DEF Good, Sound, TabState, Agrees, Steady, Unanswered, Overtaken
<1>4. Become([tab EXCEPT !.sent["call"] = saved, !.served = served]) /\ errors' = errors
  BY DEF Send
<1>5. QED
  BY <1>2, <1>3, <1>4, BecomeGood DEF SessionInv

(* The callback runs and is gone.                                          *)
LEMMA ExecuteConfirmGood ==
  ASSUME SessionInv, ExecuteConfirm
  PROVE  SessionInv'
<1> DEFINE s == [tab EXCEPT !.sent["call"] = saved]
           open == IF tab.open = "yes" THEN "no" ELSE "again"
           run == [tab EXCEPT !.sent["call"] = saved, !.open = IF @ = "yes" THEN "no" ELSE "again"]
           done == [s EXCEPT !.open = open, !.callback = FALSE]
<1>1. Good(s, saved) /\ s.open = tab.open /\ s.callback = tab.callback /\ s.served = tab.served
  BY SentGood DEF SessionInv, Good, Sound, TabState
<1>2. open = "no"
  BY DEF ExecuteConfirm, SessionInv, Good, Sound, Steady
<1>3. CloseModal(run) = done
  BY <1>1 DEF CloseModal
<1>4. Good(done, saved)
  BY <1>1, <1>2 DEF Good, Sound, TabState, Agrees, Steady, Unanswered, Overtaken
<1>5. Become(CloseModal(run)) /\ errors' = errors
  BY DEF ExecuteConfirm
<1>6. QED
  BY <1>3, <1>4, <1>5, BecomeGood DEF SessionInv

LEMMA CancelGood ==
  ASSUME SessionInv, Cancel
  PROVE  SessionInv'
<1> DEFINE s == CloseModal(Answered(tab))
<1>1. Good(s, saved)
  BY DEF SessionInv, Good, Sound, TabState, Agrees, Steady, Unanswered, Overtaken, CloseModal, Answered
<1>2. Become(s) /\ errors' = errors
  BY DEF Cancel
<1>3. QED
  BY <1>1, <1>2, BecomeGood DEF SessionInv

LEMMA SignOutGood ==
  ASSUME SessionInv, SignOut
  PROVE  SessionInv'
<1>1. Sound(SignedOut(tab)) /\ ~SignedOut(tab).authenticated
  BY SignedOutSound DEF SessionInv, Good
<1>2. Store(NoKey, SignedOut(tab)) /\ errors' = errors
  BY DEF SignOut
<1>3. QED
  BY <1>1, <1>2, StoreNoKeyGood DEF SessionInv
-----------------------------------------------------------------------------
THEOREM InductiveInvariant == Spec => []SessionInv
<1>1. Init => SessionInv
  <2> SUFFICES ASSUME Init PROVE SessionInv
    OBVIOUS
  <2>1. PICK h \in Hashes : tab = Effects(Opened(h, saved), saved)
    BY DEF Init
  <2>2. QED
    BY <2>1, SessionAssumption, OpenedGood, EffectsGood DEF Init, SessionInv, KeyOrNone
<1>2. SessionInv /\ [Next]_vars => SessionInv'
  <2> SUFFICES ASSUME SessionInv, [Next]_vars PROVE SessionInv'
    OBVIOUS
  <2>1. ASSUME NEW k \in Kinds, Receive(k) PROVE SessionInv'
    BY <2>1, ReceiveGood
  <2>2. ASSUME NEW h \in Hashes, Visit(h) PROVE SessionInv'
    BY <2>2, NavigateSound, BecomeGood DEF Visit, SessionInv, Good
  <2>3. CASE HashChange
    <3>1. Good([tab EXCEPT !.moved = FALSE], saved)
      BY DEF SessionInv, Good, Sound, TabState, Agrees, Steady, Unanswered, Overtaken
    <3>2. QED
      BY <2>3, <3>1, HandleHashSound, BecomeGood DEF HashChange, SessionInv, Good
  <2>4. ASSUME NEW key \in Keys, SignIn(key) PROVE SessionInv'
    BY <2>4, SignInGood
  <2>5. CASE SignOut
    BY <2>5, SignOutGood
  <2>6. CASE TogglePolling
    <3>1. Good([tab EXCEPT !.polling = ~tab.polling], saved)
      BY DEF SessionInv, Good, Sound, TabState, Agrees, Steady, Unanswered, Overtaken
    <3>2. QED
      BY <2>6, <3>1, BecomeGood DEF TogglePolling, SessionInv
  <2>7. CASE Poll \/ Call
    <3>1. PICK served \in Outcomes : Send(served)
      BY <2>7 DEF Poll, Call
    <3>2. QED
      BY <3>1, SendGood
  <2>8. CASE Ask
    <3>1. Good([tab EXCEPT !.callback = TRUE, !.open = "yes"], saved)
      BY DEF SessionInv, Good, Sound, TabState, Agrees, Steady, Unanswered, Overtaken
    <3>2. QED
      BY <2>8, <3>1, BecomeGood DEF Ask, SessionInv
  <2>9. CASE Cancel
    BY <2>9, CancelGood
  <2>10. CASE ExecuteConfirm
    BY <2>10, ExecuteConfirmGood
  <2>11. CASE Reload
    <3>1. tab.hash \in Hashes
      BY DEF SessionInv, Good, Sound, TabState
    <3>2. QED
      BY <2>11, <3>1, OpenedGood, BecomeGood DEF Reload, SessionInv
  <2>12. ASSUME NEW key \in Keys \cup {NoKey}, OtherTab(key) PROVE SessionInv'
    <3>1. Good([tab EXCEPT !.foreign = TRUE, !.overtaken = FALSE], key)
      BY DEF SessionInv, Good, Sound, TabState, Agrees, Steady, Unanswered, Overtaken
    <3>2. QED
      BY <2>12, <3>1 DEF OtherTab, SessionInv, KeyOrNone
  <2>13. CASE UNCHANGED vars
    BY <2>13 DEF vars, SessionInv, Good, Sound, Agrees, Steady, Unanswered, Overtaken
  <2>14. QED
    BY <2>1, <2>2, <2>3, <2>4, <2>5, <2>6, <2>7, <2>8, <2>9, <2>10, <2>11, <2>12, <2>13
       DEF Next, TabStep
<1>3. QED
  BY <1>1, <1>2, PTL DEF Spec

(* Every variable keeps its type.                                          *)
THEOREM TypeCorrect == Spec => []TypeOK
<1>1. SessionInv => TypeOK
  BY DEF SessionInv, Good, Sound, TypeOK, KeyOrNone
<1>2. QED
  BY <1>1, InductiveInvariant, PTL

(* However answers, logins, logouts and reloads follow each other, once no *)
(* validation is in flight the tab is signed in when a key is stored, and  *)
(* as that key's tenant, but for what another tab wrote, and for a late    *)
(* acceptance after this tab wrote the key during a validation.            *)
THEOREM SignedInIffKeyStoredHolds == Spec => []SignedInIffKeyStored
<1>1. SessionInv => SignedInIffKeyStored
  BY DEF SessionInv, Good, Agrees, Unanswered, SignedInIffKeyStored
<1>2. QED
  BY <1>1, InductiveInvariant, PTL

(* A confirmed deletion is requested once.                                 *)
THEOREM ConfirmedOnceHolds == Spec => []ConfirmedOnce
<1>1. SessionInv => ConfirmedOnce
  BY DEF SessionInv, Good, Sound, Steady, ConfirmedOnce
<1>2. QED
  BY <1>1, InductiveInvariant, PTL

(* Whichever call the console makes, exactly one handler of the gateway    *)
(* answers it (api.js against router.go): no route is missing, has another *)
(* method, or is hidden by a parameter of another.                         *)
THEOREM EveryCallIsServedHolds == Spec => []EveryCallIsServed
<1>1. SessionInv => EveryCallIsServed
  BY DEF SessionInv, Good, Sound, Steady, EveryCallIsServed
<1>2. QED
  BY <1>1, InductiveInvariant, PTL
=============================================================================
