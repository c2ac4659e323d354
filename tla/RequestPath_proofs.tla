------------------------- MODULE RequestPath_proofs -------------------------
(***************************************************************************)
(* That a listed model and an alias are served, and that a conversation    *)
(* keeps its turns, the names of its tools and one replay mode, for every  *)
(* catalogue, configuration, conversation and settings.                    *)
(***************************************************************************)
EXTENDS RequestPath, FiniteSetTheorems, SequenceTheorems, WellFoundedInduction, TLAPS

(***************************************************************************)
(* Induction, over sets: a set of numbers has a least element.             *)
(***************************************************************************)

\* A set of natural numbers has a least element.
LEMMA LeastNumber ==
    ASSUME NEW S \in SUBSET Nat, S # {}
    PROVE  \E n \in S : \A m \in S : n <= m
<1>1. PICK n \in S : \A m \in S : ~(<<m, n>> \in OpToRel(<, Nat))
  <2> HIDE DEF OpToRel
  <2> QED
    BY NatLessThanWellFounded, WFMin, Zenon
<1>2. \A m \in S : m < n => <<m, n>> \in OpToRel(<, Nat)
  BY Zenon DEF OpToRel
<1>3. ASSUME NEW m \in S PROVE n <= m
  <2>1. ~(m < n)
    BY <1>1, <1>2, Zenon
  <2> QED
    BY <2>1
<1> QED
  BY <1>3

\* A set that holds 0 and every successor of its numbers holds all of them.
LEMMA Count ==
    ASSUME NEW S, 0 \in S, \A n \in Nat : n \in S => n + 1 \in S
    PROVE  Nat \subseteq S
<1> DEFINE T == Nat \ S
<1> SUFFICES ASSUME T # {} PROVE FALSE
  OBVIOUS
<1>1. PICK n \in T : \A m \in T : n <= m
  <2>1. T \in SUBSET Nat
    OBVIOUS
  <2> HIDE DEF T
  <2> QED
    BY <2>1, LeastNumber
<1>2. n # 0 /\ n - 1 \in Nat
  BY <1>1
<1> QED
  BY <1>1, <1>2

\* A set of numbers up to n has a greatest element, which Max is.
LEMMA GreatestNumber ==
    ASSUME NEW n \in Nat, NEW S \in SUBSET (0..n), S # {}
    PROVE  Max(S) \in S /\ \A m \in S : m <= Max(S)
<1> DEFINE T == {k \in Nat : \A m \in S : m <= k}
<1>1. T \in SUBSET Nat /\ n \in T
  OBVIOUS
<1>2. PICK k \in T : \A m \in T : k <= m
  <2> HIDE DEF T
  <2> QED
    BY <1>1, LeastNumber
<1>3. k \in S
  <2> SUFFICES ASSUME k \notin S PROVE FALSE
    OBVIOUS
  <2>1. PICK m \in S : TRUE
    OBVIOUS
  <2>2. m < k /\ m \in Nat
    BY <1>2, <2>1
  <2>3. k - 1 \in T
    BY <1>2, <2>2
  <2> QED
    BY <1>2, <2>3
<1>4. \E x \in S : \A y \in S : x >= y
  BY <1>2, <1>3
<1>5. Max(S) \in S /\ \A y \in S : Max(S) >= y
  BY <1>4, Zenon DEF Max
<1> QED
  BY <1>5

(***************************************************************************)
(* Names.                                                                  *)
(***************************************************************************)

\* What makes a sequence one longer is one element.
LEMMA OneMore ==
    ASSUME NEW S, NEW s \in Seq(S), NEW t \in Seq(S), Len(s \o t) = Len(s) + 1
    PROVE  t = <<t[1]>> /\ (s \o t)[Len(s) + 1] = t[1]
<1>1. Len(t) = 1
  <2>1. Len(s \o t) = Len(s) + Len(t) /\ Len(s) \in Nat /\ Len(t) \in Nat
    OBVIOUS
  <2>2. \A a, b \in Nat : a + b = a + 1 => b = 1
    OBVIOUS
  <2> QED
    BY <2>1, <2>2, Zenon
<1> QED
  BY <1>1

\* What stands behind a namespace is found again by cutting it off.
LEMMA Namespaced ==
    ASSUME NEW ns \in Seq(Segments), NEW id \in Seq(Segments), id # <<>>, id # <<NoSegment>>
    PROVE  /\ HasNamespace(ns \o id, ns)
           /\ Cut(ns \o id, ns) = id
           /\ ns \o id # NoName
<1> DEFINE name == ns \o id
<1>0. NoSegment \in Segments
  BY CatalogAssumption
<1>1. name \in Seq(Segments) /\ Len(name) = Len(ns) + Len(id) /\ Len(id) > 0
  BY EmptySeq
<1>2. IsPrefix(ns, name)
  <2>1. SubSeq(name, 1, Len(ns)) = SubSeq(ns, 1, Len(ns))
    OBVIOUS
  <2> QED
    BY <2>1, <1>1 DEF IsPrefix
<1>3. name # ns
  BY <1>1
<1>4. SubSeq(name, Len(ns) + 1, Len(name)) = id
  BY <1>1
<1>5. name # Append(ns, NoSegment)
  <2>1. Len(Append(ns, NoSegment)) = Len(ns) + 1 /\ Append(ns, NoSegment)[Len(ns) + 1] = NoSegment
    BY <1>0
  <2>2. Len(name) = Len(ns) + 1 => name[Len(ns) + 1] # NoSegment
    <3>1. Len(name) = Len(ns) + 1 => id = <<id[1]>> /\ name[Len(ns) + 1] = id[1]
      BY OneMore, Zenon
    <3> QED
      BY <3>1, Zenon
  <2> QED
    BY <2>1, <2>2, Zenon
<1>6. HasNamespace(name, ns)
  BY <1>2, <1>3, <1>5 DEF HasNamespace, IsStrictPrefix
<1> QED
  BY <1>1, <1>4, <1>6 DEF Cut, NoName

\* The namespaces of the plugin and every prefix are names.
LEMMA PrefixIsName ==
    /\ Namespace \in Seq(Segments) /\ OldNamespace \in Seq(Segments)
    /\ Len(Namespace) = 1 /\ Len(OldNamespace) = 1
    /\ \A s \in Settings : Prefix(s.prefix) \in Seq(Segments)
<1>1. ASSUME NEW ns, NEW a, ns = <<a>>, Range(ns) \subseteq Segments
      PROVE  ns \in Seq(Segments) /\ Len(ns) = 1
  <2>1. a \in Segments
    BY <1>1 DEF Range
  <2> QED
    BY <2>1, <1>1
<1>2. /\ Namespace \in Seq(Segments) /\ OldNamespace \in Seq(Segments)
      /\ Len(Namespace) = 1 /\ Len(OldNamespace) = 1
  <2>1. Range(Namespace) \subseteq Segments /\ Range(OldNamespace) \subseteq Segments
    BY CatalogAssumption
  <2> QED
    BY <2>1, <1>1 DEF Namespace, OldNamespace
<1>3. ASSUME NEW s \in Settings PROVE Prefix(s.prefix) \in Seq(Segments)
  <2>1. s.prefix \in Seq(Segments)
    BY PathAssumption
  <2>2. s.prefix # <<>> => Front(s.prefix) \in Seq(Segments)
    BY <2>1 DEF Front
  <2> QED
    BY <2>1, <2>2, <1>2 DEF Prefix
<1> QED
  BY <1>2, <1>3

\* No id of the catalogue starts with a namespace of the plugin.
LEMMA CatalogPlain ==
    ASSUME NEW id \in Catalog
    PROVE  /\ id \in Seq(Segments) /\ id # <<>> /\ id # <<NoSegment>>
           /\ ~HasNamespace(id, Namespace) /\ ~HasNamespace(id, OldNamespace)
<1>1. id \in Seq(Segments) /\ id # <<>> /\ id # <<NoSegment>>
  BY CatalogAssumption DEF NoName
<1>2. ASSUME NEW ns, ns \in {Namespace, OldNamespace}, HasNamespace(id, ns) PROVE FALSE
  <2>1. IsPrefix(ns, id) /\ Len(ns) = 1 /\ ns \in Seq(Segments)
    BY <1>2, PrefixIsName DEF HasNamespace, IsStrictPrefix
  <2>2. Len(id) >= 1 /\ SubSeq(ns, 1, 1) = SubSeq(id, 1, 1)
    BY <2>1, <1>1 DEF IsPrefix
  <2>3. ns[1] = id[1]
    <3>1. SubSeq(ns, 1, 1)[1] = ns[1] /\ SubSeq(id, 1, 1)[1] = id[1]
      BY <2>1, <2>2, <1>1
    <3> QED
      BY <3>1, <2>2
  <2>4. ns[1] \in Range(ns)
    BY <2>1 DEF Range
  <2> QED
    BY <2>3, <2>4, <1>2, CatalogAssumption
<1> QED
  BY <1>1, <1>2


\* A name without a namespace that is no alias stands for itself, an alias for
\* the model it is mapped to.
LEMMA PlainUpstream ==
    ASSUME NEW prefix, NEW name, ~InNamespace(prefix, name)
    PROVE  UpstreamModel(prefix, name) = IF name \in Aliases THEN ByAlias(name) ELSE name
BY DEF UpstreamModel, InNamespace, Cut

\* An id of the catalogue behind any namespace that is cut off stands for itself
\* or for what the configuration maps it on to.
LEMMA CatalogUpstream ==
    ASSUME NEW prefix, NEW name, NEW id \in Catalog,
           \/ Cut(name, prefix) = id
           \/ Cut(name, prefix) = Namespace \o id
    PROVE  UpstreamModel(prefix, name) = StandsFor(id)
<1>1. id \in Seq(Segments) /\ id # <<>> /\ id # <<NoSegment>>
  BY CatalogPlain
<1>2. Cut(id, Namespace) = id /\ Cut(id, OldNamespace) = id
  BY CatalogPlain DEF Cut
<1>3. Cut(Namespace \o id, Namespace) = id
  BY <1>1, PrefixIsName, Namespaced
<1>4. Cut(Cut(name, prefix), Namespace) = id
  BY <1>2, <1>3
<1>5. Cut(Cut(Cut(name, prefix), Namespace), OldNamespace) = id
  BY <1>4, <1>2
<1> QED
  BY <1>5 DEF UpstreamModel, StandsFor

\* What models() answers: ids behind the prefix, or bare ones.
LEMMA AdvertisedAre ==
    ASSUME NEW shown \in BOOLEAN, NEW bare \in BOOLEAN, NEW prefix,
           NEW offer \in Advertised(shown, bare, prefix)
    PROVE  /\ offer.id \in Catalog
           /\ \/ shown /\ offer.name = prefix \o offer.id
              \/ (bare \/ ~shown) /\ offer.name = offer.id
<1> DEFINE behind == {[name |-> prefix \o id, id |-> id] : id \in Catalog}
           plain == {[name |-> id, id |-> id] : id \in Catalog}
<1>1. offer \in (IF shown THEN behind \cup (IF bare THEN plain ELSE {}) ELSE plain)
  BY DEF Advertised
<1>2. \A o \in behind : o.id \in Catalog /\ o.name = prefix \o o.id
  OBVIOUS
<1>3. \A o \in plain : o.id \in Catalog /\ o.name = o.id
  OBVIOUS
<1> HIDE DEF behind, plain
<1> QED
  BY <1>1, <1>2, <1>3

(***************************************************************************)
(* The inductive invariant.                                                *)
(***************************************************************************)

\* An offer is an id of the catalogue, under its own name or behind a prefix.
Offered(name, id) ==
    /\ id \in Catalog
    /\ name = id \/ \E prefix \in Seq(Segments) : name = prefix \o id

\* What models() offers under the settings of now.
ShownNow(name, id) ==
    \/ settings.showPrefix /\ name = Prefix(settings.prefix) \o id
    \/ (settings.bare \/ ~settings.showPrefix) /\ name = id

AfterAsk == {"route", "routeBare", "routeShow", "execute", "translate", "sent"}
AfterRoute == AfterAsk \ {"route"}
AfterBare == AfterRoute \ {"routeBare"}
AfterShown == AfterBare \ {"routeShow"}

\* What the call has read is what was set then, so without a change it is what
\* is set now.
ViewOK ==
    /\ settings \in Settings
    /\ view \in [prefix : {s.prefix : s \in Settings}, showPrefix : BOOLEAN, bare : BOOLEAN,
                 replay : Modes]
    /\ owned \in BOOLEAN /\ steady \in BOOLEAN
    /\ steady => view = settings

ListedOK ==
    \A offer \in listed :
        /\ Offered(offer.name, offer.id)
        /\ steady => ShownNow(offer.name, offer.id)

\* The name asked for is one that was offered, or an alias.
AskedOK ==
    pc \in AfterAsk =>
        /\ asked.name # NoName
        /\ requested \in {NoName, asked.name}
        /\ ~asked.alias =>
              /\ Offered(asked.name, asked.id)
              /\ steady => ShownNow(asked.name, asked.id)
        /\ asked.alias => asked.name \in Aliases /\ asked.id = ByAlias(asked.name)

\* What the router has found so far.
OwnedOK ==
    /\ pc \in AfterRoute =>
          /\ HasNamespace(asked.name, Namespace) \/ asked.name \in Aliases => owned
          /\ steady /\ HasNamespace(asked.name, Prefix(settings.prefix)) => owned
    /\ pc \in AfterBare => (steady /\ settings.bare /\ asked.name \in Catalog => owned)
    /\ pc \in AfterShown => (steady /\ ~settings.showPrefix /\ asked.name \in Catalog => owned)

SentOK == pc = "sent" => upstream = UpstreamModel(Prefix(view.prefix), asked.name)

Routed == ViewOK /\ ListedOK /\ AskedOK /\ OwnedOK /\ SentOK

\* It holds at first: nothing is listed and nothing asked for.
LEMMA RoutedInit == Init => Routed
<1> SUFFICES ASSUME Init PROVE Routed
  OBVIOUS
<1>1. ViewOK
  BY PathAssumption DEF Init, ViewOK
<1>2. ListedOK /\ AskedOK /\ OwnedOK /\ SentOK
  BY DEF Init, ListedOK, AskedOK, OwnedOK, SentOK, AfterAsk, AfterRoute, AfterBare, AfterShown
<1> QED
  BY <1>1, <1>2 DEF Routed

\* A setting that is read keeps the view what is set.
LEMMA ViewKept ==
    ASSUME ViewOK, settings' = settings, steady' = steady, owned' \in BOOLEAN,
           \/ UNCHANGED view
           \/ Looks("prefix") \/ Looks("bare") \/ Looks("showPrefix")
    PROVE  ViewOK'
BY PathAssumption DEF ViewOK, Looks

\* Another setting ends the steady time.
LEMMA RoutedUpdate ==
    ASSUME Routed, NEW new \in Settings, UpdateSettings(new)
    PROVE  Routed'
<1> USE DEF UpdateSettings, Routed
<1>1. ViewOK'
  BY DEF ViewOK
<1>2. ListedOK'
  BY DEF ListedOK
<1>3. AskedOK'
  BY DEF AskedOK
<1>4. OwnedOK' /\ SentOK'
  BY DEF OwnedOK, SentOK
<1> QED
  BY <1>1, <1>2, <1>3, <1>4

\* Nothing is asked for while the models are listed.
LEMMA RoutedList ==
    ASSUME Routed, ListShowPrefix \/ ListBare \/ ListPrefix
    PROVE  Routed'
<1> USE DEF ListShowPrefix, ListBare, ListPrefix, Follows, Administration
<1>1. ViewOK'
  BY ViewKept DEF Routed, ViewOK
<1>2. AskedOK' /\ OwnedOK' /\ SentOK'
  BY DEF AskedOK, OwnedOK, SentOK, AfterAsk, AfterRoute, AfterBare, AfterShown
<1>3. ListedOK'
  <2>1. CASE listed' = listed
    BY <2>1 DEF ListedOK, Routed, ShownNow, Offered
  <2>2. CASE ListPrefix
    <3>1. listed' = Advertised(view.showPrefix, view.bare, Prefix(settings.prefix))
      BY <2>2
    <3>2. Prefix(settings.prefix) \in Seq(Segments)
      BY PrefixIsName DEF Routed, ViewOK
    <3>3. ASSUME NEW offer \in listed' PROVE Offered(offer.name, offer.id)
      <4>1. view.showPrefix \in BOOLEAN /\ view.bare \in BOOLEAN
        BY DEF Routed, ViewOK
      <4>2. \/ offer.name = offer.id
            \/ offer.name = Prefix(settings.prefix) \o offer.id
        BY <3>1, <4>1, AdvertisedAre
      <4> QED
        BY <3>1, <3>2, <4>1, <4>2, AdvertisedAre DEF Offered
    <3>4. ASSUME NEW offer \in listed', steady PROVE ShownNow(offer.name, offer.id)
      <4>1. view = settings
        BY <3>4 DEF Routed, ViewOK
      <4>2. offer \in Advertised(settings.showPrefix, settings.bare, Prefix(settings.prefix))
        BY <3>1, <4>1
      <4>3. \/ settings.showPrefix /\ offer.name = Prefix(settings.prefix) \o offer.id
            \/ (settings.bare \/ ~settings.showPrefix) /\ offer.name = offer.id
        <5>1. settings.showPrefix \in BOOLEAN /\ settings.bare \in BOOLEAN
          BY PathAssumption DEF Routed, ViewOK
        <5> HIDE DEF ListShowPrefix, ListBare, ListPrefix
        <5> QED
          BY <4>2, <5>1, AdvertisedAre
      <4> QED
        BY <4>3 DEF ShownNow
    <3> QED
      BY <2>2, <3>3, <3>4 DEF ListedOK, ShownNow, Offered
  <2> QED
    BY <2>1, <2>2
<1> QED
  BY <1>1, <1>2, <1>3 DEF Routed

\* The client asks for an offer or for an alias, neither of which is blank.
LEMMA RoutedAsk == ASSUME Routed, Ask PROVE Routed'
<1> USE DEF Follows, Administration
<1>1. ViewOK' /\ ListedOK'
  BY ViewKept DEF Ask, Routed, ViewOK, ListedOK, ShownNow, Offered
<1>2. OwnedOK' /\ SentOK'
  BY DEF Ask, OwnedOK, SentOK, AfterAsk, AfterRoute, AfterBare, AfterShown
<1>3. AskedOK'
  <2>1. requested' \in {NoName, asked'.name} /\ settings' = settings /\ steady' = steady
    BY DEF Ask
  <2>2. CASE \E offer \in listed : asked' = [name |-> offer.name, id |-> offer.id, alias |-> FALSE]
    <3>1. PICK offer \in listed : asked' = [name |-> offer.name, id |-> offer.id, alias |-> FALSE]
      BY <2>2
    <3>2. Offered(offer.name, offer.id) /\ (steady => ShownNow(offer.name, offer.id))
      BY DEF Routed, ListedOK
    <3>3. offer.name # NoName
      BY <3>2, CatalogPlain, Namespaced DEF Offered, NoName
    <3> QED
      BY <2>1, <3>1, <3>2, <3>3 DEF AskedOK, ShownNow, Offered
  <2>3. CASE \E alias \in Aliases : asked' = [name |-> alias, id |-> ByAlias(alias), alias |-> TRUE]
    <3>1. NoName \notin Aliases
      BY DEF Aliases
    <3> QED
      BY <2>1, <2>3, <3>1 DEF AskedOK
  <2> QED
    BY <2>2, <2>3 DEF Ask
<1> QED
  BY <1>1, <1>2, <1>3 DEF Routed

\* The name asked for is always among the candidates of the router.
LEMMA CandidatesAre ==
    ASSUME AskedOK, pc \in AfterAsk
    PROVE  Candidates = {asked.name}
BY DEF AskedOK, Candidates

\* The router claims what starts with a namespace and what the configuration
\* claims, and a bare id when bare ids are shown.
LEMMA RoutedRoute ==
    ASSUME Routed, Route \/ ClaimBare \/ ClaimShown
    PROVE  Routed'
<1> USE DEF Route, ClaimBare, ClaimShown, Follows, Administration
<1>0. pc \in AfterAsk /\ pc' \in AfterAsk /\ pc' # "sent"
  BY DEF AfterAsk
<1>1. Candidates = {asked.name}
  BY <1>0, CandidatesAre DEF Routed
<1>2. owned' \in BOOLEAN
  BY DEF Routed, ViewOK
<1>3. ViewOK'
  BY <1>2, ViewKept DEF Routed
<1>4. ListedOK'
  BY DEF Routed, ListedOK, ShownNow, Offered
<1>5. AskedOK'
  BY <1>0 DEF Routed, AskedOK, ShownNow, Offered
<1>6. OwnedOK'
  <2>1. CASE Route
    BY <2>1, <1>1 DEF OwnedOK, InNamespace, Claims, AfterAsk, AfterRoute, AfterBare, AfterShown
  <2>2. CASE ClaimBare
    BY <2>2, <1>1 DEF OwnedOK, Routed, ViewOK, AfterAsk, AfterRoute, AfterBare, AfterShown
  <2>3. CASE ClaimShown
    BY <2>3, <1>1 DEF OwnedOK, Routed, ViewOK, AfterAsk, AfterRoute, AfterBare, AfterShown
  <2> QED
    BY <2>1, <2>2, <2>3
<1>7. SentOK'
  BY <1>0 DEF SentOK
<1> QED
  BY <1>3, <1>4, <1>5, <1>6, <1>7 DEF Routed

\* The executor resolves the name with the prefix it reads then.
LEMMA RoutedExecute ==
    ASSUME Routed, BeginTranslation \/ Translate \/ Resolve
    PROVE  Routed'
<1> USE DEF BeginTranslation, Translate, Resolve, Follows, Administration, path
<1>0. pc \in AfterShown /\ pc' \in AfterShown
  BY DEF AfterAsk, AfterRoute, AfterBare, AfterShown
<1>1. ViewOK'
  BY ViewKept DEF Routed, ViewOK
<1>2. ListedOK'
  BY DEF Routed, ListedOK, ShownNow, Offered
<1>3. AskedOK'
  BY <1>0 DEF Routed, AskedOK, ShownNow, Offered, AfterRoute, AfterBare, AfterShown
<1>4. OwnedOK'
  BY <1>0 DEF Routed, OwnedOK, AfterRoute, AfterBare, AfterShown
<1>5. SentOK'
  <2>1. CASE Resolve
    <3>1. requested \in {NoName, asked.name}
      BY <2>1 DEF Routed, AskedOK, AfterAsk
    <3>2. view'.prefix = settings.prefix
      BY <2>1 DEF Looks, Routed, ViewOK
    <3> QED
      BY <2>1, <3>1, <3>2 DEF SentOK
  <2>2. CASE BeginTranslation \/ Translate
    BY <2>2 DEF SentOK
  <2> QED
    BY <2>1, <2>2
<1> QED
  BY <1>1, <1>2, <1>3, <1>4, <1>5 DEF Routed

\* Every step keeps it.
LEMMA RoutedNext == ASSUME Routed, [Next]_vars PROVE Routed'
<1>1. CASE UNCHANGED vars
  BY <1>1 DEF vars, path, Routed, ViewOK, ListedOK, AskedOK, OwnedOK, SentOK, ShownNow, Offered
<1> QED
  BY <1>1, RoutedUpdate, RoutedList, RoutedAsk, RoutedRoute, RoutedExecute DEF Next

\* So it always holds.
LEMMA RoutedAlways == Spec => []Routed
BY RoutedInit, RoutedNext, PTL DEF Spec

(***************************************************************************)
(* The theorems.                                                           *)
(***************************************************************************)

\* As long as the settings do not change, a listed model is claimed, and sent
\* upstream under its id or what that is mapped on to, but for a bare id that
\* starts with the prefix (plugin.go:117-154, router.go:23-46, config.go:231-266).
THEOREM ListedIsServedAlways == Spec => []ListedIsServed
<1>1. ASSUME Routed PROVE ListedIsServed
  <2> DEFINE prefix == Prefix(settings.prefix)
             id == asked.id
  <2> SUFFICES ASSUME pc = "sent", steady, ~asked.alias
               PROVE  /\ owned
                      /\ upstream = StandsFor(id) \/ (asked.name = id /\ HasNamespace(asked.name, prefix))
    BY DEF ListedIsServed
  <2>1. /\ id \in Catalog /\ ShownNow(asked.name, id) /\ view = settings
        /\ prefix \in Seq(Segments)
    BY <1>1, PrefixIsName DEF Routed, AskedOK, ViewOK, Offered, AfterAsk
  <2>2. id \in Seq(Segments) /\ id # <<>> /\ id # <<NoSegment>>
    BY <2>1, CatalogPlain
  <2>3. upstream = UpstreamModel(prefix, asked.name)
    BY <1>1, <2>1 DEF Routed, SentOK
  <2>4. CASE asked.name = prefix \o id
    <3>1. HasNamespace(asked.name, prefix) /\ Cut(asked.name, prefix) = id
      BY <2>1, <2>2, <2>4, Namespaced
    <3>2. owned
      BY <1>1, <3>1 DEF Routed, OwnedOK, AfterAsk, AfterRoute
    <3> QED
      BY <3>1, <3>2, <2>1, <2>3, CatalogUpstream
  <2>5. CASE asked.name = id /\ (settings.bare \/ ~settings.showPrefix)
    <3>1. ~HasNamespace(asked.name, prefix) => Cut(asked.name, prefix) = id
      BY <2>5 DEF Cut
    <3>2. owned
      BY <1>1, <2>1, <2>5 DEF Routed, OwnedOK, AfterAsk, AfterRoute, AfterBare, AfterShown
    <3> QED
      BY <3>1, <3>2, <2>1, <2>3, <2>5, CatalogUpstream
  <2> QED
    BY <2>1, <2>4, <2>5 DEF ShownNow
<1> QED
  BY <1>1, RoutedAlways, PTL

\* A name under the plugin's own namespace does not go stale (config.go:240).
THEOREM OwnNamespaceNeverStaleAlways == Spec => []OwnNamespaceNeverStale
<1>1. ASSUME Routed PROVE OwnNamespaceNeverStale
  <2> DEFINE prefix == Prefix(view.prefix)
             id == asked.id
  <2> SUFFICES ASSUME pc = "sent", ~asked.alias, id \notin Aliases, asked.name = Namespace \o id,
                      HasNamespace(asked.name, prefix) => prefix = Namespace
               PROVE  owned /\ upstream = id
    BY DEF OwnNamespaceNeverStale
  <2>1. id \in Catalog /\ upstream = UpstreamModel(prefix, asked.name)
    BY <1>1 DEF Routed, AskedOK, SentOK, Offered, AfterAsk
  <2>2. HasNamespace(asked.name, Namespace) /\ Cut(asked.name, Namespace) = id
    BY <2>1, CatalogPlain, PrefixIsName, Namespaced
  <2>3. owned
    BY <1>1, <2>2 DEF Routed, OwnedOK, AfterAsk, AfterRoute
  <2>4. Cut(asked.name, prefix) = id \/ Cut(asked.name, prefix) = Namespace \o id
    BY <2>2 DEF Cut
  <2> QED
    BY <2>1, <2>3, <2>4, CatalogUpstream DEF StandsFor
<1> QED
  BY <1>1, RoutedAlways, PTL

\* An alias is claimed and stands for the model it is mapped to, when it starts
\* with no namespace (config.go:204-227).
THEOREM AliasIsServedAlways == Spec => []AliasIsServed
<1>1. ASSUME Routed PROVE AliasIsServed
  <2> SUFFICES ASSUME pc = "sent", asked.alias, ~InNamespace(Prefix(view.prefix), asked.name)
               PROVE  owned /\ upstream = asked.id
    BY DEF AliasIsServed
  <2>1. /\ asked.name \in Aliases /\ asked.id = ByAlias(asked.name)
        /\ upstream = UpstreamModel(Prefix(view.prefix), asked.name)
        /\ owned
    BY <1>1 DEF Routed, AskedOK, OwnedOK, SentOK, AfterAsk, AfterRoute
  <2> QED
    BY <2>1, PlainUpstream
<1> QED
  BY <1>1, RoutedAlways, PTL

(***************************************************************************)
(* The parts of a turn.                                                    *)
(***************************************************************************)

\* The function Without is made of.
Leaves(g, s, kinds) ==
    g = [n \in 0..Len(s) |->
           IF n = 0 THEN <<>>
           ELSE IF s[n] \in kinds THEN g[n - 1] ELSE Append(g[n - 1], s[n])]

\* There is one.
LEMMA LeavesExists ==
    ASSUME NEW S, NEW s \in Seq(S), NEW kinds
    PROVE  \E g : Leaves(g, s, kinds)
<1> DEFINE At(g, n) == IF n = 0 THEN <<>>
                         ELSE IF s[n] \in kinds THEN g[n - 1] ELSE Append(g[n - 1], s[n])
           Good(g, n) == DOMAIN g = 0..n /\ \A m \in 0..n : g[m] = At(g, m)
           N == {n \in Nat : \E g : Good(g, n)}
<1>1. 0 \in N
  <2> DEFINE g == [n \in 0..0 |-> <<>>]
  <2>1. Good(g, 0)
    OBVIOUS
  <2> QED
    BY <2>1
<1>2. ASSUME NEW n \in Nat, n \in N PROVE n + 1 \in N
  <2>1. PICK g : Good(g, n)
    BY <1>2
  <2> DEFINE h == [m \in 0..(n+1) |-> IF m = n + 1 THEN At(g, m) ELSE g[m]]
  <2>2. Good(h, n + 1)
    <3>1. DOMAIN h = 0..(n+1)
      OBVIOUS
    <3>2. ASSUME NEW m \in 0..(n+1) PROVE h[m] = At(h, m)
      <4>1. m # 0 => m - 1 \in 0..n /\ h[m - 1] = g[m - 1]
        OBVIOUS
      <4>2. CASE m = n + 1
        BY <4>1, <4>2
      <4>3. CASE m \in 0..n
        <5>1. h[m] = g[m] /\ g[m] = At(g, m)
          BY <4>3, <2>1
        <5> QED
          BY <5>1, <4>1
      <4> QED
        BY <4>2, <4>3
    <3> QED
      BY <3>1, <3>2
  <2>3. n + 1 \in Nat
    OBVIOUS
  <2> HIDE DEF Good, h
  <2> QED
    BY <2>2, <2>3
<1> HIDE DEF N
<1>3. Len(s) \in N
  BY <1>1, <1>2, Count
<1>4. PICK g : Good(g, Len(s))
  BY <1>3 DEF N
<1>5. g = [n \in 0..Len(s) |-> g[n]]
  BY <1>4
<1> QED
  BY <1>4, <1>5 DEF Leaves

\* Without leaves out what is of the kinds, and nothing else.
LEMMA WithoutIs ==
    ASSUME NEW S, NEW s \in Seq(S), NEW kinds
    PROVE  /\ Without(s, kinds) \in Seq(S \ kinds)
           /\ Range(Without(s, kinds)) = Range(s) \ kinds
<1> DEFINE g == CHOOSE f : Leaves(f, s, kinds)
           Rest(n) == {s[i] : i \in 1..n} \ kinds
           N == {n \in Nat : n <= Len(s) => g[n] \in Seq(S \ kinds) /\ Range(g[n]) = Rest(n)}
<1>1. Without(s, kinds) = g[Len(s)]
  BY DEF Without, Leaves
<1>2. Leaves(g, s, kinds)
  BY LeavesExists, Zenon
<1>3. \A n \in 0..Len(s) : g[n] = IF n = 0 THEN <<>>
                                  ELSE IF s[n] \in kinds THEN g[n - 1] ELSE Append(g[n - 1], s[n])
  BY <1>2 DEF Leaves
<1> HIDE DEF g
<1>4. 0 \in N
  <2>1. g[0] = <<>>
    BY <1>3
  <2>2. Range(<<>>) = {} /\ <<>> \in Seq(S \ kinds)
    BY DEF Range
  <2>3. Rest(0) = {}
    OBVIOUS
  <2> QED
    BY <2>1, <2>2, <2>3
<1>5. ASSUME NEW n \in Nat, n \in N PROVE n + 1 \in N
  <2> SUFFICES ASSUME n + 1 <= Len(s)
               PROVE  g[n + 1] \in Seq(S \ kinds) /\ Range(g[n + 1]) = Rest(n + 1)
    OBVIOUS
  <2> DEFINE k == n + 1
             e == s[k]
             old == g[n]
  <2>1. old \in Seq(S \ kinds) /\ Range(old) = Rest(n)
    BY <1>5
  <2>2. g[k] = IF e \in kinds THEN old ELSE Append(old, e)
    BY <1>3
  <2>3. e \in S
    OBVIOUS
  <2>4. {s[i] : i \in 1..k} = {s[i] : i \in 1..n} \cup {e}
    <3>1. 1..k = (1..n) \cup {k}
      OBVIOUS
    <3> HIDE DEF k
    <3> QED
      BY <3>1
  <2>5. Rest(k) = Rest(n) \cup ({e} \ kinds)
    BY <2>4
  <2> HIDE DEF e, old, k
  <2>6. CASE e \in kinds
    BY <2>1, <2>2, <2>5, <2>6 DEF k
  <2>7. CASE e \notin kinds
    <3>1. Append(old, e) \in Seq(S \ kinds)
      BY <2>1, <2>3, <2>7
    <3>2. Range(Append(old, e)) = Range(old) \cup {e}
      <4>1. /\ DOMAIN Append(old, e) = 1..(Len(old) + 1) /\ DOMAIN old = 1..Len(old) /\ Len(old) \in Nat
            /\ Append(old, e)[Len(old) + 1] = e
            /\ \A i \in 1..Len(old) : Append(old, e)[i] = old[i]
        BY <2>1, <2>3, <2>7
      <4> DEFINE new == Append(old, e)
      <4> HIDE DEF new
      <4>2. \A i \in DOMAIN new : i = Len(old) + 1 \/ i \in 1..Len(old)
        BY <4>1 DEF new
      <4>3. Len(old) + 1 \in DOMAIN new /\ 1..Len(old) \subseteq DOMAIN new
        BY <4>1 DEF new
      <4>4. new[Len(old) + 1] = e /\ \A i \in 1..Len(old) : new[i] = old[i]
        BY <4>1 DEF new
      <4>5. Range(new) \subseteq Range(old) \cup {e}
        BY <4>1, <4>2, <4>4 DEF Range
      <4>6. Range(old) \cup {e} \subseteq Range(new)
        BY <4>1, <4>3, <4>4 DEF Range
      <4> QED
        BY <4>5, <4>6 DEF new
    <3> QED
      BY <3>1, <3>2, <2>1, <2>2, <2>5, <2>7 DEF k
  <2> QED
    BY <2>6, <2>7
<1> HIDE DEF N
<1>6. Len(s) \in N /\ Len(s) \in Nat
  BY <1>4, <1>5, Count
<1>7. Rest(Len(s)) = Range(s) \ kinds
  BY DEF Range
<1> QED
  BY <1>1, <1>6, <1>7 DEF N

\* Every element of a sequence is at one of its places, and the other way round.
LEMMA RangeIs ==
    ASSUME NEW S, NEW s \in Seq(S)
    PROVE  /\ Range(s) \subseteq S
           /\ \A e : e \in Range(s) <=> \E i \in 1..Len(s) : s[i] = e
BY DEF Range

\* What a content becomes: texts and images, a thought if it had one.
Shown == {"text", "thought", "image"}

\* contentParts drops thinking and blanks, and keeps every thought.
LEMMA ContentPartsAre ==
    ASSUME NEW content \in Seq(Contents)
    PROVE  /\ ContentParts(content) \in Seq(Shown)
           /\ "thought" \in Range(ContentParts(content)) <=> "thought" \in Range(content)
<1> DEFINE kept == Without(content, {"thinking", "blank"})
           parts == [i \in DOMAIN kept |-> IF kept[i] = "remote" THEN "text" ELSE kept[i]]
           S == Contents \ {"thinking", "blank"}
<1>1. kept \in Seq(S) /\ Range(kept) = Range(content) \ {"thinking", "blank"}
  BY WithoutIs
<1>2. ContentParts(content) = parts
  BY DEF ContentParts
<1> HIDE DEF kept
<1>3. \A i \in 1..Len(kept) : kept[i] \in S
  BY <1>1
<1>4. \A i \in 1..Len(kept) : parts[i] \in Shown /\ (parts[i] = "thought" <=> kept[i] = "thought")
  BY <1>1, <1>3 DEF Contents, Shown
<1>5. parts \in Seq(Shown) /\ Len(parts) = Len(kept)
  <2>1. DOMAIN kept = 1..Len(kept) /\ Len(kept) \in Nat
    BY <1>1
  <2>2. parts \in [1..Len(kept) -> Shown]
    BY <1>4, <2>1
  <2> HIDE DEF parts
  <2> QED
    BY <2>1, <2>2
<1>6. "thought" \in Range(parts) <=> "thought" \in Range(kept)
  <2> HIDE DEF parts, S
  <2>1. "thought" \in Range(parts) <=> \E i \in 1..Len(parts) : parts[i] = "thought"
    BY <1>5, RangeIs
  <2>2. "thought" \in Range(kept) <=> \E i \in 1..Len(kept) : kept[i] = "thought"
    BY <1>1, RangeIs
  <2> QED
    BY <2>1, <2>2, <1>4, <1>5
<1> QED
  BY <1>1, <1>2, <1>5, <1>6

\* What its texts are.
LEMMA TextsAre ==
    ASSUME NEW content \in Seq(Contents)
    PROVE  /\ Texts(content) \in Seq({"text", "thought"})
           /\ "thought" \in Range(Texts(content)) <=> "thought" \in Range(content)
<1>1. /\ ContentParts(content) \in Seq(Shown)
      /\ "thought" \in Range(ContentParts(content)) <=> "thought" \in Range(content)
  BY ContentPartsAre
<1>2. /\ Without(ContentParts(content), {"image"}) \in Seq(Shown \ {"image"})
      /\ Range(Without(ContentParts(content), {"image"})) = Range(ContentParts(content)) \ {"image"}
  BY <1>1, WithoutIs
<1>3. Shown \ {"image"} = {"text", "thought"}
  BY DEF Shown
<1> QED
  BY <1>1, <1>2, <1>3 DEF Texts

\* What a part can be.
PartTypes == {"text", "thought", "image", "injected", "replayed", "reasoning", "tool-call", "tool-result"}
PartOK(part) ==
    /\ part \in [type : PartTypes, id : Ids \cup {NoId}, name : Names \cup {NoFunction, "unknown"}]
    /\ part.type \in {"tool-call", "tool-result"} \/ (part.id = NoId /\ part.name = NoFunction)
WireParts == {part \in [type : PartTypes, id : Ids \cup {NoId}, name : Names \cup {NoFunction, "unknown"}] :
                 PartOK(part)}

\* A part without a call is one.
LEMMA PartIs ==
    ASSUME NEW type \in PartTypes
    PROVE  Part(type) \in WireParts /\ Part(type).type = type
BY DEF Part, PartOK, WireParts

\* So is a call and the result of one.
LEMMA CallIs ==
    /\ \A call \in Calls :
          CallPart(call) \in WireParts /\ CallPart(call).type = "tool-call"
            /\ CallPart(call).id = call.id /\ CallPart(call).name = call.name
    /\ \A id \in Ids \cup {NoId} : \A name \in Names \cup {NoFunction, "unknown"} :
          ResultPart(id, name) \in WireParts /\ ResultPart(id, name).type = "tool-result"
            /\ ResultPart(id, name).id = id /\ ResultPart(id, name).name = name
<1>1. ASSUME NEW call \in Calls
      PROVE  CallPart(call) \in WireParts /\ CallPart(call).type = "tool-call"
               /\ CallPart(call).id = call.id /\ CallPart(call).name = call.name
  BY DEF CallPart, Calls, PartOK, WireParts, PartTypes
<1>2. ASSUME NEW id \in Ids \cup {NoId}, NEW name \in Names \cup {NoFunction, "unknown"}
      PROVE  ResultPart(id, name) \in WireParts /\ ResultPart(id, name).type = "tool-result"
               /\ ResultPart(id, name).id = id /\ ResultPart(id, name).name = name
  BY DEF ResultPart, PartOK, WireParts, PartTypes
<1> QED
  BY <1>1, <1>2

\* Texts and images become parts one by one.
LEMMA PartsAre ==
    ASSUME NEW types \in Seq(PartTypes)
    PROVE  /\ Parts(types) \in Seq(WireParts) /\ Len(Parts(types)) = Len(types)
           /\ \A i \in 1..Len(types) : Parts(types)[i] = Part(types[i])
<1>1. \A i \in 1..Len(types) : types[i] \in PartTypes
  OBVIOUS
<1>2. \A i \in 1..Len(types) : Part(types[i]) \in WireParts
  BY <1>1, PartIs
<1> QED
  BY <1>2 DEF Parts

\* The texts of an assistant turn that replays reasoning in them.
LEMMA InjectedIs ==
    ASSUME NEW texts \in Seq({"text", "thought"})
    PROVE  /\ Injected(texts) \in Seq({"text", "thought", "injected", "replayed"})
           /\ Injected(texts) # <<>> /\ Injected(texts)[1] \in {"thought", "injected", "replayed"}
           /\ \/ texts = <<>> /\ Injected(texts) = <<"replayed">>
              \/ /\ texts # <<>> /\ Len(Injected(texts)) = Len(texts)
                 /\ \A i \in 1..Len(texts) : Injected(texts)[i] # "replayed"
           /\ \A i \in 1..Len(Injected(texts)) :
                 Injected(texts)[i] \in {"injected", "replayed"} <=> i = 1 /\ ~StartsWithThought(texts)
<1> DEFINE K == {"text", "thought", "injected", "replayed"}
<1>1. CASE texts = <<>>
  <2> DEFINE new == <<"replayed">>
  <2>1. Injected(texts) = new
    BY <1>1 DEF Injected
  <2>2. new \in Seq(K) /\ new # <<>> /\ new[1] = "replayed"
    OBVIOUS
  <2> HIDE DEF new
  <2>3. Injected(texts) \in Seq(K) /\ Injected(texts) # <<>> /\ Injected(texts)[1] = "replayed"
    BY <2>1, <2>2
  <2>4. texts = <<>> /\ Injected(texts) = <<"replayed">>
    BY <1>1, <2>1 DEF new
  <2>5. Len(new) = 1 /\ ~StartsWithThought(texts)
    BY <1>1 DEF new, StartsWithThought
  <2> QED
    BY <2>1, <2>3, <2>4, <2>5
<1>2. CASE texts # <<>> /\ texts[1] = "thought"
  <2>1. Injected(texts) = texts
    BY <1>2 DEF Injected
  <2>2. \A i \in 1..Len(texts) : texts[i] \in {"text", "thought"}
    OBVIOUS
  <2>3. texts \in Seq(K)
    BY <2>2
  <2>4. StartsWithThought(texts)
    BY <1>2 DEF StartsWithThought
  <2> QED
    BY <1>2, <2>1, <2>2, <2>3, <2>4
<1>3. CASE texts # <<>> /\ texts[1] # "thought"
  <2> DEFINE new == <<"injected">> \o Tail(texts)
  <2>1. Injected(texts) = new
    BY <1>3 DEF Injected
  <2>2. Tail(texts) \in Seq({"text", "thought"}) /\ Len(Tail(texts)) = Len(texts) - 1 /\ Len(texts) \in Nat
    BY <1>3
  <2>3. \A i \in 1..Len(Tail(texts)) : Tail(texts)[i] \in {"text", "thought"}
    BY <2>2
  <2>4. Len(new) = Len(texts) /\ new[1] = "injected"
        /\ \A i \in 1..Len(texts) : i # 1 => new[i] = Tail(texts)[i - 1]
    BY <1>3, <2>2
  <2>5. \A i \in 1..Len(texts) : new[i] \in {"text", "thought", "injected"}
    BY <2>2, <2>3, <2>4
  <2>6. new \in Seq(K)
    BY <2>2, <2>3
  <2> HIDE DEF new
  <2>7. \A i \in 1..Len(texts) : new[i] # "replayed"
    BY <2>5
  <2>8. new # <<>>
    BY <2>4, <1>3
  <2>9. \A i \in 1..Len(texts) : i # 1 => new[i] \in {"text", "thought"}
    BY <2>2, <2>3, <2>4
  <2>10. ~StartsWithThought(texts)
    BY <1>3 DEF StartsWithThought
  <2> QED
    BY <1>3, <2>1, <2>4, <2>6, <2>7, <2>8, <2>9, <2>10
<1> QED
  BY <1>1, <1>2, <1>3

\* How the parts of an assistant turn are laid out: the reasoning, the texts and
\* the calls.
Laid(p, r, texts, calls) ==
    /\ p \in Seq(WireParts)
    /\ Len(p) = r + Len(texts) + Len(calls)
    /\ r = 1 => p[1] = Part("reasoning")
    /\ \A i \in 1..Len(texts) : p[r + i] = Part(texts[i])
    /\ \A i \in 1..Len(calls) : p[r + Len(texts) + i] = CallPart(calls[i])

Reasons(turn, replay) == IF HasReasoning(turn) /\ replay \in {"standard", "both"} THEN 1 ELSE 0
Injects(turn, replay) == HasReasoning(turn) /\ replay \in {"inject", "both"}
TextsOf(turn, replay) == IF Injects(turn, replay) THEN Injected(Texts(turn.content)) ELSE Texts(turn.content)
TextTypes == {"text", "thought", "injected", "replayed"}

\* The parts of an assistant turn: reasoning, then texts, then calls.
LEMMA AssistantLaid ==
    ASSUME NEW turn \in TurnsOfClients, NEW replay
    PROVE  /\ TextsOf(turn, replay) \in Seq(TextTypes)
           /\ turn.calls \in Seq(Calls)
           /\ Laid(AssistantParts(turn, replay), Reasons(turn, replay), TextsOf(turn, replay), turn.calls)
<1> DEFINE first == IF HasReasoning(turn) /\ replay \in {"standard", "both"} THEN <<Part("reasoning")>> ELSE <<>>
           texts == TextsOf(turn, replay)
           calls == [i \in DOMAIN turn.calls |-> CallPart(turn.calls[i])]
           r == Reasons(turn, replay)
<1>1. turn.content \in Seq(Contents) /\ turn.calls \in Seq(Calls)
  BY DEF TurnsOfClients
<1>2. texts \in Seq(TextTypes)
  <2>1. Texts(turn.content) \in Seq({"text", "thought"})
    BY <1>1, TextsAre
  <2>2. Texts(turn.content) \in Seq(TextTypes) /\ Injected(Texts(turn.content)) \in Seq(TextTypes)
    BY <2>1, InjectedIs DEF TextTypes
  <2> QED
    BY <2>2 DEF TextsOf
<1>3. AssistantParts(turn, replay) = (first \o Parts(texts)) \o calls
  BY Zenon DEF AssistantParts, TextsOf, Injects
<1>4. first \in Seq(WireParts) /\ Len(first) = r /\ (r = 1 => first[1] = Part("reasoning")) /\ r \in 0..1
  <2>1. Part("reasoning") \in WireParts
    BY PartIs DEF PartTypes
  <2> QED
    BY <2>1 DEF Reasons
<1>5. /\ Parts(texts) \in Seq(WireParts) /\ Len(Parts(texts)) = Len(texts)
      /\ \A i \in 1..Len(texts) : Parts(texts)[i] = Part(texts[i])
  <2>1. texts \in Seq(PartTypes)
    BY <1>2 DEF TextTypes, PartTypes
  <2> HIDE DEF texts
  <2> QED
    BY <2>1, PartsAre
<1>6. /\ calls \in Seq(WireParts) /\ Len(calls) = Len(turn.calls)
      /\ \A i \in 1..Len(turn.calls) : calls[i] = CallPart(turn.calls[i])
  <2>1. \A i \in 1..Len(turn.calls) : turn.calls[i] \in Calls
    BY <1>1
  <2>2. \A i \in 1..Len(turn.calls) : CallPart(turn.calls[i]) \in WireParts
    BY <2>1, CallIs
  <2> QED
    BY <1>1, <2>2
<1> HIDE DEF first, texts, calls, r
<1> DEFINE front == first \o Parts(texts)
           p == front \o calls
<1>7. /\ front \in Seq(WireParts) /\ Len(front) = r + Len(texts)
      /\ r = 1 => front[1] = Part("reasoning")
      /\ \A i \in 1..Len(texts) : front[r + i] = Part(texts[i])
  BY <1>2, <1>4, <1>5
<1> HIDE DEF front
<1>8. /\ p \in Seq(WireParts) /\ Len(p) = r + Len(texts) + Len(turn.calls)
      /\ r = 1 => p[1] = Part("reasoning")
      /\ \A i \in 1..Len(texts) : p[r + i] = Part(texts[i])
      /\ \A i \in 1..Len(turn.calls) : p[r + Len(texts) + i] = CallPart(turn.calls[i])
  <2>1. p \in Seq(WireParts) /\ Len(p) = Len(front) + Len(calls)
        /\ (\A i \in 1..Len(front) : p[i] = front[i])
        /\ (\A i \in 1..Len(calls) : p[Len(front) + i] = calls[i])
    <3>1. front \in Seq(WireParts) /\ calls \in Seq(WireParts)
      BY <1>6, <1>7
    <3> QED
      BY ONLY <3>1 DEF p
  <2>2. Len(texts) \in Nat /\ Len(turn.calls) \in Nat
    BY <1>1, <1>2
  <2> HIDE DEF p
  <2>3. \A i \in 1..Len(texts) : r + i \in 1..Len(front)
    BY <1>4, <1>7, <2>2
  <2>4. r = 1 => 1 \in 1..Len(front)
    BY <1>7, <2>2
  <2>5. Len(p) = r + Len(texts) + Len(turn.calls)
    BY <2>1, <1>6, <1>7
  <2> QED
    BY <2>1, <2>3, <2>4, <2>5, <1>6, <1>7
<1> QED
  BY <1>1, <1>2, <1>3, <1>8 DEF Laid, texts, r, p, front

\* Every part is one of these.
PartAt(p, i, r, texts, calls) ==
    \/ i = 1 /\ r = 1 /\ p[i].type = "reasoning"
    \/ \E j \in 1..Len(texts) : i = r + j /\ p[i].type = texts[j]
    \/ \E j \in 1..Len(calls) : i = r + Len(texts) + j /\ p[i] = CallPart(calls[j])

\* So each part is one of these.
LEMMA LaidParts ==
    ASSUME NEW p, NEW r \in 0..1, NEW texts \in Seq(TextTypes), NEW calls \in Seq(Calls),
           Laid(p, r, texts, calls)
    PROVE  \A i \in 1..Len(p) : PartAt(p, i, r, texts, calls)
<1> SUFFICES ASSUME NEW i \in 1..Len(p)
             PROVE  \/ i = 1 /\ r = 1 /\ p[i].type = "reasoning"
                    \/ \E j \in 1..Len(texts) : i = r + j /\ p[i].type = texts[j]
                    \/ \E j \in 1..Len(calls) : i = r + Len(texts) + j /\ p[i] = CallPart(calls[j])
  BY DEF PartAt
<1>0. Len(texts) \in Nat /\ Len(calls) \in Nat /\ Len(p) = r + Len(texts) + Len(calls)
  BY DEF Laid
<1>1. CASE i <= r
  <2>1. Part("reasoning").type = "reasoning"
    BY PartIs DEF PartTypes
  <2>2. i = 1 /\ r = 1
    BY <1>1
  <2> QED
    BY <2>1, <2>2 DEF Laid
<1>2. CASE r < i /\ i <= r + Len(texts)
  <2> DEFINE j == i - r
  <2>1. j \in 1..Len(texts) /\ i = r + j
    BY <1>0, <1>2
  <2> HIDE DEF j
  <2>2. texts[j] \in PartTypes
    BY <2>1 DEF TextTypes, PartTypes
  <2>3. p[i].type = texts[j]
    BY <2>1, <2>2, PartIs DEF Laid
  <2> QED
    BY <2>1, <2>3
<1>3. CASE r + Len(texts) < i
  <2> DEFINE j == i - (r + Len(texts))
  <2>1. j \in 1..Len(calls) /\ i = r + Len(texts) + j
    BY <1>0, <1>3
  <2> HIDE DEF j
  <2> QED
    BY <2>1 DEF Laid
<1> QED
  BY <1>0, <1>1, <1>2, <1>3

\* A turn is converted when its parts are all it says, what is replayed aside,
\* and its reasoning is replayed as the mode has it.
TypesIn(parts) == {part.type : part \in Range(parts)}

Converted(turn, parts, replay) ==
    /\ parts \in Seq(WireParts) /\ ReplaysOnce(parts)
    /\ Len(parts) = Said(turn) + Cardinality(Replayed(parts))
    /\ turn.role = "assistant" /\ HasReasoning(turn) => ReplaysAs(turn, TypesIn(parts), replay)

\* The types of parts, by their places.
LEMMA TypesInAre ==
    ASSUME NEW parts \in Seq(WireParts)
    PROVE  \A type : type \in TypesIn(parts) <=> \E i \in 1..Len(parts) : parts[i].type = type
BY DEF TypesIn, Range

\* A turn of a user and the result of a tool replay nothing.
LEMMA PlainConverted ==
    ASSUME NEW turn, turn.role # "assistant", NEW parts \in Seq(WireParts), NEW replay,
           Len(parts) = Said(turn),
           \A i \in 1..Len(parts) : parts[i].type \notin {"reasoning", "injected", "replayed"}
    PROVE  Converted(turn, parts, replay)
<1>1. Replayed(parts) = {}
  BY DEF Replayed
<1>2. Cardinality(Replayed(parts)) = 0
  BY <1>1, FS_EmptySet
<1>3. Len(parts) \in Nat
  OBVIOUS
<1>4. ReplaysOnce(parts)
  BY DEF ReplaysOnce, AtMostOne
<1> QED
  BY <1>2, <1>3, <1>4 DEF Converted

\* A user turn is converted to the parts of its content, nothing replayed.
LEMMA UserConverted ==
    ASSUME NEW turn \in TurnsOfClients, turn.role = "user", NEW replay
    PROVE  Converted(turn, Parts(ContentParts(turn.content)), replay)
<1> DEFINE content == ContentParts(turn.content)
           parts == Parts(content)
<1>1. content \in Seq(Shown)
  BY ContentPartsAre DEF TurnsOfClients
<1> HIDE DEF content
<1>2. content \in Seq(PartTypes) /\ \A i \in 1..Len(content) : content[i] \in Shown
  BY <1>1 DEF Shown, PartTypes
<1>3. /\ parts \in Seq(WireParts) /\ Len(parts) = Len(content)
      /\ \A i \in 1..Len(content) : parts[i] = Part(content[i])
  BY <1>2, PartsAre
<1>4. \A i \in 1..Len(parts) : parts[i].type \in Shown
  BY <1>2, <1>3, PartIs DEF Shown, PartTypes
<1>5. Said(turn) = Len(content)
  BY DEF Said, content
<1> HIDE DEF parts
<1>6. Converted(turn, parts, replay)
  BY <1>3, <1>4, <1>5, PlainConverted DEF Shown
<1> QED
  BY <1>6 DEF parts, content

\* A tool turn becomes one result.
LEMMA ToolConverted ==
    ASSUME NEW turn, turn.role = "tool", NEW part \in WireParts, part.type = "tool-result", NEW replay
    PROVE  Converted(turn, <<part>>, replay)
<1> DEFINE parts == <<part>>
<1>1. parts \in Seq(WireParts) /\ Len(parts) = 1 /\ parts[1] = part
  OBVIOUS
<1> HIDE DEF parts
<1>2. \A i \in 1..Len(parts) : parts[i].type \notin {"reasoning", "injected", "replayed"}
  BY <1>1
<1>3. Said(turn) = 1
  BY DEF Said
<1>4. Converted(turn, parts, replay)
  BY <1>1, <1>2, <1>3, PlainConverted
<1> QED
  BY <1>4 DEF parts

\* What an assistant turn replays is at the front of its parts.
LEMMA ReplayedFront ==
    ASSUME NEW turn \in TurnsOfClients, NEW replay,
           NEW p, p = AssistantParts(turn, replay)
    PROVE  Len(p) = Len(Texts(turn.content)) + Len(turn.calls) + Cardinality(Replayed(p))
<1> DEFINE r == Reasons(turn, replay)
           texts == TextsOf(turn, replay)
           own == Texts(turn.content)
           calls == turn.calls
           n == IF Injects(turn, replay) /\ own = <<>> THEN 1 ELSE 0
<1>1. texts \in Seq(TextTypes) /\ calls \in Seq(Calls) /\ Laid(p, r, texts, calls) /\ r \in 0..1
  BY AssistantLaid DEF Reasons
<1>2. own \in Seq({"text", "thought"})
  BY TextsAre DEF TurnsOfClients
<1>3. /\ Len(texts) = Len(own) + n /\ n \in 0..1
      /\ n = 1 => Len(texts) = 1 /\ texts[1] = "replayed"
      /\ n = 0 => \A i \in 1..Len(texts) : texts[i] # "replayed"
  <2> HIDE DEF own
  <2>1. CASE ~Injects(turn, replay)
    <3>1. texts = own /\ n = 0
      BY <2>1 DEF TextsOf, own
    <3> QED
      BY <3>1, <1>2
  <2>2. CASE Injects(turn, replay) /\ own = <<>>
    <3>1. texts = <<"replayed">> /\ n = 1 /\ Len(own) = 0
      BY <2>2, <1>2, InjectedIs DEF TextsOf, own
    <3> QED
      BY <3>1
  <2>3. CASE Injects(turn, replay) /\ own # <<>>
    <3>1. texts = Injected(own) /\ n = 0
      BY <2>3 DEF TextsOf, own
    <3>2. Len(texts) = Len(own) /\ \A i \in 1..Len(own) : texts[i] # "replayed"
      BY <2>3, <3>1, <1>2, InjectedIs
    <3>3. Len(own) \in Nat
      BY <1>2
    <3> QED
      BY <3>1, <3>2, <3>3
  <2> QED
    BY <2>1, <2>2, <2>3
<1> HIDE DEF r, texts, own, calls, n
<1>4. Len(own) \in Nat /\ Len(calls) \in Nat /\ Len(texts) \in Nat
  BY <1>1, <1>2
<1>5. Len(p) = r + Len(texts) + Len(calls) /\ DOMAIN p = 1..Len(p)
  BY <1>1 DEF Laid
<1>6. \A i \in 1..Len(p) : PartAt(p, i, r, texts, calls)
  BY <1>1, LaidParts
<1>7. Replayed(p) = 1..(r + n)
  <2>1. ASSUME NEW i \in 1..Len(p), p[i].type \in {"reasoning", "replayed"}
        PROVE  i \in 1..(r + n)
    <3>1. CASE i = 1 /\ r = 1
      BY <3>1, <1>3
    <3>2. CASE \E j \in 1..Len(texts) : i = r + j /\ p[i].type = texts[j]
      <4>1. PICK j \in 1..Len(texts) : i = r + j /\ p[i].type = texts[j]
        BY <3>2
      <4>2. texts[j] \in TextTypes
        BY <1>1
      <4>3. texts[j] = "replayed"
        BY <2>1, <4>1, <4>2 DEF TextTypes
      <4>4. n = 1 /\ j = 1
        BY <4>1, <4>3, <1>3
      <4> QED
        BY <4>1, <4>4, <1>1
    <3>3. CASE \E j \in 1..Len(calls) : i = r + Len(texts) + j /\ p[i] = CallPart(calls[j])
      <4>1. PICK j \in 1..Len(calls) : p[i] = CallPart(calls[j])
        BY <3>3
      <4>2. calls[j] \in Calls
        BY <1>1
      <4>3. p[i].type = "tool-call"
        BY <4>1, <4>2, CallIs
      <4> QED
        BY <4>3, <2>1
    <3> QED
      BY <3>1, <3>2, <3>3, <1>6 DEF PartAt
  <2>2. ASSUME NEW i \in 1..(r + n)
        PROVE  i \in 1..Len(p) /\ p[i].type \in {"reasoning", "replayed"}
    <3>1. CASE i = 1 /\ r = 1
      <4>1. p[1] = Part("reasoning")
        BY <3>1, <1>1 DEF Laid
      <4> QED
        BY <3>1, <4>1, <1>4, <1>5, PartIs DEF PartTypes
    <3>2. CASE i = r + 1 /\ n = 1
      <4>1. 1 \in 1..Len(texts) /\ texts[1] = "replayed"
        BY <3>2, <1>3
      <4>2. p[r + 1] = Part("replayed")
        BY <4>1, <1>1 DEF Laid
      <4>3. p[i].type = "replayed"
        BY <3>2, <4>2, PartIs DEF PartTypes
      <4> QED
        BY <3>2, <4>3, <1>3, <1>1, <1>4, <1>5
    <3> QED
      BY <3>1, <3>2, <1>1, <1>3
  <2> QED
    BY <2>1, <2>2, <1>5 DEF Replayed
<1>8. Cardinality(Replayed(p)) = r + n
  <2> DEFINE k == r + n
  <2>1. k \in Nat
    BY <1>1, <1>3
  <2> HIDE DEF k
  <2>2. Cardinality(1..k) = IF 1 > k THEN 0 ELSE k - 1 + 1
    BY <2>1, FS_Interval
  <2>3. Cardinality(1..k) = k
    BY <2>1, <2>2
  <2> QED
    BY <2>3, <1>7 DEF k
<1>9. Len(p) = Len(own) + Len(calls) + (r + n)
  BY <1>1, <1>3, <1>4, <1>5
<1> QED
  BY <1>8, <1>9 DEF own, calls

\* The types of its parts say how its reasoning is replayed, each way once.
LEMMA AssistantReplays ==
    ASSUME NEW turn \in TurnsOfClients, NEW replay \in Modes,
           NEW p, p = AssistantParts(turn, replay)
    PROVE  /\ HasReasoning(turn) => ReplaysAs(turn, TypesIn(p), replay)
           /\ ReplaysOnce(p)
<1> DEFINE r == Reasons(turn, replay)
           texts == TextsOf(turn, replay)
           own == Texts(turn.content)
           calls == turn.calls
           marks == {"injected", "replayed"}
<1>1. texts \in Seq(TextTypes) /\ calls \in Seq(Calls) /\ Laid(p, r, texts, calls) /\ r \in 0..1
  BY AssistantLaid DEF Reasons
<1>2. own \in Seq({"text", "thought"})
  BY TextsAre DEF TurnsOfClients
<1>3. p \in Seq(WireParts) /\ Len(p) = r + Len(texts) + Len(calls)
  BY <1>1 DEF Laid
<1>4. \A type : type \in TypesIn(p) <=> \E i \in 1..Len(p) : p[i].type = type
  BY <1>3, TypesInAre
<1>5. r = 1 <=> HasReasoning(turn) /\ replay \in {"standard", "both"}
  BY DEF Reasons
<1>6. /\ \A j \in 1..Len(texts) : texts[j] \in marks => j = 1
      /\ (\E j \in 1..Len(texts) : texts[j] \in marks) <=> Injects(turn, replay) /\ ~StartsWithThought(own)
  <2>1. CASE Injects(turn, replay)
    <3>1. texts = Injected(own)
      BY <2>1 DEF TextsOf
    <3>2. /\ texts # <<>>
          /\ \A j \in 1..Len(texts) : texts[j] \in marks <=> j = 1 /\ ~StartsWithThought(own)
      BY <3>1, <1>2, InjectedIs
    <3> HIDE DEF texts, own
    <3>3. 1 \in 1..Len(texts)
      BY <3>2, <1>1
    <3> QED
      BY <2>1, <3>2, <3>3
  <2>2. CASE ~Injects(turn, replay)
    <3>1. texts = own
      BY <2>2 DEF TextsOf
    <3>2. \A j \in 1..Len(own) : own[j] \in {"text", "thought"}
      BY <1>2
    <3> HIDE DEF own, texts
    <3> QED
      BY <2>2, <3>1, <3>2
  <2> QED
    BY <2>1, <2>2
<1> HIDE DEF r, texts, own, calls
<1>7. Len(texts) \in Nat /\ Len(calls) \in Nat
  BY <1>1
<1>8. ASSUME NEW i \in 1..Len(p), p[i].type \in {"reasoning"} \cup marks
      PROVE  \/ i = 1 /\ r = 1 /\ p[i].type = "reasoning"
             \/ \E j \in 1..Len(texts) : i = r + j /\ p[i].type = texts[j] /\ texts[j] \in marks
  <2>0. PartAt(p, i, r, texts, calls)
    BY <1>1, LaidParts
  <2>1. \/ i = 1 /\ r = 1 /\ p[i].type = "reasoning"
        \/ \E j \in 1..Len(texts) : i = r + j /\ p[i].type = texts[j]
        \/ \E j \in 1..Len(calls) : i = r + Len(texts) + j /\ p[i] = CallPart(calls[j])
    BY <2>0 DEF PartAt
  <2>2. \A j \in 1..Len(calls) : CallPart(calls[j]).type = "tool-call"
    <3>1. \A j \in 1..Len(calls) : calls[j] \in Calls
      BY <1>1
    <3> QED
      BY <3>1, CallIs
  <2>3. \A j \in 1..Len(texts) : texts[j] \in TextTypes
    BY <1>1
  <2>4. \A j \in 1..Len(texts) : texts[j] # "reasoning"
    BY <2>3 DEF TextTypes
  <2> QED
    BY <1>8, <2>1, <2>2, <2>4
<1>9. "reasoning" \in TypesIn(p) <=> HasReasoning(turn) /\ replay \in {"standard", "both"}
  <2>1. ASSUME "reasoning" \in TypesIn(p) PROVE r = 1
    BY <2>1, <1>4, <1>8
  <2>2. ASSUME r = 1 PROVE "reasoning" \in TypesIn(p)
    <3>1. p[1] = Part("reasoning") /\ 1 \in 1..Len(p)
      BY <2>2, <1>1, <1>3, <1>7 DEF Laid
    <3>2. p[1].type = "reasoning"
      BY <3>1, PartIs DEF PartTypes
    <3> QED
      BY <3>1, <3>2, <1>4
  <2> QED
    BY <2>1, <2>2, <1>5
<1>10. TypesIn(p) \cap marks # {} <=> \E j \in 1..Len(texts) : texts[j] \in marks
  <2>1. ASSUME NEW type \in TypesIn(p), type \in marks PROVE \E j \in 1..Len(texts) : texts[j] \in marks
    <3>1. PICK i \in 1..Len(p) : p[i].type = type
      BY <1>4
    <3> QED
      BY <3>1, <2>1, <1>8
  <2>2. ASSUME NEW j \in 1..Len(texts), texts[j] \in marks PROVE TypesIn(p) \cap marks # {}
    <3>1. r + j \in 1..Len(p) /\ p[r + j] = Part(texts[j])
      BY <1>1, <1>3, <1>7 DEF Laid
    <3>2. p[r + j].type = texts[j]
      BY <3>1, <2>2, PartIs DEF PartTypes
    <3>3. texts[j] \in TypesIn(p)
      BY <3>1, <3>2, <1>4
    <3> QED
      BY <3>3, <2>2
  <2> QED
    BY <2>1, <2>2
<1>11. HasReasoning(turn) => ReplaysAs(turn, TypesIn(p), replay)
  BY <1>6, <1>9, <1>10 DEF ReplaysAs, Injects, own
<1>12. ReplaysOnce(p)
  <2>1. ASSUME NEW i \in 1..Len(p), p[i].type = "reasoning" PROVE i = 1
    BY <1>8, <2>1
  <2>2. ASSUME NEW i \in 1..Len(p), p[i].type \in marks PROVE i = r + 1
    BY <1>6, <1>8, <2>2
  <2>3. DOMAIN p = 1..Len(p)
    BY <1>3
  <2> QED
    BY <2>1, <2>2, <2>3 DEF ReplaysOnce, AtMostOne
<1> QED
  BY <1>11, <1>12

\* An assistant turn keeps what it said and replays as its mode tells.
LEMMA AssistantConverted ==
    ASSUME NEW turn \in TurnsOfClients, turn.role = "assistant", NEW replay \in Modes
    PROVE  Converted(turn, AssistantParts(turn, replay), replay)
<1> DEFINE p == AssistantParts(turn, replay)
<1>1. p \in Seq(WireParts)
  BY AssistantLaid DEF Laid
<1>2. Len(p) = Said(turn) + Cardinality(Replayed(p))
  BY ReplayedFront DEF Said
<1>3. (HasReasoning(turn) => ReplaysAs(turn, TypesIn(p), replay)) /\ ReplaysOnce(p)
  BY AssistantReplays
<1> QED
  BY <1>1, <1>2, <1>3 DEF Converted

(***************************************************************************)
(* The inductive invariant of the translation.                             *)
(***************************************************************************)
Messages == [turn : Nat, role : Roles,
             parts : {parts \in Seq(WireParts) \ {<<>>} : ReplaysOnce(parts)}]

TranslationType ==
    /\ conversation \in Seq(TurnsOfClients)
    /\ pos \in 1..(Len(conversation) + 1)
    /\ mode \in Modes
    /\ toolNames \in [Ids -> Names \cup {NoFunction}]
    /\ messages \in Seq(Messages)

\* The translation begins with the first turn, in one mode.
Begun == pc \notin {"translate", "sent"} => pos = 1

\* The messages come from the turns converted so far, in their order.
TurnsOK ==
    /\ \A k \in 1..Len(messages) : messages[k].turn \in 1..(pos - 1)
    /\ \A j, k \in 1..Len(messages) : j < k => messages[j].turn < messages[k].turn

\* Each turn is kept, and its reasoning replayed in the mode of the request.
KeptOK ==
    \A t \in 1..(pos - 1) :
        /\ Said(conversation[t]) > 0 =>
              \E k \in 1..Len(messages) :
                 /\ messages[k].turn = t /\ messages[k].role = conversation[t].role
                 /\ Len(messages[k].parts)
                       = Said(conversation[t]) + Cardinality(Replayed(messages[k].parts))
        /\ conversation[t].role = "assistant" /\ HasReasoning(conversation[t])
              => ReplaysAs(conversation[t], TypesOf(t), mode)

\* toolNames knows the last call of each id.
NamesOK == \A id \in Ids : NamedBefore(Len(messages) + 1, id, toolNames[id])

ResultOK(k) ==
    LET result == messages[k].parts[1]
    IN  result.type = "tool-result" =>
            \E function \in Names \cup {NoFunction} :
                /\ IF result.id = NoId THEN function = NoFunction
                                       ELSE NamedBefore(k, result.id, function)
                /\ result.name = (IF function = NoFunction THEN "unknown" ELSE function)

ResultsOK == \A k \in 1..Len(messages) : ResultOK(k)

Translated == TranslationType /\ Begun /\ TurnsOK /\ KeptOK /\ NamesOK /\ ResultsOK

\* It holds at first: there are no messages and no names.
LEMMA TranslatedInit == Init => Translated
<1> SUFFICES ASSUME Init PROVE Translated
  OBVIOUS
<1>1. conversation \in Seq(TurnsOfClients) /\ pos = 1 /\ messages = <<>> /\ Len(messages) = 0
  BY PathAssumption DEF Init, TranslationInit
<1>2. TranslationType
  <2>1. pos \in 1..(Len(conversation) + 1)
    BY <1>1
  <2>2. mode \in Modes /\ toolNames \in [Ids -> Names \cup {NoFunction}]
    BY DEF Init, TranslationInit, Modes
  <2> QED
    BY <1>1, <2>1, <2>2 DEF TranslationType
<1>3. Begun /\ TurnsOK /\ KeptOK /\ ResultsOK
  BY <1>1 DEF Begun, TurnsOK, KeptOK, ResultsOK
<1>4. NamesOK
  <2>1. ASSUME NEW id \in Ids PROVE NamedBefore(1, id, NoFunction)
    BY DEF NamedBefore
  <2>2. \A id \in Ids : toolNames[id] = NoFunction
    BY DEF Init, TranslationInit
  <2> QED
    BY <1>1, <2>1, <2>2 DEF NamesOK
<1> QED
  BY <1>2, <1>3, <1>4 DEF Translated

\* A message is added, or nothing is.
Added(m) ==
    IF m.parts = <<>> THEN messages' = messages ELSE messages' = Append(messages, m)

\* Either way the messages there were stay.
LEMMA MessagesStay ==
    ASSUME messages \in Seq(Messages), NEW m \in Messages, messages' = Append(messages, m)
    PROVE  /\ messages' \in Seq(Messages) /\ Len(messages') = Len(messages) + 1
           /\ messages'[Len(messages) + 1] = m
           /\ \A k \in 1..Len(messages) : messages'[k] = messages[k]
OBVIOUS

\* A turn that is converted is kept, and no other is disturbed.
LEMMA TurnKept ==
    ASSUME TranslationType, TurnsOK, KeptOK, pos <= Len(conversation),
           NEW parts, Converted(Turn, parts, mode), Said(Turn) \in Nat, Emits(parts),
           pos' = pos + 1, conversation' = conversation, mode' = mode
    PROVE  messages' \in Seq(Messages) /\ TurnsOK' /\ KeptOK'
<1> DEFINE m == Message(parts)
           n == Len(messages)
<1>1. Turn \in TurnsOfClients /\ pos \in Nat \ {0} /\ messages \in Seq(Messages) /\ n \in Nat
  BY DEF TranslationType, Turn
<1>2. parts \in Seq(WireParts) /\ ReplaysOnce(parts)
  BY DEF Converted
<1>3. /\ m.turn = pos /\ m.role = Turn.role /\ m.parts = parts
      /\ parts # <<>> => m \in Messages
  BY <1>1, <1>2 DEF Message, Messages, TurnsOfClients
<1>4. \A k \in 1..n : messages[k].turn # pos /\ messages[k].turn < pos /\ messages[k].turn \in 1..(pos - 1)
  BY <1>1 DEF TurnsOK
<1>5. /\ \A k \in 1..n : messages'[k] = messages[k]
      /\ messages' \in Seq(Messages)
      /\ \/ parts = <<>> /\ Len(messages') = n
         \/ parts # <<>> /\ Len(messages') = n + 1 /\ messages'[n + 1] = m
  <2>1. CASE parts = <<>>
    BY <2>1, <1>1 DEF Emits
  <2>2. CASE parts # <<>>
    BY <2>2, <1>1, <1>3, MessagesStay DEF Emits
  <2> QED
    BY <2>1, <2>2
<1> HIDE DEF m, n
<1>6. TurnsOK'
  <2>1. ASSUME NEW k \in 1..Len(messages') PROVE messages'[k].turn \in 1..(pos' - 1)
    <3>1. CASE k \in 1..n
      <4>1. messages'[k].turn \in 1..(pos - 1)
        BY <1>4, <1>5, <3>1
      <4> QED
        BY <4>1, <1>1
    <3>2. CASE k = n + 1 /\ messages'[n + 1] = m
      BY <1>1, <1>3, <3>2
    <3> QED
      BY <1>1, <1>5, <3>1, <3>2
  <2>2. ASSUME NEW j \in 1..Len(messages'), NEW k \in 1..Len(messages'), j < k
        PROVE  messages'[j].turn < messages'[k].turn
    <3>1. j \in 1..n
      BY <2>2, <1>1, <1>5
    <3>2. CASE k \in 1..n
      <4>1. messages[j].turn < messages[k].turn
        BY <2>2, <3>1, <3>2 DEF TurnsOK, n
      <4> QED
        BY <4>1, <3>1, <3>2, <1>5
    <3>3. CASE k = n + 1 /\ messages'[n + 1] = m
      BY <1>3, <1>4, <1>5, <3>1, <3>3
    <3> QED
      BY <1>1, <1>5, <3>2, <3>3
  <2> QED
    BY <2>1, <2>2 DEF TurnsOK
<1>7. DOMAIN messages = 1..n /\ DOMAIN messages' = 1..Len(messages')
  BY <1>1, <1>5 DEF n
<1>8. ASSUME NEW t \in 1..(pos - 1) PROVE TypesOf(t)' = TypesOf(t)
  <2>1. t # pos
    BY <1>1
  <2>2. {j \in DOMAIN messages' : messages'[j].turn = t} = {j \in DOMAIN messages : messages[j].turn = t}
    <3>1. ASSUME NEW j \in 1..Len(messages'), messages'[j].turn = t PROVE j \in 1..n
      <4>1. j # n + 1 \/ messages'[n + 1] # m
        BY <2>1, <3>1, <1>3
      <4> QED
        BY <4>1, <1>1, <1>5
    <3>2. 1..n \subseteq 1..Len(messages')
      BY <1>1, <1>5
    <3> QED
      BY <3>1, <3>2, <1>5, <1>7
  <2> DEFINE K == {j \in DOMAIN messages : messages[j].turn = t}
  <2>3. \A k \in K : messages'[k].parts = messages[k].parts
    BY <1>5, <1>7
  <2>4. TypesOf(t)' = {part.type : part \in UNION {Range(messages'[k].parts) : k \in K}}
    BY <2>2 DEF TypesOf
  <2>5. {Range(messages'[k].parts) : k \in K} = {Range(messages[k].parts) : k \in K}
    BY <2>3
  <2> QED
    BY <2>4, <2>5 DEF TypesOf
<1>9. ASSUME NEW t, t = pos PROVE TypesOf(t)' = TypesIn(parts)
  <2> DEFINE K == {j \in DOMAIN messages' : messages'[j].turn = t}
             U == UNION {Range(messages'[k].parts) : k \in K}
  <2>1. TypesOf(t)' = {part.type : part \in U}
    BY DEF TypesOf
  <2>2. U = Range(parts)
    <3>0. \A j \in 1..n : messages'[j].turn # t
      BY <1>4, <1>5, <1>9
    <3>1. CASE parts = <<>>
      <4>1. K = {}
        BY <3>0, <3>1, <1>5, <1>7
      <4>2. Range(parts) = {}
        BY <3>1 DEF Range
      <4> QED
        BY <4>1, <4>2
    <3>2. CASE parts # <<>>
      <4>1. 1..(n + 1) = (1..n) \cup {n + 1} /\ DOMAIN messages' = 1..(n + 1)
        <5>1. 1..(n + 1) = (1..n) \cup {n + 1}
          BY <1>1
        <5>2. Len(messages') = n + 1
          BY <3>2, <1>5
        <5> QED
          BY <5>1, <5>2, <1>7, Zenon
      <4>2. messages'[n + 1].turn = t
        BY <3>2, <1>3, <1>5, <1>9
      <4>3. K = {n + 1}
        BY <4>1, <4>2, <3>0
      <4>4. messages'[n + 1].parts = parts
        BY <3>2, <1>3, <1>5
      <4> HIDE DEF K
      <4> QED
        BY <4>3, <4>4
    <3> QED
      BY <3>1, <3>2
  <2> QED
    BY <2>1, <2>2 DEF TypesIn
<1>10. KeptOK'
  <2> SUFFICES ASSUME NEW t \in 1..(pos' - 1)
               PROVE  /\ Said(conversation[t]) > 0 =>
                           \E k \in 1..Len(messages') :
                              /\ messages'[k].turn = t /\ messages'[k].role = conversation[t].role
                              /\ Len(messages'[k].parts)
                                    = Said(conversation[t]) + Cardinality(Replayed(messages'[k].parts))
                      /\ conversation[t].role = "assistant" /\ HasReasoning(conversation[t])
                           => ReplaysAs(conversation[t], TypesOf(t)', mode)
    BY DEF KeptOK
  <2>1. CASE t \in 1..(pos - 1)
    <3>1. /\ Said(conversation[t]) > 0 =>
                \E k \in 1..n :
                   /\ messages[k].turn = t /\ messages[k].role = conversation[t].role
                   /\ Len(messages[k].parts)
                         = Said(conversation[t]) + Cardinality(Replayed(messages[k].parts))
          /\ conversation[t].role = "assistant" /\ HasReasoning(conversation[t])
                => ReplaysAs(conversation[t], TypesOf(t), mode)
      BY <2>1 DEF KeptOK, n
    <3>2. 1..n \subseteq 1..Len(messages')
      BY <1>1, <1>5
    <3>3. TypesOf(t)' = TypesOf(t)
      BY <2>1, <1>8
    <3> QED
      BY <3>1, <3>2, <3>3, <1>5
  <2>2. CASE t = pos
    <3>1. conversation[t] = Turn
      BY <2>2 DEF Turn
    <3>2. /\ Len(parts) = Said(Turn) + Cardinality(Replayed(parts))
          /\ Turn.role = "assistant" /\ HasReasoning(Turn) => ReplaysAs(Turn, TypesIn(parts), mode)
      BY DEF Converted
    <3>3. ASSUME Said(Turn) > 0
          PROVE  \E k \in 1..Len(messages') :
                    /\ messages'[k].turn = t /\ messages'[k].role = Turn.role
                    /\ Len(messages'[k].parts) = Said(Turn) + Cardinality(Replayed(messages'[k].parts))
      <4>1. parts # <<>>
        <5> SUFFICES ASSUME parts = <<>> PROVE FALSE
          OBVIOUS
        <5>1. Replayed(parts) = {} /\ Len(parts) = 0
          BY DEF Replayed
        <5>2. Cardinality(Replayed(parts)) = 0
          BY <5>1, FS_EmptySet
        <5> QED
          BY <5>1, <5>2, <3>2, <3>3
      <4>2. n + 1 \in 1..Len(messages') /\ messages'[n + 1] = m
        BY <4>1, <1>1, <1>5
      <4> QED
        BY <4>2, <3>2, <2>2, <1>3
    <3>4. TypesOf(t)' = TypesIn(parts)
      BY <2>2, <1>9
    <3> QED
      BY <3>1, <3>2, <3>3, <3>4
  <2>3. t \in 1..(pos - 1) \/ t = pos
    BY <1>1
  <2> QED
    BY <2>1, <2>2, <2>3
<1> QED
  BY <1>5, <1>6, <1>10

(***************************************************************************)
(* Calls and results.                                                      *)
(***************************************************************************)

\* The calls of some parts with an id.
CallsIn(parts, id) == {i \in DOMAIN parts : parts[i].type = "tool-call" /\ parts[i].id = id}

\* Which call is the last, said of any messages.
NamedIn(msgs, k, id, function) ==
    \/ function = NoFunction /\ \A j \in 1..(k - 1) : CallsIn(msgs[j].parts, id) = {}
    \/ \E j \in 1..(k - 1) : \E last \in CallsIn(msgs[j].parts, id) :
          /\ msgs[j].parts[last].name = function
          /\ \A i \in CallsIn(msgs[j].parts, id) : i <= last
          /\ \A later \in (j + 1)..(k - 1) : CallsIn(msgs[later].parts, id) = {}

\* NamedIn of the messages is the NamedBefore of RequestPath.
LEMMA NamedIs ==
    ASSUME NEW k, NEW id, NEW function
    PROVE  /\ NamedBefore(k, id, function) <=> NamedIn(messages, k, id, function)
           /\ NamedBefore(k, id, function)' <=> NamedIn(messages', k, id, function)
BY DEF NamedBefore, NamedIn, CallsOf, CallsIn

\* What is known of the messages before one stays true when others are added.
LEMMA NamedStays ==
    ASSUME NEW k \in Nat, NEW old, NEW new, \A j \in 1..(k - 1) : new[j] = old[j],
           NEW id, NEW function, NamedIn(old, k, id, function)
    PROVE  NamedIn(new, k, id, function)
<1>1. ASSUME NEW j \in 1..(k - 1), NEW later \in (j + 1)..(k - 1) PROVE later \in 1..(k - 1)
  OBVIOUS
<1>2. CASE function = NoFunction /\ \A j \in 1..(k - 1) : CallsIn(old[j].parts, id) = {}
  BY <1>2 DEF NamedIn
<1>3. CASE ~(function = NoFunction /\ \A j \in 1..(k - 1) : CallsIn(old[j].parts, id) = {})
  <2>1. PICK j \in 1..(k - 1) : \E last \in CallsIn(old[j].parts, id) :
          /\ old[j].parts[last].name = function
          /\ \A i \in CallsIn(old[j].parts, id) : i <= last
          /\ \A later \in (j + 1)..(k - 1) : CallsIn(old[later].parts, id) = {}
    BY <1>3 DEF NamedIn
  <2>2. new[j] = old[j] /\ \A later \in (j + 1)..(k - 1) : new[later] = old[later]
    BY <1>1
  <2> QED
    BY <2>1, <2>2 DEF NamedIn
<1> QED
  BY <1>2, <1>3

\* A message without a call of the id changes nothing ...
LEMMA NamedPast ==
    ASSUME NEW n \in Nat, NEW old, NEW new, \A j \in 1..n : new[j] = old[j],
           NEW id, NEW function, NamedIn(old, n + 1, id, function), CallsIn(new[n + 1].parts, id) = {}
    PROVE  NamedIn(new, n + 2, id, function)
<1>1. /\ (n + 1) - 1 = n /\ (n + 2) - 1 = n + 1
      /\ 1..(n + 1) = (1..n) \cup {n + 1}
      /\ \A j \in 1..n : (j + 1)..(n + 1) = ((j + 1)..n) \cup {n + 1}
      /\ \A j \in 1..n : (j + 1)..n \subseteq 1..n
  OBVIOUS
<1>2. CASE function = NoFunction /\ \A j \in 1..n : CallsIn(old[j].parts, id) = {}
  <2>1. \A j \in 1..(n + 1) : CallsIn(new[j].parts, id) = {}
    BY <1>1, <1>2
  <2> QED
    BY <1>1, <1>2, <2>1 DEF NamedIn
<1>3. ASSUME NEW j \in 1..n, NEW last \in CallsIn(old[j].parts, id),
             old[j].parts[last].name = function,
             \A i \in CallsIn(old[j].parts, id) : i <= last,
             \A later \in (j + 1)..n : CallsIn(old[later].parts, id) = {}
      PROVE  NamedIn(new, n + 2, id, function)
  <2>1. new[j] = old[j] /\ j \in 1..(n + 1)
    BY <1>1
  <2>2. \A later \in (j + 1)..(n + 1) : CallsIn(new[later].parts, id) = {}
    BY <1>1, <1>3
  <2> QED
    BY <1>1, <1>3, <2>1, <2>2 DEF NamedIn
<1> QED
  BY <1>1, <1>2, <1>3 DEF NamedIn

\* ... and the last of its calls is the one from then on.
LEMMA NamedLast ==
    ASSUME NEW n \in Nat, NEW new, NEW id,
           NEW last \in CallsIn(new[n + 1].parts, id),
           \A i \in CallsIn(new[n + 1].parts, id) : i <= last
    PROVE  NamedIn(new, n + 2, id, new[n + 1].parts[last].name)
<1>1. (n + 2) - 1 = n + 1 /\ n + 1 \in 1..(n + 1) /\ ((n + 1) + 1)..(n + 1) = {}
  OBVIOUS
<1> QED
  BY <1>1 DEF NamedIn

\* Whether a result names its call, said of any messages.
ResultIn(msgs, k) ==
    LET result == msgs[k].parts[1]
    IN  result.type = "tool-result" =>
            \E function \in Names \cup {NoFunction} :
                /\ IF result.id = NoId THEN function = NoFunction
                                       ELSE NamedIn(msgs, k, result.id, function)
                /\ result.name = (IF function = NoFunction THEN "unknown" ELSE function)

\* ResultIn of the messages is the ResultOK of RequestPath.
LEMMA ResultIs ==
    ASSUME NEW k
    PROVE  /\ ResultOK(k) <=> ResultIn(messages, k)
           /\ ResultOK(k)' <=> ResultIn(messages', k)
<1>1. \A id, function : /\ NamedBefore(k, id, function) <=> NamedIn(messages, k, id, function)
                        /\ NamedBefore(k, id, function)' <=> NamedIn(messages', k, id, function)
  BY NamedIs
<1> QED
  BY <1>1 DEF ResultOK, ResultIn

\* With the messages and the names nothing changes.
LEMMA NamesUnchanged ==
    ASSUME NamesOK, ResultsOK, messages' = messages, toolNames' = toolNames
    PROVE  NamesOK' /\ ResultsOK'
<1>1. ASSUME NEW id \in Ids PROVE NamedBefore(Len(messages) + 1, id, toolNames[id])'
  <2>1. NamedIn(messages, Len(messages) + 1, id, toolNames[id])
    BY NamedIs DEF NamesOK
  <2>2. NamedIn(messages', Len(messages') + 1, id, toolNames'[id])
    BY <2>1
  <2> QED
    BY <2>2 DEF NamedBefore, NamedIn, CallsOf, CallsIn
<1>2. ASSUME NEW k \in 1..Len(messages) PROVE ResultOK(k)'
  <2>1. ResultIn(messages, k)
    BY ResultIs DEF ResultsOK
  <2>2. ResultIn(messages', k)
    BY <2>1
  <2> QED
    BY <2>2, ResultIs
<1> QED
  BY <1>1, <1>2 DEF NamesOK, ResultsOK

\* The results there were still name their calls.
LEMMA ResultsStay ==
    ASSUME NEW n \in Nat, n = Len(messages), ResultsOK,
           \A j \in 1..n : messages'[j] = messages[j],
           NEW k \in 1..n
    PROVE  ResultOK(k)'
<1>1. messages'[k] = messages[k] /\ k \in Nat /\ \A j \in 1..(k - 1) : messages'[j] = messages[j]
  OBVIOUS
<1>2. \A id, function : NamedBefore(k, id, function) => NamedBefore(k, id, function)'
  BY <1>1, NamedIs, NamedStays
<1>3. ResultOK(k)
  BY DEF ResultsOK
<1> QED
  BY <1>1, <1>2, <1>3 DEF ResultOK

\* The same for the names, when the new parts have no call or there are none.
LEMMA NamesStay ==
    ASSUME TranslationType, NamesOK, ResultsOK, NEW parts,
           \A i \in 1..Len(parts) : parts[i].type # "tool-call",
           parts \in Seq(WireParts), ReplaysOnce(parts), Emits(parts), toolNames' = toolNames,
           Turn.role \in Roles
    PROVE  /\ NamesOK'
           /\ \A k \in 1..Len(messages) : ResultOK(k)'
           /\ \/ parts = <<>> /\ messages' = messages
              \/ /\ Len(messages') = Len(messages) + 1
                 /\ messages'[Len(messages) + 1].parts = parts
                 /\ \A j \in 1..Len(messages) : messages'[j] = messages[j]
<1> DEFINE n == Len(messages)
<1>1. messages \in Seq(Messages) /\ n \in Nat /\ pos \in Nat
  BY DEF TranslationType
<1>2. CASE parts = <<>>
  <2>1. messages' = messages
    BY <1>2 DEF Emits
  <2>2. ASSUME NEW id \in Ids PROVE NamedBefore(n + 1, id, toolNames[id])'
    <3>1. NamedIn(messages, n + 1, id, toolNames[id])
      BY NamedIs DEF NamesOK
    <3>2. NamedIn(messages', n + 1, id, toolNames'[id])
      BY <2>1, <3>1
    <3> QED
      BY <2>1, <3>2 DEF NamedBefore, NamedIn, CallsOf, CallsIn
  <2>3. NamesOK'
    BY <2>1, <2>2 DEF NamesOK
  <2> QED
    BY <1>1, <1>2, <2>1, <2>3, ResultsStay
<1>3. CASE parts # <<>>
  <2> DEFINE m == Message(parts)
  <2>1. m \in Messages /\ m.parts = parts /\ messages' = Append(messages, m)
    BY <1>1, <1>3 DEF Message, Messages, Emits
  <2> HIDE DEF m
  <2>2. /\ Len(messages') = n + 1 /\ messages'[n + 1] = m
        /\ \A j \in 1..n : messages'[j] = messages[j]
    BY <1>1, <2>1, MessagesStay
  <2>3. ASSUME NEW id \in Ids PROVE NamedBefore(Len(messages) + 1, id, toolNames[id])'
    <3>1. NamedIn(messages, n + 1, id, toolNames[id])
      BY NamedIs DEF NamesOK
    <3>2. CallsIn(messages'[n + 1].parts, id) = {}
      BY <2>1, <2>2 DEF CallsIn
    <3>3. NamedIn(messages', n + 2, id, toolNames[id])
      BY <1>1, <2>2, <3>1, <3>2, NamedPast
    <3>4. Len(messages') + 1 = n + 2
      BY <1>1, <2>2
    <3>5. NamedIn(messages', Len(messages') + 1, id, toolNames'[id])
      BY <3>3, <3>4
    <3> QED
      BY <3>5 DEF NamedBefore, NamedIn, CallsOf, CallsIn
  <2>4. NamesOK'
    BY <2>3 DEF NamesOK
  <2> QED
    BY <1>1, <2>1, <2>2, <2>4, ResultsStay
<1> QED
  BY <1>2, <1>3

\* The function of an id is that of the last call in the turn, if it has one.
LEMMA RecordedIs ==
    ASSUME NEW names \in [Ids -> Names \cup {NoFunction}], NEW calls \in Seq(Calls)
    PROVE  /\ Recorded(names, calls) \in [Ids -> Names \cup {NoFunction}]
           /\ \A id \in Ids :
                 \/ /\ \A i \in 1..Len(calls) : calls[i].id # id
                    /\ Recorded(names, calls)[id] = names[id]
                 \/ \E last \in 1..Len(calls) :
                       /\ calls[last].id = id /\ Recorded(names, calls)[id] = calls[last].name
                       /\ \A i \in 1..Len(calls) : calls[i].id = id => i <= last
<1> DEFINE I(id) == {i \in 1..Len(calls) : calls[i].id = id}
           Name(id) == IF I(id) = {} THEN names[id] ELSE calls[Max(I(id))].name
<1>0. Len(calls) \in Nat /\ \A i \in 1..Len(calls) : calls[i] \in Calls
  OBVIOUS
<1>1. ASSUME NEW id \in Ids
      PROVE  /\ Recorded(names, calls)[id] = Name(id)
             /\ I(id) # {} => Max(I(id)) \in I(id) /\ \A i \in I(id) : i <= Max(I(id))
  <2>1. I(id) # {} => Max(I(id)) \in I(id) /\ \A i \in I(id) : i <= Max(I(id))
    <3>1. I(id) \in SUBSET (0..Len(calls))
      OBVIOUS
    <3> HIDE DEF I
    <3> QED
      BY <1>0, <3>1, GreatestNumber
  <2> DEFINE last == IF I(id) # {} THEN Max(I(id)) ELSE 0
  <2>2. SelectLastInSeq(calls, LAMBDA call : call.id = id) = last
    BY DEF SelectLastInSeq
  <2>3. Recorded(names, calls)[id] = IF last = 0 THEN names[id] ELSE calls[last].name
    BY <2>2 DEF Recorded
  <2>4. I(id) # {} => last # 0
    BY <2>1, <1>0
  <2> HIDE DEF I
  <2> QED
    BY <2>1, <2>3, <2>4
<1>2. ASSUME NEW id \in Ids PROVE Name(id) \in Names \cup {NoFunction}
  <2>1. CASE I(id) = {}
    BY <2>1
  <2>2. CASE I(id) # {}
    <3>1. Max(I(id)) \in 1..Len(calls)
      BY <1>1, <2>2
    <3>2. calls[Max(I(id))] \in Calls
      BY <1>0, <3>1
    <3> HIDE DEF I
    <3> QED
      BY <2>2, <3>2 DEF Calls
  <2> QED
    BY <2>1, <2>2
<1>3. Recorded(names, calls) = [id \in Ids |-> Recorded(names, calls)[id]]
  BY DEF Recorded
<1>4. Recorded(names, calls) \in [Ids -> Names \cup {NoFunction}]
  <2> HIDE DEF Name
  <2>1. \A id \in Ids : Recorded(names, calls)[id] \in Names \cup {NoFunction}
    BY <1>1, <1>2
  <2> QED
    BY <1>3, <2>1
<1>5. ASSUME NEW id \in Ids, I(id) # {}
      PROVE  \E last \in 1..Len(calls) :
                /\ calls[last].id = id /\ Recorded(names, calls)[id] = calls[last].name
                /\ \A i \in 1..Len(calls) : calls[i].id = id => i <= last
  <2> DEFINE last == Max(I(id))
  <2>1. last \in I(id) /\ (\A i \in I(id) : i <= last) /\ Recorded(names, calls)[id] = calls[last].name
    BY <1>1, <1>5
  <2> HIDE DEF last
  <2> QED
    BY <2>1
<1>6. ASSUME NEW id \in Ids, I(id) = {}
      PROVE  (\A i \in 1..Len(calls) : calls[i].id # id) /\ Recorded(names, calls)[id] = names[id]
  BY <1>1, <1>6
<1> QED
  BY <1>4, <1>5, <1>6

\* A turn says a number of things.
LEMMA SaidIs == ASSUME NEW turn \in TurnsOfClients PROVE Said(turn) \in Nat
<1>1. turn.content \in Seq(Contents) /\ turn.calls \in Seq(Calls)
  BY DEF TurnsOfClients
<1>2. ContentParts(turn.content) \in Seq(Shown) /\ Texts(turn.content) \in Seq({"text", "thought"})
  BY <1>1, ContentPartsAre, TextsAre
<1>3. /\ Len(ContentParts(turn.content)) \in Nat
      /\ Len(Texts(turn.content)) + Len(turn.calls) \in Nat
  <2>1. Len(ContentParts(turn.content)) \in Nat
    BY <1>2
  <2>2. Len(Texts(turn.content)) \in Nat
    BY <1>2
  <2>3. Len(turn.calls) \in Nat
    BY <1>1
  <2>4. \A a, b \in Nat : a + b \in Nat
    OBVIOUS
  <2> QED
    BY <2>1, <2>2, <2>3, <2>4, Zenon
<1> QED
  BY <1>3 DEF Said

\* The turn at hand.
LEMMA TurnIs ==
    ASSUME TranslationType, pos <= Len(conversation)
    PROVE  /\ Turn \in TurnsOfClients /\ Said(Turn) \in Nat
           /\ pos \in Nat /\ pos + 1 \in 1..(Len(conversation) + 1)
<1>1. Turn \in TurnsOfClients
  BY DEF TranslationType, Turn
<1> QED
  BY <1>1, SaidIs DEF TranslationType

\* A turn without calls: what its step has to show.
LEMMA PlainTurn ==
    ASSUME Translated, pc = "translate", pc' = pc, pos <= Len(conversation),
           NEW parts, Converted(Turn, parts, mode), Emits(parts),
           \A i \in 1..Len(parts) : parts[i].type # "tool-call",
           pos' = pos + 1, conversation' = conversation, mode' = mode, toolNames' = toolNames,
           NEW n, n = Len(messages) + 1, parts = <<>> \/ ResultOK(n)'
    PROVE  Translated'
<1>1. /\ Turn \in TurnsOfClients /\ Said(Turn) \in Nat
      /\ pos \in Nat /\ pos + 1 \in 1..(Len(conversation) + 1)
  BY TurnIs DEF Translated
<1>2. messages' \in Seq(Messages) /\ TurnsOK' /\ KeptOK'
  BY <1>1, TurnKept DEF Translated
<1>3. TranslationType' /\ Begun'
  BY <1>1, <1>2 DEF Translated, TranslationType, Begun
<1>4. parts \in Seq(WireParts) /\ ReplaysOnce(parts) /\ Turn.role \in Roles
  BY <1>1 DEF Converted, TurnsOfClients
<1>5. /\ NamesOK'
      /\ \A k \in 1..Len(messages) : ResultOK(k)'
      /\ \/ parts = <<>> /\ messages' = messages
         \/ Len(messages') = Len(messages) + 1 /\ messages'[Len(messages) + 1].parts = parts
  BY <1>4, NamesStay DEF Translated
<1>6. ResultsOK'
  <2>0. Len(messages) \in Nat
    BY DEF Translated, TranslationType
  <2>1. CASE parts = <<>>
    <3>1. messages' = messages
      <4>1. parts = <<>> => messages' = messages
        BY DEF Emits
      <4> QED
        BY <2>1, <4>1
    <3> QED
      BY <3>1, <1>5 DEF ResultsOK
  <2>2. CASE parts # <<>>
    <3>1. Len(messages') = Len(messages) + 1
      BY <2>2, <1>5
    <3>2. \A k \in 1..Len(messages') : k \in 1..Len(messages) \/ k = Len(messages) + 1
      BY <2>0, <3>1
    <3>3. ASSUME NEW k \in 1..Len(messages') PROVE ResultOK(k)'
      <4>1. CASE k \in 1..Len(messages)
        BY <4>1, <1>5
      <4>2. CASE k = Len(messages) + 1
        BY <4>2, <2>2
      <4> QED
        BY <3>2, <4>1, <4>2
    <3> QED
      BY <3>3 DEF ResultsOK
  <2> QED
    BY <2>1, <2>2
<1> QED
  BY <1>2, <1>3, <1>5, <1>6 DEF Translated

\* A system turn says nothing in the messages.
LEMMA TranslatedSystem ==
    ASSUME Translated, pc = "translate", pc' = pc, SystemTurn
    PROVE  Translated'
<1> USE DEF SystemTurn, Takes
<1>1. /\ Turn \in TurnsOfClients /\ Turn.role = "system"
      /\ pos \in Nat /\ pos + 1 \in 1..(Len(conversation) + 1)
  BY TurnIs DEF Translated
<1>2. TranslationType' /\ Begun'
  BY <1>1 DEF Translated, TranslationType, Begun
<1>3. TurnsOK'
  <2>1. 1..(pos - 1) \subseteq 1..(pos' - 1)
    BY <1>1
  <2> QED
    BY <2>1 DEF Translated, TurnsOK
<1>4. KeptOK'
  <2>1. \A t \in 1..(pos' - 1) : t \in 1..(pos - 1) \/ t = pos
    BY <1>1
  <2>2. Said(Turn) = 0
    BY <1>1 DEF Said
  <2>3. \A t : TypesOf(t)' = TypesOf(t)
    BY DEF TypesOf
  <2> SUFFICES ASSUME NEW t \in 1..(pos' - 1)
               PROVE  /\ Said(conversation[t]) > 0 =>
                           \E k \in 1..Len(messages) :
                              /\ messages[k].turn = t /\ messages[k].role = conversation[t].role
                              /\ Len(messages[k].parts)
                                    = Said(conversation[t]) + Cardinality(Replayed(messages[k].parts))
                      /\ conversation[t].role = "assistant" /\ HasReasoning(conversation[t])
                           => ReplaysAs(conversation[t], TypesOf(t), mode)
    BY <2>3 DEF KeptOK
  <2>4. CASE t \in 1..(pos - 1)
    BY <2>4 DEF Translated, KeptOK
  <2>5. CASE t = pos
    <3>1. conversation[t] = Turn
      BY <2>5 DEF Turn
    <3> QED
      BY <3>1, <2>2, <1>1
  <2> QED
    BY <2>1, <2>4, <2>5
<1>5. NamesOK' /\ ResultsOK'
  BY NamesUnchanged DEF Translated
<1> QED
  BY <1>2, <1>3, <1>4, <1>5 DEF Translated

\* A user's turn has neither calls nor results.
LEMMA TranslatedUser ==
    ASSUME Translated, pc = "translate", pc' = pc, UserTurn
    PROVE  Translated'
<1> DEFINE content == ContentParts(Turn.content)
           parts == Parts(content)
           n == Len(messages) + 1
<1>1. Turn \in TurnsOfClients /\ Turn.role = "user"
  BY TurnIs DEF Translated, UserTurn, Takes
<1>2. /\ pos <= Len(conversation) /\ pos' = pos + 1 /\ Emits(parts)
      /\ conversation' = conversation /\ mode' = mode /\ toolNames' = toolNames
  BY DEF UserTurn, Takes
<1>3. Converted(Turn, parts, mode)
  BY <1>1, UserConverted
<1>4. content \in Seq(Shown)
  BY <1>1, ContentPartsAre DEF TurnsOfClients
<1> HIDE DEF content
<1>5. \A i \in 1..Len(parts) : parts[i].type \in Shown
  <2>1. content \in Seq(PartTypes) /\ \A i \in 1..Len(content) : content[i] \in Shown
    BY <1>4 DEF Shown, PartTypes
  <2>2. Len(parts) = Len(content) /\ \A i \in 1..Len(content) : parts[i] = Part(content[i])
    BY <2>1, PartsAre
  <2> QED
    BY <2>1, <2>2, PartIs DEF Shown, PartTypes
<1> HIDE DEF parts
<1>6. parts = <<>> \/ messages'[n].parts = parts
  <2>1. messages \in Seq(Messages) /\ parts \in Seq(WireParts) /\ ReplaysOnce(parts)
    BY <1>3 DEF Converted, Translated, TranslationType
  <2>2. \A i \in 1..Len(parts) : parts[i].type # "tool-call"
    BY <1>5 DEF Shown
  <2>3. Turn.role \in Roles
    BY <1>1 DEF TurnsOfClients
  <2> QED
    BY <1>2, <2>1, <2>2, <2>3, NamesStay DEF Translated
<1>7. ASSUME NEW k, k = n, parts # <<>> PROVE ResultOK(k)'
  <2>1. messages'[k].parts[1] = parts[1] /\ 1 \in 1..Len(parts)
    BY <1>3, <1>6, <1>7 DEF Converted
  <2>2. messages'[k].parts[1].type # "tool-result"
    BY <2>1, <1>5 DEF Shown
  <2> QED
    BY <2>2 DEF ResultOK
<1>8. \A i \in 1..Len(parts) : parts[i].type # "tool-call"
  BY <1>5 DEF Shown
<1> QED
  BY <1>2, <1>3, <1>7, <1>8, PlainTurn

\* A tool's turn names the last call of its id.
LEMMA TranslatedTool ==
    ASSUME Translated, pc = "translate", pc' = pc, ToolTurn
    PROVE  Translated'
<1> DEFINE known == IF Turn.id = NoId THEN NoFunction ELSE toolNames[Turn.id]
           name == IF known = NoFunction THEN "unknown" ELSE known
           result == ResultPart(Turn.id, name)
           parts == <<result>>
           n == Len(messages) + 1
<1>1. Turn \in TurnsOfClients /\ Turn.role = "tool" /\ Turn.id \in Ids \cup {NoId}
  BY TurnIs DEF Translated, ToolTurn, Takes, TurnsOfClients
<1>2. /\ pos <= Len(conversation) /\ pos' = pos + 1 /\ Emits(parts)
      /\ conversation' = conversation /\ mode' = mode /\ toolNames' = toolNames
  BY DEF ToolTurn, Takes
<1>3. known \in Names \cup {NoFunction}
  BY <1>1 DEF Translated, TranslationType
<1> HIDE DEF known
<1>4. name \in Names \cup {NoFunction, "unknown"}
  BY <1>3
<1>5. result \in WireParts /\ result.type = "tool-result" /\ result.id = Turn.id /\ result.name = name
  BY <1>1, <1>4, CallIs
<1> HIDE DEF name, result
<1>6. Converted(Turn, parts, mode)
  BY <1>1, <1>5, ToolConverted
<1>7. parts \in Seq(WireParts) /\ parts # <<>> /\ Len(parts) = 1 /\ parts[1] = result
  BY <1>5
<1> HIDE DEF parts
<1>8. \A i \in 1..Len(parts) : parts[i].type # "tool-call"
  BY <1>5, <1>7
<1>9. /\ messages'[n].parts = parts
      /\ \A j \in 1..Len(messages) : messages'[j] = messages[j]
  <2>1. Turn.role \in Roles /\ ReplaysOnce(parts)
    BY <1>1, <1>6 DEF TurnsOfClients, Converted
  <2> QED
    BY <1>2, <1>7, <1>8, <2>1, NamesStay DEF Translated
<1>10. ASSUME NEW k, k = n PROVE ResultOK(k)'
  <2>1. messages'[k].parts[1] = result
    BY <1>7, <1>9, <1>10
  <2>2. IF result.id = NoId THEN known = NoFunction ELSE NamedIn(messages', k, result.id, known)
    <3>1. CASE Turn.id = NoId
      BY <1>5, <3>1 DEF known
    <3>2. CASE Turn.id # NoId
      <4>1. Turn.id \in Ids /\ known = toolNames[Turn.id]
        BY <1>1, <3>2 DEF known
      <4>2. NamedIn(messages, k, Turn.id, known)
        BY <4>1, <1>10, NamedIs DEF Translated, NamesOK
      <4>3. k \in Nat /\ \A j \in 1..(k - 1) : messages'[j] = messages[j]
        BY <1>9, <1>10 DEF Translated, TranslationType
      <4>4. NamedIn(messages', k, Turn.id, known)
        BY <4>2, <4>3, NamedStays
      <4> QED
        BY <4>4, <3>2, <1>5
    <3> QED
      BY <3>1, <3>2
  <2>3. result.name = IF known = NoFunction THEN "unknown" ELSE known
    BY <1>5 DEF name
  <2>4. ResultIn(messages', k)
    BY <2>1, <2>2, <2>3, <1>3 DEF ResultIn
  <2> QED
    BY <2>4, ResultIs
<1> QED
  BY <1>2, <1>6, <1>8, <1>10, PlainTurn

\* The calls of an assistant's turn stand behind its texts, in their order.
CallsBehind(p, before, calls, id) ==
    /\ \A i \in CallsIn(p, id) :
          \E j \in 1..Len(calls) : i = before + j /\ calls[j].id = id
    /\ \A j \in 1..Len(calls) : calls[j].id = id =>
          before + j \in CallsIn(p, id) /\ p[before + j].name = calls[j].name

\* The calls in the parts of an assistant turn are the turn's calls.
LEMMA CallsLaid ==
    ASSUME NEW p, NEW r \in 0..1, NEW texts \in Seq(TextTypes), NEW calls \in Seq(Calls),
           Laid(p, r, texts, calls), NEW id
    PROVE  /\ CallsBehind(p, r + Len(texts), calls, id)
           /\ \A i \in 1..Len(p) : p[i].type # "tool-result"
<1>1. /\ Len(texts) \in Nat /\ Len(calls) \in Nat
      /\ DOMAIN p = 1..Len(p) /\ Len(p) = r + Len(texts) + Len(calls)
  BY DEF Laid
<1>2. \A j \in 1..Len(calls) : /\ CallPart(calls[j]).type = "tool-call"
                               /\ CallPart(calls[j]).id = calls[j].id
                               /\ CallPart(calls[j]).name = calls[j].name
  <2>1. \A j \in 1..Len(calls) : calls[j] \in Calls
    OBVIOUS
  <2> QED
    BY <2>1, CallIs
<1>3. \A j \in 1..Len(texts) : texts[j] \notin {"tool-call", "tool-result"}
  <2>1. \A j \in 1..Len(texts) : texts[j] \in TextTypes
    OBVIOUS
  <2> QED
    BY <2>1 DEF TextTypes
<1>4. \A i \in 1..Len(p) : PartAt(p, i, r, texts, calls)
  BY LaidParts
<1>5. ASSUME NEW i \in CallsIn(p, id)
      PROVE  \E j \in 1..Len(calls) : i = r + Len(texts) + j /\ calls[j].id = id
  <2>1. i \in 1..Len(p) /\ p[i].type = "tool-call" /\ p[i].id = id
    BY <1>1 DEF CallsIn
  <2>2. PICK j \in 1..Len(calls) : i = r + Len(texts) + j /\ p[i] = CallPart(calls[j])
    BY <2>1, <1>3, <1>4 DEF PartAt
  <2> QED
    BY <2>1, <2>2, <1>2
<1>6. ASSUME NEW j \in 1..Len(calls), calls[j].id = id
      PROVE  /\ r + Len(texts) + j \in CallsIn(p, id)
             /\ p[r + Len(texts) + j].name = calls[j].name
  <2> DEFINE i == r + Len(texts) + j
  <2>1. i \in 1..Len(p)
    BY <1>1
  <2>2. p[i] = CallPart(calls[j])
    BY DEF Laid
  <2> HIDE DEF i
  <2>3. i \in CallsIn(p, id) /\ p[i].name = calls[j].name
    BY <2>1, <2>2, <1>1, <1>2, <1>6 DEF CallsIn
  <2> QED
    BY <2>3 DEF i
<1>7. ASSUME NEW i \in 1..Len(p) PROVE p[i].type # "tool-result"
  <2>1. PartAt(p, i, r, texts, calls)
    BY <1>4
  <2> QED
    BY <2>1, <1>2, <1>3 DEF PartAt
<1> QED
  BY <1>5, <1>6, <1>7 DEF CallsBehind

\* An assistant's turn announces its calls.
LEMMA TranslatedAssistant ==
    ASSUME Translated, pc = "translate", pc' = pc, AssistantTurn(mode)
    PROVE  Translated'
<1> DEFINE calls == Turn.calls
           parts == AssistantParts(Turn, mode)
           r == Reasons(Turn, mode)
           texts == TextsOf(Turn, mode)
           n == Len(messages)
           m == Message(parts)
           names == Recorded(toolNames, calls)
<1>1. /\ Turn \in TurnsOfClients /\ Turn.role = "assistant" /\ Said(Turn) \in Nat
      /\ pos \in Nat /\ pos + 1 \in 1..(Len(conversation) + 1)
      /\ mode \in Modes /\ messages \in Seq(Messages)
      /\ toolNames \in [Ids -> Names \cup {NoFunction}]
  BY TurnIs DEF Translated, AssistantTurn, Takes, TranslationType
<1>2. /\ pos <= Len(conversation) /\ pos' = pos + 1 /\ Emits(parts)
      /\ conversation' = conversation /\ mode' = mode /\ toolNames' = names
  BY DEF AssistantTurn, Takes
<1>3. Converted(Turn, parts, mode)
  BY <1>1, AssistantConverted
<1>4. texts \in Seq(TextTypes) /\ calls \in Seq(Calls) /\ Laid(parts, r, texts, calls) /\ r \in 0..1
  BY <1>1, AssistantLaid DEF Reasons
<1>5. /\ names \in [Ids -> Names \cup {NoFunction}]
      /\ \A id \in Ids :
            \/ /\ \A i \in 1..Len(calls) : calls[i].id # id
               /\ names[id] = toolNames[id]
            \/ \E last \in 1..Len(calls) :
                  /\ calls[last].id = id /\ names[id] = calls[last].name
                  /\ \A i \in 1..Len(calls) : calls[i].id = id => i <= last
  BY <1>1, <1>4, RecordedIs
<1> HIDE DEF calls, parts, r, texts, names
<1>6. messages' \in Seq(Messages) /\ TurnsOK' /\ KeptOK'
  BY <1>1, <1>2, <1>3, TurnKept DEF Translated
<1>7. TranslationType' /\ Begun'
  BY <1>1, <1>2, <1>5, <1>6 DEF Translated, TranslationType, Begun
<1>8. n \in Nat /\ Len(texts) \in Nat /\ Len(calls) \in Nat
      /\ Len(parts) = r + Len(texts) + Len(calls) /\ parts \in Seq(WireParts)
      /\ ReplaysOnce(parts)
  BY <1>1, <1>3, <1>4 DEF Laid, Converted
<1>9. CASE parts = <<>>
  <2>1. messages' = messages
    BY <1>2, <1>9 DEF Emits
  <2>2. Len(calls) = 0
    BY <1>4, <1>8, <1>9
  <2>3. \A id \in Ids : names[id] = toolNames[id]
    BY <1>5, <2>2
  <2>4. toolNames' = toolNames
    BY <1>1, <1>2, <1>5, <2>3
  <2> QED
    BY <2>1, <2>4, <1>6, <1>7, NamesUnchanged DEF Translated
<1>10. CASE parts # <<>>
  <2>1. m \in Messages /\ m.parts = parts /\ messages' = Append(messages, m)
    BY <1>1, <1>2, <1>8, <1>10 DEF Message, Messages, Emits, TurnsOfClients
  <2> HIDE DEF m
  <2>2. /\ Len(messages') = n + 1 /\ messages'[n + 1].parts = parts
        /\ \A j \in 1..n : messages'[j] = messages[j]
    BY <1>1, <2>1, MessagesStay
  <2> HIDE DEF n
  <2>3. ASSUME NEW id \in Ids PROVE NamedIn(messages', n + 2, id, names[id])
    <3>1. /\ \A i \in CallsIn(parts, id) :
                \E j \in 1..Len(calls) : i = r + Len(texts) + j /\ calls[j].id = id
          /\ \A j \in 1..Len(calls) : calls[j].id = id =>
                /\ r + Len(texts) + j \in CallsIn(parts, id)
                /\ parts[r + Len(texts) + j].name = calls[j].name
      <4>1. CallsBehind(parts, r + Len(texts), calls, id)
        BY <1>4, CallsLaid
      <4> QED
        BY <4>1 DEF CallsBehind
    <3>2. CASE (\A i \in 1..Len(calls) : calls[i].id # id) /\ names[id] = toolNames[id]
      <4>1. CallsIn(messages'[n + 1].parts, id) = {}
        BY <3>1, <3>2, <2>2
      <4>2. NamedIn(messages, n + 1, id, toolNames[id])
        BY NamedIs DEF Translated, NamesOK, n
      <4> QED
        BY <1>8, <2>2, <3>2, <4>1, <4>2, NamedPast
    <3>3. ASSUME NEW last \in 1..Len(calls), calls[last].id = id, names[id] = calls[last].name,
                 \A i \in 1..Len(calls) : calls[i].id = id => i <= last
          PROVE  NamedIn(messages', n + 2, id, names[id])
      <4> DEFINE l == r + Len(texts) + last
      <4>1. l \in CallsIn(parts, id) /\ parts[l].name = names[id]
        BY <3>1, <3>3
      <4>2. \A i \in CallsIn(parts, id) : i <= l
        BY <3>1, <3>3, <1>4, <1>8
      <4> HIDE DEF l
      <4>3. NamedIn(messages', n + 2, id, messages'[n + 1].parts[l].name)
        BY <1>8, <2>2, <4>1, <4>2, NamedLast
      <4> QED
        BY <4>1, <4>3, <2>2
    <3> QED
      BY <1>5, <3>2, <3>3
  <2>4. NamesOK'
    <3>1. ASSUME NEW id \in Ids PROVE NamedBefore(Len(messages) + 1, id, toolNames[id])'
      <4>1. NamedIn(messages', n + 2, id, names[id])
        BY <2>3
      <4>2. Len(messages') + 1 = n + 2
        BY <1>8, <2>2
      <4>3. NamedIn(messages', Len(messages') + 1, id, toolNames'[id])
        BY <1>2, <4>1, <4>2
      <4> QED
        BY <4>3 DEF NamedBefore, NamedIn, CallsOf, CallsIn
    <3> QED
      BY <3>1 DEF NamesOK
  <2>5. ASSUME NEW k \in 1..Len(messages') PROVE ResultOK(k)'
    <3>1. CASE k \in 1..n
      BY <1>8, <2>2, <3>1, ResultsStay DEF Translated, n
    <3>2. CASE k = n + 1
      <4>1. 1 \in 1..Len(parts)
        BY <1>8, <1>10
      <4>2. parts[1].type # "tool-result"
        BY <4>1, <1>4, CallsLaid
      <4>3. messages'[k].parts[1].type # "tool-result"
        BY <3>2, <4>2, <2>2
      <4> QED
        BY <4>3 DEF ResultOK
    <3> QED
      BY <1>8, <2>2, <3>1, <3>2
  <2> QED
    BY <2>4, <2>5, <1>6, <1>7 DEF Translated, ResultsOK
<1> QED
  BY <1>9, <1>10

\* Outside the translation only the mode changes, before its first turn.
LEMMA TranslatedStays ==
    ASSUME Translated, mode' \in Modes, mode' = mode \/ pos = 1,
           conversation' = conversation, pos' = pos, toolNames' = toolNames, messages' = messages,
           pc' \notin {"translate", "sent"} => pc \notin {"translate", "sent"}
    PROVE  Translated'
<1>1. TranslationType' /\ Begun'
  BY DEF Translated, TranslationType, Begun
<1>2. TurnsOK'
  BY DEF Translated, TurnsOK
<1>3. KeptOK'
  <2>1. \A t : TypesOf(t)' = TypesOf(t)
    BY DEF TypesOf
  <2>2. CASE pos = 1
    BY <2>2 DEF KeptOK
  <2>3. CASE mode' = mode
    <3> SUFFICES ASSUME NEW t \in 1..(pos - 1)
                 PROVE  /\ Said(conversation[t]) > 0 =>
                             \E k \in 1..Len(messages) :
                                /\ messages[k].turn = t /\ messages[k].role = conversation[t].role
                                /\ Len(messages[k].parts)
                                      = Said(conversation[t]) + Cardinality(Replayed(messages[k].parts))
                        /\ conversation[t].role = "assistant" /\ HasReasoning(conversation[t])
                             => ReplaysAs(conversation[t], TypesOf(t), mode)
      BY <2>1, <2>3 DEF KeptOK
    <3> QED
      BY DEF Translated, KeptOK
  <2> QED
    BY <2>2, <2>3
<1>4. NamesOK' /\ ResultsOK'
  BY NamesUnchanged DEF Translated
<1> QED
  BY <1>1, <1>2, <1>3, <1>4 DEF Translated

\* Routing and translation together.
PathOK == Routed /\ Translated /\ updates \in 0..MaxUpdates

\* It holds at the start.
LEMMA PathInit == Init => PathOK
<1>1. Init => updates \in 0..MaxUpdates
  BY PathAssumption DEF Init
<1> QED
  BY <1>1, RoutedInit, TranslatedInit DEF PathOK

\* Every step keeps it.
LEMMA PathNext == ASSUME PathOK, [Next]_vars PROVE PathOK'
<1>1. Routed'
  BY RoutedNext DEF PathOK
<1>2. updates' \in 0..MaxUpdates
  <2>1. CASE \E new \in Settings : UpdateSettings(new)
    BY <2>1, PathAssumption DEF PathOK, UpdateSettings
  <2>2. CASE updates' = updates
    BY <2>2 DEF PathOK
  <2> QED
    BY <2>1, <2>2 DEF Next, ListShowPrefix, ListBare, ListPrefix, Ask, Route, ClaimBare, ClaimShown,
                      BeginTranslation, Translate, Resolve, Administration, vars, path
<1>3. Translated'
  <2>1. CASE \/ \E new \in Settings : UpdateSettings(new)
             \/ ListShowPrefix \/ ListBare \/ ListPrefix \/ Ask \/ Route \/ ClaimBare \/ ClaimShown
             \/ Resolve \/ UNCHANGED vars
    <3>1. /\ mode' = mode /\ conversation' = conversation /\ pos' = pos
          /\ toolNames' = toolNames /\ messages' = messages
          /\ pc' \notin {"translate", "sent"} => pc \notin {"translate", "sent"}
      BY <2>1 DEF UpdateSettings, ListShowPrefix, ListBare, ListPrefix, Ask, Route, ClaimBare,
                  ClaimShown, Resolve, Follows, vars, path, translation
    <3> QED
      BY <3>1, TranslatedStays DEF PathOK, Translated, TranslationType
  <2>2. CASE BeginTranslation
    <3>1. settings.replay \in Modes
      BY PathAssumption DEF PathOK, Routed, ViewOK
    <3>2. pos = 1
      BY <2>2 DEF BeginTranslation, Follows, PathOK, Translated, Begun
    <3> QED
      BY <2>2, <3>1, <3>2, TranslatedStays DEF BeginTranslation, Follows, PathOK
  <2>3. CASE Translate
    <3>1. pc = "translate" /\ pc' = pc
      BY <2>3 DEF Translate, path
    <3> QED
      BY <2>3, <3>1, TranslatedSystem, TranslatedAssistant, TranslatedTool, TranslatedUser
         DEF Translate, PathOK
  <2> QED
    BY <2>1, <2>2, <2>3 DEF Next
<1> QED
  BY <1>1, <1>2, <1>3 DEF PathOK

\* So it always holds.
LEMMA PathAlways == Spec => []PathOK
BY PathInit, PathNext, PTL DEF Spec

(***************************************************************************)
(* The theorems of the translation.                                        *)
(***************************************************************************)

\* The variables keep their types, no message is empty, and only calls and
\* results carry an id and a name (translator.go:114-136, 238-262).
THEOREM TypeOKAlways == Spec => []TypeOK
<1>1. ASSUME PathOK PROVE TypeOK
  <2>1. /\ settings \in Settings /\ updates \in 0..MaxUpdates
        /\ view \in [prefix : {s.prefix : s \in Settings}, showPrefix : BOOLEAN, bare : BOOLEAN,
                     replay : Modes]
        /\ owned \in BOOLEAN /\ steady \in BOOLEAN
    BY <1>1 DEF PathOK, Routed, ViewOK
  <2>2. /\ pos \in 1..(Len(conversation) + 1)
        /\ toolNames \in [Ids -> Names \cup {NoFunction}]
        /\ messages \in Seq(Messages)
    BY <1>1 DEF PathOK, Translated, TranslationType
  <2>3. ASSUME NEW k \in DOMAIN messages
        PROVE  /\ messages[k].parts # <<>>
               /\ \A part \in Range(messages[k].parts) :
                     part.type \in {"tool-call", "tool-result"} \/ (part.id = NoId /\ part.name = NoFunction)
    <3>1. messages[k] \in Messages
      BY <2>2
    <3>2. messages[k].parts \in Seq(WireParts) /\ messages[k].parts # <<>>
      BY <3>1 DEF Messages
    <3>3. Range(messages[k].parts) \subseteq WireParts
      BY <3>2, RangeIs
    <3> QED
      BY <3>2, <3>3 DEF WireParts, PartOK
  <2> QED
    BY <2>1, <2>2, <2>3 DEF TypeOK
<1> QED
  BY <1>1, PathAlways, PTL

\* A tool result carries the name of the last call before it with its id
\* (translator.go:182-185, 243-246).
THEOREM ResultNamesItsCallAlways == Spec => []ResultNamesItsCall
<1>1. ASSUME PathOK PROVE ResultNamesItsCall
  <2>1. DOMAIN messages = 1..Len(messages)
    BY <1>1 DEF PathOK, Translated, TranslationType
  <2>2. \A k \in DOMAIN messages : ResultOK(k)
    BY <1>1, <2>1 DEF PathOK, Translated, ResultsOK
  <2> QED
    BY <2>2 DEF ResultNamesItsCall, ResultOK
<1> QED
  BY <1>1, PathAlways, PTL

\* The messages keep the order of the turns, and every turn with all it says
\* (translator.go:195-262).
THEOREM TurnsKeptAlways == Spec => []TurnsKept
<1>1. ASSUME PathOK PROVE TurnsKept
  <2>1. DOMAIN messages = 1..Len(messages)
    BY <1>1 DEF PathOK, Translated, TranslationType
  <2> QED
    BY <1>1, <2>1 DEF PathOK, Translated, TurnsOK, KeptOK, TurnsKept
<1> QED
  BY <1>1, PathAlways, PTL

\* All turns of a request replay reasoning in one mode, each way at most once in
\* a message, however the settings change meanwhile (translator.go:186, 199-221).
THEOREM OneReplayModeAlways == Spec => []OneReplayMode
<1>1. ASSUME PathOK PROVE OneReplayMode
  <2>1. mode \in Modes
    BY <1>1 DEF PathOK, Translated, TranslationType
  <2>2. \A t \in 1..(pos - 1) :
           conversation[t].role = "assistant" /\ HasReasoning(conversation[t])
             => ReplaysAs(conversation[t], TypesOf(t), mode)
    BY <1>1 DEF PathOK, Translated, KeptOK
  <2>3. ASSUME NEW k \in DOMAIN messages PROVE ReplaysOnce(messages[k].parts)
    <3>1. messages[k] \in Messages
      BY <1>1 DEF PathOK, Translated, TranslationType
    <3> QED
      BY <3>1 DEF Messages
  <2> QED
    BY <2>1, <2>2, <2>3 DEF OneReplayMode
<1> QED
  BY <1>1, PathAlways, PTL
=============================================================================
