------------------------- MODULE UpdateSourceProofs -------------------------
(***************************************************************************)
(* For all feeds, clients, release directories and policies: the newest    *)
(* release for the client is offered, with files and deltas that belong    *)
(* together; an expiring manifest bounds what a replay can do; and only    *)
(* what the policy lets through is accepted.                               *)
(*                                                                         *)
(* The first part says what the operators of the three sources return; the *)
(* loop over an appcast is followed item by item.  The invariant then says *)
(* that what a check holds, between reading a document and the end, is     *)
(* what these operators made of a document that can be published.          *)
(***************************************************************************)
EXTENDS UpdateSource, FiniteSetTheorems, WellFoundedInduction, TLAPS

------------------------------------------------------------------------------
(* Least members.                                                           *)

(* Every set of numbers that is not empty has a least member.               *)
LEMMA LeastNumber ==
  ASSUME NEW S \in SUBSET Nat, S # {}
  PROVE  \E m \in S : \A n \in S : m <= n
<1> DEFINE R == OpToRel(<, Nat)
<1>1. IsWellFoundedOn(R, Nat)
  BY NatLessThanWellFounded
<1>2. \A m, n \in Nat : << n, m >> \in R <=> n < m
  BY DEF OpToRel
<1> HIDE DEF R
<1>3. PICK m \in S : \A n \in S : ~(<< n, m >> \in R)
  BY <1>1, WFMin
<1>4. ASSUME NEW n \in S PROVE m <= n
  <2>1. m \in Nat /\ n \in Nat
    OBVIOUS
  <2>2. ~(n < m)
    BY <1>2, <1>3, <2>1
  <2> QED
    BY <2>1, <2>2
<1> QED
  BY <1>4

(* It is the one that Min chooses.                                          *)
LEMMA GitHubMin ==
  ASSUME NEW S \in SUBSET Nat, S # {}
  PROVE  GitHub!Min(S) \in S /\ \A n \in S : GitHub!Min(S) <= n
BY LeastNumber DEF GitHub!Min

(* GitHubSource counts as FiniteSets does.                                  *)
LEMMA GitHubCardinality == \A S : GitHub!Cardinality(S) = Cardinality(S)
BY DEF GitHub!Cardinality, Cardinality

(* A member with the least number, among things that have numbers.          *)
LEMMA LeastNumbered ==
  ASSUME NEW T, T # {}, NEW number, \A t \in T : number[t] \in Nat
  PROVE  \E t \in T : \A u \in T : number[t] <= number[u]
<1> DEFINE S == {number[t] : t \in T}
<1>1. S \in SUBSET Nat /\ S # {}
  OBVIOUS
<1>2. PICK m \in S : \A n \in S : m <= n
  BY <1>1, LeastNumber
<1> QED
  BY <1>2

------------------------------------------------------------------------------
(* GitHub.                                                                  *)

Unwanted(r, s) == r.draft \/ (r.prerelease /\ ~s.prereleases)

(* The places of the releases are numbers, and those to consider are of     *)
(* releases that are wanted.                                                *)
LEMMA WantedPlaces ==
  ASSUME NEW list \in Lists, NEW s \in GitHubClients
  PROVE  /\ DOMAIN list = 1 .. Len(list) /\ Len(list) \in Nat
         /\ \A i \in DOMAIN list : list[i] \in GitHub!GhRelease
         /\ GitHub!Shown(list, s) \subseteq DOMAIN list
         /\ GitHub!Wanted(list, s) \subseteq GitHub!Shown(list, s)
         /\ GitHub!FetchReleases(list, s) \subseteq GitHub!Wanted(list, s)
         /\ \A i \in GitHub!Wanted(list, s) : ~Unwanted(list[i], s)
         /\ \A i \in GitHub!Shown(list, s) :
              ~Unwanted(list[i], s) => i \in GitHub!Wanted(list, s)
<1>1. list \in Seq(GitHub!GhRelease)
  BY FeedsAssumption
<1> QED
  BY <1>1 DEF GitHub!Shown, GitHub!Wanted, GitHub!FetchReleases, Unwanted

(* Whatever the history asked for, the first of the releases that are read  *)
(* is the first of the list that is wanted.                                 *)
LEMMA FirstIsWanted ==
  ASSUME NEW list \in Lists, NEW s \in GitHubClients,
         GitHub!FetchReleases(list, s) # {},
         NEW first, first = GitHub!Min(GitHub!FetchReleases(list, s))
  PROVE  /\ first \in GitHub!Wanted(list, s)
         /\ \A j \in 1 .. (first - 1) : Unwanted(list[j], s)
<1> DEFINE W == GitHub!Wanted(list, s)
           F == GitHub!FetchReleases(list, s)
<1>1. W \in SUBSET Nat /\ W # {} /\ F \in SUBSET Nat /\ F \subseteq W
  BY WantedPlaces
<1>2. PICK m \in W : \A n \in W : m <= n
  BY <1>1, LeastNumber
<1>3. {j \in W : j < m} = {}
  BY <1>1, <1>2
<1>4. GitHub!Cardinality({j \in W : j < m}) = 0
  BY <1>3, FS_EmptySet, GitHubCardinality
<1>5. s.history \in Nat
  BY FeedsAssumption DEF GitHub!Settings
<1>6. m \in F
  BY <1>4, <1>5 DEF GitHub!FetchReleases
<1>7. first \in F /\ first <= m
  BY <1>1, <1>6, GitHubMin
<1>8. first = m
  BY <1>1, <1>2, <1>7
<1>9. ASSUME NEW j \in 1 .. (first - 1), ~Unwanted(list[j], s) PROVE FALSE
  <2>1. first \in GitHub!Shown(list, s) /\ first \in Nat /\ j \in Nat /\ j < first
    BY <1>1, <1>7, WantedPlaces
  <2>2. j \in DOMAIN list
    BY <2>1, WantedPlaces
  <2>3. GitHub!PerPage(s) \in Nat
    BY <1>5, NumbersAssumption DEF GitHub!PerPage
  <2>4. j \in GitHub!Shown(list, s)
    BY <2>1, <2>2, <2>3 DEF GitHub!Shown
  <2>5. j \in W
    BY <1>9, <2>4, WantedPlaces
  <2> QED
    BY <1>2, <1>8, <2>1, <2>5
<1> QED
  BY <1>1, <1>7, <1>9

(* The asset of a release that is downloaded is one for this system, and    *)
(* not a delta or the signature of one.                                     *)
LEMMA SelectedAsset ==
  ASSUME NEW assets \in Seq(GitHub!GhAsset), GitHub!Selectable(assets) # {}
  PROVE  /\ GitHub!SelectAsset(assets).of = "mine"
         /\ GitHub!SelectAsset(assets).part \in {"package", "minisig"}
<1> DEFINE i == GitHub!Min(GitHub!Selectable(assets))
<1>1. GitHub!Selectable(assets) \in SUBSET Nat
  BY DEF GitHub!Selectable
<1>2. i \in GitHub!Selectable(assets)
  BY <1>1, GitHubMin
<1>3. i \in DOMAIN assets /\ assets[i] \in GitHub!GhAsset
  BY <1>2 DEF GitHub!Selectable
<1>4. ~GitHub!IsDeltaAsset(assets[i]) /\ GitHub!AssetMatches(assets[i])
  BY <1>2 DEF GitHub!Selectable
<1> HIDE DEF i
<1>5. assets[i].of = "mine" /\ assets[i].part \in {"package", "minisig"}
  BY <1>3, <1>4 DEF GitHub!IsDeltaAsset, GitHub!AssetMatches, GitHub!GhAsset, GitHub!Part
<1>6. GitHub!SelectAsset(assets) = assets[i]
  BY DEF GitHub!SelectAsset, i
<1> QED
  BY <1>5, <1>6

(* A delta that is found in a release is an asset of it, made for the file  *)
(* of this system.                                                          *)
FoundIn(d, r) ==
  /\ d.to = r.tag
  /\ \E a \in ToSet(r.assets) : a.part = "delta" /\ a.of = "mine" /\ a.from = d.from

(* Each delta of an answer was found in the release it is attached to.      *)
LEMMA FoundDeltas ==
  ASSUME NEW r, NEW main, main.of = "mine", NEW s, NEW deferred,
         NEW d \in GitHub!DeltasOf(r, main, s, deferred)
  PROVE  FoundIn(d, r)
<1>1. PICK a \in {x \in GitHub!AssetsOf(r) : GitHub!IsDeltaOf(main, x)} :
        d.from = a.from /\ d.to = r.tag
  BY DEF GitHub!DeltasOf
<1>2. a \in ToSet(r.assets)
  BY <1>1 DEF GitHub!AssetsOf, ToSet
<1> QED
  BY <1>1, <1>2 DEF FoundIn, GitHub!IsDeltaOf

(* What GitHub answers with, when there is an answer.                       *)
LEMMA GitHubAnswer ==
  ASSUME NEW list \in Lists, NEW s \in GitHubClients,
         NEW answer, answer = GitHub!FetchLatest(list, s), answer.error = None
  PROVE  /\ \E i \in DOMAIN list :
              /\ ~Unwanted(list[i], s) /\ answer.version = list[i].tag
              /\ \A j \in 1 .. (i - 1) : Unwanted(list[j], s)
         /\ answer.asset.of = "mine" /\ answer.asset.part \in {"package", "minisig"}
         /\ \A d \in answer.deltas : \E r \in ToSet(list) : FoundIn(d, r) /\ ~r.draft
<1> DEFINE F     == GitHub!FetchReleases(list, s)
           first == GitHub!Min(F)
           main  == GitHub!SelectAsset(list[first].assets)
<1>1. F # {}
  BY ErrorsAssumption DEF GitHub!FetchLatest
<1>2. F \subseteq DOMAIN list /\ F \in SUBSET Nat
  BY WantedPlaces
<1>3. first \in F /\ first \in DOMAIN list /\ ~Unwanted(list[first], s)
  BY <1>1, <1>2, GitHubMin, WantedPlaces
<1>4. \A j \in 1 .. (first - 1) : Unwanted(list[j], s)
  BY <1>1, FirstIsWanted
<1>5. list[first].tag # None /\ GitHub!Selectable(list[first].assets) # {}
  BY <1>1, ErrorsAssumption DEF GitHub!FetchLatest
<1>6. \A i \in DOMAIN list : list[i].assets \in Seq(GitHub!GhAsset)
  BY WantedPlaces DEF GitHub!GhRelease
<1>7. main.of = "mine" /\ main.part \in {"package", "minisig"}
  BY <1>3, <1>5, <1>6, SelectedAsset
<1>8. /\ answer.version = list[first].tag /\ answer.asset = main
      /\ answer.deltas = GitHub!DeltasOf(list[first], main, s, FALSE)
                           \union GitHub!EarlierDeltas(list, F \ {first}, s)
  BY <1>1, <1>5 DEF GitHub!FetchLatest
<1>9. \A i \in DOMAIN list : list[i] \in ToSet(list)
  BY DEF ToSet
<1> HIDE DEF first, main, F
<1>10. ASSUME NEW d \in answer.deltas
       PROVE  \E r \in ToSet(list) : FoundIn(d, r) /\ ~r.draft
  <2>1. CASE d \in GitHub!DeltasOf(list[first], main, s, FALSE)
    BY <2>1, <1>3, <1>7, <1>9, FoundDeltas DEF Unwanted
  <2>2. CASE d \in GitHub!EarlierDeltas(list, F \ {first}, s)
    <3>1. PICK i \in {k \in F \ {first} : GitHub!Selectable(list[k].assets) # {}} :
            d \in GitHub!DeltasOf(list[i], GitHub!SelectAsset(list[i].assets), s, TRUE)
      BY <2>2 DEF GitHub!EarlierDeltas
    <3>2. i \in F /\ i \in DOMAIN list /\ ~Unwanted(list[i], s)
      BY <3>1, <1>2, WantedPlaces DEF F
    <3>3. GitHub!SelectAsset(list[i].assets).of = "mine"
      BY <3>1, <3>2, <1>6, SelectedAsset
    <3> QED
      BY <3>1, <3>2, <3>3, <1>9, FoundDeltas DEF Unwanted
  <2> QED
    BY <1>8, <2>1, <2>2
<1> QED
  BY <1>3, <1>4, <1>7, <1>8, <1>10

------------------------------------------------------------------------------
(* Appcasts.                                                                *)

OsFor == [macos |-> {None, "macos"}, linux |-> {"linux-x64", "linux"},
          windows |-> {None, "windows", "windows-x64"}]

(* An enclosure has a rank, and one with a rank is for the platform.        *)
LEMMA Ranks ==
  ASSUME NEW client \in Clients, NEW e
  PROVE  /\ Appcast!Rank(client, e) \in Nat
         /\ Appcast!Rank(client, e) # 0 => e.os \in OsFor[client.os]
<1> DEFINE matcher == Appcast!ForPlatform[client.os]
           places  == {k \in DOMAIN matcher.preferred : matcher.preferred[k] = e.os}
<1>1. client.os \in {"macos", "windows", "linux"}
  BY FeedsAssumption DEF Appcast!Client, Appcast!ForPlatform
<1>2. /\ matcher.missing \in Nat /\ DOMAIN matcher.preferred \subseteq 1 .. 2
      /\ matcher.missing # 0 => client.os # "linux"
      /\ \A k \in DOMAIN matcher.preferred : matcher.preferred[k] \in OsFor[client.os]
  BY <1>1 DEF Appcast!ForPlatform, OsFor
<1>3. CASE e.os = None
  BY <1>1, <1>2, <1>3 DEF Appcast!Rank, OsFor
<1>4. CASE e.os # None /\ places = {}
  BY <1>4 DEF Appcast!Rank
<1>5. CASE e.os # None /\ places # {}
  <2> DEFINE k == CHOOSE k \in places : TRUE
  <2>1. k \in places /\ Appcast!Rank(client, e) = k
    BY <1>5 DEF Appcast!Rank
  <2> HIDE DEF k
  <2> QED
    BY <1>2, <2>1
<1> QED
  BY <1>3, <1>4, <1>5

(* Of the enclosures with a rank there is a best one.                       *)
LEMMA BestIsRanked ==
  ASSUME NEW client \in Clients, NEW enclosures, DOMAIN enclosures \subseteq Nat,
         Appcast!Ranked(client, enclosures) # {}
  PROVE  Appcast!BestEnclosure(client, enclosures) \in Appcast!Ranked(client, enclosures)
<1> DEFINE T == Appcast!Ranked(client, enclosures)
           rank == [i \in T |-> Appcast!Rank(client, enclosures[i])]
<1>1. \A i \in T : rank[i] \in Nat
  BY Ranks
<1>2. PICK t \in T : \A u \in T : rank[t] <= rank[u]
  <2> HIDE DEF T, rank
  <2> QED
    BY <1>1, LeastNumbered DEF T
<1> DEFINE Least == {u \in T : rank[u] = rank[t]}
<1>3. Least \in SUBSET Nat /\ Least # {}
  BY DEF Appcast!Ranked
<1>4. PICK m \in Least : \A n \in Least : m <= n
  <2> HIDE DEF Least
  <2> QED
    BY <1>3, LeastNumber
<1>5. \A j \in T : Appcast!Precedes(client, enclosures, m, j)
  <2> SUFFICES ASSUME NEW j \in T PROVE Appcast!Precedes(client, enclosures, m, j)
    OBVIOUS
  <2>1. rank[m] = rank[t] /\ rank[t] <= rank[j] /\ rank[m] \in Nat /\ rank[j] \in Nat
    BY <1>1, <1>2, <1>4
  <2>2. rank[j] = rank[m] => m <= j
    BY <1>4, <2>1
  <2> QED
    BY <2>1, <2>2, <1>4 DEF Appcast!Precedes
<1>6. m \in T
  BY <1>4
<1> HIDE DEF T
<1> QED
  BY <1>5, <1>6 DEF Appcast!BestEnclosure, T

(* What the reader keeps of an item.                                        *)
ItemRead(item) ==
  /\ DOMAIN item.enclosures \subseteq Nat
  /\ item.bundle \in Version \union {Bad} /\ item.short \in Version \union {None, Bad}

(* Every item of an appcast is read into one of that form.                  *)
LEMMA ItemsRead ==
  ASSUME NEW xml \in Appcasts, NEW i \in DOMAIN xml
  PROVE  ItemRead(Appcast!ReadItem(xml[i]))
<1>1. xml[i] \in Appcast!AppcastItem
  BY FeedsAssumption
<1> QED
  BY <1>1 DEF Appcast!AppcastItem, Appcast!ReadItem, ItemRead

(* An item that offers a release offers a version, in a file for the        *)
(* platform.                                                                *)
LEMMA OfferedItem ==
  ASSUME NEW client \in Clients, NEW item, ItemRead(item), Appcast!Offers(item, client)
  PROVE  /\ Appcast!Resolve(client.field, item) \in Nat
         /\ Appcast!Candidate(item, client).version = Appcast!Resolve(client.field, item)
         /\ Appcast!Candidate(item, client).asset.os \in OsFor[client.os]
<1> DEFINE best == Appcast!BestEnclosure(client, item.enclosures)
<1>1. Appcast!Ranked(client, item.enclosures) # {} /\ Appcast!Resolve(client.field, item) # Bad
  BY DEF Appcast!Offers
<1>2. best \in Appcast!Ranked(client, item.enclosures)
  BY <1>1, BestIsRanked DEF ItemRead
<1>3. Appcast!Rank(client, item.enclosures[best]) # 0
  BY <1>2 DEF Appcast!Ranked
<1>4. Appcast!Resolve(client.field, item) \in Nat
  BY <1>1, NumbersAssumption DEF Appcast!Resolve, ItemRead
<1>5. item.enclosures[best].os \in OsFor[client.os]
  BY <1>3, Ranks
<1>6. /\ Appcast!Candidate(item, client).version = Appcast!Resolve(client.field, item)
      /\ Appcast!Candidate(item, client).asset = item.enclosures[best]
  BY DEF Appcast!Candidate
<1> QED
  BY <1>4, <1>5, <1>6

(* `newest`, which remembers the newest offer among the first n items, is a *)
(* function: it can be extended item by item.                               *)
Remembers(f, items, client, k) ==
  f = [n \in 0 .. k |-> IF n = 0 THEN 0 ELSE Appcast!Newer(items, client, f[n - 1], n)]

(* What is remembered of k - 1 items gives what is remembered of k.         *)
LEMMA RemembersMore ==
  ASSUME NEW items, NEW client, NEW k \in Nat \ {0},
         NEW f, Remembers(f, items, client, k - 1)
  PROVE  \E g : Remembers(g, items, client, k)
<1> DEFINE g == [n \in 0 .. k |-> IF n = k THEN Appcast!Newer(items, client, f[k - 1], k)
                                  ELSE f[n]]
<1>1. ASSUME NEW n \in 0 .. k
      PROVE  g[n] = IF n = 0 THEN 0 ELSE Appcast!Newer(items, client, g[n - 1], n)
  <2>1. CASE n = k
    <3>1. g[n] = Appcast!Newer(items, client, f[k - 1], k) /\ g[k - 1] = f[k - 1]
      BY <2>1
    <3> QED
      BY <2>1, <3>1
  <2>2. CASE n # k
    <3>1. n \in 0 .. (k - 1) /\ g[n] = f[n]
      BY <2>2
    <3>2. n # 0 => n - 1 \in 0 .. (k - 1) /\ g[n - 1] = f[n - 1]
      BY <3>1
    <3>3. f[n] = IF n = 0 THEN 0 ELSE Appcast!Newer(items, client, f[n - 1], n)
      BY <3>1 DEF Remembers
    <3> QED
      BY <3>1, <3>2, <3>3
  <2> QED
    BY <2>1, <2>2
<1>2. g = [n \in 0 .. k |-> g[n]]
  OBVIOUS
<1>3. Remembers(g, items, client, k)
  <2> HIDE DEF g
  <2> QED
    BY <1>1, <1>2 DEF Remembers
<1> QED
  BY <1>3

(* So there is such a function for any number of items.                     *)
LEMMA RemembersAll ==
  ASSUME NEW items, NEW client, NEW k \in Nat
  PROVE  \E f : Remembers(f, items, client, k)
<1> DEFINE Without == {n \in Nat : ~ \E f : Remembers(f, items, client, n)}
<1> SUFFICES ASSUME Without # {} PROVE FALSE
  OBVIOUS
<1>1. PICK m \in Without : \A n \in Without : m <= n
  BY LeastNumber
<1>2. Remembers([n \in 0 .. 0 |-> 0], items, client, 0)
  BY DEF Remembers
<1>3. m # 0
  BY <1>1, <1>2
<1>4. m - 1 \in Nat /\ m - 1 \notin Without
  BY <1>1, <1>3
<1>5. PICK f : Remembers(f, items, client, m - 1)
  BY <1>4
<1>6. \E g : Remembers(g, items, client, m)
  BY <1>1, <1>3, <1>5, RemembersMore
<1> QED
  BY <1>1, <1>6

(* After n items the newest of their offers is remembered, if they make any.*)
NewestOf(items, client, n, best) ==
  /\ best = 0 => \A i \in 1 .. n : ~Appcast!Offers(items[i], client)
  /\ best # 0 =>
       /\ best \in 1 .. n /\ Appcast!Offers(items[best], client)
       /\ \A i \in 1 .. n : Appcast!Offers(items[i], client) =>
            Appcast!Resolve(client.field, items[i])
              <= Appcast!Resolve(client.field, items[best])

(* Looking at one item more keeps that so.                                  *)
LEMMA NewerIsNewest ==
  ASSUME NEW client \in Clients, NEW items, NEW n \in Nat \ {0}, NEW best,
         \A i \in 1 .. n : ItemRead(items[i]), NewestOf(items, client, n - 1, best)
  PROVE  NewestOf(items, client, n, Appcast!Newer(items, client, best, n))
<1> DEFINE version(i) == Appcast!Resolve(client.field, items[i])
           offers(i)  == Appcast!Offers(items[i], client)
<1>1. \A i \in 1 .. n : offers(i) => version(i) \in Nat
  BY OfferedItem
<1>2. n \in 1 .. n /\ \A i \in 1 .. n : i = n \/ i \in 1 .. (n - 1)
  OBVIOUS
<1>3. best # 0 => best \in 1 .. n
  BY DEF NewestOf
<1>4. CASE offers(n) /\ (best = 0 \/ version(n) > version(best))
  <2>1. Appcast!Newer(items, client, best, n) = n
    BY <1>4 DEF Appcast!Newer
  <2>2. ASSUME NEW i \in 1 .. n, offers(i) PROVE version(i) <= version(n)
    <3>1. CASE i = n
      BY <3>1, <1>1, <1>4
    <3>2. CASE i \in 1 .. (n - 1)
      <4>1. best # 0 /\ offers(best) /\ version(i) <= version(best)
        BY <2>2, <3>2 DEF NewestOf
      <4>2. version(i) \in Nat /\ version(best) \in Nat /\ version(n) \in Nat
        BY <1>1, <1>2, <1>3, <1>4, <2>2, <4>1
      <4> QED
        BY <4>1, <4>2, <1>4
    <3> QED
      BY <1>2, <3>1, <3>2
  <2> QED
    BY <1>2, <1>4, <2>1, <2>2 DEF NewestOf
<1>5. CASE ~(offers(n) /\ (best = 0 \/ version(n) > version(best)))
  <2>1. Appcast!Newer(items, client, best, n) = best
    BY <1>5 DEF Appcast!Newer
  <2>2. best # 0 /\ offers(n) => version(n) <= version(best)
    <3> SUFFICES ASSUME best # 0, offers(n) PROVE version(n) <= version(best)
      OBVIOUS
    <3>1. version(n) \in Nat /\ version(best) \in Nat
      BY <1>1, <1>2, <1>3 DEF NewestOf
    <3> QED
      BY <3>1, <1>5
  <2> HIDE DEF version
  <2> QED
    BY <1>2, <1>3, <1>5, <2>1, <2>2 DEF NewestOf, version
<1> QED
  BY <1>4, <1>5

(* What `Newest` chooses is the newest offer of all items.                  *)
LEMMA NewestIsNewest ==
  ASSUME NEW client \in Clients, NEW items, Len(items) \in Nat,
         \A i \in 1 .. Len(items) : ItemRead(items[i])
  PROVE  NewestOf(items, client, Len(items), Appcast!Newest(items, client))
<1> DEFINE newest == CHOOSE f : Remembers(f, items, client, Len(items))
           Wrong  == {n \in 0 .. Len(items) : ~NewestOf(items, client, n, newest[n])}
<1>1. Remembers(newest, items, client, Len(items))
  BY RemembersAll
<1>2. Appcast!Newest(items, client) = newest[Len(items)]
  BY DEF Appcast!Newest, Remembers
<1> HIDE DEF newest
<1>3. ASSUME NEW m \in Wrong, \A n \in Wrong : m <= n PROVE FALSE
  <2>1. CASE m = 0
    <3>1. newest[0] = 0
      BY <1>1 DEF Remembers
    <3>2. NewestOf(items, client, 0, 0)
      BY DEF NewestOf
    <3> QED
      BY <2>1, <3>1, <3>2
  <2>2. CASE m # 0
    <3>1. m - 1 \in 0 .. Len(items) /\ m - 1 \notin Wrong /\ m \in Nat \ {0}
      BY <1>3, <2>2
    <3>2. NewestOf(items, client, m - 1, newest[m - 1])
      BY <3>1
    <3>3. newest[m] = Appcast!Newer(items, client, newest[m - 1], m)
      BY <1>1, <3>1 DEF Remembers
    <3>4. \A i \in 1 .. m : ItemRead(items[i])
      OBVIOUS
    <3>5. NewestOf(items, client, m, newest[m])
      BY <3>1, <3>2, <3>3, <3>4, NewerIsNewest
    <3> QED
      BY <3>5
  <2> QED
    BY <2>1, <2>2
<1>4. Wrong = {}
  <2>1. Wrong \in SUBSET Nat
    OBVIOUS
  <2> QED
    BY <1>3, <2>1, LeastNumber
<1>5. NewestOf(items, client, Len(items), newest[Len(items)])
  BY <1>4
<1> QED
  BY <1>2, <1>5

(* What an appcast answers with, when there is an answer.                   *)
LEMMA AppcastAnswer ==
  ASSUME NEW xml \in Appcasts, NEW client \in Clients,
         NEW answer, answer = Appcast!FetchLatest(xml, client), answer.error = None
  PROVE  /\ \E i \in DOMAIN xml :
              /\ Appcast!Offers(Appcast!ReadItem(xml[i]), client)
              /\ answer = Appcast!Candidate(Appcast!ReadItem(xml[i]), client)
         /\ \A i \in DOMAIN xml :
              Appcast!Offers(Appcast!ReadItem(xml[i]), client) =>
                Appcast!Candidate(Appcast!ReadItem(xml[i]), client).version
                  <= answer.version
         /\ answer.asset.os \in OsFor[client.os]
<1> DEFINE items == [i \in DOMAIN xml |-> Appcast!ReadItem(xml[i])]
           best  == Appcast!Newest(items, client)
<1>1. Len(xml) \in Nat /\ DOMAIN xml = 1 .. Len(xml)
  BY FeedsAssumption
<1>2. Len(items) = Len(xml)
  BY <1>1
<1>3. \A i \in DOMAIN xml : items[i] = Appcast!ReadItem(xml[i]) /\ ItemRead(items[i])
  BY ItemsRead
<1>4. answer = Appcast!Select(items, client)
  BY DEF Appcast!FetchLatest
<1> HIDE DEF items
<1>5. NewestOf(items, client, Len(items), best)
  BY <1>1, <1>2, <1>3, NewestIsNewest
<1>6. best # 0 /\ answer = Appcast!Candidate(items[best], client)
  <2>1. /\ best = 0 => answer = [error |-> "no asset"]
        /\ best # 0 => answer = Appcast!Candidate(items[best], client)
    BY <1>4 DEF Appcast!Select
  <2>2. [error |-> "no asset"].error = "no asset"
    OBVIOUS
  <2> QED
    BY <2>1, <2>2, ErrorsAssumption
<1> HIDE DEF best
<1>7. best \in DOMAIN xml /\ Appcast!Offers(items[best], client)
  BY <1>1, <1>2, <1>5, <1>6 DEF NewestOf
<1>8. /\ answer.version = Appcast!Resolve(client.field, items[best])
      /\ answer.asset.os \in OsFor[client.os]
  BY <1>3, <1>6, <1>7, OfferedItem
<1>9. \A i \in DOMAIN xml : Appcast!Offers(items[i], client) =>
        Appcast!Candidate(items[i], client).version <= answer.version
  BY <1>1, <1>2, <1>3, <1>5, <1>6, <1>8, OfferedItem DEF NewestOf
<1> QED
  BY <1>3, <1>6, <1>7, <1>8, <1>9

------------------------------------------------------------------------------
(* Manifests.                                                               *)

Files(tree)  == Static!Listed(tree.files, tree.opt)
Asset(f, tree) == Static!ManifestAsset(f, tree.deltas, tree.opt)
AssetsOf(tree) == Static!Assets(tree.files, tree.deltas, tree.opt)

(* A client picks the asset of a listed file, which has what it asks for,   *)
(* whenever there is one.                                                   *)
LEMMA PicksListed ==
  ASSUME NEW tree \in Trees, NEW selector,
         Static!Matching(AssetsOf(tree), selector) # {}
  PROVE  \E f \in Files(tree) :
           /\ Static!SelectAsset(AssetsOf(tree), selector) = Asset(f, tree)
           /\ Static!AssetMatches(Asset(f, tree), selector)
<1> DEFINE T == Static!Matching(AssetsOf(tree), selector)
           order == [a \in T |-> a.name.order]
<1>1. \A f \in Files(tree) : Asset(f, tree).name.order \in Nat
  BY TreesAssumption
  DEF Files, Asset, Static!Listed, Static!ManifestAsset, Static!ReleaseFile, Static!Name
<1>2. \A a \in T : \E f \in Files(tree) : a = Asset(f, tree) /\ Static!AssetMatches(a, selector)
  BY DEF AssetsOf, Static!Assets, Static!Matching, Files, Asset
<1>3. \A a \in T : order[a] \in Nat
  BY <1>1, <1>2
<1>4. \E a \in T : \A b \in T : order[a] <= order[b]
  <2> HIDE DEF T, order
  <2> QED
    BY <1>3, LeastNumbered DEF T
<1>5. \E a \in T : \A b \in T : a.name.order <= b.name.order
  BY <1>4
<1>6. Static!SelectAsset(AssetsOf(tree), selector) \in T
  <2> HIDE DEF T
  <2> QED
    BY <1>5 DEF Static!SelectAsset, T
<1> QED
  BY <1>2, <1>6

(* What a manifest answers with, when there is an answer.                   *)
Delivers(answer, f, tree) ==
  /\ answer.asset.name = f.name
  /\ answer.asset.os = Static!Classify(f.name).os
  /\ answer.asset.arch = Static!Classify(f.name).arch
  /\ answer.published = Static!Metadata(f, tree.opt)
  /\ \A d \in tree.deltas : d.asset = f.name /\ d.from # Bad =>
       \E e \in answer.deltas : e.from = d.from
  /\ \A e \in answer.deltas : \E d \in tree.deltas :
       /\ d.asset = f.name /\ d.from # Bad
       /\ e.of = d.asset /\ e.from = d.from
       /\ e.published = Static!Metadata(d, tree.opt)

(* A manifest answers with one of the files it was built from.              *)
LEMMA ManifestAnswer ==
  ASSUME NEW tree \in Trees, NEW version, NEW selector,
         NEW answer, answer = Static!Read(version, AssetsOf(tree), selector),
         answer.error = None
  PROVE  \E f \in Files(tree) :
           /\ Delivers(answer, f, tree)
           /\ Static!AssetMatches(Asset(f, tree), selector)
<1> DEFINE main == Static!SelectAsset(AssetsOf(tree), selector)
<1>1. Static!Matching(AssetsOf(tree), selector) # {}
  BY ErrorsAssumption DEF Static!Read
<1>2. PICK f \in Files(tree) :
        main = Asset(f, tree) /\ Static!AssetMatches(Asset(f, tree), selector)
  BY <1>1, PicksListed
<1>3. /\ answer.asset = [name |-> main.name, os |-> main.os, arch |-> main.arch]
      /\ answer.published = main.published
      /\ answer.deltas = Static!DeltaAssets(main, version)
  BY <1>1 DEF Static!Read
<1> HIDE DEF main
<1>4. /\ main.name = f.name /\ main.os = Static!Classify(f.name).os
      /\ main.arch = Static!Classify(f.name).arch
      /\ main.published = Static!Metadata(f, tree.opt)
      /\ main.deltas = {[from |-> d.from, to |-> d.to, of |-> d.asset,
                         published |-> Static!Metadata(d, tree.opt)] :
                         d \in {x \in tree.deltas : x.asset = f.name}}
  BY <1>2 DEF Asset, Static!ManifestAsset
<1>5. ASSUME NEW d \in tree.deltas, d.asset = f.name, d.from # Bad
      PROVE  \E e \in answer.deltas : e.from = d.from
  <2> DEFINE x == [from |-> d.from, to |-> d.to, of |-> d.asset,
                   published |-> Static!Metadata(d, tree.opt)]
  <2>1. x \in main.deltas /\ x.from = d.from
    BY <1>4, <1>5
  <2> HIDE DEF x
  <2> DEFINE e == [from |-> x.from, to |-> IF x.to = None THEN version ELSE x.to,
                   of |-> x.of, published |-> x.published]
  <2>2. e \in answer.deltas
    BY <1>3, <1>5, <2>1 DEF Static!DeltaAssets
  <2> QED
    BY <2>1, <2>2
<1>6. ASSUME NEW e \in answer.deltas
      PROVE  \E d \in tree.deltas :
               /\ d.asset = f.name /\ d.from # Bad
               /\ e.of = d.asset /\ e.from = d.from
               /\ e.published = Static!Metadata(d, tree.opt)
  <2>1. PICK x \in main.deltas :
          x.from # Bad /\ e.from = x.from /\ e.of = x.of /\ e.published = x.published
    BY <1>3 DEF Static!DeltaAssets
  <2>2. PICK d \in tree.deltas :
          /\ d.asset = f.name
          /\ x.from = d.from /\ x.of = d.asset /\ x.published = Static!Metadata(d, tree.opt)
    BY <1>4
  <2> QED
    BY <2>1, <2>2
<1> QED
  BY <1>2, <1>3, <1>4, <1>5, <1>6 DEF Delivers

(* A target that a directory was built for is served.                       *)
Asked(target, format) ==
  [os |-> target.os, arch |-> target.arch, format |-> format, pattern |-> None]

(* Some format of a required target is found.                               *)
LEMMA TargetServed ==
  ASSUME NEW tree \in Trees, NEW version, NEW target \in tree.opt.required,
         Static!Builds(tree.files, tree.deltas, tree.opt)
  PROVE  \E asset \in AssetsOf(tree) :
           Static!Read(version, AssetsOf(tree), Asked(target, asset.format)).error = None
<1>1. PICK f \in Files(tree) :
        /\ Static!Classify(f.name).os = target.os
        /\ target.arch # None => Static!Classify(f.name).arch = target.arch
  BY DEF Static!Builds, Static!Missing, Files
<1> DEFINE asset == Asset(f, tree)
<1>2. asset \in AssetsOf(tree)
  BY <1>1 DEF AssetsOf, Static!Assets, Asset, Files
<1>3. /\ asset.os = Static!Classify(f.name).os
      /\ asset.arch = Static!Classify(f.name).arch
  BY DEF Asset, Static!ManifestAsset
<1> HIDE DEF asset
<1>4. Static!AssetMatches(asset, Asked(target, asset.format))
  BY <1>1, <1>3 DEF Static!AssetMatches, Static!FieldMatches, Asked
<1>5. Static!Matching(AssetsOf(tree), Asked(target, asset.format)) # {}
  BY <1>2, <1>4 DEF Static!Matching
<1>6. Static!Read(version, AssetsOf(tree), Asked(target, asset.format)).error = None
  BY <1>5 DEF Static!Read
<1> QED
  BY <1>2, <1>6

(* Where signatures are required, everything that is listed has one.        *)
LEMMA ListedIsSigned ==
  ASSUME NEW tree \in Trees, NEW f \in Files(tree),
         Static!Builds(tree.files, tree.deltas, tree.opt),
         tree.opt.signatures = "Required"
  PROVE  /\ Static!Metadata(f, tree.opt).minisign # "none"
         /\ \A d \in tree.deltas :
              d.asset = f.name => Static!Metadata(d, tree.opt).minisign # "none"
<1>1. \A g \in Files(tree) \union Static!Attached(tree.files, tree.deltas, tree.opt) : g.minisig
  BY DEF Static!Builds, Static!Unsigned, Files
<1>2. \A d \in tree.deltas : d.asset = f.name => d.minisig
  BY <1>1 DEF Static!Attached, Files
<1>3. \A g : g.minisig => Static!Metadata(g, tree.opt).minisign # "none"
  BY DEF Static!Metadata
<1> QED
  BY <1>1, <1>2, <1>3

------------------------------------------------------------------------------
(* The invariant.                                                           *)

(* While sources are asked, the error that is kept is the primary's, as     *)
(* soon as there has been one; and there is one when none has answered.     *)
Turns ==
  /\ pc \in {"ask", "signature", "expiry", "trusted", "parsed"} =>
       /\ sources \in Chains /\ turn \in 1 .. Len(sources)
       /\ turn # 1 => error.by = 1
  /\ pc = "failed" => error.by = 1

(* What was published is older than the clock, each manifest is of no lower *)
(* version than those before it, and expires in time if it says when.       *)
Manifest == [version : Version, at : Nat, expires : Nat \union {None, Bad}]

History(published_docs, time) ==
  /\ published_docs \in Seq(Manifest) /\ published_docs # << >> /\ time \in Nat
  /\ \A i \in DOMAIN published_docs :
       /\ published_docs[i].at <= time
       /\ published_docs[i].expires \in {published_docs[i].at + Lifetime, None, Bad}
  /\ \A i, j \in DOMAIN published_docs : i < j =>
       /\ published_docs[i].version <= published_docs[j].version
       /\ published_docs[i].at <= published_docs[j].at

Documents == History(docs, now)

Fetched == pc \in {"signature", "expiry"} => body \in ToSet(docs)

(* A manifest that was read is one of a directory that build accepts, and   *)
(* an answer is what the source makes of the document it has read.          *)
Written(tree) ==
  tree \in Trees /\ Static!Builds(tree.files, tree.deltas, tree.opt)

Answer(document, answer) ==
  /\ answer.error = None
  /\ \/ /\ document.kind = "github"
        /\ document.list \in Lists /\ document.settings \in GitHubClients
        /\ answer = GitHub!FetchLatest(document.list, document.settings)
     \/ /\ document.kind = "appcast"
        /\ document.items \in Appcasts /\ document.client \in Clients
        /\ answer = Appcast!FetchLatest(document.items, document.client)
     \/ /\ document.kind = "manifest" /\ Written(document.tree)
        /\ answer = Static!Read(document.version, AssetsOf(document.tree),
                                document.selector)

Understood ==
  /\ pc = "parsed" => feed.kind = "manifest" /\ Written(feed.tree)
  /\ pc = "answered" => Answer(feed, release)

(* A file is taken only when it has passed the check.                       *)
Taken ==
  /\ pc = "accepted" => Accepted
  /\ pc = "reused" => Checked

IInv == Turns /\ Documents /\ Fetched /\ Understood /\ Taken

(* The history a publisher begins with.                                     *)
LEMMA FirstHistory == History(FirstDocs, 0)
<1>1. FirstDocs \in Seq(Manifest) /\ DOMAIN FirstDocs = {1} /\ FirstDocs # << >>
  BY InstalledAssumption, LifetimeAssumption DEF FirstDocs, Manifest
<1>2. FirstDocs[1].at = 0 /\ FirstDocs[1].expires = 0 + Lifetime
  BY LifetimeAssumption DEF FirstDocs
<1> QED
  BY <1>1, <1>2 DEF History

(* Publishing adds to the history, and time passes.                         *)
LEMMA LongerHistory ==
  ASSUME NEW ds, NEW time, History(ds, time), NEW v \in Version, v >= Last(ds).version,
         NEW e \in {time + Lifetime, None, Bad}
  PROVE  History(Append(ds, [version |-> v, at |-> time, expires |-> e]), time)
<1> DEFINE d == [version |-> v, at |-> time, expires |-> e]
           longer == Append(ds, d)
<1>1. ds \in Seq(Manifest) /\ ds # << >> /\ time \in Nat /\ Len(ds) \in Nat \ {0}
  BY DEF History
<1>2. d \in Manifest /\ d.at = time /\ d.version = v /\ d.expires \in {d.at + Lifetime, None, Bad}
  BY <1>1, LifetimeAssumption DEF Manifest
<1>3. \A i \in DOMAIN ds : /\ ds[i].at <= time /\ ds[i].at \in Nat
                           /\ ds[i].version \in Nat /\ ds[i].version <= v
  <2>1. Last(ds) = ds[Len(ds)] /\ Len(ds) \in DOMAIN ds
    BY <1>1 DEF Last
  <2>2. \A i \in DOMAIN ds : ds[i] \in Manifest /\ i \in 1 .. Len(ds)
    BY <1>1
  <2>3. \A i \in DOMAIN ds : ds[i].version \in Nat /\ ds[i].at \in Nat
    BY <2>2, NumbersAssumption DEF Manifest
  <2>4. \A i \in DOMAIN ds : ds[i].version <= ds[Len(ds)].version
    <3> SUFFICES ASSUME NEW i \in DOMAIN ds PROVE ds[i].version <= ds[Len(ds)].version
      OBVIOUS
    <3>1. i = Len(ds) \/ i < Len(ds)
      BY <2>2, <1>1
    <3> QED
      BY <3>1, <2>1, <2>3 DEF History
  <2>5. v \in Nat
    BY NumbersAssumption
  <2> QED
    BY <2>1, <2>3, <2>4, <2>5 DEF History
<1> HIDE DEF d
<1>4. /\ longer \in Seq(Manifest) /\ longer # << >> /\ Len(longer) = Len(ds) + 1
      /\ DOMAIN longer = 1 .. (Len(ds) + 1) /\ longer[Len(ds) + 1] = d
      /\ \A i \in 1 .. Len(ds) : longer[i] = ds[i]
  BY <1>1, <1>2
<1> HIDE DEF longer
<1>5. \A i \in DOMAIN longer :
        /\ longer[i].at <= time
        /\ longer[i].expires \in {longer[i].at + Lifetime, None, Bad}
  BY <1>1, <1>2, <1>3, <1>4 DEF History
<1>6. \A i, j \in DOMAIN longer : i < j =>
        longer[i].version <= longer[j].version /\ longer[i].at <= longer[j].at
  <2> SUFFICES ASSUME NEW i \in DOMAIN longer, NEW j \in DOMAIN longer, i < j
               PROVE  longer[i].version <= longer[j].version /\ longer[i].at <= longer[j].at
    OBVIOUS
  <2>1. i \in DOMAIN ds /\ longer[i] = ds[i] /\ i \in 1 .. Len(ds)
    BY <1>1, <1>4
  <2>2. CASE j = Len(ds) + 1
    BY <1>2, <1>3, <1>4, <2>1, <2>2
  <2>3. CASE j # Len(ds) + 1
    BY <1>1, <1>4, <2>1, <2>3 DEF History
  <2> QED
    BY <2>2, <2>3
<1>7. History(longer, time)
  BY <1>1, <1>4, <1>5, <1>6 DEF History
<1> QED
  BY <1>7 DEF longer, d

(* A history stays one as time passes.                                      *)
LEMMA LaterHistory ==
  ASSUME NEW ds, NEW time, History(ds, time)
  PROVE  History(ds, time + 1)
<1>1. \A i \in DOMAIN ds : ds[i] \in Manifest
  BY DEF History
<1>2. \A i \in DOMAIN ds : ds[i].at \in Nat
  BY <1>1 DEF Manifest
<1> QED
  BY <1>2 DEF History

------------------------------------------------------------------------------
(* Every step keeps the invariant.                                          *)

(* The initial state.                                                       *)
LEMMA InitInv == Init => IInv
<1> SUFFICES ASSUME Init PROVE IInv
  OBVIOUS
<1>1. Turns
  <2>1. sources # << >> /\ sources \in Seq(Kind)
    BY ChainsAssumption DEF Init
  <2>2. Len(sources) \in Nat \ {0}
    BY <2>1
  <2> QED
    BY <2>2 DEF Init, Turns
<1>2. Documents
  BY FirstHistory DEF Init, Documents
<1> QED
  BY <1>1, <1>2 DEF Init, IInv, Fetched, Understood, Taken

(* A source that gives no answer leaves the turn to the next.               *)
LEMMA FailsKeeps ==
  ASSUME IInv, pc \in {"ask", "signature", "expiry", "trusted", "parsed"},
         NEW e, Fails(e)
  PROVE  IInv'
<1>1. /\ sources \in Chains /\ sources \in Seq(Kind)
      /\ turn \in 1 .. Len(sources) /\ (turn # 1 => error.by = 1)
  BY ChainsAssumption DEF IInv, Turns
<1>2. Len(sources) \in Nat
  BY <1>1
<1>3. error'.by = 1
  BY <1>1 DEF Fails, Reported
<1>4. pc' = "ask" => turn' \in 1 .. Len(sources)
  BY <1>1, <1>2 DEF Fails
<1>5. pc' \in {"ask", "failed"} /\ sources' = sources
  BY DEF Fails
<1>6. Turns'
  BY <1>1, <1>3, <1>4, <1>5 DEF Turns
<1>7. Documents'
  BY FirstHistory DEF Fails, Documents
<1> QED
  BY <1>5, <1>6, <1>7 DEF IInv, Fetched, Understood, Taken

(* An answer is what the source makes of the document.                      *)
LEMMA AnswersKeeps ==
  ASSUME IInv, NEW answer, Answers(answer), Answer(feed', answer)
  PROVE  IInv'
<1>1. pc' = "answered" /\ release' = answer /\ docs' = docs /\ now' = now
  BY DEF Answers, channel
<1>2. Documents'
  BY <1>1 DEF IInv, Documents
<1> QED
  BY <1>1, <1>2 DEF IInv, Turns, Fetched, Understood, Taken

(* The publisher makes a new manifest.                                      *)
LEMMA PublishKeeps == IInv /\ Publish => IInv'
<1> SUFFICES ASSUME IInv, Publish PROVE IInv'
  OBVIOUS
<1>1. PICK v \in Version, e \in {now + Lifetime, None, Bad} :
        /\ v >= Last(docs).version
        /\ docs' = Append(docs, [version |-> v, at |-> now, expires |-> e])
  BY DEF Publish
<1>2. UNCHANGED << pc, now, body, feed, release, sources, turn, error, config, published, file >>
  BY DEF Publish, reading, file_vars
<1>3. History(docs, now)
  BY DEF IInv, Documents
<1>4. History(docs', now)
  BY <1>1, <1>3, LongerHistory
<1>5. Documents'
  BY <1>2, <1>4 DEF Documents
<1>6. ToSet(docs) \subseteq ToSet(docs')
  <2>1. docs \in Seq(Manifest)
    BY <1>3 DEF History
  <2> QED
    BY <1>1, <2>1 DEF ToSet
<1>7. Fetched'
  BY <1>2, <1>6 DEF IInv, Fetched
<1>8. Turns' /\ Understood'
  BY <1>2 DEF IInv, Turns, Understood
<1>9. Taken'
  BY <1>2 DEF Publish, Pending, Asking, Taken
<1> QED
  BY <1>5, <1>7, <1>8, <1>9 DEF IInv

(* Time passes.                                                             *)
LEMMA TickKeeps == IInv /\ Tick => IInv'
<1> SUFFICES ASSUME IInv, Tick PROVE IInv'
  OBVIOUS
<1>1. /\ UNCHANGED << pc, docs, body, feed, release, sources, turn, error >>
      /\ now' = now + 1
  BY DEF Tick, reading
<1>2. Documents'
  BY <1>1, LaterHistory DEF IInv, Documents
<1>3. Turns' /\ Fetched' /\ Understood'
  BY <1>1 DEF IInv, Turns, Fetched, Understood
<1>4. Taken'
  BY <1>1 DEF Tick, Pending, Asking, Taken
<1> QED
  BY <1>2, <1>3, <1>4 DEF IInv

(* GitHub answers.                                                          *)
LEMMA AskGitHubKeeps == IInv /\ AskGitHub => IInv'
<1> SUFFICES ASSUME IInv, AskGitHub PROVE IInv'
  OBVIOUS
<1>1. PICK list \in Lists, s \in GitHubClients :
        LET answer == GitHub!FetchLatest(list, s)
        IN  IF answer.error # None THEN Fails(answer.error)
            ELSE /\ feed' = [kind |-> "github", list |-> list, settings |-> s]
                 /\ Answers(answer)
  BY DEF AskGitHub
<1> DEFINE answer == GitHub!FetchLatest(list, s)
<1>2. pc = "ask"
  BY DEF AskGitHub, Asking
<1>3. CASE answer.error # None
  BY <1>1, <1>2, <1>3, FailsKeeps
<1>4. CASE answer.error = None
  <2>1. Answers(answer) /\ feed' = [kind |-> "github", list |-> list, settings |-> s]
    BY <1>1, <1>4
  <2>2. Answer(feed', answer)
    BY <1>4, <2>1 DEF Answer
  <2> QED
    BY <2>1, <2>2, AnswersKeeps
<1> QED
  BY <1>3, <1>4

(* An appcast is fetched and read.                                          *)
LEMMA AskAppcastKeeps == IInv /\ AskAppcast => IInv'
<1> SUFFICES ASSUME IInv, AskAppcast PROVE IInv'
  OBVIOUS
<1>1. PICK xml \in Appcasts, c \in Clients :
        LET answer == Appcast!FetchLatest(xml, c)
        IN  IF answer.error # None THEN Fails(answer.error)
            ELSE /\ feed' = [kind |-> "appcast", items |-> xml, client |-> c]
                 /\ Answers(answer)
  BY DEF AskAppcast
<1> DEFINE answer == Appcast!FetchLatest(xml, c)
<1>2. pc = "ask"
  BY DEF AskAppcast, Asking
<1>3. CASE answer.error # None
  BY <1>1, <1>2, <1>3, FailsKeeps
<1>4. CASE answer.error = None
  <2>1. Answers(answer) /\ feed' = [kind |-> "appcast", items |-> xml, client |-> c]
    BY <1>1, <1>4
  <2>2. Answer(feed', answer)
    BY <1>4, <2>1 DEF Answer
  <2> QED
    BY <2>1, <2>2, AnswersKeeps
<1> QED
  BY <1>3, <1>4

(* The body of a manifest is fetched,                                       *)
LEMMA FetchBodyKeeps == IInv /\ FetchBody => IInv'
<1> SUFFICES ASSUME IInv, FetchBody PROVE IInv'
  OBVIOUS
<1>1. /\ pc = "ask" /\ pc' \in {"signature", "expiry"} /\ body' \in ToSet(docs)
      /\ UNCHANGED << docs, now, sources, turn, error >>
  BY DEF FetchBody, Asking, reading, channel
<1> QED
  BY <1>1 DEF IInv, Turns, Documents, Fetched, Understood, Taken

(* then its signature, perhaps of another one,                              *)
LEMMA FetchSignatureKeeps == IInv /\ FetchSignature => IInv'
<1> SUFFICES ASSUME IInv, FetchSignature PROVE IInv'
  OBVIOUS
<1>1. pc = "signature"
  BY DEF FetchSignature
<1>2. CASE Fails("signature")
  BY <1>1, <1>2, FailsKeeps
<1>3. CASE pc' = "expiry" /\ UNCHANGED << body, docs, now, sources, turn, error >>
  BY <1>1, <1>3 DEF IInv, Turns, Documents, Fetched, Understood, Taken
<1> QED
  BY <1>2, <1>3 DEF FetchSignature, reading, channel

(* its expiry is looked at,                                                 *)
LEMMA CheckExpiryKeeps == IInv /\ CheckExpiry => IInv'
<1> SUFFICES ASSUME IInv, CheckExpiry PROVE IInv'
  OBVIOUS
<1>1. pc = "expiry"
  BY DEF CheckExpiry
<1>2. CASE /\ pc' = "trusted" /\ now' = 0 /\ docs' = FirstDocs
           /\ UNCHANGED << sources, turn, error >>
  <2>1. Documents'
    BY <1>2, FirstHistory DEF Documents
  <2> QED
    BY <1>1, <1>2, <2>1 DEF IInv, Turns, Fetched, Understood, Taken
<1>3. CASE \E e : Fails(e)
  BY <1>1, <1>3, FailsKeeps
<1> QED
  BY <1>2, <1>3 DEF CheckExpiry, reading

(* it is parsed,                                                            *)
LEMMA ParseKeeps == IInv /\ Parse => IInv'
<1> SUFFICES ASSUME IInv, Parse PROVE IInv'
  OBVIOUS
<1>1. PICK tree \in Trees, s \in Selectors :
        /\ Static!Builds(tree.files, tree.deltas, tree.opt)
        /\ feed' = [kind |-> "manifest", version |-> feed.version, tree |-> tree,
                    selector |-> s]
  BY DEF Parse
<1>2. /\ pc = "trusted" /\ pc' = "parsed"
      /\ UNCHANGED << docs, now, sources, turn, error >>
  BY DEF Parse, reading, channel
<1>3. feed'.kind = "manifest" /\ Written(feed'.tree)
  BY <1>1 DEF Written
<1> QED
  BY <1>2, <1>3 DEF IInv, Turns, Documents, Fetched, Understood, Taken

(* and the client picks its file.                                           *)
LEMMA PickKeeps == IInv /\ Pick => IInv'
<1> SUFFICES ASSUME IInv, Pick PROVE IInv'
  OBVIOUS
<1> DEFINE answer == Static!Read(feed.version, Listing, feed.selector)
<1>1. pc = "parsed" /\ feed.kind = "manifest" /\ Written(feed.tree)
  BY DEF Pick, IInv, Understood
<1>2. CASE answer.error # None
  <2>1. Fails(answer.error)
    BY <1>2 DEF Pick
  <2> QED
    BY <1>1, <2>1, FailsKeeps
<1>3. CASE answer.error = None
  <2>1. Answers(answer) /\ feed' = feed
    BY <1>3 DEF Pick
  <2>2. Listing = AssetsOf(feed.tree)
    BY DEF Listing, AssetsOf
  <2>3. Answer(feed', answer)
    BY <1>1, <1>3, <2>1, <2>2 DEF Answer
  <2> QED
    BY <2>1, <2>3, AnswersKeeps
<1> QED
  BY <1>2, <1>3

(* The answer goes to the checks of the policy.                             *)
LEMMA CheckKeeps == IInv /\ Check => IInv'
<1> SUFFICES ASSUME IInv, Check PROVE IInv'
  OBVIOUS
<1>1. /\ pc' \in {"up to date", "offered", "refused"}
      /\ UNCHANGED << docs, now >>
  BY DEF Check, channel
<1> QED
  BY <1>1 DEF IInv, Turns, Documents, Fetched, Understood, Taken

(* A file is downloaded, or found in place, and checked.                    *)
LEMMA TakesKeeps == IInv /\ (Download \/ Reuse) => IInv'
<1> SUFFICES ASSUME IInv, Download \/ Reuse PROVE IInv'
  OBVIOUS
<1>1. /\ UNCHANGED << docs, now >>
      /\ \/ pc' = IF Accepted' THEN "accepted" ELSE "rejected"
         \/ pc' = "reused" /\ Checked'
  BY Zenon DEF Download, Reuse, channel
<1>2. Taken' /\ pc' \in {"accepted", "rejected", "reused"}
  BY <1>1 DEF Taken
<1> QED
  BY <1>1, <1>2 DEF IInv, Turns, Documents, Fetched, Understood

(* A source does not answer; the next one is asked.                         *)
LEMMA UnreachableKeeps == IInv /\ Unreachable => IInv'
BY FailsKeeps DEF Unreachable

(* An action keeps the invariant, whatever the feeds and servers say.       *)
LEMMA NextInv == IInv /\ [Next]_vars => IInv'
<1>1. CASE UNCHANGED vars
  <2>1. UNCHANGED << pc, sources, turn, error, now, docs, body, feed, release >>
    BY <1>1 DEF vars
  <2>2. UNCHANGED << config, published, file >>
    BY <1>1 DEF vars
  <2>3. UNCHANGED << Accepted, Checked >>
    BY <2>2
    DEF Accepted, Checked, SkipsAll, Precheck, Fetchable, SumPasses, Ed25519Passes,
        MinisignPasses, SignatureChecked, RequiresSignature, RequiresChecksum,
        MinisignInReach, Ed25519InReach, FetchesSum, FetchesMinisign, SumKnown,
        MinisignKnown, NamesVersion
  <2>4. IInv => Taken'
    BY <2>1, <2>3 DEF IInv, Taken
  <2> QED
    BY <2>1, <2>4 DEF IInv, Turns, Documents, Fetched, Understood
<1> QED
  BY <1>1, PublishKeeps, TickKeeps, UnreachableKeeps, AskGitHubKeeps, AskAppcastKeeps,
     FetchBodyKeeps, FetchSignatureKeeps, CheckExpiryKeeps, ParseKeeps, PickKeeps,
     CheckKeeps, TakesKeeps
  DEF Next

------------------------------------------------------------------------------
(* The theorems.                                                            *)

(* In every reachable state: the error to report is the primary's, the      *)
(* manifests that were published are in order, and what was read, answered  *)
(* and taken is what the sources and the policy make of it.                 *)
THEOREM Invariance == Spec => []IInv
<1> QED
  BY InitInv, NextInv, PTL DEF Spec

(* What the invariant says of answers makes them the newest offer,          *)
LEMMA OffersNewestInv == IInv => OffersNewest
<1> SUFFICES ASSUME IInv PROVE OffersNewest
  OBVIOUS
<1>1. pc = "failed" => error.by = 1
  BY DEF IInv, Turns
<1>2. ASSUME pc = "answered", feed.kind = "github"
      PROVE  \E i \in DOMAIN feed.list :
               /\ ~Unwanted(feed.list[i], feed.settings)
               /\ release.version = feed.list[i].tag
               /\ \A j \in 1 .. (i - 1) : Unwanted(feed.list[j], feed.settings)
  <2>1. /\ feed.list \in Lists /\ feed.settings \in GitHubClients
        /\ release = GitHub!FetchLatest(feed.list, feed.settings) /\ release.error = None
    BY <1>2 DEF IInv, Understood, Answer
  <2> QED
    BY <2>1, GitHubAnswer
<1>3. ASSUME pc = "answered", feed.kind = "appcast"
      PROVE  /\ \E i \in DOMAIN feed.items :
                  /\ Appcast!Offers(Appcast!ReadItem(feed.items[i]), feed.client)
                  /\ release = Appcast!Candidate(Appcast!ReadItem(feed.items[i]), feed.client)
             /\ \A i \in DOMAIN feed.items :
                  Appcast!Offers(Appcast!ReadItem(feed.items[i]), feed.client) =>
                    Appcast!Candidate(Appcast!ReadItem(feed.items[i]), feed.client).version
                      <= release.version
  <2>1. /\ feed.items \in Appcasts /\ feed.client \in Clients
        /\ release = Appcast!FetchLatest(feed.items, feed.client) /\ release.error = None
    BY <1>3 DEF IInv, Understood, Answer
  <2> QED
    BY <2>1, AppcastAnswer
<1> QED
  BY <1>1, <1>2, <1>3 DEF OffersNewest, Unwanted

(* Whatever a repository or an appcast lists, the newest release for this   *)
(* client is offered; and when no source answers, the primary's error is    *)
(* reported.                                                                *)
THEOREM NewestOffered == Spec => []OffersNewest
<1> QED
  BY Invariance, OffersNewestInv, PTL

(* files that belong together,                                              *)
LEMMA AnswerFitsInv == IInv => AnswerFits
<1> SUFFICES ASSUME IInv, pc = "answered" PROVE AnswerFits
  BY DEF AnswerFits
<1>1. Answer(feed, release)
  BY DEF IInv, Understood
<1>2. CASE feed.kind = "github"
  <2>1. /\ feed.list \in Lists /\ feed.settings \in GitHubClients
        /\ release = GitHub!FetchLatest(feed.list, feed.settings) /\ release.error = None
    BY <1>1, <1>2 DEF Answer
  <2>2. /\ release.asset.of = "mine" /\ release.asset.part \in {"package", "minisig"}
        /\ \A d \in release.deltas : \E r \in ToSet(feed.list) : FoundIn(d, r) /\ ~r.draft
    BY <2>1, GitHubAnswer
  <2> QED
    BY <1>2, <2>2 DEF AnswerFits, FoundIn
<1>3. CASE feed.kind = "appcast"
  <2>1. /\ feed.items \in Appcasts /\ feed.client \in Clients
        /\ release = Appcast!FetchLatest(feed.items, feed.client) /\ release.error = None
    BY <1>1, <1>3 DEF Answer
  <2>2. release.asset.os \in OsFor[feed.client.os]
    BY <2>1, AppcastAnswer
  <2> QED
    BY <1>3, <2>2 DEF AnswerFits, OsFor
<1>4. CASE feed.kind = "manifest"
  <2>1. /\ feed.tree \in Trees /\ release.error = None
        /\ release = Static!Read(feed.version, AssetsOf(feed.tree), feed.selector)
    BY <1>1, <1>4 DEF Answer, Written
  <2>2. PICK f \in Files(feed.tree) :
          /\ Delivers(release, f, feed.tree)
          /\ Static!AssetMatches(Asset(f, feed.tree), feed.selector)
    BY <2>1, ManifestAnswer
  <2>3. /\ feed.selector.os # None => release.asset.os = feed.selector.os
        /\ feed.selector.arch # None => release.asset.arch = feed.selector.arch
    BY <2>2
    DEF Delivers, Asset, Static!ManifestAsset, Static!AssetMatches, Static!FieldMatches
  <2>4. \A d \in release.deltas : d.of = release.asset.name /\ d.from # Bad
    BY <2>2 DEF Delivers
  <2> QED
    BY <1>4, <2>3, <2>4 DEF AnswerFits
<1> QED
  BY <1>1, <1>2, <1>3, <1>4 DEF Answer

(* What would be downloaded is a file for this system, and the deltas that  *)
(* come with it rebuild it, for every feed and every client.                *)
THEOREM AnswersFit == Spec => []AnswerFits
<1> QED
  BY Invariance, AnswerFitsInv, PTL

(* and served to every required target;                                     *)
LEMMA TargetsAreServedInv == IInv => TargetsAreServed
<1> SUFFICES ASSUME IInv, pc = "parsed", NEW t \in feed.tree.opt.required
             PROVE  LET answer(format) ==
                          Static!Read(feed.version, Listing,
                            [os |-> t.os, arch |-> t.arch, format |-> format,
                             pattern |-> None])
                        answers == {answer(asset.format) : asset \in Listing}
                        found   == {a \in answers : a.error = None}
                    IN  /\ found # {}
                        /\ \A a \in found :
                             /\ \A d \in feed.tree.deltas :
                                  d.asset = a.asset.name /\ d.from # Bad =>
                                    \E e \in a.deltas : e.from = d.from
                             /\ feed.tree.opt.signatures = "Required" =>
                                  \A f \in {a} \union a.deltas : f.published.minisign # "none"
  BY DEF TargetsAreServed
<1> DEFINE answers == {Static!Read(feed.version, AssetsOf(feed.tree), Asked(t, asset.format)) :
                         asset \in AssetsOf(feed.tree)}
           found   == {a \in answers : a.error = None}
<1>1. Written(feed.tree)
  BY DEF IInv, Understood
<1>2. found # {}
  BY <1>1, TargetServed DEF Written
<1>3. ASSUME NEW a \in found
      PROVE  /\ \A d \in feed.tree.deltas :
                  d.asset = a.asset.name /\ d.from # Bad =>
                    \E e \in a.deltas : e.from = d.from
             /\ feed.tree.opt.signatures = "Required" =>
                  \A f \in {a} \union a.deltas : f.published.minisign # "none"
  <2>1. PICK asset \in AssetsOf(feed.tree) :
          a = Static!Read(feed.version, AssetsOf(feed.tree), Asked(t, asset.format))
    OBVIOUS
  <2>2. a.error = None
    OBVIOUS
  <2>3. PICK f \in Files(feed.tree) : Delivers(a, f, feed.tree)
    BY <1>1, <2>1, <2>2, ManifestAnswer DEF Written
  <2>4. feed.tree.opt.signatures = "Required" =>
          /\ Static!Metadata(f, feed.tree.opt).minisign # "none"
          /\ \A d \in feed.tree.deltas : d.asset = f.name =>
               Static!Metadata(d, feed.tree.opt).minisign # "none"
    BY <1>1, ListedIsSigned DEF Written
  <2> QED
    BY <2>3, <2>4 DEF Delivers
<1>4. Listing = AssetsOf(feed.tree)
  BY DEF Listing, AssetsOf
<1> QED
  BY <1>2, <1>3, <1>4 DEF Asked

(* Every directory that build accepts serves the targets it was built for,  *)
(* with the deltas and the signatures that were asked for.                  *)
THEOREM TargetsServed == Spec => []TargetsAreServed
<1> QED
  BY Invariance, TargetsAreServedInv, PTL

(* and what was taken passed what the policy asks for.                      *)
LEMMA PolicyHoldsInv == IInv => PolicyHolds
<1> SUFFICES ASSUME IInv, pc \in {"accepted", "reused"} PROVE PolicyHolds
  BY DEF PolicyHolds
<1>1. Accepted /\ (pc = "reused" => SumKnown \/ SignatureChecked)
  BY DEF IInv, Taken, Checked
<1>2. RequiresSignature =>
        \/ config.minisign_keys /\ file.minisigned
        \/ config.ed25519_key /\ file.ed25519_signed
  BY <1>1
  DEF Accepted, SkipsAll, RequiresSignature, SignatureChecked, MinisignPasses, Ed25519Passes,
      MinisignKnown, Ed25519InReach
<1>3. RequiresChecksum => file.matches_sum
  BY <1>1 DEF Accepted, SkipsAll, RequiresChecksum, SumPasses
<1>4. ~SkipsAll =>
        /\ SumKnown => file.matches_sum
        /\ Ed25519InReach => file.ed25519_signed
        /\ MinisignKnown => file.minisigned /\ file.names # "another version"
        /\ MinisignKnown /\ config.binding = "Required" => file.names = "this version"
  BY <1>1 DEF Accepted, SumPasses, Ed25519Passes, MinisignPasses, NamesVersion
<1>5. pc = "reused" => SumKnown \/ Ed25519InReach \/ MinisignKnown
  BY <1>1 DEF SignatureChecked
<1> QED
  BY <1>2, <1>3, <1>4, <1>5 DEF PolicyHolds

(* Under every policy, what is accepted or reused passed every check that   *)
(* could be made and every one that is required.                            *)
THEOREM PolicyKept == Spec => []PolicyHolds
<1> QED
  BY Invariance, PolicyHoldsInv, PTL

(* A manifest that says when it expires is trusted only while no newer one  *)
(* was published a lifetime ago, whatever is replayed.                      *)
THEOREM Fresh == Spec => FreshEnough
<1> DEFINE Trusts ==
             (pc' = "trusted" /\ pc # "trusted" /\ body.expires # None) =>
               \A d \in ToSet(docs) : d.version > body.version => now - d.at < Lifetime
<1>1. IInv /\ [Next]_vars => Trusts
  <2> SUFFICES ASSUME IInv, [Next]_vars, pc' = "trusted", pc # "trusted",
                      body.expires # None,
                      NEW d \in ToSet(docs), d.version > body.version
               PROVE  now - d.at < Lifetime
    OBVIOUS
  <2>1. CheckExpiry
    BY DEF Next, vars, Publish, Tick, Unreachable, AskGitHub, AskAppcast, FetchBody,
           FetchSignature, Parse, Pick, Check, Download, Reuse, Fails, Answers, Pending, Asking
  <2>2. pc = "expiry" /\ body.expires # Bad /\ now < body.expires
    BY <2>1 DEF CheckExpiry, Static!Unexpired, Fails
  <2>3. PICK i \in DOMAIN docs : body = docs[i]
    BY <2>2 DEF IInv, Fetched, ToSet
  <2>4. PICK j \in DOMAIN docs : d = docs[j]
    BY DEF ToSet
  <2>5. History(docs, now)
    BY DEF IInv, Documents
  <2>6. \A k \in DOMAIN docs : k \in Nat /\ docs[k] \in Manifest
    BY <2>5 DEF History
  <2>7. /\ d.version \in Nat /\ body.version \in Nat /\ d.at \in Nat /\ body.at \in Nat
        /\ now \in Nat
    BY <2>3, <2>4, <2>5, <2>6, NumbersAssumption DEF Manifest, History
  <2>8. now < body.at + Lifetime
    BY <2>2, <2>3, <2>5 DEF History
  <2>9. i < j
    <3>1. CASE i = j
      BY <3>1, <2>3, <2>4, <2>7
    <3>2. CASE j < i
      BY <3>2, <2>3, <2>4, <2>5, <2>7 DEF History
    <3> QED
      BY <2>6, <3>1, <3>2
  <2>10. body.at <= d.at
    BY <2>3, <2>4, <2>5, <2>9 DEF History
  <2> QED
    BY <2>7, <2>8, <2>10, LifetimeAssumption
<1>2. IInv /\ [Next]_vars => [Trusts]_vars
  BY <1>1
<1> HIDE DEF Trusts
<1>3. Spec => [][Trusts]_vars
  BY Invariance, <1>2, PTL DEF Spec
<1> QED
  BY <1>3 DEF FreshEnough, Trusts

==============================================================================
