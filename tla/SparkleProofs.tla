---------------------------- MODULE SparkleProofs ----------------------------
(***************************************************************************)
(* For any versions and any bound of the channel: once the events that     *)
(* wait are applied, the view shows what Sparkle's last session came to,   *)
(* offers what the feed spoke of last; and at any time `restart` relaunches*)
(* into the update that was reported last.                                 *)
(*                                                                         *)
(* The entity lags behind Sparkle, so the invariant is not about what it   *)
(* shows but about what it will show: the last event that offers anything, *)
(* the last one that shows anything, and whether a `Settled` comes after   *)
(* it, tell what is left when the channel is empty.                        *)
(***************************************************************************)
EXTENDS SparkleUpdater, TLAPS, SequenceTheorems

(* The last event of q with one of the tags in T.                           *)
NoneIn(q, T) == \A i \in 1 .. Len(q) : q[i].tag \notin T
IsLast(q, i, T) ==
  /\ i \in 1 .. Len(q)
  /\ q[i].tag \in T
  /\ \A j \in 1 .. Len(q) : j > i => q[j].tag \notin T

Offers == {"Found", "UpToDate"}
Shows == {"Checking", "UpToDate", "Downloading", "Installing", "Failed", "Found",
          "ReadyToRelaunch"}

Offered(e) == IF e.tag = "UpToDate" THEN None ELSE e.version

(* The offer is a now, and v when q has been applied.                       *)
OfferAfter(a, q, v) ==
  /\ NoneIn(q, Offers) => a = v
  /\ \A i \in 1 .. Len(q) : IsLast(q, i, Offers) => Offered(q[i]) = v

Shown(e) ==
  IF e.tag = "Found" THEN Release("Available", e.version)
  ELSE IF e.tag = "ReadyToRelaunch" THEN Release("Staged", e.version)
  ELSE IF e.tag = "Failed" THEN Show("Errored")
  ELSE Show(e.tag)

IsBusy(w) == w.tag \in {"Checking", "Downloading", "Installing"}

SettledTo(w, v) ==
  IF ~IsBusy(w) THEN w
  ELSE IF v = None THEN Show("Idle") ELSE Release("Available", v)

(* The status is w now, and in W when q has been applied, with v on offer.  *)
EndsIn(w, q, v, W) ==
  /\ NoneIn(q, Shows) => (IF q = << >> THEN w ELSE SettledTo(w, v)) \in W
  /\ \A i \in 1 .. Len(q) :
       IsLast(q, i, Shows) =>
         (IF i = Len(q) THEN Shown(q[i]) ELSE SettledTo(Shown(q[i]), v)) \in W

(* The statuses that fit how far Sparkle is.                                *)
Fits(w) ==
  /\ session \in {"absent", "unstarted", "idle"} =>
       /\ ~IsBusy(w)
       /\ outcome = "failed" => w = Show("Errored")
       /\ outcome = "nothing" => w = Show("UpToDate")
       /\ item \in Version /\ outcome = "staged" => w = Release("Staged", item)
       /\ item \in Version /\ outcome = "declined" => w = Release("Available", item)
  /\ session = "nothing" => w = Show("UpToDate")
  /\ session \in {"downloading", "extracting"} => IsBusy(w)
  /\ item \in Version =>
       /\ session \in {"found", "cancelled"} => w = Release("Available", item)
       /\ session \in {"ready", "installing"} =>
            SettledTo(w, item) = Release("Available", item)
       /\ session = "held" => w = Release("Staged", item)

Fit == {w \in Status : Fits(w)}

(* What a session has found is what it, and nobody after it, reported.      *)
ItemInSession ==
  /\ session \in {"checking", "nothing"} => item = None
  /\ session \in {"found", "downloading", "cancelled", "extracting", "held"} => item \in Item
  /\ session \notin {"absent", "unstarted", "idle"} /\ item \in Version => answer = item

Ahead ==
  alive =>
    /\ OfferAfter(available, queue, answer)
    /\ EndsIn(status, queue, answer, Fit)
    /\ status.tag = "Available" => status.version = available

SInv == TypeOK /\ ItemInSession /\ Ahead

------------------------------------------------------------------------------
(* The channel.                                                             *)

(* Emitting an event.                                                       *)
LEMMA LastOfAppend ==
  ASSUME NEW q \in Seq(Event), NEW e \in Event, NEW T
  PROVE  /\ Append(q, e) \in Seq(Event) /\ Len(Append(q, e)) = Len(q) + 1
         /\ Append(q, e) # << >>
         /\ \A i \in 1 .. Len(q) : Append(q, e)[i] = q[i]
         /\ Append(q, e)[Len(q) + 1] = e
         /\ NoneIn(Append(q, e), T) <=> NoneIn(q, T) /\ e.tag \notin T
         /\ \A i \in 1 .. Len(q) + 1 :
              IsLast(Append(q, e), i, T) <=>
                IF e.tag \in T THEN i = Len(q) + 1 ELSE IsLast(q, i, T)
  <1> DEFINE p == Append(q, e)
             n == Len(q)
  <1>1. /\ p \in Seq(Event) /\ Len(p) = n + 1 /\ n \in Nat
        /\ p # << >>
        /\ \A i \in 1 .. n : p[i] = q[i]
        /\ p[n + 1] = e
    <2>1. n \in Nat /\ p \in Seq(Event) /\ Len(p) = n + 1
      OBVIOUS
    <2>2. p # << >>
      BY <2>1
    <2> QED
      BY <2>1, <2>2
  <1> HIDE DEF p, n
  <1>2. \A i \in 1 .. n + 1 : i \in 1 .. n \/ i = n + 1
    BY <1>1
  <1>3. NoneIn(p, T) <=> NoneIn(q, T) /\ e.tag \notin T
    BY <1>1, <1>2 DEF NoneIn, n
  <1>4. \A i \in 1 .. n + 1 :
          IsLast(p, i, T) <=> IF e.tag \in T THEN i = n + 1 ELSE IsLast(q, i, T)
    <2>1. CASE e.tag \in T
      BY <1>1, <2>1 DEF IsLast
    <2>2. CASE e.tag \notin T
      BY <1>1, <1>2, <2>2 DEF IsLast, n
    <2> QED
      BY <2>1, <2>2
  <1> QED
    BY <1>1, <1>3, <1>4 DEF p, n

(* Taking the event that is next.                                           *)
LEMMA LastOfTail ==
  ASSUME NEW q \in Seq(Event), q # << >>, NEW T
  PROVE  /\ Tail(q) \in Seq(Event) /\ Len(q) = Len(Tail(q)) + 1 /\ Len(Tail(q)) \in Nat
         /\ Head(q) = q[1] /\ Head(q) \in Event
         /\ \A i \in 1 .. Len(Tail(q)) : Tail(q)[i] = q[i + 1] /\ i + 1 \in 1 .. Len(q)
         /\ NoneIn(q, T) <=> NoneIn(Tail(q), T) /\ Head(q).tag \notin T
         /\ \A i \in 1 .. Len(Tail(q)) : IsLast(Tail(q), i, T) => IsLast(q, i + 1, T)
         /\ NoneIn(Tail(q), T) /\ Head(q).tag \in T => IsLast(q, 1, T)
  <1> DEFINE p == Tail(q)
             n == Len(p)
  <1>1. /\ p \in Seq(Event) /\ Len(q) = n + 1 /\ n \in Nat
        /\ Head(q) = q[1] /\ Head(q) \in Event
        /\ \A i \in 1 .. n : p[i] = q[i + 1]
    <2>1. Len(q) \in Nat /\ Len(q) # 0
      OBVIOUS
    <2>2. p \in Seq(Event) /\ n = Len(q) - 1
      BY <2>1
    <2>3. \A i \in 1 .. n : p[i] = q[i + 1]
      BY <2>1, <2>2
    <2>4. Head(q) = q[1] /\ q[1] \in Event
      BY <2>1
    <2> QED
      BY <2>1, <2>2, <2>3, <2>4
  <1> HIDE DEF p
  <1>2. \A i \in 1 .. n + 1 : i = 1 \/ i - 1 \in 1 .. n
    BY <1>1
  <1>3. \A i \in 1 .. n + 1 : i # 1 => q[i] = p[i - 1]
    BY <1>1, <1>2
  <1>4. NoneIn(q, T) <=> NoneIn(p, T) /\ q[1].tag \notin T
    <2>1. ASSUME NoneIn(q, T) PROVE NoneIn(p, T) /\ q[1].tag \notin T
      <3>1. 1 \in 1 .. n + 1 /\ \A i \in 1 .. n : i + 1 \in 1 .. n + 1
        BY <1>1
      <3> QED
        BY <1>1, <2>1, <3>1 DEF NoneIn
    <2>2. ASSUME NoneIn(p, T), q[1].tag \notin T PROVE NoneIn(q, T)
      <3> SUFFICES ASSUME NEW i \in 1 .. n + 1 PROVE q[i].tag \notin T
        BY <1>1 DEF NoneIn
      <3>1. CASE i = 1
        BY <2>2, <3>1
      <3>2. CASE i # 1
        BY <1>2, <1>3, <2>2, <3>2 DEF NoneIn
      <3> QED
        BY <3>1, <3>2
    <2> QED
      BY <2>1, <2>2
  <1>5. ASSUME NEW i \in 1 .. n, IsLast(p, i, T) PROVE IsLast(q, i + 1, T)
    <2>1. i + 1 \in 1 .. n + 1 /\ q[i + 1].tag \in T
      BY <1>1, <1>5 DEF IsLast
    <2>2. ASSUME NEW j \in 1 .. n + 1, j > i + 1 PROVE q[j].tag \notin T
      <3>1. j - 1 \in 1 .. n /\ j - 1 > i /\ q[j] = p[j - 1]
        BY <1>1, <1>2, <1>3, <2>2
      <3> QED
        BY <1>5, <3>1 DEF IsLast
    <2> QED
      BY <1>1, <2>1, <2>2 DEF IsLast
  <1>6. NoneIn(p, T) /\ q[1].tag \in T => IsLast(q, 1, T)
    BY <1>1, <1>2, <1>3 DEF IsLast, NoneIn
  <1> QED
    BY <1>1, <1>4, <1>5, <1>6 DEF p

(* Events and what they show.                                               *)
LEMMA EventType ==
  ASSUME NEW e \in Event
  PROVE  /\ e.tag \in Shows \/ e.tag = "Settled"
         /\ e.tag = "Settled" => e = Show("Settled")
         /\ e.tag \in Shows => Shown(e) \in Status
         /\ e.tag \in Offers => Offered(e) \in Version \cup {None}
  BY DEF Event, Shows, Shown, Show, Release, Status, Offers, Offered

(* What settling a status gives.                                            *)
LEMMA SettledType ==
  ASSUME NEW w \in Status, NEW v \in Version \cup {None}
  PROVE  /\ SettledTo(w, v) \in Status
         /\ ~IsBusy(SettledTo(w, v))
         /\ SettledTo(w, v).tag = "Staged" => SettledTo(w, v) = w
         /\ IsBusy(w) /\ v \in Version => SettledTo(w, v) = Release("Available", v)
         /\ ~IsBusy(w) => SettledTo(w, v) = w
  BY ValueAssumption DEF SettledTo, IsBusy, Status, Show, Release

(* Emitting changes the offer to come if it is an offer.                    *)
LEMMA OfferAppend ==
  ASSUME NEW a, NEW q \in Seq(Event), NEW v, NEW e \in Event, NEW w,
         OfferAfter(a, q, v),
         IF e.tag \in Offers THEN Offered(e) = w ELSE v = w
  PROVE  OfferAfter(a, Append(q, e), w)
  <1> DEFINE p == Append(q, e)
  <1>1. /\ NoneIn(p, Offers) <=> NoneIn(q, Offers) /\ e.tag \notin Offers
        /\ Len(p) = Len(q) + 1 /\ Len(q) \in Nat /\ p[Len(q) + 1] = e
        /\ \A i \in 1 .. Len(q) : p[i] = q[i]
        /\ \A i \in 1 .. Len(q) + 1 :
             IsLast(p, i, Offers) <=>
               IF e.tag \in Offers THEN i = Len(q) + 1 ELSE IsLast(q, i, Offers)
    BY LastOfAppend
  <1> HIDE DEF p
  <1>2. ASSUME NEW i \in 1 .. Len(p), IsLast(p, i, Offers) PROVE Offered(p[i]) = w
    <2>1. CASE e.tag \in Offers
      BY <1>1, <1>2, <2>1
    <2>2. CASE e.tag \notin Offers
      BY <1>1, <1>2, <2>2 DEF OfferAfter, IsLast
    <2> QED
      BY <2>1, <2>2
  <1>3. NoneIn(p, Offers) => a = w
    BY <1>1 DEF OfferAfter
  <1>4. OfferAfter(a, p, w)
    BY <1>2, <1>3 DEF OfferAfter
  <1> QED
    BY <1>4 DEF p

(* Applying an event leaves the offer to come as it was.                    *)
LEMMA OfferTail ==
  ASSUME NEW a, NEW q \in Seq(Event), q # << >>, NEW v, OfferAfter(a, q, v)
  PROVE  OfferAfter(IF Head(q).tag \in Offers THEN Offered(Head(q)) ELSE a, Tail(q), v)
  <1> DEFINE p == Tail(q)
             h == Head(q)
             b == IF h.tag \in Offers THEN Offered(h) ELSE a
  <1>1. /\ Len(q) = Len(p) + 1 /\ Len(p) \in Nat /\ h = q[1]
        /\ \A i \in 1 .. Len(p) : p[i] = q[i + 1] /\ i + 1 \in 1 .. Len(q)
        /\ NoneIn(q, Offers) <=> NoneIn(p, Offers) /\ h.tag \notin Offers
        /\ \A i \in 1 .. Len(p) : IsLast(p, i, Offers) => IsLast(q, i + 1, Offers)
        /\ NoneIn(p, Offers) /\ h.tag \in Offers => IsLast(q, 1, Offers)
    BY LastOfTail
  <1> HIDE DEF p, h
  <1>2. ASSUME NoneIn(p, Offers) PROVE b = v
    <2>1. CASE h.tag \in Offers
      <3>1. 1 \in 1 .. Len(q)
        BY <1>1
      <3> QED
        BY <1>1, <1>2, <2>1, <3>1 DEF OfferAfter
    <2>2. CASE h.tag \notin Offers
      BY <1>1, <1>2, <2>2 DEF OfferAfter
    <2> QED
      BY <2>1, <2>2
  <1>3. ASSUME NEW i \in 1 .. Len(p), IsLast(p, i, Offers) PROVE Offered(p[i]) = v
    BY <1>1, <1>3 DEF OfferAfter
  <1>4. OfferAfter(b, p, v)
    <2> HIDE DEF b
    <2> QED
      BY <1>2, <1>3 DEF OfferAfter
  <1> QED
    BY <1>4 DEF p, h

(* An event that shows something is what the view ends with.                *)
LEMMA EndsWithShown ==
  ASSUME NEW w, NEW q \in Seq(Event), NEW v, NEW W, NEW e \in Event,
         e.tag \in Shows, Shown(e) \in W
  PROVE  EndsIn(w, Append(q, e), v, W)
  <1> DEFINE p == Append(q, e)
  <1>1. /\ ~NoneIn(p, Shows) /\ Len(p) = Len(q) + 1
        /\ \A i \in 1 .. Len(q) + 1 : IsLast(p, i, Shows) => i = Len(q) + 1
        /\ p[Len(q) + 1] = e
    BY LastOfAppend
  <1> HIDE DEF p
  <1>2. EndsIn(w, p, v, W)
    BY <1>1 DEF EndsIn
  <1> QED
    BY <1>2 DEF p

(* A `Settled` settles what the view would have ended with.                 *)
LEMMA EndsSettled ==
  ASSUME NEW w \in Status, NEW q \in Seq(Event), NEW v \in Version \cup {None},
         NEW V, NEW W,
         EndsIn(w, q, v, V), \A x \in Status : x \in V => SettledTo(x, v) \in W
  PROVE  EndsIn(w, Append(q, Show("Settled")), v, W)
  <1> DEFINE e == Show("Settled")
             p == Append(q, e)
  <1>0. e \in Event /\ e.tag = "Settled" /\ e.tag \notin Shows
    BY DEF Event, Show, Shows
  <1>1. /\ NoneIn(p, Shows) <=> NoneIn(q, Shows)
        /\ Len(p) = Len(q) + 1 /\ Len(q) \in Nat /\ p # << >>
        /\ \A i \in 1 .. Len(q) + 1 : IsLast(p, i, Shows) <=> IsLast(q, i, Shows)
        /\ \A i \in 1 .. Len(q) : p[i] = q[i] /\ q[i] \in Event
    BY <1>0, LastOfAppend
  <1> HIDE DEF p, e
  <1>2. ASSUME NEW x \in Status, x \in V \/ SettledTo(x, v) \in V PROVE SettledTo(x, v) \in W
    <2>1. SettledTo(SettledTo(x, v), v) = SettledTo(x, v) /\ SettledTo(x, v) \in Status
      BY SettledType
    <2> QED
      BY <1>2, <2>1
  <1>3. ASSUME NoneIn(p, Shows) PROVE SettledTo(w, v) \in W
    BY <1>1, <1>2, <1>3 DEF EndsIn
  <1>4. ASSUME NEW i \in 1 .. Len(p), IsLast(p, i, Shows)
        PROVE  i # Len(p) /\ SettledTo(Shown(p[i]), v) \in W
    <2>1. IsLast(q, i, Shows) /\ i \in 1 .. Len(q) /\ p[i] = q[i] /\ q[i].tag \in Shows
      BY <1>1, <1>4 DEF IsLast
    <2>2. Shown(q[i]) \in Status
      BY <1>1, <2>1, EventType
    <2> QED
      BY <1>1, <1>2, <2>1, <2>2 DEF EndsIn
  <1>5. EndsIn(w, p, v, W)
    BY <1>1, <1>3, <1>4 DEF EndsIn
  <1> QED
    BY <1>5 DEF p, e

(* What the view ends with may be known less precisely.                     *)
LEMMA EndsWeaken ==
  ASSUME NEW w \in Status, NEW q \in Seq(Event), NEW v \in Version \cup {None}, NEW V, NEW W,
         EndsIn(w, q, v, V), \A x \in Status : x \in V => x \in W
  PROVE  EndsIn(w, q, v, W)
  <1>1. SettledTo(w, v) \in Status
    BY SettledType
  <1>2. ASSUME NEW i \in 1 .. Len(q), IsLast(q, i, Shows)
        PROVE  Shown(q[i]) \in Status /\ SettledTo(Shown(q[i]), v) \in Status
    BY <1>2, EventType, SettledType DEF IsLast
  <1> QED
    BY <1>1, <1>2 DEF EndsIn

(* Applying an event leaves what the view ends with as it was.              *)
LEMMA EndsTail ==
  ASSUME NEW w \in Status, NEW a, NEW q \in Seq(Event), q # << >>,
         NEW v \in Version \cup {None}, NEW W,
         OfferAfter(a, q, v), EndsIn(w, q, v, W)
  PROVE  EndsIn(IF Head(q).tag = "Settled" THEN SettledTo(w, a) ELSE Shown(Head(q)),
                Tail(q), v, W)
  <1> DEFINE p == Tail(q)
             h == Head(q)
             x == IF h.tag = "Settled" THEN SettledTo(w, a) ELSE Shown(h)
  <1>1. /\ Len(q) = Len(p) + 1 /\ Len(p) \in Nat /\ h = q[1] /\ h \in Event
        /\ p \in Seq(Event)
        /\ \A i \in 1 .. Len(p) : p[i] = q[i + 1] /\ i + 1 \in 1 .. Len(q)
        /\ NoneIn(q, Shows) <=> NoneIn(p, Shows) /\ h.tag \notin Shows
        /\ \A i \in 1 .. Len(p) : IsLast(p, i, Shows) => IsLast(q, i + 1, Shows)
        /\ NoneIn(p, Shows) /\ h.tag \in Shows => IsLast(q, 1, Shows)
    BY LastOfTail
  <1> HIDE DEF h
  <1>2. p = << >> <=> Len(q) = 1
    BY <1>1
  <1> HIDE DEF p
  <1>3. ASSUME NoneIn(p, Shows)
        PROVE  (IF p = << >> THEN x ELSE SettledTo(x, v)) \in W
    <2>1. CASE h.tag \in Shows
      <3>1. x = Shown(h) /\ 1 \in 1 .. Len(q) /\ IsLast(q, 1, Shows)
        BY <1>1, <1>3, <2>1 DEF Shows
      <3>2. (IF Len(q) = 1 THEN Shown(h) ELSE SettledTo(Shown(h), v)) \in W
        BY <1>1, <3>1 DEF EndsIn
      <3> HIDE DEF x
      <3> QED
        BY <1>2, <3>1, <3>2
    <2>2. CASE h.tag \notin Shows
      <3>1. h.tag = "Settled" /\ NoneIn(q, Shows) /\ NoneIn(q, Offers)
        BY <1>1, <1>3, <2>2, EventType DEF NoneIn, Offers, Shows
      <3>2. x = SettledTo(w, v) /\ x \in W
        BY <3>1 DEF OfferAfter, EndsIn
      <3>3. SettledTo(x, v) = x
        BY <3>2, SettledType
      <3> HIDE DEF x
      <3> QED
        BY <3>2, <3>3
    <2> QED
      BY <2>1, <2>2
  <1>4. ASSUME NEW i \in 1 .. Len(p), IsLast(p, i, Shows)
        PROVE  (IF i = Len(p) THEN Shown(p[i]) ELSE SettledTo(Shown(p[i]), v)) \in W
    <2>1. IsLast(q, i + 1, Shows) /\ i + 1 \in 1 .. Len(q) /\ p[i] = q[i + 1]
          /\ (i = Len(p) <=> i + 1 = Len(q))
      BY <1>1, <1>4
    <2> QED
      BY <2>1 DEF EndsIn
  <1>5. EndsIn(x, p, v, W)
    <2> HIDE DEF x
    <2> QED
      BY <1>3, <1>4 DEF EndsIn
  <1> QED
    BY <1>5 DEF p, h

(* What emitting puts in the channel.                                       *)
LEMMA EmitNone ==
  ASSUME queue \in Seq(Event), Emit(<< >>)
  PROVE  queue' = queue
  BY DEF Emit

(* One event goes to the end of the channel.                                *)
LEMMA EmitOne ==
  ASSUME queue \in Seq(Event), NEW e \in Event, Emit(<< e >>)
  PROVE  /\ queue' = Append(queue, e) /\ queue' \in Seq(Event)
         /\ Len(queue') <= MaxQueue
  <1>1. queue' = queue \o << e >> /\ Len(queue) + 1 <= MaxQueue /\ Len(queue) \in Nat
    BY DEF Emit
  <1>2. Append(queue, e) \in Seq(Event) /\ Len(Append(queue, e)) = Len(queue) + 1
    BY LastOfAppend
  <1>3. queue \o << e >> = Append(queue, e)
    OBVIOUS
  <1> QED
    BY <1>1, <1>2, <1>3

(* Two events go there in the order they were emitted in.                   *)
LEMMA EmitTwo ==
  ASSUME queue \in Seq(Event), NEW e \in Event, NEW f \in Event, Emit(<< e >> \o << f >>)
  PROVE  /\ queue' = Append(Append(queue, e), f) /\ queue' \in Seq(Event)
         /\ Append(queue, e) \in Seq(Event) /\ Len(queue') <= MaxQueue
  <1>1. << e >> \in Seq(Event) /\ << f >> \in Seq(Event) /\ Len(<< e >>) = 1 /\ Len(<< f >>) = 1
    OBVIOUS
  <1>2. Len(<< e >> \o << f >>) = 2
    BY <1>1, ConcatProperties
  <1>3. queue \o (<< e >> \o << f >>) = (queue \o << e >>) \o << f >>
    BY <1>1, ConcatAssociative
  <1>4. queue \o << e >> = Append(queue, e)
    OBVIOUS
  <1>5. /\ Append(queue, e) \in Seq(Event) /\ Len(Append(queue, e)) = Len(queue) + 1
        /\ Append(Append(queue, e), f) \in Seq(Event)
        /\ Len(Append(Append(queue, e), f)) = Len(queue) + 2 /\ Len(queue) \in Nat
    BY LastOfAppend
  <1>6. Append(queue, e) \o << f >> = Append(Append(queue, e), f)
    BY <1>5
  <1> QED
    BY <1>2, <1>3, <1>4, <1>5, <1>6 DEF Emit

------------------------------------------------------------------------------
(* What a step has to show.                                                 *)

(* A step that emits nothing.                                               *)
LEMMA SilentStep ==
  ASSUME SInv, UNCHANGED << alive, status, available, queue, answer >>,
         \A x \in Status : x \in Fit => x \in Fit'
  PROVE  Ahead'
  BY EndsWeaken DEF SInv, Ahead, TypeOK

(* A callback that shows something.                                         *)
LEMMA ShowingStep ==
  ASSUME SInv, UNCHANGED entity, NEW e \in Event, e.tag \in Shows,
         queue' = Append(queue, e), Shown(e) \in Fit',
         answer' = IF e.tag \in Offers THEN Offered(e) ELSE answer
  PROVE  Ahead'
  <1>1. queue \in Seq(Event)
    BY DEF SInv, TypeOK
  <1>2. EndsIn(status, queue', answer', Fit')
    BY <1>1, EndsWithShown
  <1>3. alive => OfferAfter(available, queue', answer')
    BY <1>1, OfferAppend DEF SInv, Ahead
  <1> QED
    BY <1>2, <1>3 DEF SInv, Ahead, entity

(* A callback that settles.                                                 *)
LEMMA SettlingStep ==
  ASSUME SInv, UNCHANGED entity, queue' = Append(queue, Show("Settled")), answer' = answer,
         \A x \in Status : x \in Fit => SettledTo(x, answer) \in Fit'
  PROVE  Ahead'
  <1>1. queue \in Seq(Event) /\ status \in Status /\ answer \in Version \cup {None}
    BY DEF SInv, TypeOK
  <1>2. Show("Settled") \in Event /\ Show("Settled").tag \notin Offers
    BY DEF Show, Event, Offers
  <1>3. ASSUME alive PROVE EndsIn(status, queue', answer', Fit')
    BY <1>1, <1>3, EndsSettled DEF SInv, Ahead
  <1>4. alive => OfferAfter(available, queue', answer')
    BY <1>1, <1>2, OfferAppend DEF SInv, Ahead
  <1> QED
    BY <1>3, <1>4 DEF SInv, Ahead, entity

------------------------------------------------------------------------------
(* The app's calls.                                                         *)

(* A new entity has nothing in its channel, or the failure to start         *)
(* Sparkle.                                                                 *)
LEMMA WithDriverInv == SInv /\ WithDriver => SInv'
  <1> SUFFICES ASSUME SInv, WithDriver PROVE SInv'
    OBVIOUS
  <1>1. TypeOK' /\ ItemInSession'
    <2>1. Show("Idle") \in Status /\ Show("Failed") \in Event
      BY DEF Show, Status, Event
    <2>2. queue' \in Seq(Event) /\ Len(queue') <= MaxQueue
      <3>1. /\ << >> \in Seq(Event) /\ Len(<< >>) = 0
            /\ << Show("Failed") >> \in Seq(Event) /\ Len(<< Show("Failed") >>) = 1
        BY <2>1
      <3>2. MaxQueue \in Nat /\ 0 <= MaxQueue /\ 1 <= MaxQueue
        BY QueueAssumption
      <3>3. queue' = << >> \/ queue' = << Show("Failed") >>
        BY DEF WithDriver
      <3> QED
        BY <3>1, <3>2, <3>3
    <2> QED
      BY <2>1, <2>2 DEF WithDriver, SInv, TypeOK, ItemInSession, Session, Outcome
  <1>2. CASE queue' = << >>
    <2>1. OfferAfter(available', queue', answer')
      BY <1>2 DEF WithDriver, OfferAfter
    <2>2. status' \in Fit' /\ status' \in Status
      BY <1>2 DEF WithDriver, Fit, Fits, Show, IsBusy, Status
    <2>3. EndsIn(status', queue', answer', Fit')
      BY <1>2, <2>2 DEF EndsIn
    <2> QED
      BY <1>1, <2>1, <2>3 DEF SInv, Ahead, WithDriver, Show
  <1>3. CASE queue' = << Show("Failed") >>
    <2>1. << Show("Failed") >> = Append(<< >>, Show("Failed")) /\ << >> \in Seq(Event)
      OBVIOUS
    <2>2. /\ Show("Failed") \in Event /\ Show("Failed").tag \in Shows
          /\ Show("Failed").tag \notin Offers
          /\ Shown(Show("Failed")) = Show("Errored")
      BY DEF Show, Event, Shows, Offers, Shown
    <2>3. Show("Errored") \in Fit'
      BY <1>3 DEF WithDriver, Fit, Fits, Show, IsBusy, Status
    <2>4. EndsIn(status', queue', answer', Fit')
      BY <1>3, <2>1, <2>2, <2>3, EndsWithShown
    <2>5. OfferAfter(None, << >>, None)
      BY DEF OfferAfter
    <2>6. OfferAfter(available', queue', answer')
      <3>1. available' = None /\ answer' = None
        BY DEF WithDriver
      <3> QED
        BY <1>3, <2>1, <2>2, <2>5, <3>1, OfferAppend
    <2> QED
      BY <1>1, <2>4, <2>6 DEF SInv, Ahead, WithDriver, Show
  <1> QED
    BY <1>2, <1>3 DEF WithDriver

(* A session that starts, from the app's call or from a schedule, has found *)
(* nothing yet.                                                             *)
LEMMA CheckStarts ==
  ASSUME SInv, CheckForUpdates, UNCHANGED << policy, block >>
  PROVE  /\ ItemInSession'
         /\ session' \in Session /\ item' \in Item \cup {None}
         /\ \A x \in Status : x \in Fit => x \in Fit'
         /\ UNCHANGED << staged, outcome, answer >>
  <1>1. CASE session = "idle"
    BY <1>1, ValueAssumption
    DEF SInv, TypeOK, ItemInSession, CheckForUpdates, Session, Fit, Fits, Item
  <1>2. CASE session # "idle"
    <2>1. session' = session /\ item' = item /\ UNCHANGED << staged, outcome, answer >>
      BY <1>2 DEF CheckForUpdates
    <2> QED
      BY <2>1 DEF SInv, TypeOK, ItemInSession, Fit, Fits
  <1> QED
    BY <1>1, <1>2

(* check announces itself if Sparkle starts a session for it.               *)
LEMMA CheckInv == SInv /\ Check => SInv'
  <1> SUFFICES ASSUME SInv, Check PROVE SInv'
    OBVIOUS
  <1>1. UNCHANGED << policy, block, entity >> /\ CheckForUpdates
    BY DEF Check
  <1>2. /\ ItemInSession' /\ session' \in Session /\ item' \in Item \cup {None}
        /\ \A x \in Status : x \in Fit => x \in Fit'
        /\ UNCHANGED << staged, outcome, answer >>
    BY <1>1, CheckStarts
  <1>3. CASE session = "idle"
    <2>1. Show("Checking") \in Event /\ Emit(<< Show("Checking") >>) /\ queue \in Seq(Event)
      BY <1>3 DEF Check, CanCheckForUpdates, Show, Event, SInv, TypeOK
    <2>2. queue' = Append(queue, Show("Checking")) /\ queue' \in Seq(Event) /\ Len(queue') <= MaxQueue
      BY <2>1, EmitOne
    <2>3. /\ Show("Checking").tag \in Shows /\ Show("Checking").tag \notin Offers
          /\ Shown(Show("Checking")) = Show("Checking")
      BY DEF Show, Shows, Offers, Shown
    <2>4. session' = "checking" /\ item' = None
      BY <1>1, <1>3 DEF CheckForUpdates
    <2>5. Show("Checking") \in Fit'
      BY <2>4, ValueAssumption DEF Fit, Fits, Show, Status
    <2>6. Ahead'
      BY <1>1, <1>2, <2>1, <2>2, <2>3, <2>5, ShowingStep
    <2> QED
      BY <1>1, <1>2, <2>2, <2>6 DEF SInv, TypeOK, entity
  <1>4. CASE session # "idle"
    <2>1. queue' = queue
      BY <1>4, EmitNone DEF Check, CanCheckForUpdates, SInv, TypeOK
    <2>2. Ahead'
      BY <1>1, <1>2, <2>1, SilentStep DEF entity
    <2> QED
      BY <1>1, <1>2, <2>1, <2>2 DEF SInv, TypeOK, entity
  <1> QED
    BY <1>3, <1>4

(* A session that the view is not told of: an install, or a check in the    *)
(* background.                                                              *)
LEMMA QuietCheckInv == SInv /\ (DownloadAndInstall \/ CheckInBackground) => SInv'
  <1> SUFFICES ASSUME SInv, DownloadAndInstall \/ CheckInBackground PROVE SInv'
    OBVIOUS
  <1>1. UNCHANGED << policy, block, entity, queue >> /\ CheckForUpdates
    BY DEF DownloadAndInstall, CheckInBackground
  <1>2. /\ ItemInSession' /\ session' \in Session /\ item' \in Item \cup {None}
        /\ \A x \in Status : x \in Fit => x \in Fit'
        /\ UNCHANGED << staged, outcome, answer >>
    BY <1>1, CheckStarts
  <1>3. Ahead'
    BY <1>1, <1>2, SilentStep DEF entity
  <1> QED
    BY <1>1, <1>2, <1>3 DEF SInv, TypeOK, entity

(* `restart` calls the block, or asks Sparkle for the update it staged.     *)
LEMMA RestartInv == SInv /\ Restart => SInv'
  <1> SUFFICES ASSUME SInv, Restart PROVE SInv'
    OBVIOUS
  <1>1. UNCHANGED << policy, block, entity, queue >>
    BY DEF Restart
  <1>2. /\ ItemInSession' /\ session' \in Session /\ item' \in Item \cup {None}
        /\ \A x \in Status : x \in Fit => x \in Fit'
        /\ UNCHANGED << staged, outcome, answer >>
    <2>1. CASE CheckForUpdates
      BY <1>1, <2>1, CheckStarts
    <2>2. CASE ~CheckForUpdates
      <3>1. /\ session' = IF session = "idle" THEN "ready" ELSE session
            /\ item' = IF session = "idle" THEN None ELSE item
            /\ UNCHANGED << staged, outcome, answer >>
        BY <2>2 DEF Restart
      <3>2. CASE session = "idle"
        BY <1>1, <3>1, <3>2, ValueAssumption DEF SInv, TypeOK, ItemInSession, Session, Fit, Fits, Item
      <3>3. CASE session # "idle"
        <4>1. session' = session /\ item' = item
          BY <3>1, <3>3
        <4> QED
          BY <1>1, <3>1, <4>1 DEF SInv, TypeOK, ItemInSession, Fit, Fits
      <3> QED
        BY <3>2, <3>3
    <2> QED
      BY <2>1, <2>2
  <1>3. Ahead'
    BY <1>1, <1>2, SilentStep DEF entity
  <1> QED
    BY <1>1, <1>2, <1>3 DEF SInv, TypeOK, entity

(* Without an entity there is nothing to show.                              *)
LEMMA GoneInv == SInv /\ (Drop \/ Quit) => SInv'
  <1> SUFFICES ASSUME SInv, Drop \/ Quit PROVE SInv'
    OBVIOUS
  <1>1. << >> \in Seq(Event) /\ Len(<< >>) = 0 /\ 0 <= MaxQueue
    BY QueueAssumption
  <1> QED
    BY <1>1 DEF Drop, Quit, SInv, TypeOK, ItemInSession, Ahead, Session, Outcome

------------------------------------------------------------------------------
(* The pump.                                                                *)

(* Applying an event brings the view closer to what it ends with and does   *)
(* not change that.                                                         *)
LEMMA PumpInv == SInv /\ Pump => SInv'
  <1> SUFFICES ASSUME SInv, Pump PROVE SInv'
    OBVIOUS
  <1> DEFINE h == Head(queue)
  <1>1. /\ queue \in Seq(Event) /\ queue # << >> /\ status \in Status
        /\ available \in Version \cup {None} /\ answer \in Version \cup {None}
        /\ OfferAfter(available, queue, answer) /\ EndsIn(status, queue, answer, Fit)
        /\ status.tag = "Available" => status.version = available
    BY DEF SInv, TypeOK, Ahead, Pump
  <1>2. h \in Event /\ Tail(queue) \in Seq(Event) /\ Len(Tail(queue)) <= MaxQueue
    <2>1. h \in Event /\ Tail(queue) \in Seq(Event) /\ Len(queue) = Len(Tail(queue)) + 1 /\ Len(Tail(queue)) \in Nat
      BY <1>1, LastOfTail
    <2>2. Len(queue) <= MaxQueue /\ MaxQueue \in Nat
      BY QueueAssumption DEF SInv, TypeOK
    <2> QED
      BY <2>1, <2>2
  <1>3. /\ status' = StatusAfter(h) /\ available' = AvailableAfter(h) /\ queue' = Tail(queue)
        /\ UNCHANGED << policy, alive, block, session, item, staged, outcome, answer >>
    BY DEF Pump, sparkle
  <1> HIDE DEF h
  <1>4. status' = IF h.tag = "Settled" THEN SettledTo(status, available) ELSE Shown(h)
    BY <1>3 DEF StatusAfter, Settled, SettledTo, Shown, Busy, IsBusy
  <1>5. available' = IF h.tag \in Offers THEN Offered(h) ELSE available
    BY <1>3 DEF AvailableAfter, Offers, Offered
  <1>6. status' \in Status /\ available' \in Version \cup {None}
    BY <1>1, <1>2, <1>4, <1>5, EventType, SettledType
  <1>7. OfferAfter(available', queue', answer')
    BY <1>1, <1>3, <1>5, OfferTail DEF h
  <1>8. EndsIn(status', queue', answer', Fit)
    BY <1>1, <1>3, <1>4, EndsTail DEF h
  <1>9. Fit' = Fit
    BY <1>3 DEF Fit, Fits
  <1>10. status'.tag = "Available" => status'.version = available'
    <2>1. CASE h.tag = "Settled"
      <3>1. available' = available /\ status' = SettledTo(status, available)
        BY <1>4, <1>5, <2>1 DEF Offers
      <3> QED
        BY <1>1, <3>1 DEF SettledTo, Show, Release
    <2>2. CASE h.tag # "Settled"
      BY <1>2, <1>4, <1>5, <2>2 DEF Shown, Show, Release, Offers, Offered, Event
    <2> QED
      BY <2>1, <2>2
  <1>11. Ahead'
    BY <1>7, <1>8, <1>9, <1>10 DEF Ahead
  <1>12. TypeOK' /\ ItemInSession'
    BY <1>2, <1>3, <1>6 DEF SInv, TypeOK, ItemInSession
  <1> QED
    BY <1>11, <1>12 DEF SInv

------------------------------------------------------------------------------
(* Sparkle's callbacks.                                                     *)

(* A session that finds a release offers it, if its version can be parsed.  *)
LEMMA FindInv ==
  ASSUME SInv, NEW i \in Item, DidFindValidUpdate(i)
  PROVE  SInv'
  <1>1. /\ session = "checking" /\ session' = "found" /\ item' = i
        /\ answer' = (IF i = Unordered THEN answer ELSE i)
        /\ Emit(Report("Found", i))
        /\ UNCHANGED << policy, entity, block, staged, outcome >>
        /\ queue \in Seq(Event)
    BY DEF DidFindValidUpdate, SInv, TypeOK
  <1>2. CASE i = Unordered
    <2>1. queue' = queue
      BY <1>1, <1>2, EmitNone DEF Report
    <2>2. Unordered \notin Version
      BY ValueAssumption
    <2>3. \A x \in Status : x \in Fit => x \in Fit'
      BY <1>1, <1>2, <2>2 DEF Fit, Fits
    <2>4. Ahead'
      BY <1>1, <1>2, <2>1, <2>3, SilentStep DEF entity
    <2>5. ItemInSession'
      BY <1>1, <1>2, <2>2 DEF ItemInSession
    <2> QED
      BY <1>1, <1>2, <2>1, <2>4, <2>5 DEF SInv, TypeOK, entity, Session
  <1>3. CASE i # Unordered
    <2> DEFINE e == Release("Found", i)
    <2>1. i \in Version
      BY <1>3 DEF Item
    <2>2. /\ e \in Event /\ e.tag \in Shows /\ e.tag \in Offers /\ Offered(e) = i
          /\ Shown(e) = Release("Available", i)
      BY <2>1 DEF Release, Event, Shows, Offers, Offered, Shown
    <2>3. queue' = Append(queue, e) /\ queue' \in Seq(Event) /\ Len(queue') <= MaxQueue
      BY <1>1, <1>3, <2>2, EmitOne DEF Report
    <2>4. Shown(e) \in Fit'
      BY <1>1, <2>1, <2>2 DEF Fit, Fits, Release, Status, IsBusy
    <2>5. Ahead'
      <3> HIDE DEF e
      <3> QED
        BY <1>1, <1>3, <2>2, <2>3, <2>4, ShowingStep
    <2>6. ItemInSession'
      BY <1>1, <1>3 DEF ItemInSession
    <2> QED
      BY <1>1, <1>3, <2>1, <2>3, <2>5, <2>6 DEF SInv, TypeOK, entity, Session
  <1> QED
    BY <1>2, <1>3

(* The callbacks that say what Sparkle does now.                            *)
LEMMA ProgressInv ==
  ASSUME SInv, DidNotFindUpdate \/ WillDownloadUpdate \/ WillExtractUpdate \/ WillInstallUpdate
  PROVE  SInv'
  <1>1. PICK tag \in {"UpToDate", "Downloading", "Installing"} :
          /\ Emit(<< Show(tag) >>)
          /\ UNCHANGED << policy, entity, block, item, staged, outcome >>
          /\ \/ /\ tag = "UpToDate" /\ session = "checking" /\ session' = "nothing"
                /\ answer' = None
             \/ /\ tag = "Downloading" /\ session = "found" /\ session' = "downloading"
                /\ answer' = answer
             \/ /\ tag = "Installing" /\ session = "downloading" /\ session' = "extracting"
                /\ answer' = answer
             \/ /\ tag = "Installing" /\ session = "ready" /\ session' = "installing"
                /\ answer' = answer
    BY DEF DidNotFindUpdate, WillDownloadUpdate, WillExtractUpdate, WillInstallUpdate
  <1> DEFINE e == Show(tag)
  <1>2. /\ e \in Event /\ e.tag \in Shows /\ Shown(e) = Show(tag)
        /\ answer' = IF e.tag \in Offers THEN Offered(e) ELSE answer
    BY <1>1 DEF Show, Event, Shows, Offers, Offered, Shown
  <1>3. queue' = Append(queue, e) /\ queue' \in Seq(Event) /\ Len(queue') <= MaxQueue
    BY <1>1, <1>2, EmitOne DEF SInv, TypeOK
  <1>4. Show(tag) \in Status /\ Show(tag).tag = tag /\ (IsBusy(Show(tag)) <=> tag # "UpToDate")
    BY <1>1 DEF Show, Status, IsBusy
  <1>5. item \in Version => SettledTo(Show("Installing"), item) = Release("Available", item)
    BY ValueAssumption DEF SettledTo, Show, IsBusy
  <1>6. ItemInSession'
    BY <1>1, ValueAssumption DEF SInv, ItemInSession
  <1>7. Fits(Show(tag))'
    <2>1. item' = item /\ (item \in Version => item # None)
      BY <1>1, ValueAssumption
    <2> QED
      BY <1>1, <1>4, <1>5, <2>1 DEF Fits, SInv, ItemInSession
  <1>8. Shown(e) \in Fit'
    BY <1>2, <1>4, <1>7 DEF Fit
  <1>9. Ahead'
    <2> HIDE DEF e
    <2> QED
      BY <1>1, <1>2, <1>3, <1>8, ShowingStep
  <1> QED
    BY <1>1, <1>3, <1>6, <1>9 DEF SInv, TypeOK, entity, Session

(* A download the user cancels settles the view on the release that is      *)
(* offered.                                                                 *)
LEMMA CancelledInv == SInv /\ UserDidCancelDownload => SInv'
  <1> SUFFICES ASSUME SInv, UserDidCancelDownload PROVE SInv'
    OBVIOUS
  <1>1. /\ session = "downloading" /\ session' = "cancelled"
        /\ Emit(<< Show("Settled") >>)
        /\ UNCHANGED << policy, entity, block, item, staged, outcome, answer >>
        /\ queue \in Seq(Event) /\ answer \in Version \cup {None}
    BY DEF UserDidCancelDownload, SInv, TypeOK
  <1>2. Show("Settled") \in Event
    BY DEF Show, Event
  <1>3. queue' = Append(queue, Show("Settled")) /\ queue' \in Seq(Event) /\ Len(queue') <= MaxQueue
    BY <1>1, <1>2, EmitOne
  <1>4. item \in Version => answer = item
    BY <1>1 DEF SInv, ItemInSession
  <1>5. ASSUME NEW x \in Status, x \in Fit PROVE SettledTo(x, answer) \in Fit'
    <2>1. IsBusy(x)
      BY <1>1, <1>5 DEF Fit, Fits
    <2>2. SettledTo(x, answer) \in Status /\ SettledTo(x, answer).tag # "Staged"
      BY <1>1, <2>1, SettledType DEF SettledTo, Show, Release
    <2>3. item \in Version => SettledTo(x, answer) = Release("Available", item)
      BY <1>4, <2>1, SettledType
    <2> QED
      BY <1>1, <2>2, <2>3 DEF Fit, Fits
  <1>6. Ahead'
    BY <1>1, <1>3, <1>5, SettlingStep
  <1>7. ItemInSession'
    BY <1>1, <1>4 DEF SInv, ItemInSession
  <1> QED
    BY <1>1, <1>3, <1>6, <1>7 DEF SInv, TypeOK, entity, Session

(* Sparkle asks the user without telling the view.                          *)
LEMMA AskInv == SInv /\ AskToRelaunch => SInv'
  <1> SUFFICES ASSUME SInv, AskToRelaunch PROVE SInv'
    OBVIOUS
  <1>1. /\ session \in {"extracting", "checking"} /\ session' = "ready"
        /\ UNCHANGED << policy, entity, queue, block, item, staged, outcome, answer >>
    BY DEF AskToRelaunch
  <1>2. ASSUME NEW x \in Status, x \in Fit PROVE x \in Fit'
    <2>1. item \in Version => IsBusy(x) /\ item # None
      BY <1>1, <1>2, ValueAssumption DEF Fit, Fits, SInv, ItemInSession
    <2>2. item \in Version => SettledTo(x, item) = Release("Available", item)
      BY <2>1 DEF SettledTo
    <2> QED
      BY <1>1, <1>2, <2>2 DEF Fit, Fits
  <1>3. Ahead'
    BY <1>1, <1>2, SilentStep DEF entity
  <1>4. ItemInSession'
    BY <1>1, ValueAssumption DEF SInv, ItemInSession
  <1> QED
    BY <1>1, <1>3, <1>4 DEF SInv, TypeOK, entity, Session

(* Staging replaces the block and, if the version parses, what is shown.    *)
LEMMA StagedInv == SInv /\ WillInstallUpdateOnQuit => SInv'
  <1> SUFFICES ASSUME SInv, WillInstallUpdateOnQuit PROVE SInv'
    OBVIOUS
  <1>1. /\ session = "extracting" /\ session' = "held" /\ staged' = item
        /\ Emit(Report("ReadyToRelaunch", item))
        /\ block' = IF policy = "HostRelaunches" THEN item ELSE block
        /\ UNCHANGED << policy, entity, item, outcome, answer >>
        /\ queue \in Seq(Event) /\ item \in Item
        /\ item \in Version => answer = item
    BY DEF WillInstallUpdateOnQuit, KeepBlock, SInv, TypeOK, ItemInSession
  <1>2. ItemInSession' /\ block' \in Item \cup {None}
    BY <1>1 DEF SInv, ItemInSession, TypeOK
  <1>3. CASE item = Unordered
    <2>1. queue' = queue /\ item \notin Version
      BY <1>1, <1>3, EmitNone, ValueAssumption DEF Report
    <2>2. ASSUME NEW x \in Status, x \in Fit PROVE x \in Fit'
      <3>1. x.tag # "Staged"
        BY <1>1, <2>2 DEF Fit, Fits, IsBusy
      <3> QED
        BY <1>1, <2>1, <3>1 DEF Fit, Fits
    <2>3. Ahead'
      BY <1>1, <2>1, <2>2, SilentStep DEF entity
    <2> QED
      BY <1>1, <1>2, <2>1, <2>3 DEF SInv, TypeOK, entity, Session
  <1>4. CASE item # Unordered
    <2> DEFINE e == Release("ReadyToRelaunch", item)
    <2>1. item \in Version
      BY <1>1, <1>4 DEF Item
    <2>2. /\ e \in Event /\ e.tag \in Shows /\ e.tag \notin Offers
          /\ Shown(e) = Release("Staged", item)
      BY <2>1 DEF Release, Event, Shows, Offers, Shown
    <2>3. queue' = Append(queue, e) /\ queue' \in Seq(Event) /\ Len(queue') <= MaxQueue
      BY <1>1, <1>4, <2>2, EmitOne DEF Report
    <2>4. Shown(e) \in Fit'
      BY <1>1, <2>1, <2>2 DEF Fit, Fits, Release, Status, IsBusy
    <2>5. Ahead'
      <3> HIDE DEF e
      <3> QED
        BY <1>1, <2>2, <2>3, <2>4, ShowingStep
    <2> QED
      BY <1>1, <1>2, <2>3, <2>5 DEF SInv, TypeOK, entity, Session
  <1> QED
    BY <1>3, <1>4

(* The end of a session settles the view, after the error if there was one. *)
LEMMA FinishInv ==
  ASSUME SInv, NEW error \in Error, DidFinishUpdateCycle(error)
  PROVE  SInv'
  <1> DEFINE S == Show("Settled")
             E == Show("Failed")
  <1>1. /\ << session, error >> \in Endings /\ session' = "idle"
        /\ outcome' = IF error = "failure" THEN "failed"
                      ELSE IF session = "nothing" THEN "nothing"
                      ELSE IF session = "held" THEN "staged" ELSE "declined"
        /\ Emit(Disposition(error) \o << S >>)
        /\ UNCHANGED << policy, entity, block, item, staged, answer >>
        /\ queue \in Seq(Event) /\ answer \in Version \cup {None}
        /\ status \in Status /\ available \in Version \cup {None}
    BY DEF DidFinishUpdateCycle, SInv, TypeOK
  <1>2. /\ S \in Event /\ S.tag \notin Offers
        /\ E \in Event /\ E.tag \in Shows /\ E.tag \notin Offers
        /\ Shown(E) = Show("Errored")
    BY DEF Show, Event, Offers, Shows, Shown
  <1>3. /\ session \notin {"absent", "unstarted", "idle"}
        /\ session \in {"downloading", "extracting"} => error = "failure"
    BY <1>1 DEF Endings
  <1>4. item \in Version => answer = item /\ session \notin {"checking", "nothing"}
    BY <1>3, ValueAssumption DEF SInv, ItemInSession
  <1>5. ItemInSession'
    BY <1>1 DEF ItemInSession
  <1>6. ASSUME NEW x \in Status, x \in Fit' PROVE SettledTo(x, answer) \in Fit'
    <2>1. ~IsBusy(x)
      BY <1>1, <1>6 DEF Fit, Fits
    <2> QED
      BY <1>6, <2>1 DEF SettledTo
  <1>7. ASSUME error # "failure", NEW x \in Status, x \in Fit
        PROVE  SettledTo(x, answer) \in Fit'
    <2>0. PICK y \in Status : y = SettledTo(x, answer)
      BY <1>1, SettledType
    <2>1. y \in Status /\ ~IsBusy(y) /\ (y.tag = "Staged" => y = x)
      BY <1>1, <2>0, SettledType
    <2>2. session = "nothing" => y = Show("UpToDate")
      BY <1>7, <2>0 DEF Fit, Fits, SettledTo, IsBusy, Show
    <2>3. item \in Version /\ session = "held" => y = Release("Staged", item)
      BY <1>7, <2>0 DEF Fit, Fits, SettledTo, IsBusy, Release
    <2>4. ASSUME item \in Version, session # "held" PROVE y = Release("Available", item)
      <3>1. session \in {"found", "cancelled", "ready", "installing"}
        BY <1>1, <1>3, <1>4, <1>7, <2>4 DEF Endings
      <3>2. CASE session \in {"found", "cancelled"}
        BY <1>7, <2>0, <2>4, <3>2 DEF Fit, Fits, SettledTo, IsBusy, Release
      <3>3. CASE session \in {"ready", "installing"}
        BY <1>4, <1>7, <2>0, <2>4, <3>3 DEF Fit, Fits
      <3> QED
        BY <3>1, <3>2, <3>3
    <2>5. Fits(y)'
      BY <1>1, <1>3, <1>7, <2>1, <2>2, <2>3, <2>4 DEF Fits
    <2>6. y \in Fit'
      BY <2>1, <2>5 DEF Fit
    <2> QED
      BY <2>0, <2>6
  <1>8. ASSUME error = "failure" PROVE Show("Errored") \in Fit'
    BY <1>1, <1>8 DEF Fit, Fits, Show, Status, IsBusy
  <1> HIDE DEF S, E
  <1>9. CASE error \in {"none", "no_update"}
    <2>1. Emit(<< S >>)
      <3>1. Disposition(error) = << >> /\ << S >> \in Seq(Event)
        BY <1>2, <1>9 DEF Disposition
      <3>2. << >> \o << S >> = << S >>
        BY <3>1, ConcatEmptySeq
      <3> QED
        BY <1>1, <3>1, <3>2
    <2>2. queue' = Append(queue, S) /\ queue' \in Seq(Event) /\ Len(queue') <= MaxQueue
      BY <1>1, <1>2, <2>1, EmitOne
    <2>3. Ahead'
      BY <1>1, <1>7, <1>9, <2>2, SettlingStep DEF S
    <2> QED
      BY <1>1, <1>5, <2>2, <2>3 DEF SInv, TypeOK, entity, Session, Outcome
  <1>10. CASE error \in {"user", "failure"}
    <2> DEFINE e == IF error = "user" THEN S ELSE E
               q == Append(queue, e)
    <2>1. Disposition(error) = << e >> /\ e \in Event /\ e.tag \notin Offers
      BY <1>2, <1>10 DEF Disposition, S, E
    <2>2. /\ queue' = Append(q, S) /\ queue' \in Seq(Event) /\ Len(queue') <= MaxQueue
          /\ q \in Seq(Event)
      <3> HIDE DEF e
      <3> QED
        BY <1>1, <1>2, <2>1, EmitTwo
    <2>3. alive => OfferAfter(available, queue', answer)
      <3> HIDE DEF e
      <3>1. alive => OfferAfter(available, q, answer)
        BY <1>1, <2>1, OfferAppend DEF SInv, Ahead
      <3> HIDE DEF q
      <3> QED
        BY <1>2, <2>2, <3>1, OfferAppend
    <2>4. ASSUME alive PROVE EndsIn(status, q, answer, Fit')
      <3>1. CASE error = "user"
        <4>1. EndsIn(status, queue, answer, Fit)
          BY <2>4 DEF SInv, Ahead
        <4> QED
          BY <1>1, <1>7, <3>1, <4>1, EndsSettled DEF S
      <3>2. CASE error = "failure"
        BY <1>1, <1>2, <1>8, <3>2, EndsWithShown
      <3> QED
        BY <1>10, <3>1, <3>2
    <2> HIDE DEF q, e
    <2>5. ASSUME alive PROVE EndsIn(status, queue', answer, Fit')
      BY <1>1, <1>6, <2>2, <2>4, <2>5, EndsSettled DEF S
    <2>6. Ahead'
      BY <1>1, <2>3, <2>5 DEF SInv, Ahead, entity
    <2> QED
      BY <1>1, <1>5, <2>2, <2>6 DEF SInv, TypeOK, entity, Session, Outcome
  <1> QED
    BY <1>9, <1>10 DEF Error

------------------------------------------------------------------------------
(* Every step.                                                              *)

(* The invariant holds before there is an entity.                           *)
LEMMA SparkleStart == Init => SInv
  <1> SUFFICES ASSUME Init PROVE SInv
    OBVIOUS
  <1>1. << >> \in Seq(Event) /\ Len(<< >>) = 0 /\ 0 <= MaxQueue
    BY QueueAssumption
  <1> QED
    BY <1>1 DEF Init, SInv, TypeOK, ItemInSession, Ahead, Session, Outcome, Status, Show

(* Every step keeps the invariant.                                          *)
LEMMA SparkleStep == SInv /\ [Next]_vars => SInv'
  <1> SUFFICES ASSUME SInv, [Next]_vars PROVE SInv'
    OBVIOUS
  <1>1. CASE Next
    BY <1>1, WithDriverInv, CheckInv, QuietCheckInv, RestartInv, GoneInv, PumpInv, FindInv,
       ProgressInv, CancelledInv, AskInv, StagedInv, FinishInv
    DEF Next
  <1>2. CASE UNCHANGED vars
    BY <1>2 DEF vars, entity, sparkle, SInv, TypeOK, ItemInSession, Ahead, Fit, Fits
  <1> QED
    BY <1>1, <1>2

(* The invariant holds in every state.                                      *)
THEOREM Invariant == Spec => []SInv
  BY SparkleStart, SparkleStep, PTL DEF Spec

(* TypeOK: every variable keeps its type, and the channel is bounded.       *)
THEOREM TypeCorrect == Spec => []TypeOK
  BY Invariant, PTL DEF SInv

(* With an empty channel, what the view will end with is what it shows.     *)
LEMMA NowShown == SInv /\ alive /\ queue = << >> => available = answer /\ Fits(status)
  BY DEF SInv, Ahead, OfferAfter, EndsIn, NoneIn, Fit

(* OutcomeIsShown: the `Settled` that ends every session leaves what the    *)
(* session came to, however many sessions and restarts came before.         *)
THEOREM EndIsShown == Spec => []OutcomeIsShown
  <1>1. SInv => OutcomeIsShown
    BY NowShown DEF OutcomeIsShown, Quiet, Fits, Busy, IsBusy
  <1> QED
    BY <1>1, Invariant, PTL

(* OfferIsLastAnswer: what the view offers is what the feed spoke of last.  *)
THEOREM OfferIsLatest == Spec => []OfferIsLastAnswer
  <1>1. SInv => OfferIsLastAnswer
    BY NowShown DEF OfferIsLastAnswer, SInv, Ahead
  <1> QED
    BY <1>1, Invariant, PTL

------------------------------------------------------------------------------
(* Relaunching.                                                             *)

(* The report that is on screen, or the last that waits, and whether the    *)
(* update is about to leave the screen again.                               *)
LastReport(k) == Reported(k) /\ \A j \in k + 1 .. Len(queue) : ~Reported(j)
Leaves(k) == \E j \in k + 1 .. Len(queue) : queue[j].tag = "Downloading"

(* While an update is on its way, whatever was reported before it leaves    *)
(* the screen first.  Without that, an update whose version does not parse  *)
(* could take the block from one that stays there.                          *)
Leaving ==
  alive /\ session \in {"downloading", "extracting"} =>
    \A k \in 0 .. Len(queue) : LastReport(k) => Leaves(k)

RelaunchInv == HostCanRelaunch /\ Leaving

(* HostCanRelaunch in terms of the last report.                             *)
LEMMA RelaunchIs ==
  HostCanRelaunch <=>
    (policy = "HostRelaunches" /\ alive =>
       \A k \in 0 .. Len(queue) :
         LastReport(k) => block = ReportAt(k) \/ (block = Unordered /\ Leaves(k)))
  BY DEF HostCanRelaunch, LastReport, Leaves

(* Events that report nothing leave the last report what it was.            *)
LEMMA NoReport ==
  ASSUME queue \in Seq(Event), NEW es \in Seq(Event), queue' = queue \o es,
         \A i \in 1 .. Len(es) : es[i].tag # "ReadyToRelaunch",
         status' = status,
         NEW k \in 0 .. Len(queue'), LastReport(k)'
  PROVE  /\ k \in 0 .. Len(queue) /\ LastReport(k)
         /\ ReportAt(k)' = ReportAt(k)
         /\ Leaves(k) \/ (\E i \in 1 .. Len(es) : es[i].tag = "Downloading") => Leaves(k)'
  <1> DEFINE n == Len(queue)
             m == Len(es)
  <1>1. /\ n \in Nat /\ m \in Nat /\ Len(queue') = n + m
        /\ \A i \in 1 .. n : queue'[i] = queue[i]
        /\ \A i \in 1 .. m : queue'[n + i] = es[i]
    BY ConcatProperties
  <1>2. \A i \in n + 1 .. n + m : i - n \in 1 .. m /\ queue'[i] = es[i - n]
    <2> TAKE i \in n + 1 .. n + m
    <2>1. i - n \in 1 .. m /\ n + (i - n) = i
      BY <1>1
    <2> QED
      BY <1>1, <2>1
  <1> HIDE DEF n, m
  <1>3. k \in 0 .. n
    <2> SUFFICES ASSUME k \in n + 1 .. n + m PROVE FALSE
      BY <1>1
    <2>1. k # 0 /\ k - n \in 1 .. m /\ queue'[k] = es[k - n]
      BY <1>1, <1>2
    <2> QED
      BY <2>1 DEF LastReport, Reported, m
  <1>4. \A j \in 0 .. n : (Reported(j)' <=> Reported(j)) /\ ReportAt(j)' = ReportAt(j)
    <2> TAKE j \in 0 .. n
    <2>1. j = 0 \/ (j # 0 /\ j \in 1 .. n)
      BY <1>1
    <2> QED
      BY <1>1, <2>1 DEF Reported, ReportAt
  <1>5. LastReport(k)
    <2>1. \A j \in k + 1 .. n : j \in 0 .. n /\ j \in k + 1 .. n + m
      BY <1>1, <1>3
    <2> QED
      BY <1>1, <1>3, <1>4, <2>1 DEF LastReport, n
  <1>6. ASSUME Leaves(k) PROVE Leaves(k)'
    <2>1. PICK j \in k + 1 .. n : queue[j].tag = "Downloading"
      BY <1>6 DEF Leaves, n
    <2>2. j \in 1 .. n /\ j \in k + 1 .. n + m
      BY <1>1, <1>3, <2>1
    <2> QED
      BY <1>1, <2>1, <2>2 DEF Leaves
  <1>7. ASSUME NEW i \in 1 .. m, es[i].tag = "Downloading" PROVE Leaves(k)'
    <2>1. n + i \in k + 1 .. n + m
      BY <1>1, <1>3
    <2> QED
      BY <1>1, <1>7, <2>1 DEF Leaves
  <1> QED
    BY <1>3, <1>4, <1>5, <1>6, <1>7 DEF n, m

(* So a step that emits such events keeps the invariant, if one of them     *)
(* takes the update off the screen when another one is fetched.             *)
LEMMA EmitKeeps ==
  ASSUME RelaunchInv, queue \in Seq(Event), NEW es \in Seq(Event), Emit(es),
         \A i \in 1 .. Len(es) : es[i].tag # "ReadyToRelaunch",
         UNCHANGED << policy, alive, status, block >>,
         session' \in {"downloading", "extracting"} =>
           \/ session \in {"downloading", "extracting"}
           \/ \E i \in 1 .. Len(es) : es[i].tag = "Downloading"
  PROVE  RelaunchInv'
  <1>1. queue' = queue \o es
    BY DEF Emit
  <1>2. ASSUME NEW k \in 0 .. Len(queue'), LastReport(k)'
        PROVE  /\ k \in 0 .. Len(queue) /\ LastReport(k)
               /\ ReportAt(k)' = ReportAt(k)
               /\ Leaves(k) \/ (\E i \in 1 .. Len(es) : es[i].tag = "Downloading") => Leaves(k)'
    BY <1>1, <1>2, NoReport
  <1>3. HostCanRelaunch'
    <2>1. ASSUME policy' = "HostRelaunches", alive', NEW k \in 0 .. Len(queue'), LastReport(k)'
          PROVE  block' = ReportAt(k)' \/ (block' = Unordered /\ Leaves(k)')
      BY <1>2, <2>1, RelaunchIs DEF RelaunchInv
    <2> QED
      BY <2>1 DEF HostCanRelaunch, LastReport, Leaves
  <1>4. Leaving'
    BY <1>2 DEF RelaunchInv, Leaving
  <1> QED
    BY <1>3, <1>4 DEF RelaunchInv

(* A step that emits nothing.                                               *)
LEMMA SilenceKeeps ==
  ASSUME RelaunchInv, UNCHANGED << policy, alive, status, block, queue >>,
         session' \in {"downloading", "extracting"} => session \in {"downloading", "extracting"}
  PROVE  RelaunchInv'
  BY DEF RelaunchInv, HostCanRelaunch, Leaving, LastReport, Leaves, Reported, ReportAt

(* What is staged last has the block, and its event is the last report; or  *)
(* it has no event, and every earlier report is about to leave the screen.  *)
LEMMA StagingKeeps ==
  ASSUME SInv, RelaunchInv, WillInstallUpdateOnQuit
  PROVE  RelaunchInv'
  <1>1. /\ session = "extracting" /\ session' = "held" /\ item \in Item
        /\ Emit(Report("ReadyToRelaunch", item))
        /\ policy = "HostRelaunches" => block' = item
        /\ UNCHANGED << policy, alive, status >>
        /\ queue \in Seq(Event)
    BY DEF WillInstallUpdateOnQuit, KeepBlock, SInv, TypeOK, ItemInSession, entity
  <1>2. Leaving'
    BY <1>1 DEF Leaving
  <1>3. CASE item = Unordered
    <2>1. queue' = queue
      BY <1>1, <1>3, EmitNone DEF Report
    <2>2. ASSUME policy = "HostRelaunches", alive, NEW k \in 0 .. Len(queue), LastReport(k)
          PROVE  block' = Unordered /\ Leaves(k)
      BY <1>1, <1>3, <2>2 DEF RelaunchInv, Leaving
    <2>3. HostCanRelaunch'
      BY <1>1, <2>1, <2>2 DEF HostCanRelaunch, LastReport, Leaves, Reported, ReportAt
    <2> QED
      BY <1>2, <2>3 DEF RelaunchInv
  <1>4. CASE item # Unordered
    <2> DEFINE e == Release("ReadyToRelaunch", item)
    <2>1. /\ e \in Event /\ e.tag = "ReadyToRelaunch" /\ e.version = item
      BY <1>1, <1>4 DEF Release, Event, Item
    <2>2. queue' = Append(queue, e)
      BY <1>1, <1>4, <2>1, EmitOne DEF Report
    <2> HIDE DEF e
    <2>3. /\ Len(queue') = Len(queue) + 1 /\ Len(queue) \in Nat
          /\ queue'[Len(queue) + 1] = e
      BY <1>1, <2>1, <2>2, LastOfAppend
    <2>4. ASSUME NEW k \in 0 .. Len(queue'), LastReport(k)'
          PROVE  ReportAt(k)' = item
      <3>1. PICK m \in Nat : m # 0 /\ Len(queue') = m /\ queue'[m] = e
        BY <2>3
      <3>2. Reported(m)' /\ (k = m \/ m \in k + 1 .. Len(queue'))
        BY <2>1, <3>1 DEF Reported
      <3>3. k = m
        BY <2>4, <3>2 DEF LastReport
      <3> QED
        BY <2>1, <3>1, <3>3 DEF ReportAt
    <2>5. HostCanRelaunch'
      BY <1>1, <2>4 DEF HostCanRelaunch, LastReport, Leaves
    <2> QED
      BY <1>2, <2>5 DEF RelaunchInv
  <1> QED
    BY <1>3, <1>4

(* The pump moves every report one place closer to the screen.              *)
LEMMA PumpKeeps ==
  ASSUME SInv, RelaunchInv, Pump
  PROVE  RelaunchInv'
  <1> DEFINE h == Head(queue)
             n == Len(Tail(queue))
  <1>1. queue \in Seq(Event) /\ queue # << >> /\ status \in Status
    BY DEF SInv, TypeOK, Pump
  <1>2. /\ Len(queue) = n + 1 /\ n \in Nat /\ h = queue[1] /\ h \in Event
        /\ \A i \in 1 .. n : Tail(queue)[i] = queue[i + 1]
    BY <1>1, LastOfTail
  <1>3. /\ status' = StatusAfter(h) /\ queue' = Tail(queue)
        /\ UNCHANGED << policy, alive, block, session >>
    BY DEF Pump, sparkle
  <1> HIDE DEF h
  <1>4. /\ h.tag = "ReadyToRelaunch" => status' = Release("Staged", h.version)
        /\ h.tag # "ReadyToRelaunch" /\ status'.tag = "Staged" =>
             h.tag # "Downloading" /\ status' = status
    BY <1>2, <1>3 DEF StatusAfter, Settled, Show, Release, Event
  <1> HIDE DEF n
  (* The report that was at k is at k - 1, but one on screen stays there.   *)
  <1>5. ASSUME NEW k \in 0 .. n, LastReport(k)'
        PROVE  \E m \in 0 .. n + 1 :
                 /\ LastReport(m) /\ ReportAt(m) = ReportAt(k)'
                 /\ Leaves(m) => Leaves(k)'
    <2>1. \A j \in 1 .. n : /\ j + 1 # 0 /\ j # 0 /\ j + 1 \in 1 .. n + 1
                            /\ Reported(j)' <=> Reported(j + 1)
                            /\ ReportAt(j)' = ReportAt(j + 1)
      BY <1>2, <1>3 DEF Reported, ReportAt
    <2>2. ASSUME NEW j \in k + 2 .. n + 1 PROVE ~Reported(j)
      <3>1. j - 1 \in k + 1 .. n /\ j - 1 \in 1 .. n /\ (j - 1) + 1 = j
        BY <1>2
      <3>2. ~Reported(j - 1)'
        BY <1>2, <1>3, <1>5, <3>1 DEF LastReport, n
      <3> QED
        BY <2>1, <3>1, <3>2
    <2>3. ASSUME NEW j \in k + 2 .. n + 1, queue[j].tag = "Downloading" PROVE Leaves(k)'
      <3>1. j - 1 \in k + 1 .. n /\ j - 1 \in 1 .. n /\ (j - 1) + 1 = j
        BY <1>2
      <3>2. queue'[j - 1] = queue[j]
        BY <1>2, <1>3, <3>1
      <3> QED
        BY <1>2, <1>3, <2>3, <3>1, <3>2 DEF Leaves, n
    <2>4. CASE k # 0 \/ h.tag = "ReadyToRelaunch"
      <3>1. k + 1 \in 0 .. n + 1 /\ (k + 1) + 1 = k + 2 /\ k + 1 # 0
        BY <1>2
      <3>2. Reported(k + 1) /\ ReportAt(k + 1) = ReportAt(k)'
        <4>1. CASE k # 0
          <5>1. k \in 1 .. n
            BY <1>2, <4>1
          <5> QED
            BY <1>5, <2>1, <5>1 DEF LastReport
        <4>2. CASE k = 0
          <5>1. h.tag = "ReadyToRelaunch" /\ k + 1 = 1
            BY <2>4, <4>2
          <5> QED
            BY <1>2, <1>4, <4>2, <5>1 DEF Reported, ReportAt, Release
        <4> QED
          BY <4>1, <4>2
      <3>3. LastReport(k + 1)
        BY <1>2, <2>2, <3>1, <3>2 DEF LastReport
      <3>4. Leaves(k + 1) => Leaves(k)'
        BY <1>2, <2>3, <3>1 DEF Leaves
      <3> QED
        BY <3>1, <3>2, <3>3, <3>4
    <2>5. CASE k = 0 /\ h.tag # "ReadyToRelaunch"
      <3>1. status'.tag = "Staged"
        BY <1>5, <2>5 DEF LastReport, Reported
      <3>2. status' = status /\ queue[1].tag \notin {"Downloading", "ReadyToRelaunch"}
        BY <1>2, <1>4, <2>5, <3>1
      <3>3. \A j \in 0 + 1 .. n + 1 : j = 1 \/ j \in k + 2 .. n + 1
        BY <1>2, <2>5
      <3>4. LastReport(0)
        BY <1>2, <2>2, <3>1, <3>2, <3>3 DEF LastReport, Reported
      <3>5. ReportAt(0) = ReportAt(k)'
        BY <2>5, <3>2 DEF ReportAt
      <3>6. Leaves(0) => Leaves(k)'
        BY <1>2, <2>3, <3>2, <3>3 DEF Leaves
      <3>7. 0 \in 0 .. n + 1
        BY <1>2
      <3> QED
        BY <3>4, <3>5, <3>6, <3>7
    <2> QED
      BY <2>4, <2>5
  <1>6. Len(queue') = n
    BY <1>3 DEF n
  <1>7. HostCanRelaunch'
    <2>1. ASSUME policy' = "HostRelaunches", alive', NEW k \in 0 .. Len(queue'), LastReport(k)'
          PROVE  block' = ReportAt(k)' \/ (block' = Unordered /\ Leaves(k)')
      BY <1>2, <1>3, <1>5, <1>6, <2>1, RelaunchIs DEF RelaunchInv
    <2> QED
      BY <2>1 DEF HostCanRelaunch, LastReport, Leaves
  <1>8. Leaving'
    BY <1>2, <1>3, <1>5, <1>6 DEF RelaunchInv, Leaving
  <1> QED
    BY <1>7, <1>8 DEF RelaunchInv

(* A new entity has nothing to report, and one that is gone cannot restart. *)
LEMMA NothingReported ==
  ASSUME WithDriver \/ Drop \/ Quit
  PROVE  RelaunchInv'
  <1>1. CASE WithDriver
    <2>1. status'.tag = "Idle" /\ (queue' = << >> \/ queue' = << Show("Failed") >>)
      BY <1>1 DEF WithDriver, Show
    <2>2. \A k \in 0 .. Len(queue') : ~Reported(k)'
      BY <2>1 DEF Reported, Show
    <2> QED
      BY <2>2 DEF RelaunchInv, HostCanRelaunch, Leaving, LastReport
  <1>2. CASE Drop \/ Quit
    BY <1>2 DEF Drop, Quit, RelaunchInv, HostCanRelaunch, Leaving
  <1> QED
    BY <1>1, <1>2

(* Every step keeps it.                                                     *)
LEMMA RelaunchStep == SInv /\ RelaunchInv /\ [Next]_vars => RelaunchInv'
  <1> SUFFICES ASSUME SInv, RelaunchInv, [Next]_vars PROVE RelaunchInv'
    OBVIOUS
  <1>0. queue \in Seq(Event)
    BY DEF SInv, TypeOK
  <1>1. ASSUME UNCHANGED << policy, entity, block >>,
               NEW tag \in {"Checking", "UpToDate", "Downloading", "Installing", "Settled"},
               Emit(<< Show(tag) >>),
               session' \in {"downloading", "extracting"} =>
                 session \in {"downloading", "extracting"} \/ tag = "Downloading"
        PROVE  RelaunchInv'
    <2> DEFINE es == << Show(tag) >>
    <2>1. es \in Seq(Event) /\ Len(es) = 1 /\ es[1].tag = tag
      BY DEF Show, Event
    <2> HIDE DEF es
    <2>2. Emit(es)
      BY <1>1 DEF es
    <2>3. /\ \A i \in 1 .. Len(es) : es[i].tag # "ReadyToRelaunch"
          /\ tag = "Downloading" => \E i \in 1 .. Len(es) : es[i].tag = "Downloading"
      BY <2>1
    <2> QED
      BY <1>0, <1>1, <2>1, <2>2, <2>3, EmitKeeps DEF entity
  <1>2. ASSUME CheckForUpdates, session' \in {"downloading", "extracting"}
        PROVE  session \in {"downloading", "extracting"}
    BY <1>2 DEF CheckForUpdates
  <1>3. CASE Check
    <2>1. CASE CanCheckForUpdates
      BY <1>1, <1>2, <1>3, <2>1 DEF Check
    <2>2. CASE ~CanCheckForUpdates
      <3>1. queue' = queue
        BY <1>0, <1>3, <2>2, EmitNone DEF Check
      <3> QED
        BY <1>2, <1>3, <3>1, SilenceKeeps DEF Check, entity
    <2> QED
      BY <2>1, <2>2
  <1>4. CASE DownloadAndInstall \/ CheckInBackground
    BY <1>2, <1>4, SilenceKeeps DEF DownloadAndInstall, CheckInBackground, entity
  <1>5. CASE Restart
    <2>1. session' \in {"downloading", "extracting"} => session \in {"downloading", "extracting"}
      BY <1>2, <1>5 DEF Restart
    <2> QED
      BY <1>5, <2>1, SilenceKeeps DEF Restart, entity
  <1>6. CASE AskToRelaunch
    BY <1>6, SilenceKeeps DEF AskToRelaunch, entity
  <1>7. ASSUME NEW i \in Item, DidFindValidUpdate(i) PROVE RelaunchInv'
    <2> DEFINE es == Report("Found", i)
    <2>1. /\ UNCHANGED << policy, alive, status, block >> /\ session' = "found" /\ Emit(es)
      BY <1>7 DEF DidFindValidUpdate, entity
    <2>2. es \in Seq(Event) /\ \A n \in 1 .. Len(es) : es[n].tag # "ReadyToRelaunch"
      <3>1. CASE i = Unordered
        BY <3>1 DEF Report
      <3>2. CASE i # Unordered
        <4>1. Release("Found", i) \in Event /\ Release("Found", i).tag = "Found"
          BY <3>2 DEF Release, Event, Item
        <4>2. es = << Release("Found", i) >>
          BY <3>2 DEF Report
        <4> HIDE DEF es
        <4> QED
          BY <4>1, <4>2
      <3> QED
        BY <3>1, <3>2
    <2> HIDE DEF es
    <2> QED
      BY <1>0, <2>1, <2>2, EmitKeeps
  <1>8. CASE DidNotFindUpdate \/ WillDownloadUpdate \/ WillExtractUpdate \/ WillInstallUpdate
    BY <1>1, <1>8
    DEF DidNotFindUpdate, WillDownloadUpdate, WillExtractUpdate, WillInstallUpdate
  <1>9. CASE UserDidCancelDownload
    BY <1>1, <1>9 DEF UserDidCancelDownload
  <1>10. ASSUME NEW error \in Error, DidFinishUpdateCycle(error) PROVE RelaunchInv'
    <2> DEFINE es == Disposition(error) \o << Show("Settled") >>
    <2>1. UNCHANGED << policy, alive, status, block >> /\ session' = "idle" /\ Emit(es)
      BY <1>10 DEF DidFinishUpdateCycle, entity
    <2>2. es \in Seq(Event) /\ \A n \in 1 .. Len(es) : es[n].tag # "ReadyToRelaunch"
      <3>0. \A tag \in {"Settled", "Failed"} : Show(tag) \in Event /\ Show(tag).tag = tag
        BY DEF Show, Event
      <3>1. CASE Disposition(error) = << >>
        <4>1. << Show("Settled") >> \in Seq(Event)
          BY <3>0
        <4>2. es = << Show("Settled") >>
          BY <3>1, <4>1, ConcatEmptySeq
        <4> HIDE DEF es
        <4> QED
          BY <3>0, <4>2
      <3>2. ASSUME NEW tag \in {"Settled", "Failed"}, Disposition(error) = << Show(tag) >>
            PROVE  es \in Seq(Event) /\ \A n \in 1 .. Len(es) : es[n].tag # "ReadyToRelaunch"
        <4>1. /\ << Show(tag) >> \in Seq(Event) /\ Len(<< Show(tag) >>) = 1
              /\ << Show("Settled") >> \in Seq(Event) /\ Len(<< Show("Settled") >>) = 1
          BY <3>0
        <4>2. /\ es \in Seq(Event) /\ Len(es) = 2
              /\ es[1] = Show(tag) /\ es[2] = Show("Settled")
          BY <3>2, <4>1, ConcatProperties
        <4> HIDE DEF es
        <4> QED
          BY <3>0, <4>2
      <3> QED
        BY <3>1, <3>2 DEF Disposition
    <2> HIDE DEF es
    <2> QED
      BY <1>0, <2>1, <2>2, EmitKeeps
  <1>11. CASE UNCHANGED vars
    BY <1>11, SilenceKeeps DEF vars, entity, sparkle
  <1> QED
    BY <1>3, <1>4, <1>5, <1>6, <1>7, <1>8, <1>9, <1>10, <1>11,
       StagingKeeps, PumpKeeps, NothingReported DEF Next

(* HostCanRelaunch: `restart` relaunches into the update reported last,     *)
(* whatever the view has been told of it.                                   *)
THEOREM RestartInstallsReported == Spec => []HostCanRelaunch
  <1>1. Init => RelaunchInv
    BY DEF Init, RelaunchInv, HostCanRelaunch, Leaving
  <1>2. RelaunchInv => HostCanRelaunch
    BY DEF RelaunchInv
  <1> QED
    BY <1>1, <1>2, Invariant, RelaunchStep, PTL DEF Spec

==============================================================================
