----------------------------- MODULE EventProofs -----------------------------
(***************************************************************************)
(* The copies of the event clients outside the qmaster, for any number of  *)
(* clients and ids, requests, changes and acknowledgements on the way.     *)
(*                                                                         *)
(* The inductive invariant gives each client a story: all events that the  *)
(* master has numbered for it since it registered.  What the master keeps  *)
(* for the client, what is on its way to it and what it has taken and not  *)
(* applied yet are pieces of the story, and its copy is where the piece    *)
(* before them ends.  That the story grows by an event that fits rests on  *)
(* the order of the requests: a list is queued between the changes it has  *)
(* and those it does not have.                                             *)
(***************************************************************************)
EXTENDS EventDelivery, SequenceTheorems, WellFoundedInduction, TLAPS

USE ClientAssumption, IdAssumption

-----------------------------------------------------------------------------
(* Small facts                                                               *)

LEMMA NothingToFlatten == FlattenSeq(<<>>) = <<>>
BY DEF FlattenSeq

LEMMA MinIsLeast ==
  ASSUME NEW S \in SUBSET Nat, S # {}
  PROVE  Min(S) \in S /\ \A y \in S : Min(S) <= y
<1>1. PICK x \in S : \A y \in S : ~(<<y, x>> \in OpToRel(<, Nat))
  BY NatLessThanWellFounded, WFMin
<1>2. \A y \in S : x <= y
  <2>1. \A y \in S : ~(y < x)
    BY <1>1 DEF OpToRel
  <2> QED BY <2>1
<1> QED BY <1>2 DEF Min

\* What is left of a list when its head is removed is its end.
EndOf(s, list) ==
  /\ s \in Seq(Event) /\ Len(s) <= Len(list)
  /\ \A k \in 1 .. Len(s) : s[k] = list[Len(list) - Len(s) + k]

LEMMA BehindIsEnd ==
  ASSUME NEW list \in Seq(Event), NEW n \in Int
  PROVE  EndOf(Behind(list, n), list)
<1> DEFINE Stop(j) == j < Len(list) => list[j + 1].number > n
           Fits(j) == (\A i \in 1 .. j : list[i].number <= n) /\ Stop(j)
<1>1. Len(list) \in Nat /\ \A i \in 1 .. Len(list) : list[i] \in Event
  BY ElementOfSeq, LenProperties
<1>2. \E j \in 0 .. Len(list) : Fits(j)
  <2> DEFINE T == {j \in 0 .. Len(list) : Stop(j)}
  <2>1. T \in SUBSET Nat /\ T # {}
    <3>1. Len(list) \in T
      BY <1>1
    <3> QED BY <1>1, <3>1
  <2>2. PICK x \in T : \A y \in T : x <= y
    <3> HIDE DEF T
    <3> QED BY <2>1, MinIsLeast
  <2>3. \A y \in T : ~(y < x)
    BY <2>1, <2>2
  <2>4. ASSUME NEW i \in 1 .. x PROVE list[i].number <= n
    <3>1. i - 1 \in 0 .. Len(list) /\ i - 1 < x /\ (i - 1) + 1 = i /\ i \in 1 .. Len(list)
      BY <1>1
    <3>2. ~Stop(i - 1)
      BY <2>3, <3>1
    <3>3. list[i].number \in Nat
      BY <1>1, <3>1 DEF Event
    <3> QED BY <3>1, <3>2, <3>3
  <2> QED BY <2>4
<1>3. PICK k \in 0 .. Len(list) : Behind(list, n) = SubSeq(list, k + 1, Len(list))
  <2> DEFINE k == CHOOSE j \in 0 .. Len(list) : Fits(j)
  <2>1. k \in 0 .. Len(list)
    BY <1>2
  <2> QED BY <2>1 DEF Behind
<1>4. \A i \in k + 1 .. Len(list) : list[i] \in Event
  BY <1>1
<1>5. /\ Behind(list, n) \in Seq(Event)
      /\ Len(Behind(list, n)) = IF k + 1 <= Len(list) THEN Len(list) - (k + 1) + 1 ELSE 0
      /\ \A i \in 1 .. Len(list) - (k + 1) + 1 : Behind(list, n)[i] = list[(k + 1) + i - 1]
  BY <1>1, <1>3, <1>4, SubSeqProperties
<1>6. Len(Behind(list, n)) = Len(list) - k
  BY <1>1, <1>5
<1>7. ASSUME NEW i \in 1 .. Len(list) - k
      PROVE  Behind(list, n)[i] = list[Len(list) - (Len(list) - k) + i]
  <2>1. (k + 1) + i - 1 = Len(list) - (Len(list) - k) + i /\ i \in 1 .. Len(list) - (k + 1) + 1
    BY <1>1
  <2> QED BY <1>5, <2>1
<1>8. Len(Behind(list, n)) <= Len(list)
  BY <1>1, <1>6
<1>9. \A i \in 1 .. Len(Behind(list, n)) :
        Behind(list, n)[i] = list[Len(list) - Len(Behind(list, n)) + i]
  BY <1>6, <1>7
<1> QED BY <1>5, <1>8, <1>9 DEF EndOf

-----------------------------------------------------------------------------
(* The requests                                                              *)

RequestType == [op : {"event", "list", "ack", "mod"}, id : Ids \cup {0}, number : Nat]

\* The changes whose events have been queued.
Queued == IF writing THEN version - 1 ELSE version

\* The first k requests of q lead to version f[k], all of them to v: the events
\* are in order, and a list has the changes before it.
Reaches(f, q, v) ==
  /\ f \in [0 .. Len(q) -> 0 .. v]
  /\ f[Len(q)] = v
  /\ \A k \in 1 .. Len(q) :
       /\ f[k] = IF q[k].op = "event" THEN f[k - 1] + 1 ELSE f[k - 1]
       /\ q[k].op = "event" => q[k].number = f[k]
       /\ q[k].op = "list" /\ q[k].id \in DynamicId => q[k].number = f[k]

QueueInv(d) == \E f : Reaches(f, requests, Queued) /\ f[0] = d

LEMMA QueueGrows ==
  ASSUME NEW q \in Seq(RequestType), NEW v \in Nat, NEW f, Reaches(f, q, v),
         NEW r \in RequestType, NEW w \in Nat,
         w = IF r.op = "event" THEN v + 1 ELSE v,
         r.op = "event" => r.number = w,
         r.op = "list" /\ r.id \in DynamicId => r.number = w
  PROVE  \E g : Reaches(g, Append(q, r), w) /\ g[0] = f[0]
<1> DEFINE n == Len(q)
           p == Append(q, r)
           g == [k \in 0 .. n + 1 |-> IF k <= n THEN f[k] ELSE w]
<1>1. n \in Nat /\ Len(p) = n + 1 /\ p[n + 1] = r /\ \A k \in 1 .. n : p[k] = q[k]
  BY AppendProperties, LenProperties
<1> HIDE DEF p
<1>2. f \in [0 .. n -> 0 .. v] /\ f[n] = v
  BY DEF Reaches
<1>3. v <= w
  OBVIOUS
<1>4. g \in [0 .. n + 1 -> 0 .. w] /\ g[n + 1] = w /\ g[0] = f[0]
  BY <1>1, <1>2, <1>3
<1>5. ASSUME NEW k \in 1 .. n + 1
      PROVE  /\ g[k] = IF p[k].op = "event" THEN g[k - 1] + 1 ELSE g[k - 1]
             /\ p[k].op = "event" => p[k].number = g[k]
             /\ p[k].op = "list" /\ p[k].id \in DynamicId => p[k].number = g[k]
  <2>1. CASE k <= n
    <3>1. k \in 1 .. n /\ g[k] = f[k] /\ g[k - 1] = f[k - 1] /\ p[k] = q[k]
      BY <1>1, <2>1
    <3> QED BY <3>1 DEF Reaches
  <2>2. CASE k = n + 1
    <3>1. g[k] = w /\ g[k - 1] = v /\ p[k] = r
      BY <1>1, <1>2, <2>2
    <3> QED BY <3>1
  <2> QED BY <1>1, <2>1, <2>2
<1> HIDE DEF g
<1>6. Reaches(g, p, w)
  BY <1>1, <1>4, <1>5 DEF Reaches
<1> QED BY <1>4, <1>6 DEF p

LEMMA QueueShrinks ==
  ASSUME NEW q \in Seq(RequestType), q # <<>>, NEW v \in Nat, NEW f, Reaches(f, q, v)
  PROVE  /\ \E g : Reaches(g, Tail(q), v) /\ g[0] = f[1]
         /\ f[1] = IF Head(q).op = "event" THEN f[0] + 1 ELSE f[0]
         /\ Head(q).op = "event" => Head(q).number = f[1]
         /\ Head(q).op = "list" /\ Head(q).id \in DynamicId => Head(q).number = f[1]
<1> DEFINE n == Len(q)
           p == Tail(q)
           g == [k \in 0 .. n - 1 |-> f[k + 1]]
<1>1. n \in Nat /\ n >= 1 /\ Len(p) = n - 1 /\ Head(q) = q[1]
      /\ \A k \in 1 .. n - 1 : p[k] = q[k + 1]
  BY HeadTailProperties, LenProperties, EmptySeq
<1> HIDE DEF p
<1>2. f \in [0 .. n -> 0 .. v] /\ f[n] = v
  BY DEF Reaches
<1>3. g \in [0 .. n - 1 -> 0 .. v] /\ g[n - 1] = v /\ g[0] = f[1]
  BY <1>1, <1>2
<1>4. ASSUME NEW k \in 1 .. n - 1
      PROVE  /\ g[k] = IF p[k].op = "event" THEN g[k - 1] + 1 ELSE g[k - 1]
             /\ p[k].op = "event" => p[k].number = g[k]
             /\ p[k].op = "list" /\ p[k].id \in DynamicId => p[k].number = g[k]
  <2>1. k + 1 \in 1 .. n /\ g[k] = f[k + 1] /\ g[k - 1] = f[(k + 1) - 1] /\ p[k] = q[k + 1]
    BY <1>1
  <2> QED BY <2>1 DEF Reaches
<1> HIDE DEF g
<1>5. Reaches(g, p, v)
  BY <1>1, <1>3, <1>4 DEF Reaches
<1>6. 1 \in 1 .. n /\ 1 - 1 = 0
  BY <1>1
<1>7. /\ f[1] = IF q[1].op = "event" THEN f[0] + 1 ELSE f[0]
      /\ q[1].op = "event" => q[1].number = f[1]
      /\ q[1].op = "list" /\ q[1].id \in DynamicId => q[1].number = f[1]
  BY <1>6 DEF Reaches
<1> QED BY <1>1, <1>3, <1>5, <1>7 DEF p

-----------------------------------------------------------------------------
(* The inductive invariant                                                   *)

Copy == [id : Ids \cup {0}, next_event : Nat \ {0}, received : Seq(Event),
         view : Nat \cup {Nothing, Early, Broken}]

MasterTypes ==
  /\ version \in Nat /\ writing \in BOOLEAN /\ (writing => version # 0)
  /\ requests \in Seq(RequestType) /\ batch \in Nat
  /\ deliverer = "process" => batch <= Len(requests)
  /\ clients \in [Ids -> EventClient \cup {NoClient}]
  /\ acks \subseteq [id : Ids, number : Nat]

\* (What the scheduler has got is left open.)
ClientTypes ==
  /\ ec = [m \in Members |-> ec[m]] /\ reports = [m \in Members |-> reports[m]]
  /\ \A c \in Client : ec[c] \in Copy /\ reports[c] \in Seq(Seq(Event)) /\ Len(reports[c]) <= 1

Owners ==
  \A i \in Ids : clients[i] # NoClient =>
    IF i = SchedId THEN clients[i].owner = Scheduler
                   ELSE clients[i].owner \in Client /\ clients[i].subscribed

Types == MasterTypes /\ ClientTypes /\ Owners

\* What the master has of client c by its present registration.
Account(c) ==
  LET i == ec[c].id
  IN IF i # 0 /\ clients[i] # NoClient /\ clients[i].owner = c THEN clients[i] ELSE NoClient

\* The events of a registration, when d is the version they lead to.
Story(h, d) ==
  \A n \in 1 .. Len(h) :
    /\ h[n].number = n /\ h[n].version <= d
    /\ n = 1 => h[n].kind = "list"
    /\ n > 1 => \/ h[n].kind = "list" /\ h[n - 1].version <= h[n].version
                \/ h[n].kind = "change" /\ h[n].version = h[n - 1].version + 1

\* An event of the story, or the news that the master has removed the client:
\* x is what it has of it.
Told(m, h, x) ==
  \/ m.number \in 1 .. Len(h) /\ m = h[m.number]
  \/ m.kind = "timeout" /\ m.number = Len(h) + 1 /\ x = NoClient

\* The place in the story up to which client e has applied the events.
Place(e) == e.next_event - 1 - Len(e.received)

HasRead(e, h, d, x) ==
  /\ e.view = Nothing \/ e.view \in 0 .. d
  /\ Place(e) >= 0
  /\ \A k \in 1 .. Len(e.received) : e.received[k].number = Place(e) + k /\ Told(e.received[k], h, x)
  /\ e.next_event <= Len(h) + 2 /\ (e.id # 0 => e.next_event <= Len(h) + 1)
  /\ e.id # 0 \/ e.received # <<>> =>
       /\ Place(e) \in 1 .. Len(h) => e.view = h[Place(e)].version
       /\ Place(e) = 0 /\ Len(h) > 0 /\ e.view # Nothing => e.view <= h[1].version

\* The report r on the way to client e.
WillGet(e, r, h, x) ==
  /\ e.id = 0 => r = <<>>
  /\ r # <<>> => \A k \in 1 .. Len(r[1]) : Told(r[1][k], h, x)

\* What the master has of the client.
Keeps(x, h, d) ==
  /\ x.next_number = Len(h) + 1
  /\ EndOf(x.events, h)
  /\ ~x.terminated => /\ x.blocked <=> Len(h) = 0
                      /\ Len(h) > 0 => h[Len(h)].version = d

Followed(e, r, x, h, d) ==
  /\ Story(h, d) /\ HasRead(e, h, d, x) /\ WillGet(e, r, h, x)
  /\ x # NoClient => Keeps(x, h, d)

HasStory(c, d) == \E h \in Seq(Event) : Followed(ec[c], reports[c], Account(c), h, d)

Follows(d) == \A c \in Client : HasStory(c, d)

EventInv == Types /\ \E d \in Nat : QueueInv(d) /\ Follows(d)

-----------------------------------------------------------------------------
(* What a step does to one client                                            *)

LEMMA IdsAndMembers == Client \subseteq Members /\ Scheduler \in Members /\ 0 \notin Ids
BY DEF Members, Ids

\* An account after a step that may remove events from its head, and end the
\* client.
Shortened(y, x) ==
  /\ y.next_number = x.next_number /\ y.blocked = x.blocked
  /\ y.terminated = x.terminated \/ y.terminated = TRUE
  /\ EndOf(y.events, x.events)

LEMMA Places ==
  ASSUME NEW a \in Nat, NEW b \in Nat, NEW n \in Nat, a <= b, b <= n, NEW k \in 1 .. a
  PROVE  b - a + k \in 1 .. b /\ n - b + (b - a + k) = n - a + k
OBVIOUS

LEMMA EndOfEnd ==
  ASSUME NEW s, NEW t, NEW list, Len(s) \in Nat, Len(t) \in Nat, Len(list) \in Nat,
         EndOf(s, t), EndOf(t, list)
  PROVE  EndOf(s, list)
<1>1. /\ s \in Seq(Event) /\ Len(s) <= Len(t) /\ Len(t) <= Len(list)
      /\ \A k \in 1 .. Len(s) : s[k] = t[Len(t) - Len(s) + k]
      /\ \A k \in 1 .. Len(t) : t[k] = list[Len(list) - Len(t) + k]
  BY DEF EndOf
<1>2. ASSUME NEW k \in 1 .. Len(s) PROVE s[k] = list[Len(list) - Len(s) + k]
  <2>1. /\ Len(t) - Len(s) + k \in 1 .. Len(t)
        /\ Len(list) - Len(t) + (Len(t) - Len(s) + k) = Len(list) - Len(s) + k
    BY <1>1, Places
  <2> QED BY <1>1, <2>1
<1>3. Len(s) <= Len(list)
  BY <1>1
<1> QED BY <1>1, <1>2, <1>3 DEF EndOf

LEMMA EndOfElement ==
  ASSUME NEW s, NEW list, Len(s) \in Nat, Len(list) \in Nat, EndOf(s, list), NEW k \in 1 .. Len(s)
  PROVE  \E n \in 1 .. Len(list) : s[k] = list[n]
<1>1. Len(s) <= Len(list) /\ Len(list) <= Len(list)
  BY DEF EndOf
<1>2. Len(list) - Len(s) + k \in 1 .. Len(list)
  BY <1>1, Places
<1> QED BY <1>2 DEF EndOf

LEMMA ShortenedKeeps ==
  ASSUME NEW h \in Seq(Event), NEW d \in Nat, NEW x \in EventClient, NEW y, Shortened(y, x),
         Keeps(x, h, d)
  PROVE  Keeps(y, h, d)
<1>1. Len(h) \in Nat /\ Len(x.events) \in Nat /\ Len(y.events) \in Nat
  BY LenProperties DEF EventClient, Shortened, EndOf
<1>2. EndOf(y.events, h)
  BY <1>1, EndOfEnd DEF Shortened, Keeps
<1> QED BY <1>2 DEF Keeps, Shortened

\* The master shortens or drops the account.
LEMMA StoryStays ==
  ASSUME NEW e, NEW r, NEW h \in Seq(Event), NEW d \in Nat,
         NEW x \in EventClient \cup {NoClient}, NEW y, Followed(e, r, x, h, d),
         y = NoClient \/ (x # NoClient /\ Shortened(y, x))
  PROVE  Followed(e, r, y, h, d)
<1>1. y # NoClient => Keeps(y, h, d)
  BY ShortenedKeeps DEF Followed
<1>2. \A m : Told(m, h, x) => Told(m, h, y)
  BY DEF Told
<1>3. HasRead(e, h, d, y)
  BY <1>2 DEF Followed, HasRead
<1>4. WillGet(e, r, h, y)
  BY <1>2 DEF Followed, WillGet
<1> QED BY <1>1, <1>3, <1>4 DEF Followed

\* The client gives up its registration, and its copy stays or goes.
LEMMA StoryEnds ==
  ASSUME NEW e \in Copy, NEW r, NEW h \in Seq(Event), NEW d \in Nat, NEW x, Followed(e, r, x, h, d),
         e.received = <<>>, NEW f \in Copy, f.id = 0, f.next_event = e.next_event,
         f.received = <<>>, f.view \in {e.view, Nothing}
  PROVE  Followed(f, <<>>, NoClient, h, d)
<1>1. Len(<<>>) = 0
  BY EmptySeq
<1>2. HasRead(f, h, d, NoClient)
  BY <1>1 DEF Followed, HasRead, Place
<1>3. WillGet(f, <<>>, h, NoClient)
  BY DEF WillGet
<1> QED BY <1>2, <1>3 DEF Followed

\* A new registration begins a new story.
LEMMA StoryBegins ==
  ASSUME NEW e \in Copy, NEW r, NEW h \in Seq(Event), NEW d \in Nat, NEW x, Followed(e, r, x, h, d),
         e.id = 0, e.received = <<>>,
         NEW f \in Copy, f.next_event = 1, f.received = <<>>, f.view = e.view,
         NEW c
  PROVE  Followed(f, r, NewClient(c, TRUE), <<>>, d)
<1>1. Len(<<>>) = 0 /\ <<>> \in Seq(Event) /\ \A k \in 1 .. 0 : FALSE
  BY EmptySeq
<1>2. HasRead(f, <<>>, d, NewClient(c, TRUE))
  BY <1>1 DEF Followed, HasRead, Place
<1>3. WillGet(f, r, <<>>, NewClient(c, TRUE))
  BY <1>1 DEF Followed, WillGet
<1>4. Keeps(NewClient(c, TRUE), <<>>, d)
  BY <1>1 DEF NewClient, Keeps, EndOf
<1>5. Story(<<>>, d)
  BY <1>1 DEF Story
<1> QED BY <1>2, <1>3, <1>4, <1>5 DEF Followed

\* The version moves on, and the master tells the client nothing.
LEMMA StoryWaits ==
  ASSUME NEW e, NEW r, NEW h \in Seq(Event), NEW d \in Nat,
         NEW x \in EventClient \cup {NoClient}, Followed(e, r, x, h, d),
         x = NoClient \/ x.terminated \/ x.blocked
  PROVE  Followed(e, r, x, h, d + 1)
<1>1. Len(h) \in Nat /\ (\A n \in 1 .. Len(h) : h[n] \in Event) /\ d \in Int /\ d + 1 \in Int
  BY ElementOfSeq, LenProperties
<1>2. Story(h, d + 1)
  <2>1. ASSUME NEW n \in 1 .. Len(h) PROVE h[n].version <= d + 1
    <3>1. h[n].version \in Nat /\ h[n].version <= d
      BY <1>1 DEF Event, Followed, Story
    <3> QED BY <3>1
  <2> QED BY <2>1 DEF Followed, Story
<1>3. HasRead(e, h, d + 1, x)
  <2>1. 0 .. d \subseteq 0 .. d + 1
    BY <1>1
  <2> QED BY <2>1 DEF Followed, HasRead
<1>4. ASSUME x # NoClient PROVE Keeps(x, h, d + 1)
  <2>1. Keeps(x, h, d) /\ (x.terminated \/ x.blocked)
    BY <1>4 DEF Followed
  <2>2. Len(h) = 0 => ~(Len(h) > 0)
    BY <1>1
  <2> QED BY <2>1, <2>2 DEF Keeps
<1> QED BY <1>2, <1>3, <1>4 DEF Followed

LEMMA EndOfAppended ==
  ASSUME NEW s, NEW list \in Seq(Event), NEW m \in Event, EndOf(s, list)
  PROVE  EndOf(Append(s, m), Append(list, m))
<1> DEFINE t == Append(s, m)
           all == Append(list, m)
<1>1. s \in Seq(Event) /\ Len(s) \in Nat /\ Len(list) \in Nat /\ Len(s) <= Len(list)
  BY LenProperties DEF EndOf
<1>2. /\ t \in Seq(Event) /\ Len(t) = Len(s) + 1 /\ t[Len(s) + 1] = m
      /\ \A k \in 1 .. Len(s) : t[k] = s[k]
  BY <1>1, AppendProperties
<1>3. /\ Len(all) = Len(list) + 1 /\ all[Len(list) + 1] = m
      /\ \A k \in 1 .. Len(list) : all[k] = list[k]
  BY AppendProperties
<1> HIDE DEF t, all
<1>4. ASSUME NEW k \in 1 .. Len(s) + 1 PROVE t[k] = all[(Len(list) + 1) - (Len(s) + 1) + k]
  <2>1. CASE k = Len(s) + 1
    <3>1. (Len(list) + 1) - (Len(s) + 1) + k = Len(list) + 1
      BY <1>1, <2>1
    <3> QED BY <1>2, <1>3, <2>1, <3>1
  <2>2. CASE k \in 1 .. Len(s)
    <3>1. /\ (Len(list) + 1) - (Len(s) + 1) + k = Len(list) - Len(s) + k
          /\ Len(list) - Len(s) + k \in 1 .. Len(list)
      BY <1>1, <2>2
    <3>2. s[k] = list[Len(list) - Len(s) + k]
      BY <2>2 DEF EndOf
    <3> QED BY <1>2, <1>3, <2>2, <3>1, <3>2
  <2> QED BY <1>1, <2>1, <2>2
<1>5. Len(s) + 1 <= Len(list) + 1
  BY <1>1
<1>6. EndOf(t, all)
  BY <1>2, <1>3, <1>4, <1>5 DEF EndOf
<1> QED BY <1>6 DEF t, all

\* The master tells the client m, which leads to version w.
LEMMA StoryGrows ==
  ASSUME NEW e \in Copy, NEW r, NEW h \in Seq(Event), NEW d \in Nat, NEW x \in EventClient,
         Followed(e, r, x, h, d), x # NoClient, e.id # 0, ~x.terminated,
         NEW w \in Nat, NEW m \in Event, m.number = x.next_number, m.version = w,
         (m.kind = "list" /\ w = d) \/ (m.kind = "change" /\ w = d + 1 /\ ~x.blocked),
         NEW y, y.next_number = x.next_number + 1, y.events = Append(x.events, m),
         ~y.terminated, y.blocked = (x.blocked /\ m.kind # "list")
  PROVE  Followed(e, r, y, Append(h, m), w)
<1> DEFINE g == Append(h, m)
<1>1. Len(h) \in Nat /\ \A n \in 1 .. Len(h) : h[n] \in Event
  BY ElementOfSeq, LenProperties
<1>2. /\ g \in Seq(Event) /\ Len(g) = Len(h) + 1 /\ g[Len(h) + 1] = m
      /\ \A n \in 1 .. Len(h) : g[n] = h[n]
  BY AppendProperties
<1> HIDE DEF g
<1>3. /\ x.next_number = Len(h) + 1 /\ EndOf(x.events, h)
      /\ x.blocked <=> Len(h) = 0
      /\ Len(h) > 0 => h[Len(h)].version = d
      /\ m.number = Len(h) + 1
  BY DEF Followed, Keeps
<1>4. d <= w
  OBVIOUS
<1>5. Story(g, w)
  <2> SUFFICES ASSUME NEW n \in 1 .. Len(h) + 1
               PROVE  /\ g[n].number = n /\ g[n].version <= w
                      /\ n = 1 => g[n].kind = "list"
                      /\ n > 1 => \/ g[n].kind = "list" /\ g[n - 1].version <= g[n].version
                                  \/ g[n].kind = "change" /\ g[n].version = g[n - 1].version + 1
    BY <1>2 DEF Story
  <2>1. CASE n \in 1 .. Len(h)
    <3>1. g[n] = h[n] /\ (n > 1 => g[n - 1] = h[n - 1])
      <4>1. n > 1 => n - 1 \in 1 .. Len(h)
        BY <1>1, <2>1
      <4> QED BY <1>2, <2>1, <4>1
    <3>2. h[n].version <= w
      <4>1. h[n].version \in Nat /\ h[n].version <= d
        BY <1>1, <2>1 DEF Event, Followed, Story
      <4> QED BY <1>4, <4>1
    <3> QED BY <2>1, <3>1, <3>2 DEF Followed, Story
  <2>2. CASE n = Len(h) + 1
    <3>1. g[n] = m /\ w <= w
      BY <1>2, <2>2
    <3>2. n = 1 => Len(h) = 0
      BY <1>1, <2>2
    <3>3. n = 1 => m.kind = "list"
      BY <1>3, <3>2
    <3>4. ASSUME n > 1 PROVE g[n - 1].version = d
      <4>1. n - 1 = Len(h) /\ Len(h) > 0 /\ Len(h) \in 1 .. Len(h)
        BY <1>1, <2>2, <3>4
      <4> QED BY <1>2, <1>3, <4>1
    <3>5. n > 1 => \/ m.kind = "list" /\ g[n - 1].version <= w
                   \/ m.kind = "change" /\ w = g[n - 1].version + 1
      BY <1>4, <3>4
    <3> QED BY <1>3, <2>2, <3>1, <3>3, <3>5
  <2> QED BY <1>1, <2>1, <2>2
<1>6. ASSUME NEW n, Told(n, h, x) PROVE Told(n, g, y)
  <2>1. n.number \in 1 .. Len(h) /\ n = h[n.number]
    BY <1>6 DEF Told
  <2>2. n.number \in 1 .. Len(g)
    BY <1>1, <1>2, <2>1
  <2> QED BY <1>2, <2>1, <2>2 DEF Told
<1>7. HasRead(e, g, w, y)
  <2>1. /\ e.view = Nothing \/ e.view \in 0 .. d
        /\ Place(e) >= 0
        /\ \A k \in 1 .. Len(e.received) :
             e.received[k].number = Place(e) + k /\ Told(e.received[k], h, x)
        /\ e.next_event <= Len(h) + 1
        /\ Place(e) \in 1 .. Len(h) => e.view = h[Place(e)].version
        /\ Place(e) = 0 /\ Len(h) > 0 /\ e.view # Nothing => e.view <= h[1].version
    BY DEF Followed, HasRead
  <2>2. e.next_event \in Nat /\ e.received \in Seq(Event)
    BY DEF Copy
  <2>3. Len(e.received) \in Nat
    BY <2>2, LenProperties
  <2>4. Place(e) \in Nat /\ Place(e) <= Len(h)
    <3>1. e.next_event - 1 - Len(e.received) \in Int /\ e.next_event - 1 - Len(e.received) <= e.next_event - 1
      BY <2>2, <2>3
    <3>2. e.next_event - 1 <= Len(h) /\ e.next_event - 1 \in Int
      BY <1>1, <2>1, <2>2
    <3> QED BY <1>1, <2>1, <3>1, <3>2 DEF Place
  <2>5. e.view = Nothing \/ e.view \in 0 .. w
    BY <1>4, <2>1
  <2>6. e.next_event <= Len(g) + 2 /\ e.next_event <= Len(g) + 1
    BY <1>1, <1>2, <2>1, <2>2
  <2>7. Place(e) \in 1 .. Len(g) => e.view = g[Place(e)].version
    <3>1. Place(e) \in 1 .. Len(g) => Place(e) \in 1 .. Len(h)
      BY <1>1, <1>2, <2>4
    <3> QED BY <1>2, <2>1, <3>1
  <2>8. ASSUME Place(e) = 0, e.view # Nothing PROVE e.view <= g[1].version
    <3>1. CASE Len(h) = 0
      <4>1. g[1] = m
        BY <1>2, <3>1
      <4> QED BY <2>5, <2>8, <4>1
    <3>2. CASE Len(h) > 0
      <4>1. 1 \in 1 .. Len(h)
        BY <1>1, <3>2
      <4> QED BY <1>2, <2>1, <2>8, <3>2, <4>1
    <3> QED BY <1>1, <3>1, <3>2
  <2> QED BY <1>6, <2>1, <2>5, <2>6, <2>7, <2>8 DEF HasRead
<1>8. WillGet(e, r, g, y)
  BY <1>6 DEF Followed, WillGet
<1>9. Keeps(y, g, w)
  <2>1. EndOf(y.events, g)
    BY <1>3, EndOfAppended DEF g
  <2>2. y.blocked <=> Len(g) = 0
    <3>1. Len(g) # 0
      BY <1>1, <1>2
    <3>2. ~y.blocked
      OBVIOUS
    <3> QED BY <3>1, <3>2
  <2>3. Len(g) + 1 = Len(h) + 1 + 1
    BY <1>1, <1>2
  <2> QED BY <1>2, <1>3, <2>1, <2>2, <2>3 DEF Keeps
<1> QED BY <1>5, <1>7, <1>8, <1>9 DEF Followed, g

\* The client is sent what the master keeps for it, and at last that it is removed.
LEMMA StorySent ==
  ASSUME NEW e, NEW r, NEW h \in Seq(Event), NEW d \in Nat, NEW x \in EventClient,
         Followed(e, r, x, h, d), x # NoClient, e.id # 0,
         NEW m \in Event, m.number = x.next_number, m.kind = "timeout",
         NEW y, y = NoClient \/ Shortened(y, x),
         NEW last, last = <<>> \/ (last = <<m>> /\ y = NoClient)
  PROVE  Followed(e, <<x.events \o last>>, y, h, d)
<1> DEFINE report == x.events \o last
<1>1. Followed(e, r, y, h, d)
  BY StoryStays
<1>2. /\ Len(h) \in Nat /\ x.events \in Seq(Event) /\ Len(x.events) \in Nat
      /\ EndOf(x.events, h) /\ m.number = Len(h) + 1
      /\ \A n \in 1 .. Len(h) : h[n].number = n
  BY LenProperties DEF EventClient, Followed, Keeps, Story
<1>3. ASSUME NEW k \in 1 .. Len(x.events) PROVE Told(x.events[k], h, y)
  <2>1. PICK n \in 1 .. Len(h) : x.events[k] = h[n]
    BY <1>2, EndOfElement
  <2> QED BY <1>2, <2>1 DEF Told
<1>4. ASSUME NEW k \in 1 .. Len(report) PROVE Told(report[k], h, y)
  <2>1. CASE last = <<>>
    <3>1. report = x.events
      BY <1>2, <2>1, ConcatEmptySeq
    <3> QED BY <1>3, <3>1
  <2>2. CASE last = <<m>> /\ y = NoClient
    <3>1. report = Append(x.events, m)
      BY <1>2, <2>2, AppendIsConcat
    <3>2. /\ Len(report) = Len(x.events) + 1 /\ report[Len(x.events) + 1] = m
          /\ \A n \in 1 .. Len(x.events) : report[n] = x.events[n]
      BY <1>2, <3>1, AppendProperties
    <3>3. CASE k = Len(x.events) + 1
      BY <1>2, <2>2, <3>2, <3>3 DEF Told
    <3>4. CASE k \in 1 .. Len(x.events)
      BY <1>3, <3>2, <3>4
    <3> HIDE DEF report
    <3> QED BY <1>2, <3>2, <3>3, <3>4
  <2> QED BY <2>1, <2>2
<1> HIDE DEF report
<1>5. WillGet(e, <<report>>, h, y)
  BY <1>4 DEF WillGet
<1>6. Followed(e, <<report>>, y, h, d)
  BY <1>1, <1>5 DEF Followed
<1> QED BY <1>6 DEF report

\* The client applies an event that it has taken.
LEMMA StoryApplied ==
  ASSUME NEW e \in Copy, NEW r, NEW h \in Seq(Event), NEW d \in Nat, NEW x, Followed(e, r, x, h, d),
         e.received # <<>>,
         NEW f \in Copy, f.id = e.id, f.next_event = e.next_event, f.received = Tail(e.received),
         f.view = Applied(e.view, Head(e.received))
  PROVE  /\ Followed(f, r, x, h, d)
         /\ f.view = e.view \/ (f.view \in 0 .. d /\ (e.view = Nothing \/ e.view <= f.view))
<1> DEFINE m == Head(e.received)
           p == Place(e)
<1>1. e.next_event \in Nat /\ e.received \in Seq(Event) /\ Len(h) \in Nat
  BY LenProperties DEF Copy
<1>2. /\ Len(e.received) \in Nat /\ Len(e.received) >= 1 /\ m = e.received[1]
      /\ Tail(e.received) \in Seq(Event) /\ Len(Tail(e.received)) = Len(e.received) - 1
      /\ \A k \in 1 .. Len(e.received) - 1 : Tail(e.received)[k] = e.received[k + 1]
  BY <1>1, HeadTailProperties, LenProperties, EmptySeq
<1>3. /\ e.view = Nothing \/ e.view \in 0 .. d
      /\ p >= 0
      /\ \A k \in 1 .. Len(e.received) :
           e.received[k].number = p + k /\ Told(e.received[k], h, x)
      /\ e.next_event <= Len(h) + 2 /\ (e.id # 0 => e.next_event <= Len(h) + 1)
      /\ p \in 1 .. Len(h) => e.view = h[p].version
      /\ p = 0 /\ Len(h) > 0 /\ e.view # Nothing => e.view <= h[1].version
  BY DEF Followed, HasRead
<1>4. p \in Nat /\ Place(f) = p + 1
  <2>1. p \in Nat
    BY <1>1, <1>2, <1>3 DEF Place
  <2>2. e.next_event - 1 - (Len(e.received) - 1) = (e.next_event - 1 - Len(e.received)) + 1
    BY <1>1, <1>2
  <2>3. Place(f) = e.next_event - 1 - (Len(e.received) - 1)
    BY <1>2 DEF Place
  <2> QED BY <2>1, <2>2, <2>3 DEF Place
<1>5. m.number = p + 1 /\ Told(m, h, x)
  BY <1>2, <1>3
<1> HIDE DEF p
<1>6. \A k \in 1 .. Len(f.received) :
        f.received[k].number = Place(f) + k /\ Told(f.received[k], h, x)
  <2> TAKE k \in 1 .. Len(f.received)
  <2>1. k + 1 \in 1 .. Len(e.received) /\ k \in 1 .. Len(e.received) - 1
    BY <1>2
  <2>2. p + (k + 1) = (p + 1) + k
    BY <1>2, <1>4
  <2> QED BY <1>2, <1>3, <1>4, <2>1, <2>2
<1>7. /\ f.view = Nothing \/ f.view \in 0 .. d
      /\ p + 1 \in 1 .. Len(h) => f.view = h[p + 1].version
      /\ f.view = e.view \/ (f.view \in 0 .. d /\ (e.view = Nothing \/ e.view <= f.view))
  <2>1. CASE m.number \in 1 .. Len(h) /\ m = h[m.number]
    <3>1. p + 1 \in 1 .. Len(h) /\ m = h[p + 1] /\ m \in Event
      BY <1>1, <1>5, <2>1, ElementOfSeq
    <3>2. /\ m.version \in 0 .. d
          /\ p + 1 = 1 => m.kind = "list"
          /\ p + 1 > 1 => \/ m.kind = "list" /\ h[(p + 1) - 1].version <= m.version
                          \/ m.kind = "change" /\ m.version = h[(p + 1) - 1].version + 1
      <4>1. m.version \in Nat /\ m.version <= d
        BY <3>1 DEF Followed, Story, Event
      <4> QED BY <3>1, <4>1 DEF Followed, Story
    <3>3. CASE p = 0
      <4>1. f.view = m.version
        BY <3>2, <3>3 DEF Applied
      <4>2. Len(h) > 0 /\ h[p + 1] = h[1]
        BY <1>1, <3>1, <3>3
      <4> QED BY <1>3, <3>1, <3>2, <3>3, <4>1, <4>2
    <3>4. CASE p > 0
      <4>1. p \in 1 .. Len(h) /\ (p + 1) - 1 = p /\ p + 1 > 1
        BY <1>1, <1>4, <3>1, <3>4
      <4>2. e.view = h[p].version /\ e.view \in Nat
        <5>1. h[p] \in Event
          BY <4>1, ElementOfSeq
        <5> QED BY <1>3, <4>1, <5>1 DEF Event
      <4>3. f.view = m.version /\ e.view <= m.version
        <5>1. CASE m.kind = "list"
          BY <3>2, <4>1, <4>2, <5>1 DEF Applied
        <5>2. CASE m.kind = "change"
          <6>1. m.version = e.view + 1
            BY <3>2, <4>1, <4>2, <5>2
          <6>2. e.view = m.version - 1 /\ e.view <= m.version
            BY <4>2, <6>1
          <6>3. e.view \notin {Nothing, Early}
            BY <4>2, CopyAssumption
          <6> QED BY <5>2, <6>2, <6>3 DEF Applied
        <5> QED BY <3>2, <4>1, <5>1, <5>2
      <4> QED BY <3>1, <3>2, <4>3
    <3> QED BY <1>4, <3>3, <3>4
  <2>2. CASE m.kind = "timeout" /\ m.number = Len(h) + 1
    <3>1. f.view = e.view
      BY <2>2 DEF Applied
    <3>2. ~(p + 1 \in 1 .. Len(h))
      BY <1>1, <1>4, <1>5, <2>2
    <3> QED BY <1>3, <3>1, <3>2
  <2> QED BY <1>5, <2>1, <2>2 DEF Told
<1>8. HasRead(f, h, d, x)
  <2>1. Place(f) >= 0 /\ Place(f) # 0
    BY <1>4
  <2> QED BY <1>3, <1>4, <1>6, <1>7, <2>1 DEF HasRead
<1>9. WillGet(f, r, h, x)
  BY DEF Followed, WillGet
<1> QED BY <1>7, <1>8, <1>9 DEF Followed

\* The client takes what is new to it from the report with list l, or registers
\* anew.
LEMMA StoryTaken ==
  ASSUME NEW e \in Copy, NEW r, NEW h \in Seq(Event), NEW d \in Nat, NEW x, Followed(e, r, x, h, d),
         NEW l \in Seq(Event), \A k \in 1 .. Len(l) : Told(l[k], h, x),
         e.id # 0, e.received = <<>>,
         NEW taken, taken = IF NumbersAreRight(l, e.next_event) THEN Fresh(l, e.next_event) ELSE <<>>,
         NEW f \in Copy, f.next_event = e.next_event + Len(taken), f.received = taken,
         f.view = e.view,
         \A k \in 1 .. Len(taken) : taken[k].kind = "timeout" => f.id = 0,
         NEW y, y = x \/ y = NoClient
  PROVE  Followed(f, <<>>, y, h, d)
<1>1. e.next_event \in Nat \ {0} /\ Len(h) \in Nat /\ Len(l) \in Nat /\ e.next_event - 1 \in Int
  BY LenProperties DEF Copy
<1>2. CASE ~NumbersAreRight(l, e.next_event)
  <2>1. taken = <<>> /\ Len(taken) = 0
    BY <1>2, EmptySeq
  <2>2. f.received = <<>> /\ f.next_event = e.next_event
    BY <1>1, <2>1
  <2>3. Place(f) = Place(e) /\ e.next_event <= Len(h) + 1
    BY <2>2 DEF Place, Followed, HasRead
  <2>4. HasRead(f, h, d, y)
    BY <2>1, <2>2, <2>3, EmptySeq DEF Followed, HasRead
  <2> QED BY <2>4 DEF Followed, WillGet
<1>3. CASE NumbersAreRight(l, e.next_event)
  <2>1. EndOf(taken, l)
    BY <1>1, <1>3, BehindIsEnd DEF Fresh
  <2>2. taken \in Seq(Event) /\ Len(taken) \in Nat /\ Len(taken) <= Len(l)
    BY <2>1, LenProperties DEF EndOf
  <2>3. \A m : Told(m, h, x) => Told(m, h, y)
    BY DEF Told
  <2>4. ASSUME NEW k \in 1 .. Len(taken)
        PROVE  taken[k].number = (e.next_event - 1) + k /\ Told(taken[k], h, y) /\ Told(taken[k], h, x)
    <3>1. PICK n \in 1 .. Len(l) : taken[k] = l[n]
      BY <1>1, <2>1, <2>2, EndOfElement
    <3>2. Told(l[n], h, x)
      OBVIOUS
    <3>3. taken[k].number = e.next_event + k - 1
      <4>1. l # <<>>
        BY <1>1, <2>2, EmptySeq
      <4>2. k \in DOMAIN Fresh(l, e.next_event) /\ taken = Fresh(l, e.next_event)
        BY <1>3, <2>2, LenProperties
      <4> QED BY <1>3, <4>1, <4>2 DEF NumbersAreRight
    <3> QED BY <1>1, <2>3, <3>1, <3>2, <3>3
  <2>5. /\ e.view = Nothing \/ e.view \in 0 .. d
        /\ Place(e) >= 0
        /\ e.next_event <= Len(h) + 1
        /\ Place(e) \in 1 .. Len(h) => e.view = h[Place(e)].version
        /\ Place(e) = 0 /\ Len(h) > 0 /\ e.view # Nothing => e.view <= h[1].version
    BY DEF Followed, HasRead
  <2>6. Place(e) = e.next_event - 1 /\ Place(f) = e.next_event - 1
    <3>1. Len(e.received) = 0
      BY EmptySeq
    <3> QED BY <1>1, <2>2, <3>1 DEF Place
  <2>7. f.next_event <= Len(h) + 2 /\ (f.id # 0 => f.next_event <= Len(h) + 1)
    <3>1. CASE Len(taken) = 0
      BY <1>1, <2>5, <3>1
    <3>2. CASE Len(taken) > 0
      <4>1. Len(taken) \in 1 .. Len(taken)
        BY <2>2, <3>2
      <4> DEFINE m == taken[Len(taken)]
      <4>2. m.number = f.next_event - 1 /\ Told(m, h, y)
        BY <1>1, <2>2, <2>4, <4>1
      <4>3. f.id # 0 => m.kind # "timeout"
        BY <4>1
      <4> HIDE DEF m
      <4>4. f.next_event \in Nat
        BY DEF Copy
      <4>5. m.number \in 1 .. Len(h) \/ (m.kind = "timeout" /\ m.number = Len(h) + 1)
        BY <4>2 DEF Told
      <4> QED BY <1>1, <4>2, <4>3, <4>4, <4>5
    <3> QED BY <2>2, <3>1, <3>2
  <2>8. HasRead(f, h, d, y)
    BY <2>4, <2>5, <2>6, <2>7 DEF HasRead
  <2>9. WillGet(f, <<>>, h, y)
    BY DEF WillGet
  <2>10. Story(h, d) /\ (y # NoClient => Keeps(y, h, d))
    BY DEF Followed
  <2> QED BY <2>8, <2>9, <2>10 DEF Followed
<1> QED BY <1>2, <1>3

-----------------------------------------------------------------------------
(* What the steps do to all of them                                          *)

\* A step after which there are the same number of changes the clients have
\* been told of.
Kept == \A d \in Nat : QueueInv(d) /\ Follows(d) => QueueInv(d)' /\ Follows(d)'

LEMMA AccountIs ==
  ASSUME Types, NEW c \in Client
  PROVE  /\ Account(c) \in EventClient \cup {NoClient}
         /\ Account(c) # NoClient =>
              /\ ec[c].id \in DynamicId /\ ec[c].id # 0 /\ Account(c) = clients[ec[c].id]
              /\ Account(c).owner = c /\ Account(c).subscribed
<1>1. ec[c].id \in Ids \cup {0} /\ c # Scheduler
  BY DEF Types, ClientTypes, Copy
<1>2. CASE Account(c) = NoClient
  BY <1>2
<1>3. CASE Account(c) # NoClient
  <2>1. /\ ec[c].id # 0 /\ clients[ec[c].id] # NoClient /\ clients[ec[c].id].owner = c
        /\ Account(c) = clients[ec[c].id]
    BY <1>3 DEF Account
  <2>2. ec[c].id \in Ids
    BY <1>1, <2>1
  <2>3. ec[c].id # SchedId
    BY <1>1, <2>1, <2>2 DEF Types, Owners
  <2>4. ec[c].id \in DynamicId /\ clients[ec[c].id].subscribed
    BY <2>1, <2>2, <2>3 DEF Types, Owners, Ids
  <2>5. clients[ec[c].id] \in EventClient
    BY <2>1, <2>2 DEF Types, MasterTypes
  <2> QED BY <2>1, <2>4, <2>5
<1> QED BY <1>2, <1>3

LEMMA Untouched ==
  ASSUME NEW c \in Client, NEW d \in Nat, HasStory(c, d),
         ec'[c] = ec[c], reports'[c] = reports[c], Account(c)' = Account(c)
  PROVE  HasStory(c, d)'
BY DEF HasStory

LEMMA AllUntouched ==
  ASSUME UNCHANGED <<clients, ec, reports>>, NEW d \in Nat, Follows(d)
  PROVE  Follows(d)'
<1> SUFFICES ASSUME NEW c \in Client PROVE HasStory(c, d)'
  BY DEF Follows
<1>1. Account(c)' = Account(c)
  BY DEF Account
<1> QED BY <1>1, Untouched DEF Follows

LEMMA SameQueue ==
  ASSUME UNCHANGED requests, Queued' = Queued, NEW d \in Nat, QueueInv(d)
  PROVE  QueueInv(d)'
BY DEF QueueInv

LEMMA QueuedIs == MasterTypes => Queued \in Nat
BY DEF MasterTypes, Queued

LEMMA OneMore ==
  ASSUME MasterTypes, NEW r \in RequestType, requests' = Append(requests, r),
         Queued' = IF r.op = "event" THEN Queued + 1 ELSE Queued,
         r.op = "event" => r.number = Queued',
         r.op = "list" /\ r.id \in DynamicId => r.number = Queued',
         UNCHANGED <<batch, deliverer>>
  PROVE  /\ requests' \in Seq(RequestType) /\ (deliverer' = "process" => batch' <= Len(requests'))
         /\ \A d \in Nat : QueueInv(d) => QueueInv(d)'
<1>1. requests \in Seq(RequestType) /\ Len(requests) \in Nat /\ Queued \in Nat /\ Queued' \in Nat
  BY LenProperties, QueuedIs DEF MasterTypes
<1>2. requests' \in Seq(RequestType) /\ Len(requests') = Len(requests) + 1
  BY <1>1, AppendProperties
<1>3. deliverer' = "process" => batch' <= Len(requests')
  BY <1>1, <1>2 DEF MasterTypes
<1>4. ASSUME NEW d \in Nat, QueueInv(d) PROVE QueueInv(d)'
  <2>1. PICK f : Reaches(f, requests, Queued) /\ f[0] = d
    BY <1>4 DEF QueueInv
  <2> DEFINE w == Queued'
  <2> HIDE DEF w
  <2>2. /\ w \in Nat /\ w = IF r.op = "event" THEN Queued + 1 ELSE Queued
        /\ r.op = "event" => r.number = w
        /\ r.op = "list" /\ r.id \in DynamicId => r.number = w
    BY <1>1 DEF w
  <2>3. \E g : Reaches(g, Append(requests, r), w) /\ g[0] = f[0]
    BY <1>1, <2>1, <2>2, QueueGrows
  <2> QED BY <2>1, <2>3 DEF QueueInv, w
<1> QED BY <1>2, <1>3, <1>4

-----------------------------------------------------------------------------
(* Steps of the workers and the scheduler thread                             *)

LEMMA ChangeDataKeeps == Types /\ ChangeData => Types' /\ Kept
<1> SUFFICES ASSUME Types, ChangeData PROVE Types' /\ Kept
  OBVIOUS
<1>1. UNCHANGED <<requests, batch, deliverer, clients, ec, reports, acks>>
      /\ version' = version + 1 /\ writing' = TRUE /\ writing = FALSE /\ version \in Nat
  BY DEF ChangeData, masterVars, wire, Types, MasterTypes
<1>2. Types'
  <2>1. version + 1 \in Nat /\ version + 1 # 0
    BY <1>1
  <2>2. MasterTypes'
    BY <1>1, <2>1 DEF Types, MasterTypes
  <2>3. ClientTypes' /\ Owners'
    BY <1>1 DEF Types, ClientTypes, Owners
  <2> QED BY <2>2, <2>3 DEF Types
<1>3. Queued' = Queued
  BY <1>1 DEF Queued
<1> QED BY <1>1, <1>2, <1>3, SameQueue, AllUntouched DEF Kept

LEMMA AddEventKeeps == Types /\ AddEvent => Types' /\ Kept
<1> SUFFICES ASSUME Types, AddEvent PROVE Types' /\ Kept
  OBVIOUS
<1> DEFINE r == Request("event", 0, version)
<1>1. /\ UNCHANGED <<version, batch, deliverer, clients, ec, reports, acks>>
      /\ requests' = Append(requests, r) /\ writing' = FALSE /\ writing = TRUE
      /\ version \in Nat /\ version # 0
  BY DEF AddEvent, wire, Types, MasterTypes
<1>2. r \in RequestType /\ r.op = "event" /\ r.number = version
  BY <1>1 DEF Request, RequestType
<1> HIDE DEF r
<1>3. Queued' = version /\ Queued = version - 1 /\ version = (version - 1) + 1
  BY <1>1 DEF Queued
<1>4. /\ requests' \in Seq(RequestType) /\ (deliverer' = "process" => batch' <= Len(requests'))
      /\ \A d \in Nat : QueueInv(d) => QueueInv(d)'
  BY <1>1, <1>2, <1>3, OneMore DEF Types
<1>5. Types'
  BY <1>1, <1>4 DEF Types, MasterTypes, ClientTypes, Owners
<1> QED BY <1>1, <1>4, <1>5, AllUntouched DEF Kept

LEMMA TakeRequestsKeeps == Types /\ TakeRequests => Types' /\ Kept
<1> SUFFICES ASSUME Types, TakeRequests PROVE Types' /\ Kept
  OBVIOUS
<1>1. /\ UNCHANGED <<version, writing, requests, clients, ec, reports, acks>>
      /\ batch' = Len(requests)
  BY DEF TakeRequests, dataVars, wire
<1>2. Len(requests) \in Nat /\ Len(requests) <= Len(requests)
  BY LenProperties DEF Types, MasterTypes
<1>3. Types'
  <2>1. MasterTypes'
    BY <1>1, <1>2 DEF Types, MasterTypes
  <2>2. ClientTypes' /\ Owners'
    BY <1>1 DEF Types, ClientTypes, Owners
  <2> QED BY <2>1, <2>2 DEF Types
<1>4. Queued' = Queued
  BY <1>1 DEF Queued
<1> QED BY <1>1, <1>3, <1>4, SameQueue, AllUntouched DEF Kept

\* A request that is not an event or a list is queued.
LEMMA RequestKeeps ==
  ASSUME Types, NEW r \in RequestType, r.op \in {"ack", "mod"}, requests' = Append(requests, r),
         UNCHANGED <<version, writing, batch, deliverer, clients, ec, reports>>, acks' \subseteq acks
  PROVE  Types' /\ Kept
<1>1. Queued' = Queued
  BY DEF Queued
<1>2. /\ requests' \in Seq(RequestType) /\ (deliverer' = "process" => batch' <= Len(requests'))
      /\ \A d \in Nat : QueueInv(d) => QueueInv(d)'
  BY <1>1, OneMore DEF Types
<1>3. Types'
  BY <1>2 DEF Types, MasterTypes, ClientTypes, Owners
<1> QED BY <1>2, <1>3, AllUntouched DEF Kept

LEMMA CommitKeeps == ASSUME NEW c \in Client PROVE Types /\ Commit(c) => Types' /\ Kept
<1> SUFFICES ASSUME Types, Commit(c) PROVE Types' /\ Kept
  OBVIOUS
<1> DEFINE r == Request("mod", ec[c].id, 0)
<1>1. ec[c].id \in Ids \cup {0}
  BY DEF Types, ClientTypes, Copy
<1>2. r \in RequestType /\ r.op = "mod"
  BY <1>1 DEF Request, RequestType
<1>3. /\ requests' = Append(requests, r)
      /\ UNCHANGED <<version, writing, batch, deliverer, clients, ec, reports, acks>>
  BY DEF Commit, dataVars, wire
<1> HIDE DEF r
<1> QED BY <1>2, <1>3, RequestKeeps

LEMMA HandleEventAckKeeps == Types /\ HandleEventAck => Types' /\ Kept
<1> SUFFICES ASSUME Types, HandleEventAck PROVE Types' /\ Kept
  OBVIOUS
<1>1. PICK a \in acks : requests' = Append(requests, Request("ack", a.id, a.number)) /\ acks' = acks \ {a}
  BY DEF HandleEventAck
<1> DEFINE r == Request("ack", a.id, a.number)
<1>2. a \in [id : Ids, number : Nat]
  BY DEF Types, MasterTypes
<1>3. r \in RequestType /\ r.op = "ack"
  BY <1>2 DEF Request, RequestType
<1>4. UNCHANGED <<version, writing, batch, deliverer, clients, ec, reports>> /\ acks' \subseteq acks
  BY <1>1 DEF HandleEventAck, dataVars
<1>5. requests' = Append(requests, r)
  BY <1>1
<1> HIDE DEF r
<1> QED BY <1>3, <1>4, <1>5, RequestKeeps

LEMMA ReleaseKeeps == Types /\ Release => Types' /\ Kept
<1> SUFFICES ASSUME Types, Release PROVE Types' /\ Kept
  OBVIOUS
<1> DEFINE r == Request("mod", SchedId, 0)
<1>1. r \in RequestType /\ r.op = "mod"
  BY DEF Request, RequestType, Ids
<1>2. /\ requests' = Append(requests, r)
      /\ UNCHANGED <<version, writing, batch, deliverer, clients, ec, reports, acks>>
  BY DEF Release, dataVars, wire
<1> HIDE DEF r
<1> QED BY <1>1, <1>2, RequestKeeps

LEMMA NewClientIs ==
  ASSUME NEW m \in Members, NEW b \in BOOLEAN
  PROVE  NewClient(m, b) \in EventClient /\ NewClient(m, b) # NoClient
<1>1. NewClient(m, b) \in EventClient
  BY EmptySeq DEF NewClient, EventClient
<1> QED BY <1>1, NoClientAssumption

\* A step of the scheduler as a client leaves the clients outside alone.
LEMMA SchedulerOnly ==
  ASSUME Types, \A m \in Members \ {Scheduler} : ec'[m] = ec[m] /\ reports'[m] = reports[m],
         ec' = [m \in Members |-> ec'[m]], reports' = [m \in Members |-> reports'[m]],
         \A i \in Ids \ {SchedId} : clients'[i] = clients[i],
         clients' \in [Ids -> EventClient \cup {NoClient}],
         clients'[SchedId] = clients[SchedId] \/ clients'[SchedId].owner = Scheduler
  PROVE  ClientTypes' /\ Owners' /\ \A d \in Nat : Follows(d) => Follows(d)'
<1>1. \A c \in Client : c \in Members /\ c # Scheduler
  BY IdsAndMembers
<1>2. ClientTypes'
  BY <1>1 DEF Types, ClientTypes
<1>3. Owners'
  BY DEF Types, Owners
<1>4. ASSUME NEW d \in Nat, Follows(d), NEW c \in Client PROVE HasStory(c, d)'
  <2>1. ec'[c] = ec[c] /\ reports'[c] = reports[c]
    BY <1>1
  <2>2. Account(c)' = Account(c)
    <3>1. ec[c].id \in Ids \cup {0}
      BY DEF Types, ClientTypes, Copy
    <3>2. CASE ec[c].id = 0
      BY <2>1, <3>2 DEF Account
    <3>3. CASE ec[c].id \in Ids \ {SchedId}
      BY <2>1, <3>3 DEF Account
    <3>4. CASE ec[c].id = SchedId
      <4>1. SchedId \in Ids
        BY DEF Ids
      <4>2. clients[SchedId] = NoClient \/ clients[SchedId].owner # c
        BY <1>1, <4>1 DEF Types, Owners
      <4>3. clients'[SchedId] = NoClient \/ clients'[SchedId].owner # c
        BY <1>1, <4>2
      <4> QED BY <2>1, <3>4, <4>2, <4>3 DEF Account
    <3> QED BY <3>1, <3>2, <3>3, <3>4
  <2> QED BY <1>4, <2>1, <2>2, Untouched DEF Follows
<1> QED BY <1>2, <1>3, <1>4 DEF Follows

LEMMA OneChanges ==
  ASSUME NEW f, f = [m \in Members |-> f[m]], NEW m \in Members, NEW v, NEW g, g = [f EXCEPT ![m] = v]
  PROVE  g = [n \in Members |-> g[n]] /\ g[m] = v /\ \A n \in Members \ {m} : g[n] = f[n]
OBVIOUS

LEMMA MirrorSchedulerKeeps == Types /\ MirrorEvent(Scheduler) => Types' /\ Kept
<1> SUFFICES ASSUME Types, MirrorEvent(Scheduler) PROVE Types' /\ Kept
  OBVIOUS
<1>1. UNCHANGED <<version, writing, requests, batch, deliverer, clients, reports, acks>>
  BY DEF MirrorEvent, dataVars, masterVars, wire
<1>2. PICK v : ec' = [ec EXCEPT ![Scheduler] = v]
  BY DEF MirrorEvent
<1>3. ec' = [m \in Members |-> ec'[m]] /\ \A m \in Members \ {Scheduler} : ec'[m] = ec[m]
  BY <1>2, IdsAndMembers, OneChanges DEF Types, ClientTypes
<1>4. MasterTypes'
  BY <1>1 DEF Types, MasterTypes
<1>5. ClientTypes' /\ Owners' /\ \A d \in Nat : Follows(d) => Follows(d)'
  BY <1>1, <1>3, SchedulerOnly DEF Types, MasterTypes, ClientTypes
<1>6. Queued' = Queued
  BY <1>1 DEF Queued
<1> QED BY <1>1, <1>4, <1>5, <1>6, SameQueue DEF Kept, Types

LEMMA StartSchedulerKeeps == Types /\ StartScheduler => Types' /\ Kept
<1> SUFFICES ASSUME Types, StartScheduler PROVE Types' /\ Kept
  OBVIOUS
<1>1. /\ UNCHANGED <<version, writing, requests, batch, deliverer, reports, acks>>
      /\ clients' = [clients EXCEPT ![SchedId] = NewClient(Scheduler, FALSE)]
  BY DEF StartScheduler, dataVars, wire
<1>2. PICK v : ec' = [ec EXCEPT ![Scheduler] = v]
  BY DEF StartScheduler
<1>3. ec' = [m \in Members |-> ec'[m]] /\ \A m \in Members \ {Scheduler} : ec'[m] = ec[m]
  BY <1>2, IdsAndMembers, OneChanges DEF Types, ClientTypes
<1>4. /\ clients' \in [Ids -> EventClient \cup {NoClient}]
      /\ \A i \in Ids \ {SchedId} : clients'[i] = clients[i]
      /\ clients'[SchedId].owner = Scheduler
  <2>1. NewClient(Scheduler, FALSE) \in EventClient /\ NewClient(Scheduler, FALSE).owner = Scheduler
    BY IdsAndMembers, NewClientIs DEF NewClient
  <2>2. SchedId \in Ids /\ clients \in [Ids -> EventClient \cup {NoClient}]
    BY DEF Ids, Types, MasterTypes
  <2> QED BY <1>1, <2>1, <2>2
<1>5. MasterTypes'
  BY <1>1, <1>4 DEF Types, MasterTypes
<1>6. ClientTypes' /\ Owners' /\ \A d \in Nat : Follows(d) => Follows(d)'
  BY <1>1, <1>3, <1>4, SchedulerOnly DEF Types, MasterTypes, ClientTypes
<1>7. Queued' = Queued
  BY <1>1 DEF Queued
<1> QED BY <1>1, <1>5, <1>6, <1>7, SameQueue DEF Kept, Types

LEMMA RegisterSchedulerKeeps == Types /\ RegisterScheduler => Types' /\ Kept
<1> SUFFICES ASSUME Types, RegisterScheduler PROVE Types' /\ Kept
  OBVIOUS
<1> DEFINE r == Request("list", SchedId, version)
<1>1. /\ UNCHANGED <<version, writing, batch, deliverer, reports, acks>>
      /\ clients' = [clients EXCEPT ![SchedId] = NewClient(Scheduler, TRUE)]
      /\ requests' = Append(requests, r)
  BY DEF RegisterScheduler, AddEventClient, dataVars, wire
<1>2. PICK v : ec' = [ec EXCEPT ![Scheduler] = v]
  BY DEF RegisterScheduler, AddEventClient
<1>3. ec' = [m \in Members |-> ec'[m]] /\ \A m \in Members \ {Scheduler} : ec'[m] = ec[m]
  BY <1>2, IdsAndMembers, OneChanges DEF Types, ClientTypes
<1>4. /\ clients' \in [Ids -> EventClient \cup {NoClient}]
      /\ \A i \in Ids \ {SchedId} : clients'[i] = clients[i]
      /\ clients'[SchedId].owner = Scheduler
  <2>1. NewClient(Scheduler, TRUE) \in EventClient /\ NewClient(Scheduler, TRUE).owner = Scheduler
    BY IdsAndMembers, NewClientIs DEF NewClient
  <2>2. SchedId \in Ids /\ clients \in [Ids -> EventClient \cup {NoClient}]
    BY DEF Ids, Types, MasterTypes
  <2> QED BY <1>1, <2>1, <2>2
<1>5. r \in RequestType /\ r.op = "list" /\ r.id \notin DynamicId
  BY DEF Request, RequestType, Ids, Types, MasterTypes
<1> HIDE DEF r
<1>6. Queued' = Queued
  BY <1>1 DEF Queued
<1>7. /\ requests' \in Seq(RequestType) /\ (deliverer' = "process" => batch' <= Len(requests'))
      /\ \A d \in Nat : QueueInv(d) => QueueInv(d)'
  BY <1>1, <1>5, <1>6, OneMore DEF Types
<1>8. MasterTypes'
  BY <1>1, <1>4, <1>7 DEF Types, MasterTypes
<1>9. ClientTypes' /\ Owners' /\ \A d \in Nat : Follows(d) => Follows(d)'
  BY <1>1, <1>3, <1>4, SchedulerOnly DEF Types, MasterTypes, ClientTypes
<1> QED BY <1>7, <1>8, <1>9 DEF Kept, Types

LEMMA TakeEventsKeeps == Types /\ TakeEvents => Types' /\ Kept
<1> SUFFICES ASSUME Types, TakeEvents PROVE Types' /\ Kept
  OBVIOUS
<1> DEFINE r == Request("ack", SchedId, 0)
<1>1. /\ UNCHANGED <<version, writing, batch, deliverer, clients, acks>>
      /\ reports' = [reports EXCEPT ![Scheduler] = <<>>]
      /\ requests' = requests \/ requests' = Append(requests, r)
  BY DEF TakeEvents, dataVars
<1>2. PICK v : ec' = [ec EXCEPT ![Scheduler] = v]
  BY DEF TakeEvents
<1>3. /\ ec' = [m \in Members |-> ec'[m]] /\ \A m \in Members \ {Scheduler} : ec'[m] = ec[m]
      /\ reports' = [m \in Members |-> reports'[m]]
      /\ \A m \in Members \ {Scheduler} : reports'[m] = reports[m]
  BY <1>1, <1>2, IdsAndMembers, OneChanges DEF Types, ClientTypes
<1>4. r \in RequestType /\ r.op = "ack"
  BY DEF Request, RequestType, Ids
<1> HIDE DEF r
<1>5. Queued' = Queued
  BY <1>1 DEF Queued
<1>6. /\ requests' \in Seq(RequestType) /\ (deliverer' = "process" => batch' <= Len(requests'))
      /\ \A d \in Nat : QueueInv(d) => QueueInv(d)'
  <2>1. CASE requests' = requests
    BY <1>1, <1>5, <2>1, SameQueue DEF Types, MasterTypes
  <2>2. CASE requests' = Append(requests, r)
    BY <1>1, <1>4, <1>5, <2>2, OneMore DEF Types
  <2> QED BY <1>1, <2>1, <2>2
<1>7. MasterTypes'
  BY <1>1, <1>6 DEF Types, MasterTypes
<1>8. ClientTypes' /\ Owners' /\ \A d \in Nat : Follows(d) => Follows(d)'
  BY <1>1, <1>3, SchedulerOnly DEF Types, MasterTypes
<1> QED BY <1>6, <1>7, <1>8 DEF Kept, Types

-----------------------------------------------------------------------------
(* Steps of a client outside                                                 *)

LEMMA OneClient ==
  ASSUME Types, NEW c \in Client,
         ec' = [m \in Members |-> ec'[m]], reports' = [m \in Members |-> reports'[m]],
         \A m \in Members \ {c} : ec'[m] = ec[m] /\ reports'[m] = reports[m],
         ec'[c] \in Copy, reports'[c] \in Seq(Seq(Event)), Len(reports'[c]) <= 1
  PROVE  /\ ClientTypes'
         /\ UNCHANGED clients => \A d \in Nat : Follows(d) /\ HasStory(c, d)' => Follows(d)'
<1>1. \A b \in Client : b \in Members
  BY IdsAndMembers
<1>2. ClientTypes'
  BY <1>1 DEF Types, ClientTypes
<1>3. ASSUME UNCHANGED clients, NEW d \in Nat, Follows(d), HasStory(c, d)'
      PROVE  Follows(d)'
  <2> SUFFICES ASSUME NEW b \in Client PROVE HasStory(b, d)'
    BY DEF Follows
  <2>1. CASE b = c
    BY <1>3, <2>1
  <2>2. CASE b # c
    <3>1. ec'[b] = ec[b] /\ reports'[b] = reports[b]
      BY <1>1, <2>2
    <3>2. Account(b)' = Account(b)
      BY <1>3, <3>1 DEF Account
    <3> QED BY <1>3, <3>1, <3>2, Untouched DEF Follows
  <2> QED BY <2>1, <2>2
<1> QED BY <1>2, <1>3

LEMMA TimeOutKeeps == ASSUME NEW c \in Client PROVE Types /\ TimeOut(c) => Types' /\ Kept
<1> SUFFICES ASSUME Types, TimeOut(c) PROVE Types' /\ Kept
  OBVIOUS
<1> DEFINE f == [ec[c] EXCEPT !.id = 0]
<1>1. /\ UNCHANGED <<version, writing, requests, batch, deliverer, clients, reports>>
      /\ ec' = [ec EXCEPT ![c] = f] /\ reports[c] = <<>> /\ ec[c].received = <<>>
      /\ acks' \subseteq acks
  BY DEF TimeOut, dataVars, masterVars
<1>2. ec[c] \in Copy /\ c \in Members /\ ec = [m \in Members |-> ec[m]]
  BY IdsAndMembers DEF Types, ClientTypes
<1>3. /\ f \in Copy /\ f.id = 0 /\ f.next_event = ec[c].next_event /\ f.received = <<>>
      /\ f.view = ec[c].view
  BY <1>1, <1>2 DEF Copy
<1> HIDE DEF f
<1>4. /\ ec' = [m \in Members |-> ec'[m]] /\ ec'[c] = f
      /\ \A m \in Members \ {c} : ec'[m] = ec[m]
  BY <1>1, <1>2, OneChanges
<1>5. MasterTypes' /\ Owners'
  BY <1>1 DEF Types, MasterTypes, Owners
<1>6. /\ reports' = [m \in Members |-> reports'[m]]
      /\ reports'[c] \in Seq(Seq(Event)) /\ Len(reports'[c]) <= 1
  BY <1>1 DEF Types, ClientTypes
<1>7. ClientTypes' /\ \A d \in Nat : Follows(d) /\ HasStory(c, d)' => Follows(d)'
  BY <1>1, <1>3, <1>4, <1>6, OneClient
<1>8. ASSUME NEW d \in Nat, HasStory(c, d) PROVE HasStory(c, d)'
  <2>1. PICK h \in Seq(Event) : Followed(ec[c], reports[c], Account(c), h, d)
    BY <1>8 DEF HasStory
  <2>2. Followed(f, <<>>, NoClient, h, d)
    BY <1>1, <1>2, <1>3, <2>1, StoryEnds
  <2>3. Account(c)' = NoClient
    BY <1>3, <1>4 DEF Account
  <2> QED BY <1>1, <1>4, <2>2, <2>3 DEF HasStory
<1>9. Queued' = Queued
  BY <1>1 DEF Queued
<1> QED BY <1>1, <1>5, <1>7, <1>8, <1>9, SameQueue DEF Types, Kept, Follows

LEMMA MirrorClientKeeps == ASSUME NEW c \in Client PROVE Types /\ MirrorEvent(c) => Types' /\ Kept
<1> SUFFICES ASSUME Types, MirrorEvent(c) PROVE Types' /\ Kept
  OBVIOUS
<1> DEFINE v == Applied(ec[c].view, Head(ec[c].received))
           f == [ec[c] EXCEPT !.received = Tail(ec[c].received), !.view = v]
<1>1. /\ UNCHANGED <<version, writing, requests, batch, deliverer, clients, reports, acks>>
      /\ ec' = [ec EXCEPT ![c] = f] /\ ec[c].received # <<>>
  BY DEF MirrorEvent, dataVars, masterVars, wire
<1> HIDE DEF v
<1>2. ec[c] \in Copy /\ c \in Members /\ ec = [m \in Members |-> ec[m]]
  BY IdsAndMembers DEF Types, ClientTypes
<1>3. /\ f.id = ec[c].id /\ f.next_event = ec[c].next_event /\ f.received = Tail(ec[c].received)
      /\ f.view = v
  BY <1>2 DEF Copy
<1>4. f \in Copy
  <2>1. /\ ec[c].received \in Seq(Event) /\ ec[c].view \in Nat \cup {Nothing, Early, Broken}
        /\ ec[c].id \in Ids \cup {0} /\ ec[c].next_event \in Nat \ {0}
    BY <1>2 DEF Copy
  <2>2. Tail(ec[c].received) \in Seq(Event) /\ Head(ec[c].received) \in Event
    BY <1>1, <2>1, HeadTailProperties
  <2>3. v \in Nat \cup {Nothing, Early, Broken}
    <3>1. Head(ec[c].received).version \in Nat
      BY <2>2 DEF Event
    <3> QED BY <2>1, <3>1 DEF Applied, v
  <2> QED BY <1>2, <2>2, <2>3 DEF Copy
<1> HIDE DEF f
<1>5. /\ ec' = [m \in Members |-> ec'[m]] /\ ec'[c] = f
      /\ \A m \in Members \ {c} : ec'[m] = ec[m]
  BY <1>1, <1>2, OneChanges
<1>6. MasterTypes' /\ Owners'
  BY <1>1 DEF Types, MasterTypes, Owners
<1>7. /\ reports' = [m \in Members |-> reports'[m]]
      /\ reports'[c] \in Seq(Seq(Event)) /\ Len(reports'[c]) <= 1
  BY <1>1 DEF Types, ClientTypes
<1>8. ClientTypes' /\ \A d \in Nat : Follows(d) /\ HasStory(c, d)' => Follows(d)'
  BY <1>1, <1>4, <1>5, <1>7, OneClient
<1>9. ASSUME NEW d \in Nat, HasStory(c, d) PROVE HasStory(c, d)'
  <2>1. PICK h \in Seq(Event) : Followed(ec[c], reports[c], Account(c), h, d)
    BY <1>9 DEF HasStory
  <2>2. Followed(f, reports[c], Account(c), h, d)
    BY <1>1, <1>2, <1>3, <1>4, <2>1, StoryApplied DEF v
  <2>3. Account(c)' = Account(c)
    BY <1>1, <1>3, <1>5 DEF Account
  <2> QED BY <1>1, <1>5, <2>2, <2>3 DEF HasStory
<1>10. Queued' = Queued
  BY <1>1 DEF Queued
<1> QED BY <1>1, <1>6, <1>8, <1>9, <1>10, SameQueue DEF Types, Kept, Follows

LEMMA GetEventsKeeps == ASSUME NEW c \in Client PROVE Types /\ GetEvents(c) => Types' /\ Kept
<1> SUFFICES ASSUME Types, GetEvents(c) PROVE Types' /\ Kept
  OBVIOUS
<1> DEFINE l == reports[c][1]
           right == NumbersAreRight(l, ec[c].next_event)
           taken == IF right THEN Fresh(l, ec[c].next_event) ELSE <<>>
           timeout == \E k \in DOMAIN taken : taken[k].kind = "timeout"
           i == IF right /\ ~timeout THEN ec[c].id ELSE 0
           n == ec[c].next_event + Len(taken)
           f == [ec[c] EXCEPT !.id = i, !.next_event = n, !.received = taken]
           a == [id |-> ec[c].id, number |-> ec[c].next_event + Len(taken) - 1]
<1>1. /\ UNCHANGED <<version, writing, requests, batch, deliverer, clients>>
      /\ ec' = [ec EXCEPT ![c] = f] /\ ec[c].id # 0 /\ ec[c].received = <<>> /\ reports[c] # <<>>
      /\ reports' = [reports EXCEPT ![c] = <<>>]
      /\ acks' = acks \cup {a}
  <2>1. UNCHANGED <<version, writing, requests, batch, deliverer, clients>>
        /\ ec[c].id # 0 /\ ec[c].received = <<>> /\ reports[c] # <<>>
        /\ reports' = [reports EXCEPT ![c] = <<>>]
    BY DEF GetEvents, dataVars, masterVars
  <2>2. acks' = acks \cup {a}
    BY DEF GetEvents
  <2>3. ec' = [ec EXCEPT ![c].id = i, ![c].next_event = @ + Len(taken), ![c].received = taken]
    BY Zenon DEF GetEvents
  <2> HIDE DEF i, taken
  <2>4. ec' = [ec EXCEPT ![c] = f]
    BY <2>3
  <2> QED BY <2>1, <2>2, <2>4
<1>2. /\ ec[c] \in Copy /\ c \in Members /\ ec = [m \in Members |-> ec[m]]
      /\ reports = [m \in Members |-> reports[m]] /\ reports[c] \in Seq(Seq(Event))
  BY IdsAndMembers DEF Types, ClientTypes
<1>3. l \in Seq(Event)
  BY <1>1, <1>2, HeadTailProperties
<1>4. ec[c].id \in Ids /\ ec[c].next_event \in Nat \ {0} /\ ec[c].next_event - 1 \in Int
  BY <1>1, <1>2 DEF Copy
<1>5. taken \in Seq(Event) /\ Len(taken) \in Nat
  <2>1. Fresh(l, ec[c].next_event) \in Seq(Event)
    BY <1>3, <1>4, BehindIsEnd DEF EndOf, Fresh
  <2>2. taken \in Seq(Event)
    BY <2>1, EmptySeq
  <2> QED BY <2>2, LenProperties
<1>6. \A k \in 1 .. Len(taken) : taken[k].kind = "timeout" => i = 0
  <2>1. DOMAIN taken = 1 .. Len(taken)
    BY <1>5, LenProperties
  <2> QED BY <2>1
<1>7. i \in {0, ec[c].id}
  OBVIOUS
<1>8. taken = IF NumbersAreRight(l, ec[c].next_event) THEN Fresh(l, ec[c].next_event) ELSE <<>>
  OBVIOUS
<1> HIDE DEF i, taken, timeout, right, l
<1>9. n \in Nat \ {0} /\ ec[c].next_event + Len(taken) - 1 \in Nat
  BY <1>4, <1>5
<1> HIDE DEF n
<1>10. a \in [id : Ids, number : Nat]
  BY <1>4, <1>9
<1> HIDE DEF a
<1>11. f \in Copy /\ f.id = i /\ f.next_event = n /\ f.received = taken /\ f.view = ec[c].view
  BY <1>2, <1>4, <1>5, <1>7, <1>9 DEF Copy
<1> HIDE DEF f
<1>12. /\ ec' = [m \in Members |-> ec'[m]] /\ ec'[c] = f
       /\ \A m \in Members \ {c} : ec'[m] = ec[m]
       /\ reports' = [m \in Members |-> reports'[m]] /\ reports'[c] = <<>>
       /\ \A m \in Members \ {c} : reports'[m] = reports[m]
  BY <1>1, <1>2, OneChanges
<1>13. MasterTypes' /\ Owners'
  BY <1>1, <1>10 DEF Types, MasterTypes, Owners
<1>14. reports'[c] \in Seq(Seq(Event)) /\ Len(reports'[c]) <= 1
  BY <1>12, EmptySeq
<1>15. ClientTypes' /\ \A d \in Nat : Follows(d) /\ HasStory(c, d)' => Follows(d)'
  BY <1>1, <1>11, <1>12, <1>14, OneClient
<1>16. ASSUME NEW d \in Nat, HasStory(c, d) PROVE HasStory(c, d)'
  <2>1. PICK h \in Seq(Event) : Followed(ec[c], reports[c], Account(c), h, d)
    BY <1>16 DEF HasStory
  <2>2. PICK y : y = IF i = 0 THEN NoClient ELSE Account(c)
    OBVIOUS
  <2>3. Followed(f, <<>>, y, h, d)
    <3>1. \A k \in 1 .. Len(l) : Told(l[k], h, Account(c))
      BY <1>1, <2>1 DEF Followed, WillGet, l
    <3>2. /\ \A k \in 1 .. Len(taken) : taken[k].kind = "timeout" => f.id = 0
          /\ f \in Copy /\ f.next_event = ec[c].next_event + Len(taken) /\ f.received = taken
          /\ f.view = ec[c].view
      BY <1>6, <1>11 DEF n
    <3>3. y = Account(c) \/ y = NoClient
      BY <2>2
    <3>4. PICK e, r, x, w : e = ec[c] /\ r = reports[c] /\ x = Account(c) /\ w = taken
      OBVIOUS
    <3>5. /\ e \in Copy /\ Followed(e, r, x, h, d) /\ e.id # 0 /\ e.received = <<>>
          /\ \A k \in 1 .. Len(l) : Told(l[k], h, x)
          /\ w = IF NumbersAreRight(l, e.next_event) THEN Fresh(l, e.next_event) ELSE <<>>
      BY <1>1, <1>2, <1>8, <2>1, <3>1, <3>4
    <3>6. /\ \A k \in 1 .. Len(w) : w[k].kind = "timeout" => f.id = 0
          /\ f.next_event = e.next_event + Len(w) /\ f.received = w
          /\ f.view = e.view /\ (y = x \/ y = NoClient)
      BY <3>2, <3>3, <3>4
    <3> QED BY <1>3, <3>2, <3>5, <3>6, StoryTaken
  <2>4. Account(c)' = y
    <3>1. CASE i = 0
      BY <1>11, <1>12, <2>2, <3>1 DEF Account
    <3>2. CASE i # 0
      <4>1. ec'[c].id = ec[c].id
        BY <1>7, <1>11, <1>12, <3>2
      <4> QED BY <1>1, <2>2, <3>2, <4>1 DEF Account
    <3> QED BY <3>1, <3>2
  <2> QED BY <1>12, <2>3, <2>4 DEF HasStory
<1>17. Queued' = Queued
  BY <1>1 DEF Queued
<1> QED BY <1>1, <1>13, <1>15, <1>16, <1>17, SameQueue DEF Types, Kept, Follows

LEMMA EndOfItself == ASSUME NEW s \in Seq(Event) PROVE EndOf(s, s)
<1>1. Len(s) \in Nat
  BY LenProperties
<1>2. \A k \in 1 .. Len(s) : Len(s) - Len(s) + k = k
  BY <1>1
<1> QED BY <1>1, <1>2 DEF EndOf

\* A step of the master that leaves the numbers, the events and the blocking of
\* the records alone, and may end clients or drop them.
LEMMA OthersShortened ==
  ASSUME Types, NEW c \in Client, NEW d \in Nat, HasStory(c, d),
         ec'[c] = ec[c], reports'[c] = reports[c],
         Account(c)' = NoClient \/ Account(c)' = Account(c)
           \/ (Account(c) # NoClient /\ Shortened(Account(c)', Account(c)))
  PROVE  HasStory(c, d)'
<1>1. PICK h \in Seq(Event) : Followed(ec[c], reports[c], Account(c), h, d)
  BY DEF HasStory
<1>2. PICK y : y = Account(c)'
  OBVIOUS
<1>3. Followed(ec[c], reports[c], y, h, d)
  <2>1. Account(c) \in EventClient \cup {NoClient}
    BY AccountIs
  <2>2. CASE y = Account(c)
    BY <1>1, <2>2
  <2>3. CASE y = NoClient \/ (Account(c) # NoClient /\ Shortened(y, Account(c)))
    BY <1>1, <2>1, <2>3, StoryStays
  <2> QED BY <1>2, <2>2, <2>3
<1> QED BY <1>2, <1>3 DEF HasStory

LEMMA DeregisterKeeps == ASSUME NEW c \in Client PROVE Types /\ Deregister(c) => Types' /\ Kept
<1> SUFFICES ASSUME Types, Deregister(c) PROVE Types' /\ Kept
  OBVIOUS
<1> DEFINE f == [ec[c] EXCEPT !.id = 0, !.view = Nothing]
           i == ec[c].id
           x == [clients[i] EXCEPT !.terminated = TRUE]
<1>1. /\ UNCHANGED <<version, writing, requests, batch, deliverer, acks>>
      /\ ec' = [ec EXCEPT ![c] = f] /\ ec[c].received = <<>> /\ i # 0
      /\ reports' = [reports EXCEPT ![c] = <<>>]
      /\ clients' = IF i \in Registered THEN [clients EXCEPT ![i] = x] ELSE clients
  BY DEF Deregister, dataVars
<1>2. /\ ec[c] \in Copy /\ c \in Members /\ ec = [m \in Members |-> ec[m]]
      /\ reports = [m \in Members |-> reports[m]] /\ reports[c] \in Seq(Seq(Event))
      /\ clients \in [Ids -> EventClient \cup {NoClient}]
  BY IdsAndMembers DEF Types, ClientTypes, MasterTypes
<1>3. i \in Ids
  BY <1>1, <1>2 DEF Copy
<1>4. /\ f \in Copy /\ f.id = 0 /\ f.next_event = ec[c].next_event /\ f.received = <<>>
      /\ f.view = Nothing
  BY <1>1, <1>2 DEF Copy
<1> HIDE DEF f
<1>5. /\ ec' = [m \in Members |-> ec'[m]] /\ ec'[c] = f
      /\ \A m \in Members \ {c} : ec'[m] = ec[m]
      /\ reports' = [m \in Members |-> reports'[m]] /\ reports'[c] = <<>>
      /\ \A m \in Members \ {c} : reports'[m] = reports[m]
  BY <1>1, <1>2, OneChanges
<1>6. ASSUME i \in Registered
      PROVE  /\ clients[i] \in EventClient /\ x \in EventClient
             /\ x.owner = clients[i].owner /\ x.subscribed = clients[i].subscribed
             /\ Shortened(x, clients[i])
  <2>1. clients[i] \in EventClient
    BY <1>2, <1>3, <1>6 DEF Registered
  <2>2. /\ x \in EventClient /\ x.owner = clients[i].owner /\ x.subscribed = clients[i].subscribed
        /\ x.next_number = clients[i].next_number /\ x.blocked = clients[i].blocked
        /\ x.terminated = TRUE /\ x.events = clients[i].events
    BY <2>1 DEF EventClient
  <2>3. clients[i].events \in Seq(Event)
    BY <2>1 DEF EventClient
  <2> QED BY <2>1, <2>2, <2>3, EndOfItself DEF Shortened
<1>7. /\ clients' \in [Ids -> EventClient \cup {NoClient}]
      /\ \A j \in Ids : clients'[j] = clients[j]
                        \/ (clients[j] # NoClient /\ clients'[j] \in EventClient
                            /\ clients'[j].owner = clients[j].owner
                            /\ clients'[j].subscribed = clients[j].subscribed
                            /\ Shortened(clients'[j], clients[j]))
  <2>1. CASE i \in Registered
    <3> HIDE DEF x
    <3>1. clients' = [clients EXCEPT ![i] = x]
      BY <1>1, <2>1
    <3> QED BY <1>2, <1>6, <2>1, <3>1 DEF Registered
  <2>2. CASE i \notin Registered
    BY <1>1, <1>2, <2>2
  <2> QED BY <2>1, <2>2
<1> HIDE DEF x
<1>8. MasterTypes' /\ Owners'
  <2>1. MasterTypes'
    BY <1>1, <1>7 DEF Types, MasterTypes
  <2>2. Owners'
    BY <1>7 DEF Types, Owners
  <2> QED BY <2>1, <2>2
<1>9. reports'[c] \in Seq(Seq(Event)) /\ Len(reports'[c]) <= 1
  BY <1>5, EmptySeq
<1>10. ClientTypes'
  BY <1>4, <1>5, <1>9, OneClient
<1>11. ASSUME NEW d \in Nat, HasStory(c, d) PROVE HasStory(c, d)'
  <2>1. PICK h \in Seq(Event) : Followed(ec[c], reports[c], Account(c), h, d)
    BY <1>11 DEF HasStory
  <2>2. Followed(f, <<>>, NoClient, h, d)
    BY <1>1, <1>2, <1>4, <2>1, StoryEnds
  <2>3. Account(c)' = NoClient
    BY <1>4, <1>5 DEF Account
  <2> QED BY <1>5, <2>2, <2>3 DEF HasStory
<1>12. ASSUME NEW d \in Nat, NEW b \in Client, b # c, HasStory(b, d) PROVE HasStory(b, d)'
  <2>1. ec'[b] = ec[b] /\ reports'[b] = reports[b]
    BY <1>5, <1>12, IdsAndMembers
  <2>2. ec[b].id \in Ids \cup {0}
    BY DEF Types, ClientTypes, Copy
  <2>3. \/ Account(b)' = NoClient \/ Account(b)' = Account(b)
        \/ Account(b) # NoClient /\ Shortened(Account(b)', Account(b))
    <3>1. CASE ec[b].id = 0
      BY <2>1, <3>1 DEF Account
    <3>2. CASE ec[b].id \in Ids
      BY <1>7, <2>1, <3>2, NoClientAssumption DEF Account
    <3> QED BY <2>2, <3>1, <3>2
  <2> QED BY <1>12, <2>1, <2>3, OthersShortened
<1>13. Queued' = Queued
  BY <1>1 DEF Queued
<1> QED BY <1>1, <1>8, <1>10, <1>11, <1>12, <1>13, SameQueue DEF Types, Kept, Follows

LEMMA RegisterKeeps == ASSUME NEW c \in Client PROVE Types /\ Register(c) => Types' /\ Kept
<1> SUFFICES ASSUME Types, Register(c) PROVE Types' /\ Kept
  OBVIOUS
<1> DEFINE i == Min(DynamicId \ Registered)
           r == Request("list", i, version)
           f == [ec[c] EXCEPT !.id = i, !.next_event = 1]
<1>1. /\ UNCHANGED <<version, writing, batch, deliverer, reports, acks>>
      /\ clients' = [clients EXCEPT ![i] = NewClient(c, TRUE)]
      /\ requests' = Append(requests, r)
      /\ ec' = [ec EXCEPT ![c] = f]
      /\ ec[c].id = 0 /\ ec[c].received = <<>> /\ writing = FALSE /\ DynamicId \ Registered # {}
  <2> HIDE DEF i
  <2>1. AddEventClient(c, i)
    BY DEF Register, i
  <2>2. /\ clients' = [clients EXCEPT ![i] = NewClient(c, TRUE)]
        /\ requests' = Append(requests, r)
    BY <2>1 DEF AddEventClient
  <2>3. ec' = [ec EXCEPT ![c] = f]
    BY <2>1 DEF AddEventClient
  <2>4. /\ UNCHANGED <<version, writing, batch, deliverer, reports, acks>>
        /\ ec[c].id = 0 /\ ec[c].received = <<>> /\ DynamicId \ Registered # {}
    BY DEF Register, dataVars, wire
  <2>5. writing = FALSE
    BY DEF Register, Types, MasterTypes
  <2> QED BY <2>2, <2>3, <2>4, <2>5
<1>2. i \in DynamicId \ Registered
  BY <1>1, MinIsLeast
<1> HIDE DEF i
<1>3. i \in Ids /\ i # 0 /\ i # SchedId /\ i \in DynamicId /\ clients[i] = NoClient
  BY <1>2 DEF Ids, Registered
<1>4. /\ ec[c] \in Copy /\ c \in Members /\ ec = [m \in Members |-> ec[m]]
      /\ reports = [m \in Members |-> reports[m]] /\ version \in Nat
      /\ clients \in [Ids -> EventClient \cup {NoClient}]
  BY IdsAndMembers DEF Types, ClientTypes, MasterTypes
<1>5. /\ f \in Copy /\ f.id = i /\ f.next_event = 1 /\ f.received = <<>> /\ f.view = ec[c].view
  <2>1. i \in Ids \cup {0} /\ 1 \in Nat \ {0}
    BY <1>3
  <2>2. f \in Copy
    BY <1>4, <2>1 DEF Copy
  <2> QED BY <1>1, <1>4, <2>2 DEF Copy
<1> HIDE DEF f
<1>6. /\ ec' = [m \in Members |-> ec'[m]] /\ ec'[c] = f
      /\ \A m \in Members \ {c} : ec'[m] = ec[m]
  BY <1>1, <1>4, OneChanges
<1>7. r \in RequestType /\ r.op = "list" /\ r.number = version
  BY <1>3, <1>4 DEF Request, RequestType
<1> HIDE DEF r
<1>8. Queued' = version /\ Queued = version
  BY <1>1 DEF Queued
<1>9. /\ requests' \in Seq(RequestType) /\ (deliverer' = "process" => batch' <= Len(requests'))
      /\ \A d \in Nat : QueueInv(d) => QueueInv(d)'
  BY <1>1, <1>7, <1>8, OneMore DEF Types
<1>10. /\ NewClient(c, TRUE) \in EventClient /\ NewClient(c, TRUE) # NoClient
       /\ NewClient(c, TRUE).owner = c /\ NewClient(c, TRUE).subscribed = TRUE
  BY <1>4, NewClientIs DEF NewClient
<1> DEFINE x == NewClient(c, TRUE)
<1> HIDE DEF x
<1>11. /\ clients' \in [Ids -> EventClient \cup {NoClient}]
       /\ clients'[i] = x /\ x # NoClient /\ x.owner = c /\ x.subscribed = TRUE
       /\ \A j \in Ids \ {i} : clients'[j] = clients[j]
  BY <1>1, <1>3, <1>4, <1>10 DEF x
<1>12. MasterTypes'
  BY <1>1, <1>9, <1>11 DEF Types, MasterTypes
<1>13. Owners'
  BY <1>3, <1>11 DEF Types, Owners
<1>14. /\ reports' = [m \in Members |-> reports'[m]]
       /\ reports'[c] \in Seq(Seq(Event)) /\ Len(reports'[c]) <= 1
  BY <1>1 DEF Types, ClientTypes
<1>15. ClientTypes'
  <2>1. \A m \in Members \ {c} : ec'[m] = ec[m] /\ reports'[m] = reports[m]
    BY <1>1, <1>6
  <2>2. ec'[c] \in Copy
    BY <1>5, <1>6
  <2> QED BY <1>6, <1>14, <2>1, <2>2, OneClient
<1>16. ASSUME NEW d \in Nat, HasStory(c, d) PROVE HasStory(c, d)'
  <2>1. PICK h \in Seq(Event) : Followed(ec[c], reports[c], Account(c), h, d)
    BY <1>16 DEF HasStory
  <2>2. Followed(f, reports[c], x, <<>>, d)
    BY <1>1, <1>4, <1>5, <2>1, StoryBegins DEF x
  <2>3. Account(c)' = x
    BY <1>3, <1>5, <1>6, <1>11 DEF Account
  <2>4. <<>> \in Seq(Event)
    BY EmptySeq
  <2> QED BY <1>1, <1>6, <2>2, <2>3, <2>4 DEF HasStory
<1>17. ASSUME NEW d \in Nat, NEW b \in Client, b # c, HasStory(b, d) PROVE HasStory(b, d)'
  <2>1. ec'[b] = ec[b] /\ reports'[b] = reports[b]
    BY <1>1, <1>6, <1>17, IdsAndMembers
  <2>2. ec[b].id \in Ids \cup {0}
    BY DEF Types, ClientTypes, Copy
  <2>3. Account(b)' = Account(b)
    <3>1. CASE ec[b].id = 0
      BY <2>1, <3>1 DEF Account
    <3>2. CASE ec[b].id \in Ids \ {i}
      BY <1>11, <2>1, <3>2 DEF Account
    <3>3. CASE ec[b].id = i
      BY <1>3, <1>11, <1>17, <2>1, <3>3 DEF Account
    <3> QED BY <2>2, <3>1, <3>2, <3>3
  <2> QED BY <1>17, <2>1, <2>3, Untouched
<1> QED BY <1>9, <1>12, <1>13, <1>15, <1>16, <1>17 DEF Types, Kept, Follows

-----------------------------------------------------------------------------
(* Steps of the deliverer thread                                             *)

LEMMA AddedIs ==
  ASSUME NEW i \in Ids, clients[i] \in EventClient, ~clients[i].terminated,
         NEW kind \in {"list", "change"}, NEW v \in Nat
  PROVE  /\ Added(i, kind, v) \in EventClient
         /\ Added(i, kind, v).owner = clients[i].owner
         /\ Added(i, kind, v).subscribed = clients[i].subscribed
         /\ ~Added(i, kind, v).terminated
         /\ Added(i, kind, v).next_number = clients[i].next_number + 1
         /\ Added(i, kind, v).blocked = (clients[i].blocked /\ kind # "list")
         /\ \E m \in Event : /\ m.number = clients[i].next_number /\ m.kind = kind /\ m.version = v
                             /\ Added(i, kind, v).events = Append(clients[i].events, m)
<1> DEFINE x == clients[i]
           m == [number |-> x.next_number, kind |-> kind, version |-> v]
           y == [x EXCEPT !.events = Append(x.events, m), !.next_number = x.next_number + 1,
                          !.blocked = x.blocked /\ kind # "list"]
<1>1. x \in EventClient
  OBVIOUS
<1>2. Added(i, kind, v) = y
  BY Zenon DEF Added
<1> HIDE DEF x
<1>3. m \in Event /\ m.number = x.next_number /\ m.kind = kind /\ m.version = v
  BY <1>1 DEF Event, EventClient
<1> HIDE DEF m
<1>4. x.events \in Seq(Event) /\ x.next_number \in Nat /\ x.blocked \in BOOLEAN
  BY <1>1 DEF EventClient
<1>5. Append(x.events, m) \in Seq(Event) /\ x.next_number + 1 \in Nat
  BY <1>3, <1>4, AppendProperties
<1>6. /\ y \in EventClient /\ y.owner = x.owner /\ y.subscribed = x.subscribed
      /\ y.terminated = x.terminated /\ y.next_number = x.next_number + 1
      /\ y.blocked = (x.blocked /\ kind # "list") /\ y.events = Append(x.events, m)
  BY <1>1, <1>4, <1>5 DEF EventClient
<1> QED BY <1>2, <1>3, <1>6 DEF x

\* A step that changes the records of some clients, but not whose they are.
LEMMA Renewed ==
  ASSUME Types, UNCHANGED ec, clients' = [i \in Ids |-> clients'[i]],
         \A i \in Ids :
           \/ clients'[i] = clients[i]
           \/ /\ clients[i] # NoClient /\ clients'[i] \in EventClient
              /\ clients'[i].owner = clients[i].owner
              /\ clients'[i].subscribed = clients[i].subscribed \/ clients'[i].subscribed = TRUE
  PROVE  /\ clients' \in [Ids -> EventClient \cup {NoClient}] /\ Owners'
         /\ \A c \in Client :
              Account(c)' = IF Account(c) = NoClient THEN NoClient ELSE clients'[ec[c].id]
<1>1. \A i \in Ids : clients[i] \in EventClient \cup {NoClient}
  BY DEF Types, MasterTypes
<1>2. \A i \in Ids : clients'[i] \in EventClient \cup {NoClient}
  BY <1>1
<1>3. clients' \in [Ids -> EventClient \cup {NoClient}]
  BY <1>2
<1>4. Owners'
  BY NoClientAssumption DEF Types, Owners
<1>5. ASSUME NEW c \in Client
      PROVE  Account(c)' = IF Account(c) = NoClient THEN NoClient ELSE clients'[ec[c].id]
  <2>1. ec[c].id \in Ids \cup {0} /\ ec'[c].id = ec[c].id
    BY DEF Types, ClientTypes, Copy
  <2>2. CASE ec[c].id = 0
    BY <2>1, <2>2 DEF Account
  <2>3. CASE ec[c].id \in Ids /\ ec[c].id # 0
    <3>1. clients'[ec[c].id] = clients[ec[c].id]
          \/ (clients[ec[c].id] # NoClient /\ clients'[ec[c].id] # NoClient
              /\ clients'[ec[c].id].owner = clients[ec[c].id].owner)
      BY <2>3, NoClientAssumption
    <3> QED BY <2>1, <2>3, <3>1 DEF Account
  <2> QED BY <2>1, <2>2, <2>3
<1> QED BY <1>3, <1>4, <1>5

LEMMA SendToAllTells ==
  ASSUME Types, NEW d \in Nat, SendToAll(d + 1), UNCHANGED <<ec, reports>>
  PROVE  /\ clients' \in [Ids -> EventClient \cup {NoClient}] /\ Owners'
         /\ Follows(d) => Follows(d + 1)'
<1>1. \A i \in Ids : clients[i] \in EventClient \cup {NoClient}
  BY DEF Types, MasterTypes
<1>2. d + 1 \in Nat
  OBVIOUS
<1>3. ASSUME NEW i \in Ids
      PROVE  clients'[i] = IF i \in Registered /\ clients[i].subscribed /\ ~clients[i].blocked
                             THEN Added(i, "change", d + 1) ELSE clients[i]
  BY DEF SendToAll
<1>4. \A i \in Ids : (i \in Registered) <=> (clients[i] # NoClient)
  BY DEF Registered
<1>5. ASSUME NEW i \in Ids
      PROVE  \/ clients'[i] = clients[i]
             \/ /\ clients[i] # NoClient /\ clients'[i] \in EventClient
                /\ clients'[i].owner = clients[i].owner
                /\ clients'[i].subscribed = clients[i].subscribed
  <2>1. CASE i \in Registered /\ clients[i].terminated
    BY <1>3, <2>1 DEF Added
  <2>2. CASE i \in Registered /\ ~clients[i].terminated
    <3>1. clients[i] \in EventClient
      BY <1>1, <1>4, <2>2
    <3>2. /\ Added(i, "change", d + 1) \in EventClient
          /\ Added(i, "change", d + 1).owner = clients[i].owner
          /\ Added(i, "change", d + 1).subscribed = clients[i].subscribed
      BY <1>2, <2>2, <3>1, AddedIs
    <3> QED BY <1>3, <1>4, <2>2, <3>2
  <2>3. CASE i \notin Registered
    BY <1>3, <2>3
  <2> QED BY <2>1, <2>2, <2>3
<1>6. clients' = [i \in Ids |-> clients'[i]]
  BY DEF SendToAll
<1>7. /\ clients' \in [Ids -> EventClient \cup {NoClient}] /\ Owners'
      /\ \A c \in Client :
           Account(c)' = IF Account(c) = NoClient THEN NoClient ELSE clients'[ec[c].id]
  BY <1>5, <1>6, Renewed
<1>8. ASSUME NEW c \in Client, HasStory(c, d) PROVE HasStory(c, d + 1)'
  <2>1. PICK h \in Seq(Event) : Followed(ec[c], reports[c], Account(c), h, d)
    BY <1>8 DEF HasStory
  <2>2. /\ Account(c) \in EventClient \cup {NoClient}
        /\ Account(c) # NoClient =>
             ec[c].id \in Ids /\ ec[c].id # 0 /\ Account(c) = clients[ec[c].id] /\ Account(c).subscribed
    BY AccountIs DEF Ids
  <2>3. ec'[c] = ec[c] /\ reports'[c] = reports[c] /\ ec[c] \in Copy
    BY DEF Types, ClientTypes
  <2>4. CASE Account(c) = NoClient \/ Account(c).terminated \/ Account(c).blocked
    <3>1. Followed(ec[c], reports[c], Account(c), h, d + 1)
      BY <2>1, <2>2, <2>4, StoryWaits
    <3>2. Account(c)' = Account(c)
      <4>1. CASE Account(c) = NoClient
        BY <1>7, <4>1
      <4>2. CASE Account(c) # NoClient
        <5>1. clients'[ec[c].id] = clients[ec[c].id]
          BY <1>3, <2>2, <2>4, <4>2 DEF Added
        <5> QED BY <1>7, <2>2, <4>2, <5>1
      <4> QED BY <4>1, <4>2
    <3> QED BY <2>3, <3>1, <3>2 DEF HasStory
  <2>5. CASE Account(c) # NoClient /\ ~Account(c).terminated /\ ~Account(c).blocked
    <3> DEFINE i == ec[c].id
               x == Account(c)
    <3>1. /\ i \in Ids /\ i # 0 /\ x = clients[i] /\ x.subscribed /\ x \in EventClient
          /\ i \in Registered /\ ~x.terminated
      BY <1>4, <2>2, <2>5
    <3>2. PICK y : y = Added(i, "change", d + 1)
      OBVIOUS
    <3>3. Account(c)' = y
      BY <1>3, <1>7, <2>5, <3>1, <3>2
    <3> HIDE DEF i, x
    <3>4. /\ ~y.terminated /\ y.next_number = x.next_number + 1
          /\ y.blocked = (x.blocked /\ "change" # "list")
          /\ \E m \in Event : /\ m.number = x.next_number /\ m.kind = "change" /\ m.version = d + 1
                              /\ y.events = Append(x.events, m)
      BY <1>2, <3>1, <3>2, AddedIs
    <3>5. PICK m \in Event : /\ m.number = x.next_number /\ m.kind = "change" /\ m.version = d + 1
                             /\ y.events = Append(x.events, m)
      BY <3>4
    <3>6. Followed(ec[c], reports[c], x, h, d) /\ x # NoClient /\ ~x.blocked /\ ec[c].id # 0
      BY <2>1, <2>5, <3>1 DEF i, x
    <3>7. Followed(ec[c], reports[c], y, Append(h, m), d + 1)
      BY <1>2, <2>3, <3>1, <3>4, <3>5, <3>6, StoryGrows
    <3>8. Append(h, m) \in Seq(Event)
      BY AppendProperties
    <3> QED BY <2>3, <3>3, <3>7, <3>8 DEF HasStory
  <2> QED BY <2>4, <2>5
<1> QED BY <1>7, <1>8 DEF Follows

LEMMA SendToOneTells ==
  ASSUME Types, NEW j \in Ids \cup {0}, NEW v \in Nat, SendToOne(j, v), UNCHANGED <<ec, reports>>
  PROVE  /\ clients' \in [Ids -> EventClient \cup {NoClient}] /\ Owners'
         /\ \A d \in Nat : Follows(d) /\ (j \in DynamicId => v = d) => Follows(d)'
<1>1. \A i \in Ids : clients[i] \in EventClient \cup {NoClient}
  BY DEF Types, MasterTypes
<1>2. ASSUME NEW i \in Ids
      PROVE  clients'[i] = IF i = j /\ clients[i] # NoClient THEN Added(i, "list", v) ELSE clients[i]
  BY DEF SendToOne, Registered, Types, MasterTypes
<1>3. ASSUME NEW i \in Ids
      PROVE  \/ clients'[i] = clients[i]
             \/ /\ clients[i] # NoClient /\ clients'[i] \in EventClient
                /\ clients'[i].owner = clients[i].owner
                /\ clients'[i].subscribed = clients[i].subscribed
  <2>1. CASE i = j /\ clients[i] # NoClient /\ clients[i].terminated
    BY <1>2, <2>1 DEF Added
  <2>2. CASE i = j /\ clients[i] # NoClient /\ ~clients[i].terminated
    <3>1. clients[i] \in EventClient
      BY <1>1, <2>2
    <3>2. /\ Added(i, "list", v) \in EventClient
          /\ Added(i, "list", v).owner = clients[i].owner
          /\ Added(i, "list", v).subscribed = clients[i].subscribed
      BY <2>2, <3>1, AddedIs
    <3> QED BY <1>2, <2>2, <3>2
  <2>3. CASE ~(i = j /\ clients[i] # NoClient)
    BY <1>2, <2>3
  <2> QED BY <2>1, <2>2, <2>3
<1>4. clients' = [i \in Ids |-> clients'[i]]
  BY DEF SendToOne, Types, MasterTypes, Registered
<1>5. /\ clients' \in [Ids -> EventClient \cup {NoClient}] /\ Owners'
      /\ \A c \in Client :
           Account(c)' = IF Account(c) = NoClient THEN NoClient ELSE clients'[ec[c].id]
  BY <1>3, <1>4, Renewed
<1>6. ASSUME NEW d \in Nat, j \in DynamicId => v = d, NEW c \in Client, HasStory(c, d)
      PROVE  HasStory(c, d)'
  <2>1. PICK h \in Seq(Event) : Followed(ec[c], reports[c], Account(c), h, d)
    BY <1>6 DEF HasStory
  <2>2. /\ Account(c) \in EventClient \cup {NoClient}
        /\ Account(c) # NoClient =>
             ec[c].id \in DynamicId /\ ec[c].id # 0 /\ Account(c) = clients[ec[c].id]
    BY AccountIs
  <2>3. ec'[c] = ec[c] /\ reports'[c] = reports[c] /\ ec[c] \in Copy /\ DynamicId \subseteq Ids
    BY DEF Types, ClientTypes, Ids
  <2>4. CASE Account(c) = NoClient \/ Account(c).terminated \/ ec[c].id # j
    <3>1. Account(c)' = Account(c)
      <4>1. CASE Account(c) = NoClient
        BY <1>5, <4>1
      <4>2. CASE Account(c) # NoClient
        <5>1. clients'[ec[c].id] = clients[ec[c].id]
          BY <1>2, <2>2, <2>3, <2>4, <4>2 DEF Added
        <5> QED BY <1>5, <2>2, <4>2, <5>1
      <4> QED BY <4>1, <4>2
    <3> QED BY <1>6, <2>3, <3>1, Untouched
  <2>5. CASE Account(c) # NoClient /\ ~Account(c).terminated /\ ec[c].id = j
    <3> DEFINE x == Account(c)
    <3>1. j \in Ids /\ j # 0 /\ x = clients[j] /\ x \in EventClient /\ v = d
      BY <1>6, <2>2, <2>3, <2>5
    <3>2. PICK y : y = Added(j, "list", v)
      OBVIOUS
    <3>3. Account(c)' = y
      BY <1>2, <1>5, <2>5, <3>1, <3>2
    <3>4. /\ ~y.terminated /\ y.next_number = x.next_number + 1
          /\ y.blocked = (x.blocked /\ "list" # "list")
          /\ \E m \in Event : /\ m.number = x.next_number /\ m.kind = "list" /\ m.version = v
                              /\ y.events = Append(x.events, m)
      BY <2>5, <3>1, <3>2, AddedIs
    <3>5. PICK m \in Event : /\ m.number = x.next_number /\ m.kind = "list" /\ m.version = d
                             /\ y.events = Append(x.events, m)
      BY <3>1, <3>4
    <3> HIDE DEF x
    <3>6. Followed(ec[c], reports[c], x, h, d) /\ x # NoClient /\ ~x.terminated /\ ec[c].id # 0
      BY <2>1, <2>5, <3>1 DEF x
    <3>7. Followed(ec[c], reports[c], y, Append(h, m), d)
      BY <2>3, <3>1, <3>4, <3>5, <3>6, StoryGrows
    <3>8. Append(h, m) \in Seq(Event)
      BY AppendProperties
    <3> QED BY <2>3, <3>3, <3>7, <3>8 DEF HasStory
  <2> QED BY <2>4, <2>5
<1> QED BY <1>5, <1>6 DEF Follows

\* The record of one client is changed to x, its events perhaps shortened.
LEMMA OneShortened ==
  ASSUME Types, NEW j, NEW x, UNCHANGED <<ec, reports>>,
         clients' = IF j \in Registered THEN [clients EXCEPT ![j] = x] ELSE clients,
         j \in Registered =>
           /\ x \in EventClient /\ x.owner = clients[j].owner
           /\ x.subscribed = clients[j].subscribed \/ x.subscribed = TRUE
           /\ Shortened(x, clients[j])
  PROVE  /\ clients' \in [Ids -> EventClient \cup {NoClient}] /\ Owners'
         /\ \A d \in Nat : Follows(d) => Follows(d)'
<1>1. clients \in [Ids -> EventClient \cup {NoClient}]
  BY DEF Types, MasterTypes
<1>2. ASSUME NEW i \in Ids
      PROVE  clients'[i] = IF i = j /\ i \in Registered THEN x ELSE clients[i]
  BY <1>1
<1>3. ASSUME NEW i \in Ids
      PROVE  \/ clients'[i] = clients[i]
             \/ /\ clients[i] # NoClient /\ clients'[i] \in EventClient
                /\ clients'[i].owner = clients[i].owner
                /\ clients'[i].subscribed = clients[i].subscribed \/ clients'[i].subscribed = TRUE
                /\ Shortened(clients'[i], clients[i])
  BY <1>2 DEF Registered
<1>4. clients' = [i \in Ids |-> clients'[i]]
  BY <1>1
<1>5. /\ clients' \in [Ids -> EventClient \cup {NoClient}] /\ Owners'
      /\ \A c \in Client :
           Account(c)' = IF Account(c) = NoClient THEN NoClient ELSE clients'[ec[c].id]
  BY <1>3, <1>4, Renewed
<1>6. ASSUME NEW d \in Nat, NEW c \in Client, HasStory(c, d) PROVE HasStory(c, d)'
  <2>1. Account(c) # NoClient => ec[c].id \in Ids /\ Account(c) = clients[ec[c].id]
    BY AccountIs DEF Ids
  <2>2. \/ Account(c)' = NoClient \/ Account(c)' = Account(c)
        \/ Account(c) # NoClient /\ Shortened(Account(c)', Account(c))
    <3>1. CASE Account(c) = NoClient
      BY <1>5, <3>1
    <3>2. CASE Account(c) # NoClient
      <4>1. Account(c)' = clients'[ec[c].id]
        BY <1>5, <3>2
      <4> QED BY <1>3, <2>1, <3>2, <4>1
    <3> QED BY <3>1, <3>2
  <2> QED BY <1>6, <2>2, OthersShortened
<1> QED BY <1>5, <1>6 DEF Follows

LEMMA ProcessAckTells ==
  ASSUME Types, NEW j \in Ids \cup {0}, NEW n \in Nat, ProcessAck(j, n), UNCHANGED <<ec, reports>>
  PROVE  /\ clients' \in [Ids -> EventClient \cup {NoClient}] /\ Owners'
         /\ \A d \in Nat : Follows(d) => Follows(d)'
<1> DEFINE left == Behind(clients[j].events, n)
           released == clients[j].busy /\ j = SchedId
           x == [clients[j] EXCEPT !.events = left, !.busy = released]
<1>1. clients' = IF j \in Registered THEN [clients EXCEPT ![j] = x] ELSE clients
  BY DEF ProcessAck
<1>2. ASSUME j \in Registered
      PROVE  /\ x \in EventClient /\ x.owner = clients[j].owner
             /\ x.subscribed = clients[j].subscribed
             /\ Shortened(x, clients[j])
  <2>1. clients[j] \in EventClient
    BY <1>2 DEF Registered, Types, MasterTypes
  <2>2. clients[j].events \in Seq(Event) /\ n \in Int /\ released \in BOOLEAN
    BY <2>1 DEF EventClient
  <2>3. EndOf(left, clients[j].events)
    BY <2>2, BehindIsEnd
  <2>4. left \in Seq(Event)
    BY <2>3 DEF EndOf
  <2> HIDE DEF left, released
  <2>5. /\ x \in EventClient /\ x.owner = clients[j].owner /\ x.subscribed = clients[j].subscribed
        /\ x.next_number = clients[j].next_number /\ x.blocked = clients[j].blocked
        /\ x.terminated = clients[j].terminated /\ x.events = left
    BY <2>1, <2>2, <2>4 DEF EventClient
  <2> QED BY <2>3, <2>5 DEF Shortened
<1> HIDE DEF x
<1> QED BY <1>1, <1>2, OneShortened

LEMMA ProcessModTells ==
  ASSUME Types, NEW j \in Ids \cup {0}, ProcessMod(j), UNCHANGED <<ec, reports>>
  PROVE  /\ clients' \in [Ids -> EventClient \cup {NoClient}] /\ Owners'
         /\ \A d \in Nat : Follows(d) => Follows(d)'
<1> DEFINE x == [clients[j] EXCEPT !.busy = FALSE, !.subscribed = TRUE]
<1>1. clients' = IF j \in Registered THEN [clients EXCEPT ![j] = x] ELSE clients
  BY DEF ProcessMod
<1>2. ASSUME j \in Registered
      PROVE  /\ x \in EventClient /\ x.owner = clients[j].owner
             /\ x.subscribed = TRUE
             /\ Shortened(x, clients[j])
  <2>1. clients[j] \in EventClient
    BY <1>2 DEF Registered, Types, MasterTypes
  <2>2. clients[j].events \in Seq(Event)
    BY <2>1 DEF EventClient
  <2>3. /\ x \in EventClient /\ x.owner = clients[j].owner /\ x.subscribed = TRUE
        /\ x.next_number = clients[j].next_number /\ x.blocked = clients[j].blocked
        /\ x.terminated = clients[j].terminated /\ x.events = clients[j].events
    BY <2>1 DEF EventClient
  <2> QED BY <2>2, <2>3, EndOfItself DEF Shortened
<1> HIDE DEF x
<1> QED BY <1>1, <1>2, OneShortened

LEMMA ProcessRequestKeeps ==
  ASSUME Types, ProcessRequest, NEW d \in Nat, QueueInv(d), Follows(d)
  PROVE  Types' /\ \E b \in Nat : QueueInv(b)' /\ Follows(b)'
<1> DEFINE r == Head(requests)
           newList == r.op = "mod" /\ r.id \in Registered /\ ~clients[r.id].subscribed
           new == Request("list", r.id, version)
<1>1. /\ deliverer = "process" /\ batch > 0 /\ batch' = batch - 1
      /\ UNCHANGED <<version, writing, deliverer, ec, reports, acks>>
      /\ requests' = Tail(requests) \o (IF newList THEN <<new>> ELSE <<>>)
  BY DEF ProcessRequest, dataVars, wire
<1>2. /\ requests \in Seq(RequestType) /\ batch \in Nat /\ batch <= Len(requests) /\ version \in Nat
  BY <1>1 DEF Types, MasterTypes
<1>3. Len(requests) \in Nat /\ requests # <<>>
  BY <1>1, <1>2, LenProperties, EmptySeq
<1>4. r \in RequestType /\ Tail(requests) \in Seq(RequestType) /\ Len(Tail(requests)) = Len(requests) - 1
  BY <1>2, <1>3, HeadTailProperties
<1>5. /\ \/ r.op = "event" /\ SendToAll(r.number)
         \/ r.op = "list" /\ SendToOne(r.id, r.number)
         \/ r.op = "ack" /\ ProcessAck(r.id, r.number)
         \/ r.op = "mod" /\ ProcessMod(r.id)
  BY DEF ProcessRequest
<1>6. r.id \in Ids \cup {0} /\ r.number \in Nat
  BY <1>4 DEF RequestType
<1> HIDE DEF r
<1>7. ASSUME newList PROVE r.id = SchedId /\ new \in RequestType /\ new.op = "list" /\ new.id = SchedId
  <2>1. r.id \in Ids /\ clients[r.id] # NoClient /\ ~clients[r.id].subscribed
    BY <1>7 DEF Registered
  <2>2. r.id = SchedId
    BY <2>1 DEF Types, Owners
  <2> QED BY <1>2, <2>1, <2>2 DEF Request, RequestType
<1> HIDE DEF new
<1>8. /\ ~newList => requests' = Tail(requests)
      /\ newList => requests' = Append(Tail(requests), new)
  BY <1>1, <1>4, <1>7, ConcatEmptySeq, AppendIsConcat
<1> HIDE DEF newList
<1>9. requests' \in Seq(RequestType) /\ batch' \in Nat /\ batch' <= Len(requests')
  <2>1. CASE ~newList
    <3>1. requests' \in Seq(RequestType) /\ Len(requests') = Len(requests) - 1
      BY <1>4, <1>8, <2>1
    <3> QED BY <1>1, <1>2, <1>3, <3>1
  <2>2. CASE newList
    <3>1. requests' \in Seq(RequestType) /\ Len(requests') = Len(Tail(requests)) + 1
      BY <1>4, <1>7, <1>8, <2>2, AppendProperties
    <3> QED BY <1>1, <1>2, <1>3, <1>4, <3>1
  <2> QED BY <2>1, <2>2
<1>10. Queued' = Queued /\ Queued \in Nat
  BY <1>1, QueuedIs DEF Queued, Types
<1>11. /\ r.op = "event" => r.number = d + 1 /\ QueueInv(d + 1)'
       /\ r.op # "event" => QueueInv(d)'
       /\ r.op = "list" /\ r.id \in DynamicId => r.number = d
  <2>1. PICK f : Reaches(f, requests, Queued) /\ f[0] = d
    BY DEF QueueInv
  <2>2. /\ \E g : Reaches(g, Tail(requests), Queued) /\ g[0] = f[1]
        /\ f[1] = IF r.op = "event" THEN d + 1 ELSE d
        /\ r.op = "event" => r.number = f[1]
        /\ r.op = "list" /\ r.id \in DynamicId => r.number = f[1]
    BY <1>2, <1>3, <1>10, <2>1, QueueShrinks DEF r
  <2>3. PICK g : Reaches(g, Tail(requests), Queued) /\ g[0] = f[1]
    BY <2>2
  <2>4. \E k : Reaches(k, requests', Queued) /\ k[0] = f[1]
    <3>1. CASE ~newList
      BY <1>8, <2>3, <3>1
    <3>2. CASE newList
      <4>1. PICK q, n, v : q = Tail(requests) /\ n = new /\ v = Queued
        OBVIOUS
      <4>2. /\ q \in Seq(RequestType) /\ n \in RequestType /\ v \in Nat /\ Reaches(g, q, v)
            /\ n.op = "list" /\ n.id \notin DynamicId
        BY <1>4, <1>7, <1>10, <2>3, <3>2, <4>1
      <4>3. /\ v = IF n.op = "event" THEN v + 1 ELSE v
            /\ n.op = "event" => n.number = v
            /\ n.op = "list" /\ n.id \in DynamicId => n.number = v
        BY <4>2
      <4>4. \E k : Reaches(k, Append(q, n), v) /\ k[0] = g[0]
        BY <4>2, <4>3, QueueGrows
      <4> QED BY <1>8, <2>3, <3>2, <4>1, <4>4
    <3> QED BY <3>1, <3>2
  <2>5. QueueInv(f[1])'
    BY <1>10, <2>4 DEF QueueInv
  <2> QED BY <2>2, <2>5
<1>12. ClientTypes'
  BY <1>1 DEF Types, ClientTypes
<1>13. /\ clients' \in [Ids -> EventClient \cup {NoClient}] /\ Owners'
       /\ \E b \in Nat : QueueInv(b)' /\ Follows(b)'
  <2>1. CASE r.op = "event" /\ SendToAll(r.number)
    <3>1. d + 1 \in Nat /\ SendToAll(d + 1) /\ QueueInv(d + 1)'
      BY <1>11, <2>1
    <3> QED BY <1>1, <3>1, SendToAllTells
  <2>2. CASE r.op = "list" /\ SendToOne(r.id, r.number)
    BY <1>1, <1>6, <1>11, <2>2, SendToOneTells
  <2>3. CASE r.op = "ack" /\ ProcessAck(r.id, r.number)
    BY <1>1, <1>6, <1>11, <2>3, ProcessAckTells
  <2>4. CASE r.op = "mod" /\ ProcessMod(r.id)
    BY <1>1, <1>6, <1>11, <2>4, ProcessModTells
  <2> QED BY <1>5, <2>1, <2>2, <2>3, <2>4
<1>14. MasterTypes'
  BY <1>1, <1>9, <1>13 DEF Types, MasterTypes
<1> QED BY <1>12, <1>13, <1>14 DEF Types

LEMMA DeliverKeeps == Types /\ Deliver => Types' /\ Kept
<1> SUFFICES ASSUME Types, Deliver PROVE Types' /\ Kept
  OBVIOUS
<1>1. PICK due \in SUBSET Served, late \in SUBSET Served : SendEvents(due, late)
  BY DEF Deliver
<1>2. /\ UNCHANGED <<version, writing, requests, batch, ec, acks>> /\ deliverer' = "wait"
  BY DEF Deliver, dataVars
<1> DEFINE gone == late \cup {i \in Registered : clients[i].terminated}
           sent == {i \in late \cup {j \in due : ~clients[j].busy} : Reachable(i)}
           left(i) == IF i \in sent /\ i = SchedId THEN <<>> ELSE clients[i].events
           works(i) == clients[i].busy \/ i \in sent
           After(i) == IF i \in gone THEN NoClient
                       ELSE [clients[i] EXCEPT !.busy = works(i), !.events = left(i)]
<1>3. clients' = [i \in Ids |-> IF i \in Registered THEN After(i) ELSE NoClient]
  BY <1>1, Zenon DEF SendEvents
<1>4. reports' = [m \in Members |->
                    IF \E i \in sent : clients[i].owner = m /\ Reachable(i)
                      THEN LET i == CHOOSE j \in sent : clients[j].owner = m
                           IN <<FlattenSeq(reports[m]) \o Report(i, late)>>
                      ELSE reports[m]]
  BY <1>1, Zenon DEF SendEvents
<1>5. \A i \in sent : Reachable(i) /\ i \in Ids /\ clients[i] # NoClient
  BY DEF Served, Registered
<1>6. /\ \A i \in Ids : clients[i] \in EventClient \cup {NoClient} /\ ((i \in Registered) <=> (clients[i] # NoClient))
      /\ \A c \in Client : c \in Members /\ c # Scheduler /\ ec[c] \in Copy /\ reports[c] \in Seq(Seq(Event))
  BY IdsAndMembers DEF Types, MasterTypes, ClientTypes, Registered
<1>7. \A i \in late : i \in gone
  OBVIOUS
<1> HIDE DEF sent, gone
<1>8. ASSUME NEW i \in Ids, clients[i] # NoClient, i \notin gone
      PROVE  /\ After(i) \in EventClient /\ After(i).owner = clients[i].owner
             /\ After(i).subscribed = clients[i].subscribed
             /\ i # SchedId => Shortened(After(i), clients[i])
  <2>1. clients[i] \in EventClient
    BY <1>6, <1>8
  <2>2. clients[i].events \in Seq(Event)
    BY <2>1 DEF EventClient
  <2>3. left(i) \in Seq(Event) /\ works(i) \in BOOLEAN /\ (i # SchedId => left(i) = clients[i].events)
    BY <2>1, <2>2, EmptySeq DEF EventClient
  <2> HIDE DEF left, works
  <2>4. After(i) = [clients[i] EXCEPT !.busy = works(i), !.events = left(i)]
    BY <1>8
  <2> HIDE DEF After
  <2>5. /\ After(i) \in EventClient /\ After(i).owner = clients[i].owner
        /\ After(i).subscribed = clients[i].subscribed
        /\ After(i).next_number = clients[i].next_number /\ After(i).blocked = clients[i].blocked
        /\ After(i).terminated = clients[i].terminated /\ After(i).events = left(i)
    BY <2>1, <2>3, <2>4 DEF EventClient
  <2> QED BY <2>2, <2>3, <2>5, EndOfItself DEF Shortened
<1>9. ASSUME NEW i \in Ids
      PROVE  /\ clients[i] = NoClient \/ i \in gone => clients'[i] = NoClient
             /\ clients[i] # NoClient /\ i \notin gone => clients'[i] = After(i)
  BY <1>3, <1>6
<1> HIDE DEF After
<1>10. clients' \in [Ids -> EventClient \cup {NoClient}] /\ Owners'
  <2>1. ASSUME NEW i \in Ids PROVE clients'[i] \in EventClient \cup {NoClient}
    BY <1>8, <1>9
  <2>2. clients' \in [Ids -> EventClient \cup {NoClient}]
    BY <1>3, <2>1
  <2>3. Owners'
    BY <1>8, <1>9 DEF Types, Owners
  <2> QED BY <2>2, <2>3
<1>11. MasterTypes'
  BY <1>2, <1>10 DEF Types, MasterTypes
<1>12. ASSUME NEW c \in Client
       PROVE  \/ reports'[c] = reports[c]
              \/ LET i == ec[c].id
                 IN i # 0 /\ Account(c) # NoClient /\ Account(c) = clients[i]
                    /\ reports'[c] = <<Report(i, late)>>
  <2>1. CASE ~ \E i \in sent : clients[i].owner = c /\ Reachable(i)
    BY <1>4, <1>6, <2>1
  <2>2. CASE \E i \in sent : clients[i].owner = c /\ Reachable(i)
    <3> DEFINE i == CHOOSE j \in sent : clients[j].owner = c
    <3>1. i \in sent /\ clients[i].owner = c
      BY <2>2
    <3>2. reports'[c] = <<FlattenSeq(reports[c]) \o Report(i, late)>>
      BY <1>4, <1>6, <2>2
    <3> HIDE DEF i
    <3>3. i \in Ids /\ clients[i] # NoClient /\ Reachable(i)
      BY <1>5, <3>1
    <3>4. i # SchedId
      BY <1>6, <3>1, <3>3 DEF Types, Owners
    <3>5. ec[c].id = i /\ reports[c] = <<>>
      BY <3>1, <3>3, <3>4 DEF Reachable
    <3>6. Report(i, late) \in Seq(Event)
      <4>1. clients[i] \in EventClient
        BY <1>6, <3>3
      <4>2. clients[i].events \in Seq(Event) /\ clients[i].next_number \in Nat
        BY <4>1 DEF EventClient
      <4>3. [number |-> clients[i].next_number, kind |-> "timeout", version |-> 0] \in Event
        BY <4>2 DEF Event
      <4> QED BY <4>2, <4>3, EmptySeq, ConcatProperties DEF Report
    <3>7. reports'[c] = <<Report(i, late)>>
      BY <3>2, <3>5, <3>6, NothingToFlatten, ConcatEmptySeq
    <3>8. i # 0
      BY <3>3, IdsAndMembers
    <3>9. Account(c) = clients[i] /\ Account(c) # NoClient
      BY <3>1, <3>3, <3>5, <3>8 DEF Account
    <3> QED BY <3>5, <3>7, <3>8, <3>9
  <2> QED BY <2>1, <2>2
<1>13. ASSUME NEW i \in Ids, clients[i] # NoClient
       PROVE  /\ Report(i, late) \in Seq(Event)
              /\ \E m \in Event :
                   /\ m.number = clients[i].next_number /\ m.kind = "timeout"
                   /\ Report(i, late) = clients[i].events \o (IF i \in late THEN <<m>> ELSE <<>>)
  <2> DEFINE m == [number |-> clients[i].next_number, kind |-> "timeout", version |-> 0]
  <2>1. clients[i] \in EventClient
    BY <1>6, <1>13
  <2>2. clients[i].events \in Seq(Event) /\ clients[i].next_number \in Nat
    BY <2>1 DEF EventClient
  <2>3. m \in Event /\ m.number = clients[i].next_number /\ m.kind = "timeout"
    BY <2>2 DEF Event
  <2>4. Report(i, late) = clients[i].events \o (IF i \in late THEN <<m>> ELSE <<>>)
    BY DEF Report
  <2> HIDE DEF m
  <2>5. (IF i \in late THEN <<m>> ELSE <<>>) \in Seq(Event)
    BY <2>3, EmptySeq
  <2>6. Report(i, late) \in Seq(Event)
    BY <2>2, <2>4, <2>5, ConcatProperties
  <2> QED BY <2>3, <2>4, <2>6
<1>14. ClientTypes'
  <2>1. ASSUME NEW c \in Client PROVE reports'[c] \in Seq(Seq(Event)) /\ Len(reports'[c]) <= 1
    <3>1. CASE reports'[c] = reports[c]
      BY <3>1 DEF Types, ClientTypes
    <3>2. CASE reports'[c] # reports[c]
      <4>1. PICK i \in Ids : clients[i] # NoClient /\ reports'[c] = <<Report(i, late)>>
        <5>1. Account(c) # NoClient => ec[c].id \in Ids
          BY AccountIs DEF Ids
        <5> QED BY <1>12, <3>2, <5>1
      <4>2. Report(i, late) \in Seq(Event)
        BY <1>13, <4>1
      <4>3. PICK l \in Seq(Event) : reports'[c] = <<l>>
        BY <4>1, <4>2
      <4> QED BY <4>3
    <3> QED BY <3>1, <3>2
  <2>2. reports' = [m \in Members |-> reports'[m]]
    BY <1>4
  <2> QED BY <1>2, <2>1, <2>2 DEF Types, ClientTypes
<1>15. ASSUME NEW c \in Client
       PROVE  /\ Account(c) = NoClient => Account(c)' = NoClient
              /\ Account(c) # NoClient =>
                   /\ ec[c].id \in gone => Account(c)' = NoClient
                   /\ Account(c)' = NoClient \/ Shortened(Account(c)', Account(c))
  <2>1. ec[c].id \in Ids \cup {0} /\ ec'[c].id = ec[c].id
    BY <1>2, <1>6 DEF Copy
  <2>2. CASE ec[c].id = 0
    BY <2>1, <2>2 DEF Account
  <2>3. CASE ec[c].id \in Ids /\ ec[c].id # 0
    <3> DEFINE i == ec[c].id
    <3>1. clients[i] = NoClient \/ i \in gone => Account(c)' = NoClient
      BY <1>9, <2>1, <2>3 DEF Account
    <3>2. ASSUME clients[i] # NoClient, i \notin gone
          PROVE  /\ clients'[i] \in EventClient /\ clients'[i].owner = clients[i].owner
                 /\ i # SchedId => Shortened(clients'[i], clients[i])
      BY <1>8, <1>9, <2>3, <3>2
    <3>3. Account(c) # NoClient => i # SchedId /\ Account(c) = clients[i] /\ clients[i] # NoClient
      BY AccountIs
    <3>4. ASSUME clients[i] # NoClient, i \notin gone
          PROVE  Account(c)' = IF Account(c) = NoClient THEN NoClient ELSE clients'[i]
      BY <2>1, <2>3, <3>2, <3>4, NoClientAssumption DEF Account
    <3> HIDE DEF i
    <3>5. CASE clients[i] = NoClient \/ i \in gone
      BY <3>1, <3>3, <3>5 DEF i
    <3>6. CASE clients[i] # NoClient /\ i \notin gone
      BY <3>2, <3>3, <3>4, <3>6 DEF i
    <3> QED BY <3>5, <3>6
  <2> QED BY <2>1, <2>2, <2>3
<1>16. ASSUME NEW d \in Nat, NEW c \in Client, HasStory(c, d) PROVE HasStory(c, d)'
  <2>1. ec'[c] = ec[c]
    BY <1>2
  <2>2. CASE reports'[c] = reports[c]
    BY <1>15, <1>16, <2>1, <2>2, OthersShortened
  <2>3. CASE reports'[c] # reports[c]
    <3>1. PICK h \in Seq(Event) : Followed(ec[c], reports[c], Account(c), h, d)
      BY <1>16 DEF HasStory
    <3>2. PICK i, x, y : i = ec[c].id /\ x = Account(c) /\ y = Account(c)'
      OBVIOUS
    <3>3. i # 0 /\ x # NoClient /\ x = clients[i] /\ reports'[c] = <<Report(i, late)>>
      BY <1>12, <2>3, <3>2
    <3>4. i \in Ids /\ x \in EventClient
      BY <3>2, <3>3, AccountIs DEF Ids
    <3>5. PICK m \in Event :
            /\ m.number = x.next_number /\ m.kind = "timeout"
            /\ Report(i, late) = x.events \o (IF i \in late THEN <<m>> ELSE <<>>)
      BY <1>13, <3>3, <3>4
    <3>6. PICK last : last = IF i \in late THEN <<m>> ELSE <<>>
      OBVIOUS
    <3>7. /\ y = NoClient \/ Shortened(y, x)
          /\ last = <<>> \/ (last = <<m>> /\ y = NoClient)
      BY <1>7, <1>15, <3>2, <3>3, <3>6
    <3>8. Followed(ec[c], <<x.events \o last>>, y, h, d)
      <4>1. Followed(ec[c], reports[c], x, h, d) /\ ec[c].id # 0
        BY <3>1, <3>2, <3>3
      <4> QED BY <3>3, <3>4, <3>5, <3>7, <4>1, StorySent
    <3>9. reports'[c] = <<x.events \o last>>
      BY <3>3, <3>5, <3>6
    <3> QED BY <2>1, <3>2, <3>8, <3>9 DEF HasStory
  <2> QED BY <2>2, <2>3
<1>17. Queued' = Queued
  BY <1>2 DEF Queued
<1> QED BY <1>2, <1>10, <1>11, <1>14, <1>16, <1>17, SameQueue DEF Types, Kept, Follows

-----------------------------------------------------------------------------
(* The invariant and what follows from it                                    *)

LEMMA EventInitInv == EventInit => EventInv
<1> SUFFICES ASSUME EventInit PROVE EventInv
  OBVIOUS
<1>1. /\ version = 0 /\ writing = FALSE /\ requests = <<>> /\ batch = 0 /\ deliverer = "wait"
      /\ clients = [i \in Ids |-> NoClient] /\ acks = {}
      /\ ec = [m \in Members |-> [id |-> 0, next_event |-> 1, received |-> <<>>, view |-> Nothing]]
      /\ reports = [m \in Members |-> <<>>]
  BY DEF EventInit
<1>2. Len(<<>>) = 0 /\ <<>> \in Seq(Event) /\ <<>> \in Seq(Seq(Event)) /\ <<>> \in Seq(RequestType)
  BY EmptySeq
<1>3. ASSUME NEW c \in Client
      PROVE  /\ ec[c] \in Copy /\ ec[c].id = 0 /\ ec[c].next_event = 1 /\ ec[c].received = <<>>
             /\ ec[c].view = Nothing /\ reports[c] = <<>>
  <2>1. c \in Members
    BY IdsAndMembers
  <2>2. ec[c] = [id |-> 0, next_event |-> 1, received |-> <<>>, view |-> Nothing]
    BY <1>1, <2>1
  <2> QED BY <1>1, <1>2, <2>1, <2>2 DEF Copy
<1>4. Types
  <2>1. MasterTypes
    BY <1>1, <1>2 DEF MasterTypes
  <2>2. ClientTypes
    <3>1. ec = [m \in Members |-> ec[m]]
      BY <1>1
    <3>2. reports = [m \in Members |-> reports[m]]
      BY <1>1
    <3>3. ASSUME NEW c \in Client
          PROVE  ec[c] \in Copy /\ reports[c] \in Seq(Seq(Event)) /\ Len(reports[c]) <= 1
      <4>1. ec[c] \in Copy /\ reports[c] = <<>>
        BY <1>3
      <4> QED BY <1>2, <4>1
    <3> QED BY <3>1, <3>2, <3>3 DEF ClientTypes
  <2>3. Owners
    BY <1>1 DEF Owners
  <2> QED BY <2>1, <2>2, <2>3 DEF Types
<1>5. QueueInv(0)
  <2> DEFINE f == [k \in 0 .. 0 |-> 0]
  <2>1. Queued = 0
    BY <1>1 DEF Queued
  <2>2. f \in [0 .. 0 -> 0 .. 0] /\ f[0] = 0 /\ \A k \in 1 .. 0 : FALSE
    OBVIOUS
  <2> HIDE DEF f
  <2>3. Reaches(f, <<>>, 0)
    BY <1>2, <2>2 DEF Reaches
  <2> QED BY <1>1, <2>1, <2>2, <2>3 DEF QueueInv
<1>6. ASSUME NEW c \in Client PROVE HasStory(c, 0)
  <2>1. Account(c) = NoClient
    BY <1>3 DEF Account
  <2>2. Place(ec[c]) = 0 /\ \A k \in 1 .. 0 : FALSE
    BY <1>2, <1>3 DEF Place
  <2>3. HasRead(ec[c], <<>>, 0, NoClient)
    BY <1>2, <1>3, <2>2 DEF HasRead
  <2>4. WillGet(ec[c], reports[c], <<>>, NoClient)
    BY <1>3 DEF WillGet
  <2>5. Story(<<>>, 0)
    BY <1>2, <2>2 DEF Story
  <2>6. Followed(ec[c], reports[c], Account(c), <<>>, 0)
    BY <2>1, <2>3, <2>4, <2>5 DEF Followed
  <2> QED BY <1>2, <2>6 DEF HasStory
<1> QED BY <1>4, <1>5, <1>6 DEF EventInv, Follows

LEMMA EventNextInv == EventInv /\ [EventNext]_eventVars => EventInv'
<1> SUFFICES ASSUME EventInv, [EventNext]_eventVars PROVE EventInv'
  OBVIOUS
<1>1. Types
  BY DEF EventInv
<1>2. PICK d \in Nat : QueueInv(d) /\ Follows(d)
  BY DEF EventInv
<1>3. ASSUME Types', Kept PROVE EventInv'
  BY <1>2, <1>3 DEF EventInv, Kept
<1>4. CASE ChangeData
  BY <1>1, <1>3, <1>4, ChangeDataKeeps
<1>5. CASE AddEvent
  BY <1>1, <1>3, <1>5, AddEventKeeps
<1>6. CASE TakeRequests
  BY <1>1, <1>3, <1>6, TakeRequestsKeeps
<1>7. CASE ProcessRequest
  BY <1>1, <1>2, <1>7, ProcessRequestKeeps DEF EventInv
<1>8. CASE Deliver
  BY <1>1, <1>3, <1>8, DeliverKeeps
<1>9. ASSUME NEW c \in Client, Register(c) \/ GetEvents(c) \/ Commit(c) \/ TimeOut(c) \/ Deregister(c)
      PROVE  EventInv'
  BY <1>1, <1>3, <1>9, RegisterKeeps, GetEventsKeeps, CommitKeeps, TimeOutKeeps, DeregisterKeeps
<1>10. CASE HandleEventAck
  BY <1>1, <1>3, <1>10, HandleEventAckKeeps
<1>11. CASE StartScheduler
  BY <1>1, <1>3, <1>11, StartSchedulerKeeps
<1>12. CASE TakeEvents
  BY <1>1, <1>3, <1>12, TakeEventsKeeps
<1>13. CASE RegisterScheduler
  BY <1>1, <1>3, <1>13, RegisterSchedulerKeeps
<1>14. CASE Release
  BY <1>1, <1>3, <1>14, ReleaseKeeps
<1>15. ASSUME NEW m \in Members, MirrorEvent(m) PROVE EventInv'
  BY <1>1, <1>3, <1>15, MirrorClientKeeps, MirrorSchedulerKeeps DEF Members
<1>16. CASE UNCHANGED eventVars
  <2>1. UNCHANGED <<version, writing, requests, batch, deliverer, clients, ec, reports, acks>>
    BY <1>16 DEF eventVars, dataVars, masterVars, wire
  <2>2. Types'
    BY <1>1, <2>1 DEF Types, MasterTypes, ClientTypes, Owners
  <2>3. Queued' = Queued
    BY <2>1 DEF Queued
  <2>4. Kept
    BY <2>1, <2>3, SameQueue, AllUntouched DEF Kept
  <2> QED BY <1>3, <2>2, <2>4
<1> QED BY <1>4, <1>5, <1>6, <1>7, <1>8, <1>9, <1>10, <1>11, <1>12, <1>13, <1>14, <1>15, <1>16
        DEF EventNext

LEMMA EventInvHolds == EventSpec => []EventInv
BY EventInitInv, EventNextInv, PTL DEF EventSpec

LEMMA ToldBehind ==
  ASSUME Types, NEW d \in Nat, QueueInv(d)
  PROVE  0 .. d \subseteq 0 .. version
<1>1. PICK f : Reaches(f, requests, Queued) /\ f[0] = d
  BY DEF QueueInv
<1>2. Len(requests) \in Nat /\ version \in Nat
  BY LenProperties DEF Types, MasterTypes
<1>3. 0 \in 0 .. Len(requests)
  BY <1>2
<1>4. d \in 0 .. Queued
  BY <1>1, <1>3 DEF Reaches
<1>5. Queued <= version /\ Queued \in Int
  BY <1>2 DEF Queued
<1>6. d <= version
  BY <1>2, <1>4, <1>5
<1> QED BY <1>2, <1>6

LEMMA CopiesTold == EventInv => MirrorIsConsistent
<1> SUFFICES ASSUME EventInv, NEW c \in Client PROVE ec[c].view \in {Nothing} \cup 0 .. version
  BY DEF MirrorIsConsistent
<1>1. PICK d \in Nat : QueueInv(d) /\ Follows(d)
  BY DEF EventInv
<1>2. ec[c].view = Nothing \/ ec[c].view \in 0 .. d
  BY <1>1 DEF Follows, HasStory, Followed, HasRead
<1>3. 0 .. d \subseteq 0 .. version
  BY <1>1, ToldBehind DEF EventInv
<1> QED BY <1>2, <1>3

\* The copies of the clients outside are states the data had, none is torn by
\* a change that is missing or comes twice: for any number of clients and ids,
\* requests, changes and acknowledgements on the way.
THEOREM CopiesAreConsistent == EventSpec => []MirrorIsConsistent
BY EventInvHolds, CopiesTold, PTL

-----------------------------------------------------------------------------
(* The steps are those of EventMirror                                        *)

LEMMA CopiesStay ==
  ASSUME UNCHANGED version, \A c \in Client : ec'[c].view = ec[c].view
  PROVE  UNCHANGED Copies!mirrorVars
BY DEF Copies!mirrorVars

LEMMA OnlySchedulerCopies ==
  ASSUME Types, NEW v, ec' = [ec EXCEPT ![Scheduler] = v], UNCHANGED version
  PROVE  UNCHANGED Copies!mirrorVars
<1>1. \A c \in Client : c \in Members \ {Scheduler}
  BY IdsAndMembers
<1>2. \A m \in Members \ {Scheduler} : ec'[m] = ec[m]
  BY IdsAndMembers, OneChanges DEF Types, ClientTypes
<1> QED BY <1>1, <1>2, CopiesStay

LEMMA OneCopies ==
  ASSUME Types, NEW c \in Client, NEW v, ec' = [ec EXCEPT ![c] = v]
  PROVE  /\ ec'[c] = v /\ \A b \in Client \ {c} : ec'[b] = ec[b]
         /\ v.view = ec[c].view /\ UNCHANGED version => UNCHANGED Copies!mirrorVars
         /\ [b \in Client |-> ec'[b].view] = [[b \in Client |-> ec[b].view] EXCEPT ![c] = v.view]
<1>1. /\ ec'[c] = v /\ \A m \in Members \ {c} : ec'[m] = ec[m]
  BY IdsAndMembers, OneChanges DEF Types, ClientTypes
<1>2. \A b \in Client \ {c} : ec'[b] = ec[b]
  BY <1>1, IdsAndMembers
<1>3. ASSUME v.view = ec[c].view, UNCHANGED version PROVE UNCHANGED Copies!mirrorVars
  <2>1. \A b \in Client : ec'[b].view = ec[b].view
    BY <1>1, <1>2, <1>3
  <2> QED BY <1>3, <2>1, CopiesStay
<1>4. [b \in Client |-> ec'[b].view] = [[b \in Client |-> ec[b].view] EXCEPT ![c] = v.view]
  <2>1. \A b \in Client : ec'[b].view = IF b = c THEN v.view ELSE ec[b].view
    BY <1>1, <1>2
  <2> QED BY <2>1
<1> QED BY <1>1, <1>2, <1>3, <1>4

LEMMA MirrorEventFollows ==
  ASSUME EventInv, NEW m \in Members, MirrorEvent(m)
  PROVE  [Copies!MirrorNext]_Copies!mirrorVars
<1>1. UNCHANGED version /\ Types
  BY DEF MirrorEvent, dataVars, EventInv
<1>2. CASE m = Scheduler
  <2>1. PICK v : ec' = [ec EXCEPT ![Scheduler] = v]
    BY <1>2 DEF MirrorEvent
  <2> QED BY <1>1, <2>1, OnlySchedulerCopies
<1>3. CASE m \in Client
  <2> DEFINE w == Applied(ec[m].view, Head(ec[m].received))
             f == [ec[m] EXCEPT !.received = Tail(ec[m].received), !.view = w]
  <2>1. ec' = [ec EXCEPT ![m] = f] /\ ec[m].received # <<>>
    BY DEF MirrorEvent
  <2>2. ec[m] \in Copy
    BY <1>1, <1>3 DEF Types, ClientTypes
  <2> HIDE DEF w
  <2>3. /\ f.id = ec[m].id /\ f.next_event = ec[m].next_event /\ f.received = Tail(ec[m].received)
        /\ f.view = w
    BY <2>2 DEF Copy
  <2> HIDE DEF f
  <2>4. /\ ec'[m] = f
        /\ f.view = ec[m].view => UNCHANGED Copies!mirrorVars
        /\ [b \in Client |-> ec'[b].view] = [[b \in Client |-> ec[b].view] EXCEPT ![m] = f.view]
    BY <1>1, <1>3, <2>1, OneCopies
  <2>5. f \in Copy
    BY <1>1, <1>3, <2>4, MirrorClientKeeps DEF Types, ClientTypes
  <2>6. PICK d \in Nat : QueueInv(d) /\ HasStory(m, d)
    BY <1>3 DEF EventInv, Follows
  <2>7. PICK h \in Seq(Event) : Followed(ec[m], reports[m], Account(m), h, d)
    BY <2>6 DEF HasStory
  <2>8. f.view = ec[m].view \/ (f.view \in 0 .. d /\ (ec[m].view = Nothing \/ ec[m].view <= f.view))
    BY <2>1, <2>2, <2>3, <2>5, <2>7, StoryApplied DEF w
  <2>9. CASE f.view = ec[m].view
    BY <2>4, <2>9
  <2>10. CASE f.view \in 0 .. d /\ (ec[m].view = Nothing \/ ec[m].view <= f.view)
    <3>1. f.view \in 0 .. version
      BY <2>6, <2>10, ToldBehind DEF EventInv
    <3>2. /\ [b \in Client |-> ec[b].view][m] = ec[m].view
      BY <1>3
    <3>3. Copies!Follow(m)
      BY <1>1, <2>4, <2>10, <3>1, <3>2 DEF Copies!Follow
    <3> QED BY <1>3, <3>3 DEF Copies!MirrorNext
  <2> QED BY <2>8, <2>9, <2>10
<1> QED BY <1>2, <1>3 DEF Members

LEMMA DeregisterForgets ==
  ASSUME Types, NEW c \in Client, Deregister(c)
  PROVE  [Copies!MirrorNext]_Copies!mirrorVars
<1> DEFINE f == [ec[c] EXCEPT !.id = 0, !.view = Nothing]
<1>1. ec' = [ec EXCEPT ![c] = f] /\ UNCHANGED version
  BY DEF Deregister, dataVars
<1>2. f.view = Nothing
  BY DEF Types, ClientTypes, Copy
<1> HIDE DEF f
<1>3. [b \in Client |-> ec'[b].view] = [[b \in Client |-> ec[b].view] EXCEPT ![c] = Nothing]
  BY <1>1, <1>2, OneCopies
<1>4. Copies!Forget(c)
  BY <1>1, <1>3 DEF Copies!Forget
<1> QED BY <1>4 DEF Copies!MirrorNext

LEMMA EventNextCopies ==
  ASSUME EventInv, [EventNext]_eventVars
  PROVE  [Copies!MirrorNext]_Copies!mirrorVars
<1>1. Types
  BY DEF EventInv
<1>2. ASSUME UNCHANGED <<version, ec>> PROVE UNCHANGED Copies!mirrorVars
  BY <1>2, CopiesStay
<1>3. CASE ChangeData
  <2>1. version' = version + 1 /\ UNCHANGED ec
    BY <1>3 DEF ChangeData
  <2>2. Copies!ChangeData
    BY <2>1 DEF Copies!ChangeData
  <2> QED BY <2>2 DEF Copies!MirrorNext
<1>4. CASE AddEvent \/ TakeRequests \/ ProcessRequest \/ Deliver \/ HandleEventAck \/ Release
  BY <1>2, <1>4 DEF AddEvent, TakeRequests, ProcessRequest, Deliver, HandleEventAck, Release, dataVars
<1>5. ASSUME NEW c \in Client, Register(c) PROVE [Copies!MirrorNext]_Copies!mirrorVars
  <2> DEFINE i == Min(DynamicId \ Registered)
             f == [ec[c] EXCEPT !.id = i, !.next_event = 1]
  <2>1. ec' = [ec EXCEPT ![c] = f] /\ UNCHANGED version
    <3> HIDE DEF i
    <3>1. AddEventClient(c, i) /\ UNCHANGED version
      BY <1>5 DEF Register, dataVars, i
    <3> QED BY <3>1 DEF AddEventClient
  <2> HIDE DEF i
  <2>2. f.view = ec[c].view
    BY <1>1 DEF Types, ClientTypes, Copy
  <2> HIDE DEF f
  <2> QED BY <1>1, <2>1, <2>2, OneCopies
<1>6. ASSUME NEW c \in Client, GetEvents(c) PROVE [Copies!MirrorNext]_Copies!mirrorVars
  <2>1. PICK i, n, l : ec' = [ec EXCEPT ![c].id = i, ![c].next_event = n, ![c].received = l]
    BY <1>6, Zenon DEF GetEvents
  <2> DEFINE f == [ec[c] EXCEPT !.id = i, !.next_event = n, !.received = l]
  <2>2. ec' = [ec EXCEPT ![c] = f] /\ UNCHANGED version
    <3>1. ec' = [ec EXCEPT ![c] = f]
      BY <2>1
    <3>2. UNCHANGED version
      BY <1>6 DEF GetEvents, dataVars
    <3> QED BY <3>1, <3>2
  <2>3. f.view = ec[c].view
    BY <1>1 DEF Types, ClientTypes, Copy
  <2> HIDE DEF f
  <2> QED BY <1>1, <2>2, <2>3, OneCopies
<1>7. ASSUME NEW c \in Client, Commit(c) PROVE [Copies!MirrorNext]_Copies!mirrorVars
  BY <1>2, <1>7 DEF Commit, dataVars
<1>8. ASSUME NEW c \in Client, TimeOut(c) PROVE [Copies!MirrorNext]_Copies!mirrorVars
  <2> DEFINE f == [ec[c] EXCEPT !.id = 0]
  <2>1. ec' = [ec EXCEPT ![c] = f] /\ UNCHANGED version
    BY <1>8 DEF TimeOut, dataVars
  <2>2. f.view = ec[c].view
    BY <1>1 DEF Types, ClientTypes, Copy
  <2> HIDE DEF f
  <2> QED BY <1>1, <2>1, <2>2, OneCopies
<1>9. ASSUME NEW c \in Client, Deregister(c) PROVE [Copies!MirrorNext]_Copies!mirrorVars
  BY <1>1, <1>9, DeregisterForgets
<1>10. CASE StartScheduler \/ TakeEvents \/ RegisterScheduler
  <2>1. UNCHANGED version
    BY <1>10 DEF StartScheduler, TakeEvents, RegisterScheduler, dataVars
  <2>2. PICK v : ec' = [ec EXCEPT ![Scheduler] = v]
    <3>1. CASE StartScheduler
      BY <3>1 DEF StartScheduler
    <3>2. CASE TakeEvents
      BY <3>2 DEF TakeEvents
    <3>3. CASE RegisterScheduler
      BY <3>3 DEF RegisterScheduler, AddEventClient
    <3> QED BY <1>10, <3>1, <3>2, <3>3
  <2> QED BY <1>1, <2>1, <2>2, OnlySchedulerCopies
<1>11. ASSUME NEW m \in Members, MirrorEvent(m) PROVE [Copies!MirrorNext]_Copies!mirrorVars
  BY <1>11, MirrorEventFollows
<1>12. CASE UNCHANGED eventVars
  BY <1>2, <1>12 DEF eventVars, dataVars
<1> QED BY <1>3, <1>4, <1>5, <1>6, <1>7, <1>8, <1>9, <1>10, <1>11, <1>12 DEF EventNext

\* The copies of the clients outside follow the data as EventMirror promises:
\* they are brought to later states by lists and changes, and forgotten only by a
\* client that ends.
THEOREM CopiesOnlyMoveOn == EventSpec => CopiesMoveOn
<1>1. EventInit => Copies!MirrorInit
  <2> SUFFICES ASSUME EventInit PROVE Copies!MirrorInit
    OBVIOUS
  <2>1. version = 0 /\ \A c \in Client : ec[c].view = Nothing
    BY IdsAndMembers DEF EventInit
  <2> QED BY <2>1 DEF Copies!MirrorInit
<1> QED BY <1>1, EventNextCopies, EventInvHolds, PTL DEF EventSpec, Copies!MirrorSpec, CopiesMoveOn
=============================================================================
