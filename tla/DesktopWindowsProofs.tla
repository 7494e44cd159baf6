------------------------ MODULE DesktopWindowsProofs -------------------------
(* Theorems about DesktopWindows: for any Environments, transitions, publish  *)
(* limit, settings and bounds, windows show what they list, a waiting sheet   *)
(* has an answer coming, and a transition or a digest is announced once.      *)
EXTENDS DesktopWindows, FiniteSetTheorems, WellFoundedInduction, TLAPS

Entries == Ids \X (1 .. MaxEvents)

\* Transitions are numbered, and each is of one Environment.
Numbered ==
  /\ \E n \in 0 .. MaxEvents : UNION {log[i] : i \in Ids} = 1 .. n
  /\ \A i, j \in Ids : i # j => log[i] \cap log[j] = {}

\* What is remembered or was posted of an Environment are transitions of it.
Known == \A k \in seen \union posted : k[2] \in log[k[1]]

\* What b brings that is no newer than something in a is in a too.
Leads(a, b) == \A e \in a : \A f \in b : f <= e => f \in a

\* A batch of transitions leaves out none that could still be published and is
\* older than one it has.
Complete(all, events) == events \subseteq all /\ Leads(events, Newest(all))

IsBatch(m) == m.kind = "events"

\* The batches of an Environment lead those after them in the queue, and the
\* one in the cache.
Agreed(q, c, lg) ==
  /\ c # None => \A i \in c.list : Complete(lg[i], c.events[i])
  /\ \A n \in DOMAIN q : IsBatch(q[n]) =>
       /\ Complete(lg[q[n].id], q[n].events)
       /\ c # None /\ q[n].id \in c.list => Leads(q[n].events, c.events[q[n].id])
       /\ \A k \in DOMAIN q : n <= k /\ IsBatch(q[k]) /\ q[k].id = q[n].id =>
            Leads(q[n].events, q[k].events)

Batches == queue["main"] # None /\ Agreed(queue["main"], cache, log)

\* The list a window will have when it takes message n of its queue has i.
Listing(q, list, n, i) ==
  \/ i \in list /\ \A k \in 1 .. n - 1 : q[k].kind # "list"
  \/ \E k \in 1 .. n - 1 :
       /\ q[k].kind = "list" /\ i \in q[k].list
       /\ \A l \in k + 1 .. n - 1 : q[l].kind # "list"

ListedIn(q, list) == \A n \in DOMAIN q : IsBatch(q[n]) => Listing(q, list, n, q[n].id)

Listed == ListedIn(queue["main"], view["main"].list)

\* The transitions of i that a message can still bring.
ComingIn(i, q, c, all) ==
  Newest(all)
    \union {f \in 1 .. MaxEvents :
              \/ c # None /\ i \in c.list /\ f \in c.events[i]
              \/ \E n \in DOMAIN q : IsBatch(q[n]) /\ q[n].id = i /\ f \in q[n].events}

Coming(i) == ComingIn(i, queue["main"], cache, log[i])

\* As many newer transitions as are remembered have been.
Outlived(f) == Count >= f + SeenCap

\* What was posted is of after the boot; what was posted again had been
\* forgotten; and of what can still come, all that is no newer than something
\* posted is remembered, if it has not been forgotten.
Settled ==
  /\ \A p \in posted : p[2] >= boot
  /\ \A p \in again : p[1] \in left \/ Outlived(p[2])
  /\ \A p \in posted : p[1] \notin left =>
       /\ p[1] \in view["main"].list
       /\ \A f \in Coming(p[1]) : f <= p[2] => <<p[1], f>> \in seen \/ Outlived(f)

\* The mark of the weekly digest is on the disk as soon as it is in memory.
Marked ==
  ~lost =>
    /\ disk = settings
    /\ \A d \in Range(digests) : d <= week.number /\ (d = week.number => settings.sent = d)

IInv == WindowsStandFirm /\ Numbered /\ Known /\ Batches /\ Listed /\ Marked

-----------------------------------------------------------------------------
(* The least and the greatest of numbers. *)

LEMMA LeastNumber ==
  ASSUME NEW S \in SUBSET Nat, S # {}
  PROVE  \E m \in S : \A n \in S : m <= n
<1> DEFINE R == {ss \in Nat \X Nat : ss[1] < ss[2]}
<1>1. IsWellFoundedOn(R, Nat)
  BY NatLessThanWellFounded DEF OpToRel
<1>2. \A x, y \in Nat : x < y => <<x, y>> \in R
  OBVIOUS
<1>3. S \subseteq Nat
  OBVIOUS
<1> HIDE DEF R
<1>4. PICK x \in S : \A y \in S : ~ (<<y, x>> \in R)
  BY <1>1, <1>3, WFMin, Zenon
<1>5. \A y \in S : ~(y < x)
  BY <1>2, <1>4
<1> QED BY <1>4, <1>5

LEMMA GreatestNumber ==
  ASSUME NEW n \in Nat, NEW S \in SUBSET (0 .. n), S # {}
  PROVE  \E m \in S : \A x \in S : m >= x
<1> DEFINE T == {n - x : x \in S}
<1>0. \A x \in S : x \in Nat /\ x <= n /\ n - x \in Nat
  OBVIOUS
<1>1. T \in SUBSET Nat /\ T # {}
  BY <1>0
<1>2. PICK m \in T : \A x \in T : m <= x
  BY <1>1, LeastNumber
<1>3. PICK k \in S : m = n - k
  OBVIOUS
<1>4. \A x \in S : k >= x
  <2>1. \A x \in S : n - k <= n - x
    BY <1>2, <1>3
  <2> QED BY <1>0, <2>1
<1> QED BY <1>4

LEMMA MinRule ==
  ASSUME NEW S \in SUBSET Ids, S # {}
  PROVE  Min(S) \in S
<1>1. S \in SUBSET Nat
  BY DesktopAssumption DEF Ids
<1>2. \E x \in S : \A y \in S : x <= y
  BY <1>1, LeastNumber
<1> QED BY <1>2 DEF Min

LEMMA MaxRule ==
  ASSUME NEW S \in SUBSET (1 .. MaxEvents), S # {}
  PROVE  Max(S) \in S /\ \A x \in S : Max(S) >= x
<1>1. S \in SUBSET (0 .. MaxEvents)
  BY DesktopAssumption
<1>2. \E x \in S : \A y \in S : x >= y
  BY <1>1, GreatestNumber, DesktopAssumption
<1> QED BY <1>2 DEF Max

LEMMA EventsAreFinite ==
  ASSUME NEW S \in SUBSET (1 .. MaxEvents)
  PROVE  IsFiniteSet(S) /\ Cardinality(S) \in Nat
<1>1. IsFiniteSet(1 .. MaxEvents)
  BY FS_Interval, DesktopAssumption
<1>2. IsFiniteSet(S)
  BY <1>1, FS_Subset
<1> QED BY <1>2, FS_CardinalityType

LEMMA IdsAreFinite ==
  ASSUME NEW S \in SUBSET Ids
  PROVE  IsFiniteSet(S) /\ Cardinality(S) \in Nat
<1>1. IsFiniteSet(Ids)
  BY FS_Interval, DesktopAssumption DEF Ids
<1>2. IsFiniteSet(S)
  BY <1>1, FS_Subset
<1> QED BY <1>2, FS_CardinalityType

\* What was among the newest stays so only until newer ones come.
LEMMA NewestRule ==
  ASSUME NEW S \in SUBSET (1 .. MaxEvents), NEW T \in SUBSET S
  PROVE  /\ Newest(S) \subseteq S
         /\ \A f \in Newest(S) : f \in T => f \in Newest(T)
<1>1. Newest(S) \subseteq S
  BY DEF Newest
<1>2. ASSUME NEW f \in Newest(S), f \in T PROVE f \in Newest(T)
  <2> DEFINE A == {g \in T : g > f}  B == {g \in S : g > f}
  <2>1. A \subseteq B /\ B \in SUBSET (1 .. MaxEvents)
    OBVIOUS
  <2>2. IsFiniteSet(B) /\ Cardinality(B) \in Nat /\ Cardinality(A) \in Nat
    BY <2>1, EventsAreFinite
  <2>3. Cardinality(A) <= Cardinality(B)
    BY <2>1, <2>2, FS_Subset
  <2>4. Cardinality(B) < PublishLimit
    BY <1>2 DEF Newest
  <2> QED BY <1>2, <2>2, <2>3, <2>4, DesktopAssumption DEF Newest
<1> QED BY <1>1, <1>2

-----------------------------------------------------------------------------
(* Messages. *)

LEMMA ConcatRule ==
  ASSUME NEW S, NEW q \in Seq(S), NEW r \in Seq(S)
  PROVE  /\ q \o r \in Seq(S) /\ Len(q \o r) = Len(q) + Len(r)
         /\ DOMAIN q = 1 .. Len(q) /\ DOMAIN r = 1 .. Len(r)
         /\ DOMAIN (q \o r) = 1 .. Len(q) + Len(r)
         /\ \A n \in DOMAIN q : (q \o r)[n] = q[n]
         /\ \A n \in DOMAIN (q \o r) :
              n \notin DOMAIN q => n - Len(q) \in DOMAIN r /\ (q \o r)[n] = r[n - Len(q)]
OBVIOUS

LEMMA TailRule ==
  ASSUME NEW S, NEW q \in Seq(S), q # <<>>
  PROVE  /\ Head(q) \in S /\ Head(q) = q[1] /\ 1 \in DOMAIN q
         /\ Tail(q) \in Seq(S) /\ Len(Tail(q)) = Len(q) - 1
         /\ \A i \in DOMAIN Tail(q) : i + 1 \in DOMAIN q /\ Tail(q)[i] = q[i + 1]
         /\ DOMAIN q = 1 .. Len(q) /\ DOMAIN Tail(q) = 1 .. Len(q) - 1
OBVIOUS

\* Every batch of q is one of c and comes after the list of c.
Announces(q, c) ==
  \A n \in DOMAIN q : IsBatch(q[n]) =>
    /\ c # None /\ q[n].id \in c.list /\ q[n].events = c.events[q[n].id]
    /\ \E k \in 1 .. n - 1 :
         /\ q[k].kind = "list" /\ q[k].list = c.list
         /\ \A l \in k + 1 .. n - 1 : q[l].kind # "list"

LEMMA SequenceOfSet ==
  ASSUME NEW S, IsFiniteSet(S)
  PROVE  SetToSeq(S) \in [1 .. Cardinality(S) -> S] /\ Cardinality(S) \in Nat
<1>1. PICK f : f \in Bijection(1 .. Cardinality(S), S)
  BY FS_CardinalityType DEF ExistsBijection
<1>2. f \in [1 .. Cardinality(S) -> S] /\ IsInjective(f)
  BY <1>1 DEF Bijection, Injection, IsInjective
<1> QED BY <1>2, FS_CardinalityType DEF SetToSeq

LEMMA PublishedRule ==
  ASSUME NEW c \in Caches
  PROVE  /\ Published(c) \in Seq(Messages)
         /\ Published(c)[1].kind = "list" /\ Published(c)[1].list = c.list
         /\ \A n \in DOMAIN Published(c) : n # 1 =>
              /\ IsBatch(Published(c)[n])
              /\ Published(c)[n].id \in c.list
              /\ Published(c)[n].events = c.events[Published(c)[n].id]
<1> DEFINE ids == SetToSeq(c.list)
           first == <<[kind |-> "list", list |-> c.list, bad |-> c.bad]>>
           rest == [n \in DOMAIN ids |-> [kind |-> "events", id |-> ids[n], events |-> c.events[ids[n]]]]
<1>1. c.list \in SUBSET Ids /\ c.bad \in SUBSET Ids /\ c.events \in [c.list -> Events]
  BY DEF Caches
<1>2. ids \in [1 .. Cardinality(c.list) -> c.list] /\ Cardinality(c.list) \in Nat
  BY <1>1, IdsAreFinite, SequenceOfSet
<1>3. first \in Seq(Messages) /\ Len(first) = 1 /\ first[1] = [kind |-> "list", list |-> c.list, bad |-> c.bad]
  BY <1>1 DEF Messages
<1>4. \A n \in DOMAIN ids : ids[n] \in c.list /\ c.events[ids[n]] \in Events
  BY <1>1, <1>2
<1>5. \A n \in DOMAIN ids : [kind |-> "events", id |-> ids[n], events |-> c.events[ids[n]]] \in Messages
  BY <1>1, <1>4 DEF Messages
<1>6. rest \in Seq(Messages) /\ DOMAIN rest = DOMAIN ids
  BY <1>2, <1>5
<1>7. Published(c) = first \o rest
  BY DEF Published
<1> HIDE DEF ids
<1>8. \A n \in DOMAIN rest : IsBatch(rest[n]) /\ rest[n].id \in c.list
                             /\ rest[n].events = c.events[rest[n].id]
  BY <1>4, <1>6 DEF IsBatch
<1> HIDE DEF first, rest
<1>9. \A n \in DOMAIN (first \o rest) : n # 1 => n - 1 \in DOMAIN rest /\ (first \o rest)[n] = rest[n - 1]
  <2>1. /\ DOMAIN first = 1 .. Len(first)
        /\ \A n \in DOMAIN (first \o rest) :
             n \notin DOMAIN first =>
               n - Len(first) \in DOMAIN rest /\ (first \o rest)[n] = rest[n - Len(first)]
    <3>1. first \in Seq(Messages) /\ rest \in Seq(Messages)
      BY <1>3, <1>6
    <3> QED BY <3>1, ConcatRule
  <2>2. \A n \in DOMAIN first : n = 1
    BY <1>3, <2>1
  <2> QED BY <1>3, <2>1, <2>2
<1>10. first \o rest \in Seq(Messages) /\ (first \o rest)[1] = first[1]
  BY <1>3, <1>6, ConcatRule
<1> QED BY <1>3, <1>7, <1>8, <1>9, <1>10

LEMMA AnnouncesPublished ==
  ASSUME NEW c \in Caches
  PROVE  Announces(Published(c), c)
<1>1. DOMAIN Published(c) = 1 .. Len(Published(c)) /\ Len(Published(c)) \in Nat
  BY PublishedRule
<1>2. ASSUME NEW n \in DOMAIN Published(c), IsBatch(Published(c)[n])
      PROVE  /\ c # None /\ Published(c)[n].id \in c.list
             /\ Published(c)[n].events = c.events[Published(c)[n].id]
             /\ \E k \in 1 .. n - 1 :
                  /\ Published(c)[k].kind = "list" /\ Published(c)[k].list = c.list
                  /\ \A l \in k + 1 .. n - 1 : Published(c)[l].kind # "list"
  <2>1. n # 1
    BY <1>2, PublishedRule DEF IsBatch
  <2>2. 1 \in 1 .. n - 1 /\ \A l \in 1 + 1 .. n - 1 : l \in DOMAIN Published(c) /\ l # 1
    BY <1>1, <2>1
  <2>3. \A l \in 1 + 1 .. n - 1 : Published(c)[l].kind # "list"
    BY <2>2, PublishedRule DEF IsBatch
  <2> QED BY <2>1, <2>2, <2>3, PublishedRule, NoneAssumption
<1> QED BY <1>2 DEF Announces

LEMMA AnnouncesAfter ==
  ASSUME NEW q \in Seq(Messages), NEW r \in Seq(Messages), NEW c,
         \A n \in DOMAIN q : ~IsBatch(q[n]), Announces(r, c)
  PROVE  Announces(q \o r, c)
<1>1. /\ Len(q) \in Nat /\ Len(r) \in Nat
      /\ DOMAIN q = 1 .. Len(q) /\ DOMAIN r = 1 .. Len(r) /\ DOMAIN (q \o r) = 1 .. Len(q) + Len(r)
      /\ \A n \in DOMAIN q : (q \o r)[n] = q[n]
      /\ \A n \in DOMAIN r : (q \o r)[n + Len(q)] = r[n]
  OBVIOUS
<1> SUFFICES ASSUME NEW n \in DOMAIN (q \o r), IsBatch((q \o r)[n])
             PROVE  /\ c # None /\ (q \o r)[n].id \in c.list
                    /\ (q \o r)[n].events = c.events[(q \o r)[n].id]
                    /\ \E k \in 1 .. n - 1 :
                         /\ (q \o r)[k].kind = "list" /\ (q \o r)[k].list = c.list
                         /\ \A l \in k + 1 .. n - 1 : (q \o r)[l].kind # "list"
  BY DEF Announces
<1> DEFINE m == n - Len(q)
<1>2. m \in DOMAIN r /\ m + Len(q) = n /\ (q \o r)[n] = r[m] /\ IsBatch(r[m])
  <2>1. n \notin DOMAIN q
    BY <1>1
  <2>2. m \in DOMAIN r /\ m + Len(q) = n
    BY <1>1, <2>1
  <2> QED BY <1>1, <2>2
<1>3. PICK k \in 1 .. m - 1 :
        /\ r[k].kind = "list" /\ r[k].list = c.list
        /\ \A l \in k + 1 .. m - 1 : r[l].kind # "list"
  BY <1>2 DEF Announces
<1>4. k \in DOMAIN r /\ k + Len(q) \in 1 .. n - 1
  BY <1>1, <1>2, <1>3
<1>5. ASSUME NEW l \in k + Len(q) + 1 .. n - 1 PROVE (q \o r)[l].kind # "list"
  <2>1. l - Len(q) \in k + 1 .. m - 1 /\ l - Len(q) \in DOMAIN r /\ (l - Len(q)) + Len(q) = l
    BY <1>1, <1>2, <1>4
  <2>2. (q \o r)[l] = r[l - Len(q)]
    BY <1>1, <2>1
  <2> QED BY <1>3, <2>1, <2>2
<1>6. (q \o r)[k + Len(q)] = r[k]
  BY <1>1, <1>4
<1>7. c # None /\ r[m].id \in c.list /\ r[m].events = c.events[r[m].id]
  BY <1>2 DEF Announces
<1> QED BY <1>2, <1>3, <1>4, <1>5, <1>6, <1>7

\* What is joined to a queue brings nothing that was not coming.
LEMMA JoinRule ==
  ASSUME NEW lg, NEW c \in Caches \union {None}, NEW list,
         NEW q \in Seq(Messages), NEW r \in Seq(Messages),
         Agreed(q, c, lg), ListedIn(q, list), Announces(r, c)
  PROVE  /\ q \o r \in Seq(Messages)
         /\ Agreed(q \o r, c, lg) /\ ListedIn(q \o r, list)
         /\ \A i \in Ids : ComingIn(i, q \o r, c, lg[i]) \subseteq ComingIn(i, q, c, lg[i])
<1>1. /\ Len(q) \in Nat /\ Len(r) \in Nat /\ q \o r \in Seq(Messages)
      /\ DOMAIN q = 1 .. Len(q) /\ DOMAIN r = 1 .. Len(r) /\ DOMAIN (q \o r) = 1 .. Len(q) + Len(r)
      /\ \A n \in DOMAIN q : (q \o r)[n] = q[n]
      /\ \A n \in DOMAIN r : (q \o r)[n + Len(q)] = r[n]
  OBVIOUS
<1>2. ASSUME NEW n \in DOMAIN (q \o r)
      PROVE  \/ n \in DOMAIN q /\ (q \o r)[n] = q[n]
             \/ /\ n \notin DOMAIN q /\ n - Len(q) \in DOMAIN r
                /\ (q \o r)[n] = r[n - Len(q)]
  <2>1. CASE n \in DOMAIN q
    BY <1>1, <2>1
  <2>2. CASE n \notin DOMAIN q
    <3>1. n - Len(q) \in DOMAIN r /\ (n - Len(q)) + Len(q) = n
      BY <1>1, <2>2
    <3>2. (q \o r)[n] = r[n - Len(q)]
      BY <1>1, <3>1
    <3> QED BY <2>2, <3>1, <3>2
  <2> QED BY <2>1, <2>2
\* A batch of the joined queue is one of the old queue or of the cache.
<1>3. ASSUME NEW n \in DOMAIN (q \o r), IsBatch((q \o r)[n])
      PROVE  \/ n \in DOMAIN q /\ (q \o r)[n] = q[n]
             \/ /\ c # None /\ (q \o r)[n].id \in c.list
                /\ (q \o r)[n].events = c.events[(q \o r)[n].id]
  BY <1>2, <1>3 DEF Announces
<1>4. Agreed(q \o r, c, lg)
  <2>1. ASSUME NEW n \in DOMAIN (q \o r), IsBatch((q \o r)[n])
        PROVE  /\ Complete(lg[(q \o r)[n].id], (q \o r)[n].events)
               /\ c # None /\ (q \o r)[n].id \in c.list =>
                    Leads((q \o r)[n].events, c.events[(q \o r)[n].id])
    BY <1>3, <2>1 DEF Agreed, Leads
  <2>2. ASSUME NEW n \in DOMAIN (q \o r), IsBatch((q \o r)[n]), NEW k \in DOMAIN (q \o r),
               n <= k, IsBatch((q \o r)[k]), (q \o r)[k].id = (q \o r)[n].id
        PROVE  Leads((q \o r)[n].events, (q \o r)[k].events)
    <3>1. CASE k \in DOMAIN q
      <4>1. n \in DOMAIN q /\ (q \o r)[n] = q[n] /\ (q \o r)[k] = q[k]
        BY <1>1, <2>2, <3>1
      <4> QED BY <2>2, <3>1, <4>1 DEF Agreed
    <3>2. CASE k \notin DOMAIN q
      <4>1. /\ c # None /\ (q \o r)[k].id \in c.list
            /\ (q \o r)[k].events = c.events[(q \o r)[k].id]
        BY <1>3, <2>2, <3>2
      <4> QED BY <2>1, <2>2, <4>1
    <3> QED BY <3>1, <3>2
  <2>3. c # None => \A i \in c.list : Complete(lg[i], c.events[i])
    BY DEF Agreed
  <2> QED BY <2>1, <2>2, <2>3 DEF Agreed
<1>5. ListedIn(q \o r, list)
  <2> SUFFICES ASSUME NEW n \in DOMAIN (q \o r), IsBatch((q \o r)[n])
               PROVE  Listing(q \o r, list, n, (q \o r)[n].id)
    BY DEF ListedIn
  <2>1. CASE n \in DOMAIN q
    <3>1. \A k \in 1 .. n - 1 : (q \o r)[k] = q[k]
      BY <1>1, <2>1
    <3>2. \A k \in 1 .. n - 1 : \A l \in k + 1 .. n - 1 : l \in 1 .. n - 1
      BY <1>1, <2>1
    <3>3. (q \o r)[n] = q[n]
      BY <1>1, <2>1
    <3>4. Listing(q, list, n, q[n].id)
      BY <2>1, <3>3 DEF ListedIn
    <3>5. CASE q[n].id \in list /\ \A k \in 1 .. n - 1 : q[k].kind # "list"
      BY <3>1, <3>3, <3>5 DEF Listing
    <3>6. ASSUME NEW k \in 1 .. n - 1, q[k].kind = "list", q[n].id \in q[k].list,
                 \A l \in k + 1 .. n - 1 : q[l].kind # "list"
          PROVE  Listing(q \o r, list, n, (q \o r)[n].id)
      <4>1. \A l \in k + 1 .. n - 1 : (q \o r)[l].kind # "list"
        BY <3>1, <3>2, <3>6
      <4> QED BY <3>1, <3>3, <3>6, <4>1 DEF Listing
    <3> QED BY <3>4, <3>5, <3>6 DEF Listing
  <2>2. CASE n \notin DOMAIN q
    <3> DEFINE m == n - Len(q)
    <3>1. m \in DOMAIN r /\ (q \o r)[n] = r[m] /\ IsBatch(r[m]) /\ n \in Nat
      BY <1>1, <1>2, <2>2
    <3>2. PICK k \in 1 .. m - 1 :
            /\ r[k].kind = "list" /\ r[k].list = c.list
            /\ \A l \in k + 1 .. m - 1 : r[l].kind # "list"
      BY <3>1 DEF Announces
    <3>3. k \in DOMAIN r /\ k + Len(q) \in 1 .. n - 1
      BY <1>1, <3>1, <3>2
    <3>4. ASSUME NEW l \in k + Len(q) + 1 .. n - 1 PROVE (q \o r)[l].kind # "list"
      <4>1. l - Len(q) \in k + 1 .. m - 1 /\ l - Len(q) \in DOMAIN r /\ (l - Len(q)) + Len(q) = l
        BY <1>1, <3>1, <3>3
      <4>2. (q \o r)[l] = r[l - Len(q)]
        BY <1>1, <4>1
      <4> QED BY <3>2, <4>1, <4>2
    <3>5. (q \o r)[k + Len(q)] = r[k]
      BY <1>1, <3>3
    <3>6. r[m].id \in c.list
      BY <3>1 DEF Announces
    <3> QED BY <3>1, <3>2, <3>3, <3>4, <3>5, <3>6 DEF Listing
  <2> QED BY <2>1, <2>2
<1>6. ASSUME NEW i \in Ids, NEW f \in ComingIn(i, q \o r, c, lg[i])
      PROVE  f \in ComingIn(i, q, c, lg[i])
  BY <1>3, <1>6 DEF ComingIn
<1> QED BY <1>1, <1>4, <1>5, <1>6

\* What is left of a queue when its first message has been taken.
LEMMA TakeRule ==
  ASSUME NEW lg, NEW c, NEW list, NEW q \in Seq(Messages), q # <<>>,
         Agreed(q, c, lg), ListedIn(q, list)
  PROVE  /\ Agreed(Tail(q), c, lg)
         /\ ListedIn(Tail(q), IF q[1].kind = "list" THEN q[1].list ELSE list)
         /\ \A i \in Ids : ComingIn(i, Tail(q), c, lg[i]) \subseteq ComingIn(i, q, c, lg[i])
         /\ IsBatch(q[1]) => q[1].id \in list /\ Complete(lg[q[1].id], q[1].events)
<1> DEFINE r == Tail(q)
<1>1. /\ 1 \in DOMAIN q /\ Len(q) \in Nat /\ DOMAIN q = 1 .. Len(q) /\ DOMAIN r = 1 .. Len(q) - 1
      /\ \A n \in DOMAIN r : n + 1 \in DOMAIN q /\ r[n] = q[n + 1]
  BY TailRule
<1> HIDE DEF r
<1>2. Agreed(r, c, lg)
  <2>1. \A n, k \in DOMAIN r : n <= k => n + 1 <= k + 1
    BY <1>1
  <2> QED BY <1>1, <2>1 DEF Agreed
<1>3. ASSUME NEW i \in Ids, NEW f \in ComingIn(i, r, c, lg[i])
      PROVE  f \in ComingIn(i, q, c, lg[i])
  BY <1>1, <1>3 DEF ComingIn
<1>4. ASSUME IsBatch(q[1]) PROVE q[1].id \in list /\ Complete(lg[q[1].id], q[1].events)
  <2>1. Listing(q, list, 1, q[1].id) /\ Complete(lg[q[1].id], q[1].events)
    BY <1>1, <1>4 DEF ListedIn, Agreed
  <2> QED BY <2>1 DEF Listing
<1>5. ASSUME NEW n \in DOMAIN r, IsBatch(r[n])
      PROVE  Listing(r, IF q[1].kind = "list" THEN q[1].list ELSE list, n, r[n].id)
  <2>1. n \in Nat /\ n + 1 \in DOMAIN q /\ r[n] = q[n + 1] /\ Listing(q, list, n + 1, r[n].id)
    BY <1>1, <1>5 DEF ListedIn
  <2>2. \A k \in 1 .. n - 1 : r[k] = q[k + 1] /\ k + 1 \in 1 .. (n + 1) - 1
    BY <1>1, <2>1
  <2>3. CASE r[n].id \in list /\ \A k \in 1 .. (n + 1) - 1 : q[k].kind # "list"
    <3>1. 1 \in 1 .. (n + 1) - 1
      BY <1>1
    <3> QED BY <2>2, <2>3, <3>1 DEF Listing
  <2>4. ASSUME NEW k \in 1 .. (n + 1) - 1, q[k].kind = "list", r[n].id \in q[k].list,
               \A l \in k + 1 .. (n + 1) - 1 : q[l].kind # "list"
        PROVE  Listing(r, IF q[1].kind = "list" THEN q[1].list ELSE list, n, r[n].id)
    <3>1. CASE k = 1
      <4>1. \A l \in 1 .. n - 1 : r[l].kind # "list"
        <5>1. \A l \in 1 .. n - 1 : l + 1 \in k + 1 .. (n + 1) - 1
          BY <2>1, <3>1
        <5> QED BY <2>2, <2>4, <5>1
      <4> QED BY <2>4, <3>1, <4>1 DEF Listing
    <3>2. CASE k # 1
      <4>1. k - 1 \in 1 .. n - 1 /\ r[k - 1] = q[k]
        BY <1>1, <2>1, <3>2
      <4>2. \A l \in (k - 1) + 1 .. n - 1 : r[l].kind # "list"
        <5>1. \A l \in (k - 1) + 1 .. n - 1 : l \in 1 .. n - 1 /\ l + 1 \in k + 1 .. (n + 1) - 1
          BY <2>1, <3>2
        <5> QED BY <2>2, <2>4, <5>1
      <4> QED BY <2>4, <4>1, <4>2 DEF Listing
    <3> QED BY <3>1, <3>2
  <2> QED BY <2>1, <2>3, <2>4 DEF Listing
<1>6. ListedIn(r, IF q[1].kind = "list" THEN q[1].list ELSE list)
  BY <1>5 DEF ListedIn
<1> QED BY <1>2, <1>3, <1>4, <1>6 DEF r

-----------------------------------------------------------------------------
(* What a step may change. *)

FirmView(w, v) ==
  /\ IF v.list = {} THEN v.selected = None ELSE v.selected \in v.list
  /\ w = "detached" /\ Pinned \in v.list => v.selected = Pinned

Answerable == sheet # None /\ sheet.busy => pending # {}

LEMMA FirmRule ==
  WindowsStandFirm <=> TypeOK /\ Answerable /\ \A w \in Windows : FirmView(w, view[w])
BY DEF WindowsStandFirm, Answerable, FirmView, Windows

LEMMA FirmRuleNext ==
  WindowsStandFirm' <=> TypeOK' /\ Answerable' /\ \A w \in Windows : FirmView(w, view'[w])
BY DEF WindowsStandFirm, Answerable, FirmView, Windows

\* Nothing the main window can still be told has changed.
LEMMA SameNews ==
  ASSUME IInv, UNCHANGED <<log, cache, seen, boot, posted, again, left>>,
         queue'["main"] = queue["main"], view'["main"].list = view["main"].list
  PROVE  /\ Numbered' /\ Known' /\ Batches' /\ Listed'
         /\ Settled => Settled'
<1>1. Numbered' /\ Known' /\ Batches' /\ Listed'
  BY DEF IInv, Numbered, Known, Batches, Listed
<1>2. (\A i : Coming(i)' = Coming(i)) /\ \A f : Outlived(f)' = Outlived(f)
  BY DEF Coming, Outlived, Count
<1>3. ASSUME Settled PROVE Settled'
  BY <1>2, <1>3 DEF Settled
<1> QED BY <1>1, <1>3

\* A window that shows the same list stands as firm as before.
LEMMA SameList ==
  ASSUME IInv, NEW w \in Windows, NEW v \in Views,
         view' = [view EXCEPT ![w] = v], v.list = view[w].list, v.selected = view[w].selected
  PROVE  /\ view' \in [Windows -> Views] /\ view'["main"].list = view["main"].list
         /\ \A x \in Windows : FirmView(x, view'[x])
<1>1. view \in [Windows -> Views] /\ \A x \in Windows : FirmView(x, view[x])
  BY FirmRule DEF IInv, TypeOK
<1> QED BY <1>1 DEF FirmView, Windows

LEMMA PersistRule ==
  ASSUME IInv, NEW s \in Settings, s.sent = settings.sent, Persist(s), UNCHANGED <<digests, week>>
  PROVE  /\ Marked' /\ settings' \in Settings /\ disk' \in Settings /\ lost' \in BOOLEAN
         /\ lost => lost'
<1>1. settings' = s /\ disk \in Settings /\ lost \in BOOLEAN
  BY FirmRule DEF IInv, TypeOK, Persist
<1>2. CASE disk' = s /\ UNCHANGED lost
  BY <1>1, <1>2 DEF IInv, Marked
<1>3. CASE ~lost /\ lost' = TRUE /\ UNCHANGED disk
  BY <1>1, <1>3 DEF Marked
<1> QED BY <1>2, <1>3 DEF Persist

LEMMA AmbientType == ASSUME NEW v \in Views PROVE Ambient(v) \in BOOLEAN \X Nat
<1>1. v.connected \in BOOLEAN /\ v.bad \ v.mutes \in SUBSET Ids
  BY DEF Views
<1> QED BY <1>1, IdsAreFinite DEF Ambient

-----------------------------------------------------------------------------
(* A step of a window that takes no message. *)

LEMMA PaintStep ==
  ASSUME IInv, NEW w \in Windows, Render(w) \/ Tick(w)
  PROVE  IInv' /\ (Settled => Settled')
<1>1. TypeOK /\ Answerable /\ view[w] \in Views
  BY FirmRule DEF IInv, TypeOK
<1>2. \E v \in Views : view' = [view EXCEPT ![w] = v] /\ v.list = view[w].list /\ v.selected = view[w].selected
  <2>1. CASE Render(w)
    <3> DEFINE v == [view[w] EXCEPT !.mutes = settings.mutes, !.dirty = FALSE]
    <3>1. v \in Views /\ v.list = view[w].list /\ v.selected = view[w].selected
      BY <1>1 DEF TypeOK, Views, Settings
    <3>2. [v EXCEPT !.painted = Ambient(v)] \in Views
      BY <3>1, AmbientType DEF Views
    <3>3. [v EXCEPT !.painted = Ambient(v)].list = v.list
          /\ [v EXCEPT !.painted = Ambient(v)].selected = v.selected
      BY <3>1 DEF Views
    <3>4. view' = [view EXCEPT ![w] = v] \/ view' = [view EXCEPT ![w] = [v EXCEPT !.painted = Ambient(v)]]
      BY <2>1 DEF Render
    <3> QED BY <3>1, <3>2, <3>3, <3>4
  <2>2. CASE Tick(w)
    <3> DEFINE v == [view[w] EXCEPT !.dirty = TRUE]
    <3>1. v \in Views /\ v.list = view[w].list /\ v.selected = view[w].selected
      BY <1>1 DEF Views
    <3>2. view' = [view EXCEPT ![w] = v]
      BY <2>2 DEF Tick
    <3> QED BY <3>1, <3>2
  <2> QED BY <2>1, <2>2
<1>3. UNCHANGED <<daemon, queue, main, shared, dialog, week, bounds>>
  BY DEF Render, Tick
<1>4. /\ view' \in [Windows -> Views] /\ view'["main"].list = view["main"].list
      /\ \A x \in Windows : FirmView(x, view'[x])
  BY <1>2, SameList
<1>5. TypeOK' /\ Answerable'
  BY <1>1, <1>3, <1>4 DEF TypeOK, Answerable, daemon, main, shared, dialog, bounds
<1>6. Marked'
  BY <1>3 DEF IInv, Marked, main, shared
<1>7. Numbered' /\ Known' /\ Batches' /\ Listed' /\ (Settled => Settled')
  BY <1>3, <1>4, SameNews DEF daemon, main
<1> QED BY <1>4, <1>5, <1>6, <1>7, FirmRuleNext DEF IInv

LEMMA SelectStep ==
  ASSUME IInv, NEW w \in Windows, NEW i \in Ids, SelectEnvironment(w, i)
  PROVE  IInv' /\ (Settled => Settled')
<1> DEFINE v == [Selects(view[w], i) EXCEPT !.dirty = TRUE]
<1>1. TypeOK /\ Answerable /\ view[w] \in Views /\ FirmView(w, view[w])
      /\ \A x \in Windows : FirmView(x, view[x])
  BY FirmRule DEF IInv, TypeOK
<1>2. view' = [view EXCEPT ![w] = v]
  BY DEF SelectEnvironment
<1>3. v \in Views /\ v.list = view[w].list
      /\ v.selected = IF i \in view[w].list THEN i ELSE view[w].selected
  BY <1>1 DEF Views, Selects
<1>4. FirmView(w, v)
  BY <1>1, <1>3 DEF FirmView, SelectEnvironment
<1>5. UNCHANGED <<daemon, queue, main, shared, screen, dialog, week>> /\ clicks' = clicks + 1
  BY DEF SelectEnvironment, Click
<1>6. /\ view' \in [Windows -> Views] /\ view'["main"].list = view["main"].list
      /\ \A x \in Windows : FirmView(x, view'[x])
  BY <1>1, <1>2, <1>3, <1>4 DEF TypeOK, Windows
<1>7. TypeOK' /\ Answerable'
  BY <1>1, <1>5, <1>6 DEF TypeOK, Answerable, daemon, main, shared, dialog
<1>8. Marked'
  BY <1>5 DEF IInv, Marked, main, shared
<1>9. Numbered' /\ Known' /\ Batches' /\ Listed' /\ (Settled => Settled')
  BY <1>5, <1>6, SameNews DEF daemon, main
<1> QED BY <1>6, <1>7, <1>8, <1>9, FirmRuleNext DEF IInv

\* Mutes, switches and the settings of the digest.
LEMMA SettingsStep ==
  ASSUME IInv, NEW w \in Windows, MuteSelected(w) \/ UnmuteSelected(w) \/ Toggle(w)
  PROVE  IInv' /\ (Settled => Settled')
<1>1. TypeOK /\ Answerable /\ view[w] \in Views /\ settings \in Settings
  BY FirmRule DEF IInv, TypeOK
<1>2. HasHeader(w) => view[w].selected \in Ids
  BY <1>1 DEF HasHeader, Views
<1>3. \E v \in Views : view' = [view EXCEPT ![w] = v] /\ v.list = view[w].list /\ v.selected = view[w].selected
  <2> DEFINE i == view[w].selected
  <2>1. CASE MuteSelected(w)
    <3> DEFINE v == [view[w] EXCEPT !.mutes = @ \union {i}, !.dirty = TRUE]
    <3>1. v \in Views /\ v.list = view[w].list /\ v.selected = view[w].selected
      BY <1>1, <1>2, <2>1 DEF Views, MuteSelected
    <3>2. view' = [view EXCEPT ![w] = v]
      BY <1>1, <2>1 DEF MuteSelected, TypeOK, Views
    <3> QED BY <3>1, <3>2
  <2>2. CASE UnmuteSelected(w)
    <3> DEFINE v == [view[w] EXCEPT !.mutes = @ \ {i}, !.dirty = TRUE]
    <3>1. v \in Views /\ v.list = view[w].list /\ v.selected = view[w].selected
      BY <1>1, <1>2, <2>2 DEF Views, UnmuteSelected
    <3>2. view' = [view EXCEPT ![w] = v]
      BY <1>1, <2>2 DEF UnmuteSelected, TypeOK, Views
    <3> QED BY <3>1, <3>2
  <2>3. CASE Toggle(w)
    <3> DEFINE v == [view[w] EXCEPT !.dirty = TRUE]
    <3>1. v \in Views /\ v.list = view[w].list /\ v.selected = view[w].selected
      BY <1>1 DEF Views
    <3>2. view' = [view EXCEPT ![w] = v]
      BY <2>3 DEF Toggle
    <3> QED BY <3>1, <3>2
  <2> QED BY <2>1, <2>2, <2>3
<1>4. UNCHANGED <<daemon, queue, main, screen, dialog, week>> /\ clicks' = clicks + 1
  BY DEF MuteSelected, UnmuteSelected, Toggle, Click
<1>5. \E s \in Settings : s.sent = settings.sent /\ Persist(s)
  <2>1. CASE MuteSelected(w)
    <3> DEFINE s == [settings EXCEPT !.mutes = @ \union {view[w].selected}]
    <3>1. s \in Settings /\ s.sent = settings.sent
      BY <1>1, <1>2, <2>1 DEF Settings, MuteSelected
    <3> QED BY <2>1, <3>1 DEF MuteSelected
  <2>2. CASE UnmuteSelected(w)
    <3> DEFINE s == [settings EXCEPT !.mutes = @ \ {view[w].selected}]
    <3>1. s \in Settings /\ s.sent = settings.sent
      BY <1>1 DEF Settings
    <3> QED BY <2>2, <3>1 DEF UnmuteSelected
  <2>3. CASE Toggle(w)
    <3>1. /\ [settings EXCEPT !.master = ~@] \in Settings
          /\ [settings EXCEPT !.master = ~@].sent = settings.sent
          /\ [settings EXCEPT !.digest = ~@] \in Settings
          /\ [settings EXCEPT !.digest = ~@].sent = settings.sent
      BY <1>1 DEF Settings
    <3> QED BY <2>3, <3>1 DEF Toggle
  <2> QED BY <2>1, <2>2, <2>3
<1>6. /\ Marked' /\ settings' \in Settings /\ disk' \in Settings /\ lost' \in BOOLEAN
  BY <1>4, <1>5, PersistRule DEF main
<1>7. /\ view' \in [Windows -> Views] /\ view'["main"].list = view["main"].list
      /\ \A x \in Windows : FirmView(x, view'[x])
  BY <1>3, SameList
<1>8. TypeOK' /\ Answerable'
  BY <1>1, <1>4, <1>6, <1>7 DEF TypeOK, Answerable, daemon, main, dialog
<1>9. Numbered' /\ Known' /\ Batches' /\ Listed' /\ (Settled => Settled')
  BY <1>4, <1>7, SameNews DEF daemon, main
<1> QED BY <1>6, <1>7, <1>8, <1>9, FirmRuleNext DEF IInv

LEMMA ExpiryStep ==
  ASSUME IInv, NEW i \in Ids, MuteExpires(i)
  PROVE  IInv' /\ (Settled => Settled')
<1>1. TypeOK /\ Answerable /\ view \in [Windows -> Views] /\ settings \in Settings /\ disk \in Settings
      /\ \A x \in Windows : FirmView(x, view[x])
  BY FirmRule DEF IInv, TypeOK
<1>2. /\ settings' = [settings EXCEPT !.mutes = @ \ {i}]
      /\ disk' = [disk EXCEPT !.mutes = @ \ {i}]
      /\ view' = [x \in Windows |-> [view[x] EXCEPT !.mutes = @ \ {i}, !.dirty = TRUE]]
      /\ UNCHANGED <<daemon, queue, main, screen, dialog, week, bounds, lost>>
  BY DEF MuteExpires
<1>3. settings' \in Settings /\ disk' \in Settings /\ settings'.sent = settings.sent
      /\ (disk = settings => disk' = settings')
  BY <1>1, <1>2 DEF Settings
<1>4. \A x \in Windows : /\ view'[x] \in Views /\ view'[x].list = view[x].list
                          /\ view'[x].selected = view[x].selected
  BY <1>1, <1>2 DEF Views
<1>5. /\ view' \in [Windows -> Views] /\ view'["main"].list = view["main"].list
      /\ \A x \in Windows : FirmView(x, view'[x])
  BY <1>1, <1>2, <1>4 DEF FirmView, Windows
<1>6. TypeOK' /\ Answerable'
  BY <1>1, <1>2, <1>3, <1>5 DEF TypeOK, Answerable, daemon, main, dialog, bounds
<1>7. Marked'
  BY <1>2, <1>3 DEF IInv, Marked, main
<1>8. Numbered' /\ Known' /\ Batches' /\ Listed' /\ (Settled => Settled')
  BY <1>2, <1>5, SameNews DEF daemon, main
<1> QED BY <1>5, <1>6, <1>7, <1>8, FirmRuleNext DEF IInv

-----------------------------------------------------------------------------
(* A step that sends messages. *)

LEMMA ReplayRule ==
  ASSUME TypeOK
  PROVE  Replay \in Seq(Messages) /\ Announces(Replay, cache)
<1> DEFINE q == <<[kind |-> "client"]>>
<1>1. q \in Seq(Messages) /\ \A n \in DOMAIN q : ~IsBatch(q[n])
  BY DEF Messages, IsBatch
<1>2. Announces(<<>>, cache) /\ <<>> \in Seq(Messages)
  BY DEF Announces
<1>3. cache # None => Published(cache) \in Seq(Messages) /\ Announces(Published(cache), cache)
  BY PublishedRule, AnnouncesPublished DEF TypeOK
<1> HIDE DEF q
<1>4. ASSUME NEW r \in Seq(Messages), Announces(r, cache)
      PROVE  q \o r \in Seq(Messages) /\ Announces(q \o r, cache)
  <2>1. q \o r \in Seq(Messages)
    BY <1>1
  <2>2. Announces(q \o r, cache)
    BY <1>1, <1>4, AnnouncesAfter
  <2> QED BY <2>1, <2>2
<1> QED BY <1>2, <1>3, <1>4 DEF Replay, q

LEMMA SentRule ==
  ASSUME IInv, NEW r \in Seq(Messages), Sent(r)
  PROVE  /\ queue' \in [Windows -> Seq(Messages) \union {None}]
         /\ queue["main"] \in Seq(Messages) /\ queue'["main"] = queue["main"] \o r
         /\ queue'["main"] # None
<1>1. queue \in [Windows -> Seq(Messages) \union {None}] /\ queue["main"] # None
  BY FirmRule DEF IInv, TypeOK, Batches
<1>2. "main" \in Windows
  BY DEF Windows
<1>3. \A w \in Windows : queue[w] # None => queue[w] \o r \in Seq(Messages)
  BY <1>1
<1> QED BY <1>1, <1>2, <1>3, NoneAssumption DEF Sent

LEMMA SentNews ==
  ASSUME IInv, UNCHANGED <<log, seen, boot, posted, again, left>>, view'["main"].list = view["main"].list,
         NEW r \in Seq(Messages), Sent(r), cache' \in Caches \union {None},
         Announces(r, cache'), Agreed(queue["main"], cache', log),
         \A i \in Ids : ComingIn(i, queue["main"], cache', log[i]) \subseteq Coming(i)
  PROVE  /\ Numbered' /\ Known' /\ Batches' /\ Listed'
         /\ Settled => Settled'
<1>1. queue["main"] \in Seq(Messages) /\ queue'["main"] = queue["main"] \o r /\ queue'["main"] # None
  BY SentRule
<1>2. /\ Agreed(queue'["main"], cache', log) /\ ListedIn(queue'["main"], view["main"].list)
      /\ \A i \in Ids : ComingIn(i, queue'["main"], cache', log[i])
                           \subseteq ComingIn(i, queue["main"], cache', log[i])
  <2> DEFINE q == queue["main"]
             c == cache'
             list == view["main"].list
  <2>1. q \in Seq(Messages) /\ queue'["main"] = q \o r /\ ListedIn(q, list)
    BY <1>1 DEF IInv, Listed
  <2>2. Agreed(q, c, log) /\ Announces(r, c) /\ c \in Caches \union {None}
    OBVIOUS
  <2> HIDE DEF q, c, list
  <2>3. /\ Agreed(q \o r, c, log) /\ ListedIn(q \o r, list)
        /\ \A i \in Ids : ComingIn(i, q \o r, c, log[i]) \subseteq ComingIn(i, q, c, log[i])
    BY <2>1, <2>2, JoinRule
  <2> QED BY <2>1, <2>3 DEF q, c, list
<1>3. Numbered' /\ Known' /\ Batches' /\ Listed'
  BY <1>1, <1>2 DEF IInv, Numbered, Known, Batches, Listed
<1>4. \A i \in Ids : Coming(i)' \subseteq Coming(i)
  BY <1>2 DEF Coming
<1>5. ASSUME Settled PROVE Settled'
  <2>1. \A p \in posted : p[1] \in Ids
    BY FirmRule DEF IInv, TypeOK
  <2>2. \A f : Outlived(f)' = Outlived(f)
    BY DEF Outlived, Count
  <2> QED BY <1>4, <1>5, <2>1, <2>2 DEF Settled
<1> QED BY <1>3, <1>5

LEMMA PublishStep ==
  ASSUME IInv, Publish
  PROVE  IInv' /\ (Settled => Settled')
<1> DEFINE now == [list |-> served, bad |-> bad \intersect served,
                   events |-> [i \in served |-> Newest(log[i])]]
<1>1. TypeOK /\ Answerable /\ \A x \in Windows : FirmView(x, view[x])
  BY FirmRule DEF IInv
<1>2. cache' = now /\ Sent(Published(now))
      /\ UNCHANGED <<stored, served, bad, log, view, main, shared, screen, dialog, week, bounds>>
  BY DEF Publish
<1>3. \A i \in Ids : Newest(log[i]) \in Events /\ Newest(log[i]) \subseteq log[i]
  BY <1>1, NewestRule DEF TypeOK, Events
<1>4. now \in Caches /\ now # None
  <2>1. now.list \in SUBSET Ids /\ now.bad \in SUBSET now.list /\ now.events \in [now.list -> Events]
    BY <1>1, <1>3 DEF TypeOK
  <2>2. now \in [list : {now.list}, bad : SUBSET now.list, events : [now.list -> Events]]
    BY <2>1
  <2> QED BY <2>1, <2>2, NoneAssumption DEF Caches
<1>5. \A i \in Ids : Complete(log[i], Newest(log[i]))
  BY <1>3 DEF Complete, Leads
<1>6. Agreed(queue["main"], now, log)
  <2>1. Agreed(queue["main"], cache, log)
    BY DEF IInv, Batches
  <2>2. served \subseteq Ids /\ now.list = served /\ \A i \in served : now.events[i] = Newest(log[i])
    BY <1>1 DEF TypeOK
  <2> HIDE DEF now
  <2> QED BY <1>5, <2>1, <2>2 DEF Agreed, Complete
<1>7. \A i \in Ids : ComingIn(i, queue["main"], now, log[i]) \subseteq Coming(i)
  BY DEF ComingIn, Coming
<1>8. Published(now) \in Seq(Messages) /\ Announces(Published(now), now)
  BY <1>4, PublishedRule, AnnouncesPublished
<1> HIDE DEF now
<1>9. Numbered' /\ Known' /\ Batches' /\ Listed' /\ (Settled => Settled')
  BY <1>2, <1>4, <1>6, <1>7, <1>8, SentNews DEF main
<1>10. queue' \in [Windows -> Seq(Messages) \union {None}]
  BY <1>2, <1>8, SentRule
<1>11. TypeOK' /\ Answerable'
  BY <1>1, <1>2, <1>4, <1>10 DEF TypeOK, Answerable, main, shared, dialog, bounds
<1>12. Marked' /\ \A x \in Windows : FirmView(x, view'[x])
  BY <1>1, <1>2 DEF IInv, Marked, main, shared
<1> QED BY <1>9, <1>11, <1>12, FirmRuleNext DEF IInv

LEMMA CutStep ==
  ASSUME IInv, Cut
  PROVE  IInv' /\ (Settled => Settled')
<1> DEFINE q == <<[kind |-> "lost"]>>
           r == q \o Replay
<1>1. TypeOK /\ Answerable /\ \A x \in Windows : FirmView(x, view[x])
  BY FirmRule DEF IInv
<1>2. Sent(r) /\ UNCHANGED <<daemon, view, main, shared, screen, dialog, week, clicks, boots>>
  BY DEF Cut
<1>3. q \in Seq(Messages) /\ \A n \in DOMAIN q : ~IsBatch(q[n])
  BY DEF Messages, IsBatch
<1> HIDE DEF q
<1>4. r \in Seq(Messages) /\ Announces(r, cache)
  <2>1. Replay \in Seq(Messages) /\ Announces(Replay, cache)
    BY <1>1, ReplayRule
  <2>2. r \in Seq(Messages)
    BY <1>3, <2>1
  <2>3. Announces(r, cache)
    BY <1>3, <2>1, AnnouncesAfter
  <2> QED BY <2>2, <2>3
<1> HIDE DEF r
<1>5. cache' = cache /\ cache \in Caches \union {None} /\ Agreed(queue["main"], cache, log)
  BY <1>1, <1>2 DEF TypeOK, IInv, Batches, daemon
<1>6. Numbered' /\ Known' /\ Batches' /\ Listed' /\ (Settled => Settled')
  BY <1>2, <1>4, <1>5, SentNews DEF main, daemon, Coming
<1>7. queue' \in [Windows -> Seq(Messages) \union {None}]
  BY <1>2, <1>4, SentRule
<1>8. TypeOK' /\ Answerable'
  BY <1>1, <1>2, <1>7 DEF TypeOK, Answerable, main, shared, dialog, bounds, daemon
<1>9. Marked' /\ \A x \in Windows : FirmView(x, view'[x])
  BY <1>1, <1>2 DEF IInv, Marked, main, shared
<1> QED BY <1>6, <1>8, <1>9, FirmRuleNext DEF IInv

\* An answer frees the sheet, whichever it is.
LEMMA AnswerStep ==
  ASSUME IInv, Answer
  PROVE  IInv' /\ (Settled => Settled')
<1>1. TypeOK /\ Answerable /\ view["main"] \in Views /\ \A x \in Windows : FirmView(x, view[x])
  BY FirmRule DEF IInv, TypeOK, Windows
<1>2. PICK r \in pending :
        /\ pending' = pending \ {r}
        /\ AnswerTest(r) \/ AnswerWrite(r) \/ AnswerError(r)
        /\ view' = [view EXCEPT !["main"].dirty = TRUE]
        /\ UNCHANGED <<main, shared, screen, week, bounds>>
  BY DEF Answer
<1>3. sheet' \in Sheets \union {None} /\ (sheet' # None => ~sheet'.busy)
  <2>1. Noticed \in Sheets \union {None} /\ (Noticed # None => ~Noticed.busy)
    BY <1>1, NoneAssumption DEF Noticed, TypeOK, Sheets
  <2> QED BY <1>2, <2>1 DEF AnswerTest, AnswerWrite, AnswerError
<1>4. /\ view' \in [Windows -> Views] /\ view'["main"].list = view["main"].list
      /\ \A x \in Windows : FirmView(x, view'[x])
  <2> DEFINE v == [view["main"] EXCEPT !.dirty = TRUE]
  <2>1. v \in Views /\ v.list = view["main"].list /\ v.selected = view["main"].selected
    BY <1>1 DEF Views
  <2>2. view' = [view EXCEPT !["main"] = v]
    BY <1>2
  <2> HIDE DEF v
  <2> QED BY <2>1, <2>2, SameList DEF Windows
<1>5. Marked'
  BY <1>2 DEF IInv, Marked, main, shared
<1>6. CASE AnswerWrite(r)
  <2> DEFINE q == <<[kind |-> "lost"], [kind |-> "client"]>>
  <2>1. Sent(q) /\ cache' = None /\ UNCHANGED <<bad, log>>
        /\ stored' \subseteq Ids /\ served' \subseteq Ids
    BY <1>1, <1>2, <1>6 DEF AnswerWrite, TypeOK, Requests
  <2>2. q \in Seq(Messages) /\ Announces(q, None)
    BY DEF Messages, IsBatch, Announces
  <2> HIDE DEF q
  <2>3. Agreed(queue["main"], None, log)
    BY DEF IInv, Batches, Agreed
  <2>4. \A i \in Ids : ComingIn(i, queue["main"], None, log[i]) \subseteq Coming(i)
    BY DEF ComingIn, Coming
  <2>5. Numbered' /\ Known' /\ Batches' /\ Listed' /\ (Settled => Settled')
    BY <1>2, <1>4, <2>1, <2>2, <2>3, <2>4, SentNews DEF main
  <2>6. queue' \in [Windows -> Seq(Messages) \union {None}]
    BY <2>1, <2>2, SentRule
  <2>7. TypeOK' /\ Answerable'
    BY <1>1, <1>2, <1>3, <1>4, <2>1, <2>6 DEF TypeOK, Answerable, main, shared, bounds
  <2> QED BY <1>4, <1>5, <2>5, <2>7, FirmRuleNext DEF IInv
<1>7. CASE UNCHANGED <<daemon, queue>>
  <2>1. Numbered' /\ Known' /\ Batches' /\ Listed' /\ (Settled => Settled')
    BY <1>2, <1>4, <1>7, SameNews DEF main, daemon
  <2>2. TypeOK' /\ Answerable'
    BY <1>1, <1>2, <1>3, <1>4, <1>7 DEF TypeOK, Answerable, main, shared, bounds, daemon
  <2> QED BY <1>4, <1>5, <2>1, <2>2, FirmRuleNext DEF IInv
<1> QED BY <1>2, <1>6, <1>7 DEF AnswerTest, AnswerError

-----------------------------------------------------------------------------
(* The sheet, the detached window and the weeks. *)

LEMMA SheetStep ==
  ASSUME IInv, OpenAddSheet \/ OpenEditSheet \/ CancelSheet \/ SubmitSheet
  PROVE  IInv' /\ (Settled => Settled')
<1>1. TypeOK /\ Answerable /\ view["main"] \in Views /\ \A x \in Windows : FirmView(x, view[x])
  BY FirmRule DEF IInv, TypeOK, Windows
<1>2. UNCHANGED <<daemon, queue, view, main, shared, screen, week>> /\ clicks' = clicks + 1
  BY DEF OpenAddSheet, OpenEditSheet, OpenSheet, CancelSheet, SubmitSheet, Click
<1>3. sheet' \in Sheets \union {None} /\ pending' \subseteq Requests /\ Answerable'
  <2>1. CASE OpenAddSheet \/ OpenEditSheet
    <3>1. \E e \in Ids \union {None} : OpenSheet(e)
      BY <1>1, <2>1 DEF OpenAddSheet, OpenEditSheet, Views
    <3> QED BY <1>1, <3>1 DEF OpenSheet, Sheets, Answerable, TypeOK
  <2>2. CASE CancelSheet
    BY <1>1, <2>2 DEF CancelSheet, Answerable, TypeOK
  <2>3. CASE SubmitSheet
    <3>1. sheet \in Sheets /\ sheet # None
      BY <1>1, <2>3 DEF SubmitSheet, TypeOK
    <3>2. ASSUME NEW kind \in Kinds, SheetRpc(kind)
          PROVE  sheet' \in Sheets \union {None} /\ pending' \subseteq Requests /\ Answerable'
      <4>1. PICK i \in SheetIds :
              /\ sheet' = [sheet EXCEPT !.busy = TRUE]
              /\ pending' = pending \union {[kind |-> kind, id |-> i, number |-> clicks]}
        BY <3>2 DEF SheetRpc
      <4>2. i \in Ids
        BY <3>1, <4>1 DEF SheetIds, Sheets
      <4>3. [kind |-> kind, id |-> i, number |-> clicks] \in Requests
        BY <1>1, <4>2 DEF Requests, TypeOK
      <4>4. sheet' \in Sheets
        BY <3>1, <4>1 DEF Sheets
      <4>5. pending' \subseteq Requests /\ pending' # {}
        BY <1>1, <4>1, <4>3 DEF TypeOK
      <4> QED BY <4>4, <4>5 DEF Answerable
    <3>3. CASE sheet' = [sheet EXCEPT !.armed = TRUE] /\ UNCHANGED pending
      BY <1>1, <2>3, <3>1, <3>3 DEF Sheets, Answerable, TypeOK, SubmitSheet
    <3> QED BY <2>3, <3>2, <3>3 DEF SubmitSheet, Kinds
  <2> QED BY <2>1, <2>2, <2>3
<1>4. TypeOK'
  BY <1>1, <1>2, <1>3 DEF TypeOK, main, shared, daemon
<1>5. Numbered' /\ Known' /\ Batches' /\ Listed' /\ (Settled => Settled')
  BY <1>2, SameNews DEF main, daemon
<1>6. Marked' /\ \A x \in Windows : FirmView(x, view'[x])
  BY <1>1, <1>2 DEF IInv, Marked, main, shared
<1> QED BY <1>3, <1>4, <1>5, <1>6, FirmRuleNext DEF IInv

LEMMA BlankRule ==
  ASSUME NEW m \in SUBSET Ids, NEW w \in Windows
  PROVE  /\ [Blank EXCEPT !.mutes = m] \in Views /\ FirmView(w, [Blank EXCEPT !.mutes = m])
         /\ [Blank EXCEPT !.mutes = m].list = {}
         /\ Blank \in Views /\ FirmView(w, Blank) /\ Blank.list = {}
BY DEF Blank, Views, FirmView

LEMMA DetachStep ==
  ASSUME IInv, Detach \/ CloseDetached
  PROVE  IInv' /\ (Settled => Settled')
<1>1. TypeOK /\ Answerable /\ settings.mutes \in SUBSET Ids /\ \A x \in Windows : FirmView(x, view[x])
  BY FirmRule DEF IInv, TypeOK, Settings
<1>2. UNCHANGED <<daemon, main, shared, dialog, week>> /\ clicks' = clicks + 1
  BY DEF Detach, CloseDetached, Click
<1>3. /\ queue' \in [Windows -> Seq(Messages) \union {None}]
      /\ queue'["main"] = queue["main"]
  BY <1>1, ReplayRule DEF Detach, CloseDetached, TypeOK, Windows
<1>4. PICK v \in Views : view' = [view EXCEPT !["detached"] = v] /\ FirmView("detached", v)
  <2>1. "detached" \in Windows
    BY DEF Windows
  <2>2. CASE Detach
    <3>1. view' = [view EXCEPT !["detached"] = [Blank EXCEPT !.mutes = settings.mutes]]
      BY <2>2 DEF Detach
    <3> QED BY <1>1, <2>1, <3>1, BlankRule
  <2>3. CASE CloseDetached
    <3>1. view' = [view EXCEPT !["detached"] = Blank]
      BY <2>3 DEF CloseDetached
    <3> QED BY <1>1, <2>1, <3>1, BlankRule
  <2> QED BY <2>2, <2>3
<1>5. /\ view' \in [Windows -> Views] /\ view'["main"] = view["main"]
      /\ \A x \in Windows : FirmView(x, view'[x])
  BY <1>1, <1>4 DEF TypeOK, Windows
<1>6. TypeOK' /\ Answerable'
  BY <1>1, <1>2, <1>3, <1>5 DEF TypeOK, Answerable, main, shared, daemon, dialog
<1>7. Numbered' /\ Known' /\ Batches' /\ Listed' /\ (Settled => Settled')
  BY <1>2, <1>3, <1>5, SameNews DEF main, daemon
<1>8. Marked'
  BY <1>2 DEF IInv, Marked, main, shared
<1> QED BY <1>5, <1>6, <1>7, <1>8, FirmRuleNext DEF IInv

LEMMA WeekdayStep ==
  ASSUME IInv, Weekday
  PROVE  IInv' /\ (Settled => Settled')
<1>1. TypeOK /\ Answerable /\ \A x \in Windows : FirmView(x, view[x])
  BY FirmRule DEF IInv
<1>2. UNCHANGED <<daemon, queue, view, main, shared, screen, dialog, bounds>>
  BY DEF Weekday
<1>3. week' \in [number : Nat, slot : BOOLEAN] /\ week'.number >= week.number
      /\ (week'.number # week.number => week'.number = week.number + 1)
  <2>1. week \in [number : Nat, slot : BOOLEAN]
    BY <1>1 DEF TypeOK
  <2>2. CASE week' = [week EXCEPT !.slot = TRUE]
    <3>1. [week EXCEPT !.slot = TRUE] \in [number : Nat, slot : BOOLEAN]
      BY <2>1
    <3>2. [week EXCEPT !.slot = TRUE].number = week.number /\ week.number \in Nat
      BY <2>1
    <3> QED BY <2>2, <3>1, <3>2
  <2>3. CASE week' = [number |-> week.number + 1, slot |-> FALSE]
    BY <2>1, <2>3
  <2> QED BY <2>2, <2>3 DEF Weekday
<1>4. TypeOK' /\ Answerable'
  BY <1>1, <1>2, <1>3 DEF TypeOK, Answerable, main, shared, daemon, dialog, bounds
<1>5. Numbered' /\ Known' /\ Batches' /\ Listed' /\ (Settled => Settled')
  BY <1>2, SameNews DEF main, daemon
<1>6. Marked'
  <2>1. \A d \in Range(digests) : d \in Nat
    BY <1>1 DEF TypeOK, Range
  <2>2. week.number \in Nat
    BY <1>1 DEF TypeOK
  <2> QED BY <1>2, <1>3, <2>1, <2>2 DEF IInv, Marked, main, shared
<1>7. \A x \in Windows : FirmView(x, view'[x])
  BY <1>1, <1>2
<1> QED BY <1>4, <1>5, <1>6, <1>7, FirmRuleNext DEF IInv

-----------------------------------------------------------------------------
(* A transition, and a new start. *)

LEMMA CountRule ==
  ASSUME NEW n \in Nat, UNION {log[i] : i \in Ids} = 1 .. n
  PROVE  Count = n
<1>1. Cardinality(1 .. n) = n
  BY FS_Interval
<1> QED BY <1>1 DEF Count

LEMMA TransitionStep ==
  ASSUME IInv, NEW i \in Ids, Transition(i)
  PROVE  IInv' /\ (Settled => Settled')
<1>1. TypeOK /\ Answerable /\ log \in [Ids -> Events] /\ \A x \in Windows : FirmView(x, view[x])
  BY FirmRule DEF IInv, TypeOK
<1>2. PICK n \in 0 .. MaxEvents : UNION {log[j] : j \in Ids} = 1 .. n
  BY DEF IInv, Numbered
<1>3. Count = n /\ n < MaxEvents /\ n \in Nat
  BY <1>2, CountRule, DesktopAssumption DEF Transition
<1>4. /\ log' = [log EXCEPT ![i] = @ \union {n + 1}]
      /\ bad' = IF i \in bad THEN bad \ {i} ELSE bad \union {i}
      /\ UNCHANGED <<stored, served, cache, queue, view, main, shared, screen, dialog, week, bounds>>
  BY <1>3 DEF Transition
<1>5. \A j \in Ids : \A e \in log[j] : e \in 1 .. n
  BY <1>2
<1>6. log' \in [Ids -> Events] /\ \A j \in Ids : log[j] \subseteq log'[j] /\ log'[j] \subseteq log[j] \union {n + 1}
  BY <1>1, <1>3, <1>4, DesktopAssumption DEF Events
<1>6a. UNION {log'[j] : j \in Ids} = 1 .. n + 1
  <2>1. \A e \in UNION {log'[j] : j \in Ids} : e \in 1 .. n + 1
    BY <1>3, <1>5, <1>6
  <2>2. n + 1 \in log'[i]
    BY <1>1, <1>4
  <2>3. ASSUME NEW e \in 1 .. n + 1 PROVE e \in UNION {log'[j] : j \in Ids}
    <3>1. CASE e = n + 1
      BY <2>2, <3>1
    <3>2. CASE e # n + 1
      <4>1. e \in UNION {log[j] : j \in Ids}
        BY <1>2, <1>3, <3>2
      <4> QED BY <1>6, <4>1
    <3> QED BY <3>1, <3>2
  <2> QED BY <2>1, <2>3
<1>7. Numbered'
  <2>2. n + 1 \in 0 .. MaxEvents
    BY <1>3, DesktopAssumption
  <2>3. \A j, k \in Ids : j # k => log'[j] \cap log'[k] = {}
    <3>1. \A j \in Ids : n + 1 \notin log[j]
      BY <1>3, <1>5
    <3> QED BY <1>1, <1>4, <3>1 DEF IInv, Numbered
  <2> QED BY <1>6a, <2>2, <2>3 DEF Numbered
<1>8. \A k \in seen \union posted : k[1] \in Ids
  BY <1>1 DEF TypeOK
<1>9. Known'
  BY <1>4, <1>6, <1>8 DEF IInv, Known, main
\* The new transition is newer than all there are.
<1>10. ASSUME NEW j \in Ids, NEW f \in Newest(log'[j])
       PROVE  f = n + 1 \/ f \in Newest(log[j])
  <2>1. log'[j] \in SUBSET (1 .. MaxEvents) /\ log[j] \in SUBSET log'[j]
    BY <1>6 DEF Events
  <2>2. f \in log'[j] /\ (f \in log[j] => f \in Newest(log[j]))
    BY <1>10, <2>1, NewestRule
  <2> QED BY <1>6, <2>2
<1>11. ASSUME NEW j \in Ids, NEW events, Complete(log[j], events) PROVE Complete(log'[j], events)
  <2>1. events \subseteq log'[j] /\ \A e \in events : e \in 1 .. n
    BY <1>5, <1>6, <1>11 DEF Complete
  <2>2. ASSUME NEW e \in events, NEW f \in Newest(log'[j]), f <= e PROVE f \in events
    <3>1. f # n + 1
      BY <1>3, <2>1, <2>2
    <3> QED BY <1>10, <1>11, <2>2, <3>1 DEF Complete, Leads
  <2> QED BY <2>1, <2>2 DEF Complete, Leads
<1>12. Batches'
  <2>1. \A k \in DOMAIN queue["main"] : IsBatch(queue["main"][k]) => queue["main"][k].id \in Ids
    <3>1. queue["main"] \in Seq(Messages)
      BY <1>1 DEF IInv, Batches, TypeOK, Windows
    <3>2. \A k \in DOMAIN queue["main"] : queue["main"][k] \in Messages
      BY <3>1
    <3> QED BY <3>2 DEF Messages, IsBatch
  <2>2. cache # None => cache.list \subseteq Ids
    BY <1>1 DEF TypeOK, Caches
  <2>3. Agreed(queue["main"], cache, log')
    BY <1>11, <2>1, <2>2 DEF IInv, Batches, Agreed
  <2> QED BY <1>4, <2>3 DEF IInv, Batches
<1>13. Listed'
  BY <1>4 DEF IInv, Listed
<1>14. ASSUME Settled PROVE Settled'
  <2>1. Count' = n + 1
    <3>1. Cardinality(1 .. n + 1) = n + 1
      BY <1>3, FS_Interval
    <3> QED BY <1>6a, <3>1 DEF Count
  <2>2. \A f \in Nat : Outlived(f) => Outlived(f)'
    BY <1>3, <2>1, DesktopAssumption DEF Outlived
  <2>3. ASSUME NEW p \in posted, p[1] \notin left, NEW f \in Coming(p[1])', f <= p[2]
        PROVE  <<p[1], f>> \in seen \/ Outlived(f)'
    <3>1. p[1] \in Ids /\ p[2] \in 1 .. n
      BY <1>5, <1>8, <2>3 DEF IInv, Known
    <3>2. f \in Newest(log'[p[1]]) \/ f \in Coming(p[1])
      BY <1>4, <2>3 DEF Coming, ComingIn
    <3>3. f \in Coming(p[1])
      BY <1>3, <1>10, <2>3, <3>1, <3>2 DEF Coming, ComingIn
    <3>4. f \in Nat
      <4>1. Newest(log[p[1]]) \subseteq 1 .. MaxEvents
        BY <1>1, <3>1, NewestRule DEF Events
      <4> QED BY <3>3, <4>1 DEF Coming, ComingIn
    <3> QED BY <1>14, <2>2, <2>3, <3>3, <3>4 DEF Settled
  <2>4. \A p \in again : p[2] \in Nat
    BY <1>1 DEF TypeOK
  <2> QED BY <1>4, <1>14, <2>2, <2>3, <2>4 DEF Settled, main
<1>15. Marked' /\ \A x \in Windows : FirmView(x, view'[x])
  BY <1>1, <1>4 DEF IInv, Marked, main, shared
<1>16. TypeOK' /\ Answerable'
  BY <1>1, <1>4, <1>6 DEF TypeOK, Answerable, main, shared, dialog, bounds
<1> QED BY <1>7, <1>9, <1>12, <1>13, <1>14, <1>15, <1>16, FirmRuleNext DEF IInv

LEMMA RestartStep ==
  ASSUME IInv, Restart
  PROVE  IInv' /\ Settled'
<1>1. TypeOK /\ Answerable /\ disk.mutes \in SUBSET Ids /\ disk \in Settings
  BY FirmRule DEF IInv, TypeOK, Settings
<1>2. /\ queue' = [w \in Windows |-> IF w = "main" THEN Replay ELSE None]
      /\ settings' = disk
      /\ view' = [w \in Windows |-> [Blank EXCEPT !.mutes = disk.mutes]]
      /\ seen' = {} /\ boot' = Count + 1
      /\ posted' = {} /\ again' = {} /\ left' = {} /\ sheet' = None /\ pending' = {}
      /\ UNCHANGED <<daemon, disk, lost, digests, week, clicks, cuts>>
  BY DEF Restart
<1>3. Replay \in Seq(Messages) /\ Announces(Replay, cache)
  BY <1>1, ReplayRule
<1>4. queue'["main"] = Replay /\ Replay # None /\ queue' \in [Windows -> Seq(Messages) \union {None}]
  BY <1>2, <1>3, NoneAssumption DEF Windows
<1>5. /\ view' \in [Windows -> Views] /\ view'["main"].list = {}
      /\ \A x \in Windows : FirmView(x, view'[x])
  BY <1>1, <1>2, BlankRule DEF Windows
<1>6. Count \in Nat
  BY CountRule, DesktopAssumption DEF IInv, Numbered
<1>7. Cardinality({}) = 0
  BY FS_EmptySet
<1>8. TypeOK' /\ Answerable'
  <2>1. settings' \in Settings /\ disk' \in Settings /\ lost' \in BOOLEAN /\ clicks' \in Nat
        /\ week' \in [number : Nat, slot : BOOLEAN] /\ digests' \in Seq(Nat)
    BY <1>1, <1>2 DEF TypeOK
  <2>2. sheet' \in Sheets \union {None} /\ pending' \subseteq Requests /\ Answerable'
    BY <1>2 DEF Answerable
  <2>3. seen' \subseteq Ids \X (1 .. MaxEvents) /\ Cardinality(seen') <= SeenCap
    BY <1>2, <1>7, DesktopAssumption
  <2>4. /\ boot' \in Nat /\ posted' \subseteq Ids \X (1 .. MaxEvents) /\ again' \subseteq posted'
        /\ left' \subseteq Ids
    BY <1>2, <1>6
  <2> QED BY <1>1, <1>2, <1>4, <1>5, <2>1, <2>2, <2>3, <2>4 DEF TypeOK, daemon
<1>9. Numbered' /\ Known'
  BY <1>2 DEF IInv, Numbered, Known, daemon
<1>10. Batches' /\ Listed'
  <2> DEFINE q == <<>>
  <2>1. q \in Seq(Messages) /\ Agreed(q, cache, log) /\ ListedIn(q, {})
    BY DEF IInv, Batches, Agreed, ListedIn
  <2>2. q \o Replay = Replay
    BY <1>3
  <2> HIDE DEF q
  <2>3. cache \in Caches \union {None}
    BY <1>1 DEF TypeOK
  <2>4. Agreed(q \o Replay, cache, log) /\ ListedIn(q \o Replay, {})
    BY <1>3, <2>1, <2>3, JoinRule
  <2> QED BY <1>2, <1>4, <1>5, <2>2, <2>4 DEF Batches, Listed, daemon
<1>11. Marked'
  BY <1>2 DEF IInv, Marked
<1>12. Settled'
  BY <1>2 DEF Settled
<1> QED BY <1>5, <1>8, <1>9, <1>10, <1>11, <1>12, FirmRuleNext DEF IInv

-----------------------------------------------------------------------------
(* A window takes a message. *)

LEMMA AppendRule ==
  ASSUME NEW S, NEW s \in Seq(S), NEW x \in S
  PROVE  /\ Append(s, x) \in Seq(S) /\ Append(s, x)[Len(Append(s, x))] = x
         /\ Range(Append(s, x)) = Range(s) \union {x}
<1>1. /\ Append(s, x) \in Seq(S) /\ Len(s) \in Nat /\ Len(Append(s, x)) = Len(s) + 1
      /\ DOMAIN s = 1 .. Len(s) /\ DOMAIN Append(s, x) = 1 .. Len(s) + 1
      /\ \A n \in 1 .. Len(s) : Append(s, x)[n] = s[n]
      /\ Append(s, x)[Len(s) + 1] = x
  OBVIOUS
<1>2. \A n \in 1 .. Len(s) + 1 : n \in 1 .. Len(s) \/ n = Len(s) + 1
  BY <1>1
<1>3. Range(Append(s, x)) \subseteq Range(s) \union {x}
  BY <1>1, <1>2 DEF Range
<1>4. Range(s) \union {x} \subseteq Range(Append(s, x))
  <2>1. \A n \in 1 .. Len(s) : n \in 1 .. Len(s) + 1
    BY <1>1
  <2>2. Len(s) + 1 \in 1 .. Len(s) + 1
    BY <1>1
  <2> QED BY <1>1, <2>1, <2>2 DEF Range
<1> QED BY <1>1, <1>3, <1>4

LEMMA ReceivedRule ==
  ASSUME TypeOK, NEW w \in Windows, FirmView(w, view[w]), NEW m \in Messages
  PROVE  /\ Received(w, m) \in Views /\ FirmView(w, Received(w, m))
         /\ Received(w, m).list = IF m.kind = "list" THEN m.list ELSE view[w].list
<1> DEFINE v == view[w]
           a == Apply(v, m)
           d == [a EXCEPT !.dirty = TRUE]
<1>1. v \in Views
  BY DEF TypeOK
<1>2. m.kind \in {"lost", "client", "list", "events"}
      /\ (m.kind = "list" => m.list \in SUBSET Ids /\ m.bad \in SUBSET Ids)
  BY DEF Messages
<1>3. /\ a \in Views /\ a.list = IF m.kind = "list" THEN m.list ELSE v.list
      /\ IF a.list = {} THEN a.selected = None ELSE a.selected \in a.list
      /\ m.kind # "list" => a.selected = v.selected
  <2>1. CASE m.kind = "list"
    <3> DEFINE s == IF v.selected \in m.list THEN v.selected ELSE IF m.list = {} THEN None ELSE Min(m.list)
    <3>1. a = [v EXCEPT !.list = m.list, !.bad = m.bad, !.selected = s]
      BY <2>1 DEF Apply
    <3>2. s \in Ids \union {None} /\ IF m.list = {} THEN s = None ELSE s \in m.list
      BY <1>1, <1>2, <2>1, MinRule DEF Views
    <3> HIDE DEF s
    <3> QED BY <1>1, <1>2, <2>1, <3>1, <3>2 DEF Views
  <2>2. CASE m.kind = "lost" \/ m.kind = "client"
    <3>1. a = [v EXCEPT !.connected = FALSE] \/ a = [v EXCEPT !.connected = TRUE]
      BY <2>2 DEF Apply
    <3>2. a \in Views /\ a.list = v.list /\ a.selected = v.selected
      BY <1>1, <3>1 DEF Views
    <3> QED BY <2>2, <3>2 DEF FirmView
  <2>3. CASE m.kind = "events"
    <3>1. a = v
      BY <2>3 DEF Apply
    <3> QED BY <1>1, <2>3, <3>1 DEF FirmView
  <2> QED BY <1>2, <2>1, <2>2, <2>3
<1> HIDE DEF a
<1>4. d \in Views /\ d.list = a.list /\ d.selected = a.selected
  BY <1>3 DEF Views
<1>5. Pinned \in Ids
  BY DesktopAssumption DEF Ids
<1>6. Selects(d, Pinned) \in Views /\ Selects(d, Pinned).list = d.list
      /\ Selects(d, Pinned).selected = IF Pinned \in d.list THEN Pinned ELSE d.selected
  BY <1>4, <1>5 DEF Selects, Views
<1>7. Received(w, m) = IF w = "detached" /\ m.kind \in {"list", "events"} THEN Selects(d, Pinned) ELSE d
  BY DEF Received, a
<1> HIDE DEF d
<1>8. CASE w = "detached" /\ m.kind \in {"list", "events"}
  BY <1>3, <1>4, <1>6, <1>7, <1>8 DEF FirmView
<1>9. CASE ~(w = "detached" /\ m.kind \in {"list", "events"})
  BY <1>2, <1>3, <1>4, <1>7, <1>9 DEF FirmView
<1> QED BY <1>8, <1>9

\* Transitions have numbers of their own, so as many are kept as the cap says,
\* and one that is not has as many newer ones.
LEMMA RankRule ==
  ASSUME NEW n \in Nat, NEW K \in SUBSET Entries, \A k, l \in K : k[2] = l[2] => k = l,
         \A k \in K : k[2] <= n
  PROVE  LET kept == {k \in K : Cardinality({q \in K : q[2] > k[2]}) < SeenCap} IN
         /\ Cardinality(kept) <= SeenCap
         /\ \A k \in K : k \in kept \/ n >= k[2] + SeenCap
<1> DEFINE Newer(k) == {q \in K : q[2] > k[2]}
           R(k) == Cardinality(Newer(k))
           kept == {k \in K : R(k) < SeenCap}
<1>1. \A k \in K : k[2] \in 1 .. n /\ k[2] \in Nat
  BY DEF Entries
<1>2. ASSUME NEW a \in Nat, NEW L \in SUBSET K, \A k \in L : k[2] > a, a <= n
      PROVE  IsFiniteSet(L) /\ Cardinality(L) \in Nat /\ Cardinality(L) <= n - a
  <2> DEFINE f == [k \in L |-> k[2]]
  <2>1. IsFiniteSet(a + 1 .. n) /\ Cardinality(a + 1 .. n) = n - a
    <3>1. a + 1 \in Int /\ n \in Int /\ n - (a + 1) + 1 = n - a
          /\ (a + 1 > n => n - a = 0)
      BY <1>2
    <3> QED BY <3>1, FS_Interval
  <2>2. f \in [L -> a + 1 .. n]
    BY <1>1, <1>2
  <2>3. \A k, l \in L : f[k] = f[l] => k = l
    BY <1>2
  <2>4. f \in Injection(L, a + 1 .. n)
    BY <2>2, <2>3 DEF Injection, IsInjective
  <2> HIDE DEF f
  <2>5. IsFiniteSet(L) /\ Cardinality(L) <= Cardinality(a + 1 .. n)
    BY <2>1, <2>4, FS_Injection
  <2> QED BY <2>1, <2>5, FS_CardinalityType
<1>3. ASSUME NEW k \in K
      PROVE  /\ IsFiniteSet(Newer(k)) /\ R(k) \in Nat
             /\ R(k) <= n - k[2]
  <2>1. Newer(k) \in SUBSET K /\ \A q \in Newer(k) : q[2] > k[2]
    OBVIOUS
  <2> QED BY <1>1, <1>2, <2>1
<1>4. ASSUME NEW k \in K, NEW l \in K, k[2] < l[2] PROVE R(k) # R(l)
  <2>1. Newer(l) \subseteq Newer(k) /\ l \in Newer(k) /\ l \notin Newer(l)
    BY <1>1, <1>4
  <2> HIDE DEF Newer
  <2> QED BY <1>3, <2>1, FS_Subset
<1>5. Cardinality(kept) <= SeenCap
  <2> DEFINE f == [k \in kept |-> R(k)]
  <2> HIDE DEF R, Newer
  <2>1. IsFiniteSet(0 .. SeenCap - 1) /\ Cardinality(0 .. SeenCap - 1) = SeenCap
    BY FS_Interval, DesktopAssumption
  <2>2. f \in [kept -> 0 .. SeenCap - 1]
    BY <1>3, DesktopAssumption
  <2>3. \A k, l \in kept : f[k] = f[l] => k = l
    <3> SUFFICES ASSUME NEW k \in kept, NEW l \in kept, R(k) = R(l) PROVE k = l
      OBVIOUS
    <3>1. ~(k[2] < l[2]) /\ ~(l[2] < k[2])
      BY <1>4
    <3> QED BY <1>1, <3>1
  <2>4. f \in Injection(kept, 0 .. SeenCap - 1)
    BY <2>2, <2>3 DEF Injection, IsInjective
  <2> HIDE DEF f, kept
  <2> QED BY <2>1, <2>4, FS_Injection
<1>6. ASSUME NEW k \in K, k \notin kept PROVE n >= k[2] + SeenCap
  <2> HIDE DEF R, Newer
  <2> QED BY <1>1, <1>3, <1>6, DesktopAssumption
<1> QED BY <1>5, <1>6

\* What the main window remembers of a batch.
LEMMA RememberRule ==
  ASSUME IInv, NEW i \in Ids, NEW events \in Events, events \subseteq log[i]
  PROVE  LET all == {k \in seen \union {<<i, e>> : e \in events} : k[1] \in view["main"].list} IN
         /\ Remember(i, events) \subseteq all /\ all \subseteq Entries
         /\ \A k \in all : k[2] \in log[k[1]]
         /\ Cardinality(Remember(i, events)) <= SeenCap
         /\ \A k \in all : k \in Remember(i, events) \/ Outlived(k[2])
<1> DEFINE all == {k \in seen \union {<<i, e>> : e \in events} : k[1] \in view["main"].list}
           kept == {k \in all : Cardinality({q \in all : q[2] > k[2]}) < SeenCap}
<1>1. all \in SUBSET Entries
  BY FirmRule DEF IInv, TypeOK, Entries, Events
<1>2. \A k \in all : k[2] \in log[k[1]] /\ k[1] \in Ids
  BY <1>1 DEF IInv, Known, Entries
<1>3. \A k, l \in all : k[2] = l[2] => k = l
  <2> SUFFICES ASSUME NEW k \in all, NEW l \in all, k[2] = l[2] PROVE k = l
    OBVIOUS
  <2>1. k[1] = l[1]
    BY <1>2 DEF IInv, Numbered
  <2> QED BY <1>1, <2>1 DEF Entries
<1>4. Remember(i, events) = kept
  BY DEF Remember
<1>5. Count \in Nat /\ \A k \in all : k[2] <= Count
  <2>1. PICK n \in 0 .. MaxEvents : UNION {log[j] : j \in Ids} = 1 .. n
    BY DEF IInv, Numbered
  <2>2. n \in Nat /\ Count = n
    BY <2>1, CountRule, DesktopAssumption
  <2>3. \A k \in all : k[2] \in 1 .. n
    BY <1>2, <2>1
  <2> QED BY <2>2, <2>3
<1> HIDE DEF all
<1>6. Cardinality(kept) <= SeenCap /\ \A k \in all : k \in kept \/ Count >= k[2] + SeenCap
  BY <1>1, <1>3, <1>5, RankRule
<1> QED BY <1>1, <1>2, <1>4, <1>6 DEF all, Outlived

\* The detached window takes a message.
LEMMA DetachedReceives ==
  ASSUME IInv, Receive("detached")
  PROVE  IInv' /\ (Settled => Settled')
<1>1. TypeOK /\ Answerable /\ "detached" \in Windows /\ queue["detached"] \in Seq(Messages) \ {<<>>}
      /\ \A x \in Windows : FirmView(x, view[x])
  BY FirmRule DEF IInv, TypeOK, Receive, Windows
<1> DEFINE m == Head(queue["detached"])
<1>2. m \in Messages /\ Tail(queue["detached"]) \in Seq(Messages)
  BY <1>1, TailRule
<1>3. /\ queue' = [queue EXCEPT !["detached"] = Tail(@)]
      /\ view' = [view EXCEPT !["detached"] = Received("detached", m)]
      /\ UNCHANGED <<main, shared, daemon, screen, dialog, week, bounds>>
  BY DEF Receive
<1>4. Received("detached", m) \in Views /\ FirmView("detached", Received("detached", m))
  BY <1>1, <1>2, ReceivedRule
<1>5. /\ view' \in [Windows -> Views] /\ view'["main"] = view["main"]
      /\ \A x \in Windows : FirmView(x, view'[x])
      /\ queue' \in [Windows -> Seq(Messages) \union {None}] /\ queue'["main"] = queue["main"]
  BY <1>1, <1>2, <1>3, <1>4 DEF TypeOK, Windows
<1>6. TypeOK' /\ Answerable'
  BY <1>1, <1>3, <1>5 DEF TypeOK, Answerable, main, shared, daemon, dialog, bounds
<1>7. Numbered' /\ Known' /\ Batches' /\ Listed' /\ (Settled => Settled')
  BY <1>3, <1>5, SameNews DEF main, daemon
<1>8. Marked'
  BY <1>3 DEF IInv, Marked, main, shared
<1> QED BY <1>5, <1>6, <1>7, <1>8, FirmRuleNext DEF IInv

\* What the next message of the main window leaves to come.
LEMMA MainTakes ==
  ASSUME IInv, Receive("main")
  PROVE  LET m == Head(queue["main"]) IN
         /\ m \in Messages /\ m = queue["main"][1] /\ 1 \in DOMAIN queue["main"]
         /\ queue' \in [Windows -> Seq(Messages) \union {None}] /\ view' \in [Windows -> Views]
         /\ view'["main"].list = IF m.kind = "list" THEN m.list ELSE view["main"].list
         /\ \A x \in Windows : FirmView(x, view'[x])
         /\ Batches' /\ Listed' /\ Numbered'
         /\ \A i \in Ids : Coming(i)' \subseteq Coming(i)
         /\ IsBatch(m) => m.id \in view["main"].list /\ Complete(log[m.id], m.events)
         /\ UNCHANGED <<daemon, screen, dialog, week, bounds>>
<1> DEFINE q == queue["main"]
           m == Head(q)
<1>1. TypeOK /\ "main" \in Windows /\ q \in Seq(Messages) /\ q # <<>> /\ q # None
      /\ \A x \in Windows : FirmView(x, view[x])
  BY FirmRule DEF IInv, TypeOK, Receive, Windows, Batches
<1>2. m \in Messages /\ Tail(q) \in Seq(Messages) /\ m = q[1] /\ 1 \in DOMAIN q
  BY <1>1, TailRule
<1>3. /\ queue' = [queue EXCEPT !["main"] = Tail(@)]
      /\ view' = [view EXCEPT !["main"] = Received("main", m)]
      /\ UNCHANGED <<daemon, screen, dialog, week, bounds>>
  BY DEF Receive
<1>4. Received("main", m) \in Views /\ FirmView("main", Received("main", m))
      /\ Received("main", m).list = IF m.kind = "list" THEN m.list ELSE view["main"].list
  BY <1>1, <1>2, ReceivedRule
<1>5. /\ view' \in [Windows -> Views] /\ view'["main"] = Received("main", m)
      /\ \A x \in Windows : FirmView(x, view'[x])
      /\ queue' \in [Windows -> Seq(Messages) \union {None}] /\ queue'["main"] = Tail(q)
  BY <1>1, <1>2, <1>3, <1>4 DEF TypeOK, Windows
<1>6. Agreed(q, cache, log) /\ ListedIn(q, view["main"].list)
  BY DEF IInv, Batches, Listed
<1>7. /\ Agreed(Tail(q), cache, log)
      /\ ListedIn(Tail(q), IF q[1].kind = "list" THEN q[1].list ELSE view["main"].list)
      /\ \A i \in Ids : ComingIn(i, Tail(q), cache, log[i]) \subseteq ComingIn(i, q, cache, log[i])
      /\ IsBatch(q[1]) => q[1].id \in view["main"].list /\ Complete(log[q[1].id], q[1].events)
  <2> HIDE DEF q
  <2> QED BY <1>1, <1>6, TakeRule
<1>8. cache' = cache /\ log' = log
  BY <1>3 DEF daemon
<1>9. Tail(q) # None
  BY <1>2, NoneAssumption
<1>10. Batches' /\ Listed' /\ Numbered'
  BY <1>2, <1>4, <1>5, <1>7, <1>8, <1>9 DEF IInv, Batches, Listed, Numbered
<1>11. \A i \in Ids : Coming(i)' \subseteq Coming(i)
  BY <1>5, <1>7, <1>8 DEF Coming
<1> QED BY <1>2, <1>3, <1>4, <1>5, <1>7, <1>10, <1>11

\* The main window takes a batch.
LEMMA MainNotes ==
  ASSUME IInv, Receive("main"), IsBatch(Head(queue["main"]))
  PROVE  /\ IInv'
         /\ Settled => Settled'
         /\ UNCHANGED digests
<1> DEFINE m == Head(queue["main"])
           i == m.id
           all == {k \in seen \union {<<i, e>> : e \in m.events} : k[1] \in view["main"].list}
<1>1. TypeOK /\ Answerable /\ posted \subseteq Entries /\ again \subseteq posted /\ boot \in Nat
  BY FirmRule DEF IInv, TypeOK, Entries
<1>2. /\ m \in Messages /\ m = queue["main"][1] /\ 1 \in DOMAIN queue["main"]
      /\ queue' \in [Windows -> Seq(Messages) \union {None}] /\ view' \in [Windows -> Views]
      /\ view'["main"].list = view["main"].list
      /\ \A x \in Windows : FirmView(x, view'[x])
      /\ Batches' /\ Listed' /\ Numbered'
      /\ \A j \in Ids : Coming(j)' \subseteq Coming(j)
      /\ i \in view["main"].list /\ Complete(log[i], m.events)
      /\ UNCHANGED <<daemon, screen, dialog, week, bounds>>
  BY MainTakes DEF IsBatch
<1>3. i \in Ids /\ m.events \in Events /\ m.events \subseteq log[i]
  BY <1>2 DEF Messages, IsBatch, Complete
<1>4. /\ seen' = Remember(i, m.events)
      /\ LET e == SelectNotification(i, m.events) IN
         IF e = None THEN UNCHANGED <<posted, again, hushed>>
         ELSE \/ /\ Gates(i) /\ posted' = posted \union {<<i, e>>}
                 /\ again' = IF Announced(i, e) THEN again \union {<<i, e>>} ELSE again
                 /\ UNCHANGED hushed
              \/ hushed' = hushed \union {i} /\ UNCHANGED <<posted, again>>
      /\ UNCHANGED <<boot, left, digests, settings, disk, lost>>
  BY DEF Receive, IsBatch, NoteHealthEvents, shared
<1> HIDE DEF m
<1>5. /\ seen' \subseteq all /\ all \subseteq Entries /\ \A k \in all : k[2] \in log[k[1]]
      /\ Cardinality(seen') <= SeenCap
      /\ \A k \in all : k \in seen' \/ Outlived(k[2])
  BY <1>3, <1>4, RememberRule
\* What is posted is in the batch, new, and the newest of it.
<1>6. \/ posted' = posted /\ again' = again
      \/ \E e \in m.events :
           /\ posted' = posted \union {<<i, e>>} /\ e >= boot /\ <<i, e>> \notin seen
           /\ again' = again \/ (Announced(i, e) /\ again' = again \union {<<i, e>>})
  <2> DEFINE fresh == {e \in m.events : <<i, e>> \notin seen /\ e >= boot}
  <2>1. fresh \in SUBSET (1 .. MaxEvents)
    BY <1>3 DEF Events
  <2>2. fresh # {} => Max(fresh) \in fresh
    BY <2>1, MaxRule
  <2>3. SelectNotification(i, m.events) = IF fresh = {} THEN None ELSE Max(fresh)
    BY DEF SelectNotification
  <2> HIDE DEF fresh
  <2>4. \/ posted' = posted /\ again' = again
        \/ /\ fresh # {} /\ posted' = posted \union {<<i, Max(fresh)>>}
           /\ \/ again' = again
              \/ Announced(i, Max(fresh)) /\ again' = again \union {<<i, Max(fresh)>>}
    BY <1>4, <2>3
  <2> QED BY <2>2, <2>4 DEF fresh
<1>7. \A e \in m.events : <<i, e>> \in Entries /\ e \in log[i] /\ e \in Nat
  BY <1>3 DEF Entries, Events
<1>8. /\ posted' \subseteq Entries /\ again' \subseteq posted'
      /\ \A p \in posted' : p \in posted \/ \E e \in m.events : p = <<i, e>>
  BY <1>1, <1>6, <1>7
<1>9. Known'
  <2>1. log' = log
    BY <1>2 DEF daemon
  <2>2. \A p \in posted' : p[2] \in log[p[1]]
    BY <1>7, <1>8 DEF IInv, Known
  <2> QED BY <1>5, <2>1, <2>2 DEF Known
<1>10. TypeOK' /\ Answerable'
  <2>1. /\ posted' \subseteq Ids \X (1 .. MaxEvents) /\ again' \subseteq posted'
        /\ seen' \subseteq Ids \X (1 .. MaxEvents)
    BY <1>5, <1>8 DEF Entries
  <2> QED BY <1>1, <1>2, <1>4, <1>5, <2>1 DEF TypeOK, Answerable, daemon, dialog, bounds
<1>11. Marked'
  BY <1>2, <1>4 DEF IInv, Marked
<1>12. IInv'
  BY <1>2, <1>9, <1>10, <1>11, FirmRuleNext DEF IInv
\* A message that can still come is no older than the batch, or a part of it.
<1>13. \A e \in m.events : \A f \in Coming(i) : f <= e => f \in m.events
  <2> SUFFICES ASSUME NEW e \in m.events, NEW f \in Coming(i), f <= e PROVE f \in m.events
    OBVIOUS
  <2>1. CASE f \in Newest(log[i])
    BY <1>2, <2>1 DEF Complete, Leads
  <2>2. CASE cache # None /\ i \in cache.list /\ f \in cache.events[i]
    <3>1. Leads(m.events, cache.events[i])
      BY <1>2, <2>2 DEF IInv, Batches, Agreed, m
    <3> QED BY <2>2, <3>1 DEF Leads
  <2>3. CASE \E n \in DOMAIN queue["main"] :
               IsBatch(queue["main"][n]) /\ queue["main"][n].id = i /\ f \in queue["main"][n].events
    <3>1. PICK n \in DOMAIN queue["main"] :
               IsBatch(queue["main"][n]) /\ queue["main"][n].id = i /\ f \in queue["main"][n].events
      BY <2>3
    <3>2. 1 <= n
      BY <1>1, <3>1 DEF TypeOK, IInv, Batches, Windows
    <3>3. Leads(m.events, queue["main"][n].events)
      BY <1>2, <3>1, <3>2 DEF IInv, Batches, Agreed, m
    <3> QED BY <3>1, <3>3 DEF Leads
  <2> QED BY <2>1, <2>2, <2>3 DEF Coming, ComingIn
<1>14. ASSUME Settled PROVE Settled'
  <2>1. Count' = Count /\ \A f : Outlived(f)' = Outlived(f)
    BY <1>2 DEF Outlived, Count, daemon
  <2>2. ASSUME NEW p \in posted' PROVE p[2] >= boot'
    <3>1. boot' = boot /\ (p \in posted => p[2] >= boot)
      BY <1>4, <1>14 DEF Settled
    <3>2. p \notin posted => \E e \in m.events : p = <<i, e>> /\ e >= boot
      BY <1>6, <2>2
    <3> QED BY <3>1, <3>2
\* What is posted again was not remembered, so it had been forgotten.
  <2>3. ASSUME NEW e \in m.events, <<i, e>> \notin seen, Announced(i, e), i \notin left
        PROVE  Outlived(e)
    <3>1. PICK p \in posted : p[1] = i /\ p[2] >= e
      BY <2>3 DEF Announced
    <3>2. e \in Coming(i) /\ e <= p[2]
      BY <1>1, <1>2, <1>3, <1>7, <3>1 DEF Coming, ComingIn, Events, Entries, m
    <3> QED BY <1>14, <2>3, <3>1, <3>2 DEF Settled
  <2>4. ASSUME NEW p \in again' PROVE p[1] \in left' \/ Outlived(p[2])
    <3>1. left' = left /\ (p \in again => p[1] \in left \/ Outlived(p[2]))
      BY <1>4, <1>14 DEF Settled
    <3>2. p \notin again => \E e \in m.events : p = <<i, e>> /\ <<i, e>> \notin seen /\ Announced(i, e)
      BY <1>6, <2>4
    <3>3. CASE p \notin again
      <4>1. PICK e \in m.events : p = <<i, e>> /\ <<i, e>> \notin seen /\ Announced(i, e)
        BY <3>2, <3>3
      <4>2. p[1] = i /\ p[2] = e
        BY <4>1
      <4> QED BY <2>3, <3>1, <4>1, <4>2
    <3> QED BY <3>1, <3>3
  <2>5. ASSUME NEW p \in posted', p[1] \notin left
        PROVE  /\ p[1] \in view["main"].list
               /\ \A f \in Coming(p[1])' : f <= p[2] => <<p[1], f>> \in all \/ Outlived(f)
    <3>1. CASE p \in posted
      <4>1. p[1] \in Ids
        BY <1>1, <3>1 DEF Entries
      <4> QED BY <1>2, <1>14, <2>5, <3>1, <4>1 DEF Settled
    <3>2. ASSUME NEW e \in m.events, p = <<i, e>>
          PROVE  /\ p[1] \in view["main"].list
                 /\ \A f \in Coming(p[1])' : f <= p[2] => <<p[1], f>> \in all
      BY <1>2, <1>3, <1>13, <3>2
    <3> QED BY <1>8, <2>5, <3>1, <3>2
  <2>6. \A p, f : <<p, f>> \in all => <<p, f>> \in seen' \/ Outlived(f)
    BY <1>5
  <2> HIDE DEF all
  <2> QED BY <1>2, <1>4, <2>1, <2>2, <2>4, <2>5, <2>6 DEF Settled
<1> QED BY <1>4, <1>12, <1>14

\* The main window takes a list, and the digest of the week may be sent.
LEMMA MainLists ==
  ASSUME IInv, Receive("main"), Head(queue["main"]).kind = "list"
  PROVE  /\ IInv' /\ (Settled => Settled')
         /\ digests' # digests => digests'[Len(digests')] \notin Range(digests) \/ lost
<1> DEFINE m == Head(queue["main"])
<1>1. TypeOK /\ Answerable /\ settings \in Settings /\ disk \in Settings /\ lost \in BOOLEAN
      /\ digests \in Seq(Nat) /\ week.number \in Nat /\ view["main"].list \subseteq Ids
  BY FirmRule DEF IInv, TypeOK, Views, Windows
<1>2. /\ m \in Messages
      /\ queue' \in [Windows -> Seq(Messages) \union {None}] /\ view' \in [Windows -> Views]
      /\ view'["main"].list = m.list
      /\ \A x \in Windows : FirmView(x, view'[x])
      /\ Batches' /\ Listed' /\ Numbered'
      /\ \A j \in Ids : Coming(j)' \subseteq Coming(j)
      /\ UNCHANGED <<daemon, screen, dialog, week, bounds>>
  BY MainTakes
<1>3. /\ left' = left \union (view["main"].list \ m.list)
      /\ MaybeSendWeeklyDigest
      /\ UNCHANGED <<seen, boot, posted, again, hushed>>
  BY DEF Receive
<1> HIDE DEF m
\* Either nothing was sent, or the week is marked and was not before.
<1>4. \/ UNCHANGED <<settings, disk, lost, digests>>
      \/ /\ settings.sent # week.number /\ settings' = [settings EXCEPT !.sent = week.number]
         /\ digests' = Append(digests, week.number)
         /\ (disk' = settings' /\ lost' = lost) \/ (lost' = TRUE /\ disk' = disk)
  BY <1>3 DEF MaybeSendWeeklyDigest, Persist, shared
<1>5. Marked' /\ settings' \in Settings /\ disk' \in Settings /\ lost' \in BOOLEAN /\ digests' \in Seq(Nat)
      /\ (digests' # digests => digests'[Len(digests')] \notin Range(digests) \/ lost)
  <2>1. CASE UNCHANGED <<settings, disk, lost, digests>>
    BY <1>1, <1>2, <2>1 DEF IInv, Marked
  <2>2. CASE /\ settings.sent # week.number /\ settings' = [settings EXCEPT !.sent = week.number]
             /\ digests' = Append(digests, week.number)
             /\ (disk' = settings' /\ lost' = lost) \/ (lost' = TRUE /\ disk' = disk)
    <3>1. settings' \in Settings /\ settings'.sent = week.number
      BY <1>1, <2>2 DEF Settings
    <3>2. digests' \in Seq(Nat) /\ digests'[Len(digests')] = week.number
          /\ Range(digests') = Range(digests) \union {week.number}
      BY <1>1, <2>2, AppendRule
    <3>3. ~lost => \A d \in Range(digests) : d <= week.number /\ d # week.number
      BY <2>2 DEF IInv, Marked
    <3>4. Marked'
      BY <1>1, <1>2, <2>2, <3>1, <3>2, <3>3 DEF Marked
    <3>5. disk' \in Settings /\ lost' \in BOOLEAN
      BY <1>1, <2>2, <3>1
    <3> QED BY <3>1, <3>2, <3>3, <3>4, <3>5
  <2> QED BY <1>4, <2>1, <2>2
<1>6. Known'
  BY <1>2, <1>3 DEF IInv, Known, daemon
<1>7. TypeOK' /\ Answerable'
  <2>1. left' \subseteq Ids
    BY <1>1, <1>3 DEF TypeOK
  <2> QED BY <1>1, <1>2, <1>3, <1>5, <2>1 DEF TypeOK, Answerable, daemon, dialog, bounds
<1>8. ASSUME Settled PROVE Settled'
  <2>1. \A p \in posted : p[1] \in Ids
    BY <1>1 DEF TypeOK
  <2>2. \A f : Outlived(f)' = Outlived(f)
    BY <1>2 DEF Outlived, Count, daemon
  <2> QED BY <1>2, <1>3, <1>8, <2>1, <2>2 DEF Settled
<1> QED BY <1>2, <1>3, <1>5, <1>6, <1>7, <1>8, FirmRuleNext DEF IInv

\* The connection of the main window was lost or found again.
LEMMA MainHears ==
  ASSUME IInv, Receive("main"), Head(queue["main"]).kind \notin {"events", "list"}
  PROVE  /\ IInv' /\ (Settled => Settled') /\ UNCHANGED digests
<1> DEFINE m == Head(queue["main"])
<1>1. TypeOK /\ Answerable
  BY FirmRule DEF IInv
<1>2. /\ queue' \in [Windows -> Seq(Messages) \union {None}] /\ view' \in [Windows -> Views]
      /\ view'["main"].list = view["main"].list
      /\ \A x \in Windows : FirmView(x, view'[x])
      /\ Batches' /\ Listed' /\ Numbered'
      /\ \A j \in Ids : Coming(j)' \subseteq Coming(j)
      /\ UNCHANGED <<daemon, screen, dialog, week, bounds>>
  BY MainTakes
<1>3. UNCHANGED <<main, shared>>
  BY DEF Receive
<1>4. Known' /\ Marked'
  BY <1>2, <1>3 DEF IInv, Known, Marked, main, shared, daemon
<1>5. TypeOK' /\ Answerable'
  BY <1>1, <1>2, <1>3 DEF TypeOK, Answerable, main, shared, daemon, dialog, bounds
<1>6. ASSUME Settled PROVE Settled'
  <2>1. \A p \in posted : p[1] \in Ids
    BY <1>1 DEF TypeOK
  <2>2. \A f : Outlived(f)' = Outlived(f)
    BY <1>2 DEF Outlived, Count, daemon
  <2> QED BY <1>2, <1>3, <1>6, <2>1, <2>2 DEF Settled, main
<1> QED BY <1>2, <1>3, <1>4, <1>5, <1>6, FirmRuleNext DEF IInv, main

-----------------------------------------------------------------------------
(* The theorems. *)

LEMMA Start == Init => IInv /\ Settled
<1> SUFFICES ASSUME Init PROVE IInv /\ Settled
  OBVIOUS
<1>1. Blank \in Views /\ Blank.list = {} /\ \A w \in Windows : FirmView(w, Blank)
  BY BlankRule DEF Blank, Views, FirmView
<1>2. /\ queue \in [Windows -> Seq(Messages) \union {None}] /\ queue["main"] = <<[kind |-> "client"]>>
      /\ <<[kind |-> "client"]>> \in Seq(Messages)
  BY DEF Init, Windows, Messages
<1>3. view \in [Windows -> Views] /\ \A w \in Windows : FirmView(w, view[w])
  BY <1>1 DEF Init, Windows
<1>4. settings \in Settings /\ disk \in Settings
  BY DEF Init, Settings
<1>5. log \in [Ids -> Events] /\ UNION {log[i] : i \in Ids} = 1 .. 0 /\ 0 \in 0 .. MaxEvents
  BY DesktopAssumption DEF Init, Events
<1>6. Cardinality({}) = 0
  BY FS_EmptySet
<1>7. TypeOK /\ Answerable
  <2>1. seen = {} /\ posted = {} /\ again = {} /\ digests = <<>> /\ left = {} /\ boot = 1 /\ lost = FALSE /\ clicks = 0
        /\ sheet = None /\ pending = {} /\ week = [number |-> 1, slot |-> FALSE]
        /\ stored = Ids /\ served = Ids /\ bad = {} /\ cache = None
    BY DEF Init
  <2>2. /\ Cardinality(seen) <= SeenCap /\ seen \subseteq Ids \X (1 .. MaxEvents)
        /\ posted \subseteq Ids \X (1 .. MaxEvents) /\ again \subseteq posted /\ digests \in Seq(Nat)
        /\ week \in [number : Nat, slot : BOOLEAN] /\ boot \in Nat
    BY <1>6, <2>1, DesktopAssumption
  <2> QED BY <1>2, <1>3, <1>4, <1>5, <2>1, <2>2 DEF TypeOK, Answerable
<1>8. Numbered /\ Known /\ Settled
  BY <1>5 DEF Init, Numbered, Known, Settled
<1>9. Batches /\ Listed
  <2>1. \A n \in DOMAIN queue["main"] : ~IsBatch(queue["main"][n])
    BY <1>2 DEF IsBatch
  <2>2. queue["main"] # None /\ cache = None
    BY <1>2, NoneAssumption DEF Init
  <2> QED BY <2>1, <2>2 DEF Batches, Agreed, Listed, ListedIn
<1>10. Marked
  BY DEF Init, Marked, Range
<1> QED BY <1>3, <1>7, <1>8, <1>9, <1>10, FirmRule DEF IInv

\* What the steps that announce nothing leave as it was.
LEMMA Quiet ==
  ASSUME NEW w \in Windows, NEW i \in Ids,
         \/ Transition(i) \/ MuteExpires(i) \/ Publish \/ Cut \/ Render(w) \/ Tick(w)
         \/ SelectEnvironment(w, i) \/ MuteSelected(w) \/ UnmuteSelected(w) \/ Toggle(w)
         \/ Detach \/ CloseDetached \/ OpenAddSheet \/ OpenEditSheet \/ CancelSheet \/ SubmitSheet
         \/ Answer \/ Weekday
  PROVE  UNCHANGED digests
BY DEF Transition, MuteExpires, Publish, Cut, Render, Tick, SelectEnvironment, MuteSelected,
       UnmuteSelected, Toggle, Detach, CloseDetached, OpenAddSheet, OpenEditSheet, OpenSheet,
       CancelSheet, SubmitSheet, Answer, Weekday, main

Announcing == digests' # digests => digests'[Len(digests')] \notin Range(digests) \/ lost

LEMMA Step ==
  ASSUME IInv, [Next]_vars
  PROVE  /\ IInv'
         /\ (Settled => Settled') /\ Announcing
<1>1. CASE \E i \in Ids : Transition(i) \/ MuteExpires(i)
  BY <1>1, TransitionStep, ExpiryStep, Quiet DEF Announcing, Windows
<1>2. CASE Publish \/ Cut
  <2>1. 1 \in Ids
    BY DesktopAssumption DEF Ids
  <2> QED BY <1>2, <2>1, PublishStep, CutStep, Quiet DEF Announcing, Windows
<1>3. CASE \E w \in Windows : Render(w) \/ Tick(w)
  <2>1. 1 \in Ids
    BY DesktopAssumption DEF Ids
  <2> QED BY <1>3, <2>1, PaintStep, Quiet DEF Announcing
<1>4. CASE \E w \in Windows : Receive(w)
  <2>1. CASE Receive("detached")
    <3>1. UNCHANGED digests
      BY <2>1 DEF Receive, main
    <3> QED BY <2>1, <3>1, DetachedReceives DEF Announcing
  <2>2. CASE Receive("main")
    BY <2>2, MainNotes, MainLists, MainHears DEF Announcing, IsBatch
  <2> QED BY <1>4, <2>1, <2>2 DEF Windows
<1>5. CASE \E w \in Windows, i \in Ids : SelectEnvironment(w, i)
  BY <1>5, SelectStep, Quiet DEF Announcing
<1>6. CASE \E w \in Windows : MuteSelected(w) \/ UnmuteSelected(w) \/ Toggle(w)
  <2>1. 1 \in Ids
    BY DesktopAssumption DEF Ids
  <2> QED BY <1>6, <2>1, SettingsStep, Quiet DEF Announcing
<1>7. CASE \/ Detach \/ CloseDetached
           \/ OpenAddSheet \/ OpenEditSheet \/ CancelSheet \/ SubmitSheet \/ Answer
           \/ Weekday
  <2>1. 1 \in Ids /\ "main" \in Windows
    BY DesktopAssumption DEF Ids, Windows
  <2>2. UNCHANGED digests
    BY <1>7, <2>1, Quiet
  <2>3. IInv' /\ (Settled => Settled')
    BY <1>7, DetachStep, SheetStep, AnswerStep, WeekdayStep
  <2> QED BY <2>2, <2>3 DEF Announcing
<1>8. CASE Restart
  <2>1. digests' = digests
    BY <1>8 DEF Restart
  <2> QED BY <1>8, <2>1, RestartStep DEF Announcing
<1>9. CASE UNCHANGED vars
  <2>1. UNCHANGED <<log, cache, seen, boot, posted, again, left, digests>> /\ queue' = queue /\ view' = view
    BY <1>9 DEF vars, daemon, main
  <2>2. Numbered' /\ Known' /\ Batches' /\ Listed' /\ (Settled => Settled')
    BY <2>1, SameNews
  <2>3. WindowsStandFirm' /\ Marked'
    BY <1>9 DEF IInv, WindowsStandFirm, TypeOK, Marked, vars, daemon, main, shared, dialog, screen, bounds
  <2> QED BY <2>1, <2>2, <2>3 DEF IInv, Announcing
<1> QED BY <1>1, <1>2, <1>3, <1>4, <1>5, <1>6, <1>7, <1>8, <1>9 DEF Next

\* A window shows an Environment that is in the list it was sent, the detached
\* one its own whenever that is there, and a sheet that waits has an answer on
\* its way, whatever is published, cut off, restarted, written or cancelled, in
\* any order (listen_dashboard, select_environment, sheet_rpc).
THEOREM WindowsShowWhatTheyList == Spec => []WindowsStandFirm
<1>1. Init => IInv
  BY Start
<1>2. IInv /\ [Next]_vars => IInv'
  BY Step
<1>3. IInv => WindowsStandFirm
  BY DEF IInv
<1> QED BY <1>1, <1>2, <1>3, PTL DEF Spec

\* Over any reconnects, replays, publishes, mutes and restarts, a transition is
\* posted once, never after a newer one of its Environment nor when it is of
\* before the boot, as long as the Environment stays in the list and fewer newer
\* transitions have been than the window remembers, NOTIFY_SEEN_CAP; and the
\* digest of a week is sent once unless a write of app.json has failed
\* (note_health_events, maybe_send_weekly_digest).
THEOREM EachIsAnnouncedOnce == Spec => AnnouncedOnce
<1>1. Init => IInv /\ Settled
  BY Start
<1>2. IInv /\ Settled /\ [Next]_vars => IInv' /\ Settled' /\ Announcing
  BY Step
<1>3. Settled' /\ Announcing =>
        /\ \A p \in posted' : p[2] >= boot'
        /\ \A p \in again' : p[1] \in left' \/ Count' >= p[2] + SeenCap
        /\ digests' # digests =>
             digests'[Len(digests')] \notin Range(digests) \/ lost
  BY DEF Settled, Announcing, Outlived
<1> QED BY <1>1, <1>2, <1>3, PTL DEF Spec, AnnouncedOnce
=============================================================================
