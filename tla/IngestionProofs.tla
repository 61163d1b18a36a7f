-------------------------- MODULE IngestionProofs --------------------------
(***************************************************************************)
(* Theorems about Ingestion, for any connector, documents, edits, webhook  *)
(* deliveries and failures.                                                *)
(***************************************************************************)
EXTENDS Ingestion, InductionLemmas

\* What makes SkipIsSound inductive: whatever happens to raw_documents, the stamp
\* of the extraction and the graph move together.
StampInv == extracted = known /\ DOMAIN extracted = Doc

\* At the start nothing is extracted and nothing known.
LEMMA StampInit == Init => StampInv
BY DEF Init, StampInv

\* Only Resolve touches either, and it sets both.
LEMMA StampStep == StampInv /\ [Next]_vars => StampInv'
<1>1. SUFFICES ASSUME StampInv, [Next]_vars PROVE StampInv'
  OBVIOUS
<1>2. CASE UNCHANGED <<extracted, known>>
  BY <1>1, <1>2 DEF StampInv
<1>3. CASE Resolve
  BY <1>1, <1>3 DEF StampInv, Resolve
<1>4. CASE Paging
  BY <1>2, <1>4 DEF Paging, StartPaging, ReadPage, Collect, rows
<1>5. ASSUME NEW d \in Doc, Create(d) \/ Edit(d) PROVE StampInv'
  BY <1>2, <1>5 DEF Create, Edit, rows
<1>6. ASSUME NEW d \in Doc, NEW v \in Version, Deliver(d, v) PROVE StampInv'
  BY <1>2, <1>6 DEF Deliver
<1>7. CASE Fetch \/ Store \/ Finish \/ Fail
  BY <1>2, <1>7 DEF Fetch, Store, Finish, Fail, rows
<1>8. CASE UNCHANGED vars
  BY <1>2, <1>8 DEF vars, rows
<1>9. QED
  BY <1>1, <1>3, <1>4, <1>5, <1>6, <1>7, <1>8 DEF Next, Pipeline

\* A document that the next run skips as unchanged is in the graph as it stands in
\* raw_documents, whichever runs, webhooks, edits and crashes came before.
THEOREM SkipsSound == Spec => []SkipIsSound
<1>1. StampInv => SkipIsSound
  BY DEF StampInv, SkipIsSound
<1>2. QED
  BY <1>1, StampInit, StampStep, PTL DEF Spec

-----------------------------------------------------------------------------
(* One fetch. *)

\* The newest of some stamps is one of them.
LEMMA LatestIsOne ==
  ASSUME NEW P \in SUBSET Doc, NEW key \in [Doc -> Nat], NEW c \in Nat
  PROVE  /\ Latest(P, key, c) \in Nat
         /\ P = {} => Latest(P, key, c) = c
         /\ P # {} => \E d \in P : Latest(P, key, c) = key[d]
         /\ \A d \in P : key[d] <= Latest(P, key, c)
<1>1. CASE P = {}
  BY <1>1 DEF Latest
<1>2. CASE P # {}
  <2>. DEFINE S == {key[d] : d \in P}
              f == [d \in P |-> key[d]]
  <2>1. IsFiniteSet(P)
    BY DocAssumption, FS_Subset
  <2>2. f \in Surjection(P, S)
    BY DEF Surjection
  <2>3. IsFiniteSet(S) /\ S \in SUBSET Nat /\ S # {}
    <3>1. IsFiniteSet(S)
      BY <2>1, <2>2, FS_Surjection
    <3>2. QED
      BY <1>2, <3>1
  <2>4. Max(S) \in S /\ \A x \in S : x <= Max(S)
    <3>. HIDE DEF S
    <3>1. QED
      BY <2>3, MaxIsGreatest
  <2>5. Latest(P, key, c) = Max(S)
    BY <1>2 DEF Latest
  <2>6. Max(S) \in Nat
    BY <2>3, <2>4
  <2>. HIDE DEF Max
  <2>7. QED
    BY <1>2, <2>4, <2>5, <2>6
<1>3. QED
  BY <1>1, <1>2

\* Rounding goes down.
LEMMA FloorBelow ==
  ASSUME NEW t \in Nat
  PROVE  Floor(t) \in Nat /\ Floor(t) <= t
BY UnitAssumption DEF Floor

\* A query lists existing items, those of a later stamp whenever those of an
\* earlier one, and for an earlier cursor at least as many.
LEMMA ListedIs ==
  ASSUME NEW s \in Source, NEW u, u.stamp \in [Doc -> Nat], NEW c \in Nat
  PROVE  /\ Listed(s, u, c) \subseteq Exists(u) /\ Listed(s, u, c) \in SUBSET Doc
         /\ s \notin {"slack", "linear", "gdrive", "imap"} => \A d \in Exists(u) :
               u.stamp[d] >= c => d \in Listed(s, u, c)
         /\ \A d \in Exists(u) : u.stamp[d] > c => d \in Listed(s, u, c)
<1>1. Floor(c) \in Nat /\ Floor(c) <= c
  BY FloorBelow
<1>2. QED
  BY <1>1 DEF Listed, Source, Exists, Since, After

\* A cut keeps some of a listing; if it leaves some out, n items.
LEMMA CutsKeep ==
  ASSUME NEW S, NEW key, NEW n,
         NEW P, P \in Cuts(S, n) \/ P \in NewestOf(S, key, n) \/ P \in OldestOf(S, key, n)
  PROVE  /\ P \in SUBSET S
         /\ Cardinality(S) <= n => P = S
         /\ ~(Cardinality(S) <= n) => Cardinality(P) = n
BY DEF Cuts, NewestOf, OldestOf

\* Whatever a fetch brings was listed for its cursor, and the next cursor is no
\* later than the old one or some item's stamp.
LEMMA FetchBrings ==
  ASSUME NEW s \in Source \ Paged, NEW u, u.stamp \in [Doc -> Nat], NEW c \in Nat,
         NEW r \in Fetches(s, u, c)
  PROVE  /\ r.listed = Listed(s, u, c)
         /\ r.docs \subseteq r.listed \intersect Texts(s)
         /\ r.skipped \subseteq r.listed
         /\ r.cursor \in Nat
         /\ r.cursor <= c \/ \E d \in Doc : r.cursor <= u.stamp[d]
<1>. DEFINE L == Listed(s, u, c)
<1>1. L \in SUBSET Doc
  BY ListedIs
<1>. HIDE DEF L
<1>2. ASSUME NEW P \in SUBSET Doc
      PROVE  /\ Latest(P, u.stamp, c) \in Nat
             /\ Latest(P, u.stamp, c) <= c \/ \E d \in Doc : Latest(P, u.stamp, c) <= u.stamp[d]
  <2>. DEFINE t == Latest(P, u.stamp, c)
  <2>1. t \in Nat /\ (P = {} => t = c) /\ (P # {} => \E d \in P : t = u.stamp[d])
    BY <1>2, LatestIsOne
  <2>. HIDE DEF t
  <2>2. t <= c \/ \E d \in Doc : t <= u.stamp[d]
    BY <1>2, <2>1
  <2>3. QED
    BY <2>1, <2>2 DEF t
<1>4. CASE s = "slack"
  <2>1. PICK P \in NewestOf(L, u.stamp, MaxItems) : r = Result(L, P \ Mute, {}, Latest(P, u.stamp, c))
    BY <1>4 DEF Fetches, Slack, Paged, L
  <2>2. P \in SUBSET L
    BY CutsKeep
  <2>3. QED
    BY <1>1, <1>2, <1>4, <2>1, <2>2 DEF Result, L, Texts, Deaf
<1>5. CASE s = "linear"
  <2>1. PICK P \in NewestOf(L, u.stamp, MaxItems) \union OldestOf(L, u.stamp, MaxItems) :
          r = Result(L, P, {}, Latest(P, u.stamp, c))
    BY <1>5 DEF Fetches, Linear, Paged, L
  <2>2. P \in SUBSET L
    BY CutsKeep
  <2>3. QED
    BY <1>1, <1>2, <1>5, <2>1, <2>2 DEF Result, L, Texts, Deaf
<1>6. CASE s = "gdrive"
  <2>1. PICK P \in OldestOf(L, u.stamp, MaxItems) :
          r = Result(L, P \ Mute, {}, Floor(Latest(P \ Mute, u.stamp, c)))
    BY <1>6 DEF Fetches, GDrive, Paged, L
  <2>2. P \in SUBSET L
    BY CutsKeep
  <2>3. P \ Mute \in SUBSET Doc
    BY <1>1, <2>2
  <2>. DEFINE t == Latest(P \ Mute, u.stamp, c)
  <2>4. t \in Nat /\ (t <= c \/ \E d \in Doc : t <= u.stamp[d])
    BY <1>2, <2>3
  <2>. HIDE DEF t
  <2>5. Floor(t) \in Nat /\ Floor(t) <= t
    BY <2>4, FloorBelow
  <2>6. Floor(t) <= c \/ \E d \in Doc : Floor(t) <= u.stamp[d]
    BY <2>4, <2>5
  <2>7. r = Result(L, P \ Mute, {}, Floor(t))
    BY <2>1 DEF t
  <2>8. QED
    BY <1>1, <1>6, <2>2, <2>5, <2>6, <2>7 DEF Result, L, Texts, Deaf
<1>7. CASE s = "imap"
  <2>1. PICK P \in OldestOf(L, u.stamp, MaxItems) :
          \E F \in SUBSET P : r = Result(L, P \ F, F, Latest(P \ F, u.stamp, c))
    BY <1>7 DEF Fetches, Imap, Paged, L
  <2>2. PICK F \in SUBSET P : r = Result(L, P \ F, F, Latest(P \ F, u.stamp, c))
    BY <2>1
  <2>3. P \in SUBSET L /\ P \ F \in SUBSET Doc
    BY <1>1, CutsKeep
  <2>4. QED
    BY <1>1, <1>2, <1>7, <2>2, <2>3 DEF Result, L, Texts, Deaf
<1>8. CASE s \in {"notion", "teams", "zoom", "local"}
  <2>1. L = Exists(u)
    BY <1>8 DEF Listed, L
  <2>2. PICK P \in SUBSET Exists(u) : r = Result(L, IF s = "zoom" THEN P \ Mute ELSE P, {}, 0)
    <3>1. CASE s = "zoom"
      <4>1. PICK P \in Cuts(Exists(u), Min({PageSize, MaxItems})) : r = Result(Exists(u), P \ Mute, {}, 0)
        BY <3>1 DEF Fetches, Zoom, Paged
      <4>2. P \in SUBSET Exists(u)
        BY <4>1 DEF Cuts
      <4>3. QED
        BY <2>1, <3>1, <4>1, <4>2
    <3>2. CASE s \in {"notion", "teams", "local"}
      <4>1. PICK P \in Cuts(Exists(u), MaxItems) : r = Result(Exists(u), P, {}, 0)
        BY <3>2 DEF Fetches, Notion, Teams, Local, OldestOf, Paged
      <4>2. P \in SUBSET Exists(u)
        BY <4>1 DEF Cuts
      <4>3. QED
        BY <2>1, <3>2, <4>1, <4>2
    <3>3. QED
      BY <1>8, <3>1, <3>2
  <2>3. QED
    BY <1>1, <1>8, <2>1, <2>2 DEF Result, L, Texts, Deaf
<1>9. QED
  BY <1>4, <1>5, <1>6, <1>7, <1>8 DEF Source, Paged

-----------------------------------------------------------------------------
(* Versions and stamps. *)

\* No stamp is of the future.
Present == IF source \in Stamped THEN Cardinality(Exists(up)) ELSE clock

\* A stored or fetched version is one that the item has had.
Past(d, v) == v \in Nat /\ v <= version[d]

\* A cursor is no later than some item's stamp.
CursorOK(c) == c \in Nat /\ (c = 0 \/ \E d \in Doc : c <= stamp[d])

\* A fetch of pages has met versions that the items have had.
ReadingOK ==
  /\ reading.open \subseteq Listings(source)
  /\ reading.count \in [Listing -> 0 .. MaxItems]
  /\ \A d \in Doc : Past(d, reading.version[d])
  /\ CursorOK(reading.newest)

\* (As one does at its beginning.)
LEMMA UnreadOK ==
  ASSUME version \in [Doc -> Nat], reading = Unread(Listings(source)) \/ reading = Unread({})
  PROVE  /\ ReadingOK /\ Met = {} /\ reading.newest = 0
         /\ \A l \in Listing : reading.count[l] = 0
         /\ \A d \in Doc : reading.version[d] = 0
<1>1. \A d \in Doc : reading.version[d] = 0 /\ version[d] \in Nat
  BY DEF Unread
<1>2. /\ reading.newest = 0 /\ reading.count = [l \in Listing |-> 0]
      /\ reading.open \subseteq Listings(source)
  BY DEF Unread
<1>3. reading.count \in [Listing -> 0 .. MaxItems]
  BY <1>2, UnitAssumption
<1>4. QED
  BY <1>1, <1>2, <1>3 DEF ReadingOK, Past, CursorOK, Met

\* What makes TypeOK inductive.
TypeInv ==
  /\ source \in Sources /\ clock \in 1 .. MaxClock
  /\ version \in [Doc -> Nat] /\ serial \in [Doc -> Nat] /\ stamp \in [Doc -> Nat]
  /\ \A d \in Doc : /\ version[d] <= MaxEdits /\ serial[d] <= Cardinality(Exists(up))
                    /\ stamp[d] <= Present
  /\ CursorOK(cursor) /\ CursorOK(fetched.cursor)
  /\ DOMAIN hash = Doc /\ DOMAIN extracted = Doc /\ DOMAIN known = Doc
  /\ \A d \in Doc : Past(d, hash[d]) /\ Past(d, extracted[d]) /\ Past(d, known[d])
  /\ pc \in {"idle", "fetching", "fetched", "resolving"}
  /\ ReadingOK
  /\ pc # "fetching" => reading = Unread({})
  /\ pc = "fetching" => source \in Paged
  /\ DOMAIN fetched.docs \subseteq Texts(source)
  /\ \A d \in DOMAIN fetched.docs : Past(d, fetched.docs[d]) /\ fetched.docs[d] > 0
  /\ batch \in Seq(Doc \X Nat)
  /\ \A k \in DOMAIN batch : Past(batch[k][1], batch[k][2]) /\ batch[k][2] > 0
  /\ pc # "fetched" => fetched = Nothing
  /\ pc \in {"idle", "fetching", "fetched"} => batch = <<>>
  /\ due \subseteq Doc
  /\ cut \union left \union slipped \subseteq Doc /\ failures \in 0 .. MaxFailures

\* The items that exist are finitely many.
LEMMA ExistFinite ==
  ASSUME NEW u
  PROVE  IsFiniteSet(Exists(u)) /\ Cardinality(Exists(u)) \in Nat /\ Exists(u) \subseteq Doc
<1>1. Exists(u) \subseteq Doc
  BY DEF Exists
<1>2. QED
  BY <1>1, DocAssumption, FS_Subset, FS_CardinalityType

\* An empty source.
LEMMA TypeInit == Init => TypeInv
<1>1. SUFFICES ASSUME Init PROVE TypeInv
  OBVIOUS
<1>2. /\ source \in Sources /\ clock = 1
      /\ version = [d \in Doc |-> 0] /\ serial = version /\ stamp = version
      /\ hash = version /\ extracted = version /\ known = version
      /\ cursor = 0 /\ pc = "idle" /\ batch = <<>> /\ due = {} /\ cut = {} /\ left = {}
      /\ slipped = {} /\ reading = Unread({}) /\ failures = 0 /\ fetched = [docs |-> <<>>, cursor |-> 0] /\ fetched = Nothing
  BY <1>1 DEF Init, Nothing
<1>3. Present \in Nat /\ Cardinality(Exists(up)) \in Nat
  BY <1>2, ExistFinite DEF Present
<1>4. fetched.cursor = 0 /\ DOMAIN fetched.docs = {}
  BY <1>2
<1>5. DOMAIN batch = {} /\ batch \in Seq(Doc \X Nat)
  BY <1>2
<1>6. ReadingOK
  BY <1>2, UnreadOK
<1>7. QED
  BY <1>2, <1>3, <1>4, <1>5, <1>6, BoundAssumption DEF TypeInv, CursorOK, Past

\* Taken one by one, the versions are no more than the edits.
LEMMA VersionBelowEdits ==
  ASSUME version \in [Doc -> Nat], SumFunction(version) < MaxEdits, NEW d \in Doc
  PROVE  version[d] + 1 <= MaxEdits
<1>1. SumFunction(version) = SumFunctionOnSet(version, Doc)
  BY DEF SumFunction
<1>2. IsFiniteSet(Doc) /\ IsFiniteSet(Doc \ {d})
  BY DocAssumption, FS_Subset
<1>3. /\ SumFunctionOnSet(version, Doc) = version[d] + SumFunctionOnSet(version, Doc \ {d})
      /\ SumFunctionOnSet(version, Doc) \in Nat /\ SumFunctionOnSet(version, Doc \ {d}) \in Nat
  BY <1>2, SumSplit
<1>4. QED
  BY <1>1, <1>3, BoundAssumption

\* Time does not go back, and stands still where the stamps are no times.
LEMMA NowIsLater ==
  ASSUME TypeInv, clock' \in Now
  PROVE  /\ clock' \in 1 .. MaxClock /\ clock \in Nat /\ clock' >= clock
         /\ source \in Stamped => clock' = clock
<1>1. clock \in 1 .. MaxClock /\ clock \in Nat
  BY BoundAssumption DEF TypeInv
<1>2. QED
  BY <1>1, BoundAssumption DEF Now, Dated, Stamped

\* A creation: the new stamp is the newest.
LEMMA CreateIs ==
  ASSUME TypeInv, NEW d \in Doc, Create(d)
  PROVE  /\ Exists(up') = Exists(up) \union {d} /\ d \notin Exists(up)
         /\ Cardinality(Exists(up')) = Cardinality(Exists(up)) + 1
         /\ stamp'[d] = Present' /\ Present' \in Nat
         /\ \A e \in Doc \ {d} : /\ version'[e] = version[e] /\ serial'[e] = serial[e]
                                 /\ stamp'[e] = stamp[e]
         /\ version' \in [Doc -> Nat] /\ serial' \in [Doc -> Nat] /\ stamp' \in [Doc -> Nat]
         /\ version'[d] = 1 /\ version[d] = 0 /\ serial'[d] = Cardinality(Exists(up'))
         /\ Present' >= Present /\ source' = source
         /\ clock' \in 1 .. MaxClock /\ (source \notin Stamped => Present' = clock')
<1>1. /\ version[d] = 0 /\ version' = [version EXCEPT ![d] = 1]
      /\ serial' = [serial EXCEPT ![d] = 1 + Cardinality(Exists(up))]
      /\ stamp' = [stamp EXCEPT ![d] = IF source \in Stamped THEN serial'[d] ELSE clock']
      /\ source' = source
  BY DEF Create
<1>2. /\ version \in [Doc -> Nat] /\ serial \in [Doc -> Nat] /\ stamp \in [Doc -> Nat]
      /\ clock \in Nat /\ clock' \in 1 .. MaxClock /\ clock' >= clock
  BY NowIsLater DEF Create, TypeInv
<1>3. Cardinality(Exists(up)) \in Nat /\ IsFiniteSet(Exists(up))
  BY ExistFinite
<1>4. Exists(up') = Exists(up) \union {d} /\ d \notin Exists(up)
  BY <1>1, <1>2 DEF Exists, up
<1>5. Cardinality(Exists(up')) = Cardinality(Exists(up)) + 1
  BY <1>3, <1>4, FS_AddElement
<1>6. serial'[d] = Cardinality(Exists(up'))
  BY <1>1, <1>2, <1>3, <1>5
<1>7. stamp'[d] = Present'
  BY <1>1, <1>2, <1>6 DEF Present
<1>8. Present' \in Nat /\ Present' >= Present /\ (source \notin Stamped => Present' = clock')
  BY <1>1, <1>2, <1>3, <1>5 DEF Present
<1>9. version' \in [Doc -> Nat] /\ serial' \in [Doc -> Nat] /\ stamp' \in [Doc -> Nat]
  BY <1>1, <1>2, <1>3, <1>7, <1>8
<1>10. QED
  BY <1>1, <1>2, <1>4, <1>5, <1>6, <1>7, <1>8, <1>9

\* An edit: the new stamp is the newest, unless the source keeps the stamp.
LEMMA EditIs ==
  ASSUME TypeInv, NEW d \in Doc, Edit(d)
  PROVE  /\ Exists(up') = Exists(up) /\ d \in Exists(up)
         /\ stamp'[d] = (IF source \in Stamped THEN stamp[d] ELSE Present')
         /\ \A e \in Doc \ {d} : version'[e] = version[e] /\ stamp'[e] = stamp[e]
         /\ version' \in [Doc -> Nat] /\ stamp' \in [Doc -> Nat]
         /\ version'[d] = version[d] + 1 /\ stamp[d] <= stamp'[d]
         /\ Present' \in Nat /\ Present' >= Present /\ UNCHANGED <<source, serial>>
         /\ clock' \in 1 .. MaxClock /\ (source \notin Stamped => Present' = clock')
<1>1. /\ version[d] > 0 /\ version' = [version EXCEPT ![d] = @ + 1]
      /\ stamp' = [stamp EXCEPT ![d] = IF source \in Stamped THEN @ ELSE clock']
      /\ UNCHANGED <<source, serial>>
  BY DEF Edit
<1>2. /\ version \in [Doc -> Nat] /\ stamp \in [Doc -> Nat] /\ clock \in Nat /\ stamp[d] <= Present
      /\ clock' \in 1 .. MaxClock /\ clock' >= clock /\ Cardinality(Exists(up)) \in Nat
  BY NowIsLater, ExistFinite DEF Edit, TypeInv
<1>3. Exists(up') = Exists(up) /\ d \in Exists(up)
  BY <1>1, <1>2 DEF Exists, up
<1>4. Present' \in Nat /\ Present' >= Present /\ (source \notin Stamped => Present' = clock')
  BY <1>1, <1>2, <1>3 DEF Present
<1>5. version' \in [Doc -> Nat] /\ stamp' \in [Doc -> Nat] /\ version'[d] = version[d] + 1
  BY <1>1, <1>2
<1>6. stamp'[d] = (IF source \in Stamped THEN stamp[d] ELSE Present') /\ stamp[d] <= stamp'[d]
  <2>1. CASE source \in Stamped
    BY <1>1, <1>2, <2>1
  <2>2. CASE source \notin Stamped
    <3>1. stamp'[d] = Present' /\ stamp[d] \in Nat /\ Present \in Nat
      BY <1>1, <1>2, <1>4, <2>2 DEF Present
    <3>2. QED
      BY <1>2, <1>4, <2>2, <3>1
  <2>3. QED
    BY <2>1, <2>2
<1>7. QED
  BY <1>1, <1>2, <1>3, <1>4, <1>5, <1>6

\* Moving time on, and a stamp to it, keeps what is later than a cursor or a version.
LEMMA TypeChange ==
  ASSUME TypeInv, NEW d \in Doc, Create(d) \/ Edit(d)
  PROVE  TypeInv'
<1>1. /\ version[d] + 1 <= MaxEdits
      /\ UNCHANGED <<source, rows, run, failures>> /\ clock' \in 1 .. MaxClock
      /\ cut' \subseteq cut /\ left' \subseteq left /\ slipped' \subseteq slipped \union {d}
  <2>1. version[d] + 1 <= MaxEdits
    BY VersionBelowEdits DEF Create, Edit, TypeInv
  <2>2. CASE Create(d)
    BY <2>1, <2>2, CreateIs DEF Create, lost, Slip
  <2>3. CASE Edit(d)
    BY <2>1, <2>3, EditIs DEF Edit, lost, Slip
  <2>4. QED
    BY <2>2, <2>3
<1>2. /\ version' \in [Doc -> Nat] /\ serial' \in [Doc -> Nat] /\ stamp' \in [Doc -> Nat]
      /\ version'[d] = version[d] + 1 /\ Present' \in Nat
      /\ \A e \in Doc : version[e] <= version'[e] /\ stamp[e] <= stamp'[e]
      /\ \A e \in Doc \ {d} : version'[e] = version[e]
      /\ \A e \in Doc : stamp'[e] <= Present' /\ serial'[e] <= Cardinality(Exists(up'))
  <2>1. /\ version \in [Doc -> Nat] /\ serial \in [Doc -> Nat] /\ stamp \in [Doc -> Nat]
        /\ \A e \in Doc : stamp[e] <= Present /\ serial[e] <= Cardinality(Exists(up))
        /\ \A e \in Doc : stamp[e] \in Nat /\ serial[e] \in Nat /\ version[e] \in Nat
    BY DEF TypeInv
  <2>2. Present \in Nat /\ Cardinality(Exists(up)) \in Nat
    BY ExistFinite, BoundAssumption DEF Present, TypeInv
  <2>3. CASE Create(d)
    <3>1. /\ version' \in [Doc -> Nat] /\ serial' \in [Doc -> Nat] /\ stamp' \in [Doc -> Nat]
          /\ version'[d] = 1 /\ version[d] = 0 /\ Present' \in Nat /\ Present' >= Present
          /\ stamp'[d] = Present' /\ serial'[d] = Cardinality(Exists(up'))
          /\ Cardinality(Exists(up')) = Cardinality(Exists(up)) + 1
          /\ \A e \in Doc \ {d} : /\ version'[e] = version[e] /\ serial'[e] = serial[e]
                                  /\ stamp'[e] = stamp[e]
      BY <2>3, CreateIs
    <3>2. ASSUME NEW e \in Doc
          PROVE  /\ version[e] <= version'[e] /\ stamp[e] <= stamp'[e] /\ stamp'[e] <= Present'
                 /\ serial'[e] <= Cardinality(Exists(up'))
      <4>1. CASE e = d
        BY <2>1, <2>2, <3>1, <4>1
      <4>2. CASE e # d
        BY <2>1, <2>2, <3>1, <4>2
      <4>3. QED
        BY <4>1, <4>2
    <3>3. QED
      BY <3>1, <3>2
  <2>4. CASE Edit(d)
    <3>1. /\ Exists(up') = Exists(up) /\ version' \in [Doc -> Nat] /\ stamp' \in [Doc -> Nat]
          /\ version'[d] = version[d] + 1 /\ stamp[d] <= stamp'[d] /\ Present' >= Present
          /\ Present' \in Nat /\ stamp'[d] \in {stamp[d], Present'} /\ serial' = serial
          /\ \A e \in Doc \ {d} : version'[e] = version[e] /\ stamp'[e] = stamp[e]
      BY <2>4, EditIs
    <3>2. ASSUME NEW e \in Doc
          PROVE  /\ version[e] <= version'[e] /\ stamp[e] <= stamp'[e] /\ stamp'[e] <= Present'
                 /\ serial'[e] <= Cardinality(Exists(up'))
      <4>1. CASE e = d
        BY <2>1, <2>2, <3>1, <4>1
      <4>2. CASE e # d
        BY <2>1, <2>2, <3>1, <4>2
      <4>3. QED
        BY <4>1, <4>2
    <3>3. QED
      BY <2>1, <2>2, <3>1, <3>2
  <2>5. QED
    BY <2>3, <2>4
<1>3. \A c : CursorOK(c) => c \in Nat /\ (c = 0 \/ \E e \in Doc : c <= stamp'[e])
  BY <1>2 DEF CursorOK, TypeInv
<1>4. \A e \in Doc : \A v : Past(e, v) => v \in Nat /\ v <= version'[e]
  <2>1. SUFFICES ASSUME NEW e \in Doc, NEW v, Past(e, v) PROVE v \in Nat /\ v <= version'[e]
    OBVIOUS
  <2>2. version[e] \in Nat /\ version'[e] \in Nat /\ version[e] <= version'[e]
    BY <1>2 DEF TypeInv
  <2>3. QED
    BY <2>1, <2>2 DEF Past
<1>5. ReadingOK'
  <2>1. ReadingOK /\ UNCHANGED <<source, reading>>
    BY <1>1 DEF TypeInv, run
  <2>2. QED
    BY <1>3, <1>4, <2>1 DEF ReadingOK, Past, CursorOK
<1>6. CursorOK(cursor)' /\ CursorOK(fetched.cursor)'
  <2>1. CursorOK(cursor) /\ CursorOK(fetched.cursor) /\ UNCHANGED <<cursor, fetched>>
    BY <1>1 DEF TypeInv, rows, run
  <2>2. QED
    BY <1>3, <2>1 DEF CursorOK
<1>7. \A e \in Doc : Past(e, hash[e])' /\ Past(e, extracted[e])' /\ Past(e, known[e])'
  <2>1. /\ UNCHANGED <<hash, extracted, known>>
        /\ \A e \in Doc : Past(e, hash[e]) /\ Past(e, extracted[e]) /\ Past(e, known[e])
    BY <1>1 DEF TypeInv, rows
  <2>2. QED
    BY <1>4, <2>1 DEF Past
<1>8. \A e \in DOMAIN fetched'.docs : Past(e, fetched.docs[e])' /\ fetched'.docs[e] > 0
  <2>1. /\ fetched' = fetched /\ DOMAIN fetched.docs \subseteq Doc
        /\ \A e \in DOMAIN fetched.docs : Past(e, fetched.docs[e]) /\ fetched.docs[e] > 0
    BY <1>1 DEF TypeInv, run, Texts
  <2>2. QED
    BY <1>4, <2>1 DEF Past
<1>9. \A k \in DOMAIN batch' : Past(batch[k][1], batch[k][2])' /\ batch'[k][2] > 0
  <2>1. batch' = batch /\ \A k \in DOMAIN batch : batch[k][1] \in Doc
    BY <1>1 DEF TypeInv, run
  <2>2. \A k \in DOMAIN batch : Past(batch[k][1], batch[k][2]) /\ batch[k][2] > 0
    BY DEF TypeInv
  <2>3. QED
    BY <1>4, <2>1, <2>2 DEF Past
<1>10. \A e \in Doc : version'[e] <= MaxEdits
  BY <1>1, <1>2 DEF TypeInv
<1>11. UNCHANGED <<source, hash, extracted, known, cursor, pc, reading, fetched, batch, due, failures>>
  BY <1>1 DEF rows, run
<1>12. QED
  BY <1>1, <1>2, <1>5, <1>6, <1>7, <1>8, <1>9, <1>10, <1>11 DEF TypeInv

\* An order of a finite set leaves none of its elements out.
LEMMA OrderHasAll ==
  ASSUME NEW S, IsFiniteSet(S), NEW o \in SetToSeqs(S)
  PROVE  /\ DOMAIN o = 1 .. Cardinality(S) /\ Cardinality(S) \in Nat
         /\ \A k \in DOMAIN o : o[k] \in S
         /\ \A x \in S : \E k \in DOMAIN o : o[k] = x
<1>. DEFINE n == Cardinality(S)
<1>1. n \in Nat
  BY FS_CardinalityType
<1>2. o \in [1 .. n -> S] /\ \A i, j \in 1 .. n : i # j => o[i] # o[j]
  BY DEF SetToSeqs
<1>3. Cardinality(1 .. n) = n
  BY <1>1, FS_Interval
<1>4. o \in Injection(1 .. n, S)
  BY <1>2 DEF Injection, IsInjective
<1>5. o \in Surjection(1 .. n, S)
  BY <1>3, <1>4, FS_Injection
<1>6. QED
  BY <1>1, <1>2, <1>5 DEF Surjection

\* The batch is the fetched documents that changed, or all of them.
LEMMA BatchIs ==
  ASSUME DOMAIN fetched.docs \subseteq Doc, \A d \in DOMAIN fetched.docs : fetched.docs[d] \in Nat,
         NEW force \in BOOLEAN, NEW b \in Batches(force)
  PROVE  /\ b \in Seq(Doc \X Nat)
         /\ \A k \in DOMAIN b : /\ b[k][1] \in DOMAIN fetched.docs
                                /\ b[k][2] = fetched.docs[b[k][1]]
         /\ \A d \in DOMAIN fetched.docs : Changed(d) => \E k \in DOMAIN b : b[k][1] = d
<1>. DEFINE taken == {d \in DOMAIN fetched.docs : force \/ Changed(d)}
<1>1. PICK o \in SetToSeqs(taken) : b = [k \in DOMAIN o |-> <<o[k], fetched.docs[o[k]]>>]
  BY DEF Batches
<1>2. IsFiniteSet(taken)
  <2>1. taken \subseteq Doc
    OBVIOUS
  <2>2. QED
    BY <2>1, DocAssumption, FS_Subset
<1>3. /\ DOMAIN o = 1 .. Cardinality(taken) /\ Cardinality(taken) \in Nat
      /\ \A k \in DOMAIN o : o[k] \in taken
      /\ \A x \in taken : \E k \in DOMAIN o : o[k] = x
  <2>. HIDE DEF taken
  <2>1. QED
    BY <1>1, <1>2, OrderHasAll
<1>4. DOMAIN b = DOMAIN o /\ \A k \in DOMAIN b : b[k] = <<o[k], fetched.docs[o[k]]>>
  BY <1>1
<1>5. \A k \in DOMAIN b : o[k] \in DOMAIN fetched.docs /\ o[k] \in Doc /\ fetched.docs[o[k]] \in Nat
  BY <1>3, <1>4
<1>6. b \in Seq(Doc \X Nat)
  <2>1. b \in [1 .. Cardinality(taken) -> Doc \X Nat]
    BY <1>1, <1>3, <1>4, <1>5
  <2>. HIDE DEF taken
  <2>2. QED
    BY <1>3, <2>1
<1>7. ASSUME NEW d \in DOMAIN fetched.docs, Changed(d) PROVE \E k \in DOMAIN b : b[k][1] = d
  <2>1. d \in taken
    BY <1>7
  <2>2. PICK k \in DOMAIN o : o[k] = d
    BY <1>3, <2>1
  <2>3. k \in DOMAIN b /\ b[k][1] = d
    BY <1>4, <2>2
  <2>4. QED
    BY <2>3
<1>8. QED
  BY <1>4, <1>5, <1>6, <1>7

\* The first document of a batch, and the rest.
LEMMA BatchShrinks ==
  ASSUME NEW T, NEW b \in Seq(T), b # <<>>
  PROVE  /\ 1 \in DOMAIN b /\ Head(b) = b[1] /\ Head(b) \in T
         /\ Tail(b) \in Seq(T)
         /\ \A k \in DOMAIN Tail(b) : k + 1 \in DOMAIN b /\ Tail(b)[k] = b[k + 1]
         /\ \A k \in DOMAIN b : k = 1 \/ (k - 1 \in DOMAIN Tail(b) /\ Tail(b)[k - 1] = b[k])
OBVIOUS

\* A fetch takes the items as they are.
LEMMA TypeFetch == TypeInv /\ Fetch => TypeInv'
<1>1. SUFFICES ASSUME TypeInv, Fetch PROVE TypeInv'
  OBVIOUS
<1>2. PICK r \in Fetches(source, up, cursor) :
        /\ r.skipped # {} => failures < MaxFailures
        /\ failures' = IF r.skipped # {} THEN failures + 1 ELSE failures
        /\ fetched' = [docs |-> [d \in r.docs |-> version[d]], cursor |-> r.cursor]
        /\ left' = left \union (r.skipped \ ListedAt(r.cursor))
        /\ cut' = cut \union ((r.listed \intersect Texts(source))
                                \ (r.docs \union r.skipped \union ListedAt(r.cursor)))
  BY <1>1 DEF Fetch
<1>3. pc = "idle" /\ pc' = "fetched" /\ UNCHANGED <<upstream, rows, reading, batch, due, slipped>>
  BY <1>1 DEF Fetch
<1>4. /\ source \in Source \ Paged /\ up.stamp = stamp /\ up.version = version
      /\ stamp \in [Doc -> Nat] /\ version \in [Doc -> Nat] /\ cursor \in Nat
  BY <1>1, SourcesAssumption DEF Fetch, TypeInv, up, CursorOK
<1>5. /\ r.listed = Listed(source, up, cursor)
      /\ r.docs \subseteq r.listed \intersect Texts(source)
      /\ r.skipped \subseteq r.listed /\ r.cursor \in Nat
      /\ r.cursor <= cursor \/ \E d \in Doc : r.cursor <= stamp[d]
  BY <1>4, FetchBrings
<1>6. r.listed \subseteq Exists(up) /\ r.listed \subseteq Doc
  BY <1>4, <1>5, ListedIs
<1>7. CursorOK(r.cursor)
  <2>1. CursorOK(cursor) /\ \A d \in Doc : stamp[d] \in Nat
    BY <1>1, <1>4 DEF TypeInv
  <2>2. QED
    BY <1>4, <1>5, <2>1 DEF CursorOK
<1>8. \A d \in r.docs : d \in Doc /\ version[d] \in Nat /\ version[d] > 0
  BY <1>4, <1>5, <1>6 DEF Exists
<1>9. /\ DOMAIN fetched'.docs = r.docs /\ fetched'.cursor = r.cursor
      /\ \A d \in r.docs : fetched'.docs[d] = version[d]
  BY <1>2
<1>10. up' = up /\ Present' = Present
  BY <1>3 DEF up, Present, upstream
<1>11. failures' \in 0 .. MaxFailures
  BY <1>1, <1>2, BoundAssumption DEF TypeInv
<1>12. cut' \union left' \union slipped' \subseteq Doc
  BY <1>1, <1>2, <1>3, <1>5, <1>6 DEF TypeInv
<1>13. CursorOK(fetched.cursor)' /\ CursorOK(cursor)'
  <2>1. CursorOK(cursor) /\ UNCHANGED <<cursor, stamp>>
    BY <1>1, <1>3 DEF TypeInv, rows, upstream
  <2>2. QED
    BY <1>7, <1>9, <2>1 DEF CursorOK
<1>14. \A d \in DOMAIN fetched'.docs : Past(d, fetched.docs[d])' /\ fetched'.docs[d] > 0
  BY <1>3, <1>8, <1>9 DEF Past, upstream
<1>15. DOMAIN fetched'.docs \subseteq Texts(source)
  BY <1>5, <1>9
<1>16. ReadingOK' /\ reading' = Unread({})
  BY <1>1, <1>3 DEF TypeInv, ReadingOK, Past, CursorOK, upstream
<1>17. QED
  BY <1>1, <1>3, <1>10, <1>11, <1>12, <1>13, <1>14, <1>15, <1>16 DEF TypeInv, Past, rows, upstream

\* What is stored is what was fetched.
LEMMA TypeStore == TypeInv /\ Store => TypeInv'
<1>1. SUFFICES ASSUME TypeInv, Store PROVE TypeInv'
  OBVIOUS
<1>2. PICK force \in Forces :
        batch' \in Batches(force) /\ due' = IF force THEN {d \in Doc : hash'[d] # 0} ELSE {}
  BY <1>1 DEF Store
<1>3. /\ hash' = Upserted(hash) /\ cursor' = fetched.cursor /\ fetched' = Nothing
      /\ pc = "fetched" /\ pc' = "resolving"
      /\ UNCHANGED <<upstream, extracted, known, reading, lost, failures>>
  BY <1>1 DEF Store
<1>4. /\ DOMAIN fetched.docs \subseteq Doc
      /\ \A d \in DOMAIN fetched.docs : Past(d, fetched.docs[d]) /\ fetched.docs[d] > 0
      /\ \A d \in DOMAIN fetched.docs : fetched.docs[d] \in Nat
  BY <1>1 DEF TypeInv, Texts, Past
<1>5. force \in BOOLEAN
  BY SourcesAssumption
<1>6. /\ batch' \in Seq(Doc \X Nat)
      /\ \A k \in DOMAIN batch' : /\ batch'[k][1] \in DOMAIN fetched.docs
                                  /\ batch'[k][2] = fetched.docs[batch'[k][1]]
  BY <1>2, <1>4, <1>5, BatchIs
<1>7. DOMAIN hash' = Doc /\ \A d \in Doc : Past(d, hash'[d])
  BY <1>1, <1>3, <1>4 DEF Upserted, TypeInv
<1>8. up' = up /\ Present' = Present /\ UNCHANGED <<source, clock, version, serial, stamp, cut, left, slipped>>
  BY <1>3 DEF up, Present, upstream, lost
<1>9. CursorOK(cursor)' /\ CursorOK(fetched.cursor)'
  <2>1. CursorOK(fetched.cursor)
    BY <1>1 DEF TypeInv
  <2>2. QED
    BY <1>3, <1>8, <2>1 DEF CursorOK, Nothing
<1>10. \A k \in DOMAIN batch' : Past(batch[k][1], batch[k][2])' /\ batch'[k][2] > 0
  BY <1>4, <1>6, <1>8 DEF Past
<1>11. DOMAIN fetched'.docs = {}
  BY <1>3 DEF Nothing
<1>12. due' \subseteq Doc
  BY <1>2
<1>13. ReadingOK' /\ reading' = Unread({})
  BY <1>1, <1>3, <1>8 DEF TypeInv, ReadingOK, Past, CursorOK
<1>14. QED
  BY <1>1, <1>3, <1>6, <1>7, <1>8, <1>9, <1>10, <1>11, <1>12, <1>13 DEF TypeInv, Past

\* What is resolved was in the batch.
LEMMA TypeResolve == TypeInv /\ Resolve => TypeInv'
<1>1. SUFFICES ASSUME TypeInv, Resolve PROVE TypeInv'
  OBVIOUS
<1>. DEFINE d == Head(batch)[1]
            v == Head(batch)[2]
<1>2. /\ pc = "resolving" /\ batch # <<>> /\ batch' = Tail(batch)
      /\ extracted' = [extracted EXCEPT ![d] = v] /\ known' = [known EXCEPT ![d] = v]
      /\ due' \subseteq due /\ cut' \subseteq cut /\ left' \subseteq left
      /\ slipped' \subseteq slipped
      /\ UNCHANGED <<upstream, hash, cursor, pc, reading, fetched, failures>>
  BY <1>1 DEF Resolve
<1>3. batch \in Seq(Doc \X Nat) /\ \A k \in DOMAIN batch : Past(batch[k][1], batch[k][2]) /\ batch[k][2] > 0
  BY <1>1 DEF TypeInv
<1>4. /\ 1 \in DOMAIN batch /\ Head(batch) = batch[1] /\ Head(batch) \in Doc \X Nat
      /\ Tail(batch) \in Seq(Doc \X Nat)
      /\ \A k \in DOMAIN Tail(batch) : k + 1 \in DOMAIN batch /\ Tail(batch)[k] = batch[k + 1]
  BY <1>2, <1>3, BatchShrinks
<1>5. d \in Doc /\ Past(d, v)
  BY <1>3, <1>4
<1>. HIDE DEF d, v
<1>6. \A e \in Doc : Past(e, extracted'[e]) /\ Past(e, known'[e])
  BY <1>1, <1>2, <1>5 DEF TypeInv
<1>7. \A k \in DOMAIN batch' : Past(batch'[k][1], batch'[k][2]) /\ batch'[k][2] > 0
  BY <1>2, <1>3, <1>4
<1>8. up' = up /\ Present' = Present /\ UNCHANGED <<source, clock, version, serial, stamp>>
  BY <1>2 DEF up, Present, upstream
<1>9. ReadingOK'
  BY <1>1, <1>2, <1>8 DEF TypeInv, ReadingOK, Past, CursorOK
<1>10. QED
  BY <1>1, <1>2, <1>4, <1>6, <1>7, <1>8, <1>9 DEF TypeInv, Past, CursorOK

\* The same after a step.
LEMMA UnreadAgain ==
  ASSUME version' \in [Doc -> Nat],
         reading' = Unread(Listings(source'))  \/ reading' = Unread({})
  PROVE  /\ ReadingOK' /\ Met' = {} /\ reading'.newest = 0
         /\ \A l \in Listing : reading'.count[l] = 0
         /\ \A d \in Doc : reading'.version[d] = 0
<1>1. \A d \in Doc : reading'.version[d] = 0 /\ version'[d] \in Nat
  BY DEF Unread
<1>2. /\ reading'.newest = 0 /\ reading'.count = [l \in Listing |-> 0]
      /\ reading'.open \subseteq Listings(source')
  BY DEF Unread
<1>3. reading'.count \in [Listing -> 0 .. MaxItems]
  BY <1>2, UnitAssumption
<1>4. QED
  BY <1>1, <1>2, <1>3 DEF ReadingOK, Past, CursorOK, Met

Newer(P, key, t) == Max({t} \union {key[d] : d \in P})

\* The newest of a time and some stamps is one of them.
LEMMA NewestIsOne ==
  ASSUME NEW P \in SUBSET Doc, NEW key \in [Doc -> Nat], NEW t \in Nat
  PROVE  /\ Newer(P, key, t) \in Nat
         /\ Newer(P, key, t) = t \/ \E d \in P : Newer(P, key, t) = key[d]
         /\ t <= Newer(P, key, t) /\ \A d \in P : key[d] <= Newer(P, key, t)
<1>. DEFINE m == Newer(P, key, t)
            S == {key[d] : d \in P}
            T == {t} \union S
            f == [d \in P |-> key[d]]
<1>1. IsFiniteSet(P)
  BY DocAssumption, FS_Subset
<1>2. f \in Surjection(P, S)
  BY DEF Surjection
<1>3. IsFiniteSet(S) /\ S \in SUBSET Nat
  <2>1. IsFiniteSet(S)
    BY <1>1, <1>2, FS_Surjection
  <2>2. QED
    BY <2>1
<1>4. IsFiniteSet(T) /\ T \in SUBSET Nat /\ t \in T /\ \A d \in P : key[d] \in T
  <2>1. T = S \union {t}
    OBVIOUS
  <2>2. IsFiniteSet(T)
    <3>. HIDE DEF S
    <3>1. QED
      BY <1>3, <2>1, FS_AddElement
  <2>3. QED
    BY <1>3, <2>2
<1>5. m \in T /\ \A x \in T : x <= m
  <2>1. m = Max(T)
    BY DEF Newer
  <2>. HIDE DEF T, m
  <2>2. QED
    BY <1>4, <2>1, MaxIsGreatest
<1>. HIDE DEF m, T
<1>6. m \in Nat
  BY <1>4, <1>5
<1>7. m = t \/ \E d \in P : m = key[d]
  BY <1>5 DEF T
<1>8. QED
  BY <1>4, <1>5, <1>6, <1>7 DEF m

\* The smaller of two numbers.
LEMMA MinOfTwo ==
  ASSUME NEW a \in Nat, NEW b \in Nat
  PROVE  Min({a, b}) \in {a, b} /\ Min({a, b}) <= a /\ Min({a, b}) <= b
<1>1. \E x \in {a, b} : \A y \in {a, b} : x <= y
  <2>1. CASE a <= b
    BY <2>1
  <2>2. CASE ~(a <= b)
    BY <2>2
  <2>3. QED
    BY <2>1, <2>2
<1>2. QED
  BY <1>1 DEF Min

\* The front of a listing is all of it or n items; of a search, the oldest.
IsFront(l, u, S, n, P) ==
         /\ P \in SUBSET S /\ IsFiniteSet(S) /\ Cardinality(S) \in Nat
         /\ Cardinality(S) <= n => P = S
         /\ P = S \/ Cardinality(P) = n
         /\ Cardinality(P) \in Nat /\ Cardinality(P) <= n
         /\ l = "search" => \A d \in P, e \in S \ P : u.stamp[d] <= u.stamp[e]

\* (This it is.)
LEMMA FrontIs ==
  ASSUME NEW l \in Listing, NEW u, NEW S \in SUBSET Doc, NEW n \in Nat,
         NEW P \in Fronts(l, u, S, n)
  PROVE  IsFront(l, u, S, n, P)
<1>1. IsFiniteSet(S) /\ Cardinality(S) \in Nat
  BY DocAssumption, FS_Subset, FS_CardinalityType
<1>2. P \in NewestOf(S, u.stamp, n) \/ P \in NewestOf(S, u.serial, n) \/ P \in OldestOf(S, u.stamp, n)
  BY DEF Fronts, Listing
<1>3. /\ P \in SUBSET S
      /\ Cardinality(S) <= n => P = S
      /\ ~(Cardinality(S) <= n) => Cardinality(P) = n
  BY <1>2, CutsKeep
<1>4. l = "search" => P \in OldestOf(S, u.stamp, n)
  BY DEF Fronts
<1>5. QED
  BY <1>1, <1>3, <1>4 DEF OldestOf, IsFront

\* After its last page a listing has been read to its end.
LEMMA LastIsLast ==
  ASSUME NEW s \in Source, NEW l \in Listing, NEW u, u.stamp \in [Doc -> Nat], NEW c \in Nat,
         NEW n \in Nat, LastPage(s, l, u, Standing(s, l, u, c), n)
  PROVE  Cardinality(Standing(s, l, u, c)) <= n
<1>. DEFINE S == Standing(s, l, u, c)
<1>1. S \subseteq Exists(u) /\ (l = "pulls" => S \subseteq Exists(u) \ Issue)
  BY ListedIs DEF Standing
<1>2. IsFiniteSet(S) /\ Cardinality(S) \in Nat
  BY <1>1, DocAssumption, FS_Subset, FS_CardinalityType DEF Exists
<1>3. CASE l = "pulls" /\ Cardinality(Exists(u) \ Issue) <= n
  <2>1. IsFiniteSet(Exists(u) \ Issue)
    BY DocAssumption, FS_Subset DEF Exists
  <2>2. Cardinality(S) <= Cardinality(Exists(u) \ Issue) /\ Cardinality(Exists(u) \ Issue) \in Nat
    BY <1>1, <1>3, <2>1, FS_Subset, FS_CardinalityType
  <2>3. QED
    BY <1>2, <1>3, <2>2
<1>4. CASE Cardinality(S) < n \/ Cardinality(S) = n
  BY <1>2, <1>4
<1>5. QED
  BY <1>3, <1>4 DEF LastPage

\* What reading the items of upto that are not in before does.
IsPage(l, before, upto) ==
  LET page == (upto \ before) \intersect Of(l)
      late == {d \in before \intersect Of(l) : reading.version[d] # version[d]}
  IN  /\ reading'.open \in {reading.open, reading.open \ {l}}
      /\ reading'.count = [reading.count EXCEPT ![l] = Cardinality(upto)]
      /\ reading'.version = [d \in Doc |-> IF d \in page THEN version[d] ELSE reading.version[d]]
      /\ reading'.newest = Newer(page, stamp, reading.newest)
      /\ slipped' = (slipped \union late) \ page

\* A request brings a page of its listing; the listing stays open unless the page
\* was the last one or brought it to max_items.
LEMMA PageIs ==
  ASSUME TypeInv, NEW l \in Listing, ReadPage(l)
  PROVE  \E before, upto \in SUBSET Standing(source, l, up, cursor) :
           /\ IsPage(l, before, upto)
           /\ Cardinality(upto) \in 0 .. MaxItems
           /\ l = "search" =>
                \A d \in upto, e \in Standing(source, l, up, cursor) \ upto : stamp[d] <= stamp[e]
           /\ l \notin reading'.open =>
                upto = Standing(source, l, up, cursor) \/ Cardinality(upto) = MaxItems
           /\ Cardinality(upto) = 0 => l \notin reading'.open
<1>. DEFINE S == Standing(source, l, up, cursor)
            n == reading.count[l] + PageSize
            stop == Min({n, MaxItems})
            last == LastPage(source, l, up, S, n)
<1>1. /\ source \in Source /\ up.stamp = stamp /\ stamp \in [Doc -> Nat] /\ cursor \in Nat
      /\ reading.count[l] \in Nat
  BY SourcesAssumption DEF TypeInv, up, CursorOK, ReadingOK
<1>2. S \in SUBSET Doc
  BY <1>1, ListedIs DEF Standing
<1>3. n \in Nat /\ MaxItems \in Nat /\ n > 0 /\ MaxItems > 0
  BY <1>1, UnitAssumption
<1>4. stop \in Nat /\ stop > 0 /\ stop <= n /\ stop <= MaxItems /\ stop \in {n, MaxItems}
  <2>. HIDE DEF n
  <2>1. QED
    BY <1>3, MinOfTwo
<1>5. \A P \in Fronts(l, up, S, stop) : P \in SUBSET S
  <2>. HIDE DEF S, stop
  <2>1. QED
    BY <1>2, <1>4, FrontIs DEF IsFront
<1>6. PICK p \in Pages(l, S) :
        LET page == (p.upto \ p.before) \intersect Of(l)
            late == {d \in p.before \intersect Of(l) : reading.version[d] # version[d]}
        IN  /\ reading' =
                 [open    |-> IF last \/ Cardinality(p.upto) = MaxItems THEN reading.open \ {l} ELSE reading.open,
                  count   |-> [reading.count EXCEPT ![l] = Cardinality(p.upto)],
                  version |-> [d \in Doc |-> IF d \in page THEN version[d] ELSE reading.version[d]],
                  newest  |-> Max({reading.newest} \union {stamp[d] : d \in page})]
            /\ slipped' = (slipped \union late) \ page
  BY DEF ReadPage
<1>7. /\ p.upto \in Fronts(l, up, S, stop) /\ p.before \subseteq p.upto
  <2>. HIDE DEF S
  <2>1. QED
    BY <1>6 DEF Pages
<1>. DEFINE before == p.before
            upto == p.upto
<1>8. IsPage(l, before, upto) /\ ((last \/ Cardinality(upto) = MaxItems) <=> l \notin reading'.open)
  <2>1. l \in reading.open
    BY DEF ReadPage
  <2>2. reading'.open = IF last \/ Cardinality(upto) = MaxItems THEN reading.open \ {l} ELSE reading.open
    BY <1>6
  <2>3. QED
    BY <1>6, <2>1, <2>2 DEF IsPage, Newer
<1>. HIDE DEF S, n, stop, last, before, upto
<1>9. /\ upto \in SUBSET S /\ IsFiniteSet(S) /\ Cardinality(S) \in Nat
      /\ Cardinality(S) <= stop => upto = S
      /\ upto = S \/ Cardinality(upto) = stop
      /\ Cardinality(upto) \in Nat /\ Cardinality(upto) <= stop
      /\ l = "search" => \A d \in upto, e \in S \ upto : stamp[d] <= stamp[e]
  <2>1. upto \in Fronts(l, up, S, stop)
    BY <1>7 DEF upto
  <2>2. IsFront(l, up, S, stop, upto)
    BY <1>2, <1>4, <2>1, FrontIs
  <2>3. QED
    BY <1>1, <2>2 DEF IsFront
<1>10. last => Cardinality(S) <= n
  BY <1>1, <1>3, LastIsLast DEF last, S
<1>11. l \notin reading'.open => upto = S \/ Cardinality(upto) = MaxItems
  BY <1>3, <1>4, <1>7, <1>8, <1>9, <1>10 DEF upto
<1>12. Cardinality(upto) = 0 => l \notin reading'.open
  <2>1. Cardinality(S) < n => last
    BY DEF LastPage, last
  <2>2. QED
    BY <1>3, <1>4, <1>7, <1>8, <1>9, <2>1 DEF upto
<1>13. before \in SUBSET S
  BY <1>7, <1>9 DEF before, upto
<1>14. Cardinality(upto) \in 0 .. MaxItems
  BY <1>3, <1>4, <1>9
<1>15. QED
  BY <1>8, <1>9, <1>11, <1>12, <1>13, <1>14 DEF S

\* Pages bring the items as they are, and their stamps.
LEMMA TypePaging == TypeInv /\ Paging => TypeInv'
<1>1. SUFFICES ASSUME TypeInv, Paging PROVE TypeInv'
  OBVIOUS
<1>2. /\ version \in [Doc -> Nat] /\ stamp \in [Doc -> Nat] /\ ReadingOK
      /\ CursorOK(cursor) /\ CursorOK(reading.newest) /\ reading.newest \in Nat
      /\ \A d \in Doc : version[d] \in Nat /\ Past(d, reading.version[d])
  BY <1>1 DEF TypeInv, ReadingOK, CursorOK
<1>3. /\ UNCHANGED <<upstream, rows, batch, due, failures, left>> /\ up' = up
      /\ Present' = Present
  BY <1>1 DEF Paging, StartPaging, ReadPage, Collect, up, Present, upstream, lost
<1>4. CASE StartPaging
  <2>1. /\ reading' = Unread(Listings(source')) /\ pc = "idle" /\ pc' = "fetching"
        /\ source \in Paged /\ UNCHANGED <<fetched, lost>>
    BY <1>3, <1>4 DEF StartPaging, upstream
  <2>2. ReadingOK'
    BY <1>2, <1>3, <2>1, UnreadAgain DEF upstream
  <2>3. QED
    BY <1>1, <1>3, <2>1, <2>2 DEF TypeInv, Past, CursorOK, upstream, rows, lost
<1>5. ASSUME NEW l \in Listing, ReadPage(l) PROVE TypeInv'
  <2>1. PICK before, upto \in SUBSET Standing(source, l, up, cursor) :
          IsPage(l, before, upto) /\ Cardinality(upto) \in 0 .. MaxItems
    BY <1>1, <1>5, PageIs
  <2>. DEFINE page == (upto \ before) \intersect Of(l)
  <2>2. page \in SUBSET Doc /\ Of(l) \in SUBSET Doc
    BY DocAssumption DEF Of, Listing
  <2>3. /\ reading'.open \in {reading.open, reading.open \ {l}}
        /\ reading'.count = [reading.count EXCEPT ![l] = Cardinality(upto)]
        /\ \A d \in Doc : reading'.version[d] \in {version[d], reading.version[d]}
        /\ reading'.newest = Newer(page, stamp, reading.newest)
        /\ slipped' \subseteq slipped \union Doc
    BY <2>1, <2>2 DEF IsPage
  <2>. HIDE DEF page
  <2>4. /\ reading'.newest \in Nat
        /\ reading'.newest = reading.newest \/ \E d \in page : reading'.newest = stamp[d]
    BY <1>2, <2>2, <2>3, NewestIsOne
  <2>5. CursorOK(reading.newest)'
    <3>1. CASE reading'.newest = reading.newest
      BY <1>2, <1>3, <3>1 DEF CursorOK, upstream
    <3>2. ASSUME NEW d \in page, reading'.newest = stamp[d] PROVE CursorOK(reading.newest)'
      BY <1>2, <1>3, <2>2, <2>4, <3>2 DEF CursorOK, upstream
    <3>3. QED
      BY <2>4, <3>1, <3>2
  <2>6. ReadingOK'
    <3>1. reading'.open \subseteq Listings(source')
      BY <1>2, <1>3, <2>3 DEF ReadingOK, upstream
    <3>2. reading'.count \in [Listing -> 0 .. MaxItems]
      BY <1>2, <2>1, <2>3 DEF ReadingOK
    <3>3. \A d \in Doc : Past(d, reading.version[d])'
      BY <1>2, <1>3, <2>3 DEF Past, upstream
    <3>4. QED
      BY <2>5, <3>1, <3>2, <3>3 DEF ReadingOK
  <2>7. pc = "fetching" /\ UNCHANGED <<pc, fetched, cut>>
    BY <1>5 DEF ReadPage
  <2>8. QED
    BY <1>1, <1>3, <2>3, <2>6, <2>7 DEF TypeInv, Past, CursorOK, upstream, rows
<1>6. CASE Collect
  <2>. DEFINE new == IF Met = {} THEN cursor ELSE reading.newest
  <2>1. /\ pc = "fetching" /\ pc' = "fetched" /\ reading' = Unread({}) /\ slipped' = slipped
        /\ fetched' = [docs |-> [d \in Met |-> reading.version[d]], cursor |-> new]
        /\ cut' \subseteq cut \union ListedAt(cursor)
    BY <1>6 DEF Collect
  <2>2. source \in Paged /\ source \in Source /\ up.stamp = stamp /\ cursor \in Nat
    BY <1>1, <2>1, SourcesAssumption DEF TypeInv, up, CursorOK
  <2>3. ListedAt(cursor) \subseteq Doc
    BY <1>2, <2>2, ListedIs DEF ListedAt
  <2>4. new \in Nat /\ (new = 0 \/ \E d \in Doc : new <= stamp'[d])
    BY <1>2, <1>3 DEF CursorOK, upstream
  <2>5. /\ DOMAIN fetched'.docs = Met /\ fetched'.cursor = new
        /\ \A d \in Met : fetched'.docs[d] = reading.version[d]
    BY <2>1
  <2>6. \A d \in DOMAIN fetched'.docs : Past(d, fetched.docs[d])' /\ fetched'.docs[d] > 0
    BY <1>2, <1>3, <2>5 DEF Met, Past, upstream
  <2>7. DOMAIN fetched'.docs \subseteq Texts(source')
    BY <1>3, <2>2, <2>5 DEF Met, Texts, Deaf, Paged, upstream
  <2>8. ReadingOK'
    BY <1>2, <1>3, <2>1, UnreadAgain DEF upstream
  <2>9. CursorOK(fetched.cursor)' /\ CursorOK(cursor)'
    BY <1>2, <1>3, <2>4, <2>5 DEF CursorOK, upstream, rows
  <2>10. cut' \union left' \union slipped' \subseteq Doc
    BY <1>1, <1>3, <2>1, <2>3 DEF TypeInv
  <2>. HIDE DEF new
  <2>11. QED
    BY <1>1, <1>3, <2>1, <2>6, <2>7, <2>8, <2>9, <2>10 DEF TypeInv, Past, upstream, rows
<1>7. QED
  BY <1>1, <1>4, <1>5, <1>6 DEF Paging

\* The invariant, step by step.
LEMMA TypeStep == TypeInv /\ [Next]_vars => TypeInv'
<1>1. SUFFICES ASSUME TypeInv, [Next]_vars PROVE TypeInv'
  OBVIOUS
<1>2. CASE Paging
  BY <1>1, <1>2, TypePaging
<1>3. ASSUME NEW d \in Doc, Create(d) \/ Edit(d) PROVE TypeInv'
  BY <1>1, <1>3, TypeChange
<1>4. ASSUME NEW d \in Doc, NEW v \in Version, Deliver(d, v) PROVE TypeInv'
  <2>1. /\ hash' = [hash EXCEPT ![d] = v]
        /\ UNCHANGED <<upstream, extracted, cursor, known, run, lost, failures>>
    BY <1>4 DEF Deliver
  <2>2. Past(d, v)
    <3>1. v \in 1 .. version[d] /\ version[d] \in Nat
      BY <1>1, <1>4 DEF TypeInv, Deliver
    <3>2. QED
      BY <3>1 DEF Past
  <2>3. DOMAIN hash' = Doc /\ \A e \in Doc : Past(e, hash'[e])
    BY <1>1, <2>1, <2>2 DEF TypeInv
  <2>4. up' = up /\ Present' = Present
    BY <2>1 DEF up, Present, upstream
  <2>5. ReadingOK'
    BY <1>1, <2>1 DEF TypeInv, ReadingOK, Past, CursorOK, upstream, run
  <2>6. QED
    BY <1>1, <2>1, <2>3, <2>4, <2>5 DEF TypeInv, Past, CursorOK, upstream, run, lost
<1>5. CASE Fetch
  BY <1>1, <1>5, TypeFetch
<1>6. CASE Store
  BY <1>1, <1>6, TypeStore
<1>7. CASE Resolve
  BY <1>1, <1>7, TypeResolve
<1>8. CASE Finish
  <2>1. /\ pc = "resolving" /\ pc' = "idle" /\ batch = <<>> /\ due' = {}
        /\ UNCHANGED <<upstream, rows, reading, fetched, batch, lost, failures>>
    BY <1>8 DEF Finish
  <2>2. up' = up /\ Present' = Present
    BY <2>1 DEF up, Present, upstream
  <2>3. ReadingOK'
    BY <1>1, <2>1 DEF TypeInv, ReadingOK, Past, CursorOK, upstream
  <2>4. QED
    BY <1>1, <2>1, <2>2, <2>3 DEF TypeInv, Past, CursorOK, upstream, rows, lost
<1>9. CASE Fail
  <2>1. /\ pc' = "idle" /\ failures < MaxFailures /\ failures' = failures + 1 /\ due' = {}
        /\ left' = left \union {batch[k][1] : k \in DOMAIN batch}
        /\ reading' = Unread({}) /\ fetched' = Nothing /\ batch' = <<>>
        /\ UNCHANGED <<upstream, rows, cut, slipped>>
    BY <1>9 DEF Fail
  <2>2. up' = up /\ Present' = Present
    BY <2>1 DEF up, Present, upstream
  <2>3. cut' \union left' \union slipped' \subseteq Doc /\ failures' \in 0 .. MaxFailures
    BY <1>1, <2>1, BoundAssumption DEF TypeInv
  <2>4. /\ fetched'.cursor = 0 /\ DOMAIN fetched'.docs = {} /\ DOMAIN batch' = {}
        /\ batch' \in Seq(Doc \X Nat)
    BY <2>1 DEF Nothing
  <2>5. UNCHANGED <<source, clock, version, serial, stamp, hash, extracted, known, cursor>>
    BY <2>1 DEF upstream, rows
  <2>6. CursorOK(cursor)' /\ CursorOK(fetched.cursor)'
    BY <1>1, <2>4, <2>5 DEF TypeInv, CursorOK
  <2>7. \A d \in Doc : Past(d, hash[d])' /\ Past(d, extracted[d])' /\ Past(d, known[d])'
    BY <1>1, <2>5 DEF TypeInv, Past
  <2>8. ReadingOK'
    <3>1. version' \in [Doc -> Nat]
      BY <1>1, <2>5 DEF TypeInv
    <3>2. QED
      BY <2>1, <3>1, UnreadAgain
  <2>9. QED
    BY <1>1, <2>1, <2>2, <2>3, <2>4, <2>5, <2>6, <2>7, <2>8 DEF TypeInv
<1>10. CASE UNCHANGED vars
  <2>1. up' = up /\ Present' = Present
    BY <1>10 DEF up, Present, vars, upstream
  <2>2. ReadingOK'
    BY <1>1, <1>10 DEF TypeInv, ReadingOK, Past, CursorOK, vars, upstream, run
  <2>3. QED
    BY <1>1, <1>10, <2>1, <2>2 DEF TypeInv, Past, CursorOK, vars, upstream, rows, run, lost
<1>11. QED
  BY <1>1, <1>2, <1>3, <1>4, <1>5, <1>6, <1>7, <1>8, <1>9, <1>10 DEF Next, Pipeline

\* Every row speaks of a version the source has had, a cursor is a stamp that has
\* been, and between two runs nothing is left in the pipeline's hands.
THEOREM IngestionTypeCorrect == Spec => []TypeOK
<1>1. ASSUME TypeInv PROVE TypeOK
  <2>1. Cardinality(Exists(up)) \in Nat /\ clock \in Nat
    BY <1>1, ExistFinite, BoundAssumption DEF TypeInv
  <2>2. /\ \A d \in Doc : version[d] \in Version /\ serial[d] \in 0 .. Cardinality(Exists(up))
        /\ version \in [Doc -> Version] /\ serial \in [Doc -> 0 .. Cardinality(Exists(up))]
    BY <1>1, <2>1, BoundAssumption DEF TypeInv, Version
  <2>3. stamp \in [Doc -> 0 .. Max({clock, Cardinality(Exists(up))})]
    <3>. DEFINE S == {clock, Cardinality(Exists(up))}
    <3>1. S \in SUBSET Nat /\ S # {} /\ IsFiniteSet(S)
      <4>1. IsFiniteSet({clock}) /\ S = {clock} \union {Cardinality(Exists(up))}
        BY FS_Singleton
      <4>2. IsFiniteSet(S)
        BY <4>1, FS_AddElement
      <4>3. QED
        BY <2>1, <4>2
    <3>2. Max(S) \in S /\ \A n \in S : n <= Max(S)
      <4>. HIDE DEF S
      <4>1. QED
        BY <3>1, MaxIsGreatest
    <3>3. Max(S) \in Nat /\ Present <= Max(S) /\ Present \in Nat
      BY <2>1, <3>1, <3>2 DEF Present
    <3>. HIDE DEF S
    <3>4. \A d \in Doc : stamp[d] \in 0 .. Max(S)
      BY <1>1, <3>3 DEF TypeInv
    <3>5. stamp \in [Doc -> 0 .. Max(S)]
      BY <1>1, <3>4 DEF TypeInv
    <3>6. QED
      BY <3>5 DEF S
  <2>4. ASSUME NEW c, CursorOK(c) PROVE c \in {0} \union 0 .. Max({stamp[d] : d \in Doc})
    <3>1. CASE c = 0
      BY <3>1
    <3>2. CASE c # 0
      <4>1. PICK d \in Doc : c <= stamp[d]
        BY <2>4, <3>2 DEF CursorOK
      <4>. DEFINE m == Latest(Doc, stamp, 0)
      <4>2. m \in Nat /\ stamp[d] <= m /\ stamp[d] \in Nat
        BY <1>1, LatestIsOne DEF TypeInv
      <4>3. m = Max({stamp[x] : x \in Doc})
        BY <4>1 DEF Latest
      <4>. HIDE DEF m
      <4>4. c \in 0 .. m
        BY <2>4, <4>1, <4>2 DEF CursorOK
      <4>5. QED
        BY <4>3, <4>4
    <3>3. QED
      BY <3>1, <3>2
  <2>5. {cursor, fetched.cursor, reading.newest} \subseteq {0} \union 0 .. Max({stamp[d] : d \in Doc})
    BY <1>1, <2>4 DEF TypeInv, ReadingOK
  <2>6. /\ \A l \in Listing : reading.count[l] \in 0 .. MaxItems
        /\ \A d \in Doc : reading.version[d] \in 0 .. version[d]
        /\ reading.open \subseteq Listings(source)
    <3>1. ReadingOK /\ version \in [Doc -> Nat]
      BY <1>1 DEF TypeInv
    <3>2. QED
      BY <3>1 DEF ReadingOK, Past
  <2>7. \A d \in Doc : {hash[d], extracted[d], known[d]} \subseteq 0 .. version[d]
    BY <1>1 DEF TypeInv, Past
  <2>8. batch \in Seq(Doc \X Version)
    <3>1. batch \in Seq(Doc \X Nat)
      BY <1>1 DEF TypeInv
    <3>2. ASSUME NEW k \in 1 .. Len(batch) PROVE batch[k] \in Doc \X Version
      <4>1. /\ batch[k] \in Doc \X Nat /\ Past(batch[k][1], batch[k][2])
            /\ version[batch[k][1]] \in Version
        BY <1>1, <2>2, <3>1 DEF TypeInv
      <4>2. batch[k][2] \in Version
        BY <4>1, BoundAssumption DEF Past, Version
      <4>3. QED
        BY <4>1, <4>2
    <3>3. QED
      BY <3>1, <3>2
  <2>9. QED
    BY <1>1, <2>2, <2>3, <2>5, <2>6, <2>7, <2>8 DEF TypeInv, TypeOK
<1>2. QED
  BY <1>1, TypeInit, TypeStep, PTL DEF Spec

-----------------------------------------------------------------------------
(* No item is passed over. *)

\* A version in the pipeline's hands is the newest, or the item is listed for c or
\* has slipped.
Current(d, v, c) ==
  v > 0 /\ (source \in Stamped \/ v = version[d] \/ d \in ListedAt(c) \/ d \in slipped)

\* Where each item is that the runs have to account for: listed again by the next
\* fetch, in the graph, or in the hands of the run.
AccountInv ==
  /\ pc \in {"idle", "fetching", "fetched"} => \A d \in Owed : d \in ListedAt(cursor) \/ Settled(d)
  /\ pc = "fetched" => \A d \in Owed :
       d \in ListedAt(fetched.cursor) \/ Settled(d) \/ d \in DOMAIN fetched.docs
  /\ \A d \in DOMAIN fetched.docs : Current(d, fetched.docs[d], fetched.cursor)
  /\ pc = "resolving" => \A d \in Owed :
       d \in ListedAt(cursor) \/ Settled(d) \/ \E k \in DOMAIN batch : batch[k][1] = d
  /\ \A k \in DOMAIN batch : Current(batch[k][1], batch[k][2], cursor)
  /\ \A j, k \in DOMAIN batch : batch[j][1] = batch[k][1] => batch[j][2] = batch[k][2]

\* What a query asks of one item.
LEMMA ListedOne ==
  ASSUME NEW s \in Source, NEW u, NEW w, u.stamp \in [Doc -> Nat], w.stamp \in [Doc -> Nat],
         NEW c \in Nat, NEW d \in Doc, u.stamp[d] = w.stamp[d],
         u.version[d] > 0 <=> w.version[d] > 0
  PROVE  d \in Listed(s, u, c) <=> d \in Listed(s, w, c)
<1>1. d \in Exists(u) <=> d \in Exists(w)
  BY DEF Exists
<1>2. QED
  BY <1>1 DEF Listed, Source, Since, After

\* A query lists an item that is created or edited, and says of the others what it
\* said: no listing for the cursor is so late that it would miss a new stamp.
LEMMA ChangeListed ==
  ASSUME TypeInv, NEW d \in Doc, Create(d) \/ Edit(d),
         NEW c, CursorOK(c), source \in Fine => c < clock'
  PROVE  /\ \A e \in Doc \ {d} : e \in Listed(source, up, c) <=> e \in Listed(source, up', c)
         /\ source \notin Stamped \/ Create(d) => d \in Listed(source, up', c)
         /\ source \in Stamped /\ Edit(d) =>
              (d \in Listed(source, up, c) <=> d \in Listed(source, up', c))
<1>1. /\ source \in Source /\ c \in Nat /\ up.stamp = stamp /\ up'.stamp = stamp'
      /\ up.version = version /\ up'.version = version'
      /\ stamp \in [Doc -> Nat] /\ version \in [Doc -> Nat] /\ clock \in Nat
  BY SourcesAssumption, BoundAssumption DEF TypeInv, CursorOK, up
<1>2. /\ stamp' \in [Doc -> Nat] /\ d \in Exists(up') /\ source' = source /\ clock' \in Nat
      /\ Present' \in Nat /\ Present' >= Present /\ (source \notin Stamped => Present' = clock')
      /\ version'[d] \in Nat /\ version'[d] > 0
      /\ \A e \in Doc \ {d} : version'[e] = version[e] /\ stamp'[e] = stamp[e]
  <2>1. CASE Create(d)
    BY <2>1, CreateIs, BoundAssumption
  <2>2. CASE Edit(d)
    BY <1>1, <2>2, EditIs, BoundAssumption
  <2>3. QED
    BY <2>1, <2>2
<1>3. \A e \in Doc \ {d} : e \in Listed(source, up, c) <=> e \in Listed(source, up', c)
  BY <1>1, <1>2, ListedOne
<1>4. Present \in Nat /\ c <= Present /\ c <= Present'
  <2>1. Present \in Nat
    BY <1>1, ExistFinite DEF Present
  <2>2. \A e \in Doc : stamp[e] \in Nat /\ stamp[e] <= Present
    BY <1>1 DEF TypeInv
  <2>3. QED
    BY <1>1, <1>2, <2>1, <2>2 DEF CursorOK
<1>5. ASSUME source \notin Stamped \/ Create(d) PROVE d \in Listed(source, up', c)
  <2>1. CASE source \notin Stamped
    <3>1. stamp'[d] = clock'
      BY <2>1, <1>1 DEF Create, Edit
    <3>2. source \notin {"slack", "linear", "gdrive", "imap"} \/ stamp'[d] > c
      BY <1>1, <1>2, <2>1, <3>1 DEF Fine, Stamped
    <3>3. stamp'[d] >= c
      BY <1>1, <1>2, <1>4, <2>1, <3>1
    <3>4. QED
      BY <1>1, <1>2, <3>2, <3>3, ListedIs
  <2>2. CASE source \in Stamped /\ Create(d)
    <3>1. stamp'[d] = Cardinality(Exists(up)) + 1
      BY <1>2, <2>2, CreateIs DEF Present
    <3>2. stamp'[d] > c
      BY <1>1, <1>4, <2>2, <3>1 DEF Present
    <3>3. QED
      BY <1>1, <1>2, <3>2, ListedIs
  <2>3. QED
    BY <1>5, <2>1, <2>2
<1>6. ASSUME source \in Stamped, Edit(d)
      PROVE  d \in Listed(source, up, c) <=> d \in Listed(source, up', c)
  <2>1. stamp'[d] = stamp[d] /\ version[d] > 0
    BY <1>1, <1>6, EditIs DEF Edit
  <2>2. QED
    BY <1>1, <1>2, <2>1, ListedOne
<1>7. QED
  BY <1>3, <1>5, <1>6

\* A creation or an edit leaves the account as it is.
LEMMA ChangeAccounted ==
  ASSUME TypeInv, NEW d \in Doc, Create(d) \/ Edit(d),
         NEW c, CursorOK(c), source \in Fine => c < clock'
  PROVE  /\ \A e \in Owed' : \/ e \in Listed(source, up', c)
                             \/ /\ e \in Owed /\ e \notin Listed(source, up, c)
                                /\ Settled(e) => Settled(e)'
         /\ \A e \in Doc : \A v : Current(e, v, c) =>
              /\ v > 0
              /\ \/ source \in Stamped \/ v = version'[e]
                 \/ e \in Listed(source, up', c) \/ e \in slipped'
<1>1. /\ \A e \in Doc \ {d} : e \in Listed(source, up, c) <=> e \in Listed(source, up', c)
      /\ source \notin Stamped \/ Create(d) => d \in Listed(source, up', c)
      /\ source \in Stamped /\ Edit(d) =>
           (d \in Listed(source, up, c) <=> d \in Listed(source, up', c))
  BY ChangeListed
<1>2. /\ \A e \in Doc \ {d} : version'[e] = version[e]
      /\ source' = source /\ known' = known /\ Exists(up') \subseteq Doc
      /\ \A e \in Doc \ {d} : e \in Exists(up') => e \in Exists(up)
  <2>1. CASE Create(d)
    BY <2>1, CreateIs DEF Create, rows, Exists
  <2>2. CASE Edit(d)
    BY <2>2, EditIs DEF Edit, rows, Exists
  <2>3. QED
    BY <2>1, <2>2
<1>3. \A e \in Doc \ {d} : /\ e \notin cut' \union left' => e \notin cut \union left
                           /\ e \in slipped' <=> e \in slipped
  BY DEF Create, Edit, lost, Slip
<1>4. ASSUME NEW e \in Owed', e \notin Listed(source, up', c)
      PROVE  /\ e \in Owed /\ e \notin Listed(source, up, c)
             /\ Settled(e) => Settled(e)'
  <2>1. e \in Doc /\ e \in Exists(up') /\ e \in Texts(source)
        /\ e \notin cut' \union left' \union slipped'
    BY <1>2, <1>4 DEF Owed
  <2>2. CASE e # d
    <3>1. e \in Exists(up) /\ e \notin cut \union left \union slipped
      BY <1>2, <1>3, <2>1, <2>2
    <3>2. e \in Owed
      BY <2>1, <3>1 DEF Owed
    <3>3. e \notin Listed(source, up, c)
      BY <1>1, <1>4, <2>1, <2>2
    <3>4. version'[e] = version[e] /\ source' = source /\ known' = known
      BY <1>2, <2>1, <2>2
    <3>5. Settled(e) => Settled(e)'
      BY <3>4 DEF Settled
    <3>6. QED
      BY <3>2, <3>3, <3>5
  <2>3. CASE e = d
    <3>1. source \in Stamped /\ Edit(d)
      BY <1>1, <1>4, <2>3
    <3>2. Exists(up') = Exists(up) /\ UNCHANGED lost
      BY <3>1, EditIs DEF Edit
    <3>3. QED
      BY <1>1, <1>2, <1>4, <2>1, <2>3, <3>1, <3>2 DEF Owed, Settled, lost
  <2>4. QED
    BY <2>2, <2>3
<1>5. ASSUME NEW e \in Doc, NEW v, Current(e, v, c)
      PROVE  /\ v > 0
             /\ \/ source \in Stamped \/ v = version'[e]
                \/ e \in Listed(source, up', c) \/ e \in slipped'
  <2>1. /\ v > 0
        /\ \/ source \in Stamped \/ v = version[e]
           \/ e \in Listed(source, up, c) \/ e \in slipped
    BY <1>5 DEF Current, ListedAt
  <2>2. CASE e # d
    BY <1>1, <1>2, <1>3, <2>1, <2>2
  <2>3. CASE e = d
    BY <1>1, <2>1, <2>3
  <2>4. QED
    BY <2>2, <2>3
<1>6. QED
  BY <1>4, <1>5

\* (Both cursors are old enough for that.)
LEMMA AccountChange ==
  ASSUME TypeInv, AccountInv, NEW d \in Doc, Create(d) \/ Edit(d)
  PROVE  AccountInv'
<1>1. /\ UNCHANGED <<source, cursor, pc, fetched, batch>> /\ clock' \in Now /\ clock' \in Nat
      /\ cursor \in Nat /\ fetched.cursor \in Nat
      /\ CursorOK(cursor) /\ CursorOK(fetched.cursor)
  <2>1. UNCHANGED <<source, cursor, pc, fetched, batch>> /\ clock' \in Now
    BY DEF Create, Edit, rows, run
  <2>2. CursorOK(cursor) /\ CursorOK(fetched.cursor) /\ clock' \in Nat
    BY <2>1, NowIsLater DEF TypeInv
  <2>3. QED
    BY <2>1, <2>2 DEF CursorOK
<1>2. source \in Fine => cursor < clock' /\ fetched.cursor < clock'
  <2>1. SUFFICES ASSUME source \in Fine PROVE cursor < clock' /\ fetched.cursor < clock'
    OBVIOUS
  <2>. DEFINE S == {cursor, fetched.cursor}
  <2>2. IsFiniteSet(S) /\ S \in SUBSET Nat /\ S # {}
    <3>1. IsFiniteSet({cursor}) /\ S = {cursor} \union {fetched.cursor}
      BY FS_Singleton
    <3>2. IsFiniteSet(S)
      BY <3>1, FS_AddElement
    <3>3. QED
      BY <1>1, <3>2
  <2>3. clock' > Max(S)
    BY <1>1, <2>1 DEF Now, Dated, Fine
  <2>4. Max(S) \in S /\ \A n \in S : n <= Max(S)
    <3>. HIDE DEF S
    <3>1. QED
      BY <2>2, MaxIsGreatest
  <2>. HIDE DEF Max
  <2>5. Max(S) \in Nat /\ cursor <= Max(S) /\ fetched.cursor <= Max(S)
    BY <2>2, <2>4
  <2>6. QED
    BY <1>1, <2>3, <2>5
<1>. DEFINE OldCursor(c) ==
       /\ \A e \in Owed' : \/ e \in Listed(source, up', c)
                          \/ /\ e \in Owed /\ e \notin Listed(source, up, c)
                             /\ Settled(e) => Settled(e)'
       /\ \A e \in Doc : \A v : Current(e, v, c) =>
            /\ v > 0
            /\ \/ source \in Stamped \/ v = version'[e]
               \/ e \in Listed(source, up', c) \/ e \in slipped'
<1>3. ASSUME NEW c, CursorOK(c), source \in Fine => c < clock' PROVE OldCursor(c)
  BY <1>3, ChangeAccounted
<1>4. OldCursor(cursor) /\ OldCursor(fetched.cursor)
  <2>. HIDE DEF OldCursor
  <2>1. QED
    BY <1>1, <1>2, <1>3
<1>5. /\ \A e \in Owed' : e \notin ListedAt(cursor)' =>
           e \in Owed /\ e \notin ListedAt(cursor) /\ (Settled(e) => Settled(e)')
      /\ \A e \in Owed' : e \notin ListedAt(fetched.cursor)' =>
           e \in Owed /\ e \notin ListedAt(fetched.cursor) /\ (Settled(e) => Settled(e)')
  BY <1>1, <1>4 DEF ListedAt
<1>6. pc \in {"idle", "fetching", "fetched"} => \A e \in Owed' : e \in ListedAt(cursor)' \/ Settled(e)'
  BY <1>5 DEF AccountInv
<1>7. pc = "fetched" => \A e \in Owed' :
        e \in ListedAt(fetched.cursor)' \/ Settled(e)' \/ e \in DOMAIN fetched.docs
  BY <1>5 DEF AccountInv
<1>8. pc = "resolving" => \A e \in Owed' :
        e \in ListedAt(cursor)' \/ Settled(e)' \/ \E k \in DOMAIN batch : batch[k][1] = e
  BY <1>5 DEF AccountInv
<1>9. \A e \in DOMAIN fetched.docs : Current(e, fetched.docs[e], fetched.cursor)'
  <2>1. \A e \in DOMAIN fetched.docs : e \in Doc /\ Current(e, fetched.docs[e], fetched.cursor)
    BY DEF AccountInv, TypeInv, Texts
  <2>2. \A e \in DOMAIN fetched.docs : fetched.docs[e] > 0 /\
          (\/ source \in Stamped \/ fetched.docs[e] = version'[e]
           \/ e \in Listed(source, up', fetched.cursor) \/ e \in slipped')
    BY <1>4, <2>1
  <2>3. QED
    BY <1>1, <2>2 DEF Current, ListedAt
<1>10. \A k \in DOMAIN batch : Current(batch[k][1], batch[k][2], cursor)'
  <2>1. \A k \in DOMAIN batch : batch[k][1] \in Doc /\ Current(batch[k][1], batch[k][2], cursor)
    BY DEF AccountInv, TypeInv
  <2>2. \A k \in DOMAIN batch : batch[k][2] > 0 /\
          (\/ source \in Stamped \/ batch[k][2] = version'[batch[k][1]]
           \/ batch[k][1] \in Listed(source, up', cursor) \/ batch[k][1] \in slipped')
    BY <1>4, <2>1
  <2>3. QED
    BY <1>1, <2>2 DEF Current, ListedAt
<1>11. \A j, k \in DOMAIN batch' : batch'[j][1] = batch'[k][1] => batch'[j][2] = batch'[k][2]
  BY <1>1 DEF AccountInv
<1>12. QED
  BY <1>1, <1>6, <1>7, <1>8, <1>9, <1>10, <1>11 DEF AccountInv

\* What a fetch leaves out is listed again, cut off or passed by.
LEMMA AccountFetch == TypeInv /\ AccountInv /\ Fetch => AccountInv'
<1>1. SUFFICES ASSUME TypeInv, AccountInv, Fetch PROVE AccountInv'
  OBVIOUS
<1>2. PICK r \in Fetches(source, up, cursor) :
        /\ fetched' = [docs |-> [d \in r.docs |-> version[d]], cursor |-> r.cursor]
        /\ left' = left \union (r.skipped \ ListedAt(r.cursor))
        /\ cut' = cut \union ((r.listed \intersect Texts(source))
                                \ (r.docs \union r.skipped \union ListedAt(r.cursor)))
  BY <1>1 DEF Fetch
<1>3. /\ pc = "idle" /\ pc' = "fetched" /\ batch = <<>> /\ source \notin Paged
      /\ UNCHANGED <<source, clock, version, serial, stamp, known, cursor, batch, slipped>>
  BY <1>1 DEF Fetch, upstream, rows, TypeInv
<1>4. up' = up /\ Exists(up') = Exists(up)
  BY <1>3 DEF up
<1>5. r.listed = ListedAt(cursor) /\ r.docs \subseteq Exists(up)
  <2>1. source \in Source \ Paged /\ up.stamp \in [Doc -> Nat] /\ cursor \in Nat
    BY <1>1, <1>3, SourcesAssumption DEF TypeInv, up, CursorOK
  <2>2. r.listed = Listed(source, up, cursor) /\ r.docs \subseteq r.listed
    BY <2>1, FetchBrings
  <2>3. QED
    BY <2>1, <2>2, ListedIs DEF ListedAt
<1>6. /\ DOMAIN fetched'.docs = r.docs /\ fetched'.cursor = r.cursor
      /\ \A d \in r.docs : fetched'.docs[d] = version[d]
  BY <1>2
<1>7. /\ \A c : ListedAt(c)' = ListedAt(c)
      /\ \A d : Settled(d)' = Settled(d)
  BY <1>3, <1>4 DEF ListedAt, Settled
<1>8. Owed' \subseteq Owed
  BY <1>2, <1>3, <1>4 DEF Owed
<1>9. ASSUME NEW d \in Owed' PROVE d \in ListedAt(cursor) \/ Settled(d)
  BY <1>1, <1>3, <1>8 DEF AccountInv
<1>10. ASSUME NEW d \in Owed' PROVE d \in ListedAt(r.cursor) \/ Settled(d) \/ d \in r.docs
  <2>1. d \in Texts(source) /\ d \notin cut' /\ d \notin left'
    BY <1>3 DEF Owed
  <2>2. QED
    BY <1>2, <1>5, <1>9, <2>1
<1>11. ASSUME NEW d \in r.docs PROVE version[d] > 0
  BY <1>5 DEF Exists, up
<1>12. \A d \in DOMAIN fetched'.docs : Current(d, fetched.docs[d], fetched.cursor)'
  BY <1>3, <1>6, <1>11 DEF Current
<1>13. \A d \in Owed' : d \in ListedAt(cursor)' \/ Settled(d)'
  BY <1>3, <1>4, <1>7, <1>9 DEF ListedAt
<1>14. \A d \in Owed' : d \in ListedAt(fetched.cursor)' \/ Settled(d)' \/ d \in DOMAIN fetched'.docs
  BY <1>3, <1>4, <1>6, <1>7, <1>10 DEF ListedAt
<1>15. DOMAIN batch' = {}
  BY <1>3
<1>16. QED
  BY <1>3, <1>12, <1>13, <1>14, <1>15 DEF AccountInv

\* A document that is not extracted is in the graph in the version fetched.
LEMMA AccountStore == TypeInv /\ StampInv /\ AccountInv /\ Store => AccountInv'
<1>1. SUFFICES ASSUME TypeInv, StampInv, AccountInv, Store PROVE AccountInv'
  OBVIOUS
<1>2. PICK force \in Forces : batch' \in Batches(force)
  BY <1>1 DEF Store
<1>3. /\ cursor' = fetched.cursor /\ fetched' = Nothing /\ pc = "fetched" /\ pc' = "resolving"
      /\ UNCHANGED <<source, clock, version, serial, stamp, known, cut, left, slipped>>
  BY <1>1 DEF Store, upstream, lost
<1>4. /\ DOMAIN fetched.docs \subseteq Doc /\ \A d \in DOMAIN fetched.docs : fetched.docs[d] \in Nat
      /\ force \in BOOLEAN
  BY <1>1, SourcesAssumption DEF TypeInv, Texts, Past
<1>5. /\ \A k \in DOMAIN batch' : /\ batch'[k][1] \in DOMAIN fetched.docs
                                  /\ batch'[k][2] = fetched.docs[batch'[k][1]]
      /\ \A d \in DOMAIN fetched.docs : Changed(d) => \E k \in DOMAIN batch' : batch'[k][1] = d
  BY <1>2, <1>4, BatchIs
<1>6. up' = up /\ Exists(up') = Exists(up) /\ Owed' = Owed
  BY <1>3 DEF up, Owed
<1>7. /\ ListedAt(cursor)' = ListedAt(fetched.cursor)
      /\ \A d : Settled(d)' = Settled(d)
  BY <1>3, <1>6 DEF ListedAt, Settled
<1>8. ASSUME NEW d \in Owed'
      PROVE  d \in ListedAt(fetched.cursor) \/ Settled(d) \/ \E k \in DOMAIN batch' : batch'[k][1] = d
  <2>1. d \in Owed
    BY <1>6
  <2>2. CASE d \in DOMAIN fetched.docs
    <3>1. Current(d, fetched.docs[d], fetched.cursor)
      BY <1>1, <2>2 DEF AccountInv
    <3>2. CASE Changed(d)
      BY <1>5, <2>2, <3>2
    <3>3. CASE ~Changed(d)
      <4>1. known[d] = fetched.docs[d]
        BY <1>1, <3>3 DEF Changed, StampInv
      <4>2. QED
        BY <2>1, <3>1, <4>1 DEF Current, Settled, Owed
    <3>4. QED
      BY <3>2, <3>3
  <2>3. CASE d \notin DOMAIN fetched.docs
    BY <1>1, <1>3, <2>1, <2>3 DEF AccountInv
  <2>4. QED
    BY <2>2, <2>3
<1>9. \A k \in DOMAIN batch' : Current(batch[k][1], batch[k][2], cursor)'
  <2>1. ASSUME NEW k \in DOMAIN batch' PROVE Current(batch'[k][1], batch'[k][2], fetched.cursor)
    BY <1>1, <1>5 DEF AccountInv
  <2>2. QED
    BY <1>3, <1>7, <2>1 DEF Current
<1>10. DOMAIN fetched'.docs = {}
  BY <1>3 DEF Nothing
<1>11. \A j, k \in DOMAIN batch' : batch'[j][1] = batch'[k][1] => batch'[j][2] = batch'[k][2]
  BY <1>5
<1>12. QED
  BY <1>3, <1>7, <1>8, <1>9, <1>10, <1>11 DEF AccountInv

\* A resolved document is in the graph in its newest version, or listed again.
LEMMA AccountResolve == TypeInv /\ AccountInv /\ Resolve => AccountInv'
<1>1. SUFFICES ASSUME TypeInv, AccountInv, Resolve PROVE AccountInv'
  OBVIOUS
<1>. DEFINE d == Head(batch)[1]
            v == Head(batch)[2]
<1>2. /\ pc = "resolving" /\ pc' = pc /\ batch # <<>> /\ batch' = Tail(batch)
      /\ known' = [known EXCEPT ![d] = v]
      /\ cut' = IF v = version[d] THEN cut \ {d} ELSE cut
      /\ left' = IF v = version[d] THEN left \ {d} ELSE left
      /\ slipped' = IF v = version[d] THEN slipped \ {d} ELSE slipped
      /\ UNCHANGED <<source, clock, version, serial, stamp, cursor, fetched>>
  BY <1>1 DEF Resolve, upstream
<1>3. /\ batch \in Seq(Doc \X Nat) /\ DOMAIN known = Doc
      /\ \A k \in DOMAIN batch : Current(batch[k][1], batch[k][2], cursor)
      /\ \A j, k \in DOMAIN batch : batch[j][1] = batch[k][1] => batch[j][2] = batch[k][2]
  BY <1>1 DEF TypeInv, AccountInv
<1>4. /\ 1 \in DOMAIN batch /\ Head(batch) = batch[1] /\ Head(batch) \in Doc \X Nat
      /\ \A k \in DOMAIN Tail(batch) : k + 1 \in DOMAIN batch /\ Tail(batch)[k] = batch[k + 1]
      /\ \A k \in DOMAIN batch : k = 1 \/ (k - 1 \in DOMAIN Tail(batch) /\ Tail(batch)[k - 1] = batch[k])
  BY <1>2, <1>3, BatchShrinks
<1>5. d \in Doc /\ Current(d, v, cursor) /\ \A k \in DOMAIN batch : batch[k][1] = d => batch[k][2] = v
  BY <1>3, <1>4
<1>6. \A k \in DOMAIN batch : batch[k][1] = d \/ \E j \in DOMAIN batch' : batch'[j] = batch[k]
  BY <1>2, <1>4
<1>7. fetched = Nothing
  BY <1>1, <1>2 DEF TypeInv
<1>. HIDE DEF d, v
<1>8. up' = up /\ ListedAt(cursor)' = ListedAt(cursor) /\ known'[d] = v
      /\ \A e \in Doc \ {d} : known'[e] = known[e]
  BY <1>2, <1>3, <1>5 DEF up, ListedAt
<1>9. ASSUME NEW e \in Owed'
      PROVE  e \in ListedAt(cursor) \/ Settled(e)' \/ \E k \in DOMAIN batch' : batch'[k][1] = e
  <2>1. CASE e = d
    BY <1>2, <1>5, <1>8, <2>1 DEF Current, Settled, Owed
  <2>2. CASE e # d
    <3>1. e \in Owed /\ e \in Doc
      BY <1>2, <1>8, <2>2 DEF Owed, Exists
    <3>2. Settled(e) => Settled(e)'
      BY <1>2, <1>8, <2>2, <3>1 DEF Settled
    <3>3. e \in ListedAt(cursor) \/ Settled(e) \/ \E k \in DOMAIN batch : batch[k][1] = e
      BY <1>1, <1>2, <3>1 DEF AccountInv
    <3>4. ASSUME NEW k \in DOMAIN batch, batch[k][1] = e PROVE \E j \in DOMAIN batch' : batch'[j][1] = e
      BY <1>6, <2>2, <3>4
    <3>5. QED
      BY <3>2, <3>3, <3>4
  <2>3. QED
    BY <2>1, <2>2
<1>10. \A k \in DOMAIN batch' : Current(batch[k][1], batch[k][2], cursor)'
  <2>1. ASSUME NEW k \in DOMAIN batch' PROVE Current(batch'[k][1], batch'[k][2], cursor)
    BY <1>2, <1>3, <1>4
  <2>2. ASSUME NEW k \in DOMAIN batch' PROVE batch'[k][1] = d => batch'[k][2] = v
    BY <1>2, <1>4, <1>5
  <2>3. QED
    BY <1>2, <1>8, <2>1, <2>2 DEF Current
<1>11. DOMAIN fetched'.docs = {}
  BY <1>2, <1>7 DEF Nothing
<1>12. \A j, k \in DOMAIN batch' : batch'[j][1] = batch'[k][1] => batch'[j][2] = batch'[k][2]
  BY <1>2, <1>3, <1>4
<1>13. QED
  BY <1>2, <1>8, <1>9, <1>10, <1>11, <1>12 DEF AccountInv

\* A run that fails leaves its batch among what is lost.
LEMMA AccountFails == TypeInv /\ AccountInv /\ Fail => AccountInv'
<1>1. SUFFICES ASSUME TypeInv, AccountInv, Fail PROVE AccountInv'
  OBVIOUS
<1>2. /\ pc # "idle" /\ pc' = "idle" /\ fetched' = Nothing /\ batch' = <<>>
      /\ left' = left \union {batch[k][1] : k \in DOMAIN batch}
      /\ UNCHANGED <<source, clock, version, serial, stamp, known, cursor, cut, slipped>>
  BY <1>1 DEF Fail, upstream, rows
<1>3. /\ up' = up /\ ListedAt(cursor)' = ListedAt(cursor) /\ \A d : Settled(d)' = Settled(d)
      /\ Owed' \subseteq Owed
  BY <1>2 DEF up, ListedAt, Settled, Owed
<1>4. ASSUME NEW d \in Owed' PROVE d \in ListedAt(cursor) \/ Settled(d)
  <2>1. d \in Owed /\ ~ \E k \in DOMAIN batch : batch[k][1] = d
    BY <1>2, <1>3 DEF Owed
  <2>2. pc \in {"fetching", "fetched", "resolving"}
    BY <1>1, <1>2 DEF TypeInv
  <2>3. QED
    BY <1>1, <2>1, <2>2 DEF AccountInv
<1>5. DOMAIN fetched'.docs = {} /\ DOMAIN batch' = {}
  BY <1>2 DEF Nothing
<1>6. QED
  BY <1>2, <1>3, <1>4, <1>5 DEF AccountInv

\* At first no item exists.
LEMMA AccountInit == Init => AccountInv
<1>1. SUFFICES ASSUME Init PROVE AccountInv
  OBVIOUS
<1>2. pc = "idle" /\ DOMAIN fetched.docs = {} /\ DOMAIN batch = {} /\ Exists(up) = {}
  BY <1>1 DEF Init, Nothing, Exists, up
<1>3. QED
  BY <1>2 DEF AccountInv, Owed

\* While pages are read, what is still to come of the item.
Pending(d) == \E l \in Listings(source) :
  d \in Of(l) /\ (l \in reading.open \/ reading.count[l] = MaxItems)

\* A search: an item not met as it is stands after all that has been met.
SearchInv ==
  /\ Met \subseteq ListedAt(cursor)
  /\ \A d \in ListedAt(cursor) :
       d \in slipped \/ reading.version[d] = version[d] \/ reading.newest <= stamp[d]

\* The two listings: an item not met as it is comes with a later page, or is cut off.
ListsInv ==
  /\ \A d \in Doc : \/ d \in slipped \/ reading.version[d] = version[d]
                    \/ (reading.version[d] = 0 /\ (d \in ListedAt(cursor) => Pending(d)))
  /\ \A l \in Listings(source) : \A d \in Of(l) :
       reading.version[d] > 0 /\ l \in reading.open => reading.count[l] > 0

\* Where a fetch of pages has come to.
PageInv ==
  pc = "fetching" =>
    /\ source \in {"jira", "confluence"} => SearchInv
    /\ source = "github" => ListsInv

\* (No fetch is under way.)
LEMMA PageInit == Init => PageInv
BY DEF Init, PageInv

\* The beginning: everything is to come.
LEMMA PageStart == TypeInv /\ StartPaging => PageInv'
<1>1. SUFFICES ASSUME TypeInv, StartPaging PROVE PageInv'
  OBVIOUS
<1>2. /\ reading' = Unread(Listings(source')) /\ UNCHANGED <<source, version, stamp, cursor>>
      /\ version \in [Doc -> Nat] /\ stamp \in [Doc -> Nat]
  BY <1>1 DEF StartPaging, upstream, rows, TypeInv
<1>3. /\ Met' = {} /\ reading'.newest = 0 /\ reading'.open = Listings(source')
      /\ \A d \in Doc : reading'.version[d] = 0
  <2>1. reading'.open = Listings(source')
    BY <1>2 DEF Unread
  <2>2. QED
    BY <1>2, <2>1, UnreadAgain
<1>4. up'.stamp = stamp' /\ stamp' \in [Doc -> Nat] /\ source' \in Source /\ cursor' \in Nat
  BY <1>1, <1>2, SourcesAssumption DEF TypeInv, up, CursorOK
<1>5. ListedAt(cursor)' \subseteq Doc
  BY <1>4, ListedIs DEF ListedAt
<1>6. SearchInv'
  <2>1. \A d \in Doc : reading'.newest <= stamp'[d]
    BY <1>3, <1>4
  <2>2. QED
    BY <1>3, <1>5, <2>1 DEF SearchInv
<1>7. source' = "github" => ListsInv'
  <2>1. SUFFICES ASSUME source' = "github" PROVE ListsInv'
    OBVIOUS
  <2>2. \A d \in Doc : \E l \in Listings(source') : d \in Of(l)
    BY <2>1 DEF Listings, Of
  <2>3. \A d \in Doc : Pending(d)'
    BY <1>3, <2>2 DEF Pending
  <2>4. \A l \in Listings(source') : Of(l) \subseteq Doc
    BY <2>1, DocAssumption DEF Listings, Of
  <2>5. QED
    BY <1>3, <2>3, <2>4 DEF ListsInv
<1>8. QED
  BY <1>6, <1>7 DEF PageInv

\* A write: the item moves behind what has been read, is still to come, or slips.
LEMMA PageChange ==
  ASSUME TypeInv, PageInv, NEW d \in Doc, Create(d) \/ Edit(d)
  PROVE  PageInv'
<1>1. SUFFICES ASSUME pc = "fetching"
               PROVE  /\ source \in {"jira", "confluence"} => SearchInv'
                      /\ source = "github" => ListsInv'
  BY DEF PageInv, Create, Edit, run
<1>2. /\ UNCHANGED <<source, cursor, reading>> /\ source \in Paged /\ CursorOK(cursor)
      /\ CursorOK(reading.newest) /\ reading.newest \in Nat
  BY <1>1 DEF Create, Edit, run, rows, TypeInv, ReadingOK, CursorOK
<1>3. source \notin Fine /\ source \notin Stamped
  BY <1>2 DEF Paged, Fine, Stamped
<1>4. /\ \A e \in Doc \ {d} : e \in ListedAt(cursor) <=> e \in ListedAt(cursor)'
      /\ d \in ListedAt(cursor)'
  BY <1>2, <1>3, ChangeListed DEF ListedAt
<1>5. /\ \A e \in Doc \ {d} : version'[e] = version[e] /\ stamp'[e] = stamp[e]
      /\ stamp'[d] = Present' /\ Present' \in Nat /\ Present' >= Present
  BY <1>3, CreateIs, EditIs
<1>6. slipped' = Slip(d) /\ Met' = Met
  <2>1. slipped' = Slip(d)
    BY <1>3 DEF Create, Edit
  <2>2. QED
    BY <1>2, <2>1 DEF Met
<1>7. \A e \in Doc \ {d} : e \in slipped' <=> e \in slipped
  BY <1>6 DEF Slip
<1>8. ASSUME source \in {"jira", "confluence"} PROVE SearchInv'
  <2>1. SearchInv /\ Met \subseteq Doc
    BY <1>1, <1>8 DEF PageInv, Met
  <2>2. reading.newest <= Present'
    <3>1. Present \in Nat /\ \A e \in Doc : stamp[e] \in Nat /\ stamp[e] <= Present
      BY ExistFinite, BoundAssumption DEF TypeInv, Present
    <3>2. QED
      BY <1>2, <1>5, <3>1 DEF CursorOK
  <2>3. ASSUME NEW e \in ListedAt(cursor)'
        PROVE  e \in slipped' \/ reading'.version[e] = version'[e] \/ reading'.newest <= stamp'[e]
    <3>1. CASE e = d
      BY <1>2, <1>5, <2>2, <3>1
    <3>2. CASE e # d
      <4>1. e \in Doc
        <5>1. up'.stamp = stamp' /\ stamp' \in [Doc -> Nat] /\ source' \in Source /\ cursor' \in Nat
          BY <1>2, <1>5 DEF up, CursorOK, Paged, Source, TypeInv, Create, Edit
        <5>2. QED
          BY <2>3, <5>1, ListedIs DEF ListedAt
      <4>2. QED
        BY <1>2, <1>4, <1>5, <1>7, <2>1, <3>2, <4>1 DEF SearchInv
    <3>3. QED
      BY <3>1, <3>2
  <2>4. Met' \subseteq ListedAt(cursor)'
    BY <1>4, <1>6, <2>1 DEF SearchInv
  <2>5. QED
    BY <2>3, <2>4 DEF SearchInv
<1>9. ASSUME source = "github" PROVE ListsInv'
  <2>1. ListsInv
    BY <1>1, <1>9 DEF PageInv
  <2>2. \A e \in Doc : Pending(e)' <=> Pending(e)
    BY <1>2 DEF Pending
  <2>3. ASSUME NEW e \in Doc
        PROVE  \/ e \in slipped' \/ reading'.version[e] = version'[e]
               \/ (reading'.version[e] = 0 /\ (e \in ListedAt(cursor)' => Pending(e)'))
    <3>1. CASE e # d
      BY <1>2, <1>4, <1>5, <1>7, <2>1, <2>2, <3>1 DEF ListsInv
    <3>2. CASE e = d /\ d \notin slipped'
      <4>1. \A l \in Listings(source) : d \in Of(l) => l \in reading.open /\ ~(reading.count[l] > 0)
        BY <1>1, <1>6, <1>9, <3>2 DEF Slip
      <4>2. PICK l \in Listings(source) : d \in Of(l)
        BY <1>9 DEF Listings, Of
      <4>3. l \in reading.open /\ ~(reading.count[l] > 0)
        BY <4>1, <4>2
      <4>4. ~(reading.version[d] > 0)
        BY <2>1, <4>2, <4>3 DEF ListsInv
      <4>5. reading.version[d] = 0
        <5>1. Past(d, reading.version[d])
          BY DEF TypeInv, ReadingOK
        <5>2. QED
          BY <4>4, <5>1 DEF Past
      <4>6. Pending(d)
        BY <4>2, <4>3 DEF Pending
      <4>7. QED
        BY <1>2, <2>2, <3>2, <4>5, <4>6
    <3>3. QED
      BY <3>1, <3>2
  <2>4. QED
    BY <1>2, <2>1, <2>3 DEF ListsInv
<1>10. QED
  BY <1>8, <1>9

\* A page: what it brings is met, what stands before it has been met or slips.
LEMMA PageRead ==
  ASSUME TypeInv, PageInv, NEW l \in Listing, ReadPage(l)
  PROVE  PageInv'
<1>. DEFINE S == Standing(source, l, up, cursor)
<1>1. PICK before, upto \in SUBSET S :
        /\ IsPage(l, before, upto)
        /\ Cardinality(upto) \in 0 .. MaxItems
        /\ l = "search" => \A d \in upto, e \in S \ upto : stamp[d] <= stamp[e]
        /\ l \notin reading'.open => upto = S \/ Cardinality(upto) = MaxItems
        /\ Cardinality(upto) = 0 => l \notin reading'.open
  BY PageIs
<1>2. /\ pc = "fetching" /\ UNCHANGED <<source, version, stamp, cursor, up>>
      /\ l \in reading.open /\ l \in Listings(source)
      /\ stamp \in [Doc -> Nat] /\ version \in [Doc -> Nat] /\ reading.newest \in Nat
      /\ reading.count \in [Listing -> 0 .. MaxItems]
  BY DEF ReadPage, upstream, rows, up, TypeInv, ReadingOK, CursorOK
<1>3. source \in Source /\ up.stamp \in [Doc -> Nat] /\ cursor \in Nat
  BY SourcesAssumption DEF TypeInv, up, CursorOK
<1>4. /\ S \subseteq ListedAt(cursor) /\ ListedAt(cursor) \subseteq Exists(up)
      /\ ListedAt(cursor) \subseteq Doc /\ ListedAt(cursor)' = ListedAt(cursor)
      /\ \A d \in ListedAt(cursor) : d \in Of(l) => d \in S
      /\ l = "search" => S = ListedAt(cursor) /\ Of(l) = Doc
  <2>1. ListedAt(cursor) \subseteq Exists(up) /\ ListedAt(cursor) \subseteq Doc
    BY <1>3, ListedIs DEF ListedAt
  <2>2. QED
    BY <1>2, <2>1, DocAssumption DEF Standing, ListedAt, Of
<1>. DEFINE page == (upto \ before) \intersect Of(l)
            late == {d \in before \intersect Of(l) : reading.version[d] # version[d]}
<1>5. /\ reading'.open \in {reading.open, reading.open \ {l}}
      /\ reading'.count = [reading.count EXCEPT ![l] = Cardinality(upto)]
      /\ \A d \in Doc : reading'.version[d] = IF d \in page THEN version[d] ELSE reading.version[d]
      /\ reading'.newest = Newer(page, stamp, reading.newest)
      /\ slipped' = (slipped \union late) \ page
  BY <1>1 DEF IsPage
<1>6. page \in SUBSET Doc /\ page \subseteq S /\ \A d \in page : version[d] > 0
  <2>1. page \subseteq S /\ page \subseteq Exists(up)
    BY <1>1, <1>4
  <2>2. QED
    BY <2>1, <1>4 DEF Exists, up
<1>7. /\ reading'.newest \in Nat
      /\ reading'.newest = reading.newest \/ \E d \in page : reading'.newest = stamp[d]
  <2>. HIDE DEF page
  <2>1. QED
    BY <1>2, <1>5, <1>6, NewestIsOne
\* An item that stands in the listing and is neither met nor slipped comes later.
<1>8. ASSUME NEW d \in S, d \in Of(l), d \notin slipped', reading'.version[d] # version[d]
      PROVE  d \notin upto /\ d \notin slipped /\ reading.version[d] # version[d] /\ d \notin page
  <2>1. d \in Doc
    BY <1>4
  <2>2. d \notin page
    BY <1>5, <1>8, <2>1
  <2>3. reading.version[d] # version[d]
    BY <1>5, <1>8, <2>1, <2>2
  <2>4. d \notin before /\ d \notin slipped
    BY <1>5, <1>8, <2>2, <2>3
  <2>5. QED
    BY <1>8, <2>2, <2>3, <2>4
<1>. HIDE DEF S
<1>9. ASSUME source \in {"jira", "confluence"} PROVE SearchInv'
  <2>1. l = "search" /\ SearchInv
    BY <1>2, <1>9 DEF Listings, PageInv
  <2>2. Met' \subseteq ListedAt(cursor)
    <3>1. Met' \subseteq Met \union page
      BY <1>5 DEF Met
    <3>2. QED
      BY <1>4, <1>6, <2>1, <3>1 DEF SearchInv
  <2>3. ASSUME NEW d \in ListedAt(cursor), d \notin slipped', reading'.version[d] # version[d]
        PROVE  reading'.newest <= stamp[d]
    <3>1. d \in S /\ d \in Of(l)
      BY <1>4, <2>1
    <3>2. d \notin upto /\ d \notin slipped /\ reading.version[d] # version[d]
      BY <1>8, <2>3, <3>1
    <3>3. reading.newest <= stamp[d]
      BY <2>1, <2>3, <3>2 DEF SearchInv
    <3>4. \A e \in page : stamp[e] <= stamp[d]
      BY <1>1, <2>1, <3>1, <3>2
    <3>. HIDE DEF page
    <3>5. QED
      BY <1>7, <3>3, <3>4
  <2>4. QED
    BY <1>2, <1>4, <2>2, <2>3 DEF SearchInv
<1>10. ASSUME source = "github" PROVE ListsInv'
  <2>1. ListsInv /\ l \in {"pulls", "issues"} /\ Listings(source) = {"pulls", "issues"}
    BY <1>2, <1>10 DEF Listings, PageInv
  <2>2. \A m \in Listings(source) : Of(m) \subseteq Doc
    BY <2>1, DocAssumption DEF Of
  <2>3. \A m \in Listings(source) \ {l} : /\ Of(m) \intersect Of(l) = {}
                                          /\ m \in reading'.open <=> m \in reading.open
                                          /\ reading'.count[m] = reading.count[m]
    BY <1>2, <1>5, <2>1 DEF Of, Listing
  <2>4. reading'.count[l] = Cardinality(upto)
    BY <1>2, <1>5
  <2>5. ASSUME NEW d \in Doc, d \notin slipped', reading'.version[d] # version[d]
        PROVE  reading'.version[d] = 0 /\ (d \in ListedAt(cursor) => Pending(d)')
    <3>1. d \notin page /\ reading'.version[d] = reading.version[d]
      BY <1>5, <2>5
    <3>2. d \notin slipped
      BY <1>5, <2>5, <3>1
    <3>3. reading.version[d] = 0 /\ (d \in ListedAt(cursor) => Pending(d))
      BY <2>1, <2>5, <3>1, <3>2 DEF ListsInv
    <3>4. ASSUME d \in ListedAt(cursor) PROVE Pending(d)'
      <4>1. PICK m \in Listings(source) : d \in Of(m) /\ (m \in reading.open \/ reading.count[m] = MaxItems)
        BY <3>3, <3>4 DEF Pending
      <4>2. CASE m # l
        BY <1>2, <2>3, <4>1, <4>2 DEF Pending
      <4>3. CASE m = l
        <5>1. d \in S /\ d \in Of(l)
          BY <1>4, <3>4, <4>1, <4>3
        <5>2. d \notin upto
          BY <1>8, <2>5, <5>1
        <5>3. l \in reading'.open \/ reading'.count[l] = MaxItems
          BY <1>1, <2>4, <5>1, <5>2
        <5>4. QED
          BY <1>2, <4>1, <4>3, <5>3 DEF Pending
      <4>4. QED
        BY <4>2, <4>3
    <3>5. QED
      BY <3>1, <3>3, <3>4
  <2>6. ASSUME NEW m \in Listings(source), NEW d \in Of(m), reading'.version[d] > 0, m \in reading'.open
        PROVE  reading'.count[m] > 0
    <3>1. CASE m = l
      BY <1>1, <2>4, <2>6, <3>1
    <3>2. CASE m # l
      <4>1. d \in Doc /\ d \notin page
        BY <2>2, <2>3, <3>2
      <4>2. reading.version[d] > 0 /\ m \in reading.open
        BY <1>5, <2>3, <2>6, <3>2, <4>1
      <4>3. QED
        BY <2>1, <2>3, <3>2, <4>2 DEF ListsInv
    <3>3. QED
      BY <3>1, <3>2
  <2>7. QED
    BY <1>2, <1>4, <2>5, <2>6 DEF ListsInv
<1>11. QED
  BY <1>2, <1>9, <1>10 DEF PageInv

\* The pages, step by step.
LEMMA PageStep == TypeInv /\ PageInv /\ [Next]_vars => PageInv'
<1>1. SUFFICES ASSUME TypeInv, PageInv, [Next]_vars PROVE PageInv'
  OBVIOUS
<1>2. ASSUME NEW d \in Doc, Create(d) \/ Edit(d) PROVE PageInv'
  BY <1>1, <1>2, PageChange
<1>3. ASSUME NEW l \in Listing, ReadPage(l) PROVE PageInv'
  BY <1>1, <1>3, PageRead
<1>4. ASSUME UNCHANGED <<source, version, stamp, up, cursor, pc, reading, slipped>> PROVE PageInv'
  <2>1. /\ ListedAt(cursor)' = ListedAt(cursor) /\ Met' = Met
        /\ \A d : Pending(d)' <=> Pending(d)
    BY <1>4 DEF ListedAt, Met, Pending
  <2>2. (SearchInv => SearchInv') /\ (ListsInv => ListsInv')
    BY <1>4, <2>1 DEF SearchInv, ListsInv
  <2>3. QED
    BY <1>1, <1>4, <2>2 DEF PageInv
<1>5. ASSUME NEW d \in Doc, NEW v \in Version, Deliver(d, v) PROVE PageInv'
  BY <1>4, <1>5 DEF Deliver, upstream, up, run, lost
<1>6. CASE UNCHANGED vars
  BY <1>4, <1>6 DEF vars, upstream, up, rows, run, lost
<1>7. CASE Fetch \/ Collect \/ Store \/ Resolve \/ Finish \/ Fail
  BY <1>7 DEF PageInv, Fetch, Collect, Store, Resolve, Finish, Fail
<1>8. QED
  BY <1>1, <1>2, <1>3, <1>5, <1>6, <1>7, PageStart DEF Next, Pipeline, Paging

\* A search that has been read brings or lists again all that has not slipped.
LEMMA SearchEnds ==
  ASSUME TypeInv, PageInv, source \in {"jira", "confluence"}, Collect
  PROVE  /\ cut' = cut
         /\ \A d \in ListedAt(cursor) \ slipped :
              \/ d \in Met /\ reading.version[d] = version[d]
              \/ d \in ListedAt(fetched'.cursor)
<1>. DEFINE new == IF Met = {} THEN cursor ELSE reading.newest
<1>1. /\ fetched'.cursor = new
      /\ cut' = cut \union {d \in ListedAt(cursor) \ (Met \union slipped \union ListedAt(new)) :
                              \E l \in {m \in Listing : reading.count[m] = MaxItems} : d \in Of(l)}
  BY DEF Collect
<1>2. SearchInv /\ source \in Source /\ cursor \in Nat /\ new \in Nat /\ up.stamp = stamp
  BY SourcesAssumption DEF PageInv, Collect, TypeInv, up, CursorOK, ReadingOK
<1>3. stamp \in [Doc -> Nat] /\ version \in [Doc -> Nat]
  BY DEF TypeInv
<1>4. ASSUME NEW d \in ListedAt(cursor) \ slipped
      PROVE  (d \in Met /\ reading.version[d] = version[d]) \/ d \in ListedAt(new)
  <2>1. d \in Exists(up) /\ d \in Doc /\ version[d] > 0
    BY <1>2, <1>3, ListedIs DEF ListedAt, Exists, up
  <2>2. CASE reading.version[d] = version[d]
    BY <2>1, <2>2 DEF Met
  <2>3. CASE reading.newest <= stamp[d] /\ Met # {}
    BY <1>2, <1>3, <2>1, <2>3, ListedIs DEF ListedAt
  <2>4. CASE Met = {}
    BY <1>4, <2>4
  <2>5. QED
    BY <1>2, <1>4, <2>2, <2>3, <2>4 DEF SearchInv
<1>5. QED
  BY <1>1, <1>4

\* The two listings, read, bring or cut off all that has not slipped.
LEMMA ListsEnd ==
  ASSUME TypeInv, PageInv, source = "github", Collect
  PROVE  /\ \A d \in Met \ slipped : reading.version[d] = version[d]
         /\ \A d \in ListedAt(cursor) \ slipped :
              d \in Met \/ d \in ListedAt(fetched'.cursor) \/ d \in cut'
<1>. DEFINE new == IF Met = {} THEN cursor ELSE reading.newest
<1>1. /\ fetched'.cursor = new /\ reading.open = {}
      /\ cut' = cut \union {d \in ListedAt(cursor) \ (Met \union slipped \union ListedAt(new)) :
                              \E l \in {m \in Listing : reading.count[m] = MaxItems} : d \in Of(l)}
  BY DEF Collect
<1>2. ListsInv /\ Listings(source) \subseteq Listing
  BY DEF PageInv, Collect, Listings, Listing
<1>3. ASSUME NEW d \in Met \ slipped PROVE reading.version[d] = version[d]
  BY <1>2, <1>3 DEF ListsInv, Met
<1>4. source \in Source /\ cursor \in Nat /\ up.stamp = stamp /\ stamp \in [Doc -> Nat]
  BY DEF TypeInv, up, CursorOK, Source
<1>5. ASSUME NEW d \in ListedAt(cursor) \ slipped, d \notin Met, d \notin ListedAt(new)
      PROVE  d \in cut'
  <2>1. d \in Doc /\ version[d] > 0
    BY <1>4, <1>5, ListedIs DEF ListedAt, Exists, up
  <2>2. reading.version[d] # version[d]
    BY <1>5, <2>1 DEF Met
  <2>3. Pending(d)
    BY <1>2, <1>5, <2>1, <2>2 DEF ListsInv
  <2>4. \E l \in {m \in Listing : reading.count[m] = MaxItems} : d \in Of(l)
    BY <1>1, <1>2, <2>3 DEF Pending
  <2>5. QED
    BY <1>1, <1>5, <2>4
<1>6. QED
  BY <1>1, <1>3, <1>5

\* A fetch of pages brings, lists again, cuts off or lets slip what it listed.
LEMMA AccountPaging == TypeInv /\ PageInv /\ AccountInv /\ Paging => AccountInv'
<1>1. SUFFICES ASSUME TypeInv, PageInv, AccountInv, Paging PROVE AccountInv'
  OBVIOUS
<1>2. /\ UNCHANGED <<source, version, stamp, known, cursor, batch, left, up>>
      /\ pc \in {"idle", "fetching"} /\ batch = <<>>
      /\ \A d : Settled(d)' = Settled(d)
      /\ \A c : ListedAt(c)' = ListedAt(c)
  <2>1. /\ UNCHANGED <<source, version, stamp, known, cursor, batch, left, up>>
        /\ pc \in {"idle", "fetching"}
    BY <1>1 DEF Paging, StartPaging, ReadPage, Collect, upstream, rows, lost, up
  <2>2. QED
    BY <1>1, <2>1 DEF TypeInv, Settled, ListedAt
<1>3. DOMAIN batch' = {}
  BY <1>2
<1>4. \A d \in Owed : d \in ListedAt(cursor) \/ Settled(d)
  BY <1>1, <1>2 DEF AccountInv
<1>5. CASE StartPaging \/ \E l \in Listing : ReadPage(l)
  <2>1. pc' = "fetching" /\ fetched' = fetched /\ cut' = cut /\ fetched = Nothing
    BY <1>1, <1>5 DEF StartPaging, ReadPage, lost, TypeInv
  <2>2. \A d \in Doc : d \in slipped => d \in slipped' \/ d \in ListedAt(cursor)
    <3>1. CASE StartPaging
      BY <3>1 DEF StartPaging, lost
    <3>2. ASSUME NEW l \in Listing, ReadPage(l)
          PROVE  \A d \in Doc : d \in slipped => d \in slipped' \/ d \in ListedAt(cursor)
      <4>1. PICK before, upto \in SUBSET Standing(source, l, up, cursor) : IsPage(l, before, upto)
        BY <1>1, <3>2, PageIs
      <4>2. QED
        BY <4>1 DEF IsPage, Standing, ListedAt
    <3>3. QED
      BY <1>5, <3>1, <3>2
  <2>3. ASSUME NEW d \in Owed' PROVE d \in ListedAt(cursor) \/ Settled(d)
    <3>1. d \in Exists(up) /\ d \in Texts(source) /\ d \notin cut \union left \union slipped' /\ d \in Doc
      BY <1>2, <2>1, <2>3 DEF Owed, Exists
    <3>2. QED
      BY <1>4, <2>2, <3>1 DEF Owed
  <2>4. DOMAIN fetched'.docs = {}
    BY <2>1 DEF Nothing
  <2>5. QED
    BY <1>2, <1>3, <2>1, <2>3, <2>4 DEF AccountInv
<1>6. CASE Collect
  <2>1. /\ pc' = "fetched" /\ slipped' = slipped /\ cut \subseteq cut'
        /\ fetched'.docs = [d \in Met |-> reading.version[d]]
    BY <1>6 DEF Collect
  <2>2. /\ DOMAIN fetched'.docs = Met /\ \A d \in Met : fetched'.docs[d] = reading.version[d]
        /\ \A d \in Met : reading.version[d] > 0
    BY <2>1 DEF Met
  <2>3. source \in Paged
    BY <1>1, <1>6 DEF Collect, TypeInv
  <2>4. /\ \A d \in ListedAt(cursor) \ slipped :
             d \in Met \/ d \in ListedAt(fetched'.cursor) \/ d \in cut'
        /\ \A d \in Met \ slipped :
             reading.version[d] = version[d] \/ d \in ListedAt(fetched'.cursor)
    <3>1. CASE source = "github"
      BY <1>1, <1>6, <3>1, ListsEnd
    <3>2. CASE source \in {"jira", "confluence"}
      <4>1. Met \subseteq ListedAt(cursor)
        BY <1>1, <1>6, <3>2 DEF PageInv, Collect, SearchInv
      <4>2. QED
        BY <1>1, <1>6, <3>2, <4>1, SearchEnds
    <3>3. QED
      BY <2>3, <3>1, <3>2 DEF Paged
  <2>5. ASSUME NEW d \in Owed'
        PROVE  /\ d \in ListedAt(cursor) \/ Settled(d)
               /\ d \in ListedAt(fetched'.cursor) \/ Settled(d) \/ d \in Met
    <3>1. d \in Owed /\ d \notin cut' /\ d \notin slipped
      BY <1>2, <2>1, <2>5 DEF Owed
    <3>2. QED
      BY <1>4, <2>4, <3>1
  <2>6. \A d \in DOMAIN fetched'.docs : Current(d, fetched.docs[d], fetched.cursor)'
    BY <1>2, <2>1, <2>2, <2>4 DEF Current, ListedAt
  <2>7. /\ ListedAt(cursor)' = ListedAt(cursor)
        /\ ListedAt(fetched.cursor)' = ListedAt(fetched'.cursor)
    BY <1>2 DEF ListedAt
  <2>8. QED
    BY <1>2, <1>3, <2>1, <2>2, <2>5, <2>6, <2>7 DEF AccountInv
<1>7. QED
  BY <1>1, <1>5, <1>6 DEF Paging

\* The account, step by step.
LEMMA AccountStep == TypeInv /\ StampInv /\ PageInv /\ AccountInv /\ [Next]_vars => AccountInv'
<1>1. SUFFICES ASSUME TypeInv, StampInv, PageInv, AccountInv, [Next]_vars PROVE AccountInv'
  OBVIOUS
<1>2. ASSUME UNCHANGED <<source, version, stamp, cursor, known, fetched, batch, cut, left, slipped, up>>,
             pc' = pc \/ (pc = "resolving" /\ pc' = "idle" /\ batch = <<>>)
      PROVE  AccountInv'
  <2>1. /\ Owed' = Owed /\ ListedAt(cursor)' = ListedAt(cursor)
        /\ ListedAt(fetched.cursor)' = ListedAt(fetched.cursor) /\ \A d : Settled(d)' = Settled(d)
    BY <1>2 DEF Owed, ListedAt, Settled
  <2>2. batch = <<>> => DOMAIN batch = {}
    OBVIOUS
  <2>3. /\ \A d \in DOMAIN fetched'.docs : Current(d, fetched.docs[d], fetched.cursor)'
        /\ \A k \in DOMAIN batch' : Current(batch[k][1], batch[k][2], cursor)'
    BY <1>1, <1>2, <2>1 DEF AccountInv, Current
  <2>4. QED
    BY <1>1, <1>2, <2>1, <2>2, <2>3 DEF AccountInv
<1>3. ASSUME NEW d \in Doc, Create(d) \/ Edit(d) PROVE AccountInv'
  BY <1>1, <1>3, AccountChange
<1>4. ASSUME NEW d \in Doc, NEW v \in Version, Deliver(d, v) PROVE AccountInv'
  BY <1>2, <1>4 DEF Deliver, run, lost, upstream, up
<1>5. CASE Finish
  BY <1>2, <1>5 DEF Finish, upstream, rows, lost, up
<1>6. CASE UNCHANGED vars
  BY <1>2, <1>6 DEF vars, upstream, rows, run, lost, up
<1>7. QED
  BY <1>1, <1>3, <1>4, <1>5, <1>6, AccountFetch, AccountPaging, AccountStore, AccountResolve,
     AccountFails DEF Next, Pipeline

\* No cursor passes an item over but in the three ways that NothingPassedOver names:
\* between two runs, an item that the next query would not list is in the graph in
\* its newest version, unless it was cut off by max_items, was in a failed batch or
\* download, or was moved by a write between two requests of a fetch of pages.
THEOREM NoneIsPassedOver == Spec => []NothingPassedOver
<1>1. AccountInv => NothingPassedOver
  BY DEF AccountInv, NothingPassedOver
<1>2. QED
  BY <1>1, TypeInit, TypeStep, StampInit, StampStep, PageInit, PageStep, AccountInit, AccountStep,
     PTL DEF Spec

-----------------------------------------------------------------------------
(* Oldest first. *)

\* A UID and a ts is one item's.
Distinct == source \in Stamped => \A d, e \in Exists(up) : d # e => stamp[d] # stamp[e]

CutInv == Distinct /\ CutIsListedAgain

\* The mails with the lowest UIDs come first: the next query lists what the cut
\* leaves out.
LEMMA OldestLeavesNewer ==
  ASSUME TypeInv, Distinct, source = "imap", NEW r \in Fetches(source, up, cursor)
  PROVE  r.listed \ (r.docs \union r.skipped) \subseteq ListedAt(r.cursor)
<1>. DEFINE L == Listed(source, up, cursor)
<1>1. /\ source \in Source /\ up.stamp = stamp /\ stamp \in [Doc -> Nat] /\ cursor \in Nat
  BY DEF TypeInv, up, CursorOK, Source
<1>2. L \in SUBSET Doc /\ L \subseteq Exists(up)
  BY <1>1, ListedIs
<1>3. PICK P \in OldestOf(L, stamp, MaxItems) :
        \E F \in SUBSET P : r = Result(L, P \ F, F, Latest(P \ F, stamp, cursor))
  BY <1>1 DEF Fetches, Imap, Paged
<1>4. PICK F \in SUBSET P : r = Result(L, P \ F, F, Latest(P \ F, stamp, cursor))
  BY <1>3
<1>. DEFINE Q == P \ F
<1>5. P \in SUBSET L /\ Q \in SUBSET Doc /\ \A d \in P, e \in L \ P : stamp[d] <= stamp[e]
  <2>1. P \in SUBSET L
    BY <1>3, CutsKeep
  <2>2. QED
    BY <1>2, <1>3, <2>1 DEF OldestOf
<1>6. r.listed = L /\ r.docs \union r.skipped = P /\ r.cursor = Latest(Q, stamp, cursor)
  BY <1>4 DEF Result
<1>7. /\ r.cursor \in Nat
      /\ Q = {} => r.cursor = cursor
      /\ Q # {} => \E d \in Q : r.cursor = stamp[d]
  <2>. DEFINE t == Latest(Q, stamp, cursor)
  <2>. HIDE DEF Q
  <2>1. /\ t \in Nat
        /\ Q = {} => t = cursor
        /\ Q # {} => \E d \in Q : t = stamp[d]
    BY <1>1, <1>5, LatestIsOne
  <2>. HIDE DEF t
  <2>2. r.cursor = t
    BY <1>6 DEF t
  <2>3. QED
    BY <2>1, <2>2
<1>8. ASSUME NEW e \in L \ P PROVE e \in Listed(source, up, r.cursor)
  <2>1. CASE Q = {}
    BY <1>7, <2>1
  <2>2. CASE Q # {}
    <3>1. PICK d \in Q : r.cursor = stamp[d]
      BY <1>7, <2>2
    <3>2. d \in Exists(up) /\ e \in Exists(up) /\ d # e /\ stamp[d] <= stamp[e] /\ e \in Doc
      BY <1>2, <1>5
    <3>3. stamp[d] # stamp[e]
      BY <3>2 DEF Distinct, Stamped
    <3>4. up.stamp[e] > r.cursor
      BY <1>1, <1>7, <3>1, <3>2, <3>3
    <3>5. QED
      BY <1>1, <1>7, <3>2, <3>4, ListedIs
  <2>3. QED
    BY <2>1, <2>2
<1>9. QED
  BY <1>6, <1>8 DEF ListedAt

\* (Nothing exists, nothing is cut.)
LEMMA CutInit == Init => CutInv
BY DEF Init, CutInv, Distinct, CutIsListedAgain, Exists, up

\* A new stamp is later than all others.
LEMMA CutStep == TypeInv /\ PageInv /\ CutInv /\ [Next]_vars => CutInv'
<1>1. SUFFICES ASSUME TypeInv, PageInv, CutInv, [Next]_vars PROVE CutInv'
  OBVIOUS
<1>2. ASSUME NEW d \in Doc, Create(d) \/ Edit(d) PROVE CutInv'
  <2>1. source' = source /\ cut' \subseteq cut
    BY <1>2 DEF Create, Edit, lost
  <2>2. CASE Create(d) /\ source \in Stamped
    <3>1. /\ Exists(up') = Exists(up) \union {d} /\ d \notin Exists(up) /\ Exists(up) \subseteq Doc
          /\ stamp'[d] = Cardinality(Exists(up)) + 1 /\ Cardinality(Exists(up)) \in Nat
          /\ \A e \in Doc \ {d} : stamp'[e] = stamp[e]
      BY <1>1, <2>1, <2>2, CreateIs, ExistFinite DEF Present
    <3>2. \A e \in Exists(up) : stamp[e] \in Nat /\ stamp[e] <= Cardinality(Exists(up))
      BY <1>1, <2>2, <3>1 DEF TypeInv, Present
    <3>3. ASSUME NEW a \in Exists(up'), NEW b \in Exists(up'), a # b PROVE stamp'[a] # stamp'[b]
      <4>1. CASE a = d
        BY <3>1, <3>2, <3>3, <4>1
      <4>2. CASE b = d
        BY <3>1, <3>2, <3>3, <4>2
      <4>3. CASE a # d /\ b # d
        BY <1>1, <2>2, <3>1, <3>3, <4>3 DEF CutInv, Distinct
      <4>4. QED
        BY <4>1, <4>2, <4>3
    <3>4. QED
      BY <1>1, <2>1, <3>3 DEF CutInv, Distinct, CutIsListedAgain
  <2>3. CASE Edit(d) /\ source \in Stamped
    <3>1. Exists(up') = Exists(up) /\ stamp' = stamp
      <4>1. stamp' = [stamp EXCEPT ![d] = stamp[d]]
        BY <2>3 DEF Edit
      <4>2. QED
        BY <1>1, <2>3, <4>1, EditIs DEF TypeInv
    <3>2. QED
      BY <1>1, <2>1, <3>1 DEF CutInv, Distinct, CutIsListedAgain
  <2>4. CASE source \notin Stamped
    BY <1>1, <2>1, <2>4 DEF CutInv, Distinct, CutIsListedAgain
  <2>5. QED
    BY <1>2, <2>2, <2>3, <2>4
<1>3. ASSUME UNCHANGED <<source, version, stamp>>, cut' \subseteq cut \/ Fetch \/ Collect PROVE CutInv'
  <2>1. Exists(up') = Exists(up)
    BY <1>3 DEF Exists, up
  <2>2. Distinct'
    BY <1>1, <1>3, <2>1 DEF CutInv, Distinct
  <2>3. CASE cut' \subseteq cut
    BY <1>1, <1>3, <2>2, <2>3 DEF CutInv, CutIsListedAgain
  <2>4. CASE Fetch /\ source = "imap"
    <3>1. PICK r \in Fetches(source, up, cursor) :
            cut' = cut \union ((r.listed \intersect Texts(source))
                                 \ (r.docs \union r.skipped \union ListedAt(r.cursor)))
      BY <2>4 DEF Fetch
    <3>2. r.listed \ (r.docs \union r.skipped) \subseteq ListedAt(r.cursor)
      BY <1>1, <2>4, OldestLeavesNewer DEF CutInv
    <3>3. cut = {}
      BY <1>1, <2>4 DEF CutInv, CutIsListedAgain
    <3>4. QED
      BY <2>2, <3>1, <3>2, <3>3 DEF CutInv, CutIsListedAgain
  <2>5. CASE Collect /\ source \in {"jira", "confluence"}
    <3>1. cut' = cut
      BY <1>1, <2>5, SearchEnds
    <3>2. QED
      BY <1>1, <1>3, <2>2, <3>1 DEF CutInv, CutIsListedAgain
  <2>6. CASE source \notin {"jira", "confluence", "imap"}
    BY <1>3, <2>2, <2>6 DEF CutInv, CutIsListedAgain
  <2>7. Fetch => source \notin {"jira", "confluence"}
    BY DEF Fetch, Paged
  <2>8. Collect => source \in Paged
    BY <1>1 DEF Collect, TypeInv
  <2>9. QED
    BY <1>3, <2>3, <2>4, <2>5, <2>6, <2>7, <2>8 DEF Paged
<1>4. CASE Finish \/ Fail \/ Fetch
  BY <1>3, <1>4 DEF Finish, Fail, Fetch, lost, upstream
<1>5. CASE Store \/ Resolve
  BY <1>3, <1>5 DEF Store, Resolve, lost, upstream
<1>6. CASE Paging
  BY <1>3, <1>6 DEF Paging, StartPaging, ReadPage, Collect, lost, upstream
<1>7. ASSUME NEW d \in Doc, NEW v \in Version, Deliver(d, v) PROVE CutInv'
  BY <1>3, <1>7 DEF Deliver, lost, upstream
<1>8. CASE UNCHANGED vars
  BY <1>3, <1>8 DEF vars, lost, upstream
<1>9. QED
  BY <1>1, <1>2, <1>4, <1>5, <1>6, <1>7, <1>8 DEF Next, Pipeline

\* Jira, Confluence and IMAP list the oldest first: what max_items cuts off lies
\* after the new cursor, and a later run lists it again, whatever is written between
\* the requests of a fetch.
THEOREM CutsComeAgain == Spec => []CutIsListedAgain
<1>1. CutInv => CutIsListedAgain
  BY DEF CutInv
<1>2. QED
  BY <1>1, TypeInit, TypeStep, PageInit, PageStep, CutInit, CutStep, PTL DEF Spec
=============================================================================
