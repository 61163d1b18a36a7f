----------------------------- MODULE Ingestion -----------------------------
(***************************************************************************)
(* One source's way into the graph: app/pipeline.py run_source over any of *)
(* the connectors (app/connectors/base.py, module Connectors), beside the  *)
(* webhooks (app/main.py), which land documents in raw_documents without   *)
(* the pipeline.  The scheduler runs the pipeline again and again, one run *)
(* at a time; a run may be forced, and may raise or die at any point.  The *)
(* version of an item stands for its content and for the content's hash.   *)
(***************************************************************************)
EXTENDS Connectors, Sequences, SequencesExt

CONSTANTS
  Forces,         \* the values of run_source's force
  Sources,        \* the sources to look at, each in behaviours of its own
  MaxEdits,       \* bound: creations and edits, of all items
  MaxClock,       \* bound: ticks
  MaxFailures     \* bound: runs that raise or die, and downloads that fail

ASSUME SourcesAssumption == Sources \subseteq Source /\ Forces \subseteq BOOLEAN
ASSUME BoundAssumption ==
  MaxClock \in Nat \ {0} /\ {MaxEdits, MaxFailures} \subseteq Nat

VARIABLES
  source,                   \* the connector, chosen once
  clock,                    \* upstream: the time of the last write
  version, serial, stamp,   \* upstream: each item, as module Connectors has it
  hash, extracted,          \* raw_documents.content_hash, extracted_hash; 0 = NULL
  cursor,                   \* IngestionRun.cursor of the newest completed run
  known,                    \* the version of each item that the graph speaks of
  pc,                       \* the pipeline: "idle", "fetching", "fetched", "resolving"
  reading,                  \* a fetch of pages under way: the listings still open, the
                            \* number of results each has had, the version each item
                            \* came in (0 = not met) and the newest of their stamps
  fetched,                  \* what fetch() returned: [item -> version], a cursor
  batch,                    \* documents to extract and to resolve, with their version
  due,                      \* history: stored when a forced run looks at its documents,
                            \* and not extracted yet
  cut,                      \* history: cut off by max_items, before the new cursor
  left,                     \* history: in a failed batch, or a download passed by
  slipped,                  \* history: moved by a write to where a fetch of pages had
                            \* been already
  failures

upstream == <<source, clock, version, serial, stamp>>
rows     == <<hash, extracted, cursor, known>>
run      == <<pc, reading, fetched, batch, due>>
lost     == <<cut, left, slipped>>
vars     == <<upstream, rows, run, lost, failures>>

up == [version |-> version, serial |-> serial, stamp |-> stamp]

Version == 0 .. MaxEdits
Nothing == [docs |-> <<>>, cursor |-> 0]

\* No page has been read yet.
Unread(open) ==
  [open |-> open, count |-> [l \in Listing |-> 0],
   version |-> [d \in Doc |-> 0], newest |-> 0]

\* The items that the pages have brought.
Met == {d \in Doc : reading.version[d] > 0}

\* The sources whose stamps are times.
Dated == {"github", "jira", "confluence", "linear", "gdrive"}

Init ==
  /\ source \in Sources
  /\ clock = 1
  /\ version = [d \in Doc |-> 0] /\ serial = version /\ stamp = version
  /\ hash = version /\ extracted = version /\ known = version
  /\ cursor = 0
  /\ pc = "idle" /\ reading = Unread({}) /\ fetched = Nothing /\ batch = <<>>
  /\ due = {}
  /\ cut = {} /\ left = {} /\ slipped = {} /\ failures = 0

-----------------------------------------------------------------------------
(* Upstream, and the webhooks. *)

\* Stamps in milliseconds (Linear, Drive) tell a write from the listings before
\* it: a request takes longer than a tick.  In one second a write can still follow
\* a listing.
Fine == {"linear", "gdrive"}

\* The times of the next write, where it has one: those of the last one and later.
Now ==
  IF source \in Dated
  THEN {t \in clock .. MaxClock : source \in Fine => t > Max({cursor, fetched.cursor})}
  ELSE {clock}

\* The two listings of GitHub share a cursor: a write after the first page of the
\* one that lists the item may come before the newest item of the other.
Slip(d) ==
  IF /\ source = "github" /\ pc = "fetching"
     /\ \E l \in Listings(source) : d \in Of(l) /\ (l \in reading.open => reading.count[l] > 0)
  THEN slipped \union {d}
  ELSE slipped \ {d}

\* An item is created: its stamp is the time, or its place in the order of
\* creation.  Several may come in one tick.
Create(d) ==
  /\ version[d] = 0 /\ SumFunction(version) < MaxEdits
  /\ clock' \in Now
  /\ version' = [version EXCEPT ![d] = 1]
  /\ serial' = [serial EXCEPT ![d] = 1 + Cardinality(Exists(up))]
  /\ stamp' = [stamp EXCEPT ![d] = IF source \in Stamped THEN serial'[d] ELSE clock']
  /\ slipped' = Slip(d)
  /\ UNCHANGED <<source, rows, run, cut, left, failures>>

\* An item is edited; a Slack thread gets a reply, which leaves the ts of its
\* root message alone.  Mails do not change.
Edit(d) ==
  /\ version[d] > 0 /\ SumFunction(version) < MaxEdits
  /\ source # "imap"
  /\ clock' \in Now
  /\ version' = [version EXCEPT ![d] = @ + 1]
  /\ stamp' = [stamp EXCEPT ![d] = IF source \in Stamped THEN @ ELSE clock']
  /\ IF source \in Stamped
     THEN UNCHANGED lost
     ELSE cut' = cut \ {d} /\ left' = left \ {d} /\ slipped' = Slip(d)
  /\ UNCHANGED <<source, serial, rows, run, failures>>

\* github_webhook, jira_webhook: the upsert takes what the event carries, however
\* late or often it comes.  Nothing makes it come.
Deliver(d, v) ==
  /\ source \in Pushed /\ v \in 1 .. version[d] /\ v # hash[d]
  /\ hash' = [hash EXCEPT ![d] = v]
  /\ UNCHANGED <<upstream, extracted, cursor, known, run, lost, failures>>

-----------------------------------------------------------------------------
(* run_source. *)

\* The items the connector's query would list now.
ListedAt(c) == Listed(source, up, c)

\* The beginning of a run, and of connector.run in it: last_cursor and a fetch()
\* whose listing is of one moment.
Fetch ==
  /\ pc = "idle" /\ source \notin Paged /\ pc' = "fetched"
  /\ UNCHANGED <<upstream, rows, reading, batch, due, slipped>>
  /\ \E r \in Fetches(source, up, cursor) :
       /\ r.skipped # {} => failures < MaxFailures
       /\ failures' = IF r.skipped # {} THEN failures + 1 ELSE failures
       /\ fetched' = [docs |-> [d \in r.docs |-> version[d]], cursor |-> r.cursor]
       /\ left' = left \union (r.skipped \ ListedAt(r.cursor))
       /\ cut' = cut \union ((r.listed \intersect Texts(source))
                               \ (r.docs \union r.skipped \union ListedAt(r.cursor)))

\* The same where fetch() asks for a page at a time, under the cursor of its
\* beginning.
StartPaging ==
  /\ pc = "idle" /\ source \in Paged /\ pc' = "fetching"
  /\ reading' = Unread(Listings(source))
  /\ UNCHANGED <<upstream, rows, fetched, batch, due, lost, failures>>

\* The pages that a request of l may bring while these items stand in it: a page
\* begins after as many items as l has brought already, wherever these stand by now;
\* without a write they stand where they stood.
Pages(l, standing) ==
  LET stop     == Min({reading.count[l] + PageSize, MaxItems})
      front(n) == Fronts(l, up, standing, n)
      begin    == front(reading.count[l])
      brought  == Met \intersect Of(l)
  IN  {p \in [before : IF brought \in begin THEN {brought} ELSE begin, upto : front(stop)] :
         p.before \subseteq p.upto}

\* One request.  An item that its page does not bring, as it stands before the page
\* by now, has slipped.
ReadPage(l) ==
  /\ pc = "fetching" /\ l \in reading.open
  /\ UNCHANGED <<upstream, rows, pc, fetched, batch, due, cut, left, failures>>
  /\ \E standing \in {Standing(source, l, up, cursor)} : \E p \in Pages(l, standing) :
       LET page == (p.upto \ p.before) \intersect Of(l)
           late == {d \in p.before \intersect Of(l) : reading.version[d] # version[d]}
           last == \/ LastPage(source, l, up, standing, reading.count[l] + PageSize)
                   \/ Cardinality(p.upto) = MaxItems
       IN  /\ reading' =
                [open    |-> IF last THEN reading.open \ {l} ELSE reading.open,
                 count   |-> [reading.count EXCEPT ![l] = Cardinality(p.upto)],
                 version |-> [d \in Doc |-> IF d \in page THEN version[d] ELSE reading.version[d]],
                 newest  |-> Max({reading.newest} \union {stamp[d] : d \in page})]
           /\ slipped' = (slipped \union late) \ page

\* The last page is there: the documents, and the cursor of the newest of them.
Collect ==
  /\ pc = "fetching" /\ reading.open = {} /\ pc' = "fetched"
  /\ LET new  == IF Met = {} THEN cursor ELSE reading.newest
         full == {l \in Listing : reading.count[l] = MaxItems}
     IN  /\ fetched' = [docs |-> [d \in Met |-> reading.version[d]], cursor |-> new]
         /\ cut' = cut \union {d \in ListedAt(cursor) \ (Met \union slipped \union ListedAt(new)) :
                                 \E l \in full : d \in Of(l)}
  /\ reading' = Unread({})
  /\ UNCHANGED <<upstream, rows, batch, due, left, slipped, failures>>

\* Mutant: a document whose row is up to date counts as unchanged.
UnlikeRow(d) == hash[d] # fetched.docs[d]

\* The fetched content is not the one extracted last.
Changed(d) == extracted[d] # fetched.docs[d]

\* The fetched documents' rows with their new content.
Upserted(column) ==
  [d \in Doc |-> IF d \in DOMAIN fetched.docs THEN fetched.docs[d] ELSE column[d]]

\* The documents run_source goes on with, in the order they came.
Batches(force) ==
  LET taken == {d \in DOMAIN fetched.docs : force \/ Changed(d)}
  IN  {[k \in DOMAIN order |-> <<order[k], fetched.docs[order[k]]>>] :
         order \in SetToSeqs(taken)}

\* Mutant: extracted_hash is written with the row, before the extraction.
StoreStamps ==
  /\ pc = "fetched"
  /\ hash' = Upserted(hash) /\ extracted' = Upserted(extracted)
  /\ cursor' = fetched.cursor
  /\ \E force \in Forces :
       /\ batch' \in Batches(force)
       /\ due' = IF force THEN {d \in Doc : hash'[d] # 0} ELSE {}
  /\ fetched' = Nothing
  /\ pc' = "resolving"
  /\ UNCHANGED <<upstream, known, reading, lost, failures>>

\* The rest of connector.run, the upserts and the cursor in one commit, and the
\* choice of the documents to extract.  All of them go through the LLM, which
\* writes nothing, before the first one is resolved.
Store ==
  /\ pc = "fetched"
  /\ hash' = Upserted(hash)
  /\ cursor' = fetched.cursor
  /\ \E force \in Forces :
       /\ batch' \in Batches(force)
       /\ due' = IF force THEN {d \in Doc : hash'[d] # 0} ELSE {}
  /\ fetched' = Nothing
  /\ pc' = "resolving"
  /\ UNCHANGED <<upstream, extracted, known, reading, lost, failures>>

\* One document: extracted_hash and its graph rows, in one commit.
Resolve ==
  /\ pc = "resolving" /\ batch # <<>>
  /\ LET d == Head(batch)[1]
         v == Head(batch)[2]
     IN  /\ extracted' = [extracted EXCEPT ![d] = v]
         /\ known' = [known EXCEPT ![d] = v]
         /\ due' = due \ {d}
         /\ cut' = IF v = version[d] THEN cut \ {d} ELSE cut
         /\ left' = IF v = version[d] THEN left \ {d} ELSE left
         /\ slipped' = IF v = version[d] THEN slipped \ {d} ELSE slipped
  /\ batch' = Tail(batch)
  /\ UNCHANGED <<upstream, hash, cursor, pc, reading, fetched, failures>>

\* Mutant: the loop ends after its first document.
FinishEarly ==
  /\ pc = "resolving"
  /\ pc' = "idle" /\ due' = {}
  /\ UNCHANGED <<upstream, rows, reading, fetched, batch, lost, failures>>

Finish ==
  /\ pc = "resolving" /\ batch = <<>>
  /\ pc' = "idle" /\ due' = {}
  /\ UNCHANGED <<upstream, rows, reading, fetched, batch, lost, failures>>

\* The run raises (the API, the LLM, a proposal that fails to apply) or its
\* process dies: the open transaction is rolled back, and what the batch still
\* held is in nobody's hands.
Fail ==
  /\ pc # "idle" /\ failures < MaxFailures
  /\ failures' = failures + 1
  /\ left' = left \union {batch[k][1] : k \in DOMAIN batch}
  /\ pc' = "idle" /\ reading' = Unread({}) /\ fetched' = Nothing /\ batch' = <<>>
  /\ due' = {}
  /\ UNCHANGED <<upstream, rows, cut, slipped>>

Paging == StartPaging \/ (\E l \in Listing : ReadPage(l)) \/ Collect

Pipeline == Fetch \/ Paging \/ Store \/ Resolve \/ Finish

Next ==
  \/ \E d \in Doc : Create(d) \/ Edit(d)
  \/ \E d \in Doc, v \in Version : Deliver(d, v)
  \/ Pipeline \/ Fail

Spec == Init /\ [][Next]_vars

\* The scheduler starts a run after the other, and a run goes on.
FairSpec == Spec /\ WF_vars(Pipeline)

-----------------------------------------------------------------------------
(* Properties. *)

\* Every row speaks of a version the source has had, a cursor is a stamp that has
\* been, and between two runs nothing is left in the pipeline's hands.
TypeOK ==
  /\ source \in Sources /\ clock \in 1 .. MaxClock
  /\ version \in [Doc -> Version] /\ serial \in [Doc -> 0 .. Cardinality(Exists(up))]
  /\ stamp \in [Doc -> 0 .. Max({clock, Cardinality(Exists(up))})]
  /\ {cursor, fetched.cursor, reading.newest} \subseteq {0} \union 0 .. Max({stamp[d] : d \in Doc})
  /\ \A d \in Doc : {hash[d], extracted[d], known[d]} \subseteq 0 .. version[d]
  /\ pc \in {"idle", "fetching", "fetched", "resolving"}
  /\ reading.open \subseteq Listings(source)
  /\ \A l \in Listing : reading.count[l] \in 0 .. MaxItems
  /\ \A d \in Doc : reading.version[d] \in 0 .. version[d]
  /\ pc # "fetching" => reading = Unread({})
  /\ DOMAIN fetched.docs \subseteq Texts(source)
  /\ batch \in Seq(Doc \X Version)
  /\ pc # "fetched" => fetched = Nothing
  /\ pc \in {"idle", "fetching", "fetched"} => batch = <<>>
  /\ due \subseteq Doc
  /\ cut \union left \union slipped \subseteq Doc /\ failures \in 0 .. MaxFailures

\* A document that the next run would skip as unchanged (extracted_hash is its
\* content_hash) is in the graph as it stands in raw_documents: neither a crash
\* between the two commits nor a webhook that replaces the row while the run
\* holds the older content lets the pair of hashes agree by accident.
SkipIsSound ==
  \A d \in Doc : hash[d] # 0 /\ hash[d] = extracted[d] => known[d] = hash[d]

\* The graph speaks of the item as it is; of a Slack thread, as it once was: a
\* reply to a thread before the cursor needs a full resync (slack.py says so).
Settled(d) == IF source \in Stamped THEN known[d] > 0 ELSE known[d] = version[d]

\* The items to account for: those with text, but for the three known losses.
Owed == {d \in Exists(up) \intersect Texts(source) : d \notin cut \union left \union slipped}

\* No cursor passes an item over but in three ways: between two runs, one that the
\* connector's next query would not list is in the graph in its newest version,
\* unless max_items cut it off, its batch or download failed, or a write between
\* two requests of one fetch moved it.  In Jira and Confluence an edit of an item
\* on a page already read moves the rest up, the first item of the next page on to
\* the page before it; in GitHub a write can come after its own listing and before
\* the newest item of the other.  Webhooks that store an item first, edits within
\* the cursor's tick and items without text that move the cursor lose nothing.
NothingPassedOver == pc = "idle" => \A d \in Owed \ ListedAt(cursor) : Settled(d)

\* Jira, Confluence and IMAP list the oldest first: what max_items cuts off lies
\* after the new cursor, and a later run lists it again, whatever is written between
\* the requests.  (Where the newest come
\* first, or a stamp equal to the cursor is not listed, the cut loses items.)
CutIsListedAgain == source \in {"jira", "confluence", "imap"} => cut = {}

\* A fetch that is cut and leaves the cursor where it is: the next one brings the
\* same items.  More than max_items items share a minute, or the first of a Drive
\* folder are binaries, or a source without cursor has too many (Zoom: more than a
\* page).
Stuck ==
  \E r \in Fetches(source, up, cursor) :
    r.cursor = cursor /\ r.skipped = {} /\ ~(r.listed \intersect Texts(source) \subseteq r.docs)

\* Once the source is quiet, the runs bring the graph to its newest version of
\* every item, with the three exceptions, and unless a cut fetch is stuck.
Converges == <>[]((\A d \in Owed : Settled(d)) \/ Stuck)

\* "--force re-extracts": a forced run that reaches its end has extracted every
\* document that was in raw_documents when it began.  (It has not: the connector
\* hands it only the documents since the cursor.)
ForceReextracts == pc = "resolving" /\ batch = <<>> => due = {}
=============================================================================
