----------------------------- MODULE Connectors -----------------------------
(***************************************************************************)
(* What one fetch() of a connector (app/connectors) brings: which items    *)
(* the upstream API lists for the cursor, which of them the cut to         *)
(* ingest_max_items keeps, which become documents, and the cursor that     *)
(* the run will store.  Every operator yields the set of possible results. *)
(* up describes the source at the moment of a request:                     *)
(*   up.version  0 = the item does not exist (yet)                         *)
(*   up.serial   the order of creation                                     *)
(*   up.stamp    what the source filters by: updated_at, modifiedTime, the *)
(*               ts of a Slack message, the UID of a mail; a time as the   *)
(*               source writes it, read back in the same zone              *)
(* A cursor is a stamp, 0 = NULL.  A tick is the finest difference between *)
(* two stamps that the connector sees; Grain ticks make the coarser unit   *)
(* to which Jira, Confluence (minutes) and Drive (seconds) round a cursor. *)
(* Pages that are asked for by number (GitHub, Jira, Confluence) shift     *)
(* under writes between two requests: a fetch of these takes a step per    *)
(* page.  A page asked for by a token goes on where the one before ended,  *)
(* whatever is written meanwhile: such a fetch is one step.                *)
(***************************************************************************)
EXTENDS Naturals, FiniteSets, FiniteSetsExt

CONSTANTS
  Doc,        \* items of one resource; the number is the place in path order
  Issue,      \* github: issues, the others being pull requests
  Mute,       \* items without text: join messages, binaries, unrecorded meetings
  MaxItems,   \* ingest_max_items
  PageSize,   \* items in a page of a listing
  Grain       \* ticks in a rounded cursor's unit

ASSUME DocAssumption ==
  Doc \subseteq Nat /\ IsFiniteSet(Doc) /\ Issue \subseteq Doc /\ Mute \subseteq Doc
ASSUME UnitAssumption == {MaxItems, PageSize, Grain} \subseteq Nat \ {0}

Source == {"github", "slack", "jira", "confluence", "linear", "gdrive", "imap",
           "notion", "teams", "zoom", "local"}

\* Sources whose items cannot be edited under a new stamp.
Stamped == {"slack", "imap"}

\* Sources whose webhook stores the document under the connector's own key.
Pushed == {"github", "jira"}

\* Connectors that drop items without text.
Deaf == {"slack", "gdrive", "zoom"}

Exists(up) == {d \in Doc : up.version[d] > 0}

\* Mutant: an item of the cursor's own tick counts as older.
SinceExclusive(up, c) == {d \in Exists(up) : up.stamp[d] > c}

Since(up, c) == {d \in Exists(up) : up.stamp[d] >= c}

After(up, c) == {d \in Exists(up) : up.stamp[d] > c}

Floor(t) == (t \div Grain) * Grain

\* The items the connector's query lists for the cursor c: those from the cursor
\* on, from the beginning of its minute on, after it, or all of them.
Listed(source, up, c) ==
  CASE source = "github"                             -> Since(up, c)
    [] source \in {"jira", "confluence"}              -> Since(up, Floor(c))
    [] source \in {"slack", "linear", "gdrive", "imap"} -> After(up, c)
    [] source \in {"notion", "teams", "zoom", "local"}  -> Exists(up)

-----------------------------------------------------------------------------
(* The first n items of a listing: results[: max_items], and pages.        *)

Cuts(S, n) ==
  IF Cardinality(S) <= n THEN {S} ELSE {P \in SUBSET S : Cardinality(P) = n}

NewestOf(S, key, n) == {P \in Cuts(S, n) : \A d \in P, e \in S \ P : key[e] <= key[d]}

\* Mutant: the listing's order is not asked for.
OldestOfUnordered(S, key, n) == Cuts(S, n)

OldestOf(S, key, n) == {P \in Cuts(S, n) : \A d \in P, e \in S \ P : key[d] <= key[e]}

\* max(stamps) if there are any, the old cursor otherwise.
Latest(P, key, c) == IF P = {} THEN c ELSE Max({key[d] : d \in P})

\* skipped: items whose download failed and which the loop passed by.
Result(listed, docs, skipped, cursor) ==
  [listed |-> listed, docs |-> docs, skipped |-> skipped, cursor |-> cursor]

-----------------------------------------------------------------------------
(* Listings that are read page by page. *)

\* Sources whose pages are asked for by their place in the listing.
Paged == {"github", "jira", "confluence"}

Listing == {"pulls", "issues", "search"}

\* What asyncio.gather runs side by side, and the one search of the others.
Listings(source) == IF source = "github" THEN {"pulls", "issues"} ELSE {"search"}

\* The items that the connector makes documents of when it meets them there.
Of(listing) ==
  CASE listing = "pulls"  -> Doc \ Issue
    [] listing = "issues" -> Issue
    [] listing = "search" -> Doc

\* The items that stand in the listing: GitHub lists the pull requests among the
\* issues too, and the pull requests end at the first one older than the cursor.
Standing(source, listing, up, c) ==
  IF listing = "pulls" THEN Listed(source, up, c) \ Issue ELSE Listed(source, up, c)

\* Its first n items: pull requests by last update, issues by creation, the newest
\* first; a search with the oldest update first.
Fronts(listing, up, S, n) ==
  CASE listing = "pulls"  -> NewestOf(S, up.stamp, n)
    [] listing = "issues" -> NewestOf(S, up.serial, n)
    [] listing = "search" -> OldestOf(S, up.stamp, n)

\* The page that ends with the n-th item of S is the last one: it is short, or
\* there is no next link, or startAt has come to the total.
LastPage(source, listing, up, S, n) ==
  \/ Cardinality(S) < n
  \/ Cardinality(S) = n /\ source # "confluence" /\ listing # "pulls"
  \/ listing = "pulls" /\ Cardinality(Exists(up) \ Issue) <= n

\* What a fetch of pages brings if nothing is written between its requests.  The
\* two listings of GitHub are cut one by one and have one cursor.
Undisturbed(source, up, c) ==
  LET of(docs)  == Result(Listed(source, up, c), docs, {}, Latest(docs, up.stamp, c))
      found(l)  == {P \intersect Of(l) : P \in Fronts(l, up, Standing(source, l, up, c), MaxItems)}
  IN  IF source = "github"
      THEN {of(P \union I) : P \in found("pulls"), I \in found("issues")}
      ELSE {of(P) : P \in found("search")}

-----------------------------------------------------------------------------
(* The other connectors with a cursor. *)

\* System messages move the cursor and become no document.
Slack(up, c) ==
  LET listed == Listed("slack", up, c)
  IN  {Result(listed, P \ Mute, {}, Latest(P, up.stamp, c)) : P \in NewestOf(listed, up.stamp, MaxItems)}

\* orderBy: updatedAt, the direction being the API's.
Linear(up, c) ==
  LET listed == Listed("linear", up, c)
  IN  {Result(listed, P, {}, Latest(P, up.stamp, c)) :
         P \in NewestOf(listed, up.stamp, MaxItems) \union OldestOf(listed, up.stamp, MaxItems)}

\* modifiedTime > cursor, oldest first; the cursor is that of the newest text
\* file, in whole seconds.
GDrive(up, c) ==
  LET listed == Listed("gdrive", up, c)
  IN  {Result(listed, P \ Mute, {}, Floor(Latest(P \ Mute, up.stamp, c))) :
         P \in OldestOf(listed, up.stamp, MaxItems)}

\* UIDs above the cursor, lowest first; a FETCH that is not OK is passed by.
Imap(up, c) ==
  LET listed == Listed("imap", up, c)
  IN  UNION {{Result(listed, P \ F, F, Latest(P \ F, up.stamp, c)) : F \in SUBSET P} :
               P \in OldestOf(listed, up.stamp, MaxItems)}

-----------------------------------------------------------------------------
(* Connectors without one list everything again. *)

Notion(up) == {Result(Exists(up), P, {}, 0) : P \in Cuts(Exists(up), MaxItems)}

\* Of one channel: every channel is cut by itself.
Teams(up) == {Result(Exists(up), P, {}, 0) : P \in Cuts(Exists(up), MaxItems)}

\* Only the first page of the recordings is asked for.
Zoom(up) ==
  {Result(Exists(up), P \ Mute, {}, 0) : P \in Cuts(Exists(up), Min({PageSize, MaxItems}))}

\* sorted(paths)[: max_items]
Local(up) == {Result(Exists(up), P, {}, 0) : P \in OldestOf(Exists(up), [d \in Doc |-> d], MaxItems)}

\* ConnectorFactory.create, and fetch() with the cursor of last_cursor().
Fetches(source, up, c) ==
  CASE source \in Paged       -> Undisturbed(source, up, c)
    [] source = "slack"      -> Slack(up, c)
    [] source = "linear"     -> Linear(up, c)
    [] source = "gdrive"     -> GDrive(up, c)
    [] source = "imap"       -> Imap(up, c)
    [] source = "notion"     -> Notion(up)
    [] source = "teams"      -> Teams(up)
    [] source = "zoom"       -> Zoom(up)
    [] source = "local"      -> Local(up)

\* The items that a connector can make a document of.
Texts(source) == IF source \in Deaf THEN Doc \ Mute ELSE Doc
=============================================================================
