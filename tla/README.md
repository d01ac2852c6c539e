# Featmap: a formal model

Featmap is a user story mapping server: a Go HTTP and MCP service over
Postgres, a React client with an optimistic store, and a two-way comment mirror
to Plane (an issue tracker). This directory holds TLA+ models of its stateful
parts, the TLC configurations that check them on small instances, and TLAPS
proofs of the theorems that hold for every instance.

    tlc -config PlaneSync_recovery.cfg MCPlaneSync.tla
    tlapm PlaneSync_proofs.tla

`PROJECT.json` lists the runs, the code lines each definition models, a mutant
of the code for every property, the hazards, the disagreements found between
code and documents, and the theorems.

## 1. Inventory

| Part | State | Operations | Hard because | Correct if |
|---|---|---|---|---|
| Plane comment sync (`service.go` SyncLink, SyncProject; `plane*.go`, `mcp_plane.go`) | tables plane_connections, plane_links, plane_comment_map, feature_comments; Plane's own comments | link, unlink, sync by request, MCP call or poller, push, pull | two systems and no common transaction, concurrent runs, lost answers, stale reads | one copy on each side, map rows pair true copies, "ok" is honest, everything arrives |
| Poller (`plane_poller.go`) | one transaction per cycle, a savepoint per connection | poll cycle | partial rollback, panic isolation | one connection's failure leaves the others' work |
| Board (`service.go` create, move, edit, reorder, delete of projects, milestones, workflows, subworkflows, features; `lexorank/`) | five tables, four ordered by rank strings with unique (parent, rank) | create, move, reorder, delete, rename, open/close, recolour, annotate, estimate | ranks computed from a read, concurrent moves, whole-row upserts | rows land where asked, ranks never run out, no row without parent |
| Bulk MCP tools (`mcp_bulk*.go`) | none beyond the board; a savepoint per item | bulk create, patch (fields, then place), delete, reorder | one item failing among several, at a later one of its statements | failed items leave nothing, others stay, the answer says which |
| Workspaces, members, invites (`service.go`, `workspace-api.go`) | workspaces, members, invites | create, delete, invite, accept, change level, remove, leave | check-then-write races, cascades | an owner remains, keys agree, editors fit the seats |
| Subscriptions (`stripe.go`, `subscription-api.go`) | subscriptions, Stripe's sessions | checkout, change, cancel, webhooks | webhooks duplicated and reordered, stale rows written back | seats cover the editors |
| Accounts (`users-api.go`, `account-api.go`) | accounts, the session cookie | register, log in and out, verify and change e-mail, reset password, close, API keys | whole-row writes of stale rows, one-use keys | no change undone, a key used once |
| Personas (`service.go`, `Personas.tsx`) | personas, workflow_personas | create, update, delete, attach, detach | a persona stored before its call is refused | client and server agree |
| Transactions (`mware.go`, `repo.go`) | one transaction per request | begin, savepoint, commit, roll back on a panic | READ COMMITTED, a failed commit is not reported | all or nothing |
| Web client: the open project (`webapp/src/store`, `Board.tsx`, `EntityDetailsBody.tsx`, `CreateCardModal.tsx`, `Personas.tsx`) | normalised store of eight slices | optimistic create, move, edit, delete of cards, comments, personas and tags; ranks computed on the client | answers out of order, some answers unused, undoing an optimistic change | the page ends as the server's tables, a card can be dropped anywhere, nothing deleted comes back |
| Web client: the pages (`App.tsx`, `pages/`, the other forms) | application slice, list of projects, lists of a page | routes, redirects, loading, logins, forms without optimistic changes | answers for a page that was left, sessions changing under a page, redirects while loading | a page shows its own data and the session's, none hangs or fails |
| E-mail, key encryption, address checks, HTML clean-up, static files, command line | none or trivial | | pure I/O | |

How they interact: each request runs in one transaction (`mware.go` Transaction,
`repo.go` txnDo), commits unless a handler panics, and shares nothing in memory
with other requests; tables are the only meeting point. The poller opens its
own transaction per cycle. Plane and Stripe are called, or call, outside any
transaction. The client applies a change to its store first, sends it, and
merges or discards the server's answer.

## 2. Modules

| Module | Models | Used by |
|---|---|---|
| `PlaneSync` | the sync, its callers and the link and comment operations beside it | `MCPlaneSync`, `PlaneSync_proofs` |
| `CommentMirror` | abstract: what the sync promises of one card and one work item | `PlaneSync` (refinement) |
| `Lexorank` | rank strings and `Rank`, as an operator | `LexorankLoop`, `Board`, `ClientStore`, the proofs |
| `LexorankLoop` | `lexorank.Rank` turn by turn of its loop | `MCLexorank`, `LexorankLoop_proofs` |
| `Board` | requests on the five tables of the story map, over `Lexorank` | `BulkTools`, `MCBoard`, `BulkTools_proofs` |
| `BulkTools` | bulk calls with a savepoint per item, beside the requests of `Board` | `MCBulkTools`, `BulkTools_proofs` |
| `OrderedLists` | abstract: the cells as lists of cards | `MCBoard` (refinement) |
| `Membership` | one workspace: members, invites, accounts, subscription | `MCMembership`, `Membership_proofs` |
| `ClientStore` | the client's slices and reducers, over `Lexorank` | `ClientApi` |
| `ClientApi` | the calls on an open project: what the server stores and answers | `ClientNet` |
| `ClientNet` | the page, its calls under way, the network, and the answers' handlers | `ClientCards`, `ClientPeople` |
| `ClientCards`, `ClientPeople` | the forms over cards; over comments, personas and tags | `ClientBoard` |
| `ClientBoard` | their composition, and its properties | `MCClientBoard`, `ClientBoard_proofs` |
| `ClientRoutes` | addresses, the pages mounted for them, what the server keeps and answers | `ClientPages` |
| `ClientPages` | the forms outside an open project, sessions, navigation, the answers | `MCClientPages`, `ClientPages_proofs`, `ClientShown_proofs` |
| `MC*` | initial states, budgets and symmetry for TLC | the `.cfg` files |
| `*_proofs` | the theorems of section 6 | |

The server's models share one view of the database: a request or a syncer is a
process with at most one open transaction at READ COMMITTED, each of its reads
is a step that sees what is committed at that moment, and what it read stays
with it (`job`, `tx`, `bulk`) until it is used. A definition commented `Bug:` is
not part of the model: it is the form a plausible mistake would give to the
definition after it, and shows that a property can fail.

### PlaneSync

* `comments`, `rows`, `links`, `cards` are the committed tables; `writes[s]` is
  what syncer `s` has written and not committed; `plane` is Plane's own list,
  which no rollback touches. `job[s]` holds the Go variables of SyncLink:
  `known` is the map read at the start with this run's pushes, from which
  `MappedLocals` and `MappedPlane` are derived, `seen` the comments read,
  `listed` those Plane returned, `at` the place in the current loop, `link` the
  row read when the run began.
* One action per SQL statement or Plane request: `ReadRows`, `ReadComments`,
  `Push`/`PushRefused`/`PushLost`, `RecordPush`, `ListItem`/`ListFails`, `Pull`,
  `PullRejected`, `StoreLink`, `Commit`. `Panic` is `MustExec` on a unique key or
  a deadlock, `Crash` the loss of the process or of the connection.
* Uncommitted rows lock their keys: `Waits`, `Blocked`, `Collides` and
  `Deadlocked` are Postgres's rules for the three keys the sync can meet. They
  are what the migration declares; the service has no lock of its own.
* Members write, delete, link, retarget and unlink, and delete cards, between
  any two steps. A text is written once, so that copies can be counted.

### Lexorank, LexorankLoop

A letter is its index in the alphabet, a rank a sequence of letters. `Rank` names
the first position that splits the two words; `LexorankLoop` has one action for
each branch of the loop (`Same`, `Adjacent`, `Split`, `Return`), and
`LoopComputesRank` ties the two together. `src/lexorank/lexorank.go` and
`webapp/src/core/lexorank.ts` are the same algorithm.

### Board

* `rows` is one function over the ids of five tables; `Places` gives each table
  its foreign keys. `tx[c]` is a request: its stage, the rows it will upsert, and
  `under`, history: the rows the new one is meant to follow.
* A request reads (`Create`, `Edit`, `Move`, `Reorder` open it; `FindLast`,
  `MoveTo`, `Allocate` compute the rank) and then writes. Its upserts and its
  commit are one step (`Store`): until the commit no other transaction sees the
  writes, and one that meets the same keys waits for it, so that the order of
  commits is the order of effects. What waiting could do otherwise, a deadlock or
  a timeout, is `Abort`. `Store` checks every upsert in its order against the
  unique keys and foreign keys (`Accepted`); where one fails, `MustExec` panics
  (`StorePanics`).
* An index is a cut of the list (`Cuts`): index and cut determine each other. An
  index behind the end is an action of its own (`MoveTooFar`), since the code
  reads past its slice there and the request panics.
* All edits of one row are `Edit`: each reads the row, changes a field and writes
  all columns back.

### BulkTools

* A bulk call (`runBulkTx` in `mcp_bulk.go` and the tools that use it) is a
  transaction of several items. `Begin` takes the tool, the table and the number of
  items; `NextItem` sets the savepoint and says what the item wants; its
  statements read (`CreateWant`, `EditWant`, `MoveWant`, `DeleteWant`) and write
  (`WriteWant`); an item that patches fields and place has two. `WantRefused` is a
  returned error or a slice read past its end, `WritePanics` a violated key;
  either way `RollBackItem` goes back to the savepoint and the call goes on.
* Here the writes of an open transaction matter, since the call goes on after
  them: `item` is what was written since the savepoint, `kept` what the items
  before have, and the call's own reads see both (`View`, with Board's reads by
  `INSTANCE Board WITH rows <- View(c)`). `WaitsFor` is Postgres's rule for the
  others: a writer waits for a call that has written one of its rows, or on whose
  end it depends whether a key is violated.
* A row that was found may be gone when it is deleted. The `DELETE` then matches
  nothing (`Matches`): it takes no lock, is no error, and the item is answered like
  one that deleted. Whoever read the row before may put it back, and commit, before
  the call does. `hit` in a result is history: whether the statement met a row.
* The requests of `Board` run beside it unchanged (`Beside`), but for waiting.

### Membership

* One workspace in hosted mode. Row ids of members and invites are numbers drawn
  from `made`. An account is a row with an address and, while one waits to be
  confirmed, the address it was `sent` to; a membership names the account, an invite
  the address, and accepting one finds the account by its address as it is then.
* `Arrive` and `Route` are the middleware: the member who asks is read, then the
  subscription, and the route demands a level and a status (`Admitted`). The rest
  follows the handlers' statements; a refusal of any check is `Fail`.
* `StoreLevel` is an upsert of the member read before, and inserts him again if he
  is gone. Deleting a member takes his invites with him (`DeleteMembers`).
* `Register` finds a free address. `FindEmail` and `StoreEmail` are UpdateEmail,
  `FindConfirmed` to `StoreConfirmed` ConfirmEmail: the new address is compared with
  the accounts, and with no invite. Every change of an account is an upsert of its
  whole row (`StoreAccount`), that of the latest activity too (`StoreVisit`): what
  another request changed in between is undone, and a closed account is there
  again.
* Stripe: a checkout leaves a session that is completed later, once; an update
  webhook may bring any status and seats, so nothing depends on the order of
  updates; `Expire` ends a trial. The level NONE of a subscription is never
  assigned by the code and is left out.

### OrderedLists

What one client may expect of the cards' lists. `asked` is the request that is
about to take effect: a card at the end of a list, a card at an index, or an order of
a list; the answer does exactly that or changes nothing. Under the refinement
(`AskedOf` in MCBoard) it is what a request of Board has decided to store, and a
deletion removes one card or all of some cells. One thing is weaker than the index
that is asked for: a move may land before it where two neighbours leave no
rank between them (`board_index` shows that the code does so), though never at an
end and never behind the card it was moved in front of.

### The client's open project

* `store` is the union of the client's slices, `rows` the server's tables in the
  same form. The reducers are those of `webapp/src/store/*/reducers.ts`;
  `Dispatched` is `combineReducers`. The store's lists keep no order of their own:
  what is shown is ordered by rank, as the selectors do it.
* A form's action dispatches to the store and sends a call (`Submit`); a move
  computes the rank on the client. `Serve` is the whole request on the server
  (`Served`), one at a time: what concurrent requests do to the tables is Board's
  matter. Calls are served in any order, and their answers arrive in any order.
* The handlers of the answers differ per form, and the model keeps the
  differences: the answer to a move is made into an action that nobody
  dispatches, the one to closing a workflow goes to the features' reducer, a
  persona's is dropped, a refused creation deletes the optimistic card and
  alerts, other refusals only alert.
* `why` records what may leave page and server apart from then on, so that the
  properties can say under which circumstances they agree: the deletion of a card
  sent before its creation is answered, an edit beside a call whose answer is not
  used, a move beside other calls, an answer overtaken by a newer one, a lost
  call, an alert, the page reopened beside a call, deletions by other members.
* `Lose`, `Refuse` and `DeletedElsewhere` are the faults; a viewer sends no form, a
  demo sends no call.

### The client's pages

* A page is what is mounted for an address: IndexPage (`index`), WorkspacePage
  (`wsp`) and the page within (`inner`), each with a number. Answers carry the number
  of the page they are for: a handler's closure sets the state of its own
  component, and the store whatever is mounted by then. `Led` is the redirects,
  `Opens` what a page asks for when it is mounted, `Going` what stays mounted from
  one address to the next.
* Sessions, accounts, workspaces, members, invites, projects and keys are `db`; the
  rules of who may change whom are Membership's subject, and a call may be refused
  for reasons of its own here.
* `store.projects` is the set of the projects' ids. Where a creation is answered after
  a reload that brought the project, the reducer appends it once more
  (`projects/reducers.ts:15-23`); that it is listed twice is not seen here.
* `Reload` is a full load of the document (after leaving a workspace, a deletion, or
  a payment): calls of the old one may still be served, and their answers go nowhere.
* `why` records here too what leaves a page out of date: an address typed that is
  nobody's, a jump from one workspace or project to another one, an answer that is
  refused, late or overtaken, one asked for under another session, a change made
  elsewhere. A login, or an invite accepted, beside a call that shows or changes the
  account (`Unsettled`) is such a one. Ids that the client or the server makes are
  uuids, so a call under way and a new one never have the same (`Unused`).

## 3. What the runs check

| Run | Instance | Checks | States |
|---|---|---|---|
| plane_concurrent | 2 syncers, 1 card, 2 items, 1 text on each side, 3 link operations, 1 deletion | `ImportedOnce`, `RowsPairCopies`, `ImportsAreMapped`, `DedupeInv`, `NoReimport`, `OkIsHonest` | 1 609 000 |
| plane_recovery | 1 syncer, 1 text here and 2 in Plane of which one is refused, one fault of each kind, 1 deletion, 1 dropped card; fair | `TypeOK`, `NeverPanics`, `NeverPushedBack`, `EventuallyPushed`, `EventuallyImported`, `EventuallyHonest` | 153 000 |
| plane_mirror | 1 syncer, 2 texts on each side of which one is refused, 2 refusals, 2 deletions | `ImplementsMirror` | 168 000 |
| lexorank_loop | all pairs of words of up to 3 letters over 4 | `LoopComputesRank` | 30 000 |
| board_serial | 1 client, 4 requests, 2 milestones, 2 workflows, 1 subworkflow, 3 cards with ranks as close as moves bring them | `TypeOK`, `EndsAreReached`, `ImplementsLists` | 188 000 |
| board_concurrent | 2 clients of which one uses bulk calls of 2 items, 3 requests, 2 cards, 2 milestones | `RanksHaveRoom`, `RoomForEveryMove`, `BoardIsWhole`, `ReorderIsExact`, `BulkIsHonest` | 384 000 |
| board_index | 1 client, 5 requests (a reorder and four moves), 3 cards | `MoveLandsAtIndex` is violated | |
| member_serial | 1 client, 4 requests, 2 owners and a viewer, 4 accounts and addresses, 3 seats | `TypeOK`, `AlwaysOwned`, `EditorsHaveSeats`, `OnlyAddressesStrand` | 714 000 |
| member_concurrent | 2 clients, 3 requests, an owner and three viewers, 2 seats, 5 accounts of which two wait to confirm one address | `TablesAgree`, `FewBeyondSeats` | 913 000 |
| client_board | 3 forms (create, drag, delete) over 2 releases with cards at the ends of the alphabet | `RowsAgree`, `RoomOnThePage`, `OnlyLoadsRevive` | 684 000 |
| client_details | any 2 forms of a project by an editor, a viewer or in a demo, the page opened again, one fault | `TypeOK`, `BoardsAgree` | 1 390 000 |
| client_pages | every page at first, 2 forms, and a link, a typed address, a refusal or a removal between them | `SessionIsShown`, `ShowsItsOwn`, `ListsAgree`, `NeverBlank`, `NeverStuck` | 917 000 |

What they show:

* **The sync dedupes by external id under any interleaving.** With two syncers on
  one link, panics, and members unlinking and retargeting between any two
  statements, no Plane comment is imported twice, and an import never commits
  without its row. The unique key of plane_comment_map is what does it: without
  it (`CollidesOnLink`) the properties fail. A row that is made while the link is
  retargeted still pairs two copies of one text.
* **It recovers.** After each kind of fault the poller's next runs push all that is
  unmapped, and import all that Plane lists before a comment that featmap refuses;
  what lies behind one is never imported, and the properties say so. The link
  settles at the status it deserves: an error where a comment is left that featmap
  refuses, for its length or because the card is gone, and "ok" otherwise. With one syncer no statement ever fails,
  and nothing pulled is pushed back while the link stays.
* **It implements the abstract mirror** as long as no answer is lost and no
  transaction fails after a push.
* **Ranks never run out**, in tables, in requests, in bulk calls and on the page:
  between any two ranks in use there is room, and both ends of a list are always
  reached.
* **A move may miss its index** (`board_index`): after adjacent letters the loop
  of `Rank` compares the rest of prev with next, though next is already above;
  `Rank("am", "bg")` is `"aj"`. A reorder and four moves of three cards by one client
  suffice, with the ranks that create assigns. From where they begin to bite,
  board_serial shows how far it goes (`ImplementsLists`): a created card is the last of
  its list, a reorder leaves the order asked for, and a moved card lies at its index
  or, where its neighbours leave no rank between them, before it; it is never behind a
  card it was moved in front of, is exact at both ends, and no other card changes its
  place among the others.
* **The board stays whole and committed reorders are exact** whatever runs beside,
  and **a bulk call does what it answers**: what an item that failed at its second
  statement had written at its first is gone, and what the other items wrote is
  there, when the call commits. Deletions that met no row are what it cannot speak
  for: somebody else has deleted the row, and somebody else may put it back. Where
  the savepoint is released instead of rolled back to (`ReleaseItem`) it fails.
* **The workspace's rules hold while requests follow one another**: it keeps an owner,
  whoever becomes an editor finds a seat, and an open invite loses its addressee only
  in one way, by a member who confirms that address as his own
  (`OnlyAddressesStrand`). Two of them do not outlive concurrency, and
  `FewBeyondSeats` says what is left of the seats: the editors exceed the most seats
  there ever are (`MaxSeats`) by less than the number of requests at a time. The tables
  agree whatever runs beside: one account, one membership, one invite per address,
  none of a row that is gone.
* **The page ends as the server has it.** Three overlapping creates, drags and
  deletions, served and answered in any order, leave every field of every card,
  ranks included, as the server's (`RowsAgree`); with edits, personas, reordered
  answers and deletions by others the same cards (`BoardsAgree`). The
  circumstances the properties except are ones in which they do not: they are
  named in `why` and listed below.
* **No page hangs, fails or shows another's data**, in whatever order answers,
  logins and links come: `NeverStuck` is about every page that waits for an
  answer it must have asked for, `NeverBlank` about WorkspacePage, which fails to
  render without a workspace.

### Disagreements seen and not kept as runs

While modelling, TLC showed these as well. They are recorded here for the
maintainers; each is a few steps long and can be had again by stating the
sentence as a property of the named module.

* PlaneSync: a POST whose answer is lost is posted again and the first copy is
  imported, where the design document promises exactly one copy on each side; a
  remote comment that featmap refuses blocks those behind it, since the pull
  loop returns (`src/service.go:2684`), where the design says "Per-comment failures
  are captured and the loop continues"
  (`src/docs/superpowers/specs/2026-05-28-plane-comment-sync-design.md:212-213`);
  two syncers work on one
  link at once (the design's in-memory debounce does not exist); after unlink and
  link again, pulled comments are posted back; with two cards on one work item,
  the second import panics; a syncer's `StorePlaneLink` revives a removed link or
  undoes a retargeting.
* Board: after further moves the rank computed is that of a third card, and the
  upsert panics on UN_features_1, with one client; a card created during a
  reorder takes a rank of the chain, and the reorder panics; a rename that read the
  card before a concurrent move puts it back. Outside bulk calls, the single
  `update_feature` tool has no savepoint: when a later write of it is refused, the
  earlier ones are committed and the answer is an error.
* BulkTools: a deletion beside the request that deletes the card is answered as done
  though its statement met no row, and a stale edit can put the card back before the
  call commits; the comment at `src/mcp_bulk_structural.go:672-674` rules out a "silent
  no-op DELETE reported as ok".
* Membership, even with one client: a member who confirms the address of an open
  invite of his workspace strands it, since accepting it is refused to a member. With
  two clients: two promotions counted before either writes exceed the seats; two
  owners demote each other and no owner is left; a member promoted to owner while
  his account is being closed loses both; a change of level beside a removal puts the
  member back; a request that read an account before its address was confirmed, or
  before it was closed, stores it as it was; the quantity of a checkout is not
  compared again when it is paid for.
* The client's project: a move is ranked on the page and, beside other calls, the
  server may rank it otherwise; the page keeps its own. An answer made before
  another change of the row takes that change back until the later answer, and
  for good where the later one is not used. A refused call other than a creation
  leaves the optimistic change in place. A card deleted before its creation is
  served stays on the server. A persona created for a workflow that is gone is
  stored, and only the page loses it.
* The client's pages: a project or workspace reached from another one by the
  history of the browser keeps the old one's data, since nothing is mounted again;
  a login in a document that shows another account, or an answer asked for under
  an earlier session, shows the wrong account until the next load.

## 4. Bounds

Each bound is a CONSTANT, given in a `.cfg` or an MC module.

* PlaneSync: `Budget` bounds each kind of fault and each member action; the texts
  bound writing. A run can begin while `Room` holds: `MaxPlane`/`MaxLocal` are 3
  where two syncers multiply copies (each original, its copy, and one more) and
  20, out of reach, elsewhere, so that liveness is not decided by the bound. Two
  syncers are enough for every wait and every race of the keys, which relate two
  transactions. plane_concurrent has one card and two items, so that retargeting
  leads to the other one: several cards are covered by the proofs. In plane_recovery
  one of Plane's comments is refused (`Oversize`), listed before or behind the other.
  `SYMMETRY` is used there and in member_concurrent, in runs without liveness.
* Lexorank: 4 letters have equal, adjacent and separated pairs with a letter
  between and at both ends; words of 3 letters end before, with and after each
  other. The proofs have no bound.
* Board: `MaxRequests`. Three concurrent requests are a read, an operation that
  invalidates it, and one more; two clients are the two ends of a race. A bulk
  call counts as `MaxItems` requests: one of two items, one of them with two
  statements, runs beside one request of the other client. The alphabet is the
  real one (`Top = 25`) and the initial ranks are those create assigns; those of
  board_serial are what a reorder and three moves can leave, so that its four requests
  begin where neighbours leave no rank between them.
* Membership: `MaxRequests` = 4 serial (ask for an address, invite to it, confirm it,
  try to accept is the longest chain a rule depends on) with four accounts and
  addresses and `MaxSeats` = 3; 3 concurrent, two that race and one that has prepared
  the race or finds what it left, from a state in which one seat is free, two accounts
  wait for one address, and any viewer can be promoted. The clients differ in nothing.
* ClientBoard: `MaxEdits` forms, `MaxLoads` openings of the project and `MaxFaults`
  faults. Two calls are what can pass each other; three are a third that finds
  the page after the two. client_board starts with cards at rank "b" and "y", which
  stand for a long history of drags to the front and creations at the end.
* ClientPages: `MaxForms` = 2 forms and `MaxTurns` = 1 address or refusal: a form, the
  way to another page, and what is done there while the first answer is on its
  way. `Tabs`, `Links` and `Typed` are the addresses; four accounts and workspaces
  with each role and status the pages distinguish.

`CHECK_DEADLOCK FALSE` stands where requests, runs or forms are used up, and in
plane_recovery, where a card dropped before it is linked leaves the poller nothing to
do; plane_mirror checks deadlock, since the poller can always begin again.

## 5. Fairness

`FairSpec` of PlaneSync only: weak fairness of `Begin(s, links)`, since the
poller's ticker fires again and again (`plane_poller.go:33-40`), and strong
fairness of `Progress(s)`: every Plane request ends within its timeout and
Postgres grants locks in the order they were asked for, so that a waiting statement
is not overtaken for ever. Nothing is assumed of members, and faults need not
happen or stop by fairness: their budgets run out. Board, BulkTools, Membership
and the client have no loop that must go on and state no liveness; that no page
waits for ever is stated as safety (`NeverStuck`): there is no state in which
everything is done and somebody still waits. That no two syncers stand still is the
theorem `SomebodyGoesOn`.

## 6. What is proved

TLAPS checks these for every value of the constants; the assumptions are the
`ASSUME`s of the component's module (disjoint sets of ids, finite sets, natural
bounds, an initial state that requests can have made, an alphabet of at least
three letters).

| Module | Theorems | Argument |
|---|---|---|
| `PlaneSync_proofs` | `TypeCorrect` (`TypeOK`), `DedupeInvariant` (`DedupeInv`), `DedupeByExternalId` (`ImportedOnce`), `ImportIsAtomic` (`ImportsAreMapped`), `NoSecondImport` (`NoReimport`), `RowsPair` (`RowsPairCopies`), `HonestOk` (`OkIsHonest`), `SomebodyGoesOn`; of one syncer and one link operation `AloneNeverPanics` (`NeverPanics`), `AloneNeverPushesBack` (`NeverPushedBack`), `AloneMirrors` (`ImplementsMirror`) | `TypeOK` is not inductive: a step that reads `job[s].link` needs to know that there is one, hence `Working`. `DedupeInv` adds what is not committed: ids and Plane ids are distinct across the tables and all open transactions, and a transaction holds an import together with its row. `Blocked` and `Collides` give distinctness at each insert, and Commit moves it to the tables. `RowsPairCopies` needs that ids, held by anybody, are distinct and not given out again, and that the answer a syncer still has to record is about the comment it pushed (`PairInv`). `OkIsHonest`: what a run has read is mapped or still before it, unless it will report an error (`Accounted`). `SomebodyGoesOn` (finitely many syncers): of those that work, one can take its next statement (`CanGoOn`: its guards written out in the place of `ENABLED`), or some of them wait in a circle. Postgres aborts one of a circle (`Deadlocked`), which is its promise and is assumed; that there is no other way to stand still is what is proved. The last three assume that the database is one run's own: what it read is what is there, so a key it could violate is one it would have found mapped, and what it pushes is no copy. The refinement assumes besides that no answer is lost, no run crashes and no card is deleted: then every statement is one step of the mirror or a stutter. |
| `Lexorank_proofs` | `RankHasRoom`, `AppendsAbove` | The split is the least index at which the middle is neither letter; it exists within one letter behind both words; up to it prev's letters are next's or adjacent below, so the result is below next. Least elements of sets of naturals stand in for induction over sequences. |
| `LexorankLoop_proofs` | `LoopIsRank` (`LoopComputesRank`) | What the loop has kept are prev's letters, none of which splits (`LoopInv`); the first split is the one `SplitAt` names. |
| `BulkTools_proofs`, of `Board` | `TypeCorrect` (`TypeOK`), `RanksKeepRoom` (`RanksHaveRoom`), `AlwaysRoom` (`RoomForEveryMove`), `BoardStaysWhole` (`BoardIsWhole`), `ReordersAreExact` (`ReorderIsExact`), `AloneReachesEnds` (`EndsAreReached`) | `RanksHaveRoom` (no rank ends in the first letter or begins with the last, in tables and in requests) is inductive by `RankHasRoom`. `BoardIsWhole`: `Accepted` at each store, and the cascade takes three rounds because the tables have four levels. `ReorderIsExact`: the rows a reorder has still to store are distinct, of one cell, each with a rank above the last (`ChainFits`); `Less` is shown transitive for it. `EndsAreReached` assumes one client: the rank of a request was found beyond the last row, or before the first, that the list still has when it is stored. |
| `BulkTools_proofs`, of `BulkTools` | `BulkKeepsRoom` (`RanksHaveRoom`), `BulkLeavesRoom` (`RoomForEveryMove`), `BulkKeepsWhole` (`BoardIsWhole`), `BulkReordersAreExact` (`ReorderIsExact`), `BulkAnswersHonestly` (`BulkIsHonest`) | The same properties with bulk calls beside the requests. What a call has written and not committed is typed and has room like the tables (`BulkInv`). For the keys the board is whole in the tables, in the view of the call, and in that view without its open item, which is what a roll back leaves (`BulkWhole`): a request that commits beside it changes none of the rows the call has written, so any two rows lie together in one of the three. This one assumes one agent (any number of requests). `BulkIsHonest` holds for any number: outside its open item, a call holds of a row what the last item that succeeded with it and met a row answered, and nothing of a row no item met (`BulkHonest`). |
| `Membership_proofs` | `TypeCorrect` (`TypeOK`), `TablesStayConsistent` (`TablesAgree`), `FewEditorsBeyond` (`FewBeyondSeats`); of one client `OwnerRemains` (`AlwaysOwned`), `EditorsFindSeats` (`EditorsHaveSeats`), `AddressesStrand` (`OnlyAddressesStrand`) | `TypeOK /\ RequestsFit` is inductive; `TablesAgree` by the keys at each insert and the cascades at each delete. `FewEditorsBeyond` holds for any finite number of clients. Counting editors is not inductive, since a request that has found room adds one later; what is (`RowsFit`) counts them as if every level a request is about to store were stored, and adds the acceptances that have found room: those are at most the seats and one less than the clients. Where a seat is free the bound follows from the number of clients, and where none is no step makes a new claim. With one client what a request has read is still so when it writes (`Current`), and who asks is an owner that no step of his own request removes. What it has found out about invites, addresses, free seats and editors is still so at the store (`Knows`), and one row more is at most one editor more; an address that passes to a member passes by `StoreConfirmed`. |
| `ClientBoard_proofs` | `TypeCorrect` (`TypeOK`), `PageKeepsRoom` (`RoomOnThePage`), `AnswersReviveNothing` (`OnlyLoadsRevive`), `StoresInAccord` (`Accord`), `PagesShowTheRows` (`RowsAgree`), `PagesShowTheBoard` (`BoardsAgree`), `PagesShowTheirBoards` | Stores, tables and answers are `Roomy` together: each reducer and each request keeps it, since `Rank` finds a rank with room even between neighbours in the wrong order. The turns of calls are bounded, and an answer that replaces a row brings that row. Only creations and loads add to a store (`Adds`). For the agreement of page and server see below. |
| `ClientPages_proofs` | `NobodyWaitsForEver` (`NeverStuck`), `TheSessionIsShown` (`SessionIsShown`) | Pages are mounted within each other, and an answer a page waits for is owed by a call of its own (`PagesInv`): when nothing is under way nobody waits. `Base` adds whose call is whose, the turns of calls served and the tables' order. The account shown is the cookie's, and no change of members under way is about it (`Session`). What is held of the account is fresh, or the load served last is, or an answer that leads to a new load is still to come (`AppDue`). |
| `ClientShown_proofs` | `TheOwnIsShown` (`ShowsItsOwn`), `NoPageIsBlank` (`NeverBlank`), `TheListsAgree` (`ListsAgree`) | A workspace's list holds its projects, but for those whose answers are still to come, and new ids are distinct (`Own`). The page's workspace is a membership there is and is in every load on its way, each load having the workspaces of the loads before it, unless the document is about to be loaded again or an accepted invite is still being answered (`There`); and it is one of the workspaces held (`InStore`). No call of a page is taken for one of the pages it is mounted within (`Marks`). Of each list on its page, what is held, or the load served last, has every change served since, or an answer after which the list is loaded anew, or a load still to be served, is on its way (`ListsDue`). |

**Why the open project ends as the server has it.** `RowsAgree` and `BoardsAgree`
speak of moments at which nothing is under way, and say nothing of how they come
about. What is inductive is `Accord`, which says of every call under way what it
will still do to either side, and of `why` what the calls allow for:

* `Ground`: ids in a store, in the tables, in calls and in answers are known ones,
  the rest is `fresh`; the tables are whole; `Marks`: calls that share a card
  without a mark in `why` are such as cannot disturb each other; `Ordered`: turns
  and numbers of calls are distinct.
* `Tracked`, on a loaded page with no mark but `moved`, `reversed`, `elsewhere` and
  `project`: a row of both lies in the same place or is being moved (`SamePlaces`),
  what is being moved or made is in the store where the call will put it, what is
  being deleted is not in the store; a row that only the store has is on its way,
  about to be taken out again, or has a parent that is gone for good
  (`SurplusDies`); one that only the server has is being deleted or moved, or lies
  where the page shows nothing (`LackDies`).
* `Matched`, without any mark: the answer served last brings the server's row, or
  the two are the same already, but for one edit whose answer is not used
  (`Settled`); a card that is being moved gets the same rank on both sides
  (`MovesFit`): both compute it of the same list.
* `Loading`, of the answer the page waits for; `ProjectsIn` and `ProjectsMatched`, of
  the rows of projects, which no load of a project brings.

The forms, the answers' handlers and the requests are many. Each is first shown to be
one of a few shapes (`FormShaped`: a row made, moved, edited, deleted;
`AnswerShaped`; `ServedShaped`), and the parts are then shown to be kept by each
shape. On a quiet page a row that one side shows and the other has not would have a
parent of the same kind; foreign keys lead from a table to one further up (`Above`),
so there is none (`NoOrphans`). Each part of `Accord` was an invariant of both client
runs in TLC before it was proved. Two assumptions are used here besides those of the
types: ids of different tables are different, and every row has its parents when it
is opened (`Whole(Start)`, in `NetAssumption`: the migrations' foreign keys).
`PagesShowTheBoard` assumes one project (`OneProject`), as the run has it: what went
amiss with the row of another project is not put right by opening this one.
`PagesShowTheirBoards` is the statement with any number of projects, where nothing
went amiss with a project's own row. `PagesShowTheRows` holds for any number.

Only model-checked: the liveness properties, and the refinement `ImplementsLists`,
whose lists are computed by folds over cells of any size. Liveness, `ENABLED` and what
a recursion computes over data of every size are out of reach of the installed provers.

## 7. Not modelled

* A poll cycle over several connections, and the pages of one comment listing: each
  is one step in PlaneSync, and a second connection would square its state. The
  savepoint of each connection is the one of each item of a bulk call. Storing and
  removing a connection: `NoConnection` is its effect.
* Edits of comment texts on the server, which the code does not mirror;
  validation of names, colours and dates.
* Several subscription rows, Stripe's plans and dates, a webhook delivered twice:
  Membership has the subscription in force, and what a second row would do is
  decided by the order of a query that the code does not state.
* Passwords, and the keys of a reset, a confirmation or an invite with their
  expiry: a key is known to whom it was sent, so an action that needs one takes the
  row it belongs to. Several addresses sent to one account one after the other: the
  last key is the one that counts.
* The client's messages, layout, texts and validation of fields, the sharing switch
  (commented out in the source); reads without an account; e-mail, file serving,
  migrations.

## 8. What could be added

1. A poll cycle with two connections and a savepoint each, over one link each.
2. `SubscriptionRows`: the rows of one workspace under duplicated and reordered
   webhooks; paging of Plane listings.
3. Proofs: `BulkKeepsWhole` for several agents.
