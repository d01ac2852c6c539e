------------------------------ MODULE PlaneSync ------------------------------
(***************************************************************************)
(* The two-way comment mirror between featmap cards and Plane work items:  *)
(* service.SyncLink and service.SyncProject, the callers that store the    *)
(* link row (REST, MCP, the poller), the link and comment operations that  *)
(* run beside them, and the three tables they share.                       *)
(*                                                                         *)
(* A syncer is one transaction at READ COMMITTED: each statement sees what *)
(* is committed when it starts, plus the transaction's own writes.  What   *)
(* it has written stays in writes[s] until Commit; a panic (tx.MustExec on *)
(* an SQL error) or a lost database connection drops it.  Plane is not     *)
(* part of the transaction: a comment it accepted stays there whatever     *)
(* becomes of the syncer.  The service holds no lock of its own.           *)
(*                                                                         *)
(* A comment's text is a model value written once, so that the copies of   *)
(* one human comment can be counted on both sides.  Edits of a comment do  *)
(* not propagate in the code and are left out.                             *)
(***************************************************************************)
EXTENDS Naturals, Sequences, FiniteSets

CONSTANTS
  Cards,      \* features of one project that has a Plane connection
  Items,      \* Plane work items
  Syncers,    \* concurrent callers: requests, MCP calls, the poller
  Locals,     \* texts written in featmap, each by one comment
  Remotes,    \* texts written in Plane, each by one comment
  Oversize,   \* the remote texts longer than featmap accepts
  Budget,     \* how often each kind of fault or member action may happen
  MaxPlane,   \* no run begins once Plane holds this many comments
  MaxLocal,   \* no run begins once this many comment ids were drawn
  NoLink      \* the link of a syncer that works on none

Texts    == Locals \cup Remotes
Kinds    == {"lost", "refused", "crash", "link", "delete", "drop"}
Origins  == {"featmap", "plane"}
Statuses == {"ok", "error", "pending"}
Phases   == {"idle", "next", "read", "push", "record", "pull", "store"}

\* src is history: the Plane comment this one was imported from, 0 if a
\* member wrote it; on the Plane side, the local comment it was pushed from.
Comment  == [id : Nat, card : Cards, text : Texts, src : Nat]
Posted   == [item : Items, text : Texts, src : Nat]
MapRow   == [link : Nat, cid : Nat, pid : Nat, origin : Origins]
LinkRow  == [id : Nat, card : Cards, item : Items, status : Statuses]

ASSUME TextsAssumption ==
  /\ Locals \cap Remotes = {}
  /\ Oversize \subseteq Remotes
ASSUME BudgetAssumption == Budget \in [Kinds -> Nat]
ASSUME NoLinkAssumption == NoLink \notin LinkRow

VARIABLES
  comments,   \* table feature_comments
  rows,       \* table plane_comment_map
  links,      \* table plane_links
  cards,      \* the features not deleted
  plane,      \* every comment Plane has accepted; the index is its id
  said,       \* texts already written by somebody
  lastId,     \* comment ids drawn so far (newUUID)
  lastLink,   \* link ids drawn so far
  budget,     \* what is left of Budget
  pc,         \* where each syncer stands
  job,        \* what each syncer holds in memory
  writes      \* what each syncer has written and not committed

database == <<comments, rows, links, cards>>
members  == <<said, lastLink>>
syncer   == <<pc, job, writes>>
vars     == <<database, plane, members, lastId, budget, syncer>>

NoJob    == [queue |-> {}, link |-> NoLink, known |-> {}, seen |-> {},
             listed |-> {}, at |-> 0, pid |-> 0, failed |-> FALSE]
NoWrites == [comments |-> {}, rows |-> {}, links |-> {}]

Init ==
  /\ comments = {} /\ rows = {} /\ links = {} /\ cards = Cards
  /\ plane = <<>> /\ said = {} /\ lastId = 0 /\ lastLink = 0
  /\ budget = Budget
  /\ pc = [s \in Syncers |-> "idle"]
  /\ job = [s \in Syncers |-> NoJob]
  /\ writes = [s \in Syncers |-> NoWrites]

Spend(kind) == /\ budget[kind] > 0
               /\ budget' = [budget EXCEPT ![kind] = @ - 1]

(***************************************************************************)
(* Members and Plane users.                                                *)
(***************************************************************************)

WriteComment(f, m) ==
  /\ f \in cards /\ m \notin said
  /\ comments' = comments \cup
       {[id |-> lastId + 1, card |-> f, text |-> m, src |-> 0]}
  /\ lastId' = lastId + 1
  /\ said' = said \cup {m}
  /\ UNCHANGED <<rows, links, cards, plane, lastLink, budget, syncer>>

\* The map row of a deleted comment stays: no foreign key leads to it.
DeleteComment(c) ==
  /\ Spend("delete")
  /\ comments' = comments \ {c}
  /\ UNCHANGED <<rows, links, cards, plane, members, lastId, syncer>>

\* ON DELETE CASCADE takes the comments; the link and its rows stay.  An
\* uncommitted comment holds a key-share lock on its card, so the delete waits.
DeleteCard(f) ==
  /\ f \in cards
  /\ \A s \in Syncers : \A c \in writes[s].comments : c.card # f
  /\ Spend("drop")
  /\ cards' = cards \ {f}
  /\ comments' = {c \in comments : c.card # f}
  /\ UNCHANGED <<rows, links, plane, members, lastId, syncer>>

\* An uncommitted write of a link row locks it (and its unique card).
LinkUnlocked(f) ==
  \A s \in Syncers : \A l \in writes[s].links : l.card # f

\* Bug: the status column of a new link is left empty.
FreshLinkBlank(f, i) ==
  [id |-> lastLink + 1, card |-> f, item |-> i, status |-> ""]

FreshLink(f, i) ==
  [id |-> lastLink + 1, card |-> f, item |-> i, status |-> "pending"]

LinkCard(f, i) ==
  /\ f \in cards /\ LinkUnlocked(f)
  /\ Spend("link")
  /\ \/ \E l \in links :
          /\ l.card = f
          /\ links' = (links \ {l}) \cup
               {[l EXCEPT !.item = i, !.status = "pending"]}
          /\ UNCHANGED lastLink
     \/ /\ \A l \in links : l.card # f
        /\ links' = links \cup {FreshLink(f, i)}
        /\ lastLink' = lastLink + 1
  /\ UNCHANGED <<comments, rows, cards, plane, said, lastId, syncer>>

\* The rows of the link are not removed with it.
UnlinkCard(f) ==
  /\ \E l \in links : l.card = f
  /\ LinkUnlocked(f)
  /\ Spend("link")
  /\ links' = {l \in links : l.card # f}
  /\ UNCHANGED <<comments, rows, cards, plane, members, lastId, syncer>>

WriteInPlane(i, m) ==
  /\ m \notin said
  /\ plane' = Append(plane, [item |-> i, text |-> m, src |-> 0])
  /\ said' = said \cup {m}
  /\ UNCHANGED <<database, lastLink, lastId, budget, syncer>>

(***************************************************************************)
(* What a syncer sees and does next.                                       *)
(***************************************************************************)

\* The map rows a statement of s sees for link l.
RowsOf(s, l) == {r \in rows \cup writes[s].rows : r.link = l.id}

\* The comments of card f a statement of s sees, read in order of creation.
CommentsOf(s, f) == {c \in comments \cup writes[s].comments : c.card = f}

\* The ids Plane lists for work item i, in order of creation.
ListedIn(i) == {p \in DOMAIN plane : plane[p].item = i}

\* Bug: the push loop knows only the comments it pushed itself.
MappedLocalsPushed(s) ==
  {r.cid : r \in {q \in job[s].known : q.origin = "featmap"}}

\* mappedFeatmap and the origin test of the push loop: every row names both
\* comments, so the first covers the second.
MappedLocals(s) == {r.cid : r \in job[s].known}

\* Bug: the pull loop knows only the comments it pulled itself.
MappedPlanePulled(s) ==
  {r.pid : r \in {q \in job[s].known : q.origin = "plane"}}

\* mappedPlane: the rows read at the start and those of this run's pushes.
MappedPlane(s) == {r.pid : r \in job[s].known}

\* Bug: a cursor (the newest comment mapped) in place of the map.
UnpushedSince(s) ==
  {c \in job[s].seen : /\ c.id > job[s].at
                       /\ \A d \in MappedLocals(s) : d < c.id}
UnpulledSince(s) ==
  {p \in job[s].listed : /\ p > job[s].at
                         /\ \A q \in MappedPlane(s) : q < p}

\* What the push loop and the pull loop have left.
Unpushed(s) == {c \in job[s].seen : /\ c.id > job[s].at
                                    /\ c.id \notin MappedLocals(s)}
Unpulled(s) == {p \in job[s].listed : /\ p > job[s].at
                                      /\ p \notin MappedPlane(s)}

NextPush(s, c) == c \in Unpushed(s) /\ \A d \in Unpushed(s) : c.id <= d.id
NextPull(s, p) == p \in Unpulled(s) /\ \A q \in Unpulled(s) : p <= q

\* CreateFeatureCommentWithID: the feature must exist, the post must fit.
Accepts(s, p) == /\ job[s].link.card \in cards
                 /\ plane[p].text \notin Oversize

\* s is about to insert a map row for Plane comment p, or to store its link.
Inserts(s, p) == \/ pc[s] = "record" /\ p = job[s].pid
                 \/ pc[s] = "pull" /\ NextPull(s, p) /\ Accepts(s, p)
Storing(s) == pc[s] = "store" \/ (pc[s] = "pull" /\ Unpulled(s) = {})

\* UNIQUE (workspace_id, plane_comment_id), PRIMARY KEY (workspace_id, id) and
\* UNIQUE (workspace_id, feature_id): a statement waits while another
\* transaction has the same key uncommitted, and fails once it is committed
\* (or its own).  The primary key of plane_links is an upsert instead.
Waits(s, t) ==
  /\ s # t
  /\ \/ \E r \in writes[t].rows : Inserts(s, r.pid)
     \/ /\ Storing(s)
        /\ \E l \in writes[t].links : \/ l.id = job[s].link.id
                                      \/ l.card = job[s].link.card
Blocked(s) == \E t \in Syncers : Waits(s, t)

\* Bug: plane_comment_map without its unique key.
CollidesOnLink(s) ==
  /\ ~Blocked(s)
  /\ Storing(s)
  /\ \E l \in links : /\ l.card = job[s].link.card
                      /\ l.id # job[s].link.id

Collides(s) ==
  /\ ~Blocked(s)
  /\ \/ \E r \in rows \cup writes[s].rows : Inserts(s, r.pid)
     \/ /\ Storing(s)
        /\ \E l \in links : /\ l.card = job[s].link.card
                            /\ l.id # job[s].link.id

\* Everyone in some set containing s waits for a member of it and is waited
\* for by one: Postgres aborts a transaction of such a cycle.
Deadlocked(s) ==
  \E T \in SUBSET Syncers :
    /\ s \in T
    /\ \A t \in T : /\ \E u \in T : Waits(t, u)
                    /\ \E u \in T : Waits(u, t)

Room == Len(plane) < MaxPlane /\ lastId < MaxLocal

(***************************************************************************)
(* The steps of a syncer: one per SQL statement or Plane request.          *)
(***************************************************************************)

Goto(s, phase) == pc' = [pc EXCEPT ![s] = phase]

\* SyncProject reads every link of the project; a caller with a feature_id
\* reads the link of that card.
Begin(s, q) ==
  /\ pc[s] = "idle" /\ Room
  /\ q # {}
  /\ q = links \/ (q \subseteq links /\ Cardinality(q) = 1)
  /\ Goto(s, "next")
  /\ job' = [job EXCEPT ![s] = [NoJob EXCEPT !.queue = q]]
  /\ UNCHANGED <<database, plane, members, lastId, budget, writes>>

OnLink(s, l, failed) ==
  job' = [job EXCEPT ![s] =
            [NoJob EXCEPT !.queue = job[s].queue \ {l}, !.link = l,
                          !.known = IF failed THEN {} ELSE RowsOf(s, l),
                          !.failed = failed]]

ReadRows(s, l) ==
  /\ pc[s] = "next" /\ l \in job[s].queue
  /\ Goto(s, "read")
  /\ OnLink(s, l, FALSE)
  /\ UNCHANGED <<database, plane, members, lastId, budget, writes>>

\* No connection for the project, or its key cannot be decrypted.
NoConnection(s, l) ==
  /\ pc[s] = "next" /\ l \in job[s].queue
  /\ Spend("refused")
  /\ Goto(s, "store")
  /\ OnLink(s, l, TRUE)
  /\ UNCHANGED <<database, plane, members, lastId, writes>>

ReadComments(s) ==
  /\ pc[s] = "read"
  /\ Goto(s, "push")
  /\ job' = [job EXCEPT ![s].seen = CommentsOf(s, job[s].link.card)]
  /\ UNCHANGED <<database, plane, members, lastId, budget, writes>>

PlaneAccepts(s, c) ==
  plane' = Append(plane, [item |-> job[s].link.item, text |-> c.text,
                          src |-> c.id])

Push(s, c) ==
  /\ pc[s] = "push" /\ NextPush(s, c)
  /\ PlaneAccepts(s, c)
  /\ Goto(s, "record")
  /\ job' = [job EXCEPT ![s].pid = Len(plane) + 1]
  /\ UNCHANGED <<database, members, lastId, budget, writes>>

\* The first push error is kept and the loop goes on.
SkipPush(s, c) ==
  job' = [job EXCEPT ![s].failed = TRUE, ![s].at = c.id]

\* Plane answers with a status >= 300, or is not reached.
PushRefused(s, c) ==
  /\ pc[s] = "push" /\ NextPush(s, c)
  /\ Spend("refused")
  /\ SkipPush(s, c)
  /\ UNCHANGED <<database, plane, members, lastId, pc, writes>>

\* Plane stores the comment and its answer is lost, late or garbled.
PushLost(s, c) ==
  /\ pc[s] = "push" /\ NextPush(s, c)
  /\ Spend("lost")
  /\ PlaneAccepts(s, c)
  /\ SkipPush(s, c)
  /\ UNCHANGED <<database, members, lastId, pc, writes>>

\* Bug: the row names the newest comment of Plane, not the one in the answer.
PushedRowNewest(s, c) == [link |-> job[s].link.id, cid |-> c.id,
                          pid |-> Len(plane), origin |-> "featmap"]

PushedRow(s, c) == [link |-> job[s].link.id, cid |-> c.id,
                    pid |-> job[s].pid, origin |-> "featmap"]

RecordPush(s, c) ==
  /\ pc[s] = "record" /\ NextPush(s, c)
  /\ ~Blocked(s) /\ ~Collides(s)
  /\ writes' = [writes EXCEPT ![s].rows = @ \cup {PushedRow(s, c)}]
  /\ job' = [job EXCEPT ![s].at = c.id,
                        ![s].known = @ \cup {PushedRow(s, c)}]
  /\ Goto(s, "push")
  /\ UNCHANGED <<database, plane, members, lastId, budget>>

ListItem(s) ==
  /\ pc[s] = "push" /\ Unpushed(s) = {}
  /\ Goto(s, "pull")
  /\ job' = [job EXCEPT ![s].listed = ListedIn(job[s].link.item),
                        ![s].at = 0]
  /\ UNCHANGED <<database, plane, members, lastId, budget, writes>>

ListFails(s) ==
  /\ pc[s] = "push" /\ Unpushed(s) = {}
  /\ Spend("refused")
  /\ Goto(s, "store")
  /\ job' = [job EXCEPT ![s].failed = TRUE]
  /\ UNCHANGED <<database, plane, members, lastId, writes>>

PulledComment(s, p) == [id |-> lastId + 1, card |-> job[s].link.card,
                        text |-> plane[p].text, src |-> p]
PulledRow(s, p) == [link |-> job[s].link.id, cid |-> lastId + 1,
                    pid |-> p, origin |-> "plane"]

\* Bug: the comment is inserted outside the transaction that maps it.
PullAutocommit(s, p) ==
  /\ pc[s] = "pull" /\ NextPull(s, p) /\ Accepts(s, p)
  /\ ~Blocked(s) /\ ~Collides(s)
  /\ comments' = comments \cup {PulledComment(s, p)}
  /\ writes' = [writes EXCEPT ![s].rows = @ \cup {PulledRow(s, p)}]
  /\ lastId' = lastId + 1
  /\ job' = [job EXCEPT ![s].at = p]
  /\ UNCHANGED <<rows, links, cards, plane, members, budget, pc>>

Pull(s, p) ==
  /\ pc[s] = "pull" /\ NextPull(s, p) /\ Accepts(s, p)
  /\ ~Blocked(s) /\ ~Collides(s)
  /\ writes' = [writes EXCEPT ![s].comments = @ \cup {PulledComment(s, p)},
                              ![s].rows = @ \cup {PulledRow(s, p)}]
  /\ lastId' = lastId + 1
  /\ job' = [job EXCEPT ![s].at = p]
  /\ UNCHANGED <<database, plane, members, budget, pc>>

\* The pull loop returns at the first comment it cannot create.
PullRejected(s, p) ==
  /\ pc[s] = "pull" /\ NextPull(s, p) /\ ~Accepts(s, p)
  /\ Goto(s, "store")
  /\ job' = [job EXCEPT ![s].failed = TRUE]
  /\ UNCHANGED <<database, plane, members, lastId, budget, writes>>

\* Bug: last_error is never cleared.
OutcomeSticky(s) ==
  [job[s].link EXCEPT !.status =
     IF job[s].failed \/ job[s].link.status = "error" THEN "error" ELSE "ok"]

\* The row as read at Begin, with the outcome in it.
Outcome(s) ==
  [job[s].link EXCEPT !.status = IF job[s].failed THEN "error" ELSE "ok"]

StoreLink(s) ==
  /\ Storing(s)
  /\ ~Blocked(s) /\ ~Collides(s)
  /\ writes' = [writes EXCEPT ![s].links = @ \cup {Outcome(s)}]
  /\ Goto(s, "next")
  /\ job' = [job EXCEPT ![s] = [NoJob EXCEPT !.queue = job[s].queue]]
  /\ UNCHANGED <<database, plane, members, lastId, budget>>

Upserted(s) == {l \in links : \A w \in writes[s].links : l.id # w.id}
               \cup writes[s].links

Reset(s) == /\ Goto(s, "idle")
            /\ job' = [job EXCEPT ![s] = NoJob]
            /\ writes' = [writes EXCEPT ![s] = NoWrites]

Commit(s) ==
  /\ pc[s] = "next" /\ job[s].queue = {}
  /\ comments' = comments \cup writes[s].comments
  /\ rows' = rows \cup writes[s].rows
  /\ links' = Upserted(s)
  /\ Reset(s)
  /\ UNCHANGED <<cards, plane, members, lastId, budget>>

\* tx.MustExec panics: the request's transaction, or the poller's savepoint,
\* is rolled back.
Panic(s) ==
  /\ Collides(s) \/ Deadlocked(s)
  /\ Reset(s)
  /\ UNCHANGED <<database, plane, members, lastId, budget>>

\* The process or its database connection goes away before the commit.
Crash(s) ==
  /\ pc[s] # "idle"
  /\ Spend("crash")
  /\ Reset(s)
  /\ UNCHANGED <<database, plane, members, lastId>>

Progress(s) ==
  \/ \E l \in job[s].queue : ReadRows(s, l) \/ NoConnection(s, l)
  \/ ReadComments(s)
  \/ \E c \in job[s].seen :
       Push(s, c) \/ PushRefused(s, c) \/ PushLost(s, c) \/ RecordPush(s, c)
  \/ ListItem(s) \/ ListFails(s)
  \/ \E p \in job[s].listed : Pull(s, p) \/ PullRejected(s, p)
  \/ StoreLink(s) \/ Commit(s) \/ Panic(s)

MemberStep ==
  \/ \E f \in Cards :
       \/ \E m \in Locals : WriteComment(f, m)
       \/ \E i \in Items : LinkCard(f, i)
       \/ UnlinkCard(f) \/ DeleteCard(f)
  \/ \E c \in comments : DeleteComment(c)
  \/ \E i \in Items, m \in Remotes : WriteInPlane(i, m)

Next ==
  \/ MemberStep
  \/ \E s \in Syncers :
       \/ \E q \in SUBSET links : Begin(s, q)
       \/ Progress(s)
       \/ Crash(s)

Spec == Init /\ [][Next]_vars

\* The ticker starts a run over every link again and again.  A run that has
\* begun goes on: every Plane request ends within its timeout (30 s), and
\* Postgres grants a lock in the order it was asked for, so that a statement
\* that waits is not overtaken for ever (hence strong fairness).
Fairness == \A s \in Syncers : /\ WF_vars(Begin(s, links))
                               /\ SF_vars(Progress(s))

FairSpec == Spec /\ Fairness

(***************************************************************************)
(* Properties.                                                             *)
(***************************************************************************)

Job == [queue : SUBSET LinkRow, link : LinkRow \cup {NoLink},
        known : SUBSET MapRow, seen : SUBSET Comment, listed : SUBSET Nat,
        at : Nat, pid : Nat, failed : BOOLEAN]
Writes == [comments : SUBSET Comment, rows : SUBSET MapRow,
           links : SUBSET LinkRow]

\* Every table and every in-memory record has its type: the enums of the
\* schema, ids that were drawn, links of known cards and items.
TypeOK ==
  /\ comments \subseteq Comment
  /\ rows \subseteq MapRow
  /\ links \subseteq LinkRow
  /\ cards \subseteq Cards
  /\ plane \in Seq(Posted)
  /\ said \subseteq Texts
  /\ lastId \in Nat /\ lastLink \in Nat
  /\ budget \in [Kinds -> Nat]
  /\ pc \in [Syncers -> Phases]
  /\ job \in [Syncers -> Job]
  /\ writes \in [Syncers -> Writes]

\* A syncer past "next" works on a link, and what Plane listed for it stays in
\* Plane (the strengthening that makes TypeOK inductive).
Working ==
  \A s \in Syncers :
    /\ pc[s] \notin {"idle", "next"} => job[s].link \in LinkRow
    /\ job[s].listed \subseteq DOMAIN plane

\* A Plane comment has at most one local copy, whatever syncers overlap,
\* panic or lose their transaction (dedupe by external id in SyncLink).
ImportedOnce ==
  \A c, d \in comments : c.src # 0 /\ c.src = d.src => c = d

\* An imported comment and its map row are committed together or not at all:
\* a copy without its row would be pushed back by the next run.
ImportsAreMapped ==
  \A c \in comments : c.src # 0 =>
    \E r \in rows : r.cid = c.id /\ r.pid = c.src /\ r.origin = "plane"

\* Comments have distinct ids, whichever transaction wrote them.
Everywhere == comments \cup UNION {writes[s].comments : s \in Syncers}
IdsDistinct ==
  /\ \A c \in Everywhere : c.id <= lastId
  /\ \A c, d \in Everywhere : c.id = d.id => c = d

\* No two map rows name one Plane comment, neither among the committed rows
\* nor among those any transaction still holds back.
PidsDistinct ==
  /\ \A r, q \in rows : r.pid = q.pid => r = q
  /\ \A s \in Syncers : \A r \in writes[s].rows :
       /\ \A q \in rows : r.pid # q.pid
       /\ \A q \in writes[s].rows : r.pid = q.pid => r = q
       /\ \A t \in Syncers \ {s} : \A q \in writes[t].rows : r.pid # q.pid

\* A transaction holds an imported comment together with its map row.
WritesAreMapped ==
  \A s \in Syncers : \A c \in writes[s].comments :
    \E r \in writes[s].rows :
      r.cid = c.id /\ r.pid = c.src /\ r.origin = "plane"

\* The inductive invariant behind dedupe by external id: it speaks of what is
\* not committed yet, where the hazards are.
DedupeInv == /\ IdsDistinct /\ PidsDistinct
             /\ ImportsAreMapped /\ WritesAreMapped

\* A map row pairs two copies of one comment: the Plane comment it names was
\* accepted by Plane, from that local comment if the row says "featmap", and
\* the local comment, while it exists, has its text.
RowsPairCopies ==
  \A r \in rows :
    /\ r.pid \in DOMAIN plane
    /\ r.origin = "featmap" => plane[r.pid].src = r.cid
    /\ \A c \in comments : c.id = r.cid => c.text = plane[r.pid].text

\* A Plane comment that is mapped is never imported (again): neither one
\* featmap pushed itself, nor one whose local copy was deleted since, nor one
\* first imported through a link that is gone.
NoReimport ==
  [][\A c \in comments' \ comments :
       c.src # 0 => \A r \in rows : r.pid # c.src]_vars

\* "ok" is stored only by a run that left nothing behind: each local comment
\* it read is mapped for this link and each Plane comment it listed is mapped.
OkIsHonest ==
  [][\A s \in Syncers : \A l \in writes'[s].links \ writes[s].links :
       l.status = "ok" =>
         LET mapped == rows \cup writes'[s].rows IN
         /\ \A c \in job[s].seen :
              \E r \in mapped : r.link = l.id /\ r.cid = c.id
         /\ \A p \in job[s].listed : \E r \in mapped : r.pid = p]_vars

\* What was written in Plane is never posted to Plane again: a pulled comment
\* is mapped, so that no later run pushes it back.
NeverPushedBack ==
  \A p, q \in DOMAIN plane :
    plane[p].text \in Remotes /\ plane[q].text = plane[p].text => p = q

\* No statement of a syncer fails: no unique key it inserts is taken and no
\* deadlock aborts it.
NeverPanics == \A s \in Syncers : ~Collides(s) /\ ~Deadlocked(s)

\* The mirror of the abstract specification: copies are counted, everything
\* a syncer holds is hidden.  It holds of one syncer whose pushes are refused
\* cleanly and whose transactions commit.
Mirror == INSTANCE CommentMirror WITH
  written <- said,
  imported <- {plane[r.pid].text : r \in {q \in rows : q.origin = "plane"}},
  card <- [m \in Texts |-> Cardinality({c \in comments : c.text = m})],
  item <- [m \in Texts |->
             Cardinality({p \in DOMAIN plane : plane[p].text = m})]

\* Each comment is copied at most once to the other side, a pulled comment is
\* never pushed, a pushed one never pulled, and nothing else appears on either
\* side (SyncLink implements CommentMirror).
ImplementsMirror == Mirror!Spec

\* m is written on a linked card and has no map row yet.
Unmapped(m) ==
  \E c \in comments : /\ c.text = m /\ c.src = 0
                      /\ \E l \in links : l.card = c.card
                      /\ \A r \in rows : r.cid # c.id

\* Plane comment p has no map row, and featmap refuses it for link l.
Refused(p, l) ==
  /\ plane[p].item = l.item
  /\ plane[p].text \in Oversize \/ l.card \notin cards
  /\ \A r \in rows : r.pid # p

\* m is in a linked work item, has no map row yet, and neither it nor a comment
\* listed before it is one that the pull loop stops at.
Unimported(m) ==
  \E p \in DOMAIN plane, l \in links :
    /\ plane[p].text = m /\ plane[p].item = l.item
    /\ \A r \in rows : r.pid # p
    /\ \A q \in 1..p : ~Refused(q, l)

\* Every comment on a linked card reaches Plane and is recorded there, unless
\* it is deleted, once faults stop.
EventuallyPushed == \A m \in Locals : []<>~Unmapped(m)

\* Every comment of a linked work item reaches the card, but for one that
\* featmap refuses and those listed after it: the pull loop returns there.
EventuallyImported == \A m \in Remotes : []<>~Unimported(m)

\* Once members and faults are quiet, every link settles at the status it
\* deserves: "error" if the work item has a comment that is refused again by
\* every run, and otherwise "ok", whatever went wrong before.
EventuallyHonest ==
  <>[](\A l \in links :
         l.status = IF \E p \in DOMAIN plane : Refused(p, l)
                    THEN "error" ELSE "ok")

=============================================================================
