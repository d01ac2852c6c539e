----------------------------- MODULE BulkTools -----------------------------
(***************************************************************************)
(* The bulk tools of the MCP server beside the requests of Board.  A call   *)
(* creates, patches or deletes several rows of one table in a transaction,  *)
(* each item under a savepoint of its own, and answers which of them it     *)
(* did.  Its statements are steps, and what it has written stays locked     *)
(* until it ends.                                                           *)
(***************************************************************************)
EXTENDS Board

CONSTANTS
  Agents,     \* the clients that use the bulk tools
  MaxItems    \* bound on the items of a call (the code's is 100), each of
              \* which counts as a request

ASSUME AgentsAssumption == Agents \subseteq Clients /\ MaxItems \in Nat /\ Titles # {}

VARIABLE bulk       \* the bulk call of each client

bulkVars == <<rows, tx, begun, bulk>>

\* tool and table: what the call does to which rows, left: the items to come,
\* wants: what is left to do of the open one, up: the statement it comes to,
\* item: what it has written since its savepoint, kept: what the items before it
\* have.  What is written of a row is <<its row>>, or <<>> where it is deleted.
Call(stage, tool, table, left) ==
  [stage |-> stage, tool |-> tool, table |-> table, left |-> left, wants |-> <<>>,
   up |-> <<>>, item |-> <<>>, kept |-> <<>>, results |-> <<>>]

NoCall == Call("none", "none", {}, 0)

Over(a, b) == [y \in DOMAIN a \cup DOMAIN b |-> IF y \in DOMAIN a THEN a[y] ELSE b[y]]

\* The rows b under the writes p.
Under(p, b) ==
  [y \in (DOMAIN p \cup DOMAIN b) \ {z \in DOMAIN p : p[z] = <<>>} |->
     IF y \in DOMAIN p THEN p[y][1] ELSE b[y]]

Pending(c) == Over(bulk[c].item, bulk[c].kept)
View(c)    == Under(Pending(c), rows)

\* The reads of Board, of what c's transaction sees.
Seen(c) == INSTANCE Board WITH rows <- View(c)

BulkInit == Init /\ bulk = [c \in Clients |-> NoCall]

Fits(b) == RanksUnique(b) /\ ParentsExist(b)

----------------------------------------------------------------------------
(* Locks                                                                   *)

Changed(b) == {y \in DOMAIN rows \cup DOMAIN b :
                 ~(y \in DOMAIN rows /\ y \in DOMAIN b /\ rows[y] = b[y])}

\* What would make the rows b waits for the call of d if d has written one of the
\* changed rows, or if whether a key is violated depends on how d ends.
WaitsFor(d, b) ==
  \/ Changed(b) \cap DOMAIN Pending(d) # {}
  \/ Fits(b) # Fits(Under(Pending(d), b))

----------------------------------------------------------------------------
(* A call                                                                  *)

Begin(c) ==
  /\ c \in Agents /\ tx[c].stage = "idle" /\ bulk[c].stage = "none"
  /\ \E n \in 1 .. MaxItems, table \in Tables \ {Projects},
        tool \in {"create", "patch", "delete"} :
       /\ tool = "delete" => table = Features
       /\ bulk' = [bulk EXCEPT ![c] = Call("next", tool, table, n)]
       /\ begun + n <= MaxRequests
       /\ begun' = begun + n
  /\ UNCHANGED <<rows, tx>>

Want(op, x, place, title) == [op |-> op, id |-> x, place |-> place, title |-> title]

\* A savepoint, and what the next item wants: a row under a new id, ...
NewRow(c) ==
  {<<Want("create", x, place, t)>> :
     x \in {y \in bulk[c].table : \A d \in Clients : y \notin DOMAIN View(d)},
     place \in UNION {Places(y) : y \in bulk[c].table}, t \in Titles}

\* ... new fields for a row, then a new place, ...
Patches(c) ==
  UNION {LET edit(t) == Want("edit", x, <<>>, t)
             move(place) == Want("move", x, place, View(c)[x].title)
         IN  {<<edit(t)>> : t \in Titles} \cup {<<move(place)>> : place \in Places(x)}
               \cup {<<edit(t), move(place)>> : t \in Titles, place \in Places(x)}
         : x \in DOMAIN View(c) \cap bulk[c].table}

\* ... or a deletion.
Deletion(c) == {<<Want("delete", x, <<>>, CHOOSE t \in Titles : TRUE)>> : x \in bulk[c].table}

NextItem(c) ==
  /\ bulk[c].stage = "next" /\ bulk[c].left > 0
  /\ \E wants \in CASE bulk[c].tool = "create" -> NewRow(c)
                    [] bulk[c].tool = "patch"  -> Patches(c)
                    [] bulk[c].tool = "delete" -> Deletion(c) :
       bulk' = [bulk EXCEPT ![c].stage = "find", ![c].left = @ - 1, ![c].wants = wants]
  /\ UNCHANGED <<rows, tx, begun>>

Doing(c) == bulk[c].wants[1]

Wants(c, op) == bulk[c].stage = "find" /\ Doing(c).op = op

\* The statement will write this of the row.
Plans(c, up) ==
  /\ bulk' = [bulk EXCEPT ![c].stage = "write", ![c].up = up]
  /\ UNCHANGED <<rows, tx, begun>>

Missing(c, place) == \E k \in DOMAIN place : place[k] \notin DOMAIN View(c)

CreateWant(c) ==
  /\ Wants(c, "create")
  /\ LET w == Doing(c)
     IN  /\ ~Missing(c, w.place)
         /\ \E p \in Seen(c)!LastOf(Seen(c)!Siblings(w.id, w.place)) :
              Plans(c, <<[place |-> w.place, rank |-> Rank(p, <<>>).rank,
                          title |-> w.title]>>)

EditWant(c) ==
  /\ Wants(c, "edit") /\ Doing(c).id \in DOMAIN View(c)
  /\ Plans(c, <<[View(c)[Doing(c).id] EXCEPT !.title = Doing(c).title]>>)

MoveWant(c) ==
  /\ Wants(c, "move")
  /\ LET w == Doing(c)
         S == Seen(c)!Siblings(w.id, w.place) \ {w.id}
     IN  /\ w.id \in DOMAIN View(c) /\ ~Missing(c, w.place)
         /\ \E L \in Seen(c)!Cuts(S) :
            \E p \in Seen(c)!LastOf(L), n \in Seen(c)!FirstOf(S \ L) :
              Plans(c, <<[View(c)[w.id] EXCEPT !.place = w.place,
                                               !.rank = Rank(p, n).rank]>>)

DeleteWant(c) ==
  /\ Wants(c, "delete") /\ Doing(c).id \in DOMAIN View(c)
  /\ Plans(c, <<>>)

Fails(c) ==
  /\ bulk' = [bulk EXCEPT ![c].stage = "failed"]
  /\ UNCHANGED <<rows, tx, begun>>

\* A row or a parent is not found, or an index lies behind the end of the list.
WantRefused(c) ==
  /\ bulk[c].stage = "find"
  /\ LET w == Doing(c)
     IN  \/ w.op # "create" /\ w.id \notin DOMAIN View(c)
         \/ w.op \in {"create", "move"} /\ Missing(c, w.place)
         \/ w.op = "move" /\ Seen(c)!Siblings(w.id, w.place) \ {w.id} # {}
  /\ Fails(c)

\* A DELETE whose row is gone by now matches nothing: it locks nothing, violates
\* nothing, and is no error.  An upsert always writes its row.
Matches(c) == bulk[c].up # <<>> \/ Doing(c).id \in DOMAIN View(c)

\* What the statement writes, alone.
Statement(c) == [y \in {z \in {Doing(c).id} : Matches(c)} |-> bulk[c].up]

Runs(c) ==
  /\ bulk[c].stage = "write"
  /\ Matches(c) =>
       \A d \in Clients \ {c} : /\ Doing(c).id \notin DOMAIN Pending(d)
                                 /\ ~WaitsFor(d, Under(Statement(c), View(c)))

Violates(c) == Matches(c) /\ ~Fits(Under(Statement(c), View(c)))

\* hit is history: whether the statement of the item met a row.
Done(b, ok, hit, row) ==
  [b EXCEPT !.stage = "next", !.wants = <<>>, !.up = <<>>, !.item = <<>>,
            !.results = Append(@, [id |-> b.wants[1].id, ok |-> ok, hit |-> hit,
                                   row |-> row])]

\* After the last statement of an item its savepoint is released.
WriteWant(c) ==
  /\ Runs(c) /\ ~Violates(c)
  /\ LET b    == bulk[c]
         item == Over(Statement(c), b.item)
     IN  bulk' = [bulk EXCEPT ![c] =
           IF Len(b.wants) > 1
           THEN [b EXCEPT !.stage = "find", !.wants = Tail(@), !.up = <<>>, !.item = item]
           ELSE [Done(b, TRUE, Matches(c), b.up) EXCEPT !.kept = Over(item, @)]]
  /\ UNCHANGED <<rows, tx, begun>>

\* MustExec panics where a key is violated, and the item is left.
WritePanics(c) == Runs(c) /\ Violates(c) /\ Fails(c)

\* Bug: the savepoint is released, but not rolled back to.
ReleaseItem(c) ==
  /\ bulk[c].stage = "failed"
  /\ bulk' = [bulk EXCEPT ![c] = [Done(@, FALSE, FALSE, <<>>) EXCEPT !.kept = Pending(c)]]
  /\ UNCHANGED <<rows, tx, begun>>

\* Whatever failed, the transaction goes back to the savepoint.
RollBackItem(c) ==
  /\ bulk[c].stage = "failed"
  /\ bulk' = [bulk EXCEPT ![c] = Done(@, FALSE, FALSE, <<>>)]
  /\ UNCHANGED <<rows, tx, begun>>

\* The call is answered with its results, and commits.
Commit(c) ==
  /\ bulk[c].stage = "next" /\ bulk[c].left = 0
  /\ rows' = View(c)
  /\ bulk' = [bulk EXCEPT ![c] = NoCall]
  /\ UNCHANGED <<tx, begun>>

\* The process, the connection or a lock fails it, and all of it rolls back.
Cancel(c) ==
  /\ bulk[c].stage # "none"
  /\ bulk' = [bulk EXCEPT ![c] = NoCall]
  /\ UNCHANGED <<rows, tx, begun>>

\* The requests of Board: one of a client at a time, and they wait for locks.  (A
\* deletion, one step, may also be a client's of whom nothing else is modelled.)
Beside ==
  /\ Next
  /\ \A c \in Clients : bulk[c].stage # "none" => tx'[c] = tx[c] /\ ~WaitsFor(c, rows')
  /\ UNCHANGED bulk

BulkNext ==
  \/ Beside
  \/ \E c \in Clients :
       \/ Begin(c) \/ NextItem(c)
       \/ CreateWant(c) \/ EditWant(c) \/ MoveWant(c) \/ DeleteWant(c) \/ WantRefused(c)
       \/ WriteWant(c) \/ WritePanics(c) \/ RollBackItem(c)
       \/ Commit(c) \/ Cancel(c)

BulkSpec == BulkInit /\ [][BulkNext]_bulkVars

----------------------------------------------------------------------------
(* Properties                                                              *)

\* What a call answers is what it commits: a row has what the last item that met
\* it wrote of it; the items that failed, at whichever of their statements, and
\* the deletions that found their row gone by then have changed nothing, and
\* leave alone what is committed beside the call, a row put back included.
BulkIsHonest ==
  [][\A c \in Clients : Commit(c) =>
       LET r == bulk[c].results
           Did(x) == {k \in DOMAIN r : r[k].hit /\ r[k].id = x}
           Is(x) == IF x \in DOMAIN rows' THEN <<rows'[x]>> ELSE <<>>
       IN  \A x \in Ids :
             IF Did(x) = {}
             THEN x \notin Changed(rows')
             ELSE \E k \in Did(x) :
                    r[k].ok /\ r[k].row = Is(x) /\ \A j \in Did(x) : j <= k
    ]_bulkVars

============================================================================
