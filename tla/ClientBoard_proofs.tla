------------------------- MODULE ClientBoard_proofs -------------------------
(***************************************************************************)
(* Proofs about ClientBoard: the types of the two stores and of what goes  *)
(* between them, that the page always has room for one more card, that     *)
(* answers revive nothing, and that the page and the server agree once     *)
(* nothing is under way.  The last needs to know of every call under way   *)
(* what it will still do to either side: Accord, the second invariant.     *)
(***************************************************************************)
EXTENDS ClientBoard, Lexorank_proofs

\* What the client's store, the server's tables and every answer are: typed rows,
\* those of the ranked slices with room above and below their ranks.
Roomy(s) ==
  /\ DOMAIN s \subseteq Ids
  /\ \A x \in DOMAIN s : s[x] \in Row
  /\ \A x \in DOMAIN s \cap Ranked : HasRoom(s[x].rank)

\* A row that may be put under x.
RowFor(x, row) == row \in Row /\ (x \in Ranked => HasRoom(row.rank))

-----------------------------------------------------------------------------
(* Ranks                                                                   *)

\* Rank keeps the room of its arguments whatever their order: if there is no
\* word between them it returns the first one.
LEMMA RankKeepsRoom ==
  ASSUME NEW p \in Word, NEW n \in Word,
         p = <<>> \/ HasRoom(p), n = <<>> \/ HasRoom(n)
  PROVE  Rank(p, n).rank \in Word /\ HasRoom(Rank(p, n).rank)
<1>1. CASE p = <<>>
  BY <1>1, RankHasRoom
<1>2. CASE HasRoom(p)
  <2> DEFINE N == OrLast(n)
             r == Upto(p, N, SplitAt(p, N))
  <2>1. OrFirst(p) = p /\ p # <<>> /\ p[1] < Top
    BY <1>2 DEF OrFirst, HasRoom
  <2>2. N \in Word
    <3>1. <<Top>> \in Word
      BY TopAssumption DEF Word, Letter
    <3> QED BY <3>1 DEF OrLast
  <2>3. SplitAt(p, N) \in Nat \ {0} /\ Splits(p, N, SplitAt(p, N))
    BY <2>2, SplitIsFirst
  <2>4. r \in Word /\ HasRoom(r)
    BY <2>1, <2>2, <2>3, UptoType, SplitHasRoom
  <2>5. Rank(p, n).rank \in {r, p}
    BY <2>1 DEF Rank
  <2> QED BY <1>2, <2>4, <2>5
<1> QED BY <1>1, <1>2

\* The tables, two by two.
LEMMA TablesApart ==
  /\ Projects \cap (Milestones \cup Workflows \cup SubWorkflows \cup Features) = {}
  /\ Projects \cap (Comments \cup Personas \cup WorkflowPersonas) = {}
  /\ Milestones \cap (Workflows \cup SubWorkflows \cup Features) = {}
  /\ Milestones \cap (Comments \cup Personas \cup WorkflowPersonas) = {}
  /\ Workflows \cap (SubWorkflows \cup Features) = {}
  /\ Workflows \cap (Comments \cup Personas \cup WorkflowPersonas) = {}
  /\ SubWorkflows \cap (Features \cup Comments \cup Personas \cup WorkflowPersonas) = {}
  /\ Features \cap (Comments \cup Personas \cup WorkflowPersonas) = {}
  /\ Comments \cap (Personas \cup WorkflowPersonas) = {}
  /\ Personas \cap WorkflowPersonas = {}
<1> DEFINE T == <<Projects, Milestones, Workflows, SubWorkflows, Features,
                  Comments, Personas, WorkflowPersonas>>
<1>1. DOMAIN T = 1 .. 8
  OBVIOUS
<1>2. \A i, j \in 1 .. 8 : i # j => T[i] \cap T[j] = {}
  BY <1>1, SlicesAssumption
<1>3. /\ T[1] \cap (T[2] \cup T[3] \cup T[4] \cup T[5]) = {}
      /\ T[1] \cap (T[6] \cup T[7] \cup T[8]) = {}
      /\ T[2] \cap (T[3] \cup T[4] \cup T[5]) = {}
      /\ T[2] \cap (T[6] \cup T[7] \cup T[8]) = {}
      /\ T[3] \cap (T[4] \cup T[5]) = {}
      /\ T[3] \cap (T[6] \cup T[7] \cup T[8]) = {}
      /\ T[4] \cap (T[5] \cup T[6] \cup T[7] \cup T[8]) = {}
      /\ T[5] \cap (T[6] \cup T[7] \cup T[8]) = {}
      /\ T[6] \cap (T[7] \cup T[8]) = {}
      /\ T[7] \cap T[8] = {}
  <2> HIDE DEF T
  <2> QED BY <1>2
<1> QED BY <1>3

\* A slice that holds a ranked row holds ranked rows only.
LEMMA SliceIsRanked ==
  ASSUME NEW x \in Ranked, NEW y, SameSlice(x, y)
  PROVE  y \in Ranked
BY TablesApart DEF SameSlice, Ranked, Tables

\* The rank at an index of some rows of a ranked slice.
LEMMA RankAtHasRoom ==
  ASSUME NEW s, Roomy(s), NEW x \in Ranked, NEW place,
         NEW L \in SUBSET InPlace(s, x, place), NEW i
  PROVE  RankAt(s, L, i) \in Word /\ (RankAt(s, L, i) = <<>> \/ HasRoom(RankAt(s, L, i)))
<1>1. \A y \in L : s[y].rank \in Word /\ HasRoom(s[y].rank)
  BY SliceIsRanked DEF InPlace, Roomy, Row
<1>2. <<>> \in Word
  BY DEF Word
<1>3. RankAt(s, L, i) = <<>> \/ \E y \in L : RankAt(s, L, i) = s[y].rank
  BY DEF RankAt
<1> QED BY <1>1, <1>2, <1>3

-----------------------------------------------------------------------------
(* What the reducers do to such a store                                    *)

\* CREATE_X puts a typed row in and changes no other.
LEMMA CreatedKeeps ==
  ASSUME NEW s, Roomy(s), NEW x \in Ids, NEW row \in Row
  PROVE  Roomy(Created(s, x, row)) /\ x \in DOMAIN Created(s, x, row)
<1> DEFINE L == InPlace(s, x, row.place)
           r == IF x \in Ranked THEN Rank(RankAt(s, L, Cardinality(L)), <<>>).rank
                                ELSE <<>>
<1>1. <<>> \in Word
  BY DEF Word
<1>2. r \in Word /\ (x \in Ranked => HasRoom(r))
  <2>1. CASE x \in Ranked
    <3>1. /\ RankAt(s, L, Cardinality(L)) \in Word
          /\ RankAt(s, L, Cardinality(L)) = <<>> \/ HasRoom(RankAt(s, L, Cardinality(L)))
      BY <2>1, RankAtHasRoom
    <3> QED BY <1>1, <2>1, <3>1, RankKeepsRoom
  <2> QED BY <1>1, <2>1
<1>3. [row EXCEPT !.rank = r] \in Row /\ [row EXCEPT !.rank = r].rank = r
  BY <1>2 DEF Row
<1>4. Created(s, x, row) =
        [y \in DOMAIN s \cup {x} |-> IF y = x THEN [row EXCEPT !.rank = r] ELSE s[y]]
  BY DEF Created
<1> HIDE DEF r
<1> QED BY <1>2, <1>3, <1>4 DEF Roomy

\* UPDATE_X replaces a row of the store, and puts none in.
LEMMA UpdatedKeeps ==
  ASSUME NEW s, Roomy(s), NEW x, NEW row, x \in DOMAIN s => RowFor(x, row)
  PROVE  /\ Roomy(Updated(s, x, row))
         /\ DOMAIN Updated(s, x, row) = DOMAIN s
         /\ x \in DOMAIN s => Updated(s, x, row)[x] = row
BY DEF Roomy, Updated, RowFor

LEMMA WithoutKeeps ==
  ASSUME NEW s, Roomy(s), NEW X
  PROVE  Roomy(Without(s, X)) /\ DOMAIN Without(s, X) \subseteq DOMAIN s
BY DEF Roomy, Without

LEMMA ViewKeeps ==
  ASSUME NEW s, Roomy(s)
  PROVE  Roomy(View(s))
<1>1. Shown(s) \subseteq DOMAIN s
  BY DEF Shown, Held
<1> QED BY <1>1 DEF View, Roomy

\* MOVE_X ranks the row between its neighbours: whatever their order there is a
\* rank with room.
LEMMA MovedKeeps ==
  ASSUME NEW s, Roomy(s), NEW x \in Ranked, NEW place, NEW i,
         x \in DOMAIN s => place \in Seq(Ids)
  PROVE  Roomy(MovedTo(s, x, place, i)) /\ DOMAIN MovedTo(s, x, place, i) = DOMAIN s
<1> DEFINE L == InPlace(s, x, place) \ {x}
           p == RankAt(s, L, i)
           n == RankAt(s, L, i + 1)
           r == Rank(p, n).rank
           row == [s[x] EXCEPT !.place = place, !.rank = r]
<1>1. /\ p \in Word /\ (p = <<>> \/ HasRoom(p))
      /\ n \in Word /\ (n = <<>> \/ HasRoom(n))
  BY RankAtHasRoom
<1> HIDE DEF p, n
<1>2. r \in Word /\ HasRoom(r)
  BY <1>1, RankKeepsRoom
<1> HIDE DEF r
<1>3. x \in DOMAIN s => RowFor(x, row)
  BY <1>2 DEF Roomy, Row, RowFor
<1>4. MovedTo(s, x, place, i) = Updated(s, x, row)
  BY DEF MovedTo, p, n, r
<1> HIDE DEF row
<1> QED BY <1>3, <1>4, UpdatedKeeps

LEMMA LoadedKeeps ==
  ASSUME NEW s, Roomy(s), NEW slice, NEW new, Roomy(new)
  PROVE  Roomy(Loaded(s, slice, new))
BY DEF Roomy, Loaded

-----------------------------------------------------------------------------
(* Actions and reducers                                                    *)

\* What an action has to bring along.
Fine(a) ==
  /\ a.type = "create" => a.id \in Ids /\ a.row \in Row
  /\ a.type = "update" => RowFor(a.id, a.row)
  /\ a.type = "move"   => a.row.place \in Seq(Ids)
  /\ a.type = "load"   => Roomy(a.row)

\* Actions that put no row in.
Adds(a) == a.type \in {"create", "load"}

\* t is a store that some action may leave of s.
Follows(s, a, t) == Roomy(t) /\ (~Adds(a) => DOMAIN t \subseteq DOMAIN s)

LEMMA ReducedKeeps ==
  ASSUME NEW s, Roomy(s), NEW a, Fine(a), NEW slice
  PROVE  Follows(s, a, Reduced(slice, s, a))
<1>1. CASE a.type = "create" /\ a.id \in slice
  BY <1>1, CreatedKeeps DEF Reduced, Fine, Follows, Adds
<1>2. CASE a.type = "update" /\ a.id \in slice
  BY <1>2, UpdatedKeeps DEF Reduced, Fine, Follows
<1>3. CASE a.type = "delete" /\ a.id \in slice
  BY <1>3, WithoutKeeps DEF Reduced, Follows
<1>4. CASE ~ (a.type \in {"create", "update", "delete"} /\ a.id \in slice)
  BY <1>4 DEF Reduced, Follows
<1> QED BY <1>1, <1>2, <1>3, <1>4

\* The reducers of the ranked slices.
LEMMA RankedReducersKeep ==
  ASSUME NEW s, Roomy(s), NEW a, Fine(a)
  PROVE  /\ Follows(s, a, MilestonesReducer(s, a))
         /\ Follows(s, a, WorkflowsReducer(s, a))
         /\ Follows(s, a, SubWorkflowsReducer(s, a))
         /\ Follows(s, a, FeaturesReducer(s, a))
<1>1. ASSUME NEW place, a.id \in Ranked, a.id \in DOMAIN s => place \in Seq(Ids)
      PROVE  Follows(s, a, MovedTo(s, a.id, place, a.row.index))
  BY <1>1, MovedKeeps DEF Follows
<1>2. a.id \in DOMAIN s => s[a.id].place \in Seq(Ids)
  BY DEF Roomy, Row
<1>3. a.type = "move" => a.row.place \in Seq(Ids)
  BY DEF Fine
<1>4. \A slice : Follows(s, a, Reduced(slice, s, a))
  BY ReducedKeeps
<1>5. Follows(s, a, MilestonesReducer(s, a))
  BY <1>1, <1>2, <1>4 DEF MilestonesReducer, Ranked
<1>6. Follows(s, a, WorkflowsReducer(s, a))
  BY <1>1, <1>2, <1>4 DEF WorkflowsReducer, Ranked
<1>7. Follows(s, a, SubWorkflowsReducer(s, a))
  BY <1>1, <1>3, <1>4 DEF SubWorkflowsReducer, Ranked
<1>8. Follows(s, a, FeaturesReducer(s, a))
  <2>1. CASE a.type = "move" /\ a.id \in Features
    BY <1>1, <1>3, <2>1 DEF FeaturesReducer, Ranked
  <2>2. CASE a.type = "deleteBy"
    <3> DEFINE X == {f \in DOMAIN s \cap Features : Parents(s, f) \cap a.id # {}}
    <3>1. FeaturesReducer(s, a) = Without(s, X)
      BY <2>2 DEF FeaturesReducer
    <3> QED BY <3>1, WithoutKeeps DEF Follows
  <2>3. CASE a.type # "deleteBy" /\ ~(a.type = "move" /\ a.id \in Features)
    BY <1>4, <2>3 DEF FeaturesReducer
  <2> QED BY <2>1, <2>2, <2>3
<1> QED BY <1>5, <1>6, <1>7, <1>8

\* combineReducers keeps the store typed and its ranks roomy, and only creations
\* and loads put rows in.
LEMMA DispatchedKeeps ==
  ASSUME NEW s, Roomy(s), NEW a, Fine(a)
  PROVE  Roomy(Dispatched(s, a)) /\ (~Adds(a) => DOMAIN Dispatched(s, a) \subseteq DOMAIN s)
<1>1. a.type = "load" => Follows(s, a, Loaded(s, UNION a.id, a.row))
  BY LoadedKeeps DEF Fine, Follows, Adds
<1>2. /\ Follows(s, a, ProjectsReducer(s, a)) /\ Follows(s, a, FeatureCommentsReducer(s, a))
      /\ Follows(s, a, PersonasReducer(s, a)) /\ Follows(s, a, WorkflowPersonasReducer(s, a))
  BY ReducedKeeps
     DEF ProjectsReducer, FeatureCommentsReducer, PersonasReducer, WorkflowPersonasReducer
<1>3. Follows(s, a, s)
  BY DEF Follows
<1>4. Follows(s, a, Dispatched(s, a))
  BY <1>1, <1>2, <1>3, RankedReducersKeep DEF Dispatched
<1> QED BY <1>4 DEF Follows

-----------------------------------------------------------------------------
(* The server                                                              *)

\* Only the cards of ranked slices are moved.
Wellformed(c) == c \in RequestType /\ (c.op = "move" => c.id \in Ranked)

\* The calls whose answer brings the row they are about.
Brings(c) == c.op \in Edits \/ (c.op = "create" /\ c.id \notin Personas)

\* What a call leaves: roomy tables, and an answer to be put into the store.
Sound(c, v) ==
  /\ Roomy(v.rows) /\ Roomy(v.answer)
  /\ v.ok /\ Brings(c) => c.id \in DOMAIN v.answer

LEMMA ReplyIsSound ==
  ASSUME NEW r, Roomy(r), NEW c, Brings(c) => c.id \in DOMAIN r
  PROVE  Sound(c, Reply(r, c))
BY DEF Sound, Reply, Only, Roomy

LEMMA RefusalIsSound ==
  ASSUME NEW r, Roomy(r), NEW c
  PROVE  Sound(c, Refusal(r))
BY DEF Sound, Refusal, NoRows, Roomy

LEMMA FreshIsRow ==
  ASSUME NEW place \in Seq(Ids), NEW t \in Values
  PROVE  Fresh(place, t) \in Row
<1>1. <<>> \in Word
  BY DEF Word
<1>2. Fresh(place, t).data \in [Fields -> Values]
  BY DEF Fresh, Values
<1> QED BY <1>1, <1>2 DEF Fresh, Row

LEMMA EditedIsRow ==
  ASSUME NEW row \in Row, NEW op \in Edits, NEW t \in Values
  PROVE  Edited(row, op, t) \in Row /\ Edited(row, op, t).rank = row.rank
BY DEF Edited, Row, Edits, FieldOf, Fields

LEMMA CreateIsServed ==
  ASSUME NEW r, Roomy(r), NEW c, c.id \in Ids, c.place \in Seq(Ids), c.text \in Values
  PROVE  Sound(c, ServeCreate(r, c))
<1>1. /\ Roomy(Created(r, c.id, Fresh(c.place, c.text)))
      /\ c.id \in DOMAIN Created(r, c.id, Fresh(c.place, c.text))
  BY FreshIsRow, CreatedKeeps
<1> QED BY <1>1, ReplyIsSound, RefusalIsSound DEF ServeCreate

\* Every kind of call.
LEMMA ServedIsSound ==
  ASSUME NEW r, Roomy(r), NEW c, Wellformed(c)
  PROVE  Sound(c, Served(r, c))
<1>1. /\ c.id \in Ids /\ c.place \in Seq(Ids) /\ c.text \in Values /\ c.op \in Ops
      /\ c.to \in {<<>>} \cup (Ids \X Ids)
  BY DEF Wellformed, RequestType
<1>2. CASE c.op = "get"
  <2>1. Sound(c, [Reply(r, c) EXCEPT !.answer = r])
    BY <1>2 DEF Sound, Reply, Brings, Edits, FieldOf
  <2>2. Served(r, c) = ServeGet(r, c)
    BY <1>2 DEF Served, Edits, FieldOf
  <2> QED BY <2>1, <2>2 DEF ServeGet
<1>3. CASE c.op = "create" /\ c.id \in Personas
  <2> DEFINE first == ServeCreate(r, c)
             tie == Create(c.to[1], <<c.to[2], c.id>>, Blank)
  <2>1. Sound(c, first)
    BY <1>1, CreateIsServed
  <2>2. ASSUME c.to # <<>> PROVE Sound(c, ServeCreate(first.rows, tie))
    <3>1. c.to[1] \in Ids /\ c.to[2] \in Ids
      BY <1>1, <2>2
    <3>2. tie.id \in Ids /\ tie.place \in Seq(Ids) /\ tie.text \in Values
      BY <1>1, <3>1 DEF Create, Request, Values
    <3>3. Sound(tie, ServeCreate(first.rows, tie))
      BY <2>1, <3>2, CreateIsServed DEF Sound
    <3> QED BY <1>3, <3>3 DEF Sound, Brings, Edits, FieldOf
  <2>3. Served(r, c) = ServeCreatePersona(r, c)
    BY <1>3 DEF Served, Edits, FieldOf
  <2> QED BY <2>1, <2>2, <2>3 DEF ServeCreatePersona
<1>4. CASE c.op = "create" /\ c.id \notin Personas
  <2>1. Served(r, c) = ServeCreate(r, c)
    BY <1>4 DEF Served, Edits, FieldOf
  <2> QED BY <1>1, <2>1, CreateIsServed
<1>5. CASE c.op \in Edits
  <2>1. ASSUME c.id \in DOMAIN r
        PROVE  Sound(c, Reply(Updated(r, c.id, Edited(r[c.id], c.op, c.text)), c))
    <3>1. RowFor(c.id, Edited(r[c.id], c.op, c.text))
      BY <1>1, <1>5, <2>1, EditedIsRow DEF Roomy, RowFor
    <3> QED BY <2>1, <3>1, UpdatedKeeps, ReplyIsSound
  <2>2. Served(r, c) = ServeEdit(r, c)
    BY <1>5 DEF Served, Edits, FieldOf
  <2> QED BY <2>1, <2>2, RefusalIsSound DEF ServeEdit
<1>6. CASE c.op = "move"
  <2>1. Roomy(MovedTo(r, c.id, c.place, c.index))
    BY <1>1, <1>6, MovedKeeps DEF Wellformed
  <2>2. ~Brings(c)
    BY <1>6 DEF Brings, Edits, FieldOf
  <2>3. Served(r, c) = ServeMove(r, c)
    BY <1>6 DEF Served, Edits, FieldOf
  <2> QED BY <2>1, <2>2, <2>3, ReplyIsSound, RefusalIsSound DEF ServeMove
<1>7. CASE c.op = "delete"
  <2>1. Roomy(Deleted(r, c.id)) /\ Roomy(NoRows)
    BY WithoutKeeps, ViewKeeps DEF Deleted, NoRows, Roomy
  <2>2. ~Brings(c)
    BY <1>7 DEF Brings, Edits, FieldOf
  <2>3. Sound(c, [Reply(r, c) EXCEPT !.rows = Deleted(r, c.id), !.answer = NoRows])
    BY <2>1, <2>2 DEF Sound, Reply
  <2>4. Served(r, c) = ServeDelete(r, c)
    BY <1>7 DEF Served, Edits, FieldOf
  <2> QED BY <2>3, <2>4, RefusalIsSound DEF ServeDelete
<1> QED BY <1>1, <1>2, <1>3, <1>4, <1>5, <1>6, <1>7 DEF Ops

-----------------------------------------------------------------------------
(* The invariant                                                           *)

\* A call is well formed, and an answer that is to be put into the store is there.
CallFits(c) ==
  /\ c \in [req : {c.req}, state : {"sent", "ok", "refused"}, turn : Nat,
            answer : {c.answer}]
  /\ Wellformed(c.req) /\ Roomy(c.answer)
  /\ c.state = "ok" /\ Brings(c.req) => c.req.id \in DOMAIN c.answer

\* TypeOK is not inductive by itself: a rank is computed from ranks with room
\* only, wherever they come from, and the order of serving needs a last one.
Inv ==
  /\ TypeOK
  /\ Roomy(store) /\ Roomy(rows)
  /\ \A k \in DOMAIN calls : CallFits(calls[k])
  /\ \E b \in Nat : \A k \in DOMAIN calls : calls[k].turn <= b

\* The calls under way, and what Inv and TypeOK say about them.
CallsFit(cs) ==
  /\ DOMAIN cs \subseteq Nat
  /\ \A k \in DOMAIN cs :
       /\ CallFits(cs[k])
       /\ cs[k].state \in {"sent", "ok", "refused"} /\ cs[k].turn \in Nat
  /\ \E b \in Nat : \A k \in DOMAIN cs : cs[k].turn <= b

Reasons == {"hasty", "blind", "moved", "reload", "lost", "elsewhere", "alert",
            "reversed", "project"}

LeftBounds == [edits : 0 .. MaxEdits, loads : 0 .. MaxLoads, faults : 0 .. MaxFaults]

\* The same, with each part of the state in one conjunct.
Parts ==
  /\ Roomy(store) /\ Roomy(rows) /\ CallsFit(calls)
  /\ page \in {"board", "loading", "projects"} /\ mount \in Nat /\ mode \in Modes
  /\ fresh \subseteq Ids /\ gone \subseteq Ids
  /\ why \subseteq Reasons /\ left \in LeftBounds

LEMMA InvHasParts == Inv <=> Parts
<1>1. ASSUME CallsFit(calls)
      PROVE  \A k \in DOMAIN calls :
               /\ calls[k].req \in RequestType
               /\ \A x \in DOMAIN calls[k].answer : x \in Ids /\ calls[k].answer[x] \in Row
  BY <1>1 DEF CallsFit, CallFits, Wellformed, Roomy
<1>2. Roomy(store) /\ Roomy(rows) =>
        /\ DOMAIN store \subseteq Ids /\ \A x \in DOMAIN store : store[x] \in Row
        /\ DOMAIN rows \subseteq Ids /\ \A x \in DOMAIN rows : rows[x] \in Row
  BY DEF Roomy
<1> QED BY <1>1, <1>2 DEF Parts, Inv, TypeOK, CallsFit, Reasons, LeftBounds

LEMMA NextInvHasParts == Inv' <=> Parts'
BY InvHasParts, PTL

LEMMA CallAdded ==
  ASSUME Inv, NEW c, Wellformed(c)
  PROVE  CallsFit(WithCall(c)) /\ Number \in Nat
<1>1. Number \in Nat
  BY NetAssumption, InvHasParts DEF Parts, LeftBounds, Number
<1>2. CallFits(SentCall(c)) /\ SentCall(c).state = "sent" /\ SentCall(c).turn = 0
  BY DEF SentCall, CallFits, NoRows, Roomy
<1>3. PICK b \in Nat : \A k \in DOMAIN calls : calls[k].turn <= b
  BY DEF Inv
<1>4. \A k \in DOMAIN WithCall(c) : WithCall(c)[k].turn <= b
  BY <1>2, <1>3 DEF WithCall
<1>5. CallsFit(calls)
  BY InvHasParts DEF Parts
<1> QED BY <1>1, <1>2, <1>3, <1>4, <1>5 DEF CallsFit, WithCall

LEMMA CallRemoved ==
  ASSUME Inv, NEW k
  PROVE  CallsFit(WithoutCall(k))
<1>1. CallsFit(calls)
  BY InvHasParts DEF Parts
<1>2. PICK b \in Nat : \A n \in DOMAIN calls : calls[n].turn <= b
  BY DEF Inv
<1>3. \A n \in DOMAIN WithoutCall(k) : WithoutCall(k)[n].turn <= b
  BY <1>2 DEF WithoutCall
<1> QED BY <1>1, <1>2, <1>3 DEF CallsFit, WithoutCall

\* The next turn comes after those of the calls under way.
LEMMA LatestIsLast ==
  ASSUME Inv
  PROVE  Latest \in Nat /\ \A k \in DOMAIN calls : calls[k].turn < Latest
<1> DEFINE T == {t \in Nat : \A u \in Turns : u <= t}
<1>1. 0 \in Turns /\ Turns \subseteq Nat /\ \A k \in DOMAIN calls : calls[k].turn \in Turns
  BY InvHasParts DEF Parts, Turns, Calls, CallsFit
<1>2. T # {}
  <2>1. PICK b \in Nat : \A k \in DOMAIN calls : calls[k].turn <= b
    BY DEF Inv
  <2>2. \A u \in Turns : u = 0 \/ \E k \in DOMAIN calls : u = calls[k].turn
    BY DEF Turns, Calls
  <2> QED BY <2>1, <2>2
<1>3. PICK t \in T : \A u \in T : t <= u
  BY <1>2, Least
<1>4. t \in Turns
  <2>1. SUFFICES ASSUME t \notin Turns PROVE FALSE
    OBVIOUS
  <2>2. t # 0 /\ t - 1 \in Nat
    BY <1>1, <2>1
  <2>3. \A u \in Turns : u <= t - 1
    BY <1>1, <2>1
  <2> QED BY <1>3, <2>2, <2>3
<1> DEFINE m == CHOOSE v \in Turns : \A u \in Turns : u <= v
<1>5. m \in Turns /\ \A u \in Turns : u <= m
  <2>1. \E v \in Turns : \A u \in Turns : u <= v
    BY <1>3, <1>4
  <2> QED BY <2>1, Zenon
<1>6. Latest = 1 + m
  BY DEF Latest
<1> HIDE DEF m
<1>7. m \in Nat
  BY <1>1, <1>5
<1>8. \A k \in DOMAIN calls : calls[k].turn \in Nat /\ calls[k].turn <= m
  BY <1>1, <1>5
<1> QED BY <1>6, <1>7, <1>8

-----------------------------------------------------------------------------
(* The forms: each leaves a roomy store and a well-formed call             *)

Filed == \E s, c : Roomy(s) /\ Wellformed(c) /\ Submit(s, c)

LEMMA ShownAreThere ==
  ASSUME NEW X
  PROVE  On(X) \subseteq X \cap DOMAIN store
BY DEF On, Shown, Held

LEMMA Ops8 ==
  Edits \subseteq Ops /\ {"get", "create", "move", "delete"} \subseteq Ops
BY DEF Ops

LEMMA ValuesKnown ==
  Blank \in Values /\ Texts \subseteq Values /\ "OPEN" \in Values /\ "CLOSED" \in Values
BY DEF Values

LEMMA CallsAreWellformed ==
  ASSUME NEW x \in Ids, NEW place \in Seq(Ids), NEW t \in Values
  PROVE  /\ Wellformed(Get(x)) /\ Wellformed(Delete(x)) /\ Wellformed(Create(x, place, t))
         /\ \A op \in Edits : Wellformed(Edit(op, x, t))
         /\ x \in Ranked => \A i \in Nat : Wellformed(Move(x, place, i))
         /\ \A y, w \in Ids : Wellformed(Request("create", x, place, 0, t, <<y, w>>))
<1>1. <<>> \in Seq(Ids)
  OBVIOUS
<1>2. "move" \notin Edits
  BY DEF Edits, FieldOf
<1> QED BY <1>1, <1>2, Ops8, ValuesKnown
        DEF Wellformed, RequestType, Request, Get, Delete, Create, Edit, Move

LEMMA CreateFiled ==
  ASSUME Inv, NEW x \in Ids, NEW place \in Seq(Ids), NEW t \in Values, NEW c, Wellformed(c),
         Submit(Dispatched(store, Act("create", x, Fresh(place, t))), c)
  PROVE  Filed
<1>1. Fine(Act("create", x, Fresh(place, t)))
  BY FreshIsRow DEF Fine, Act
<1> QED BY <1>1, DispatchedKeeps DEF Inv, Filed

LEMMA CardFiled ==
  ASSUME Inv, NEW x \in Ids, NEW place \in Seq(Ids), NEW t \in Texts, CreateCard(x, place, t)
  PROVE  Filed
BY CreateFiled, CallsAreWellformed, ValuesKnown DEF CreateCard

LEMMA DropFiled ==
  ASSUME Inv, NEW x \in Ranked, NEW place \in Seq(Ids), NEW i \in Nat, Drop(x, place, i)
  PROVE  Filed
<1>1. Fine(Act("move", x, [place |-> place, index |-> i]))
  BY DEF Fine, Act
<1>2. x \in Ids
  BY DEF Ids, Tables, Ranked
<1>3. Wellformed(Move(x, place, i))
  BY <1>2, CallsAreWellformed, ValuesKnown
<1> QED BY <1>1, <1>3, DispatchedKeeps DEF Drop, Inv, Filed

\* An edited row keeps its rank.
LEMMA UpdateFiled ==
  ASSUME Inv, NEW x \in DOMAIN store, NEW op \in Edits, NEW t \in Values,
         Submit(Dispatched(store, Act("update", x, Edited(store[x], op, t))), Edit(op, x, t))
  PROVE  Filed
<1>1. x \in Ids /\ RowFor(x, Edited(store[x], op, t))
  BY EditedIsRow DEF Inv, Roomy, RowFor
<1>2. Fine(Act("update", x, Edited(store[x], op, t)))
  BY <1>1 DEF Fine, Act
<1>3. <<>> \in Seq(Ids)
  OBVIOUS
<1>4. Wellformed(Edit(op, x, t))
  BY <1>1, <1>3, CallsAreWellformed
<1> QED BY <1>2, <1>4, DispatchedKeeps DEF Inv, Filed

LEMMA DeleteFiled ==
  ASSUME Inv, NEW x \in Ids, NEW s, Roomy(s), Submit(s, Delete(x))
  PROVE  Filed
<1>1. <<>> \in Seq(Ids)
  OBVIOUS
<1>2. Wellformed(Delete(x))
  BY <1>1, CallsAreWellformed, ValuesKnown
<1> QED BY <1>2 DEF Filed

LEMMA DeletedIsRoomy ==
  ASSUME Inv, NEW x
  PROVE  Roomy(Dispatched(store, Act("delete", x, Blank)))
<1>1. Fine(Act("delete", x, Blank))
  BY DEF Fine, Act
<1> QED BY <1>1, DispatchedKeeps DEF Inv

LEMMA TablesAreIds ==
  \A T \in Tables : T \subseteq Ids
BY DEF Ids

\* The parents of a card: a cell, a project or a workflow.
LEMMA PlacesAreIds ==
  /\ \A p \in Projects \cup Workflows \cup Features : <<p>> \in Seq(Ids)
  /\ \A cell \in Cells : cell \in Seq(Ids)
  /\ \A w \in Workflows, a \in Personas : <<w, a>> \in Seq(Ids)
<1>1. /\ Projects \cup Workflows \cup Features \subseteq Ids
      /\ Milestones \cup SubWorkflows \cup Personas \subseteq Ids
  BY DEF Ids, Tables
<1>2. \A x, y \in Ids : <<x>> \in Seq(Ids) /\ <<x, y>> \in Seq(Ids)
  OBVIOUS
<1>3. \A cell \in Cells : \E x, y \in Ids : cell = <<x, y>>
  BY <1>1, ShownAreThere DEF Cells
<1> QED BY <1>1, <1>2, <1>3

LEMMA CardMadeFiled ==
  ASSUME Inv, CardMade
  PROVE  Filed
<1>1. PICK t \in Texts :
        \/ \E x \in fresh \cap Workflows, p \in Projects : CreateWorkflow(x, p, t)
        \/ \E x \in fresh \cap Milestones, p \in Projects : CreateMilestone(x, p, t)
        \/ \E x \in fresh \cap SubWorkflows, w \in Workflows : CreateSubWorkflow(x, w, t)
        \/ \E x \in fresh \cap Features, cell \in Cells : CreateFeature(x, cell, t)
  BY DEF CardMade
<1>2. fresh \subseteq Ids
  BY InvHasParts DEF Parts
<1>3. CASE \E x \in fresh \cap Workflows, p \in Projects : CreateWorkflow(x, p, t)
  BY <1>2, <1>3, CardFiled, PlacesAreIds DEF CreateWorkflow
<1>4. CASE \E x \in fresh \cap Milestones, p \in Projects : CreateMilestone(x, p, t)
  BY <1>2, <1>4, CardFiled, PlacesAreIds DEF CreateMilestone
<1>5. CASE \E x \in fresh \cap SubWorkflows, w \in Workflows : CreateSubWorkflow(x, w, t)
  BY <1>2, <1>5, CardFiled, PlacesAreIds DEF CreateSubWorkflow
<1>6. CASE \E x \in fresh \cap Features, cell \in Cells : CreateFeature(x, cell, t)
  BY <1>2, <1>6, CardFiled, PlacesAreIds DEF CreateFeature
<1> QED BY <1>1, <1>3, <1>4, <1>5, <1>6

LEMMA CardMovedFiled ==
  ASSUME Inv, CardMoved
  PROVE  Filed
<1>1. ASSUME NEW x, NEW place, NEW i, Drop(x, place, i)
      PROVE  i \in Nat
  BY <1>1 DEF Drop
<1>2. \A x \in DOMAIN store : store[x].place \in Seq(Ids)
  BY DEF Inv, Roomy, Row
<1>3. Milestones \cup Workflows \cup SubWorkflows \cup Features \subseteq Ranked
  BY DEF Ranked
<1>4. CASE \E x \in On(Features), cell \in Cells, i \in 0 .. Cardinality(Features) :
             MoveFeature(x, cell, i)
  BY <1>1, <1>3, <1>4, DropFiled, PlacesAreIds, ShownAreThere DEF MoveFeature
<1>5. CASE \E x \in On(Milestones), i \in 0 .. Cardinality(Milestones) : MoveMilestone(x, i)
  BY <1>1, <1>2, <1>3, <1>5, DropFiled, ShownAreThere DEF MoveMilestone
<1>6. CASE \E x \in On(Workflows), i \in 0 .. Cardinality(Workflows) : MoveWorkflow(x, i)
  BY <1>1, <1>2, <1>3, <1>6, DropFiled, ShownAreThere DEF MoveWorkflow
<1>7. CASE \E x \in On(SubWorkflows), w \in Workflows, i \in 0 .. Cardinality(SubWorkflows) :
             MoveSubWorkflow(x, w, i)
  BY <1>1, <1>3, <1>7, DropFiled, PlacesAreIds, ShownAreThere DEF MoveSubWorkflow
<1> QED BY <1>4, <1>5, <1>6, <1>7 DEF CardMoved

LEMMA CardEditedFiled ==
  ASSUME Inv, CardEdited
  PROVE  Filed
<1>1. PICK x \in On(Ranked \cup Projects) :
        \/ \E t \in Texts :
             \/ RenameCard(x, t) \/ DescribeCard(x, t) \/ HandleChangeColor(x, t)
             \/ UpdateAnnotations(x, t) \/ ChangeEstimate(x, t)
        \/ HandleClose(x) \/ HandleOpen(x) \/ HandleDelete(x)
  BY DEF CardEdited
<1>2. x \in DOMAIN store /\ x \in Ids
  BY ShownAreThere DEF Inv, Roomy
<1>3. ASSUME NEW op \in Edits, NEW t \in Values, EditRow(x, op, t)
      PROVE  Filed
  BY <1>2, <1>3, UpdateFiled DEF EditRow
<1>4. {"rename", "describe", "color", "annotate", "estimate", "close", "open"} \subseteq Edits
  BY DEF Edits, FieldOf
<1>5. CASE \E t \in Texts :
             \/ RenameCard(x, t) \/ DescribeCard(x, t) \/ HandleChangeColor(x, t)
             \/ UpdateAnnotations(x, t) \/ ChangeEstimate(x, t)
  BY <1>3, <1>4, <1>5, ValuesKnown
     DEF RenameCard, DescribeCard, HandleChangeColor, UpdateAnnotations, ChangeEstimate
<1>6. CASE HandleClose(x) \/ HandleOpen(x)
  BY <1>3, <1>4, <1>6, ValuesKnown DEF HandleClose, HandleOpen
<1>7. CASE HandleDelete(x)
  <2> DEFINE s == Dispatched(store, Act("delete", x, Blank))
             a == Act("deleteBy", Emptied(s, x), Blank)
  <2>1. Roomy(s)
    BY DeletedIsRoomy
  <2>2. Fine(a)
    BY DEF Fine, Act
  <2>3. Roomy(Dispatched(s, a))
    BY <2>1, <2>2, DispatchedKeeps
  <2>4. Submit(Dispatched(s, a), Delete(x))
    BY <1>7 DEF HandleDelete
  <2> QED BY <1>2, <2>3, <2>4, DeleteFiled
<1> QED BY <1>1, <1>5, <1>6, <1>7

LEMMA DiscussedFiled ==
  ASSUME Inv, Discussed
  PROVE  Filed
<1>1. On(Comments) \subseteq DOMAIN store /\ DOMAIN store \subseteq Ids /\ fresh \subseteq Ids
  BY ShownAreThere, InvHasParts DEF Parts, Roomy
<1>2. "rename" \in Edits
  BY DEF Edits, FieldOf
<1>3. CASE \E x \in fresh \cap Comments, f \in Features, t \in Texts : PostComment(x, f, t)
  <2>1. PICK x \in fresh \cap Comments, f \in Features, t \in Texts : PostComment(x, f, t)
    BY <1>3
  <2>2. x \in Ids /\ <<f>> \in Seq(Ids) /\ t \in Values
    BY <1>1, PlacesAreIds, ValuesKnown
  <2>3. Wellformed(Create(x, <<f>>, t))
    BY <2>2, CallsAreWellformed
  <2> QED BY <2>1, <2>2, <2>3, CreateFiled DEF PostComment
<1>4. CASE \E x \in On(Comments), t \in Texts : EditComment(x, t)
  BY <1>1, <1>2, <1>4, UpdateFiled, ValuesKnown DEF EditComment
<1>5. CASE \E x \in On(Comments) : DeleteComment(x)
  BY <1>1, <1>5, DeleteFiled, DeletedIsRoomy DEF DeleteComment
<1> QED BY <1>3, <1>4, <1>5 DEF Discussed

LEMMA PersonaMadeFiled ==
  ASSUME Inv, PersonaMade
  PROVE  Filed
<1>1. PICK x \in fresh \cap Personas, p \in Projects, t \in Texts :
        \/ CreatePersona(x, p, t)
        \/ \E w \in Workflows, tag \in fresh \cap WorkflowPersonas :
             CreatePersonaFor(x, p, w, tag, t)
  BY DEF PersonaMade
<1>2. x \in Ids /\ <<p>> \in Seq(Ids) /\ t \in Values
  BY InvHasParts, PlacesAreIds, ValuesKnown DEF Parts
<1>3. CASE CreatePersona(x, p, t)
  BY <1>2, <1>3, CreateFiled, CallsAreWellformed DEF CreatePersona
<1>4. ASSUME NEW w \in Workflows, NEW tag \in fresh \cap WorkflowPersonas,
             CreatePersonaFor(x, p, w, tag, t)
      PROVE  Filed
  <2> DEFINE a == Act("create", x, Fresh(<<p>>, t))
             made == Dispatched(store, a)
             b == Act("create", tag, Fresh(<<w, x>>, Blank))
             c == Request("create", x, <<p>>, 0, t, <<tag, w>>)
  <2>1. tag \in Ids /\ w \in Ids /\ <<w, x>> \in Seq(Ids)
    BY InvHasParts, TablesAreIds, PlacesAreIds DEF Parts, Tables
  <2>2. Fine(a)
    BY <1>2, FreshIsRow DEF Fine, Act
  <2>3. Fine(b)
    BY <2>1, FreshIsRow, ValuesKnown DEF Fine, Act
  <2>4. Roomy(Dispatched(made, b))
    BY <2>2, <2>3, DispatchedKeeps DEF Inv
  <2>5. Wellformed(c)
    BY <1>2, <2>1, CallsAreWellformed
  <2>6. Submit(Dispatched(made, b), c)
    BY <1>4 DEF CreatePersonaFor
  <2> QED BY <2>4, <2>5, <2>6 DEF Filed
<1> QED BY <1>1, <1>3, <1>4

LEMMA PersonaChangedFiled ==
  ASSUME Inv, PersonaChanged
  PROVE  Filed
<1>1. /\ On(Personas) \subseteq DOMAIN store /\ On(WorkflowPersonas) \subseteq DOMAIN store
      /\ DOMAIN store \subseteq Ids /\ fresh \subseteq Ids
  BY ShownAreThere, InvHasParts DEF Parts, Roomy
<1>2. "rename" \in Edits
  BY DEF Edits, FieldOf
<1>3. CASE \E x \in On(Personas) : HandleDeletePersona(x)
  BY <1>1, <1>3, DeleteFiled, DeletedIsRoomy DEF HandleDeletePersona
<1>4. CASE \E x \in On(Personas), t \in Texts : EditPersona(x, t)
  BY <1>1, <1>2, <1>4, UpdateFiled, ValuesKnown DEF EditPersona
<1>5. CASE \E x \in fresh \cap WorkflowPersonas, w \in Workflows, a \in Personas :
             HandleCreateWorkflowPersona(x, w, a)
  <2>1. PICK x \in fresh \cap WorkflowPersonas, w \in Workflows, a \in Personas :
          HandleCreateWorkflowPersona(x, w, a)
    BY <1>5
  <2>2. x \in Ids /\ <<w, a>> \in Seq(Ids) /\ Blank \in Values
    BY <1>1, PlacesAreIds, ValuesKnown
  <2>3. Wellformed(Create(x, <<w, a>>, Blank))
    BY <2>2, CallsAreWellformed
  <2> QED BY <2>1, <2>2, <2>3, CreateFiled DEF HandleCreateWorkflowPersona
<1>6. CASE \E x \in On(WorkflowPersonas) : HandleDeleteWorkflowPersona(x)
  BY <1>1, <1>6, DeleteFiled, DeletedIsRoomy DEF HandleDeleteWorkflowPersona
<1> QED BY <1>3, <1>4, <1>5, <1>6 DEF PersonaChanged

LEMMA FormIsFiled ==
  ASSUME Inv, FormFilled
  PROVE  Filed
BY CardMadeFiled, CardMovedFiled, CardEditedFiled, DiscussedFiled, PersonaMadeFiled,
   PersonaChangedFiled DEF FormFilled

-----------------------------------------------------------------------------
(* The answers: each leaves a roomy store without a new row                *)

Taken(k) ==
  \E s, alert : Roomy(s) /\ DOMAIN s \subseteq DOMAIN store /\ Handled(k, s, alert)

LEMMA AnswerIsTaken ==
  ASSUME Inv, NEW k \in DOMAIN calls, AnswerArrives(k)
  PROVE  Taken(k) \/ LoadAnswered(k)
<1> DEFINE c == calls[k].req
           x == c.id
           a == Act("update", x, calls[k].answer[x])
           b == Act("delete", x, Blank)
<1>1. Roomy(store) /\ CallFits(calls[k])
  BY DEF Inv
<1>2. ASSUME calls[k].state = "ok", Brings(c)
      PROVE  /\ Roomy(Dispatched(store, a)) /\ DOMAIN Dispatched(store, a) \subseteq DOMAIN store
             /\ Roomy(FeaturesReducer(store, a))
             /\ DOMAIN FeaturesReducer(store, a) \subseteq DOMAIN store
  <2>1. RowFor(x, calls[k].answer[x])
    BY <1>1, <1>2 DEF CallFits, Roomy, RowFor
  <2>2. Fine(a) /\ ~Adds(a)
    BY <2>1 DEF Fine, Act, Adds
  <2> QED BY <1>1, <2>2, DispatchedKeeps, RankedReducersKeep DEF Follows
<1>3. Roomy(Dispatched(store, b)) /\ DOMAIN Dispatched(store, b) \subseteq DOMAIN store
  <2>1. Fine(b) /\ ~Adds(b)
    BY DEF Fine, Act, Adds
  <2> QED BY <1>1, <2>1, DispatchedKeeps
<1>4. x \in Ranked \cup Comments => x \notin Personas
  BY TablesApart DEF Ranked
<1>5. CASE CardAnswered(k)
  BY <1>1, <1>2, <1>3, <1>4, <1>5 DEF CardAnswered, Answered, Brings, Taken
<1>6. CASE CommentAnswered(k)
  BY <1>1, <1>2, <1>4, <1>6 DEF CommentAnswered, Answered, Brings, Taken
<1>7. CASE PersonaAnswered(k) \/ WorkflowPersonaAnswered(k) \/ PersonaEditAnswered(k)
  BY <1>1, <1>7 DEF PersonaAnswered, WorkflowPersonaAnswered, PersonaEditAnswered, Taken
<1>8. CASE EditAnswered(k)
  <2>1. Brings(c)
    BY <1>8 DEF EditAnswered, Answered, Brings
  <2>2. calls[k].state # "refused" => calls[k].state = "ok"
    BY <1>8, InvHasParts DEF Parts, CallsFit, EditAnswered, Answered
  <2> QED BY <1>1, <1>2, <1>8, <2>1, <2>2 DEF EditAnswered, Taken
<1>9. CASE MoveAnswered(k)
  BY <1>1, <1>9 DEF MoveAnswered, Taken
<1>10. CASE DeleteAnswered(k)
  BY <1>1, <1>3, <1>10 DEF DeleteAnswered, Taken
<1> QED BY <1>5, <1>6, <1>7, <1>8, <1>9, <1>10 DEF AnswerArrives

-----------------------------------------------------------------------------
(* Every step keeps the invariant                                          *)

LEMMA InitInv ==
  Init => Inv
<1> SUFFICES ASSUME Init PROVE Inv
  OBVIOUS
<1>1. Roomy(Start)
  BY NetAssumption DEF Roomy
<1>2. CallsFit(calls)
  BY DEF Init, CallsFit
<1> QED BY <1>1, <1>2, NetAssumption, InvHasParts DEF Parts, Init, LeftBounds

LEMMA FiledKeeps ==
  ASSUME Inv, Filed
  PROVE  Inv' /\ left'.edits < left.edits
<1>1. PICK s, c : Roomy(s) /\ Wellformed(c) /\ Submit(s, c)
  BY DEF Filed
<1>2. /\ Roomy(store)' /\ Roomy(rows)' /\ mode' \in Modes /\ mount' \in Nat
      /\ page' \in {"board", "loading", "projects"}
      /\ fresh' \subseteq Ids /\ gone' \subseteq Ids
  BY <1>1, InvHasParts DEF Parts, Submit
<1>3. CallsFit(calls)'
  <2>1. CallsFit(calls')
    BY <1>1, InvHasParts, CallAdded DEF Parts, Submit
  <2> QED BY <2>1 DEF CallsFit
<1>4. why' \subseteq Reasons
  BY <1>1, InvHasParts DEF Parts, Submit, Troubles, Reasons
<1>5. left' \in LeftBounds /\ left'.edits < left.edits
  BY <1>1, InvHasParts, NetAssumption DEF Parts, Submit, CanEdit, LeftBounds
<1> QED BY <1>2, <1>3, <1>4, <1>5, NextInvHasParts DEF Parts

LEMMA LoadsKeep ==
  ASSUME Inv
  PROVE  /\ \A p \in Projects : OpenProject(p) => Inv'
         /\ \A k \in DOMAIN calls : LoadAnswered(k) => Inv'
<1>1. ASSUME NEW p \in Projects, OpenProject(p) PROVE Inv'
  <2>1. Wellformed(Get(p))
    <3>1. <<>> \in Seq(Ids) /\ p \in Ids
      BY TablesAreIds DEF Tables
    <3> QED BY <3>1, CallsAreWellformed, ValuesKnown
  <2>2. CallsFit(calls') /\ mount' \in Nat
    BY <1>1, <2>1, CallAdded DEF OpenProject
  <2>3. CallsFit(calls)'
    BY <2>2 DEF CallsFit
  <2>4. why' \subseteq Reasons /\ left' \in LeftBounds
    BY <1>1, InvHasParts, NetAssumption DEF Parts, OpenProject, Reasons, LeftBounds
  <2>5. /\ Roomy(store)' /\ Roomy(rows)' /\ mode' \in Modes
        /\ page' \in {"board", "loading", "projects"}
        /\ fresh' \subseteq Ids /\ gone' \subseteq Ids
    BY <1>1, InvHasParts DEF Parts, OpenProject
  <2> QED BY <2>2, <2>3, <2>4, <2>5, NextInvHasParts DEF Parts
<1>2. ASSUME NEW k \in DOMAIN calls, LoadAnswered(k) PROVE Inv'
  <2> DEFINE a == Act("load", Tables \ {Projects}, calls[k].answer)
  <2>1. Roomy(Dispatched(store, a)) /\ Roomy(store)
    <3>1. Fine(a)
      BY DEF Fine, Act, Inv, CallFits
    <3> QED BY <3>1, DispatchedKeeps DEF Inv
  <2>2. store' \in {Dispatched(store, a), store}
    BY <1>2 DEF LoadAnswered
  <2>3. CallsFit(calls')
    BY <1>2, CallRemoved DEF LoadAnswered
  <2>4. CallsFit(calls)' /\ Roomy(store)'
    BY <2>1, <2>2, <2>3 DEF CallsFit
  <2>5. /\ Roomy(rows)' /\ mode' \in Modes /\ mount' \in Nat
        /\ page' \in {"board", "loading", "projects"}
        /\ fresh' \subseteq Ids /\ gone' \subseteq Ids
        /\ why' \subseteq Reasons /\ left' \in LeftBounds
    BY <1>2, InvHasParts DEF Parts, LoadAnswered
  <2> QED BY <2>4, <2>5, NextInvHasParts DEF Parts
<1> QED BY <1>1, <1>2

LEMMA TakenKeeps ==
  ASSUME Inv, NEW k \in DOMAIN calls, Taken(k)
  PROVE  Inv' /\ DOMAIN store' \subseteq DOMAIN store
<1>1. PICK s, alert : /\ Roomy(s) /\ DOMAIN s \subseteq DOMAIN store
                      /\ Handled(k, s, alert)
  BY DEF Taken
<1>2. CallsFit(calls')
  BY <1>1, CallRemoved DEF Handled
<1>3. CallsFit(calls)'
  BY <1>2 DEF CallsFit
<1>4. why' \subseteq Reasons
  BY <1>1, InvHasParts DEF Parts, Handled, Amiss, Reasons
<1>5. /\ Roomy(store)' /\ Roomy(rows)' /\ mode' \in Modes /\ mount' \in Nat
      /\ page' \in {"board", "loading", "projects"}
      /\ fresh' \subseteq Ids /\ gone' \subseteq Ids /\ left' \in LeftBounds
      /\ DOMAIN store' \subseteq DOMAIN store
  BY <1>1, InvHasParts DEF Parts, Handled
<1> QED BY <1>3, <1>4, <1>5, NextInvHasParts DEF Parts

\* A call k in a new state, with the last turn.
LEMMA TurnTaken ==
  ASSUME Inv, NEW k \in DOMAIN calls, NEW c, c.turn = Latest,
         CallFits(c), c.state \in {"ok", "refused"},
         calls' = [n \in DOMAIN calls |-> IF n = k THEN c ELSE calls[n]]
  PROVE  CallsFit(calls)'
<1>1. Latest \in Nat /\ \A n \in DOMAIN calls : calls[n].turn < Latest
  BY LatestIsLast
<1>2. CallsFit(calls)
  BY InvHasParts DEF Parts
<1>3. \A n \in DOMAIN calls' : calls'[n] = c \/ (n \in DOMAIN calls /\ calls'[n] = calls[n])
  OBVIOUS
<1>4. \A n \in DOMAIN calls' : calls'[n].turn <= Latest
  <2> HIDE DEF Latest
  <2> QED BY <1>1, <1>2, <1>3 DEF CallsFit
<1>5. DOMAIN calls' = DOMAIN calls
  OBVIOUS
<1>6. \A n \in DOMAIN calls' :
        /\ CallFits(calls'[n])
        /\ calls'[n].state \in {"sent", "ok", "refused"} /\ calls'[n].turn \in Nat
  BY <1>1, <1>2, <1>3 DEF CallsFit
<1> HIDE DEF Latest
<1> QED BY <1>1, <1>2, <1>4, <1>5, <1>6 DEF CallsFit

LEMMA ServeKeeps ==
  ASSUME Inv, NEW k \in DOMAIN calls, Serve(k)
  PROVE  Inv'
<1> DEFINE v == Served(rows, calls[k].req)
           o == calls[k]
           state == IF v.ok THEN "ok" ELSE "refused"
           c == [o EXCEPT !.state = state, !.turn = Latest, !.answer = v.answer]
<1>1. Sound(o.req, v)
  BY ServedIsSound DEF Inv, CallFits
<1>2. CallFits(o) /\ Latest \in Nat
  BY LatestIsLast DEF Inv
<1>3. CallFits(c) /\ c.state \in {"ok", "refused"} /\ c.turn = Latest
  <2>1. state \in {"ok", "refused"} /\ (state = "ok" => v.ok)
    OBVIOUS
  <2>2. o \in [req : {o.req}, state : {"sent", "ok", "refused"}, turn : Nat,
               answer : {o.answer}]
    BY <1>2 DEF CallFits
  <2> HIDE DEF state, o, v
  <2>3. /\ c.req = o.req /\ c.state = state /\ c.turn = Latest /\ c.answer = v.answer
        /\ c \in [req : {o.req}, state : {"sent", "ok", "refused"}, turn : Nat,
                  answer : {v.answer}]
    BY <1>2, <2>1, <2>2
  <2> HIDE DEF c
  <2> QED BY <1>1, <1>2, <2>1, <2>3 DEF CallFits, Sound
<1>5. calls' = [n \in DOMAIN calls |-> IF n = k THEN c ELSE calls[n]]
  BY DEF Serve
<1>6. CallsFit(calls)'
  <2> HIDE DEF c
  <2> QED BY <1>3, <1>5, TurnTaken
<1>7. Roomy(rows)'
  BY <1>1 DEF Serve, Sound
<1>8. Parts' <=> Roomy(rows)' /\ CallsFit(calls)'
  BY InvHasParts DEF Parts, Serve
<1> QED BY <1>6, <1>7, <1>8, NextInvHasParts

LEMMA RefuseKeeps ==
  ASSUME Inv, NEW k \in DOMAIN calls, Refuse(k)
  PROVE  Inv'
<1> DEFINE o == calls[k]
           c == [o EXCEPT !.state = "refused", !.turn = Latest]
<1>1. CallFits(o) /\ Latest \in Nat
  BY LatestIsLast DEF Inv
<1>2. CallFits(c) /\ c.state \in {"ok", "refused"} /\ c.turn = Latest
  <2>1. o \in [req : {o.req}, state : {"sent", "ok", "refused"}, turn : Nat,
               answer : {o.answer}]
    BY <1>1 DEF CallFits
  <2> HIDE DEF o
  <2>2. /\ c.req = o.req /\ c.state = "refused" /\ c.turn = Latest /\ c.answer = o.answer
        /\ c \in [req : {o.req}, state : {"sent", "ok", "refused"}, turn : Nat,
                  answer : {o.answer}]
    BY <1>1, <2>1
  <2> HIDE DEF c
  <2> QED BY <1>1, <2>2 DEF CallFits
<1>3. calls' = [n \in DOMAIN calls |-> IF n = k THEN c ELSE calls[n]]
  BY DEF Refuse
<1>4. CallsFit(calls)'
  <2> HIDE DEF c
  <2> QED BY <1>2, <1>3, TurnTaken
<1>5. left' \in LeftBounds
  BY InvHasParts, NetAssumption DEF Parts, Refuse, LeftBounds
<1>6. Parts' <=> CallsFit(calls)' /\ left' \in LeftBounds
  BY InvHasParts DEF Parts, Refuse
<1> QED BY <1>4, <1>5, <1>6, NextInvHasParts

LEMMA LoseKeeps ==
  ASSUME Inv, NEW k \in DOMAIN calls, Lose(k)
  PROVE  Inv'
<1>1. CallsFit(calls')
  BY CallRemoved DEF Lose
<1>2. CallsFit(calls)'
  BY <1>1 DEF CallsFit
<1>3. why' \subseteq Reasons /\ left' \in LeftBounds
  BY InvHasParts, NetAssumption DEF Parts, Lose, Amiss, Reasons, LeftBounds
<1>4. Parts' <=> CallsFit(calls)' /\ why' \subseteq Reasons /\ left' \in LeftBounds
  BY InvHasParts DEF Parts, Lose
<1> QED BY <1>2, <1>3, <1>4, NextInvHasParts

LEMMA DeletedElsewhereKeeps ==
  ASSUME Inv, NEW x \in Ids, DeletedElsewhere(x)
  PROVE  Inv'
<1>1. Roomy(rows')
  BY WithoutKeeps, ViewKeeps DEF Inv, DeletedElsewhere, Deleted
<1>2. Roomy(rows)'
  BY <1>1 DEF Roomy
<1>3. /\ why' \subseteq Reasons /\ left' \in LeftBounds
      /\ gone' \subseteq Ids
  BY InvHasParts, NetAssumption DEF Parts, DeletedElsewhere, Reasons, LeftBounds
<1>4. Parts' <=> /\ Roomy(rows)' /\ why' \subseteq Reasons /\ left' \in LeftBounds
                 /\ gone' \subseteq Ids
  <2>1. CallsFit(calls)' <=> CallsFit(calls)
    BY DEF DeletedElsewhere, CallsFit
  <2> QED BY <2>1, InvHasParts DEF Parts, DeletedElsewhere
<1> QED BY <1>2, <1>3, <1>4, NextInvHasParts

\* A step is a form, a load, an answer, or leaves the store alone.
LEMMA NextInv ==
  ASSUME Inv, [Next]_vars
  PROVE  Inv'
<1>1. CASE FormFilled
  BY <1>1, FormIsFiled, FiledKeeps
<1>2. CASE \E p \in Projects : OpenProject(p)
  BY <1>2, LoadsKeep
<1>3. CASE \E k \in DOMAIN calls : Serve(k)
  BY <1>3, ServeKeeps
<1>4. CASE \E k \in DOMAIN calls : Refuse(k)
  BY <1>4, RefuseKeeps
<1>5. CASE \E k \in DOMAIN calls : Lose(k)
  BY <1>5, LoseKeeps
<1>6. CASE \E k \in DOMAIN calls : AnswerArrives(k)
  BY <1>6, AnswerIsTaken, TakenKeeps, LoadsKeep
<1>7. CASE \E x \in Ids : DeletedElsewhere(x)
  BY <1>7, DeletedElsewhereKeeps
<1>8. CASE UNCHANGED vars
  <2>1. CallsFit(calls)' <=> CallsFit(calls)
    BY <1>8 DEF vars, CallsFit
  <2> QED BY <1>8, <2>1, InvHasParts, NextInvHasParts DEF Parts, vars
<1> QED BY <1>1, <1>2, <1>3, <1>4, <1>5, <1>6, <1>7, <1>8 DEF Next

-----------------------------------------------------------------------------
(* Theorems                                                                *)

\* The inductive invariant, of which the others are parts.
THEOREM Invariant ==
  Spec => []Inv
BY InitInv, NextInv, PTL DEF Spec

\* Every reachable store, table, call and answer has its type (TypeOK).
THEOREM TypeCorrect ==
  Spec => []TypeOK
<1>1. Inv => TypeOK
  BY DEF Inv
<1> QED BY <1>1, Invariant, PTL

\* Wherever a card is dropped on the page there is a rank for it (RoomOnThePage):
\* the ranks that core/lexorank.ts computes for cards whose answers are still to
\* come, of lists that are out of step with the server's, never run out.
THEOREM PageKeepsRoom ==
  Spec => []RoomOnThePage
<1>1. Inv => RoomOnThePage
  BY DEF Inv, Roomy, RoomOnThePage
<1> QED BY <1>1, Invariant, PTL

\* Rows enter the store by forms and loads only (OnlyLoadsRevive): a late answer
\* about a card that was deleted meanwhile finds nothing to update.
THEOREM AnswersReviveNothing ==
  Spec => OnlyLoadsRevive
<1> DEFINE A == \/ DOMAIN store' \subseteq DOMAIN store
                \/ left'.edits < left.edits
                \/ \E k \in DOMAIN calls \ DOMAIN calls' : calls[k].req.op = "get"
<1>1. ASSUME Inv, [Next]_vars PROVE A \/ UNCHANGED vars
  <2>1. CASE FormFilled
    BY <1>1, <2>1, FormIsFiled, FiledKeeps
  <2>2. CASE \E k \in DOMAIN calls : AnswerArrives(k)
    <3>1. PICK k \in DOMAIN calls : AnswerArrives(k)
      BY <2>2
    <3>2. CASE Taken(k)
      BY <1>1, <3>2, TakenKeeps
    <3>3. CASE LoadAnswered(k)
      BY <3>3 DEF LoadAnswered, Answered, WithoutCall
    <3> QED BY <1>1, <3>1, <3>2, <3>3, AnswerIsTaken
  <2>3. CASE \/ \E p \in Projects : OpenProject(p)
             \/ \E k \in DOMAIN calls : Serve(k) \/ Refuse(k) \/ Lose(k)
             \/ \E x \in Ids : DeletedElsewhere(x)
    BY <2>3 DEF OpenProject, Serve, Refuse, Lose, DeletedElsewhere
  <2> QED BY <1>1, <2>1, <2>2, <2>3 DEF Next
<1>2. Inv /\ [Next]_vars => [A]_vars
  BY <1>1
<1>3. Spec => [][A]_vars
  BY <1>2, Invariant, PTL DEF Spec
<1> QED BY <1>3, PTL DEF OnlyLoadsRevive

-----------------------------------------------------------------------------
(* Where rows lie, and where calls put them                                *)

\* Every row lies where the foreign keys let it.
Laid(s) == \A x \in DOMAIN s : x \in Ids /\ Parents(s, x) \subseteq Above(x)

\* Neither a row nor a parent is one of X.
Avoids(s, X) == \A x \in DOMAIN s : x \notin X /\ Parents(s, x) \cap X = {}

\* Where the creation c puts the row x, be it its own or the tag of a persona.
PlaceFor(c, x) == IF x = c.id THEN c.place ELSE <<c.to[2], c.id>>

\* What the forms make sure of.
Placed(c) ==
  /\ c.op \in {"create", "move"} => RowsOf(c.place) \subseteq Above(c.id)
  /\ c.op = "create" => c.id \notin Projects
  /\ c.op = "move" => c.id \in Ranked
  /\ c.op \in Edits => /\ c.id \notin WorkflowPersonas
                       /\ c.id \in Personas => c.op = "rename"
  /\ c.to # <<>> => /\ c.op = "create" /\ c.id \in Personas
                    /\ c.to[1] \in WorkflowPersonas /\ c.to[2] \in Workflows

\* A creation that was not carried out: sent, or a refused card.
Unborn(o) == /\ o.req.op = "create"
             /\ o.state = "sent" \/ (o.state = "refused" /\ o.req.id \in Ranked)

\* What a call under way names, and what it brings back, is known but to it alone.
CallGrounded(o, g, r, fr) ==
  /\ Placed(o.req)
  /\ Laid(o.answer) /\ Avoids(o.answer, fr)
  /\ IdsOf(o.req) \cap fr = {}
  /\ o.req.op \in {"create", "move"} =>
       \A x \in IdsOf(o.req) : RowsOf(PlaceFor(o.req, x)) \cap fr = {}
  /\ Unborn(o) => IdsOf(o.req) \cap (g \cup DOMAIN r) = {}

\* Two calls about one row.
Share(c, d) == IdsOf(c) \cap IdsOf(d) # {}

\* An id is made by one call only, and known to no one before.
Grounded(s, g, r, cs, fr) ==
  /\ Laid(s) /\ Avoids(s, fr)
  /\ Whole(r) /\ Avoids(r, fr)
  /\ g \cap (fr \cup DOMAIN r) = {}
  /\ \A k \in DOMAIN cs : CallGrounded(cs[k], g, r, fr)
  /\ \A k, n \in DOMAIN cs :
       k # n /\ cs[k].req.op = "create" /\ cs[n].req.op = "create" =>
         ~Share(cs[k].req, cs[n].req)

Ground == Grounded(store, gone, rows, calls, fresh)

-----------------------------------------------------------------------------
(* What the marks in why exclude                                           *)

\* No row is deleted while it is being made.
NoneHasty(cs) ==
  \A k, n \in DOMAIN cs : cs[k].req.op = "create" /\ cs[n].req.op = "delete" =>
    ~Share(cs[k].req, cs[n].req)

\* A call whose answer is not used runs beside none for its row, but a deletion.
BlindAlone(cs) ==
  \A k, n \in DOMAIN cs : k # n /\ Blind(cs[k].req) /\ Share(cs[k].req, cs[n].req) =>
    cs[n].req.op = "delete"

\* A card is moved when nothing else is under way.
MoveAlone(cs) == \A k \in DOMAIN cs : cs[k].req.op = "move" => DOMAIN cs = {k}

\* The project is loaded when nothing else is under way, and by the page that waits.
GetAlone(cs, pg, m) ==
  \A k \in DOMAIN cs : cs[k].req.op = "get" => DOMAIN cs = {k} /\ pg = "loading" /\ k = m

\* Nothing but loads.
OnlyGets(cs) == \A k \in DOMAIN cs : cs[k].req.op = "get"

\* A mark that is not in y has not been earned by the calls.
Marked(cs, y, pg, m) ==
  /\ y \cap {"hasty", "reload"} = {} => NoneHasty(cs)
  /\ y \cap {"blind", "reload"} = {} => BlindAlone(cs)
  /\ y \cap {"moved", "reload"} = {} => MoveAlone(cs)
  /\ "reload" \notin y => GetAlone(cs, pg, m)
  /\ "reload" \notin y /\ pg = "loading" => OnlyGets(cs)

\* So it is of the calls under way.
Marks == Marked(calls, why, page, mount)

\* Calls are numbered, and served calls in the order of serving.
TurnsDiffer(cs) ==
  \A k, n \in DOMAIN cs :
    k # n /\ cs[k].state # "sent" /\ cs[n].state # "sent" => cs[k].turn # cs[n].turn

\* So they are numbered; the next number is free.
Ordered == TurnsDiffer(calls) /\ \A k \in DOMAIN calls : k < Number

-----------------------------------------------------------------------------
(* Which rows are there                                                    *)

\* Calls whose answer is put into the store.
Put(c) == \/ c.op = "create" /\ c.id \in Ranked \cup Comments
          \/ c.op \in Edits /\ ~Blind(c)

\* A call with x is on its way to the server.
Sends(cs, op, x) ==
  \E k \in DOMAIN cs : cs[k].state = "sent" /\ cs[k].req.op = op /\ x \in IdsOf(cs[k].req)

\* A card of the store whose creation was refused.
Unmade(cs, x) ==
  \E k \in DOMAIN cs : /\ cs[k].state = "refused" /\ cs[k].req.op = "create"
                       /\ cs[k].req.id = x /\ x \in Ranked

\* A call whose answer will alert: there is a mark to come.
Ominous(cs, r) ==
  \E k \in DOMAIN cs :
    \/ /\ cs[k].state = "refused"
       /\ ~(cs[k].req.op = "create" /\ cs[k].req.id \in Ranked)
    \/ cs[k].state = "sent" /\ cs[k].req.op = "move" /\ cs[k].req.id \notin DOMAIN r

\* The page does not show q: it or a parent is not there.
Off(s, q) == q \notin DOMAIN s \/ \E w \in Parents(s, q) : w \notin DOMAIN s

\* What lies in that place is not shown.
Missing(s, place) == \E q \in RowsOf(place) : Off(s, q)

\* Rows of both lie in the same place, but for those that are on their way.
SamePlaces(s, r, cs) ==
  \A x \in DOMAIN s \cap DOMAIN r : s[x].place = r[x].place \/ Sends(cs, "move", x)

\* A card whose move is sent is where the move puts it, or not shown.
MovesShow(s, cs) ==
  \A k \in DOMAIN cs : cs[k].req.op = "move" /\ cs[k].state = "sent" =>
    IF cs[k].req.id \in DOMAIN s THEN s[cs[k].req.id].place = cs[k].req.place
    ELSE Sends(cs, "delete", cs[k].req.id) \/ Missing(s, cs[k].req.place)

\* An answer that is to be put into the store leaves the card in its place.
PutsFit(s, cs) ==
  \A k \in DOMAIN cs :
    Put(cs[k].req) /\ cs[k].state = "ok" /\ cs[k].req.id \in DOMAIN s =>
      cs[k].answer[cs[k].req.id].place = s[cs[k].req.id].place

\* A card whose creation is sent is where the creation puts it, or not shown.
CreatesShow(s, cs) ==
  \A k \in DOMAIN cs : cs[k].req.op = "create" /\ cs[k].state = "sent" =>
    \A x \in IdsOf(cs[k].req) :
      IF x \in DOMAIN s THEN s[x].place = PlaceFor(cs[k].req, x)
      ELSE Missing(s, PlaceFor(cs[k].req, x))

\* What is being deleted is gone from the store.
DeletesShow(s, cs) ==
  \A k \in DOMAIN cs : cs[k].req.op = "delete" => cs[k].req.id \notin DOMAIN s

\* q is not there, and nobody will make it.
Dead(r, cs, fr, q) == q \notin DOMAIN r /\ q \notin fr /\ ~Sends(cs, "create", q)

\* A row of the store that the server does not have is on its way, or has no parent.
SurplusDies(s, g, r, cs, fr) ==
  \A x \in DOMAIN s \ (g \cup DOMAIN r) :
    \/ Sends(cs, "create", x) \/ Unmade(cs, x)
    \/ \E q \in Parents(s, x) : Dead(r, cs, fr, q)

\* A row that the store does not have is to be deleted, or not shown.
LackDies(s, r, cs) ==
  \A x \in DOMAIN r \ DOMAIN s :
    Sends(cs, "delete", x) \/ Sends(cs, "move", x) \/ Missing(s, r[x].place)

\* The rows of the two sides are the same, but for those on their way or not shown.
Tracks(s, g, r, cs, fr) ==
  /\ SamePlaces(s, r, cs) /\ MovesShow(s, cs) /\ PutsFit(s, cs)
  /\ CreatesShow(s, cs) /\ DeletesShow(s, cs)
  /\ SurplusDies(s, g, r, cs, fr) /\ LackDies(s, r, cs)

\* There is only the open project.
OneProject == \A p, q \in Projects : p = q

\* Marks under which the page still shows the right cards.
Fair(y) == /\ y \subseteq {"moved", "reversed", "elsewhere", "project"}
           /\ "project" \in y => OneProject

\* So it is on every page that has loaded, until an answer alerts.
Tracked ==
  mode = "editor" /\ page # "loading" /\ Fair(why) /\ ~Ominous(calls, rows)
    => Tracks(store, gone, rows, calls, fresh)

\* What is loaded is what the server has, less what others delete meanwhile.
LoadFits(a, g, r, y) ==
  /\ Shown(Without(a, g)) = DOMAIN r
  /\ \A x \in DOMAIN r : x \in DOMAIN a /\ a[x] = r[x]
  /\ "elsewhere" \notin y => DOMAIN a = DOMAIN r

\* While the page waits, the answer it will get is right.
Loading ==
  mode = "editor" /\ page = "loading" /\ Fair(why) =>
    \A k \in DOMAIN calls :
      calls[k].state = "ok" => LoadFits(calls[k].answer, gone, rows, why)

\* The projects themselves are made and deleted here only.
ProjectsIn ==
  /\ DOMAIN store \cap Projects \subseteq DOMAIN rows
  /\ \A k \in DOMAIN calls : calls[k].req.op = "delete" /\ calls[k].req.id \in Projects =>
       calls[k].req.id \notin DOMAIN store
  /\ page = "loading" => DOMAIN store \cap Projects # {}

-----------------------------------------------------------------------------
(* What is in them                                                         *)

\* The answers about x that are to be put into the store.
Puts(cs, x) ==
  {k \in DOMAIN cs : Put(cs[k].req) /\ cs[k].req.id = x /\ cs[k].state = "ok"}

\* An edit of x on its way, whose answer will not be used.
BlindEdit(o, x) == o.req.op \in Edits /\ Blind(o.req) /\ o.req.id = x /\ o.state = "sent"

\* A later answer brings the row of the server, or the two are the same already, but
\* for an edit that is under way and whose answer is not used.
Settled(s, r, cs, x) ==
  \/ \E k \in DOMAIN cs : Put(cs[k].req) /\ cs[k].req.id = x /\ cs[k].state = "sent"
  \/ \E k \in Puts(cs, x) : /\ cs[k].answer[x] = r[x]
                            /\ \A n \in Puts(cs, x) : cs[n].turn <= cs[k].turn
  \/ /\ Puts(cs, x) = {} /\ s[x] = r[x]
     /\ \A k \in DOMAIN cs : ~BlindEdit(cs[k], x)
  \/ /\ Puts(cs, x) = {}
     /\ \E k \in DOMAIN cs : /\ BlindEdit(cs[k], x)
                             /\ s[x] = Edited(r[x], cs[k].req.op, cs[k].req.text)

\* No card is on its way to another place.
NoMove(cs) == \A k \in DOMAIN cs : ~(cs[k].req.op = "move" /\ cs[k].state = "sent")

\* What both sides have is settled.
CommonSettled(s, r, cs) ==
  NoMove(cs) => \A x \in DOMAIN s \cap DOMAIN r : Settled(s, r, cs, x)

\* Nothing is put into the row of a new persona.
NewPeople(s, cs) ==
  \A k \in DOMAIN cs : cs[k].req.op = "create" /\ cs[k].state = "sent" =>
    \A x \in IdsOf(cs[k].req) \cap DOMAIN s \cap (Personas \cup WorkflowPersonas) :
      s[x] = Fresh(PlaceFor(cs[k].req, x),
                   IF x = cs[k].req.id THEN cs[k].req.text ELSE Blank)

\* A card that is dropped gets the rank that the server will give it.
MoveFits(s, r, c) ==
  LET t == MovedTo(r, c.id, c.place, c.index)
  IN  \A x \in DOMAIN r : x \in DOMAIN s /\ s[x] = t[x]

\* The moves under way.
MovesFit(s, r, cs) ==
  \A k \in DOMAIN cs :
    cs[k].req.op = "move" /\ cs[k].state = "sent" /\ Served(r, cs[k].req).ok =>
      MoveFits(s, r, cs[k].req)

\* Nothing is left of rows others deleted, and the rest will be the same.
Matches(s, g, r, cs) ==
  /\ g \cap DOMAIN s = {}
  /\ CommonSettled(s, r, cs) /\ NewPeople(s, cs) /\ MovesFit(s, r, cs)

\* So it is without any mark, until an answer alerts.
Matched ==
  mode = "editor" /\ page # "loading" /\ why = {} /\ ~Ominous(calls, rows)
    => Matches(store, gone, rows, calls)

\* A refused call about a project itself.
Spoilt(cs) ==
  \E k \in DOMAIN cs : /\ cs[k].state = "refused" /\ cs[k].req.id \in Projects
                       /\ cs[k].req.op # "get"

\* The rows of the projects, which no load brings.
ProjectsMatch(s, r, cs) ==
  /\ \A p \in DOMAIN r \cap Projects : p \in DOMAIN s \/ Sends(cs, "delete", p)
  /\ \A p \in DOMAIN s \cap Projects : Settled(s, r, cs, p)

\* They match until a call about one of them goes amiss.
ProjectsMatched ==
  mode = "editor" /\ "project" \notin why /\ ~Spoilt(calls)
    => ProjectsMatch(store, rows, calls)

-----------------------------------------------------------------------------
(* What forms and answers do to the store s: they leave it as t            *)

\* Rows no one knew are put in where something is shown.
Making(s, fr, t, c) ==
  /\ c.op = "create" /\ IdsOf(c) \subseteq fr
  /\ DOMAIN t = DOMAIN s \cup IdsOf(c)
  /\ \A y \in DOMAIN s \ IdsOf(c) : t[y] = s[y]
  /\ \A x \in IdsOf(c) : /\ t[x].place = PlaceFor(c, x)
                         /\ RowsOf(PlaceFor(c, x)) \subseteq Shown(s) \cup {c.id}
  /\ \A x \in IdsOf(c) \cap (Personas \cup WorkflowPersonas) :
       t[x] = Fresh(PlaceFor(c, x), IF x = c.id THEN c.text ELSE Blank)

\* A card that is shown is dropped where something is shown.
Moving(s, t, c) ==
  /\ c.op = "move" /\ c.id \in Shown(s)
  /\ RowsOf(c.place) \subseteq Shown(s)
  /\ t = MovedTo(s, c.id, c.place, c.index)

\* A card that is shown is edited.
Editing(s, t, c) ==
  /\ c.op \in Edits /\ c.id \in Shown(s)
  /\ t = Updated(s, c.id, Edited(s[c.id], c.op, c.text))

\* With a row only features go that are no longer shown.
Deleting(s, t, c) ==
  /\ c.op = "delete" /\ c.id \in Shown(s)
  /\ DOMAIN t \subseteq DOMAIN s \ {c.id} /\ \A y \in DOMAIN t : t[y] = s[y]
  /\ \A y \in DOMAIN s \ DOMAIN t : y = c.id \/ (y \in Features /\ Missing(t, s[y].place))

\* What a form does.
FormShaped(s, fr, t, c) ==
  /\ Placed(c)
  /\ Making(s, fr, t, c) \/ Moving(s, t, c) \/ Editing(s, t, c) \/ Deleting(s, t, c)

\* The answer of the call o is put in; a refused card goes; a comment stays away;
\* or nothing happens.
AnswerShaped(o, s, t, alert) ==
  /\ o.req.op # "get"
  /\ \/ /\ o.state = "ok" /\ Put(o.req) /\ ~alert
        /\ t = Updated(s, o.req.id, o.answer[o.req.id])
     \/ /\ o.state = "refused" /\ o.req.op = "create" /\ o.req.id \in Ranked /\ ~alert
        /\ t = Without(s, {o.req.id})
     \/ /\ o.state = "ok" /\ o.req.op = "delete" /\ o.req.id \in Comments /\ ~alert
        /\ t = Without(s, {o.req.id})
     \/ /\ o.state = "ok" /\ ~Put(o.req) /\ ~alert /\ t = s
     \/ /\ o.state = "refused" /\ ~(o.req.op = "create" /\ o.req.id \in Ranked)
        /\ alert /\ t = s

\* What the server makes of the call c: v.
ServedShaped(r, c, v) ==
  \/ /\ ~v.ok /\ v.answer = NoRows /\ c.op # "get"
     /\ \/ v.rows = r
        \/ /\ c.op = "create" /\ c.id \in Personas /\ RowsOf(c.place) \subseteq DOMAIN r
           /\ v.rows = Created(r, c.id, Fresh(c.place, c.text))
  \/ v.ok /\ c.op = "get" /\ v.rows = r /\ v.answer = r
  \/ /\ v.ok /\ c.op = "create" /\ \E x \in IdsOf(c) : v.answer = Only(v.rows, {x})
     /\ \A y : y \in DOMAIN v.rows <=> y \in DOMAIN r \/ y \in IdsOf(c)
     /\ \A y \in DOMAIN r : y \notin IdsOf(c) => v.rows[y] = r[y]
     /\ \A x \in IdsOf(c) : /\ v.rows[x].place = PlaceFor(c, x)
                            /\ RowsOf(PlaceFor(c, x)) \subseteq DOMAIN v.rows
     /\ \A x \in IdsOf(c) \cap (Personas \cup WorkflowPersonas) :
          v.rows[x] = Fresh(PlaceFor(c, x), IF x = c.id THEN c.text ELSE Blank)
  \/ /\ v.ok /\ c.op \in Edits /\ c.id \in DOMAIN r /\ v.answer = Only(v.rows, {c.id})
     /\ v.rows = Updated(r, c.id, Edited(r[c.id], c.op, c.text))
  \/ /\ v.ok /\ c.op = "move" /\ c.id \in DOMAIN r /\ RowsOf(c.place) \subseteq DOMAIN r
     /\ v.answer = Only(v.rows, {c.id})
     /\ v.rows = MovedTo(r, c.id, c.place, c.index)
  \/ v.ok /\ c.op = "delete" /\ v.answer = NoRows /\ v.rows = Deleted(r, c.id)

\* The call c is sent, under the number n.
CallComes(cs, ds, n, c) ==
  /\ n \notin DOMAIN cs /\ \A m : m \in DOMAIN ds <=> m \in DOMAIN cs \/ m = n
  /\ \A m \in DOMAIN cs : ds[m] = cs[m]
  /\ ds[n] = SentCall(c)

\* The call k is answered, or its answer lost.
CallGone(cs, ds, k) ==
  /\ k \in DOMAIN cs /\ \A m : m \in DOMAIN ds <=> m \in DOMAIN cs /\ m # k
  /\ \A m \in DOMAIN ds : ds[m] = cs[m]

\* The call k is served, or refused, after all that were served before.
CallServed(cs, ds, k, state, answer) ==
  /\ k \in DOMAIN cs /\ DOMAIN ds = DOMAIN cs
  /\ \A m \in DOMAIN cs : m # k => ds[m] = cs[m]
  /\ cs[k].state = "sent" /\ ds[k].req = cs[k].req
  /\ ds[k].state = state /\ ds[k].answer = answer
  /\ ds[k].turn \in Nat
  /\ \A m \in DOMAIN cs : cs[m].turn \in Nat /\ cs[m].turn < ds[k].turn

-----------------------------------------------------------------------------
(* What is shown                                                           *)

\* The rows below the projects.
Level1 == Milestones \cup Workflows \cup Personas

\* The rows below those.
Level2 == SubWorkflows \cup WorkflowPersonas

\* Parents are of a table higher up.
LEMMA AboveIsHigher ==
  /\ \A x \in Projects : Above(x) = {}
  /\ \A x \in Level1   : Above(x) \subseteq Projects
  /\ \A x \in Level2   : Above(x) \subseteq Level1
  /\ \A x \in Features : Above(x) \subseteq Level1 \cup Level2
  /\ \A x \in Comments : Above(x) \subseteq Features
  /\ Ids = Projects \cup Level1 \cup Level2 \cup Features \cup Comments
<1>1. \A x \in Projects : Above(x) = {}
  BY TablesApart DEF Above
<1>2. \A x \in Level1 : Above(x) \subseteq Projects
  BY TablesApart DEF Above, Level1
<1>3. \A x \in Level2 : Above(x) \subseteq Level1
  BY TablesApart DEF Above, Level1, Level2
<1>4. \A x \in Features : Above(x) \subseteq Level1 \cup Level2
  BY TablesApart DEF Above, Level1, Level2
<1>5. \A x \in Comments : Above(x) \subseteq Features
  BY TablesApart DEF Above
<1>6. Ids = Projects \cup Level1 \cup Level2 \cup Features \cup Comments
  BY DEF Ids, Tables, Level1, Level2
<1> QED BY <1>1, <1>2, <1>3, <1>4, <1>5, <1>6

\* Rows each with a parent among them: there are none.
LEMMA NoOrphans ==
  ASSUME NEW Y \in SUBSET Ids, \A x \in Y : Above(x) \cap Y # {}
  PROVE  Y = {}
<1>1. Y \cap Projects = {}
  BY AboveIsHigher
<1>2. Y \cap Level1 = {}
  BY <1>1, AboveIsHigher
<1>3. Y \cap Level2 = {}
  BY <1>2, AboveIsHigher
<1>4. Y \cap Features = {}
  BY <1>2, <1>3, AboveIsHigher
<1>5. Y \cap Comments = {}
  BY <1>4, AboveIsHigher
<1> QED BY <1>1, <1>2, <1>3, <1>4, <1>5, AboveIsHigher

\* What is shown is in the store.
LEMMA ShownIsThere ==
  ASSUME NEW s
  PROVE  Shown(s) \subseteq DOMAIN s
BY DEF Shown, Held

\* Four rounds are enough: a row that is shown has its parents beside it.
LEMMA ShownIsClosed ==
  ASSUME NEW s, Laid(s), NEW x \in Shown(s)
  PROVE  Parents(s, x) \subseteq Shown(s)
<1> DEFINE H1 == Held(s, DOMAIN s)
           H2 == Held(s, H1)
           H3 == Held(s, H2)
           H4 == Held(s, H3)
<1>1. /\ \A y : y \in H1 <=> y \in DOMAIN s /\ Parents(s, y) \subseteq DOMAIN s
      /\ \A y : y \in H2 <=> y \in H1 /\ Parents(s, y) \subseteq H1
      /\ \A y : y \in H3 <=> y \in H2 /\ Parents(s, y) \subseteq H2
      /\ \A y : y \in H4 <=> y \in H3 /\ Parents(s, y) \subseteq H3
  BY DEF Held
<1>2. Shown(s) = H4
  BY DEF Shown
<1> HIDE DEF H1, H2, H3, H4
<1>3. \A y \in DOMAIN s : y \in Ids /\ Parents(s, y) \subseteq Above(y)
  BY DEF Laid
<1>4. \A y \in DOMAIN s \cap Projects : y \in H4
  BY <1>1, <1>3, AboveIsHigher
<1>5. \A y \in H1 \cap Level1 : y \in H4
  <2>1. SUFFICES ASSUME NEW y \in H1 \cap Level1 PROVE y \in H4
    OBVIOUS
  <2>2. Parents(s, y) \subseteq H4
    BY <1>1, <1>3, <1>4, AboveIsHigher
  <2> QED BY <1>1, <2>2
<1>6. \A y \in H2 \cap Level2 : y \in H4
  <2>1. SUFFICES ASSUME NEW y \in H2 \cap Level2 PROVE y \in H4
    OBVIOUS
  <2>2. Parents(s, y) \subseteq H4
    BY <1>1, <1>3, <1>5, AboveIsHigher
  <2> QED BY <1>1, <2>2
<1>7. \A y \in H3 \cap Features : y \in H4
  <2>1. SUFFICES ASSUME NEW y \in H3 \cap Features PROVE y \in H4
    OBVIOUS
  <2>2. Parents(s, y) \subseteq H4
    BY <1>1, <1>3, <1>5, <1>6, AboveIsHigher
  <2> QED BY <1>1, <2>2
<1>8. x \in DOMAIN s /\ x \in H1 /\ x \in H2 /\ x \in H3 /\ x \in H4
  BY <1>1, <1>2
<1>9. CASE x \in Projects
  BY <1>3, <1>8, <1>9, AboveIsHigher
<1>10. CASE x \in Level1
  BY <1>1, <1>2, <1>3, <1>4, <1>8, <1>10, AboveIsHigher
<1>11. CASE x \in Level2
  BY <1>1, <1>2, <1>3, <1>5, <1>8, <1>11, AboveIsHigher
<1>12. CASE x \in Features
  BY <1>1, <1>2, <1>3, <1>5, <1>6, <1>8, <1>12, AboveIsHigher
<1>13. CASE x \in Comments
  BY <1>1, <1>2, <1>3, <1>7, <1>8, <1>13, AboveIsHigher
<1> QED BY <1>3, <1>8, <1>9, <1>10, <1>11, <1>12, <1>13, AboveIsHigher

\* Rows that have their parents among them are shown.
LEMMA ShownIsGreatest ==
  ASSUME NEW s, NEW X \in SUBSET DOMAIN s, \A x \in X : Parents(s, x) \subseteq X
  PROVE  X \subseteq Shown(s)
<1>1. \A Y : X \subseteq Y => X \subseteq Held(s, Y)
  BY DEF Held
<1> QED BY <1>1 DEF Shown

\* A row is shown if its parents are.
LEMMA ShownIn ==
  ASSUME NEW s, Laid(s), NEW x \in DOMAIN s, Parents(s, x) \subseteq Shown(s)
  PROVE  x \in Shown(s)
<1> DEFINE X == Shown(s) \cup {x}
<1>1. \A y \in X : Parents(s, y) \subseteq X
  BY ShownIsClosed
<1>2. X \subseteq DOMAIN s
  BY ShownIsThere
<1>3. X \subseteq Shown(s)
  <2> HIDE DEF X
  <2> QED BY <1>1, <1>2, ShownIsGreatest
<1> QED BY <1>3

\* The server shows all of its rows.
LEMMA WholeIsShown ==
  ASSUME NEW r, Whole(r)
  PROVE  Shown(r) = DOMAIN r
<1>1. \A x \in DOMAIN r : Parents(r, x) \subseteq DOMAIN r
  BY DEF Whole
<1>2. DOMAIN r \subseteq Shown(r)
  BY <1>1, ShownIsGreatest
<1> QED BY <1>2, ShownIsThere

\* The rows that stay are the same.
LEMMA WithoutLooks ==
  ASSUME NEW s, NEW X, NEW w, w = Without(s, X)
  PROVE  /\ \A x : x \in DOMAIN w <=> x \in DOMAIN s /\ x \notin X
         /\ \A x \in DOMAIN w : w[x] = s[x] /\ Parents(w, x) = Parents(s, x)
BY DEF Without, Parents

\* Rows that stay lie where they lay.
LEMMA WithoutIsLaid ==
  ASSUME NEW s, Laid(s), NEW X, NEW w, w = Without(s, X)
  PROVE  Laid(w)
BY WithoutLooks DEF Laid

\* A row that is shown stays so as long as it and its parents are there.
LEMMA SameShown ==
  ASSUME NEW s, NEW t, DOMAIN s = DOMAIN t, \A x \in DOMAIN s : Parents(s, x) = Parents(t, x)
  PROVE  Shown(s) = Shown(t)
<1>1. \A X \in SUBSET DOMAIN s : Held(s, X) = Held(t, X) /\ Held(s, X) \in SUBSET DOMAIN s
  BY DEF Held
<1>2. DOMAIN s \in SUBSET DOMAIN s
  OBVIOUS
<1>3. Held(s, DOMAIN s) = Held(t, DOMAIN s) /\ Held(s, DOMAIN s) \in SUBSET DOMAIN s
  BY <1>1, <1>2
<1> DEFINE H1 == Held(s, DOMAIN s)
<1>4. Held(s, H1) = Held(t, H1) /\ Held(s, H1) \in SUBSET DOMAIN s
  BY <1>1, <1>3
<1> DEFINE H2 == Held(s, H1)
<1>5. Held(s, H2) = Held(t, H2) /\ Held(s, H2) \in SUBSET DOMAIN s
  BY <1>1, <1>4
<1> DEFINE H3 == Held(s, H2)
<1>6. Held(s, H3) = Held(t, H3)
  BY <1>1, <1>5
<1> QED BY <1>3, <1>4, <1>5, <1>6 DEF Shown

\* ON DELETE CASCADE: what goes with x has lost a parent.
LEMMA DeletedLooks ==
  ASSUME NEW r, Whole(r), DOMAIN r \subseteq Ids, NEW x
  PROVE  /\ DOMAIN Deleted(r, x) \subseteq DOMAIN r \ {x}
         /\ \A y \in DOMAIN Deleted(r, x) : /\ Deleted(r, x)[y] = r[y]
                                            /\ Parents(Deleted(r, x), y) = Parents(r, y)
         /\ Whole(Deleted(r, x))
         /\ \A y \in DOMAIN r \ DOMAIN Deleted(r, x) :
              y = x \/ \E q \in Parents(r, y) : q \notin DOMAIN Deleted(r, x)
<1> DEFINE w == Without(r, {x})
           d == Deleted(r, x)
<1>0. w = Without(r, {x}) /\ Laid(r)
  BY DEF Laid, Whole
<1>9. d = View(w)
  BY DEF Deleted
<1> HIDE DEF w, d
<1>1. Laid(w)
  BY <1>0, WithoutIsLaid
<1>2. /\ \A y : y \in DOMAIN w <=> y \in DOMAIN r /\ y # x
      /\ \A y \in DOMAIN w : w[y] = r[y] /\ Parents(w, y) = Parents(r, y)
  BY <1>0, WithoutLooks
<1>3. Shown(w) \subseteq DOMAIN w
  BY ShownIsThere
<1>4. DOMAIN d = Shown(w) /\ \A y \in Shown(w) : d[y] = w[y] /\ Parents(d, y) = Parents(w, y)
  BY <1>9 DEF View, Parents
<1>5. DOMAIN d \subseteq DOMAIN r \ {x}
  BY <1>2, <1>3, <1>4
<1>6. \A y \in DOMAIN d : d[y] = r[y] /\ Parents(d, y) = Parents(r, y)
  BY <1>2, <1>3, <1>4
<1>7. Whole(d)
  <2>1. \A y \in DOMAIN d : Parents(d, y) \subseteq DOMAIN d
    BY <1>1, <1>4, ShownIsClosed
  <2>2. \A y \in DOMAIN r : Parents(r, y) \subseteq Above(y)
    BY DEF Whole
  <2> QED BY <1>5, <1>6, <2>1, <2>2 DEF Whole
<1>8. \A y \in DOMAIN r \ DOMAIN d : y = x \/ \E q \in Parents(r, y) : q \notin DOMAIN d
  BY <1>1, <1>2, <1>4, ShownIn
<1> QED BY <1>5, <1>6, <1>7, <1>8 DEF d

-----------------------------------------------------------------------------
(* What the reducers leave                                                 *)

\* A creation goes to the reducer of the slice of its id, whichever that is.
LEMMA CreatesInSlice ==
  ASSUME NEW s, NEW x \in Ids, NEW row
  PROVE  Dispatched(s, Act("create", x, row)) = Created(s, x, row)
<1> DEFINE a == Act("create", x, row)
<1>1. a.type = "create" /\ a.id = x /\ a.row = row
  BY DEF Act
<1>2. \E T \in Tables : x \in T
  BY DEF Ids
<1> HIDE DEF a
<1>3. ASSUME NEW slice, x \in slice PROVE Reduced(slice, s, a) = Created(s, x, row)
  BY <1>1, <1>3 DEF Reduced
<1>4. Dispatched(s, a) = Created(s, x, row)
  BY <1>1, <1>2, <1>3
     DEF Dispatched, Tables, ProjectsReducer, MilestonesReducer, WorkflowsReducer,
         SubWorkflowsReducer, FeaturesReducer, FeatureCommentsReducer, PersonasReducer,
         WorkflowPersonasReducer
<1> QED BY <1>4 DEF a

\* So does an update,
LEMMA UpdatesInSlice ==
  ASSUME NEW s, NEW x \in Ids, NEW row
  PROVE  Dispatched(s, Act("update", x, row)) = Updated(s, x, row)
<1> DEFINE a == Act("update", x, row)
<1>1. a.type = "update" /\ a.id = x /\ a.row = row
  BY DEF Act
<1>2. \E T \in Tables : x \in T
  BY DEF Ids
<1> HIDE DEF a
<1>3. ASSUME NEW slice, x \in slice PROVE Reduced(slice, s, a) = Updated(s, x, row)
  BY <1>1, <1>3 DEF Reduced
<1>4. Dispatched(s, a) = Updated(s, x, row)
  BY <1>1, <1>2, <1>3
     DEF Dispatched, Tables, ProjectsReducer, MilestonesReducer, WorkflowsReducer,
         SubWorkflowsReducer, FeaturesReducer, FeatureCommentsReducer, PersonasReducer,
         WorkflowPersonasReducer
<1> QED BY <1>4 DEF a

\* and a deletion.
LEMMA DeletesInSlice ==
  ASSUME NEW s, NEW x \in Ids, NEW row
  PROVE  Dispatched(s, Act("delete", x, row)) = Without(s, {x})
<1> DEFINE a == Act("delete", x, row)
<1>1. a.type = "delete" /\ a.id = x
  BY DEF Act
<1>2. \E T \in Tables : x \in T
  BY DEF Ids
<1> HIDE DEF a
<1>3. ASSUME NEW slice, x \in slice PROVE Reduced(slice, s, a) = Without(s, {x})
  BY <1>1, <1>3 DEF Reduced
<1>4. Dispatched(s, a) = Without(s, {x})
  BY <1>1, <1>2, <1>3
     DEF Dispatched, Tables, ProjectsReducer, MilestonesReducer, WorkflowsReducer,
         SubWorkflowsReducer, FeaturesReducer, FeatureCommentsReducer, PersonasReducer,
         WorkflowPersonasReducer
<1> QED BY <1>4 DEF a

\* The features of deleted cards go.
LEMMA FeaturesGo ==
  ASSUME NEW s, NEW X, NEW row
  PROVE  Dispatched(s, Act("deleteBy", X, row)) =
           Without(s, {f \in DOMAIN s \cap Features : Parents(s, f) \cap X # {}})
<1> DEFINE a == Act("deleteBy", X, row)
<1>1. a.type = "deleteBy" /\ a.id = X
  BY DEF Act
<1> HIDE DEF a
<1>2. Dispatched(s, a) = FeaturesReducer(s, a)
  BY <1>1 DEF Dispatched
<1>3. FeaturesReducer(s, a) = Without(s, {f \in DOMAIN s \cap Features : Parents(s, f) \cap X # {}})
  BY <1>1 DEF FeaturesReducer
<1> QED BY <1>2, <1>3 DEF a

\* Milestones and workflows are moved where they are.
LEMMA MovesInSlice ==
  ASSUME NEW s, NEW x \in Ranked, NEW place, NEW i,
         x \in Milestones \cup Workflows => place = s[x].place
  PROVE  Dispatched(s, Act("move", x, [place |-> place, index |-> i])) = MovedTo(s, x, place, i)
<1> DEFINE a == Act("move", x, [place |-> place, index |-> i])
<1>1. a.type = "move" /\ a.id = x /\ a.row.place = place /\ a.row.index = i
  BY DEF Act
<1> HIDE DEF a
<1>2. x \in Features => Dispatched(s, a) = MovedTo(s, x, place, i)
  BY <1>1, TablesApart DEF Dispatched, FeaturesReducer
<1>3. x \in SubWorkflows => Dispatched(s, a) = MovedTo(s, x, place, i)
  BY <1>1, TablesApart DEF Dispatched, SubWorkflowsReducer
<1>4. x \in Milestones => Dispatched(s, a) = MovedTo(s, x, place, i)
  BY <1>1, TablesApart DEF Dispatched, MilestonesReducer
<1>5. x \in Workflows => Dispatched(s, a) = MovedTo(s, x, place, i)
  BY <1>1, TablesApart DEF Dispatched, WorkflowsReducer
<1> QED BY <1>2, <1>3, <1>4, <1>5 DEF a, Ranked

\* A load brings every row but the projects.
LEMMA LoadsAll ==
  ASSUME NEW s, DOMAIN s \subseteq Ids, NEW new, DOMAIN new \subseteq Ids,
         NEW t, t = Dispatched(s, Act("load", Tables \ {Projects}, new))
  PROVE  /\ \A x : x \in DOMAIN t <=> IF x \in Projects THEN x \in DOMAIN s ELSE x \in DOMAIN new
         /\ \A x \in DOMAIN t : t[x] = IF x \in Projects THEN s[x] ELSE new[x]
<1> DEFINE U == UNION (Tables \ {Projects})
<1>1. U = Ids \ Projects
  <2>1. \A T \in Tables : T = Projects \/ T \cap Projects = {}
    BY TablesApart DEF Tables
  <2> QED BY <2>1 DEF Ids
<1>2. t = Loaded(s, U, new)
  BY DEF Dispatched, Act
<1> HIDE DEF U
<1> QED BY <1>1, <1>2 DEF Loaded

\* A row is put in, in its place; the others are the same.
LEMMA CreatedLooks ==
  ASSUME NEW s, NEW x, NEW place, NEW t, NEW v, v = Created(s, x, Fresh(place, t))
  PROVE  /\ \A y : y \in DOMAIN v <=> y \in DOMAIN s \/ y = x
         /\ \A y \in DOMAIN s : y # x => v[y] = s[y]
         /\ v[x].place = place
         /\ x \notin Ranked => v[x] = Fresh(place, t)
<1> DEFINE row == Fresh(place, t)
           L == InPlace(s, x, row.place)
           r == IF x \in Ranked THEN Rank(RankAt(s, L, Cardinality(L)), <<>>).rank
                                ELSE <<>>
           u == [y \in DOMAIN s \cup {x} |-> IF y = x THEN [row EXCEPT !.rank = r] ELSE s[y]]
<1>1. v = u
  BY DEF Created
<1>2. x \notin Ranked => r = <<>>
  OBVIOUS
<1> HIDE DEF r
<1>3. /\ DOMAIN u = DOMAIN s \cup {x}
      /\ \A y \in DOMAIN s \ {x} : u[y] = s[y]
      /\ u[x] = [row EXCEPT !.rank = r]
  OBVIOUS
<1>4. [row EXCEPT !.rank = r].place = place /\ [row EXCEPT !.rank = <<>>] = row
  BY DEF Fresh
<1> HIDE DEF u
<1> QED BY <1>1, <1>2, <1>3, <1>4

\* A row is replaced; the others are the same.
LEMMA UpdatedLooks ==
  ASSUME NEW s, NEW x, NEW row, NEW v, v = Updated(s, x, row)
  PROVE  /\ DOMAIN v = DOMAIN s
         /\ \A y \in DOMAIN s : v[y] = IF y = x THEN row ELSE s[y]
BY DEF Updated

\* A card gets its place and a rank; the others are the same.
LEMMA MovedLooks ==
  ASSUME NEW s, NEW x, x \in DOMAIN s => s[x] \in Row, NEW place, NEW i,
         NEW v, v = MovedTo(s, x, place, i)
  PROVE  /\ DOMAIN v = DOMAIN s
         /\ \A y \in DOMAIN s : y # x => v[y] = s[y]
         /\ x \in DOMAIN s => v[x].place = place /\ v[x].data = s[x].data
<1> DEFINE L == InPlace(s, x, place) \ {x}
           r == Rank(RankAt(s, L, i), RankAt(s, L, i + 1)).rank
           row == [s[x] EXCEPT !.place = place, !.rank = r]
<1>1. v = Updated(s, x, row)
  BY DEF MovedTo
<1> HIDE DEF r
<1>2. x \in DOMAIN s => row.place = place /\ row.data = s[x].data
  BY DEF Row
<1> HIDE DEF row
<1>3. /\ DOMAIN v = DOMAIN s
      /\ \A y \in DOMAIN s : y # x => v[y] = s[y]
      /\ x \in DOMAIN s => v[x] = row
  BY <1>1, UpdatedLooks
<1> QED BY <1>2, <1>3

-----------------------------------------------------------------------------
(* The forms                                                               *)

\* The rows of the places there are.
LEMMA PlaceRows ==
  /\ RowsOf(<<>>) = {}
  /\ \A a : RowsOf(<<a>>) = {a}
  /\ \A a, b : RowsOf(<<a, b>>) = {a, b}
<1>1. RowsOf(<<>>) = {}
  BY DEF RowsOf
<1>2. ASSUME NEW a PROVE RowsOf(<<a>>) = {a}
  <2>1. DOMAIN <<a>> = {1} /\ <<a>>[1] = a
    OBVIOUS
  <2> QED BY <2>1 DEF RowsOf
<1>3. ASSUME NEW a, NEW b PROVE RowsOf(<<a, b>>) = {a, b}
  <2>1. DOMAIN <<a, b>> = {1, 2} /\ <<a, b>>[1] = a /\ <<a, b>>[2] = b
    OBVIOUS
  <2> QED BY <2>1 DEF RowsOf
<1> QED BY <1>1, <1>2, <1>3

\* A call is an edit or one of the other four.
LEMMA OpsApart ==
  /\ {"get", "create", "move", "delete"} \cap Edits = {}
  /\ Edits = {"rename", "describe", "color", "annotate", "estimate", "close", "open"}
BY DEF Edits, FieldOf

\* A creation without a tag.
LEMMA MakingOne ==
  ASSUME NEW s, NEW fr, NEW x \in fr \cap Ids, x \notin Projects, NEW place, NEW t,
         RowsOf(place) \subseteq Shown(s) \cap Above(x)
  PROVE  FormShaped(s, fr, Created(s, x, Fresh(place, t)), Create(x, place, t))
<1> DEFINE c == Create(x, place, t)
           v == Created(s, x, Fresh(place, t))
<1>1. c.op = "create" /\ c.id = x /\ c.place = place /\ c.text = t /\ c.to = <<>>
  BY DEF Create, Request
<1>0. v = Created(s, x, Fresh(place, t))
  OBVIOUS
<1> HIDE DEF c, v
<1>2. /\ \A y : y \in DOMAIN v <=> y \in DOMAIN s \/ y = x
      /\ \A y \in DOMAIN s : y # x => v[y] = s[y]
      /\ v[x].place = place
      /\ x \notin Ranked => v[x] = Fresh(place, t)
  BY <1>0, CreatedLooks
<1>3. IdsOf(c) = {x} /\ PlaceFor(c, x) = place
  BY <1>1 DEF IdsOf, PlaceFor
<1>4. x \in Personas \cup WorkflowPersonas => x \notin Ranked
  BY TablesApart DEF Ranked
<1>5. Placed(c)
  BY <1>1, OpsApart DEF Placed
<1>6. Making(s, fr, v, c)
  BY <1>1, <1>2, <1>3, <1>4 DEF Making
<1> QED BY <1>5, <1>6 DEF FormShaped, c, v

\* A creation with a tag: a persona attached to a workflow.
LEMMA MakingTwo ==
  ASSUME NEW s, NEW fr, NEW x \in fr \cap Personas, NEW g \in fr \cap WorkflowPersonas,
         NEW p \in Shown(s) \cap Projects, NEW w \in Shown(s) \cap Workflows, NEW t
  PROVE  FormShaped(s, fr, Created(Created(s, x, Fresh(<<p>>, t)), g, Fresh(<<w, x>>, Blank)),
                    Request("create", x, <<p>>, 0, t, <<g, w>>))
<1> DEFINE pl == <<p>>
           gl == <<w, x>>
           c == Request("create", x, pl, 0, t, <<g, w>>)
           u == Created(s, x, Fresh(pl, t))
           v == Created(u, g, Fresh(gl, Blank))
<1>1. /\ c.op = "create" /\ c.id = x /\ c.place = <<p>> /\ c.text = t
      /\ c.to # <<>> /\ c.to[1] = g /\ c.to[2] = w
  BY DEF Request
<1>0. x \notin Ranked /\ g \notin Ranked /\ x # g /\ x \notin Projects
  BY TablesApart DEF Ranked
<1>7. u = Created(s, x, Fresh(pl, t)) /\ v = Created(u, g, Fresh(gl, Blank))
  OBVIOUS
<1> HIDE DEF u, v
<1>2. /\ \A y : y \in DOMAIN u <=> y \in DOMAIN s \/ y = x
      /\ \A y \in DOMAIN s : y # x => u[y] = s[y]
      /\ u[x].place = pl
      /\ x \notin Ranked => u[x] = Fresh(pl, t)
  BY <1>7, CreatedLooks
<1>3. /\ \A y : y \in DOMAIN v <=> y \in DOMAIN u \/ y = g
      /\ \A y \in DOMAIN u : y # g => v[y] = u[y]
      /\ v[g].place = gl
      /\ g \notin Ranked => v[g] = Fresh(gl, Blank)
  BY <1>7, CreatedLooks
<1> HIDE DEF c
<1>4. IdsOf(c) = {x, g} /\ PlaceFor(c, x) = <<p>> /\ PlaceFor(c, g) = <<w, x>>
  BY <1>0, <1>1 DEF IdsOf, PlaceFor
<1>5. Placed(c)
  <2>1. RowsOf(<<p>>) \subseteq Above(x)
    BY PlaceRows DEF Above, Ids, Tables
  <2> QED BY <1>0, <1>1, <2>1, OpsApart DEF Placed
<1>6. Making(s, fr, v, c)
  <2>1. RowsOf(PlaceFor(c, x)) = {p} /\ RowsOf(PlaceFor(c, g)) = {w, x}
    BY <1>4, PlaceRows
  <2>2. /\ DOMAIN v = DOMAIN s \cup IdsOf(c)
        /\ \A y \in DOMAIN s \ IdsOf(c) : v[y] = s[y]
    BY <1>0, <1>2, <1>3, <1>4
  <2>3. /\ v[x] = Fresh(<<p>>, t) /\ v[x].place = <<p>>
        /\ v[g] = Fresh(<<w, x>>, Blank) /\ v[g].place = <<w, x>>
    BY <1>0, <1>2, <1>3
  <2>4. \A y \in IdsOf(c) : /\ v[y].place = PlaceFor(c, y)
                            /\ RowsOf(PlaceFor(c, y)) \subseteq Shown(s) \cup {c.id}
    BY <1>1, <1>4, <2>1, <2>3
  <2>5. \A y \in IdsOf(c) : v[y] = Fresh(PlaceFor(c, y), IF y = c.id THEN c.text ELSE Blank)
    BY <1>0, <1>1, <1>4, <2>3
  <2>6. c.op = "create" /\ IdsOf(c) \subseteq fr
    BY <1>1, <1>4
  <2> QED BY <2>2, <2>4, <2>5, <2>6 DEF Making
<1> QED BY <1>5, <1>6 DEF FormShaped, c, v, u

\* A card is dropped.
LEMMA MovingOne ==
  ASSUME NEW s, NEW fr, NEW x \in Ranked \cap Shown(s), NEW place, NEW i,
         RowsOf(place) \subseteq Shown(s) \cap Above(x)
  PROVE  FormShaped(s, fr, MovedTo(s, x, place, i), Move(x, place, i))
<1> DEFINE c == Move(x, place, i)
<1>1. c.op = "move" /\ c.id = x /\ c.place = place /\ c.index = i /\ c.to = <<>>
  BY DEF Move, Request
<1> HIDE DEF c
<1>2. Placed(c)
  BY <1>1, OpsApart DEF Placed
<1>3. Moving(s, MovedTo(s, x, place, i), c)
  BY <1>1 DEF Moving
<1> QED BY <1>2, <1>3 DEF FormShaped, c

\* A form is saved.
LEMMA EditingOne ==
  ASSUME NEW s, NEW fr, NEW x \in Shown(s), NEW op \in Edits, NEW t,
         x \notin WorkflowPersonas, x \in Personas => op = "rename"
  PROVE  FormShaped(s, fr, Updated(s, x, Edited(s[x], op, t)), Edit(op, x, t))
<1> DEFINE c == Edit(op, x, t)
<1>1. c.op = op /\ c.id = x /\ c.text = t /\ c.to = <<>>
  BY DEF Edit, Request
<1> HIDE DEF c
<1>2. Placed(c)
  BY <1>1, OpsApart DEF Placed
<1>3. Editing(s, Updated(s, x, Edited(s[x], op, t)), c)
  BY <1>1 DEF Editing
<1> QED BY <1>2, <1>3 DEF FormShaped, c

\* A row is deleted, and with it features that are no longer shown.
LEMMA DeletingOne ==
  ASSUME NEW s, NEW fr, NEW x \in Shown(s), NEW v,
         DOMAIN v \subseteq DOMAIN s \ {x}, \A y \in DOMAIN v : v[y] = s[y],
         \A y \in DOMAIN s \ DOMAIN v : y = x \/ (y \in Features /\ Missing(v, s[y].place))
  PROVE  FormShaped(s, fr, v, Delete(x))
<1> DEFINE c == Delete(x)
<1>1. c.op = "delete" /\ c.id = x /\ c.to = <<>>
  BY DEF Delete, Request
<1> HIDE DEF c
<1>2. Placed(c)
  BY <1>1, OpsApart DEF Placed
<1>3. Deleting(s, v, c)
  BY <1>1 DEF Deleting
<1> QED BY <1>2, <1>3 DEF FormShaped, c

\* A row is deleted alone.
LEMMA DeletingOnly ==
  ASSUME NEW s, NEW fr, NEW x \in Shown(s)
  PROVE  FormShaped(s, fr, Without(s, {x}), Delete(x))
<1> DEFINE v == Without(s, {x})
<1>0. v = Without(s, {x})
  OBVIOUS
<1> HIDE DEF v
<1>1. /\ \A y : y \in DOMAIN v <=> y \in DOMAIN s /\ y # x
      /\ \A y \in DOMAIN v : v[y] = s[y]
  BY <1>0, WithoutLooks
<1>2. FormShaped(s, fr, v, Delete(x))
  BY <1>1, DeletingOne
<1> QED BY <1>2 DEF v

\* A milestone, a workflow or a subworkflow takes its features along.
LEMMA DeletingMore ==
  ASSUME NEW s, NEW fr, NEW x \in Shown(s), x \in Ids
  PROVE  LET v == Dispatched(s, Act("delete", x, Blank))
         IN  FormShaped(s, fr, Dispatched(v, Act("deleteBy", Emptied(v, x), Blank)), Delete(x))
<1> DEFINE v == Dispatched(s, Act("delete", x, Blank))
           E == Emptied(v, x)
           X == {f \in DOMAIN v \cap Features : Parents(v, f) \cap E # {}}
           t == Dispatched(v, Act("deleteBy", E, Blank))
<1>1. v = Without(s, {x})
  BY DeletesInSlice
<1> HIDE DEF v
<1>2. /\ \A y : y \in DOMAIN v <=> y \in DOMAIN s /\ y # x
      /\ \A y \in DOMAIN v : v[y] = s[y]
  BY <1>1, WithoutLooks
<1>3. t = Without(v, X)
  BY FeaturesGo
<1> HIDE DEF t
<1>4. /\ \A y : y \in DOMAIN t <=> y \in DOMAIN v /\ y \notin X
      /\ \A y \in DOMAIN t : t[y] = v[y]
  BY <1>3, WithoutLooks
<1>5. ASSUME NEW y \in X PROVE y \in Features /\ Missing(t, s[y].place)
  <2>1. PICK q \in Parents(v, y) : q \in E
    OBVIOUS
  <2>2. q \in RowsOf(s[y].place)
    BY <1>2, <2>1 DEF Parents
  <2>3. CASE q = x
    BY <1>2, <1>4, <2>3 DEF Off, Missing, Parents
  <2>4. CASE q \in DOMAIN v /\ v[q].place = <<x>>
    <3>1. x \in RowsOf(v[q].place)
      BY <2>4, PlaceRows
    <3>2. q \in DOMAIN t => x \in Parents(t, q)
      BY <1>4, <3>1 DEF Parents
    <3> QED BY <1>2, <1>4, <2>2, <3>2 DEF Off, Missing
  <2> QED BY <2>1, <2>2, <2>3, <2>4 DEF Emptied, Missing, Off
<1> HIDE DEF X
<1>6. FormShaped(s, fr, t, Delete(x))
  BY <1>2, <1>4, <1>5, DeletingOne
<1> QED BY <1>6 DEF t, v

\* The form that is filled is one of the four.
Shaped == \E t, c : FormShaped(store, fresh, t, c) /\ Submit(t, c)

\* Forms that create,
LEMMA CreatesAreShaped ==
  ASSUME NEW x \in fresh, fresh \subseteq Ids, x \notin Projects, NEW place, NEW t,
         RowsOf(place) \subseteq Shown(store) \cap Above(x),
         Submit(Dispatched(store, Act("create", x, Fresh(place, t))), Create(x, place, t))
  PROVE  Shaped
<1>1. Dispatched(store, Act("create", x, Fresh(place, t))) = Created(store, x, Fresh(place, t))
  BY CreatesInSlice
<1>2. FormShaped(store, fresh, Created(store, x, Fresh(place, t)), Create(x, place, t))
  BY MakingOne
<1> QED BY <1>1, <1>2 DEF Shaped

\* for every kind of card;
LEMMA CardMadeShaped ==
  ASSUME Inv, Ground, CardMade
  PROVE  Shaped
<1>1. fresh \subseteq Ids
  BY DEF Inv, TypeOK
<1>2. ASSUME NEW x \in fresh, x \in Ranked, NEW place, NEW t,
             RowsOf(place) \subseteq Shown(store) \cap Above(x), CreateCard(x, place, t)
      PROVE  Shaped
  BY <1>1, <1>2, CreatesAreShaped, TablesApart DEF CreateCard, Ranked
<1>3. PICK t \in Texts :
        \/ \E x \in fresh \cap Workflows, p \in Projects : CreateWorkflow(x, p, t)
        \/ \E x \in fresh \cap Milestones, p \in Projects : CreateMilestone(x, p, t)
        \/ \E x \in fresh \cap SubWorkflows, w \in Workflows : CreateSubWorkflow(x, w, t)
        \/ \E x \in fresh \cap Features, cell \in Cells : CreateFeature(x, cell, t)
  BY DEF CardMade
<1>4. Projects \cup Workflows \cup Milestones \cup SubWorkflows \subseteq Ids
  BY DEF Ids, Tables
<1>5. CASE \E x \in fresh \cap Workflows, p \in Projects : CreateWorkflow(x, p, t)
  <2>1. PICK x \in fresh \cap Workflows, p \in Projects : CreateWorkflow(x, p, t)
    BY <1>5
  <2>2. RowsOf(<<p>>) \subseteq Shown(store) \cap Above(x)
    BY <1>4, <2>1, PlaceRows DEF CreateWorkflow, On, Above
  <2> QED BY <1>2, <2>1, <2>2 DEF CreateWorkflow, Ranked
<1>6. CASE \E x \in fresh \cap Milestones, p \in Projects : CreateMilestone(x, p, t)
  <2>1. PICK x \in fresh \cap Milestones, p \in Projects : CreateMilestone(x, p, t)
    BY <1>6
  <2>2. RowsOf(<<p>>) \subseteq Shown(store) \cap Above(x)
    BY <1>4, <2>1, PlaceRows DEF CreateMilestone, On, Above
  <2> QED BY <1>2, <2>1, <2>2 DEF CreateMilestone, Ranked
<1>7. CASE \E x \in fresh \cap SubWorkflows, w \in Workflows : CreateSubWorkflow(x, w, t)
  <2>1. PICK x \in fresh \cap SubWorkflows, w \in Workflows : CreateSubWorkflow(x, w, t)
    BY <1>7
  <2>2. RowsOf(<<w>>) \subseteq Shown(store) \cap Above(x)
    BY <1>4, <2>1, PlaceRows DEF CreateSubWorkflow, On, Above
  <2> QED BY <1>2, <2>1, <2>2 DEF CreateSubWorkflow, Ranked
<1>8. CASE \E x \in fresh \cap Features, cell \in Cells : CreateFeature(x, cell, t)
  <2>1. PICK x \in fresh \cap Features, cell \in Cells : CreateFeature(x, cell, t)
    BY <1>8
  <2>2. PICK m \in On(Milestones), s \in On(SubWorkflows) : cell = <<m, s>>
    BY DEF Cells
  <2>3. RowsOf(cell) \subseteq Shown(store) \cap Above(x)
    BY <1>4, <2>1, <2>2, PlaceRows DEF On, Above
  <2> QED BY <1>2, <2>1, <2>3 DEF CreateFeature, Ranked
<1> QED BY <1>3, <1>5, <1>6, <1>7, <1>8

\* drops, for every kind of card;
LEMMA CardMovedShaped ==
  ASSUME Inv, Ground, CardMoved
  PROVE  Shaped
<1>1. Laid(store)
  BY DEF Ground, Grounded
<1>2. ASSUME NEW x \in Ranked \cap Shown(store), NEW place, NEW i,
             x \in Milestones \cup Workflows => place = store[x].place,
             RowsOf(place) \subseteq Shown(store) \cap Above(x), Drop(x, place, i)
      PROVE  Shaped
  <2>1. Dispatched(store, Act("move", x, [place |-> place, index |-> i]))
          = MovedTo(store, x, place, i)
    BY <1>2, MovesInSlice
  <2>2. FormShaped(store, fresh, MovedTo(store, x, place, i), Move(x, place, i))
    BY <1>2, MovingOne
  <2> QED BY <1>2, <2>1, <2>2 DEF Drop, Shaped
<1>3. ASSUME NEW x \in Shown(store)
      PROVE  RowsOf(store[x].place) \subseteq Shown(store) \cap Above(x)
  BY <1>1, <1>3, ShownIsClosed, ShownIsThere DEF Laid, Parents
<1>4. Workflows \cup Milestones \cup SubWorkflows \subseteq Ids
  BY DEF Ids, Tables
<1>5. CASE \E x \in On(Features), cell \in Cells, i \in 0 .. Cardinality(Features) :
             MoveFeature(x, cell, i)
  <2>1. PICK x \in On(Features), cell \in Cells, i \in 0 .. Cardinality(Features) :
               MoveFeature(x, cell, i)
    BY <1>5
  <2>2. PICK m \in On(Milestones), s \in On(SubWorkflows) : cell = <<m, s>>
    BY DEF Cells
  <2>3. RowsOf(cell) \subseteq Shown(store) \cap Above(x)
    BY <1>4, <2>1, <2>2, PlaceRows DEF On, Above
  <2>4. x \in Ranked \cap Shown(store) /\ x \notin Milestones \cup Workflows
    BY <2>1, TablesApart DEF On, Ranked
  <2> QED BY <1>2, <2>1, <2>3, <2>4 DEF MoveFeature
<1>6. CASE \E x \in On(Milestones), i \in 0 .. Cardinality(Milestones) : MoveMilestone(x, i)
  BY <1>2, <1>3, <1>6 DEF MoveMilestone, On, Ranked
<1>7. CASE \E x \in On(Workflows), i \in 0 .. Cardinality(Workflows) : MoveWorkflow(x, i)
  BY <1>2, <1>3, <1>7 DEF MoveWorkflow, On, Ranked
<1>8. CASE \E x \in On(SubWorkflows), w \in Workflows, i \in 0 .. Cardinality(SubWorkflows) :
             MoveSubWorkflow(x, w, i)
  <2>1. PICK x \in On(SubWorkflows), w \in Workflows, i \in 0 .. Cardinality(SubWorkflows) :
               MoveSubWorkflow(x, w, i)
    BY <1>8
  <2>2. RowsOf(<<w>>) \subseteq Shown(store) \cap Above(x)
    BY <1>4, <2>1, PlaceRows DEF MoveSubWorkflow, On, Above
  <2>3. x \in Ranked \cap Shown(store) /\ x \notin Milestones \cup Workflows
    BY <2>1, TablesApart DEF On, Ranked
  <2> QED BY <1>2, <2>1, <2>2, <2>3 DEF MoveSubWorkflow
<1> QED BY <1>5, <1>6, <1>7, <1>8 DEF CardMoved

\* forms that edit,
LEMMA EditsAreShaped ==
  ASSUME NEW x \in Shown(store) \cap Ids, NEW op \in Edits, NEW t,
         x \notin WorkflowPersonas, x \in Personas => op = "rename",
         Submit(Dispatched(store, Act("update", x, Edited(store[x], op, t))), Edit(op, x, t))
  PROVE  Shaped
<1>1. Dispatched(store, Act("update", x, Edited(store[x], op, t)))
        = Updated(store, x, Edited(store[x], op, t))
  BY UpdatesInSlice
<1>2. FormShaped(store, fresh, Updated(store, x, Edited(store[x], op, t)), Edit(op, x, t))
  BY EditingOne
<1> QED BY <1>1, <1>2 DEF Shaped

\* and those that delete one row;
LEMMA DeletesAreShaped ==
  ASSUME NEW x \in Shown(store) \cap Ids,
         Submit(Dispatched(store, Act("delete", x, Blank)), Delete(x))
  PROVE  Shaped
<1>1. Dispatched(store, Act("delete", x, Blank)) = Without(store, {x})
  BY DeletesInSlice
<1>2. FormShaped(store, fresh, Without(store, {x}), Delete(x))
  BY DeletingOnly
<1> QED BY <1>1, <1>2 DEF Shaped

\* cards are edited, closed, opened and deleted;
LEMMA CardEditedShaped ==
  ASSUME Inv, Ground, CardEdited
  PROVE  Shaped
<1>1. PICK x \in On(Ranked \cup Projects) :
        \/ \E t \in Texts :
             \/ RenameCard(x, t) \/ DescribeCard(x, t) \/ HandleChangeColor(x, t)
             \/ UpdateAnnotations(x, t) \/ ChangeEstimate(x, t)
        \/ HandleClose(x) \/ HandleOpen(x) \/ HandleDelete(x)
  BY DEF CardEdited
<1>2. x \in Shown(store) \cap Ids /\ x \notin WorkflowPersonas \cup Personas
  BY TablesApart DEF On, Ranked, Ids, Tables
<1>3. ASSUME NEW op \in Edits, NEW t, EditRow(x, op, t)
      PROVE  Shaped
  BY <1>2, <1>3, EditsAreShaped DEF EditRow
<1>4. CASE \E t \in Texts :
             \/ RenameCard(x, t) \/ DescribeCard(x, t) \/ HandleChangeColor(x, t)
             \/ UpdateAnnotations(x, t) \/ ChangeEstimate(x, t)
  BY <1>3, <1>4, OpsApart
     DEF RenameCard, DescribeCard, HandleChangeColor, UpdateAnnotations, ChangeEstimate
<1>5. CASE HandleClose(x) \/ HandleOpen(x)
  BY <1>3, <1>5, OpsApart DEF HandleClose, HandleOpen
<1>6. CASE HandleDelete(x)
  <2> DEFINE v == Dispatched(store, Act("delete", x, Blank))
             t == Dispatched(v, Act("deleteBy", Emptied(v, x), Blank))
  <2>1. FormShaped(store, fresh, t, Delete(x))
    BY <1>2, DeletingMore
  <2>2. Submit(t, Delete(x))
    BY <1>6 DEF HandleDelete
  <2> HIDE DEF t
  <2> QED BY <2>1, <2>2 DEF Shaped
<1> QED BY <1>1, <1>4, <1>5, <1>6

\* comments are posted, edited and deleted;
LEMMA DiscussedShaped ==
  ASSUME Inv, Ground, Discussed
  PROVE  Shaped
<1>1. fresh \subseteq Ids
  BY DEF Inv, TypeOK
<1>2. Comments \cup Features \subseteq Ids
  BY DEF Ids, Tables
<1>3. CASE \E x \in fresh \cap Comments, f \in Features, t \in Texts : PostComment(x, f, t)
  <2>1. PICK x \in fresh \cap Comments, f \in Features, t \in Texts : PostComment(x, f, t)
    BY <1>3
  <2> DEFINE pl == <<f>>
  <2>2. RowsOf(pl) \subseteq Shown(store) \cap Above(x)
    BY <1>2, <2>1, PlaceRows DEF PostComment, On, Above
  <2>3. Submit(Dispatched(store, Act("create", x, Fresh(pl, t))), Create(x, pl, t))
    BY <2>1 DEF PostComment
  <2>4. x \notin Projects
    BY TablesApart
  <2> HIDE DEF pl
  <2> QED BY <1>1, <2>2, <2>3, <2>4, CreatesAreShaped
<1>4. CASE \E x \in On(Comments), t \in Texts : EditComment(x, t)
  <2>1. PICK x \in On(Comments), t \in Texts : EditComment(x, t)
    BY <1>4
  <2>2. x \in Shown(store) \cap Ids /\ x \notin WorkflowPersonas \cup Personas
    BY <1>2, TablesApart DEF On
  <2> QED BY <2>1, <2>2, EditsAreShaped, OpsApart DEF EditComment
<1>5. CASE \E x \in On(Comments) : DeleteComment(x)
  BY <1>2, <1>5, DeletesAreShaped DEF DeleteComment, On
<1> QED BY <1>3, <1>4, <1>5 DEF Discussed

\* personas are made;
LEMMA PersonaMadeShaped ==
  ASSUME Inv, Ground, PersonaMade
  PROVE  Shaped
<1>1. fresh \subseteq Ids
  BY DEF Inv, TypeOK
<1>2. PICK x \in fresh \cap Personas, p \in Projects, t \in Texts :
        \/ CreatePersona(x, p, t)
        \/ \E w \in Workflows, tag \in fresh \cap WorkflowPersonas :
             CreatePersonaFor(x, p, w, tag, t)
  BY DEF PersonaMade
<1>3. Projects \subseteq Ids /\ x \notin Projects
  BY TablesApart DEF Ids, Tables
<1>4. CASE CreatePersona(x, p, t)
  <2> DEFINE pl == <<p>>
  <2>1. RowsOf(pl) \subseteq Shown(store) \cap Above(x)
    BY <1>3, <1>4, PlaceRows DEF CreatePersona, On, Above
  <2>2. Submit(Dispatched(store, Act("create", x, Fresh(pl, t))), Create(x, pl, t))
    BY <1>4 DEF CreatePersona
  <2> HIDE DEF pl
  <2> QED BY <1>1, <1>3, <2>1, <2>2, CreatesAreShaped
<1>5. ASSUME NEW w \in Workflows, NEW tag \in fresh \cap WorkflowPersonas,
             CreatePersonaFor(x, p, w, tag, t)
      PROVE  Shaped
  <2> DEFINE a == Act("create", x, Fresh(<<p>>, t))
             made == Dispatched(store, a)
             b == Act("create", tag, Fresh(<<w, x>>, Blank))
             c == Request("create", x, <<p>>, 0, t, <<tag, w>>)
             u == Created(store, x, Fresh(<<p>>, t))
             v == Created(u, tag, Fresh(<<w, x>>, Blank))
  <2>1. p \in Shown(store) /\ w \in Shown(store)
    BY <1>5 DEF CreatePersonaFor, On
  <2>2. FormShaped(store, fresh, v, c)
    BY <2>1, MakingTwo
  <2>3. made = u
    BY <1>1, CreatesInSlice
  <2>4. Dispatched(u, b) = v
    BY <1>1, CreatesInSlice
  <2>5. Submit(Dispatched(made, b), c)
    BY <1>5 DEF CreatePersonaFor
  <2>6. Submit(v, c)
    BY <2>3, <2>4, <2>5
  <2> HIDE DEF v, c
  <2> QED BY <2>2, <2>6 DEF Shaped
<1> QED BY <1>2, <1>4, <1>5

\* they are edited, deleted and attached to workflows.
LEMMA PersonaChangedShaped ==
  ASSUME Inv, Ground, PersonaChanged
  PROVE  Shaped
<1>1. fresh \subseteq Ids
  BY DEF Inv, TypeOK
<1>2. Personas \cup WorkflowPersonas \cup Workflows \subseteq Ids
  BY DEF Ids, Tables
<1>3. CASE \E x \in On(Personas) : HandleDeletePersona(x)
  BY <1>2, <1>3, DeletesAreShaped DEF HandleDeletePersona, On
<1>4. CASE \E x \in On(Personas), t \in Texts : EditPersona(x, t)
  <2>1. PICK x \in On(Personas), t \in Texts : EditPersona(x, t)
    BY <1>4
  <2>2. x \in Shown(store) \cap Ids /\ x \notin WorkflowPersonas
    BY <1>2, TablesApart DEF On
  <2> QED BY <2>1, <2>2, EditsAreShaped, OpsApart DEF EditPersona
<1>5. CASE \E x \in fresh \cap WorkflowPersonas, w \in Workflows, a \in Personas :
             HandleCreateWorkflowPersona(x, w, a)
  <2>1. PICK x \in fresh \cap WorkflowPersonas, w \in Workflows, a \in Personas :
          HandleCreateWorkflowPersona(x, w, a)
    BY <1>5
  <2> DEFINE pl == <<w, a>>
  <2>2. RowsOf(pl) \subseteq Shown(store) \cap Above(x)
    BY <1>2, <2>1, PlaceRows DEF HandleCreateWorkflowPersona, Unattached, On, Above
  <2>3. Submit(Dispatched(store, Act("create", x, Fresh(pl, Blank))), Create(x, pl, Blank))
    BY <2>1 DEF HandleCreateWorkflowPersona
  <2>4. x \notin Projects
    BY TablesApart
  <2> HIDE DEF pl
  <2> QED BY <1>1, <2>2, <2>3, <2>4, CreatesAreShaped
<1>6. CASE \E x \in On(WorkflowPersonas) : HandleDeleteWorkflowPersona(x)
  BY <1>2, <1>6, DeletesAreShaped DEF HandleDeleteWorkflowPersona, On
<1> QED BY <1>3, <1>4, <1>5, <1>6 DEF PersonaChanged

\* Every form has one of the four shapes.
LEMMA FormIsShaped ==
  ASSUME Inv, Ground, FormFilled
  PROVE  Shaped
BY CardMadeShaped, CardMovedShaped, CardEditedShaped, DiscussedShaped, PersonaMadeShaped,
   PersonaChangedShaped DEF FormFilled

-----------------------------------------------------------------------------
(* The answers                                                             *)

\* Every answer but a load is put in, drops its card, or changes nothing.
LEMMA AnswerIsShaped ==
  ASSUME Inv, NEW k \in DOMAIN calls, Placed(calls[k].req), AnswerArrives(k)
  PROVE  \/ \E t, alert : AnswerShaped(calls[k], store, t, alert) /\ Handled(k, t, alert)
         \/ LoadAnswered(k)
<1> DEFINE o == calls[k]
           c == o.req
           x == c.id
           P == \E t, alert : AnswerShaped(o, store, t, alert) /\ Handled(k, t, alert)
<1>1. /\ o.state \in {"sent", "ok", "refused"} /\ x \in Ids
  BY InvHasParts DEF Parts, CallsFit, CallFits, Wellformed, RequestType
<1>2. Dispatched(store, Act("update", x, o.answer[x])) = Updated(store, x, o.answer[x])
  BY <1>1, UpdatesInSlice
<1>3. Dispatched(store, Act("delete", x, Blank)) = Without(store, {x})
  BY <1>1, DeletesInSlice
<1>4. /\ x \in Ranked \cup Comments => x \notin Personas \cup WorkflowPersonas
      /\ x \in Personas \cup WorkflowPersonas => x \notin Ranked \cup Comments
  BY TablesApart DEF Ranked
<1>5. CASE CardAnswered(k)
  <2>1. Answered(k, {"create"}) /\ x \in Ranked
    BY <1>5 DEF CardAnswered
  <2>2. CASE o.state = "ok"
    <3>1. Handled(k, Updated(store, x, o.answer[x]), FALSE)
      BY <1>2, <1>5, <2>2 DEF CardAnswered
    <3>2. AnswerShaped(o, store, Updated(store, x, o.answer[x]), FALSE)
      BY <2>1, <2>2 DEF AnswerShaped, Put, Answered
    <3> QED BY <3>1, <3>2
  <2>3. CASE o.state # "ok"
    <3>1. Handled(k, Without(store, {x}), FALSE)
      BY <1>3, <1>5, <2>3 DEF CardAnswered
    <3>2. AnswerShaped(o, store, Without(store, {x}), FALSE)
      BY <1>1, <2>1, <2>3 DEF AnswerShaped, Answered
    <3> QED BY <3>1, <3>2
  <2> QED BY <2>2, <2>3
<1>6. CASE CommentAnswered(k)
  <2>1. Answered(k, {"create"}) /\ x \in Comments /\ x \notin Ranked
    BY <1>6, TablesApart DEF CommentAnswered, Ranked
  <2>2. CASE o.state = "ok"
    <3>1. Handled(k, Updated(store, x, o.answer[x]), FALSE)
      BY <1>2, <1>6, <2>2 DEF CommentAnswered
    <3>2. AnswerShaped(o, store, Updated(store, x, o.answer[x]), FALSE)
      BY <2>1, <2>2 DEF AnswerShaped, Put, Answered
    <3> QED BY <3>1, <3>2
  <2>3. CASE o.state # "ok"
    <3>1. Handled(k, store, TRUE)
      BY <1>6, <2>3 DEF CommentAnswered
    <3>2. AnswerShaped(o, store, store, TRUE)
      BY <1>1, <2>1, <2>3 DEF AnswerShaped, Answered
    <3> QED BY <3>1, <3>2
  <2> QED BY <2>2, <2>3
<1>7. ASSUME o.state # "sent", c.op # "get", o.state = "ok" => ~Put(c),
             o.state = "refused" => ~(c.op = "create" /\ x \in Ranked),
             Handled(k, store, o.state = "refused")
      PROVE  P
  <2>1. CASE o.state = "ok"
    <3>1. Handled(k, store, FALSE)
      BY <1>7, <2>1
    <3>2. AnswerShaped(o, store, store, FALSE)
      BY <1>7, <2>1 DEF AnswerShaped
    <3> QED BY <3>1, <3>2
  <2>2. CASE o.state = "refused"
    <3>1. Handled(k, store, TRUE)
      BY <1>7, <2>2
    <3>2. AnswerShaped(o, store, store, TRUE)
      BY <1>7, <2>2 DEF AnswerShaped
    <3> QED BY <3>1, <3>2
  <2> QED BY <1>1, <1>7, <2>1, <2>2
<1>8. CASE PersonaAnswered(k)
  BY <1>4, <1>7, <1>8, OpsApart DEF PersonaAnswered, Answered, Put
<1>9. CASE WorkflowPersonaAnswered(k)
  BY <1>4, <1>7, <1>9, OpsApart DEF WorkflowPersonaAnswered, Answered, Put
<1>10. CASE PersonaEditAnswered(k)
  BY <1>4, <1>7, <1>10, OpsApart DEF PersonaEditAnswered, Answered, Put, Blind
<1>11. CASE EditAnswered(k)
  <2>1. Answered(k, Edits) /\ x \notin Personas /\ c.op \in Edits
    BY <1>11 DEF EditAnswered, Answered
  <2>2. CASE o.state = "refused"
    <3>1. Handled(k, store, TRUE)
      BY <1>11, <2>2 DEF EditAnswered
    <3>2. AnswerShaped(o, store, store, TRUE)
      BY <2>1, <2>2, OpsApart DEF AnswerShaped
    <3> QED BY <3>1, <3>2
  <2>3. CASE o.state # "refused" /\ c.op = "close" /\ x \in Workflows
    <3>1. o.state = "ok"
      BY <1>1, <2>1, <2>3 DEF Answered
    <3>2. Handled(k, FeaturesReducer(store, Act("update", x, o.answer[x])), FALSE)
      BY <1>11, <2>3 DEF EditAnswered
    <3>3. FeaturesReducer(store, Act("update", x, o.answer[x])) = store
      BY <2>3, TablesApart DEF FeaturesReducer, Reduced, Act
    <3>4. Handled(k, store, FALSE)
      BY <3>2, <3>3
    <3>5. AnswerShaped(o, store, store, FALSE)
      BY <2>1, <2>3, <3>1, OpsApart DEF AnswerShaped, Put, Blind
    <3> QED BY <3>4, <3>5
  <2>4. CASE o.state # "refused" /\ ~(c.op = "close" /\ x \in Workflows)
    <3>1. o.state = "ok"
      BY <1>1, <2>1, <2>4 DEF Answered
    <3>2. Handled(k, Updated(store, x, o.answer[x]), FALSE)
      BY <1>2, <1>11, <2>4 DEF EditAnswered
    <3>3. Put(c)
      BY <2>1, <2>4, OpsApart DEF Put, Blind
    <3>4. AnswerShaped(o, store, Updated(store, x, o.answer[x]), FALSE)
      BY <2>1, <3>1, <3>3, OpsApart DEF AnswerShaped
    <3> QED BY <3>2, <3>4
  <2> QED BY <2>2, <2>3, <2>4
<1>12. CASE MoveAnswered(k)
  BY <1>7, <1>12, OpsApart DEF MoveAnswered, Answered, Put
<1>13. CASE DeleteAnswered(k)
  <2>1. Answered(k, {"delete"}) /\ c.op = "delete"
    BY <1>13 DEF DeleteAnswered, Answered
  <2>2. CASE x \in Comments /\ o.state = "ok"
    <3>1. Handled(k, Without(store, {x}), FALSE)
      BY <1>3, <1>13, <2>2 DEF DeleteAnswered
    <3>2. AnswerShaped(o, store, Without(store, {x}), FALSE)
      BY <2>1, <2>2 DEF AnswerShaped
    <3> QED BY <3>1, <3>2
  <2>3. CASE ~(x \in Comments /\ o.state = "ok")
    <3>1. Handled(k, store, o.state = "refused")
      BY <1>13, <2>3 DEF DeleteAnswered
    <3> QED BY <1>7, <2>1, <3>1, OpsApart DEF Answered, Put
  <2> QED BY <2>2, <2>3
<1> QED BY <1>5, <1>6, <1>8, <1>9, <1>10, <1>11, <1>12, <1>13 DEF AnswerArrives

-----------------------------------------------------------------------------
(* The server                                                              *)

\* Where a creation puts its rows the foreign keys let them lie.
LEMMA PlacedFor ==
  ASSUME NEW c, Placed(c), c.op = "create", NEW x \in IdsOf(c), c.id \in Ids
  PROVE  /\ RowsOf(PlaceFor(c, x)) \subseteq Above(x)
         /\ x \notin Projects
<1>1. CASE x = c.id
  BY <1>1 DEF Placed, PlaceFor
<1>2. CASE x # c.id
  <2>1. /\ c.to # <<>> /\ x = c.to[1] /\ c.id \in Personas
        /\ x \in WorkflowPersonas /\ c.to[2] \in Workflows
    BY <1>2 DEF IdsOf, Placed
  <2>2. RowsOf(PlaceFor(c, x)) = {c.to[2], c.id}
    BY <1>2, PlaceRows DEF PlaceFor
  <2>3. Workflows \subseteq Ids
    BY DEF Ids, Tables
  <2> QED BY <2>1, <2>2, <2>3, TablesApart DEF Above
<1> QED BY <1>1, <1>2

\* A creation is refused, or its row is put in.
LEMMA CreateShape ==
  ASSUME NEW r, NEW c, NEW v, v = ServeCreate(r, c)
  PROVE  \/ ~v.ok /\ v.answer = NoRows /\ v.rows = r
         \/ /\ v.ok /\ v.answer = Only(v.rows, {c.id})
            /\ v.rows = Created(r, c.id, Fresh(c.place, c.text))
            /\ RowsOf(c.place) \subseteq DOMAIN r
BY DEF ServeCreate, Reply, Refusal

\* A creation with a tag is refused, half done or done.
LEMMA CreateTwoShape ==
  ASSUME NEW r, NEW c, Placed(c), c.op = "create", c.to # <<>>,
         NEW v, v = ServeCreatePersona(r, c)
  PROVE  ServedShaped(r, c, v)
<1> DEFINE u == ServeCreate(r, c)
           pl == <<c.to[2], c.id>>
           d == Create(c.to[1], pl, Blank)
           w == ServeCreate(u.rows, d)
           x == c.id
           g == c.to[1]
<1>1. x \in Personas /\ g \in WorkflowPersonas /\ x # g /\ {x, g} \cap Ranked = {}
  BY TablesApart DEF Placed, Ranked
<1>2. \/ ~u.ok /\ u.answer = NoRows /\ u.rows = r
      \/ /\ u.ok /\ u.answer = Only(u.rows, {x})
         /\ u.rows = Created(r, x, Fresh(c.place, c.text))
         /\ RowsOf(c.place) \subseteq DOMAIN r
  BY CreateShape
<1>3. v = IF ~u.ok THEN u ELSE w
  BY DEF ServeCreatePersona
<1>4. d.id = g /\ d.place = pl /\ d.text = Blank
  BY DEF Create, Request
<1>5. \/ ~w.ok /\ w.answer = NoRows /\ w.rows = u.rows
      \/ /\ w.ok /\ w.answer = Only(w.rows, {g})
         /\ w.rows = Created(u.rows, g, Fresh(pl, Blank))
         /\ RowsOf(pl) \subseteq DOMAIN u.rows
  <2> HIDE DEF pl, d, u, g
  <2> QED BY <1>4, CreateShape
<1>6. IdsOf(c) = {x, g} /\ PlaceFor(c, x) = c.place /\ PlaceFor(c, g) = pl
  BY <1>1 DEF IdsOf, PlaceFor
<1> HIDE DEF u, w, d
<1>7. CASE ~u.ok
  BY <1>2, <1>3, <1>7 DEF ServedShaped
<1>8. CASE u.ok /\ ~w.ok
  BY <1>1, <1>2, <1>3, <1>5, <1>8 DEF ServedShaped
<1>9. CASE u.ok /\ w.ok
  <2> HIDE DEF pl, x, g
  <2>1. /\ \A y : y \in DOMAIN u.rows <=> y \in DOMAIN r \/ y = x
        /\ \A y \in DOMAIN r : y # x => u.rows[y] = r[y]
        /\ u.rows[x].place = c.place /\ u.rows[x] = Fresh(c.place, c.text)
    BY <1>1, <1>2, <1>9, CreatedLooks
  <2>2. /\ \A y : y \in DOMAIN w.rows <=> y \in DOMAIN u.rows \/ y = g
        /\ \A y \in DOMAIN u.rows : y # g => w.rows[y] = u.rows[y]
        /\ w.rows[g].place = pl /\ w.rows[g] = Fresh(pl, Blank)
    BY <1>1, <1>5, <1>9, CreatedLooks
  <2>3. /\ w.rows[x].place = c.place /\ w.rows[x] = Fresh(c.place, c.text)
        /\ RowsOf(c.place) \subseteq DOMAIN w.rows /\ RowsOf(pl) \subseteq DOMAIN w.rows
    BY <1>1, <1>2, <1>5, <1>9, <2>1, <2>2
  <2>4. x = c.id
    BY DEF x
  <2>5. v = w /\ v.ok /\ x # g /\ IdsOf(c) = {x, g} /\ \E y \in IdsOf(c) : v.answer = Only(v.rows, {y})
    BY <1>1, <1>3, <1>5, <1>6, <1>9
  <2>6. /\ \A y : y \in DOMAIN v.rows <=> y \in DOMAIN r \/ y \in IdsOf(c)
        /\ \A y \in DOMAIN r : y \notin IdsOf(c) => v.rows[y] = r[y]
    BY <2>1, <2>2, <2>5
  <2>7. \A y \in IdsOf(c) : /\ v.rows[y].place = PlaceFor(c, y)
                            /\ RowsOf(PlaceFor(c, y)) \subseteq DOMAIN v.rows
                            /\ v.rows[y] = Fresh(PlaceFor(c, y), IF y = c.id THEN c.text ELSE Blank)
    BY <1>6, <2>2, <2>3, <2>4, <2>5
  <2> QED BY <2>5, <2>6, <2>7 DEF ServedShaped
<1> QED BY <1>7, <1>8, <1>9

\* A creation without one is refused or done.
LEMMA CreateOneShape ==
  ASSUME NEW r, NEW c, c.op = "create", c.to = <<>>, NEW v, v = ServeCreate(r, c)
  PROVE  ServedShaped(r, c, v)
<1>1. \/ ~v.ok /\ v.answer = NoRows /\ v.rows = r
      \/ /\ v.ok /\ v.answer = Only(v.rows, {c.id})
         /\ v.rows = Created(r, c.id, Fresh(c.place, c.text))
         /\ RowsOf(c.place) \subseteq DOMAIN r
  BY CreateShape
<1>2. CASE ~v.ok
  BY <1>1, <1>2 DEF ServedShaped
<1>3. CASE v.ok
  <2>1. IdsOf(c) = {c.id} /\ PlaceFor(c, c.id) = c.place
    BY DEF IdsOf, PlaceFor
  <2>2. /\ \A y : y \in DOMAIN v.rows <=> y \in DOMAIN r \/ y = c.id
        /\ \A y \in DOMAIN r : y # c.id => v.rows[y] = r[y]
        /\ v.rows[c.id].place = c.place
        /\ c.id \notin Ranked => v.rows[c.id] = Fresh(c.place, c.text)
    BY <1>1, <1>3, CreatedLooks
  <2>3. c.id \in Personas \cup WorkflowPersonas => c.id \notin Ranked
    BY TablesApart DEF Ranked
  <2>4. /\ \A y : y \in DOMAIN v.rows <=> y \in DOMAIN r \/ y \in IdsOf(c)
        /\ \A y \in DOMAIN r : y \notin IdsOf(c) => v.rows[y] = r[y]
        /\ \E y \in IdsOf(c) : v.answer = Only(v.rows, {y})
    BY <1>1, <1>3, <2>1, <2>2
  <2>5. \A y \in IdsOf(c) : /\ v.rows[y].place = PlaceFor(c, y)
                            /\ RowsOf(PlaceFor(c, y)) \subseteq DOMAIN v.rows
    BY <1>1, <1>3, <2>1, <2>2
  <2>6. \A y \in IdsOf(c) \cap (Personas \cup WorkflowPersonas) :
          v.rows[y] = Fresh(PlaceFor(c, y), IF y = c.id THEN c.text ELSE Blank)
    BY <2>1, <2>2, <2>3
  <2> QED BY <1>3, <2>4, <2>5, <2>6 DEF ServedShaped
<1> QED BY <1>2, <1>3

\* What the server does with a call has one of six shapes.
LEMMA ServedHasShape ==
  ASSUME NEW r, NEW c, Placed(c), c.op \in Ops, NEW v, v = Served(r, c)
  PROVE  ServedShaped(r, c, v)
<1>1. CASE c.op = "get"
  <2>1. v = ServeGet(r, c)
    BY <1>1, OpsApart DEF Served
  <2> QED BY <1>1, <2>1 DEF ServeGet, Reply, ServedShaped
<1>2. CASE c.op = "create" /\ c.id \in Personas
  <2>1. v = ServeCreatePersona(r, c)
    BY <1>2, OpsApart DEF Served
  <2>2. c.to = <<>> => v = ServeCreate(r, c)
    BY <2>1 DEF ServeCreatePersona
  <2> QED BY <1>2, <2>1, <2>2, CreateOneShape, CreateTwoShape
<1>3. CASE c.op = "create" /\ c.id \notin Personas
  <2>1. v = ServeCreate(r, c)
    BY <1>3, OpsApart DEF Served
  <2>2. c.to = <<>>
    BY <1>3 DEF Placed
  <2> QED BY <1>3, <2>1, <2>2, CreateOneShape
<1>4. CASE c.op \in Edits
  <2>1. v = ServeEdit(r, c)
    BY <1>4, OpsApart DEF Served
  <2> QED BY <1>4, <2>1, OpsApart DEF ServeEdit, Reply, Refusal, ServedShaped
<1>5. CASE c.op = "move"
  <2>1. v = ServeMove(r, c)
    BY <1>5, OpsApart DEF Served
  <2> QED BY <1>5, <2>1 DEF ServeMove, Reply, Refusal, ServedShaped
<1>6. CASE c.op = "delete"
  <2>1. v = ServeDelete(r, c)
    BY <1>6, OpsApart DEF Served
  <2>2. CASE c.id \in Comments \ DOMAIN r
    BY <1>6, <2>1, <2>2 DEF ServeDelete, Refusal, ServedShaped
  <2>3. CASE c.id \notin Comments \ DOMAIN r
    <3>1. v = [Reply(r, c) EXCEPT !.rows = Deleted(r, c.id), !.answer = NoRows]
      BY <2>1, <2>3 DEF ServeDelete
    <3> QED BY <1>6, <3>1 DEF Reply, ServedShaped
  <2> QED BY <2>2, <2>3
<1> QED BY <1>1, <1>2, <1>3, <1>4, <1>5, <1>6 DEF Ops

-----------------------------------------------------------------------------
(* The calls under way                                                     *)

\* The calls with one that comes,
LEMMA CallIsAdded ==
  ASSUME Inv, Ordered, NEW c, NEW ds, ds = WithCall(c)
  PROVE  CallComes(calls, ds, Number, c)
<1>1. Number \notin DOMAIN calls
  <2>1. Number \in Nat /\ DOMAIN calls \subseteq Nat
    BY NetAssumption, InvHasParts DEF Parts, LeftBounds, Number, CallsFit
  <2> QED BY <2>1 DEF Ordered
<1> QED BY <1>1 DEF CallComes, WithCall

\* with one that goes,
LEMMA CallIsGone ==
  ASSUME NEW k \in DOMAIN calls, NEW ds, ds = WithoutCall(k)
  PROVE  CallGone(calls, ds, k)
BY DEF CallGone, WithoutCall

\* Calls are served one after another.
LEMMA LatestIsAfter ==
  ASSUME Inv
  PROVE  Latest \in Nat /\ \A k \in DOMAIN calls : calls[k].turn \in Nat /\ calls[k].turn < Latest
<1>1. Latest \in Nat /\ \A k \in DOMAIN calls : calls[k].turn < Latest
  BY LatestIsLast
<1> HIDE DEF Latest
<1> QED BY <1>1, InvHasParts DEF Parts, CallsFit

\* and with one that is served.
LEMMA CallIsServed ==
  ASSUME Inv, NEW k \in DOMAIN calls, calls[k].state = "sent", NEW state, NEW answer, NEW ds,
         ds = [calls EXCEPT ![k].state = state, ![k].turn = Latest, ![k].answer = answer]
  PROVE  CallServed(calls, ds, k, state, answer)
<1> DEFINE L == Latest
<1>1. L \in Nat /\ \A m \in DOMAIN calls : calls[m].turn \in Nat /\ calls[m].turn < L
  BY LatestIsAfter
<1>2. /\ DOMAIN ds = DOMAIN calls
      /\ \A m \in DOMAIN calls : m # k => ds[m] = calls[m]
      /\ ds[k] = [calls[k] EXCEPT !.state = state, !.turn = L, !.answer = answer]
  <2> HIDE DEF L
  <2>1. ds = [calls EXCEPT ![k].state = state, ![k].turn = L, ![k].answer = answer]
    BY DEF L
  <2> QED BY <2>1
<1>3. /\ ds[k].req = calls[k].req /\ ds[k].state = state
      /\ ds[k].turn = L /\ ds[k].answer = answer
  <2>1. DOMAIN calls[k] = {"req", "state", "turn", "answer"}
    <3>1. CallFits(calls[k])
      BY DEF Inv
    <3> QED BY <3>1 DEF CallFits
  <2> HIDE DEF L
  <2> QED BY <1>2, <2>1
<1> HIDE DEF L
<1> QED BY <1>1, <1>2, <1>3 DEF CallServed

-----------------------------------------------------------------------------
(* Ground                                                                  *)

\* An answer without rows.
LEMMA EmptyIsGrounded ==
  ASSUME NEW X
  PROVE  Laid(NoRows) /\ Avoids(NoRows, X)
BY DEF Laid, Avoids, NoRows

\* A form puts rows where they can lie, and uses up the ids it makes.
LEMMA FormIsLaid ==
  ASSUME NEW s, Laid(s), NEW fr \in SUBSET Ids, Avoids(s, fr), \A x \in DOMAIN s : s[x] \in Row,
         NEW t, NEW c, FormShaped(s, fr, t, c)
  PROVE  /\ Laid(t)
         /\ c.op = "create" => Avoids(t, fr \ IdsOf(c))
         /\ c.op # "create" => Avoids(t, fr)
<1>1. Shown(s) \subseteq DOMAIN s
  BY ShownIsThere
<1>2. \A x \in DOMAIN s : /\ x \in Ids /\ x \notin fr
                          /\ Parents(s, x) \subseteq Above(x) /\ Parents(s, x) \cap fr = {}
  BY DEF Laid, Avoids
<1>3. CASE Making(s, fr, t, c)
  <2>1. /\ c.op = "create" /\ IdsOf(c) \subseteq fr /\ c.id \in IdsOf(c)
        /\ \A y : y \in DOMAIN t <=> y \in DOMAIN s \/ y \in IdsOf(c)
        /\ \A y \in DOMAIN s : y \notin IdsOf(c) => t[y] = s[y]
    BY <1>3 DEF Making, IdsOf
  <2>2. \A x \in IdsOf(c) : /\ Parents(t, x) = RowsOf(PlaceFor(c, x))
                            /\ RowsOf(PlaceFor(c, x)) \subseteq Shown(s) \cup {c.id}
    BY <1>3 DEF Making, Parents
  <2>3. \A x \in IdsOf(c) : RowsOf(PlaceFor(c, x)) \subseteq Above(x)
    BY <2>1, PlacedFor DEF FormShaped
  <2>4. \A x \in DOMAIN s : x \notin IdsOf(c) => Parents(t, x) = Parents(s, x)
    BY <2>1 DEF Parents
  <2>5. Laid(t)
    BY <1>2, <2>1, <2>2, <2>3, <2>4 DEF Laid
  <2>6. Avoids(t, fr \ IdsOf(c))
    <3> SUFFICES ASSUME NEW x \in DOMAIN t
                 PROVE  x \notin fr \ IdsOf(c) /\ Parents(t, x) \cap (fr \ IdsOf(c)) = {}
      BY DEF Avoids
    <3>1. CASE x \in IdsOf(c)
      BY <1>1, <1>2, <2>1, <2>2, <3>1
    <3>2. CASE x \notin IdsOf(c)
      BY <1>2, <2>1, <2>4, <3>2
    <3> QED BY <3>1, <3>2
  <2> QED BY <2>1, <2>5, <2>6
<1>4. ASSUME DOMAIN t \subseteq DOMAIN s, c.op # "create",
             \A x \in DOMAIN t : \/ Parents(t, x) = Parents(s, x)
                                 \/ Parents(t, x) \subseteq Shown(s) \cap Above(x)
      PROVE  Laid(t) /\ Avoids(t, fr)
  <2>1. Laid(t)
    BY <1>2, <1>4 DEF Laid
  <2>2. Avoids(t, fr)
    BY <1>1, <1>2, <1>4 DEF Avoids
  <2> QED BY <2>1, <2>2
<1>5. CASE Moving(s, t, c)
  <2>1. /\ c.op = "move" /\ c.id \in DOMAIN s /\ t = MovedTo(s, c.id, c.place, c.index)
        /\ RowsOf(c.place) \subseteq Shown(s) \cap Above(c.id)
    BY <1>1, <1>5 DEF Moving, FormShaped, Placed
  <2>2. /\ DOMAIN t = DOMAIN s /\ \A y \in DOMAIN s : y # c.id => t[y] = s[y]
        /\ t[c.id].place = c.place
    BY <2>1, MovedLooks
  <2> QED BY <1>4, <2>1, <2>2 DEF Parents
<1>6. CASE Editing(s, t, c)
  <2>1. /\ c.op \in Edits /\ c.id \in DOMAIN s
        /\ t = Updated(s, c.id, Edited(s[c.id], c.op, c.text))
    BY <1>1, <1>6 DEF Editing
  <2>2. /\ DOMAIN t = DOMAIN s /\ \A y \in DOMAIN s : y # c.id => t[y] = s[y]
        /\ t[c.id] = Edited(s[c.id], c.op, c.text)
    BY <2>1, UpdatedLooks
  <2>3. t[c.id].place = s[c.id].place
    BY <2>1, <2>2 DEF Edited, Row
  <2> QED BY <1>4, <2>1, <2>2, <2>3, OpsApart DEF Parents
<1>7. CASE Deleting(s, t, c)
  BY <1>4, <1>7 DEF Deleting, Parents
<1> QED BY <1>3, <1>4, <1>5, <1>6, <1>7 DEF FormShaped

\* A form and its call know what is known.
LEMMA FormIsGrounded ==
  ASSUME NEW s, NEW g, NEW r, NEW cs, NEW fr \in SUBSET Ids, Grounded(s, g, r, cs, fr),
         \A x \in DOMAIN s : s[x] \in Row,
         NEW t, NEW c, FormShaped(s, fr, t, c),
         NEW n, NEW ds, CallComes(cs, ds, n, c),
         NEW fr2, fr2 = IF c.op = "create" THEN fr \ IdsOf(c) ELSE fr
  PROVE  Grounded(t, g, r, cs, fr2) /\ Grounded(t, g, r, ds, fr2)
<1>1. fr2 \subseteq fr /\ (c.op = "create" => IdsOf(c) \cap fr2 = {})
  OBVIOUS
<1>2. Laid(s) /\ Avoids(s, fr)
  BY DEF Grounded
<1>3. Laid(t) /\ Avoids(t, fr2)
  BY <1>2, FormIsLaid
<1>4. Whole(r) /\ Avoids(r, fr) /\ g \cap (fr \cup DOMAIN r) = {}
  BY DEF Grounded
<1>5. Avoids(r, fr2) /\ g \cap (fr2 \cup DOMAIN r) = {}
  BY <1>1, <1>4 DEF Avoids
<1>6. ASSUME NEW k \in DOMAIN cs PROVE CallGrounded(cs[k], g, r, fr2)
  <2> DEFINE o == cs[k]
  <2>1. CallGrounded(o, g, r, fr)
    BY DEF Grounded
  <2> HIDE DEF o
  <2>2. Avoids(o.answer, fr2)
    BY <1>1, <2>1 DEF CallGrounded, Avoids
  <2>3. /\ IdsOf(o.req) \cap fr2 = {}
        /\ o.req.op \in {"create", "move"} =>
             \A x \in IdsOf(o.req) : RowsOf(PlaceFor(o.req, x)) \cap fr2 = {}
    BY <1>1, <2>1 DEF CallGrounded
  <2>4. CallGrounded(o, g, r, fr2)
    BY <2>1, <2>2, <2>3 DEF CallGrounded
  <2> QED BY <2>4 DEF o
<1>7. CallGrounded(SentCall(c), g, r, fr2)
  <2> DEFINE o == SentCall(c)
  <2>1. o.req = c /\ o.state = "sent" /\ o.answer = NoRows
    BY DEF SentCall
  <2> HIDE DEF o
  <2>2. c.op # "create" => IdsOf(c) = {c.id} /\ c.id \in Shown(s)
    BY DEF FormShaped, Placed, Making, Moving, Editing, Deleting, IdsOf
  <2>3. Shown(s) \subseteq DOMAIN s /\ \A x \in DOMAIN s : x \notin fr2
    BY <1>1, <1>2, ShownIsThere DEF Avoids
  <2>4. IdsOf(c) \cap fr2 = {}
    BY <1>1, <2>2, <2>3
  <2>5. c.op = "create" => Making(s, fr, t, c)
    BY OpsApart DEF FormShaped, Moving, Editing, Deleting
  <2>6. c.op = "move" => Moving(s, t, c)
    BY OpsApart DEF FormShaped, Making, Editing, Deleting
  <2>7. c.op \in {"create", "move"} =>
          \A x \in IdsOf(c) : RowsOf(PlaceFor(c, x)) \cap fr2 = {}
    <3>1. CASE c.op = "create"
      <4>1. c.id \notin fr2
        BY <1>1, <3>1 DEF IdsOf
      <4> QED BY <2>3, <2>5, <3>1, <4>1 DEF Making
    <3>2. CASE c.op = "move"
      <4>1. RowsOf(c.place) \subseteq Shown(s)
        BY <2>6, <3>2 DEF Moving
      <4>2. \A x \in IdsOf(c) : PlaceFor(c, x) = c.place
        BY <2>2, <3>2 DEF PlaceFor
      <4> QED BY <2>3, <4>1, <4>2
    <3> QED BY <3>1, <3>2
  <2>8. Unborn(o) => IdsOf(c) \cap (g \cup DOMAIN r) = {}
    BY <1>4, <2>1, <2>5 DEF Unborn, Making, Avoids
  <2>9. Placed(c)
    BY DEF FormShaped
  <2>10. CallGrounded(o, g, r, fr2)
    BY <2>1, <2>4, <2>7, <2>8, <2>9, EmptyIsGrounded DEF CallGrounded
  <2> QED BY <2>10 DEF o
<1>8. \A k, m \in DOMAIN cs :
        k # m /\ cs[k].req.op = "create" /\ cs[m].req.op = "create" =>
          ~Share(cs[k].req, cs[m].req)
  BY DEF Grounded
<1>9. ASSUME c.op = "create", NEW k \in DOMAIN cs
      PROVE  ~Share(cs[k].req, c) /\ ~Share(c, cs[k].req)
  <2>1. IdsOf(c) \subseteq fr
    BY <1>9, OpsApart DEF FormShaped, Making, Moving, Editing, Deleting
  <2>2. IdsOf(cs[k].req) \cap fr = {}
    BY DEF Grounded, CallGrounded
  <2> QED BY <2>1, <2>2 DEF Share
<1>10. SentCall(c).req = c
  BY DEF SentCall
<1>11. \A k \in DOMAIN ds : CallGrounded(ds[k], g, r, fr2)
  BY <1>6, <1>7 DEF CallComes
<1>12. \A k, m \in DOMAIN ds :
        k # m /\ ds[k].req.op = "create" /\ ds[m].req.op = "create" =>
          ~Share(ds[k].req, ds[m].req)
  BY <1>8, <1>9, <1>10 DEF CallComes
<1>13. Grounded(t, g, r, cs, fr2)
  BY <1>3, <1>4, <1>5, <1>6, <1>8 DEF Grounded
<1>14. Grounded(t, g, r, ds, fr2)
  BY <1>3, <1>4, <1>5, <1>11, <1>12 DEF Grounded
<1> QED BY <1>13, <1>14

\* So does a load.
LEMMA GetIsGrounded ==
  ASSUME NEW s, NEW g, NEW r, NEW cs, NEW fr, Grounded(s, g, r, cs, fr),
         NEW p \in DOMAIN s, NEW n, NEW ds, CallComes(cs, ds, n, Get(p))
  PROVE  Grounded(s, g, r, ds, fr)
<1> DEFINE o == SentCall(Get(p))
<1>1. o.req.op = "get" /\ o.req.id = p /\ o.req.to = <<>> /\ o.answer = NoRows
  BY DEF SentCall, Get, Request
<1>2. p \notin fr
  BY DEF Grounded, Avoids
<1> HIDE DEF o
<1>3. IdsOf(o.req) = {p}
  BY <1>1 DEF IdsOf
<1>4. CallGrounded(o, g, r, fr)
  BY <1>1, <1>2, <1>3, EmptyIsGrounded, OpsApart DEF CallGrounded, Placed, Unborn
<1>5. \A k \in DOMAIN ds : (k \in DOMAIN cs /\ ds[k] = cs[k]) \/ ds[k] = o
  BY DEF CallComes, o
<1>6. \A k \in DOMAIN ds : CallGrounded(ds[k], g, r, fr)
  BY <1>4, <1>5 DEF Grounded
<1>7. \A k, m \in DOMAIN ds :
        k # m /\ ds[k].req.op = "create" /\ ds[m].req.op = "create" =>
          ~Share(ds[k].req, ds[m].req)
  <2>1. \A k \in DOMAIN ds : ds[k].req.op = "create" => k \in DOMAIN cs /\ ds[k] = cs[k]
    BY <1>1, <1>5
  <2> QED BY <2>1 DEF Grounded
<1> QED BY <1>6, <1>7 DEF Grounded

\* A call less, and a store of laid rows.
LEMMA FewerIsGrounded ==
  ASSUME NEW s, NEW g, NEW r, NEW cs, NEW fr, Grounded(s, g, r, cs, fr),
         NEW t, Laid(t), Avoids(t, fr), NEW k, NEW ds, CallGone(cs, ds, k)
  PROVE  Grounded(t, g, r, ds, fr)
<1>1. \A m \in DOMAIN ds : m \in DOMAIN cs /\ ds[m] = cs[m]
  BY DEF CallGone
<1> QED BY <1>1 DEF Grounded

\* An answer puts rows where they can lie.
LEMMA AnswerIsLaid ==
  ASSUME NEW s, Laid(s), NEW fr, Avoids(s, fr), NEW o, Laid(o.answer), Avoids(o.answer, fr),
         o.state = "ok" /\ Put(o.req) => o.req.id \in DOMAIN o.answer,
         NEW t, NEW alert, AnswerShaped(o, s, t, alert)
  PROVE  Laid(t) /\ Avoids(t, fr)
<1> DEFINE x == o.req.id
<1>1. CASE o.state = "ok" /\ Put(o.req) /\ t = Updated(s, x, o.answer[x])
  <2>1. /\ DOMAIN t = DOMAIN s
        /\ \A y \in DOMAIN s : t[y] = IF y = x THEN o.answer[x] ELSE s[y]
    BY <1>1, UpdatedLooks
  <2>2. \A y \in DOMAIN s : \/ Parents(t, y) = Parents(s, y)
                            \/ y = x /\ Parents(t, y) = Parents(o.answer, x)
    BY <2>1 DEF Parents
  <2> QED BY <1>1, <2>1, <2>2 DEF Laid, Avoids
<1>2. CASE t = Without(s, {x})
  <2>1. /\ \A y : y \in DOMAIN t <=> y \in DOMAIN s /\ y \notin {x}
        /\ \A y \in DOMAIN t : t[y] = s[y] /\ Parents(t, y) = Parents(s, y)
    BY <1>2, WithoutLooks
  <2> QED BY <2>1 DEF Laid, Avoids
<1>3. CASE t = s
  BY <1>3
<1> QED BY <1>1, <1>2, <1>3 DEF AnswerShaped

\* So does a load.
LEMMA LoadIsLaid ==
  ASSUME NEW s, Laid(s), NEW fr, Avoids(s, fr), NEW a, Laid(a), Avoids(a, fr),
         NEW t, t = Dispatched(s, Act("load", Tables \ {Projects}, a))
  PROVE  Laid(t) /\ Avoids(t, fr)
<1>1. DOMAIN s \subseteq Ids /\ DOMAIN a \subseteq Ids
  BY DEF Laid
<1>2. t = Dispatched(s, Act("load", Tables \ {Projects}, a))
  OBVIOUS
<1>3. \A u : u = Dispatched(s, Act("load", Tables \ {Projects}, a)) =>
        /\ \A x : x \in DOMAIN u <=> IF x \in Projects THEN x \in DOMAIN s ELSE x \in DOMAIN a
        /\ \A x \in DOMAIN u : u[x] = IF x \in Projects THEN s[x] ELSE a[x]
  BY <1>1, LoadsAll, Zenon
<1>4. /\ \A x : x \in DOMAIN t <=> IF x \in Projects THEN x \in DOMAIN s ELSE x \in DOMAIN a
      /\ \A x \in DOMAIN t : t[x] = IF x \in Projects THEN s[x] ELSE a[x]
  BY <1>2, <1>3, Zenon
<1>5. \A x \in DOMAIN t : \/ x \in DOMAIN s /\ Parents(t, x) = Parents(s, x)
                          \/ x \in DOMAIN a /\ Parents(t, x) = Parents(a, x)
  BY <1>4 DEF Parents
<1> QED BY <1>5 DEF Laid, Avoids

\* The server's rows after a call.
LEMMA ServedIsWhole ==
  ASSUME NEW r, Whole(r), DOMAIN r \subseteq Ids, \A x \in DOMAIN r : r[x] \in Row,
         NEW fr, Avoids(r, fr), NEW c, Placed(c), c.id \in Ids, IdsOf(c) \cap fr = {},
         NEW v, ServedShaped(r, c, v)
  PROVE  /\ Whole(v.rows) /\ Avoids(v.rows, fr)
         /\ Laid(v.answer) /\ Avoids(v.answer, fr)
         /\ \A y \in DOMAIN v.rows : y \in DOMAIN r \/ (c.op = "create" /\ y \in IdsOf(c))
<1>1. \A x \in DOMAIN r : /\ Parents(r, x) \subseteq DOMAIN r /\ Parents(r, x) \subseteq Above(x)
                          /\ x \notin fr /\ Parents(r, x) \cap fr = {}
  BY DEF Whole, Avoids
<1>2. ASSUME NEW w, Whole(w), \A x \in DOMAIN w : x \in DOMAIN r \/ x \in IdsOf(c)
      PROVE  Avoids(w, fr)
  BY <1>1, <1>2 DEF Avoids, Whole
<1>3. ASSUME NEW w, Whole(w), Avoids(w, fr), DOMAIN w \subseteq Ids, NEW X
      PROVE  Laid(Only(w, X)) /\ Avoids(Only(w, X), fr)
  <2> DEFINE a == Only(w, X)
  <2>1. \A y \in DOMAIN a : y \in DOMAIN w /\ Parents(a, y) = Parents(w, y)
    BY DEF Only, Parents
  <2>2. Laid(a) /\ Avoids(a, fr)
    <3> HIDE DEF a
    <3> QED BY <1>3, <2>1 DEF Laid, Avoids, Whole
  <2> QED BY <2>2
<1>4. CASE v.rows = r /\ v.answer = NoRows
  BY <1>1, <1>4, EmptyIsGrounded
<1>5. CASE v.rows = r /\ v.answer = r
  <2>1. Laid(r)
    BY DEF Laid, Whole
  <2> QED BY <1>5, <2>1
<1>6. CASE /\ c.op = "create" /\ c.id \in Personas /\ RowsOf(c.place) \subseteq DOMAIN r
           /\ v.answer = NoRows /\ v.rows = Created(r, c.id, Fresh(c.place, c.text))
  <2> DEFINE w == v.rows
  <2>1. /\ \A y : y \in DOMAIN w <=> y \in DOMAIN r \/ y = c.id
        /\ \A y \in DOMAIN r : y # c.id => w[y] = r[y]
        /\ w[c.id].place = c.place
    BY <1>6, CreatedLooks
  <2>2. RowsOf(c.place) \subseteq Above(c.id)
    BY <1>6 DEF Placed
  <2>3. Whole(w)
    BY <1>1, <1>6, <2>1, <2>2 DEF Whole, Parents
  <2>4. c.id \in IdsOf(c)
    BY DEF IdsOf
  <2>5. Avoids(w, fr)
    BY <1>2, <2>1, <2>3, <2>4
  <2> QED BY <1>6, <2>1, <2>3, <2>4, <2>5, EmptyIsGrounded
<1>7. CASE /\ v.ok /\ c.op = "create" /\ \E x \in IdsOf(c) : v.answer = Only(v.rows, {x})
           /\ \A y : y \in DOMAIN v.rows <=> y \in DOMAIN r \/ y \in IdsOf(c)
           /\ \A y \in DOMAIN r : y \notin IdsOf(c) => v.rows[y] = r[y]
           /\ \A x \in IdsOf(c) : /\ v.rows[x].place = PlaceFor(c, x)
                                  /\ RowsOf(PlaceFor(c, x)) \subseteq DOMAIN v.rows
  <2> DEFINE w == v.rows
  <2>1. \A x \in IdsOf(c) : RowsOf(PlaceFor(c, x)) \subseteq Above(x)
    BY <1>7, PlacedFor
  <2>2. Whole(w)
    BY <1>1, <1>7, <2>1 DEF Whole, Parents
  <2>3. Avoids(w, fr)
    BY <1>2, <1>7, <2>2
  <2>4. IdsOf(c) \subseteq Ids
    <3>1. c.to # <<>> => c.to[1] \in WorkflowPersonas
      BY DEF Placed
    <3> QED BY <3>1 DEF IdsOf, Ids, Tables
  <2>5. DOMAIN w \subseteq Ids
    BY <1>7, <2>4
  <2>6. Laid(v.answer) /\ Avoids(v.answer, fr)
    BY <1>3, <1>7, <2>2, <2>3, <2>5
  <2> QED BY <1>7, <2>2, <2>3, <2>6
<1>8. CASE /\ c.op \in Edits /\ c.id \in DOMAIN r /\ v.answer = Only(v.rows, {c.id})
           /\ v.rows = Updated(r, c.id, Edited(r[c.id], c.op, c.text))
  <2> DEFINE w == v.rows
  <2>1. /\ DOMAIN w = DOMAIN r
        /\ \A y \in DOMAIN r : w[y] = IF y = c.id THEN Edited(r[c.id], c.op, c.text) ELSE r[y]
    BY <1>8, UpdatedLooks
  <2>2. Edited(r[c.id], c.op, c.text).place = r[c.id].place
    BY <1>8 DEF Edited, Row
  <2>3. \A y \in DOMAIN r : Parents(w, y) = Parents(r, y)
    BY <1>8, <2>1, <2>2 DEF Parents
  <2>4. Whole(w)
    BY <2>1, <2>3 DEF Whole
  <2>5. Avoids(w, fr)
    BY <1>2, <2>1, <2>4
  <2>6. Laid(v.answer) /\ Avoids(v.answer, fr)
    BY <1>3, <1>8, <2>1, <2>4, <2>5
  <2> QED BY <2>1, <2>4, <2>5, <2>6
<1>9. CASE /\ c.op = "move" /\ c.id \in DOMAIN r /\ RowsOf(c.place) \subseteq DOMAIN r
           /\ v.answer = Only(v.rows, {c.id})
           /\ v.rows = MovedTo(r, c.id, c.place, c.index)
  <2> DEFINE w == v.rows
  <2>1. /\ DOMAIN w = DOMAIN r /\ \A y \in DOMAIN r : y # c.id => w[y] = r[y]
        /\ w[c.id].place = c.place
    BY <1>9, MovedLooks
  <2>2. RowsOf(c.place) \subseteq Above(c.id)
    BY <1>9 DEF Placed
  <2>3. Whole(w)
    BY <1>1, <1>9, <2>1, <2>2 DEF Whole, Parents
  <2>5. Avoids(w, fr)
    BY <1>2, <2>1, <2>3
  <2>6. Laid(v.answer) /\ Avoids(v.answer, fr)
    BY <1>3, <1>9, <2>1, <2>3, <2>5
  <2> QED BY <2>1, <2>3, <2>5, <2>6
<1>10. CASE v.answer = NoRows /\ v.rows = Deleted(r, c.id)
  <2> DEFINE w == v.rows
  <2>1. DOMAIN w \subseteq DOMAIN r /\ Whole(w)
    BY <1>10, DeletedLooks
  <2>2. Avoids(w, fr)
    BY <1>2, <2>1
  <2> QED BY <1>10, <2>1, <2>2, EmptyIsGrounded
<1> QED BY <1>4, <1>5, <1>6, <1>7, <1>8, <1>9, <1>10 DEF ServedShaped

\* Serving a call keeps what is known.
LEMMA ServeIsGrounded ==
  ASSUME NEW s, NEW g, NEW r, NEW cs, NEW fr, Grounded(s, g, r, cs, fr),
         DOMAIN r \subseteq Ids, \A x \in DOMAIN r : r[x] \in Row,
         NEW k \in DOMAIN cs, cs[k].req.id \in Ids,
         NEW v, ServedShaped(r, cs[k].req, v),
         NEW ds, CallServed(cs, ds, k, IF v.ok THEN "ok" ELSE "refused", v.answer)
  PROVE  Grounded(s, g, v.rows, ds, fr)
<1> DEFINE c == cs[k].req
           st == IF v.ok THEN "ok" ELSE "refused"
<1>1. \A m \in DOMAIN cs : CallGrounded(cs[m], g, r, fr)
  BY DEF Grounded
<1>2. Whole(r) /\ Avoids(r, fr) /\ Placed(c) /\ IdsOf(c) \cap fr = {}
  BY <1>1 DEF Grounded, CallGrounded
<1>3. /\ Whole(v.rows) /\ Avoids(v.rows, fr)
      /\ Laid(v.answer) /\ Avoids(v.answer, fr)
      /\ \A y \in DOMAIN v.rows : y \in DOMAIN r \/ (c.op = "create" /\ y \in IdsOf(c))
  BY <1>2, ServedIsWhole
<1>4. cs[k].state = "sent"
  BY DEF CallServed
<1>5. c.op = "create" => IdsOf(c) \cap (g \cup DOMAIN r) = {}
  BY <1>1, <1>4 DEF CallGrounded, Unborn
<1>6. g \cap (fr \cup DOMAIN v.rows) = {}
  BY <1>3, <1>5 DEF Grounded
<1>7. ASSUME NEW m \in DOMAIN cs, m # k
      PROVE  CallGrounded(cs[m], g, v.rows, fr)
  <2>1. Unborn(cs[m]) => cs[m].req.op = "create" /\ IdsOf(cs[m].req) \cap (g \cup DOMAIN r) = {}
    BY <1>1 DEF CallGrounded, Unborn
  <2>2. Unborn(cs[m]) /\ c.op = "create" => IdsOf(cs[m].req) \cap IdsOf(c) = {}
    BY <1>7, <2>1 DEF Grounded, Share
  <2>3. Unborn(cs[m]) => IdsOf(cs[m].req) \cap (g \cup DOMAIN v.rows) = {}
    BY <1>3, <2>1, <2>2
  <2> QED BY <1>1, <2>3 DEF CallGrounded
<1>8. CallGrounded(ds[k], g, v.rows, fr)
  <2>1. ds[k].req = c /\ ds[k].state = st /\ ds[k].answer = v.answer
    BY DEF CallServed
  <2>2. ASSUME Unborn(ds[k]) PROVE IdsOf(c) \cap (g \cup DOMAIN v.rows) = {}
    <3>1. ~v.ok /\ c.op = "create" /\ c.id \in Ranked
      BY <2>1, <2>2 DEF Unborn
    <3>2. c.id \notin Personas
      BY <3>1, TablesApart DEF Ranked
    <3>3. v.rows = r
      BY <3>1, <3>2 DEF ServedShaped
    <3> QED BY <1>5, <3>1, <3>3
  <2>3. CallGrounded(cs[k], g, r, fr)
    BY <1>1
  <2> HIDE DEF c
  <2>4. cs[k].req = c
    BY DEF c
  <2> QED BY <1>3, <2>1, <2>2, <2>3, <2>4 DEF CallGrounded
<1>9. \A m \in DOMAIN ds : CallGrounded(ds[m], g, v.rows, fr)
  BY <1>7, <1>8 DEF CallServed
<1>10. \A m \in DOMAIN ds : m \in DOMAIN cs /\ ds[m].req = cs[m].req
  BY DEF CallServed
<1>11. \A m, n \in DOMAIN ds :
        m # n /\ ds[m].req.op = "create" /\ ds[n].req.op = "create" =>
          ~Share(ds[m].req, ds[n].req)
  BY <1>10 DEF Grounded
<1> QED BY <1>3, <1>6, <1>9, <1>11 DEF Grounded

\* So does refusing it,
LEMMA RefuseIsGrounded ==
  ASSUME NEW s, NEW g, NEW r, NEW cs, NEW fr, Grounded(s, g, r, cs, fr),
         NEW k \in DOMAIN cs, NEW ds, CallServed(cs, ds, k, "refused", cs[k].answer)
  PROVE  Grounded(s, g, r, ds, fr)
<1>1. \A m \in DOMAIN ds : m \in DOMAIN cs /\ ds[m].req = cs[m].req /\ ds[m].answer = cs[m].answer
  BY DEF CallServed
<1>2. \A m \in DOMAIN ds : Unborn(ds[m]) => Unborn(cs[m])
  BY DEF CallServed, Unborn
<1>3. \A m \in DOMAIN ds : CallGrounded(ds[m], g, r, fr)
  BY <1>1, <1>2 DEF Grounded, CallGrounded
<1> QED BY <1>1, <1>3 DEF Grounded

\* and what others delete.
LEMMA ElsewhereIsGrounded ==
  ASSUME NEW s, NEW g, NEW r, NEW cs, NEW fr, Grounded(s, g, r, cs, fr),
         DOMAIN r \subseteq Ids, NEW x \in DOMAIN r
  PROVE  Grounded(s, g \cup {x}, Deleted(r, x), cs, fr)
<1> DEFINE d == Deleted(r, x)
           h == g \cup {x}
<1>1. Whole(r) /\ Avoids(r, fr) /\ g \cap (fr \cup DOMAIN r) = {}
  BY DEF Grounded
<1>2. /\ DOMAIN d \subseteq DOMAIN r \ {x} /\ Whole(d)
      /\ \A y \in DOMAIN d : Parents(d, y) = Parents(r, y)
  BY <1>1, DeletedLooks
<1>3. x \in DOMAIN r /\ h = g \cup {x}
  OBVIOUS
<1> HIDE DEF d, h
<1>4. Avoids(d, fr) /\ h \cap (fr \cup DOMAIN d) = {}
  BY <1>1, <1>2, <1>3 DEF Avoids
<1>5. \A k \in DOMAIN cs : CallGrounded(cs[k], h, d, fr)
  <2>1. h \cup DOMAIN d \subseteq g \cup DOMAIN r
    BY <1>2, <1>3
  <2> QED BY <2>1 DEF Grounded, CallGrounded
<1>6. Grounded(s, h, d, cs, fr)
  BY <1>2, <1>4, <1>5 DEF Grounded
<1> QED BY <1>6 DEF h, d

-----------------------------------------------------------------------------
(* Steps                                                                   *)

\* The steps of the page: a form is filled,
FormStep(c) ==
  /\ page = "board" /\ FormShaped(store, fresh, store', c)
  /\ fresh' = IF c.op = "create" THEN fresh \ IdsOf(c) ELSE fresh
  /\ page' = IF DOMAIN store' \cap Projects = {} THEN "projects" ELSE "board"
  /\ \/ mode = "demo" /\ calls' = calls /\ why' = why
     \/ /\ mode # "demo" /\ CallComes(calls, calls', Number, c)
        /\ why' = why \cup Troubles(c)
  /\ Number' = Number + 1
  /\ UNCHANGED <<rows, mount, mode, gone>>

\* or a project is opened;
OpenStep(p) ==
  /\ p \in DOMAIN store \cap Projects /\ mode # "demo"
  /\ page' = "loading" /\ mount' = Number
  /\ CallComes(calls, calls', Number, Get(p))
  /\ why' = IF Calls = {} THEN why \cap {"project"} ELSE why \cup {"reload"}
  /\ Number' = Number + 1
  /\ UNCHANGED <<store, rows, mode, fresh, gone>>

\* of the network: a call is served,
ServeStep(k, v) ==
  /\ v = Served(rows, calls[k].req) /\ ServedShaped(rows, calls[k].req, v)
  /\ rows' = v.rows
  /\ CallServed(calls, calls', k, IF v.ok THEN "ok" ELSE "refused", v.answer)
  /\ Number' = Number
  /\ UNCHANGED <<store, page, mount, mode, fresh, gone, why>>

\* refused,
RefuseStep(k) ==
  /\ CallServed(calls, calls', k, "refused", calls[k].answer)
  /\ Number' = Number
  /\ UNCHANGED <<store, rows, page, mount, mode, fresh, gone, why>>

\* or lost;
LoseStep(k) ==
  /\ CallGone(calls, calls', k)
  /\ why' = Amiss(k, {"lost"})
  /\ Number' = Number
  /\ UNCHANGED <<store, rows, page, mount, mode, fresh, gone>>

\* an answer comes,
AnswerStep(k, alert) ==
  /\ AnswerShaped(calls[k], store, store', alert)
  /\ CallGone(calls, calls', k)
  /\ why' = Amiss(k, (IF alert THEN {"alert"} ELSE {})
                       \cup (IF Reversed(k) THEN {"reversed"} ELSE {}))
  /\ Number' = Number
  /\ UNCHANGED <<rows, page, mount, mode, fresh, gone>>

\* What a load makes of the store: a is the answer.
LoadShaped(s, a, t) ==
  /\ \A x : x \in DOMAIN t <=> IF x \in Projects THEN x \in DOMAIN s ELSE x \in DOMAIN a
  /\ \A x \in DOMAIN t : t[x] = IF x \in Projects THEN s[x] ELSE a[x]

\* or a load;
LoadStep(k) ==
  /\ calls[k].req.op = "get" /\ calls[k].state # "sent"
  /\ IF calls[k].state = "ok"
     THEN /\ LoadShaped(store, calls[k].answer, store')
          /\ page' = IF page = "loading" /\ mount = k THEN "board" ELSE page
     ELSE UNCHANGED <<store, page>>
  /\ CallGone(calls, calls', k)
  /\ Number' = Number
  /\ UNCHANGED <<rows, mount, mode, fresh, gone, why>>

\* others delete a row,
ElsewhereStep(x) ==
  /\ x \in DOMAIN rows \ Projects
  /\ rows' = Deleted(rows, x) /\ gone' = gone \cup {x}
  /\ why' = why \cup {"elsewhere"}
  /\ Number' = Number
  /\ UNCHANGED <<store, calls, page, mount, mode, fresh>>

\* or nothing happens.
IdleStep ==
  /\ UNCHANGED <<store, rows, calls, page, mount, mode, fresh, gone, why>>
  /\ Number' = Number

\* Every step is one of these.
Stepped ==
  \/ \E c : FormStep(c)
  \/ \E p : OpenStep(p)
  \/ \E k \in DOMAIN calls :
       \/ \E v : ServeStep(k, v)
       \/ RefuseStep(k) \/ LoseStep(k) \/ LoadStep(k)
       \/ \E alert \in BOOLEAN : AnswerStep(k, alert)
  \/ \E x : ElsewhereStep(x)
  \/ IdleStep

\* A call that comes is numbered, and no other step counts.
LEMMA NumbersGrow ==
  ASSUME Inv
  PROVE  /\ left' = left => Number' = Number
         /\ left' = [left EXCEPT !.faults = @ - 1] => Number' = Number
         /\ left' = [left EXCEPT !.edits = @ - 1] => Number' = Number + 1
         /\ left' = [left EXCEPT !.loads = @ - 1] => Number' = Number + 1
<1>1. /\ left \in [edits : 0 .. MaxEdits, loads : 0 .. MaxLoads, faults : 0 .. MaxFaults]
      /\ MaxEdits \in Nat /\ MaxLoads \in Nat
  BY NetAssumption DEF Inv, TypeOK
<1> QED BY <1>1 DEF Number

\* A load replaces all slices but the projects.
LEMMA LoadLooks ==
  \A s, a : DOMAIN s \subseteq Ids /\ DOMAIN a \subseteq Ids =>
    LoadShaped(s, a, Dispatched(s, Act("load", Tables \ {Projects}, a)))
<1> SUFFICES ASSUME NEW s, NEW a, DOMAIN s \subseteq Ids, DOMAIN a \subseteq Ids
             PROVE  LoadShaped(s, a, Dispatched(s, Act("load", Tables \ {Projects}, a)))
  OBVIOUS
<1>1. \A t : t = Dispatched(s, Act("load", Tables \ {Projects}, a)) =>
        /\ \A x : x \in DOMAIN t <=> IF x \in Projects THEN x \in DOMAIN s ELSE x \in DOMAIN a
        /\ \A x \in DOMAIN t : t[x] = IF x \in Projects THEN s[x] ELSE a[x]
  BY LoadsAll, Zenon
<1>2. \A t : t = Dispatched(s, Act("load", Tables \ {Projects}, a)) => LoadShaped(s, a, t)
  BY <1>1 DEF LoadShaped
<1> QED BY <1>2

\* So does the one that is under way.
LEMMA LoadIsShaped ==
  ASSUME Inv, Ground, NEW k \in DOMAIN calls,
         store' = Dispatched(store, Act("load", Tables \ {Projects}, calls[k].answer))
  PROVE  LoadShaped(store, calls[k].answer, store')
<1>1. DOMAIN store \subseteq Ids /\ DOMAIN calls[k].answer \subseteq Ids
  BY DEF Ground, Grounded, CallGrounded, Laid
<1> QED BY <1>1, LoadLooks

\* Every step of Next is one of those above.
LEMMA StepIsShaped ==
  ASSUME Inv, Ground, Ordered, [Next]_vars
  PROVE  Stepped
<1>1. CASE FormFilled
  <2>1. Shaped
    BY <1>1, FormIsShaped
  <2>2. PICK s, c : FormShaped(store, fresh, s, c) /\ Submit(s, c)
    BY <2>1 DEF Shaped
  <2>3. /\ CanEdit /\ page = "board" /\ store' = s
        /\ page' = IF DOMAIN s \cap Projects = {} THEN "projects" ELSE "board"
        /\ calls' = IF mode = "demo" THEN calls ELSE WithCall(c)
        /\ why' = IF mode = "demo" THEN why ELSE why \cup Troubles(c)
        /\ fresh' = IF c.op = "create" THEN fresh \ IdsOf(c) ELSE fresh
        /\ left' = [left EXCEPT !.edits = @ - 1]
        /\ UNCHANGED <<rows, mount, mode, gone>>
    BY <2>2 DEF Submit, CanEdit
  <2>4. mode # "demo" => CallComes(calls, calls', Number, c)
    BY <2>3, CallIsAdded
  <2>5. Number' = Number + 1
    BY <2>3, NumbersGrow
  <2>6. FormStep(c)
    BY <2>2, <2>3, <2>4, <2>5 DEF FormStep
  <2> QED BY <2>6 DEF Stepped
<1>2. CASE \E p \in Projects : OpenProject(p)
  <2>1. PICK p \in Projects : OpenProject(p)
    BY <1>2
  <2>2. calls' = WithCall(Get(p)) /\ left' = [left EXCEPT !.loads = @ - 1]
    BY <2>1 DEF OpenProject
  <2>3. CallComes(calls, calls', Number, Get(p)) /\ Number' = Number + 1
    BY <2>2, CallIsAdded, NumbersGrow
  <2>4. OpenStep(p)
    BY <2>1, <2>3 DEF OpenStep, OpenProject
  <2> QED BY <2>4 DEF Stepped
<1>3. ASSUME NEW k \in DOMAIN calls, Serve(k) PROVE Stepped
  <2> DEFINE v == Served(rows, calls[k].req)
  <2>1. Placed(calls[k].req) /\ calls[k].req.op \in Ops
    BY DEF Ground, Grounded, CallGrounded, Inv, TypeOK, RequestType
  <2>2. ServedShaped(rows, calls[k].req, v)
    BY <2>1, ServedHasShape
  <2>3. /\ calls[k].state = "sent" /\ rows' = v.rows
        /\ calls' = [calls EXCEPT ![k].state = IF v.ok THEN "ok" ELSE "refused",
                                  ![k].turn = Latest, ![k].answer = v.answer]
        /\ UNCHANGED <<store, page, mount, mode, fresh, gone, why, left>>
    BY <1>3 DEF Serve
  <2>4. Number' = Number
    BY <2>3, NumbersGrow
  <2> HIDE DEF v
  <2>5. CallServed(calls, calls', k, IF v.ok THEN "ok" ELSE "refused", v.answer)
    BY <2>3, CallIsServed
  <2>6. v = Served(rows, calls[k].req)
    BY DEF v
  <2>7. ServeStep(k, v)
    BY <2>2, <2>3, <2>4, <2>5, <2>6 DEF ServeStep
  <2> QED BY <2>7 DEF Stepped
<1>4. ASSUME NEW k \in DOMAIN calls, Refuse(k) PROVE Stepped
  <2>1. /\ calls[k].state = "sent"
        /\ calls' = [calls EXCEPT ![k].state = "refused", ![k].turn = Latest]
        /\ left' = [left EXCEPT !.faults = @ - 1]
        /\ UNCHANGED <<store, rows, page, mount, mode, fresh, gone, why>>
    BY <1>4 DEF Refuse
  <2>2. calls[k] = [req |-> calls[k].req, state |-> calls[k].state, turn |-> calls[k].turn,
                    answer |-> calls[k].answer]
    BY InvHasParts DEF Parts, CallsFit, CallFits
  <2>3. calls' = [calls EXCEPT ![k].state = "refused", ![k].turn = Latest,
                               ![k].answer = calls[k].answer]
    BY <2>1, <2>2
  <2>4. CallServed(calls, calls', k, "refused", calls[k].answer)
    BY <2>1, <2>3, CallIsServed
  <2>5. RefuseStep(k)
    BY <2>1, <2>4, NumbersGrow DEF RefuseStep
  <2> QED BY <2>5 DEF Stepped
<1>5. ASSUME NEW k \in DOMAIN calls, Lose(k) PROVE Stepped
  <2>1. /\ calls' = WithoutCall(k) /\ why' = Amiss(k, {"lost"})
        /\ left' = [left EXCEPT !.faults = @ - 1]
        /\ UNCHANGED <<store, rows, page, mount, mode, fresh, gone>>
    BY <1>5 DEF Lose
  <2>2. LoseStep(k)
    BY <2>1, CallIsGone, NumbersGrow DEF LoseStep
  <2> QED BY <2>2 DEF Stepped
<1>6. ASSUME NEW k \in DOMAIN calls, AnswerArrives(k) PROVE Stepped
  <2>1. Placed(calls[k].req)
    BY DEF Ground, Grounded, CallGrounded
  <2>2. CASE \E t, alert : AnswerShaped(calls[k], store, t, alert) /\ Handled(k, t, alert)
    <3>1. PICK t, alert : AnswerShaped(calls[k], store, t, alert) /\ Handled(k, t, alert)
      BY <2>2
    <3>2. /\ store' = t /\ calls' = WithoutCall(k)
          /\ why' = Amiss(k, (IF alert THEN {"alert"} ELSE {})
                               \cup (IF Reversed(k) THEN {"reversed"} ELSE {}))
          /\ UNCHANGED <<rows, page, mount, mode, fresh, gone, left>>
      BY <3>1 DEF Handled
    <3>3. AnswerShaped(calls[k], store, store', alert) /\ CallGone(calls, calls', k)
      BY <3>1, <3>2, CallIsGone
    <3>4. ~alert \/ alert
      OBVIOUS
    <3>5. CASE alert
      <4>1. AnswerStep(k, TRUE)
        BY <3>2, <3>3, <3>5, NumbersGrow DEF AnswerStep, AnswerShaped
      <4> QED BY <4>1 DEF Stepped
    <3>6. CASE ~alert
      <4>1. AnswerStep(k, FALSE)
        BY <3>2, <3>3, <3>6, NumbersGrow DEF AnswerStep, AnswerShaped
      <4> QED BY <4>1 DEF Stepped
    <3> QED BY <3>5, <3>6
  <2>3. CASE LoadAnswered(k)
    <3>1. calls' = WithoutCall(k) /\ left' = left
      BY <2>3 DEF LoadAnswered
    <3>2. CallGone(calls, calls', k) /\ Number' = Number
      BY <3>1, CallIsGone, NumbersGrow
    <3>3. calls[k].state = "ok" => LoadShaped(store, calls[k].answer, store')
      BY <2>3, LoadIsShaped DEF LoadAnswered
    <3>4. LoadStep(k)
      BY <2>3, <3>2, <3>3 DEF LoadStep, LoadAnswered, Answered
    <3> QED BY <3>4 DEF Stepped
  <2> QED BY <1>6, <2>1, <2>2, <2>3, AnswerIsShaped
<1>7. ASSUME NEW x \in Ids, DeletedElsewhere(x) PROVE Stepped
  <2>1. ElsewhereStep(x)
    BY <1>7, NumbersGrow DEF ElsewhereStep, DeletedElsewhere
  <2> QED BY <2>1 DEF Stepped
<1>8. CASE UNCHANGED vars
  BY <1>8, NumbersGrow DEF vars, Stepped, IdleStep
<1> QED BY <1>1, <1>2, <1>3, <1>4, <1>5, <1>6, <1>7, <1>8 DEF Next

-----------------------------------------------------------------------------
(* Ground is kept                                                          *)

\* What Inv says of the two stores and the calls.
LEMMA StoresAreTyped ==
  ASSUME Inv
  PROVE  /\ DOMAIN store \subseteq Ids /\ \A x \in DOMAIN store : store[x] \in Row
         /\ DOMAIN rows \subseteq Ids /\ \A x \in DOMAIN rows : rows[x] \in Row
         /\ fresh \subseteq Ids /\ gone \subseteq Ids
         /\ \A k \in DOMAIN calls :
              /\ calls[k].req \in RequestType /\ calls[k].req.id \in Ids
              /\ calls[k].req.op \in Ops
              /\ calls[k].state \in {"sent", "ok", "refused"} /\ calls[k].turn \in Nat
              /\ \A x \in DOMAIN calls[k].answer : x \in Ids /\ calls[k].answer[x] \in Row
              /\ calls[k].state = "ok" /\ Put(calls[k].req) =>
                   calls[k].req.id \in DOMAIN calls[k].answer
BY InvHasParts, TablesApart
   DEF Inv, TypeOK, RequestType, Parts, CallsFit, CallFits, Brings, Put, Ranked

\* No step loses the ground.
LEMMA StepKeepsGround ==
  ASSUME Inv, Ground, Ordered, Stepped
  PROVE  Grounded(store', gone', rows', calls', fresh')
<1>1. Grounded(store, gone, rows, calls, fresh) /\ Laid(store) /\ Avoids(store, fresh)
  BY DEF Ground, Grounded
<1>2. ASSUME NEW c, FormStep(c) PROVE Grounded(store', gone', rows', calls', fresh')
  <2>1. /\ FormShaped(store, fresh, store', c) /\ rows' = rows /\ gone' = gone
        /\ fresh' = IF c.op = "create" THEN fresh \ IdsOf(c) ELSE fresh
        /\ calls' = calls \/ CallComes(calls, calls', Number, c)
    BY <1>2 DEF FormStep
  <2>2. PICK ds : CallComes(calls, ds, Number, c) /\ (calls' = calls \/ ds = calls')
    <3>1. CallComes(calls, WithCall(c), Number, c)
      BY CallIsAdded
    <3> QED BY <2>1, <3>1
  <2>3. PICK fr2 : fr2 = fresh'
    OBVIOUS
  <2>4. PICK t : t = store'
    OBVIOUS
  <2>5. FormShaped(store, fresh, t, c) /\ fr2 = IF c.op = "create" THEN fresh \ IdsOf(c) ELSE fresh
    BY <2>1, <2>3, <2>4
  <2>6. Grounded(t, gone, rows, calls, fr2) /\ Grounded(t, gone, rows, ds, fr2)
    BY <1>1, <2>2, <2>5, StoresAreTyped, FormIsGrounded
  <2> QED BY <2>1, <2>2, <2>3, <2>4, <2>6
<1>3. ASSUME NEW p, OpenStep(p) PROVE Grounded(store', gone', rows', calls', fresh')
  <2>1. Grounded(store, gone, rows, calls', fresh)
    BY <1>1, <1>3, GetIsGrounded DEF OpenStep
  <2> QED BY <1>3, <2>1 DEF OpenStep
<1>4. ASSUME NEW k \in DOMAIN calls, NEW v, ServeStep(k, v)
      PROVE  Grounded(store', gone', rows', calls', fresh')
  <2>1. Grounded(store, gone, v.rows, calls', fresh)
    BY <1>1, <1>4, StoresAreTyped, ServeIsGrounded DEF ServeStep
  <2> QED BY <1>4, <2>1 DEF ServeStep
<1>5. ASSUME NEW k \in DOMAIN calls, RefuseStep(k)
      PROVE  Grounded(store', gone', rows', calls', fresh')
  <2>1. Grounded(store, gone, rows, calls', fresh)
    BY <1>1, <1>5, RefuseIsGrounded DEF RefuseStep
  <2> QED BY <1>5, <2>1 DEF RefuseStep
<1>6. ASSUME NEW k \in DOMAIN calls, CallGone(calls, calls', k),
             Laid(store'), Avoids(store', fresh), UNCHANGED <<rows, fresh, gone>>
      PROVE  Grounded(store', gone', rows', calls', fresh')
  <2>1. Grounded(store', gone, rows, calls', fresh)
    BY <1>1, <1>6, FewerIsGrounded
  <2> QED BY <1>6, <2>1
<1>7. ASSUME NEW k \in DOMAIN calls, LoseStep(k)
      PROVE  Grounded(store', gone', rows', calls', fresh')
  <2>1. store' = store
    BY <1>7 DEF LoseStep
  <2>2. Laid(store') /\ Avoids(store', fresh)
    BY <1>1, <2>1
  <2> QED BY <1>6, <1>7, <2>2 DEF LoseStep
<1>8. ASSUME NEW k \in DOMAIN calls, NEW alert, AnswerStep(k, alert)
      PROVE  Grounded(store', gone', rows', calls', fresh')
  <2>1. Laid(calls[k].answer) /\ Avoids(calls[k].answer, fresh)
    BY <1>1 DEF Grounded, CallGrounded
  <2>2. AnswerShaped(calls[k], store, store', alert)
    BY <1>8 DEF AnswerStep
  <2>3. Laid(store') /\ Avoids(store', fresh)
    BY <1>1, <2>1, <2>2, StoresAreTyped, AnswerIsLaid
  <2> QED BY <1>6, <1>8, <2>3 DEF AnswerStep
<1>9. ASSUME NEW k \in DOMAIN calls, LoadStep(k)
      PROVE  Grounded(store', gone', rows', calls', fresh')
  <2> DEFINE a == calls[k].answer
  <2>1. Laid(a) /\ Avoids(a, fresh)
    BY <1>1 DEF Grounded, CallGrounded
  <2>2. store' = store \/ LoadShaped(store, a, store')
    BY <1>9 DEF LoadStep
  <2>3. ASSUME NEW t, LoadShaped(store, a, t) PROVE Laid(t) /\ Avoids(t, fresh)
    <3>1. \A x \in DOMAIN t : \/ x \in DOMAIN store /\ Parents(t, x) = Parents(store, x)
                              \/ x \in DOMAIN a /\ Parents(t, x) = Parents(a, x)
      BY <2>3 DEF Parents, LoadShaped
    <3> HIDE DEF a
    <3> QED BY <1>1, <2>1, <3>1 DEF Laid, Avoids
  <2>4. Laid(store') /\ Avoids(store', fresh)
    <3>1. CASE store' = store
      BY <1>1, <3>1
    <3>2. CASE LoadShaped(store, a, store')
      BY <2>3, <3>2
    <3> QED BY <2>2, <3>1, <3>2
  <2> QED BY <1>6, <1>9, <2>4 DEF LoadStep
<1>10. ASSUME NEW x, ElsewhereStep(x)
       PROVE  Grounded(store', gone', rows', calls', fresh')
  <2>1. Grounded(store, gone \cup {x}, Deleted(rows, x), calls, fresh)
    BY <1>1, <1>10, StoresAreTyped, ElsewhereIsGrounded DEF ElsewhereStep
  <2> QED BY <1>10, <2>1 DEF ElsewhereStep
<1>11. ASSUME IdleStep PROVE Grounded(store', gone', rows', calls', fresh')
  BY <1>1, <1>11 DEF IdleStep
<1> QED BY <1>2, <1>3, <1>4, <1>5, <1>7, <1>8, <1>9, <1>10, <1>11 DEF Stepped

\* The project is there when the page is opened.
LEMMA InitIsGrounded ==
  ASSUME Init
  PROVE  Ground
<1>1. /\ Whole(Start) /\ DOMAIN Start \subseteq Ids /\ store = Start /\ rows = Start
      /\ DOMAIN calls = {} /\ gone = {} /\ fresh = Ids \ DOMAIN Start
  BY NetAssumption DEF Init
<1>2. Laid(Start) /\ Avoids(Start, fresh)
  BY <1>1 DEF Laid, Avoids, Whole
<1> QED BY <1>1, <1>2 DEF Ground, Grounded

-----------------------------------------------------------------------------
(* Ordered, Marks and ProjectsIn are kept                                  *)

\* Calls stay in order.
LEMMA StepKeepsOrdered ==
  ASSUME Inv, Ordered, Stepped
  PROVE  TurnsDiffer(calls') /\ \A k \in DOMAIN calls' : k < Number'
<1>1. /\ Number \in Nat /\ DOMAIN calls \subseteq Nat
      /\ TurnsDiffer(calls) /\ \A k \in DOMAIN calls : k < Number
  BY NetAssumption, InvHasParts DEF Parts, LeftBounds, Number, CallsFit, Ordered
<1>2. ASSUME NEW c, CallComes(calls, calls', Number, c), Number' = Number + 1
      PROVE  TurnsDiffer(calls') /\ \A k \in DOMAIN calls' : k < Number'
  <2>1. calls'[Number].state = "sent"
    BY <1>2 DEF CallComes, SentCall
  <2> QED BY <1>1, <1>2, <2>1 DEF CallComes, TurnsDiffer
<1>3. ASSUME NEW k, CallGone(calls, calls', k), Number' = Number
      PROVE  TurnsDiffer(calls') /\ \A m \in DOMAIN calls' : m < Number'
  BY <1>1, <1>3 DEF CallGone, TurnsDiffer
<1>4. ASSUME NEW k, NEW state, NEW answer, CallServed(calls, calls', k, state, answer),
             Number' = Number
      PROVE  TurnsDiffer(calls') /\ \A m \in DOMAIN calls' : m < Number'
  BY <1>1, <1>4 DEF CallServed, TurnsDiffer
<1>5. ASSUME calls' = calls, Number' = Number \/ Number' = Number + 1
      PROVE  TurnsDiffer(calls') /\ \A m \in DOMAIN calls' : m < Number'
  BY <1>1, <1>5
<1>6. ASSUME NEW c, FormStep(c)
      PROVE  TurnsDiffer(calls') /\ \A m \in DOMAIN calls' : m < Number'
  BY <1>2, <1>5, <1>6 DEF FormStep
<1>7. ASSUME NEW p, OpenStep(p)
      PROVE  TurnsDiffer(calls') /\ \A m \in DOMAIN calls' : m < Number'
  BY <1>2, <1>7 DEF OpenStep
<1>8. ASSUME NEW k \in DOMAIN calls,
             (\E v : ServeStep(k, v)) \/ RefuseStep(k)
      PROVE  TurnsDiffer(calls') /\ \A m \in DOMAIN calls' : m < Number'
  BY <1>4, <1>8 DEF ServeStep, RefuseStep
<1>9. ASSUME NEW k \in DOMAIN calls,
             LoseStep(k) \/ LoadStep(k) \/ \E alert \in BOOLEAN : AnswerStep(k, alert)
      PROVE  TurnsDiffer(calls') /\ \A m \in DOMAIN calls' : m < Number'
  BY <1>3, <1>9 DEF LoseStep, LoadStep, AnswerStep
<1>10. ASSUME IdleStep \/ \E x : ElsewhereStep(x)
       PROVE  TurnsDiffer(calls') /\ \A m \in DOMAIN calls' : m < Number'
  BY <1>5, <1>10 DEF IdleStep, ElsewhereStep
<1> QED BY <1>6, <1>7, <1>8, <1>9, <1>10 DEF Stepped

\* The marks that a form earns.
LEMMA TroublesAre ==
  ASSUME NEW c
  PROVE  /\ "hasty" \in Troubles(c) <=>
              c.op = "delete" /\ \E k \in DOMAIN calls : /\ Share(calls[k].req, c)
                                                         /\ calls[k].req.op = "create"
         /\ "blind" \in Troubles(c) <=>
              c.op # "delete" /\ \E k \in DOMAIN calls : /\ Share(calls[k].req, c)
                                                         /\ Blind(calls[k].req) \/ Blind(c)
         /\ "moved" \in Troubles(c) <=>
              \E k \in DOMAIN calls : "move" \in {calls[k].req.op, c.op}
         /\ Troubles(c) \subseteq {"hasty", "blind", "moved"}
BY DEF Troubles, Share, Calls

\* Fewer calls, or more marks, earn no mark.
LEMMA FewerAreMarked ==
  ASSUME NEW cs, NEW y, NEW pg, NEW m, Marked(cs, y, pg, m),
         NEW ds, \A k \in DOMAIN ds : k \in DOMAIN cs /\ ds[k].req = cs[k].req,
         NEW z, y \subseteq z,
         NEW qg, qg = "loading" => pg = "loading",
         qg = pg \/ \A k \in DOMAIN ds : ds[k].req.op = "get" => "reload" \in z
  PROVE  Marked(ds, z, qg, m)
<1>1. z \cap {"hasty", "reload"} = {} => NoneHasty(ds)
  BY DEF Marked, NoneHasty
<1>2. z \cap {"blind", "reload"} = {} => BlindAlone(ds)
  BY DEF Marked, BlindAlone
<1>3. z \cap {"moved", "reload"} = {} => MoveAlone(ds)
  BY DEF Marked, MoveAlone
<1>4. "reload" \notin z => GetAlone(ds, qg, m)
  BY DEF Marked, GetAlone
<1>5. "reload" \notin z /\ qg = "loading" => OnlyGets(ds)
  BY DEF Marked, OnlyGets
<1> QED BY <1>1, <1>2, <1>3, <1>4, <1>5 DEF Marked

\* What a form calls is no load.
LEMMA FormOps ==
  ASSUME NEW s, NEW fr, NEW t, NEW c, FormShaped(s, fr, t, c)
  PROVE  /\ c.op # "get"
         /\ c.op = "create" <=> Making(s, fr, t, c)
         /\ c.op = "move" <=> Moving(s, t, c)
         /\ c.op \in Edits <=> Editing(s, t, c)
         /\ c.op = "delete" <=> Deleting(s, t, c)
BY OpsApart DEF FormShaped, Making, Moving, Editing, Deleting

\* A form earns the marks it is given,
LEMMA FormIsMarked ==
  ASSUME Ground, NEW y, NEW m, NEW pg, Marked(calls, y, pg, m), pg # "loading",
         NEW t, NEW c, FormShaped(store, fresh, t, c),
         NEW n, NEW ds, CallComes(calls, ds, n, c), NEW qg, qg # "loading"
  PROVE  Marked(ds, y \cup Troubles(c), qg, m)
<1> DEFINE z == y \cup Troubles(c)
<1>1. /\ \A k \in DOMAIN ds : (k \in DOMAIN calls /\ ds[k].req = calls[k].req) \/ k = n
      /\ ds[n].req = c
  BY DEF CallComes, SentCall
<1>2. ASSUME c.op = "create", NEW k \in DOMAIN calls PROVE ~Share(c, calls[k].req)
  <2>1. IdsOf(c) \subseteq fresh
    BY <1>2, FormOps DEF Making
  <2> QED BY <2>1 DEF Share, Ground, Grounded, CallGrounded
<1>3. \A a, b : Share(a, b) <=> Share(b, a)
  BY DEF Share
<1>4. z \cap {"hasty", "reload"} = {} => NoneHasty(ds)
  <2> SUFFICES ASSUME z \cap {"hasty", "reload"} = {}, NEW j \in DOMAIN ds, NEW k \in DOMAIN ds,
                      ds[j].req.op = "create", ds[k].req.op = "delete"
               PROVE  ~Share(ds[j].req, ds[k].req)
    BY DEF NoneHasty
  <2>1. NoneHasty(calls)
    BY DEF Marked
  <2>2. "hasty" \notin Troubles(c)
    OBVIOUS
  <2>3. CASE j = n
    BY <1>1, <1>2, <2>3
  <2>4. CASE j # n /\ k = n
    BY <1>1, <2>2, <2>4, TroublesAre
  <2>5. CASE j # n /\ k # n
    BY <1>1, <2>1, <2>5 DEF NoneHasty
  <2> QED BY <2>3, <2>4, <2>5
<1>5. z \cap {"blind", "reload"} = {} => BlindAlone(ds)
  <2> SUFFICES ASSUME z \cap {"blind", "reload"} = {}, NEW j \in DOMAIN ds, NEW k \in DOMAIN ds,
                      j # k, Blind(ds[j].req), Share(ds[j].req, ds[k].req)
               PROVE  ds[k].req.op = "delete"
    BY DEF BlindAlone
  <2>1. BlindAlone(calls)
    BY DEF Marked
  <2>2. "blind" \notin Troubles(c)
    OBVIOUS
  <2>3. CASE j = n
    <3>1. c.op # "delete"
      BY <1>1, <2>3 DEF Blind
    <3> QED BY <1>1, <1>3, <2>2, <2>3, <3>1, TroublesAre
  <2>4. CASE j # n /\ k = n
    BY <1>1, <2>2, <2>4, TroublesAre
  <2>5. CASE j # n /\ k # n
    BY <1>1, <2>1, <2>5 DEF BlindAlone
  <2> QED BY <2>3, <2>4, <2>5
<1>6. z \cap {"moved", "reload"} = {} => MoveAlone(ds)
  <2> SUFFICES ASSUME z \cap {"moved", "reload"} = {}, NEW j \in DOMAIN ds,
                      ds[j].req.op = "move"
               PROVE  DOMAIN ds = {j}
    BY DEF MoveAlone
  <2>1. "moved" \notin Troubles(c)
    OBVIOUS
  <2>2. \A k \in DOMAIN calls : calls[k].req.op # "move" /\ c.op # "move"
    BY <2>1, TroublesAre
  <2>3. j = n
    BY <1>1, <2>2
  <2>4. DOMAIN calls = {}
    BY <1>1, <2>2, <2>3
  <2> QED BY <2>3, <2>4 DEF CallComes
<1>7. "reload" \notin z => GetAlone(ds, qg, m)
  <2>1. "reload" \notin z => \A k \in DOMAIN calls : calls[k].req.op # "get"
    BY DEF Marked, GetAlone
  <2>2. c.op # "get"
    BY FormOps
  <2> QED BY <1>1, <2>1, <2>2 DEF GetAlone
<1> QED BY <1>4, <1>5, <1>6, <1>7 DEF Marked

\* and so does the page that is opened.
LEMMA OpenIsMarked ==
  ASSUME NEW p, NEW n, NEW ds, CallComes(calls, ds, n, Get(p)),
         NEW z, "reload" \in z \/ DOMAIN calls = {}
  PROVE  Marked(ds, z, "loading", n)
<1>1. CASE "reload" \in z
  BY <1>1 DEF Marked
<1>2. CASE DOMAIN calls = {}
  <2>1. DOMAIN ds = {n} /\ ds[n].req.op = "get"
    BY <1>2 DEF CallComes, SentCall, Get, Request
  <2> QED BY <2>1 DEF Marked, NoneHasty, BlindAlone, MoveAlone, GetAlone, OnlyGets
<1> QED BY <1>1, <1>2

\* No step leaves out a mark.
LEMMA StepKeepsMarks ==
  ASSUME Inv, Ground, Marks, Stepped
  PROVE  Marked(calls', why', page', mount')
<1>1. Marked(calls, why, page, mount)
  BY DEF Marks
<1>2. ASSUME NEW c, FormStep(c) PROVE Marked(calls', why', page', mount')
  <2>1. CASE calls' = calls /\ why' = why
    <3>1. page # "loading" /\ page' # "loading" /\ mount' = mount
      BY <1>2 DEF FormStep
    <3>2. \A k \in DOMAIN calls : calls[k].req.op = "get" => "reload" \in why
      BY <1>1, <3>1 DEF Marked, GetAlone
    <3>3. PICK qg : qg = page'
      OBVIOUS
    <3>4. Marked(calls, why, qg, mount)
      BY <1>1, <3>1, <3>2, <3>3, FewerAreMarked
    <3> QED BY <2>1, <3>1, <3>3, <3>4
  <2>2. CASE CallComes(calls, calls', Number, c) /\ why' = why \cup Troubles(c)
    <3>1. /\ page # "loading" /\ page' # "loading" /\ mount' = mount
          /\ FormShaped(store, fresh, store', c)
      BY <1>2 DEF FormStep
    <3>2. Marked(calls', why \cup Troubles(c), page', mount)
      BY <1>1, <2>2, <3>1, FormIsMarked
    <3> QED BY <2>2, <3>1, <3>2
  <2> QED BY <1>2, <2>1, <2>2 DEF FormStep
<1>3. ASSUME NEW p, OpenStep(p) PROVE Marked(calls', why', page', mount')
  <2>1. /\ CallComes(calls, calls', Number, Get(p)) /\ page' = "loading" /\ mount' = Number
        /\ "reload" \in why' \/ DOMAIN calls = {}
    BY <1>3 DEF OpenStep, Calls
  <2>2. Marked(calls', why', "loading", Number)
    BY <2>1, OpenIsMarked
  <2> QED BY <2>1, <2>2
<1>4. ASSUME \A k \in DOMAIN calls' : k \in DOMAIN calls /\ calls'[k].req = calls[k].req,
             why \subseteq why', mount' = mount, page' = "loading" => page = "loading",
             page' = page \/ \A k \in DOMAIN calls' : calls'[k].req.op = "get" => "reload" \in why'
      PROVE  Marked(calls', why', page', mount')
  <2>1. PICK ds, z, qg : ds = calls' /\ z = why' /\ qg = page'
    OBVIOUS
  <2>2. Marked(ds, z, qg, mount)
    BY <1>1, <1>4, <2>1, FewerAreMarked
  <2> QED BY <1>4, <2>1, <2>2
<1>5. ASSUME NEW k \in DOMAIN calls, (\E v : ServeStep(k, v)) \/ RefuseStep(k)
      PROVE  Marked(calls', why', page', mount')
  <2>1. \A m \in DOMAIN calls' : m \in DOMAIN calls /\ calls'[m].req = calls[m].req
    BY <1>5 DEF ServeStep, RefuseStep, CallServed
  <2>2. why' = why /\ mount' = mount /\ page' = page
    BY <1>5 DEF ServeStep, RefuseStep
  <2> QED BY <1>4, <2>1, <2>2
<1>6. ASSUME NEW k \in DOMAIN calls, LoseStep(k) \/ \E alert \in BOOLEAN : AnswerStep(k, alert)
      PROVE  Marked(calls', why', page', mount')
  <2>1. \A m \in DOMAIN calls' : m \in DOMAIN calls /\ calls'[m].req = calls[m].req
    BY <1>6 DEF LoseStep, AnswerStep, CallGone
  <2>2. why \subseteq why' /\ mount' = mount /\ page' = page
    BY <1>6 DEF LoseStep, AnswerStep, Amiss
  <2> QED BY <1>4, <2>1, <2>2
<1>7. ASSUME NEW k \in DOMAIN calls, LoadStep(k)
      PROVE  Marked(calls', why', page', mount')
  <2>1. \A m \in DOMAIN calls' : m \in DOMAIN calls /\ m # k /\ calls'[m].req = calls[m].req
    BY <1>7 DEF LoadStep, CallGone
  <2>2. /\ why' = why /\ mount' = mount /\ calls[k].req.op = "get"
        /\ page' = "loading" => page = "loading"
    BY <1>7 DEF LoadStep
  <2>3. "reload" \notin why => DOMAIN calls = {k}
    BY <1>1, <2>2 DEF Marked, GetAlone
  <2> QED BY <1>4, <2>1, <2>2, <2>3
<1>8. ASSUME IdleStep \/ \E x : ElsewhereStep(x)
      PROVE  Marked(calls', why', page', mount')
  <2>1. calls' = calls /\ why \subseteq why' /\ mount' = mount /\ page' = page
    BY <1>8 DEF IdleStep, ElsewhereStep
  <2> QED BY <1>4, <2>1
<1> QED BY <1>2, <1>3, <1>5, <1>6, <1>7, <1>8 DEF Stepped

-----------------------------------------------------------------------------
(* ProjectsIn is kept                                                      *)

\* What ProjectsIn says of the store s and the tables r.
ProjectsAreIn(s, r, cs) ==
  /\ DOMAIN s \cap Projects \subseteq DOMAIN r
  /\ \A k \in DOMAIN cs : cs[k].req.op = "delete" /\ cs[k].req.id \in Projects =>
       cs[k].req.id \notin DOMAIN s

\* No project is deleted with another row.
LEMMA ProjectsStay ==
  ASSUME NEW r, Whole(r), DOMAIN r \subseteq Ids, NEW x, NEW p \in DOMAIN r \cap Projects, p # x
  PROVE  p \in DOMAIN Deleted(r, x)
<1>1. Parents(r, p) = {}
  BY AboveIsHigher DEF Whole
<1> QED BY <1>1, DeletedLooks

\* Forms make no project.
LEMMA FormKeepsProjects ==
  ASSUME NEW s, NEW fr \in SUBSET Ids, NEW t, NEW c, FormShaped(s, fr, t, c),
         \A x \in DOMAIN s : s[x] \in Row
  PROVE  /\ DOMAIN t \cap Projects \subseteq DOMAIN s
         /\ c.op = "delete" => c.id \notin DOMAIN t
<1>1. CASE c.op = "create"
  <2>0. Making(s, fr, t, c)
    BY <1>1, FormOps
  <2>1. IdsOf(c) \subseteq fr /\ DOMAIN t = DOMAIN s \cup IdsOf(c)
    BY <2>0 DEF Making
  <2>2. Placed(c) /\ c.id \in Ids
    BY <2>1 DEF FormShaped, IdsOf
  <2>3. IdsOf(c) \cap Projects = {}
    BY <1>1, <2>2, PlacedFor
  <2> QED BY <1>1, <2>1, <2>3
<1>2. CASE c.op = "move"
  <2>1. t = MovedTo(s, c.id, c.place, c.index) /\ c.id \in DOMAIN s
    BY <1>2, FormOps, ShownIsThere DEF Moving
  <2> QED BY <1>2, <2>1, MovedLooks
<1>3. CASE c.op \in Edits
  <2>1. t = Updated(s, c.id, Edited(s[c.id], c.op, c.text))
    BY <1>3, FormOps DEF Editing
  <2> QED BY <1>3, <2>1, UpdatedLooks, OpsApart
<1>4. CASE c.op = "delete"
  BY <1>4, FormOps DEF Deleting
<1> QED BY <1>1, <1>2, <1>3, <1>4 DEF FormShaped, Making, Moving, Editing, Deleting

\* Answers make and drop none.
LEMMA AnswerKeepsProjects ==
  ASSUME NEW s, NEW o, NEW t, NEW alert, AnswerShaped(o, s, t, alert)
  PROVE  DOMAIN t \subseteq DOMAIN s /\ DOMAIN t \cap Projects = DOMAIN s \cap Projects
<1>1. CASE t = Without(s, {o.req.id}) /\ o.req.id \in Ranked \cup Comments
  BY <1>1, WithoutLooks, TablesApart DEF Ranked
<1>2. CASE t = Updated(s, o.req.id, o.answer[o.req.id])
  BY <1>2, UpdatedLooks
<1>3. CASE t = s
  BY <1>3
<1> QED BY <1>1, <1>2, <1>3 DEF AnswerShaped

\* The server drops rows for deletions only.
LEMMA ServedGrows ==
  ASSUME NEW r, NEW c, NEW v, ServedShaped(r, c, v), \A x \in DOMAIN r : r[x] \in Row
  PROVE  c.op # "delete" => DOMAIN r \subseteq DOMAIN v.rows
<1>1. CASE v.rows = r
  BY <1>1
<1>2. CASE v.rows = Created(r, c.id, Fresh(c.place, c.text))
  BY <1>2, CreatedLooks
<1>3. CASE v.rows = MovedTo(r, c.id, c.place, c.index)
  <2>1. DOMAIN MovedTo(r, c.id, c.place, c.index) = DOMAIN r
    BY DEF MovedTo, Updated
  <2> QED BY <1>3, <2>1
<1>4. CASE v.rows = Updated(r, c.id, Edited(r[c.id], c.op, c.text))
  BY <1>4, UpdatedLooks
<1> QED BY <1>1, <1>2, <1>3, <1>4 DEF ServedShaped

\* A project the server drops is gone from the store.
LEMMA ServeKeepsProjects ==
  ASSUME NEW s, NEW r, Whole(r), DOMAIN r \subseteq Ids, \A x \in DOMAIN r : r[x] \in Row,
         NEW cs, ProjectsAreIn(s, r, cs), NEW k \in DOMAIN cs, NEW v,
         ServedShaped(r, cs[k].req, v), NEW st, NEW a, NEW ds, CallServed(cs, ds, k, st, a)
  PROVE  ProjectsAreIn(s, v.rows, ds)
<1> DEFINE c == cs[k].req
<1>1. CASE c.op # "delete"
  BY <1>1, ServedGrows DEF ProjectsAreIn, CallServed
<1>2. CASE c.op = "delete"
  <2>1. v.rows = r \/ v.rows = Deleted(r, c.id)
    BY <1>2, OpsApart DEF ServedShaped
  <2>2. ASSUME v.rows = Deleted(r, c.id) PROVE DOMAIN s \cap Projects \subseteq DOMAIN v.rows
    <3> SUFFICES ASSUME NEW p \in DOMAIN s \cap Projects PROVE p \in DOMAIN v.rows
      OBVIOUS
    <3>1. p \in DOMAIN r /\ p # c.id
      BY <1>2 DEF ProjectsAreIn
    <3> QED BY <2>2, <3>1, ProjectsStay
  <2> QED BY <2>1, <2>2 DEF ProjectsAreIn, CallServed
<1> QED BY <1>1, <1>2

\* No step brings a project in.
LEMMA StepKeepsProjects ==
  ASSUME Inv, Ground, ProjectsIn, Stepped
  PROVE  /\ ProjectsAreIn(store', rows', calls')
         /\ page' = "loading" => DOMAIN store' \cap Projects # {}
<1> DEFINE Goal == /\ ProjectsAreIn(store', rows', calls')
                   /\ page' = "loading" => DOMAIN store' \cap Projects # {}
<1>1. ProjectsAreIn(store, rows, calls) /\ (page = "loading" => DOMAIN store \cap Projects # {})
  BY DEF ProjectsIn, ProjectsAreIn
<1>2. Whole(rows)
  BY DEF Ground, Grounded
<1>3. ASSUME DOMAIN store' \cap Projects = DOMAIN store \cap Projects, rows' = rows,
             page' # "loading" \/ page' = page,
             \A k \in DOMAIN calls' : k \in DOMAIN calls /\ calls'[k].req = calls[k].req
      PROVE  Goal
  BY <1>1, <1>3 DEF ProjectsAreIn
<1>4. ASSUME NEW c, FormStep(c) PROVE Goal
  <2>1. FormShaped(store, fresh, store', c) /\ rows' = rows /\ page' # "loading"
    BY <1>4 DEF FormStep
  <2>2. /\ DOMAIN store' \cap Projects \subseteq DOMAIN store
        /\ c.op = "delete" => c.id \notin DOMAIN store'
    BY <2>1, StoresAreTyped, FormKeepsProjects
  <2>3. \A k \in DOMAIN calls' : \/ k \in DOMAIN calls /\ calls'[k].req = calls[k].req
                                 \/ calls'[k].req = c
    BY <1>4 DEF FormStep, CallComes, SentCall
  <2> QED BY <1>1, <2>1, <2>2, <2>3 DEF ProjectsAreIn
<1>5. ASSUME NEW p, OpenStep(p) PROVE Goal
  <2>1. /\ p \in DOMAIN store \cap Projects /\ store' = store /\ rows' = rows
        /\ \A k \in DOMAIN calls' : \/ k \in DOMAIN calls /\ calls'[k].req = calls[k].req
                                    \/ calls'[k].req.op = "get"
    BY <1>5 DEF OpenStep, CallComes, SentCall, Get, Request
  <2> QED BY <1>1, <2>1 DEF ProjectsAreIn
<1>6. ASSUME NEW k \in DOMAIN calls, NEW v, ServeStep(k, v) PROVE Goal
  <2>1. ProjectsAreIn(store, v.rows, calls')
    BY <1>1, <1>2, <1>6, StoresAreTyped, ServeKeepsProjects DEF ServeStep
  <2> QED BY <1>1, <1>6, <2>1 DEF ServeStep
<1>7. ASSUME NEW k \in DOMAIN calls, RefuseStep(k) \/ LoseStep(k) PROVE Goal
  <2>1. store' = store /\ rows' = rows /\ page' = page
    BY <1>7 DEF RefuseStep, LoseStep
  <2>2. \A m \in DOMAIN calls' : m \in DOMAIN calls /\ calls'[m].req = calls[m].req
    BY <1>7 DEF RefuseStep, LoseStep, CallServed, CallGone
  <2> QED BY <1>3, <2>1, <2>2
<1>8. ASSUME NEW k \in DOMAIN calls, NEW alert, AnswerStep(k, alert) PROVE Goal
  <2>1. AnswerShaped(calls[k], store, store', alert) /\ rows' = rows /\ page' = page
    BY <1>8 DEF AnswerStep
  <2>2. \A m \in DOMAIN calls' : m \in DOMAIN calls /\ calls'[m].req = calls[m].req
    BY <1>8 DEF AnswerStep, CallGone
  <2>3. DOMAIN store' \cap Projects = DOMAIN store \cap Projects
    BY <2>1, AnswerKeepsProjects
  <2> QED BY <1>3, <2>1, <2>2, <2>3
<1>9. ASSUME NEW k \in DOMAIN calls, LoadStep(k) PROVE Goal
  <2>1. rows' = rows /\ (page' # "loading" \/ page' = page)
    BY <1>9 DEF LoadStep
  <2>2. \A m \in DOMAIN calls' : m \in DOMAIN calls /\ calls'[m].req = calls[m].req
    BY <1>9 DEF LoadStep, CallGone
  <2>3. DOMAIN store' \cap Projects = DOMAIN store \cap Projects
    BY <1>9 DEF LoadStep, LoadShaped
  <2> QED BY <1>3, <2>1, <2>2, <2>3
<1>10. ASSUME NEW x, ElsewhereStep(x) PROVE Goal
  <2>1. /\ x \in DOMAIN rows \ Projects /\ rows' = Deleted(rows, x)
        /\ UNCHANGED <<store, calls, page>>
    BY <1>10 DEF ElsewhereStep
  <2>2. \A p \in DOMAIN rows \cap Projects : p \in DOMAIN rows'
    BY <1>2, <2>1, StoresAreTyped, ProjectsStay
  <2> QED BY <1>1, <2>1, <2>2 DEF ProjectsAreIn
<1>11. ASSUME IdleStep PROVE Goal
  BY <1>1, <1>11 DEF IdleStep
<1> QED BY <1>4, <1>5, <1>6, <1>7, <1>8, <1>9, <1>10, <1>11 DEF Stepped

-----------------------------------------------------------------------------
(* Tracks: what is not shown stays so                                      *)

\* Places known to s that are not shown are not shown in t.
Lasts(s, t, fr) ==
  \A place : RowsOf(place) \cap fr = {} /\ Missing(s, place) => Missing(t, place)

\* It is so if known rows do not come, and lie where they lay.
LEMMA MissingLasts ==
  ASSUME NEW s, NEW fr, Avoids(s, fr), NEW t,
         \A y \in DOMAIN t : y \in DOMAIN s \/ y \in fr,
         \A y \in DOMAIN t : y \in DOMAIN s =>
            Parents(t, y) = Parents(s, y) \/ Parents(s, y) \subseteq DOMAIN s
  PROVE  Lasts(s, t, fr)
<1> SUFFICES ASSUME NEW q, q \notin fr, Off(s, q) PROVE Off(t, q)
  BY DEF Lasts, Missing
<1>1. CASE q \notin DOMAIN s
  BY <1>1 DEF Off
<1>2. CASE q \in DOMAIN s /\ q \in DOMAIN t
  <2>1. PICK w \in Parents(s, q) : w \notin DOMAIN s
    BY <1>2 DEF Off
  <2>2. w \notin fr
    BY <1>2 DEF Avoids
  <2>3. w \in Parents(t, q) /\ w \notin DOMAIN t
    BY <1>2, <2>1, <2>2
  <2> QED BY <2>3 DEF Off
<1>3. CASE q \notin DOMAIN t
  BY <1>3 DEF Off
<1> QED BY <1>1, <1>2, <1>3

\* A form brings no known row.
LEMMA FormLasts ==
  ASSUME NEW s, Laid(s), NEW fr \in SUBSET Ids, Avoids(s, fr), \A x \in DOMAIN s : s[x] \in Row,
         NEW t, NEW c, FormShaped(s, fr, t, c)
  PROVE  Lasts(s, t, fr)
<1>1. CASE Making(s, fr, t, c)
  <2>1. \A y \in DOMAIN t : y \in DOMAIN s \/ y \in fr
    BY <1>1 DEF Making
  <2>2. \A y \in DOMAIN t : y \in DOMAIN s => t[y] = s[y]
    BY <1>1 DEF Making, Avoids
  <2>3. \A y \in DOMAIN t : y \in DOMAIN s => Parents(t, y) = Parents(s, y)
    BY <2>2 DEF Parents
  <2> QED BY <2>1, <2>3, MissingLasts
<1>2. CASE Moving(s, t, c)
  <2>1. c.id \in Shown(s) /\ t = MovedTo(s, c.id, c.place, c.index)
    BY <1>2 DEF Moving
  <2>0. c.id \in DOMAIN s
    BY <2>1, ShownIsThere
  <2>2. DOMAIN t = DOMAIN s /\ \A y \in DOMAIN s : y # c.id => t[y] = s[y]
    BY <2>0, <2>1, MovedLooks
  <2>3. Parents(s, c.id) \subseteq DOMAIN s
    BY <2>1, ShownIsClosed, ShownIsThere
  <2>4. \A y \in DOMAIN t : Parents(t, y) = Parents(s, y) \/ Parents(s, y) \subseteq DOMAIN s
    BY <2>2, <2>3 DEF Parents
  <2> QED BY <2>2, <2>4, MissingLasts
<1>3. CASE Editing(s, t, c)
  <2>1. c.id \in DOMAIN s /\ t = Updated(s, c.id, Edited(s[c.id], c.op, c.text))
    BY <1>3, ShownIsThere DEF Editing
  <2>2. /\ DOMAIN t = DOMAIN s
        /\ \A y \in DOMAIN s : t[y] = IF y = c.id THEN Edited(s[c.id], c.op, c.text) ELSE s[y]
    BY <2>1, UpdatedLooks
  <2>3. Edited(s[c.id], c.op, c.text).place = s[c.id].place
    BY <2>1 DEF Edited, Row
  <2>4. \A y \in DOMAIN t : Parents(t, y) = Parents(s, y)
    BY <2>2, <2>3 DEF Parents
  <2> QED BY <2>2, <2>4, MissingLasts
<1>4. CASE Deleting(s, t, c)
  <2>1. \A y \in DOMAIN t : y \in DOMAIN s /\ Parents(t, y) = Parents(s, y)
    BY <1>4 DEF Deleting, Parents
  <2> QED BY <2>1, MissingLasts
<1> QED BY <1>1, <1>2, <1>3, <1>4 DEF FormShaped

\* The places calls name are known.
LEMMA PlacesAreKnown ==
  ASSUME NEW s, NEW g, NEW r, NEW cs, NEW fr, Grounded(s, g, r, cs, fr)
  PROVE  /\ \A x \in DOMAIN r : RowsOf(r[x].place) \cap fr = {}
         /\ \A k \in DOMAIN cs : cs[k].req.op = "create" =>
              \A x \in IdsOf(cs[k].req) : RowsOf(PlaceFor(cs[k].req, x)) \cap fr = {}
         /\ \A k \in DOMAIN cs : cs[k].req.op = "move" => RowsOf(cs[k].req.place) \cap fr = {}
         /\ \A k \in DOMAIN cs : IdsOf(cs[k].req) \cap fr = {} /\ cs[k].req.id \in IdsOf(cs[k].req)
         /\ \A k \in DOMAIN cs : cs[k].req.op # "create" => IdsOf(cs[k].req) = {cs[k].req.id}
         /\ \A k \in DOMAIN cs : cs[k].req.id \in Ranked => IdsOf(cs[k].req) = {cs[k].req.id}
         /\ \A k \in DOMAIN cs : Unborn(cs[k]) => IdsOf(cs[k].req) \cap (g \cup DOMAIN r) = {}
         /\ \A k, n \in DOMAIN cs :
              k # n /\ cs[k].req.op = "create" /\ cs[n].req.op = "create" =>
                ~Share(cs[k].req, cs[n].req)
<1>1. \A x \in DOMAIN r : RowsOf(r[x].place) \cap fr = {}
  BY DEF Grounded, Avoids, Parents
<1>2. \A k \in DOMAIN cs : CallGrounded(cs[k], g, r, fr)
  BY DEF Grounded
<1>3. ASSUME NEW k \in DOMAIN cs
      PROVE  /\ cs[k].req.op = "create" =>
                  \A x \in IdsOf(cs[k].req) : RowsOf(PlaceFor(cs[k].req, x)) \cap fr = {}
             /\ cs[k].req.op = "move" => RowsOf(cs[k].req.place) \cap fr = {}
             /\ IdsOf(cs[k].req) \cap fr = {} /\ cs[k].req.id \in IdsOf(cs[k].req)
             /\ cs[k].req.op # "create" => IdsOf(cs[k].req) = {cs[k].req.id}
             /\ cs[k].req.id \in Ranked => IdsOf(cs[k].req) = {cs[k].req.id}
             /\ Unborn(cs[k]) => IdsOf(cs[k].req) \cap (g \cup DOMAIN r) = {}
  <2> DEFINE o == cs[k]
  <2>1. CallGrounded(o, g, r, fr)
    BY <1>2
  <2> HIDE DEF o
  <2>2. o.req.id \in IdsOf(o.req) /\ PlaceFor(o.req, o.req.id) = o.req.place
    BY DEF IdsOf, PlaceFor
  <2>3. o.req.op = "create" \/ o.req.to = <<>>
    BY <2>1 DEF CallGrounded, Placed
  <2>4. o.req.id \in Ranked => o.req.to = <<>>
    BY <2>1, TablesApart DEF CallGrounded, Placed, Ranked
  <2>5. /\ o.req.op # "create" => IdsOf(o.req) = {o.req.id}
        /\ o.req.id \in Ranked => IdsOf(o.req) = {o.req.id}
    BY <2>3, <2>4 DEF IdsOf
  <2>6. o.req.op = "create" =>
          \A x \in IdsOf(o.req) : RowsOf(PlaceFor(o.req, x)) \cap fr = {}
    BY <2>1 DEF CallGrounded
  <2>7. o.req.op = "move" => RowsOf(o.req.place) \cap fr = {}
    <3>1. o.req.op = "move" =>
            \A x \in IdsOf(o.req) : RowsOf(PlaceFor(o.req, x)) \cap fr = {}
      BY <2>1 DEF CallGrounded
    <3> QED BY <3>1, <2>2
  <2>8. IdsOf(o.req) \cap fr = {} /\ (Unborn(o) => IdsOf(o.req) \cap (g \cup DOMAIN r) = {})
    BY <2>1 DEF CallGrounded
  <2>9. /\ o.req.op = "create" =>
             \A x \in IdsOf(o.req) : RowsOf(PlaceFor(o.req, x)) \cap fr = {}
        /\ o.req.op = "move" => RowsOf(o.req.place) \cap fr = {}
        /\ IdsOf(o.req) \cap fr = {} /\ o.req.id \in IdsOf(o.req)
        /\ o.req.op # "create" => IdsOf(o.req) = {o.req.id}
        /\ o.req.id \in Ranked => IdsOf(o.req) = {o.req.id}
        /\ Unborn(o) => IdsOf(o.req) \cap (g \cup DOMAIN r) = {}
    BY <2>2, <2>5, <2>6, <2>7, <2>8
  <2> QED BY <2>9 DEF o
<1>4. \A k, n \in DOMAIN cs :
        k # n /\ cs[k].req.op = "create" /\ cs[n].req.op = "create" =>
          ~Share(cs[k].req, cs[n].req)
  BY DEF Grounded
<1> QED BY <1>1, <1>3, <1>4

-----------------------------------------------------------------------------
(* Tracks: forms                                                           *)

\* One call more: the others are the same, and so is what they are about.
LEMMA CallsGrow ==
  ASSUME NEW cs, NEW ds, NEW n, NEW c, CallComes(cs, ds, n, c)
  PROVE  /\ \A m \in DOMAIN cs : m \in DOMAIN ds /\ ds[m] = cs[m] /\ m # n
         /\ \A m \in DOMAIN ds : m = n \/ (m \in DOMAIN cs /\ ds[m] = cs[m])
         /\ n \in DOMAIN ds /\ ds[n].req = c /\ ds[n].state = "sent"
         /\ \A op, x : Sends(cs, op, x) => Sends(ds, op, x)
         /\ \A op, x : Sends(ds, op, x) => Sends(cs, op, x) \/ (op = c.op /\ x \in IdsOf(c))
         /\ \A x : x \in IdsOf(c) => Sends(ds, c.op, x)
         /\ \A x : Unmade(cs, x) <=> Unmade(ds, x)
<1>1. /\ \A m \in DOMAIN cs : m \in DOMAIN ds /\ ds[m] = cs[m] /\ m # n
      /\ \A m \in DOMAIN ds : m = n \/ (m \in DOMAIN cs /\ ds[m] = cs[m])
      /\ n \in DOMAIN ds /\ ds[n].req = c /\ ds[n].state = "sent"
  BY DEF CallComes, SentCall
<1> QED BY <1>1 DEF Sends, Unmade

\* A card that is made is on its way.
LEMMA MakingTracks ==
  ASSUME NEW s, NEW g, NEW r, NEW cs, NEW fr, Grounded(s, g, r, cs, fr), Tracks(s, g, r, cs, fr),
         NEW t, NEW c, Making(s, fr, t, c), Lasts(s, t, fr),
         NEW n, NEW ds, CallComes(cs, ds, n, c)
  PROVE  Tracks(t, g, r, ds, fr \ IdsOf(c))
<1> DEFINE I == IdsOf(c)
<1>1. /\ I \subseteq fr /\ c.op = "create"
      /\ \A y : y \in DOMAIN t <=> y \in DOMAIN s \/ y \in I
      /\ \A y \in DOMAIN s : t[y] = s[y] /\ y \notin fr
      /\ \A x \in I : t[x].place = PlaceFor(c, x)
  BY DEF Making, Grounded, Avoids
<1>2. \A y \in DOMAIN r : y \notin fr
  BY DEF Grounded, Avoids
<1>3. \A y \in DOMAIN s : Parents(t, y) = Parents(s, y)
  BY <1>1 DEF Parents
<1> HIDE DEF I
<1>4. SamePlaces(t, r, ds)
  BY <1>1, <1>2, CallsGrow DEF Tracks, SamePlaces
<1>5. MovesShow(t, ds)
  <2> SUFFICES ASSUME NEW k \in DOMAIN ds, ds[k].req.op = "move", ds[k].state = "sent"
               PROVE  LET d == ds[k].req
                      IN  IF d.id \in DOMAIN t THEN t[d.id].place = d.place
                          ELSE Sends(ds, "delete", d.id) \/ Missing(t, d.place)
    BY DEF MovesShow
  <2>1. k \in DOMAIN cs /\ ds[k] = cs[k]
    BY <1>1, CallsGrow
  <2>2. cs[k].req.id \notin fr /\ RowsOf(cs[k].req.place) \cap fr = {}
    BY <2>1, PlacesAreKnown
  <2>3. MovesShow(s, cs)
    BY DEF Tracks
  <2>4. CASE cs[k].req.id \in DOMAIN s
    BY <1>1, <2>1, <2>3, <2>4 DEF MovesShow
  <2>5. CASE cs[k].req.id \notin DOMAIN s
    <3>1. Sends(cs, "delete", cs[k].req.id) \/ Missing(s, cs[k].req.place)
      BY <2>1, <2>3, <2>5 DEF MovesShow
    <3> QED BY <1>1, <2>1, <2>2, <2>5, <3>1, CallsGrow DEF Lasts
  <2> QED BY <2>4, <2>5
<1>6. PutsFit(t, ds)
  <2>1. \A k \in DOMAIN cs : cs[k].req.id \notin fr
    BY PlacesAreKnown
  <2> QED BY <1>1, <2>1, CallsGrow DEF Tracks, PutsFit
<1>7. CreatesShow(t, ds)
  <2> SUFFICES ASSUME NEW k \in DOMAIN ds, ds[k].req.op = "create", ds[k].state = "sent",
                      NEW x \in IdsOf(ds[k].req)
               PROVE  IF x \in DOMAIN t THEN t[x].place = PlaceFor(ds[k].req, x)
                      ELSE Missing(t, PlaceFor(ds[k].req, x))
    BY DEF CreatesShow
  <2>1. CASE k = n
    BY <1>1, <2>1, CallsGrow DEF I
  <2>2. CASE k # n
    <3>1. k \in DOMAIN cs /\ ds[k] = cs[k]
      BY <2>2, CallsGrow
    <3>2. x \notin fr /\ RowsOf(PlaceFor(cs[k].req, x)) \cap fr = {}
      BY <3>1, PlacesAreKnown
    <3>3. IF x \in DOMAIN s THEN s[x].place = PlaceFor(cs[k].req, x)
          ELSE Missing(s, PlaceFor(cs[k].req, x))
      BY <3>1 DEF Tracks, CreatesShow
    <3> QED BY <1>1, <3>1, <3>2, <3>3 DEF Lasts
  <2> QED BY <2>1, <2>2
<1>8. DeletesShow(t, ds)
  <2>1. \A k \in DOMAIN cs : cs[k].req.id \notin fr
    BY PlacesAreKnown
  <2> QED BY <1>1, <2>1, CallsGrow DEF Tracks, DeletesShow
<1>9. SurplusDies(t, g, r, ds, fr \ I)
  <2> SUFFICES ASSUME NEW x \in DOMAIN t, x \notin g \cup DOMAIN r
               PROVE  \/ Sends(ds, "create", x) \/ Unmade(ds, x)
                      \/ \E q \in Parents(t, x) : Dead(r, ds, fr \ I, q)
    BY DEF SurplusDies
  <2>1. CASE x \in I
    BY <1>1, <2>1, CallsGrow DEF I
  <2>2. CASE x \notin I
    <3>1. x \in DOMAIN s /\ Parents(t, x) = Parents(s, x)
      BY <1>1, <1>3, <2>2
    <3>2. \/ Sends(cs, "create", x) \/ Unmade(cs, x)
          \/ \E q \in Parents(s, x) : Dead(r, cs, fr, q)
      BY <3>1 DEF Tracks, SurplusDies
    <3>3. \A q : Dead(r, cs, fr, q) => Dead(r, ds, fr \ I, q)
      BY <1>1, CallsGrow DEF Dead, I
    <3> QED BY <3>1, <3>2, <3>3, CallsGrow
  <2> QED BY <2>1, <2>2
<1>10. LackDies(t, r, ds)
  <2> SUFFICES ASSUME NEW x \in DOMAIN r, x \notin DOMAIN t
               PROVE  \/ Sends(ds, "delete", x) \/ Sends(ds, "move", x)
                      \/ Missing(t, r[x].place)
    BY DEF LackDies
  <2>1. \/ Sends(cs, "delete", x) \/ Sends(cs, "move", x) \/ Missing(s, r[x].place)
    BY <1>1 DEF Tracks, LackDies
  <2>2. RowsOf(r[x].place) \cap fr = {}
    BY PlacesAreKnown
  <2> QED BY <2>1, <2>2, CallsGrow DEF Lasts
<1> QED BY <1>4, <1>5, <1>6, <1>7, <1>8, <1>9, <1>10 DEF Tracks, I

\* So is one that is moved.
LEMMA MovingTracks ==
  ASSUME NEW s, NEW g, NEW r, NEW cs, NEW fr, Grounded(s, g, r, cs, fr), Tracks(s, g, r, cs, fr),
         \A x \in DOMAIN s : s[x] \in Row,
         NEW t, NEW c, Moving(s, t, c), Lasts(s, t, fr),
         NEW n, NEW ds, CallComes(cs, ds, n, c), BlindAlone(ds), ~Ominous(ds, r)
  PROVE  Tracks(t, g, r, ds, fr)
<1> DEFINE x == c.id
<1>0. c.op = "move" /\ x \in IdsOf(c) /\ c.id \in DOMAIN s
  BY ShownIsThere DEF Moving, IdsOf
<1>1. t = MovedTo(s, x, c.place, c.index)
  BY DEF Moving
<1>2. /\ DOMAIN t = DOMAIN s /\ t[x].place = c.place
      /\ \A y \in DOMAIN s : y # x => t[y] = s[y]
  BY <1>0, <1>1, MovedLooks
<1>3. \A y \in DOMAIN s : y # x => Parents(t, y) = Parents(s, y)
  BY <1>2 DEF Parents
<1>4. ds[n].req = c /\ n \in DOMAIN ds /\ ds[n].state = "sent"
  BY CallsGrow
<1>5. \A k \in DOMAIN cs : x \notin IdsOf(cs[k].req) /\ x # cs[k].req.id
  <2> SUFFICES ASSUME NEW k \in DOMAIN cs, x \in IdsOf(cs[k].req) PROVE FALSE
    BY PlacesAreKnown
  <2>1. k \in DOMAIN ds /\ ds[k] = cs[k] /\ k # n
    BY CallsGrow
  <2>2. Share(ds[n].req, ds[k].req) /\ Blind(ds[n].req)
    BY <1>0, <1>4, <2>1 DEF Share, Blind
  <2>3. ds[k].req.op = "delete"
    BY <1>4, <2>1, <2>2 DEF BlindAlone
  <2>4. cs[k].req.op = "delete" /\ cs[k].req.id = x
    BY <2>1, <2>3, PlacesAreKnown
  <2> QED BY <1>0, <2>4 DEF Tracks, DeletesShow
<1>6. x \in DOMAIN r
  BY <1>0, <1>4 DEF Ominous
<1> HIDE DEF x
<1>7. SamePlaces(t, r, ds)
  <2> SUFFICES ASSUME NEW y \in DOMAIN t \cap DOMAIN r
               PROVE  t[y].place = r[y].place \/ Sends(ds, "move", y)
    BY DEF SamePlaces
  <2>1. CASE y = x
    BY <1>0, <2>1, CallsGrow DEF x
  <2>2. CASE y # x
    BY <1>2, <2>2, CallsGrow DEF Tracks, SamePlaces
  <2> QED BY <2>1, <2>2
<1>8. MovesShow(t, ds)
  <2> SUFFICES ASSUME NEW k \in DOMAIN ds, ds[k].req.op = "move", ds[k].state = "sent"
               PROVE  LET d == ds[k].req
                      IN  IF d.id \in DOMAIN t THEN t[d.id].place = d.place
                          ELSE Sends(ds, "delete", d.id) \/ Missing(t, d.place)
    BY DEF MovesShow
  <2>1. CASE k = n
    BY <1>0, <1>2, <1>4, <2>1 DEF x
  <2>2. CASE k # n
    <3>1. k \in DOMAIN cs /\ ds[k] = cs[k] /\ cs[k].req.id # x
      BY <1>5, <2>2, CallsGrow
    <3>2. RowsOf(cs[k].req.place) \cap fr = {}
      BY <3>1, PlacesAreKnown
    <3>3. IF cs[k].req.id \in DOMAIN s THEN s[cs[k].req.id].place = cs[k].req.place
          ELSE Sends(cs, "delete", cs[k].req.id) \/ Missing(s, cs[k].req.place)
      BY <3>1 DEF Tracks, MovesShow
    <3> QED BY <1>2, <3>1, <3>2, <3>3, CallsGrow DEF Lasts
  <2> QED BY <2>1, <2>2
<1>9. PutsFit(t, ds)
  BY <1>2, <1>4, <1>5, CallsGrow DEF Tracks, PutsFit
<1>10. CreatesShow(t, ds)
  <2> SUFFICES ASSUME NEW k \in DOMAIN ds, ds[k].req.op = "create", ds[k].state = "sent",
                      NEW y \in IdsOf(ds[k].req)
               PROVE  IF y \in DOMAIN t THEN t[y].place = PlaceFor(ds[k].req, y)
                      ELSE Missing(t, PlaceFor(ds[k].req, y))
    BY DEF CreatesShow
  <2>1. k \in DOMAIN cs /\ ds[k] = cs[k]
    BY <1>0, <1>4, CallsGrow
  <2>2. y # x /\ RowsOf(PlaceFor(cs[k].req, y)) \cap fr = {}
    BY <1>5, <2>1, PlacesAreKnown
  <2>3. IF y \in DOMAIN s THEN s[y].place = PlaceFor(cs[k].req, y)
        ELSE Missing(s, PlaceFor(cs[k].req, y))
    BY <2>1 DEF Tracks, CreatesShow
  <2> QED BY <1>2, <2>1, <2>2, <2>3 DEF Lasts
<1>11. DeletesShow(t, ds)
  BY <1>0, <1>2, <1>4, CallsGrow DEF Tracks, DeletesShow
<1>12. SurplusDies(t, g, r, ds, fr)
  <2> SUFFICES ASSUME NEW y \in DOMAIN t, y \notin g \cup DOMAIN r
               PROVE  \/ Sends(ds, "create", y) \/ Unmade(ds, y)
                      \/ \E q \in Parents(t, y) : Dead(r, ds, fr, q)
    BY DEF SurplusDies
  <2>1. y \in DOMAIN s /\ Parents(t, y) = Parents(s, y)
    BY <1>2, <1>3, <1>6
  <2>2. \/ Sends(cs, "create", y) \/ Unmade(cs, y)
        \/ \E q \in Parents(s, y) : Dead(r, cs, fr, q)
    BY <2>1 DEF Tracks, SurplusDies
  <2>3. \A q : Dead(r, cs, fr, q) => Dead(r, ds, fr, q)
    BY <1>0, CallsGrow DEF Dead
  <2> QED BY <2>1, <2>2, <2>3, CallsGrow
<1>13. LackDies(t, r, ds)
  <2> SUFFICES ASSUME NEW y \in DOMAIN r, y \notin DOMAIN t
               PROVE  \/ Sends(ds, "delete", y) \/ Sends(ds, "move", y)
                      \/ Missing(t, r[y].place)
    BY DEF LackDies
  <2>1. \/ Sends(cs, "delete", y) \/ Sends(cs, "move", y) \/ Missing(s, r[y].place)
    BY <1>2 DEF Tracks, LackDies
  <2>2. RowsOf(r[y].place) \cap fr = {}
    BY PlacesAreKnown
  <2> QED BY <2>1, <2>2, CallsGrow DEF Lasts
<1> QED BY <1>7, <1>8, <1>9, <1>10, <1>11, <1>12, <1>13 DEF Tracks

\* An edit moves nothing.
LEMMA EditingTracks ==
  ASSUME NEW s, NEW g, NEW r, NEW cs, NEW fr, Grounded(s, g, r, cs, fr), Tracks(s, g, r, cs, fr),
         \A x \in DOMAIN s : s[x] \in Row,
         NEW t, NEW c, Editing(s, t, c), Lasts(s, t, fr),
         NEW n, NEW ds, CallComes(cs, ds, n, c)
  PROVE  Tracks(t, g, r, ds, fr)
<1>0. c.op \in Edits /\ c.op \notin {"create", "move", "delete"} /\ c.id \in DOMAIN s
  BY ShownIsThere, OpsApart DEF Editing
<1>1. t = Updated(s, c.id, Edited(s[c.id], c.op, c.text))
  BY DEF Editing
<1>2. Edited(s[c.id], c.op, c.text).place = s[c.id].place
  BY <1>0 DEF Edited, Row
<1>3. DOMAIN t = DOMAIN s /\ \A y \in DOMAIN s : t[y].place = s[y].place
  BY <1>1, <1>2, UpdatedLooks
<1>4. \A y \in DOMAIN s : Parents(t, y) = Parents(s, y)
  BY <1>3 DEF Parents
<1>5. /\ \A m \in DOMAIN ds : \/ m \in DOMAIN cs /\ ds[m] = cs[m]
                              \/ ds[m].req.op \in Edits /\ ds[m].state = "sent"
      /\ \A op, x : op \in {"create", "move", "delete"} => (Sends(cs, op, x) <=> Sends(ds, op, x))
      /\ \A x : Unmade(cs, x) <=> Unmade(ds, x)
  BY <1>0, CallsGrow
<1>6. SamePlaces(t, r, ds)
  BY <1>3, <1>5 DEF Tracks, SamePlaces
<1>7. MovesShow(t, ds)
  <2> SUFFICES ASSUME NEW k \in DOMAIN ds, ds[k].req.op = "move", ds[k].state = "sent"
               PROVE  LET d == ds[k].req
                      IN  IF d.id \in DOMAIN t THEN t[d.id].place = d.place
                          ELSE Sends(ds, "delete", d.id) \/ Missing(t, d.place)
    BY DEF MovesShow
  <2>1. k \in DOMAIN cs /\ ds[k] = cs[k]
    BY <1>5, OpsApart
  <2>2. RowsOf(cs[k].req.place) \cap fr = {}
    BY <2>1, PlacesAreKnown
  <2>3. IF cs[k].req.id \in DOMAIN s THEN s[cs[k].req.id].place = cs[k].req.place
        ELSE Sends(cs, "delete", cs[k].req.id) \/ Missing(s, cs[k].req.place)
    BY <2>1 DEF Tracks, MovesShow
  <2> QED BY <1>3, <1>5, <2>1, <2>2, <2>3 DEF Lasts
<1>8. PutsFit(t, ds)
  BY <1>3, <1>5 DEF Tracks, PutsFit
<1>9. CreatesShow(t, ds)
  <2> SUFFICES ASSUME NEW k \in DOMAIN ds, ds[k].req.op = "create", ds[k].state = "sent",
                      NEW y \in IdsOf(ds[k].req)
               PROVE  IF y \in DOMAIN t THEN t[y].place = PlaceFor(ds[k].req, y)
                      ELSE Missing(t, PlaceFor(ds[k].req, y))
    BY DEF CreatesShow
  <2>1. k \in DOMAIN cs /\ ds[k] = cs[k]
    BY <1>5, OpsApart
  <2>2. RowsOf(PlaceFor(cs[k].req, y)) \cap fr = {}
    BY <2>1, PlacesAreKnown
  <2>3. IF y \in DOMAIN s THEN s[y].place = PlaceFor(cs[k].req, y)
        ELSE Missing(s, PlaceFor(cs[k].req, y))
    BY <2>1 DEF Tracks, CreatesShow
  <2> QED BY <1>3, <2>1, <2>2, <2>3 DEF Lasts
<1>10. DeletesShow(t, ds)
  BY <1>3, <1>5, OpsApart DEF Tracks, DeletesShow
<1>11. SurplusDies(t, g, r, ds, fr)
  <2>1. \A q : Dead(r, cs, fr, q) => Dead(r, ds, fr, q)
    BY <1>5 DEF Dead
  <2> QED BY <1>3, <1>4, <1>5, <2>1 DEF Tracks, SurplusDies
<1>12. LackDies(t, r, ds)
  <2> SUFFICES ASSUME NEW y \in DOMAIN r, y \notin DOMAIN t
               PROVE  \/ Sends(ds, "delete", y) \/ Sends(ds, "move", y)
                      \/ Missing(t, r[y].place)
    BY DEF LackDies
  <2>1. \/ Sends(cs, "delete", y) \/ Sends(cs, "move", y) \/ Missing(s, r[y].place)
    BY <1>3 DEF Tracks, LackDies
  <2>2. RowsOf(r[y].place) \cap fr = {}
    BY PlacesAreKnown
  <2> QED BY <1>5, <2>1, <2>2 DEF Lasts
<1> QED BY <1>6, <1>7, <1>8, <1>9, <1>10, <1>11, <1>12 DEF Tracks

\* A row that is deleted is on its way out, its features are not shown.
LEMMA DeletingTracks ==
  ASSUME NEW s, NEW g, NEW r, NEW cs, NEW fr, Grounded(s, g, r, cs, fr), Tracks(s, g, r, cs, fr),
         NEW t, NEW c, Deleting(s, t, c), c.to = <<>>, Lasts(s, t, fr),
         NEW n, NEW ds, CallComes(cs, ds, n, c), NoneHasty(ds)
  PROVE  Tracks(t, g, r, ds, fr)
<1> DEFINE x == c.id
<1>0. c.op = "delete" /\ IdsOf(c) = {x}
  BY DEF Deleting, IdsOf
<1>1. \A y \in DOMAIN t : y # x /\ y \in DOMAIN s /\ t[y] = s[y] /\ Parents(t, y) = Parents(s, y)
  BY DEF Deleting, Parents
<1>2. \A y \in DOMAIN s : y \in DOMAIN t \/ y = x \/ Missing(t, s[y].place)
  BY DEF Deleting
<1>3. /\ \A m \in DOMAIN ds : (m \in DOMAIN cs /\ ds[m] = cs[m]) \/ ds[m].req = c
      /\ n \in DOMAIN ds /\ ds[n].req = c
      /\ Sends(ds, "delete", x)
  BY <1>0, CallsGrow
<1> HIDE DEF x
<1>4. SamePlaces(t, r, ds)
  BY <1>1, CallsGrow DEF Tracks, SamePlaces
<1>5. MovesShow(t, ds)
  <2> SUFFICES ASSUME NEW k \in DOMAIN ds, ds[k].req.op = "move", ds[k].state = "sent"
               PROVE  LET d == ds[k].req
                      IN  IF d.id \in DOMAIN t THEN t[d.id].place = d.place
                          ELSE Sends(ds, "delete", d.id) \/ Missing(t, d.place)
    BY DEF MovesShow
  <2>1. k \in DOMAIN cs /\ ds[k] = cs[k]
    BY <1>0, <1>3
  <2>2. RowsOf(cs[k].req.place) \cap fr = {}
    BY <2>1, PlacesAreKnown
  <2>3. IF cs[k].req.id \in DOMAIN s THEN s[cs[k].req.id].place = cs[k].req.place
        ELSE Sends(cs, "delete", cs[k].req.id) \/ Missing(s, cs[k].req.place)
    BY <2>1 DEF Tracks, MovesShow
  <2>4. CASE cs[k].req.id \in DOMAIN s
    BY <1>1, <1>2, <1>3, <2>1, <2>3, <2>4
  <2>5. CASE cs[k].req.id \notin DOMAIN s
    BY <1>1, <2>1, <2>2, <2>3, <2>5, CallsGrow DEF Lasts
  <2> QED BY <2>4, <2>5
<1>6. PutsFit(t, ds)
  <2>1. ~Put(c)
    BY <1>0, OpsApart DEF Put
  <2> QED BY <1>1, <1>3, <2>1 DEF Tracks, PutsFit
<1>7. CreatesShow(t, ds)
  <2> SUFFICES ASSUME NEW k \in DOMAIN ds, ds[k].req.op = "create", ds[k].state = "sent",
                      NEW y \in IdsOf(ds[k].req)
               PROVE  IF y \in DOMAIN t THEN t[y].place = PlaceFor(ds[k].req, y)
                      ELSE Missing(t, PlaceFor(ds[k].req, y))
    BY DEF CreatesShow
  <2>1. k \in DOMAIN cs /\ ds[k] = cs[k]
    BY <1>0, <1>3
  <2>2. y # x
    <3>1. ~Share(ds[k].req, ds[n].req)
      BY <1>0, <1>3 DEF NoneHasty
    <3> QED BY <1>0, <1>3, <3>1 DEF Share
  <2>3. RowsOf(PlaceFor(cs[k].req, y)) \cap fr = {}
    BY <2>1, PlacesAreKnown
  <2>4. IF y \in DOMAIN s THEN s[y].place = PlaceFor(cs[k].req, y)
        ELSE Missing(s, PlaceFor(cs[k].req, y))
    BY <2>1 DEF Tracks, CreatesShow
  <2>5. CASE y \in DOMAIN s
    BY <1>1, <1>2, <2>1, <2>2, <2>4, <2>5
  <2>6. CASE y \notin DOMAIN s
    BY <1>1, <2>1, <2>3, <2>4, <2>6 DEF Lasts
  <2> QED BY <2>5, <2>6
<1>8. DeletesShow(t, ds)
  BY <1>1, <1>3 DEF Tracks, DeletesShow, x
<1>9. SurplusDies(t, g, r, ds, fr)
  <2>1. \A q : Dead(r, cs, fr, q) => Dead(r, ds, fr, q)
    BY <1>0, CallsGrow DEF Dead
  <2> QED BY <1>1, <2>1, CallsGrow DEF Tracks, SurplusDies
<1>10. LackDies(t, r, ds)
  <2> SUFFICES ASSUME NEW y \in DOMAIN r, y \notin DOMAIN t
               PROVE  \/ Sends(ds, "delete", y) \/ Sends(ds, "move", y)
                      \/ Missing(t, r[y].place)
    BY DEF LackDies
  <2>1. RowsOf(r[y].place) \cap fr = {}
    BY PlacesAreKnown
  <2>2. CASE y \notin DOMAIN s
    <3>1. \/ Sends(cs, "delete", y) \/ Sends(cs, "move", y) \/ Missing(s, r[y].place)
      BY <2>2 DEF Tracks, LackDies
    <3> QED BY <2>1, <3>1, CallsGrow DEF Lasts
  <2>3. CASE y \in DOMAIN s
    <3>1. s[y].place = r[y].place \/ Sends(cs, "move", y)
      BY <2>3 DEF Tracks, SamePlaces
    <3> QED BY <1>2, <1>3, <2>3, <3>1, CallsGrow
  <2> QED BY <2>2, <2>3
<1> QED BY <1>4, <1>5, <1>6, <1>7, <1>8, <1>9, <1>10 DEF Tracks

\* Every form keeps track.
LEMMA FormTracks ==
  ASSUME NEW s, NEW g, NEW r, NEW cs, NEW fr \in SUBSET Ids,
         Grounded(s, g, r, cs, fr), Tracks(s, g, r, cs, fr),
         \A x \in DOMAIN s : s[x] \in Row,
         NEW t, NEW c, FormShaped(s, fr, t, c),
         NEW n, NEW ds, CallComes(cs, ds, n, c), BlindAlone(ds), NoneHasty(ds), ~Ominous(ds, r),
         NEW fr2, fr2 = IF c.op = "create" THEN fr \ IdsOf(c) ELSE fr
  PROVE  Tracks(t, g, r, ds, fr2)
<1>1. Lasts(s, t, fr)
  BY FormLasts DEF Grounded
<1>2. CASE Making(s, fr, t, c)
  BY <1>1, <1>2, MakingTracks DEF Making
<1>3. CASE Moving(s, t, c)
  <2>1. fr2 = fr
    BY <1>3 DEF Moving
  <2> QED BY <1>1, <1>3, <2>1, MovingTracks
<1>4. CASE Editing(s, t, c)
  <2>1. fr2 = fr
    BY <1>4, OpsApart DEF Editing
  <2> QED BY <1>1, <1>4, <2>1, EditingTracks
<1>5. CASE Deleting(s, t, c)
  <2>1. fr2 = fr /\ c.to = <<>>
    BY <1>5 DEF Deleting, FormShaped, Placed
  <2> QED BY <1>1, <1>5, <2>1, DeletingTracks
<1> QED BY <1>2, <1>3, <1>4, <1>5 DEF FormShaped

-----------------------------------------------------------------------------
(* Tracks: the server                                                      *)

\* One call is served: the others are the same.
LEMMA CallsAreServed ==
  ASSUME NEW cs, NEW ds, NEW k, NEW st, NEW a, CallServed(cs, ds, k, st, a),
         st \in {"ok", "refused"}
  PROVE  /\ k \in DOMAIN cs /\ DOMAIN ds = DOMAIN cs /\ \A m \in DOMAIN cs : ds[m].req = cs[m].req
         /\ \A m \in DOMAIN cs : m = k \/ ds[m] = cs[m]
         /\ cs[k].state = "sent" /\ ds[k].state = st /\ ds[k].answer = a
         /\ \A op, x : Sends(ds, op, x) => Sends(cs, op, x)
         /\ \A op, x : Sends(cs, op, x) =>
              Sends(ds, op, x) \/ (op = cs[k].req.op /\ x \in IdsOf(cs[k].req))
         /\ \A x : Unmade(cs, x) => Unmade(ds, x)
<1>1. /\ k \in DOMAIN cs /\ DOMAIN ds = DOMAIN cs /\ \A m \in DOMAIN cs : ds[m].req = cs[m].req
      /\ \A m \in DOMAIN cs : m = k \/ ds[m] = cs[m]
      /\ cs[k].state = "sent" /\ ds[k].state = st /\ ds[k].answer = a
      /\ st # "sent"
  BY DEF CallServed
<1>2. \A op, x : Sends(ds, op, x) => Sends(cs, op, x)
  BY <1>1 DEF Sends
<1>3. \A op, x : Sends(cs, op, x) =>
        Sends(ds, op, x) \/ (op = cs[k].req.op /\ x \in IdsOf(cs[k].req))
  BY <1>1 DEF Sends
<1>4. \A x : Unmade(cs, x) => Unmade(ds, x)
  BY <1>1 DEF Unmade
<1> QED BY <1>1, <1>2, <1>3, <1>4

\* The rows w and the answer a of the creation c.
Makes(r, c, w, a) ==
  /\ \A y : y \in DOMAIN w <=> y \in DOMAIN r \/ y \in IdsOf(c)
  /\ \A y \in DOMAIN r : y \notin IdsOf(c) => w[y] = r[y]
  /\ \A x \in IdsOf(c) : w[x].place = PlaceFor(c, x)
  /\ \E x \in IdsOf(c) : a = Only(w, {x})

\* A creation arrives.
LEMMA CreateTracks ==
  ASSUME NEW s, NEW g, NEW r, NEW cs, NEW fr, Grounded(s, g, r, cs, fr), Tracks(s, g, r, cs, fr),
         NEW k \in DOMAIN cs, NEW c, c = cs[k].req, c.op = "create",
         NEW w, NEW a, Makes(r, c, w, a), NEW ds, CallServed(cs, ds, k, "ok", a)
  PROVE  Tracks(s, g, w, ds, fr)
<1>0. /\ \A y : y \in DOMAIN w <=> y \in DOMAIN r \/ y \in IdsOf(c)
      /\ \A y \in DOMAIN r : y \notin IdsOf(c) => w[y] = r[y]
      /\ \A x \in IdsOf(c) : w[x].place = PlaceFor(c, x)
      /\ \E x \in IdsOf(c) : a = Only(w, {x})
  BY DEF Makes
<1>1. /\ DOMAIN ds = DOMAIN cs /\ \A m \in DOMAIN cs : ds[m].req = cs[m].req
      /\ \A m \in DOMAIN cs : m = k \/ ds[m] = cs[m]
      /\ cs[k].state = "sent" /\ ds[k].state = "ok" /\ ds[k].answer = a
  BY CallsAreServed
<1>2. /\ \A op, x : Sends(ds, op, x) => Sends(cs, op, x)
      /\ \A op, x : Sends(cs, op, x) => Sends(ds, op, x) \/ (op = "create" /\ x \in IdsOf(c))
      /\ \A x : Unmade(cs, x) => Unmade(ds, x)
  BY CallsAreServed
<1>3. IdsOf(c) \cap (g \cup DOMAIN r) = {}
  BY <1>1, PlacesAreKnown DEF Unborn
<1>4. \A x \in IdsOf(c) : IF x \in DOMAIN s THEN s[x].place = PlaceFor(c, x)
                          ELSE Missing(s, PlaceFor(c, x))
  BY <1>1 DEF Tracks, CreatesShow
<1>5. \A y \in DOMAIN r : w[y] = r[y]
  BY <1>0, <1>3
<1>6. SamePlaces(s, w, ds)
  BY <1>0, <1>2, <1>4, <1>5 DEF Tracks, SamePlaces
<1>7. MovesShow(s, ds)
  <2> SUFFICES ASSUME NEW m \in DOMAIN ds, ds[m].req.op = "move", ds[m].state = "sent"
               PROVE  LET d == ds[m].req
                      IN  IF d.id \in DOMAIN s THEN s[d.id].place = d.place
                          ELSE Sends(ds, "delete", d.id) \/ Missing(s, d.place)
    BY DEF MovesShow
  <2>1. m \in DOMAIN cs /\ ds[m] = cs[m]
    BY <1>1
  <2>2. IF cs[m].req.id \in DOMAIN s THEN s[cs[m].req.id].place = cs[m].req.place
        ELSE Sends(cs, "delete", cs[m].req.id) \/ Missing(s, cs[m].req.place)
    BY <2>1 DEF Tracks, MovesShow
  <2> QED BY <1>2, <2>1, <2>2
<1>8. PutsFit(s, ds)
  <2> SUFFICES ASSUME NEW m \in DOMAIN ds, Put(ds[m].req), ds[m].state = "ok",
                      ds[m].req.id \in DOMAIN s
               PROVE  ds[m].answer[ds[m].req.id].place = s[ds[m].req.id].place
    BY DEF PutsFit
  <2>1. CASE m # k
    BY <1>1, <2>1 DEF Tracks, PutsFit
  <2>2. CASE m = k
    <3>1. Put(c) /\ ds[m].req = c /\ c.id \in DOMAIN s
      BY <1>1, <2>2
    <3>2. c.id \in Ranked \cup Comments
      BY <3>1, OpsApart DEF Put
    <3>3. c.to = <<>>
      BY <3>2, TablesApart DEF Grounded, CallGrounded, Placed, Ranked
    <3>4. IdsOf(c) = {c.id}
      BY <3>3 DEF IdsOf
    <3>5. a = Only(w, {c.id}) /\ c.id \in DOMAIN w
      BY <1>0, <3>4
    <3>6. a[c.id] = w[c.id]
      BY <3>5 DEF Only
    <3> QED BY <1>0, <1>1, <1>4, <2>2, <3>1, <3>4, <3>6
  <2> QED BY <2>1, <2>2
<1>9. CreatesShow(s, ds)
  BY <1>1 DEF Tracks, CreatesShow
<1>10. DeletesShow(s, ds)
  BY <1>1 DEF Tracks, DeletesShow
<1>11. SurplusDies(s, g, w, ds, fr)
  <2> SUFFICES ASSUME NEW x \in DOMAIN s, x \notin g \cup DOMAIN w
               PROVE  \/ Sends(ds, "create", x) \/ Unmade(ds, x)
                      \/ \E q \in Parents(s, x) : Dead(w, ds, fr, q)
    BY DEF SurplusDies
  <2>1. x \notin IdsOf(c) /\ x \notin g \cup DOMAIN r
    BY <1>0
  <2>2. \/ Sends(cs, "create", x) \/ Unmade(cs, x)
        \/ \E q \in Parents(s, x) : Dead(r, cs, fr, q)
    BY <2>1 DEF Tracks, SurplusDies
  <2>3. \A q \in IdsOf(c) : Sends(cs, "create", q)
    BY <1>1 DEF Sends
  <2>4. \A q : Dead(r, cs, fr, q) => Dead(w, ds, fr, q)
    BY <1>0, <1>2, <2>3 DEF Dead
  <2> QED BY <1>2, <2>1, <2>2, <2>4
<1>12. LackDies(s, w, ds)
  <2> SUFFICES ASSUME NEW x \in DOMAIN w, x \notin DOMAIN s
               PROVE  \/ Sends(ds, "delete", x) \/ Sends(ds, "move", x)
                      \/ Missing(s, w[x].place)
    BY DEF LackDies
  <2>1. CASE x \in IdsOf(c)
    BY <1>0, <1>4, <2>1
  <2>2. CASE x \in DOMAIN r
    <3>1. \/ Sends(cs, "delete", x) \/ Sends(cs, "move", x) \/ Missing(s, r[x].place)
      BY <2>2 DEF Tracks, LackDies
    <3> QED BY <1>2, <1>5, <2>2, <3>1
  <2> QED BY <1>0, <2>1, <2>2
<1> QED BY <1>6, <1>7, <1>8, <1>9, <1>10, <1>11, <1>12 DEF Tracks

\* A refused card stays until the answer comes.
LEMMA RefusedTracks ==
  ASSUME NEW s, NEW g, NEW r, NEW cs, NEW fr, Grounded(s, g, r, cs, fr), Tracks(s, g, r, cs, fr),
         NEW k \in DOMAIN cs, NEW ds, NEW a, CallServed(cs, ds, k, "refused", a),
         ~Ominous(ds, r)
  PROVE  Tracks(s, g, r, ds, fr)
<1> DEFINE c == cs[k].req
<1>1. /\ DOMAIN ds = DOMAIN cs /\ \A m \in DOMAIN cs : ds[m].req = cs[m].req
      /\ \A m \in DOMAIN cs : m = k \/ ds[m] = cs[m]
      /\ cs[k].state = "sent" /\ ds[k].state = "refused"
  BY CallsAreServed
<1>2. c.op = "create" /\ c.id \in Ranked
  BY <1>1 DEF Ominous
<1>3. IdsOf(c) = {c.id}
  BY <1>2, PlacesAreKnown
<1>4. /\ \A op, x : Sends(ds, op, x) => Sends(cs, op, x)
      /\ \A op, x : Sends(cs, op, x) => Sends(ds, op, x) \/ (op = "create" /\ x = c.id)
      /\ \A x : Unmade(cs, x) => Unmade(ds, x)
  BY <1>2, <1>3, CallsAreServed
<1>5. Unmade(ds, c.id)
  BY <1>1, <1>2 DEF Unmade
<1> HIDE DEF c
<1>6. SamePlaces(s, r, ds)
  BY <1>4 DEF Tracks, SamePlaces
<1>7. MovesShow(s, ds)
  <2> SUFFICES ASSUME NEW m \in DOMAIN ds, ds[m].req.op = "move", ds[m].state = "sent"
               PROVE  LET d == ds[m].req
                      IN  IF d.id \in DOMAIN s THEN s[d.id].place = d.place
                          ELSE Sends(ds, "delete", d.id) \/ Missing(s, d.place)
    BY DEF MovesShow
  <2>1. m \in DOMAIN cs /\ ds[m] = cs[m]
    BY <1>1
  <2>2. IF cs[m].req.id \in DOMAIN s THEN s[cs[m].req.id].place = cs[m].req.place
        ELSE Sends(cs, "delete", cs[m].req.id) \/ Missing(s, cs[m].req.place)
    BY <2>1 DEF Tracks, MovesShow
  <2> QED BY <1>4, <2>1, <2>2
<1>8. PutsFit(s, ds)
  BY <1>1 DEF Tracks, PutsFit
<1>9. CreatesShow(s, ds)
  BY <1>1 DEF Tracks, CreatesShow
<1>10. DeletesShow(s, ds)
  BY <1>1 DEF Tracks, DeletesShow
<1>11. SurplusDies(s, g, r, ds, fr)
  <2>1. \A q : Dead(r, cs, fr, q) => Dead(r, ds, fr, q)
    BY <1>4 DEF Dead
  <2> QED BY <1>4, <1>5, <2>1 DEF Tracks, SurplusDies
<1>12. LackDies(s, r, ds)
  BY <1>4 DEF Tracks, LackDies
<1> QED BY <1>6, <1>7, <1>8, <1>9, <1>10, <1>11, <1>12 DEF Tracks

\* An edit arrives: nothing moves.
LEMMA EditTracks ==
  ASSUME NEW s, NEW g, NEW r, NEW cs, NEW fr, Grounded(s, g, r, cs, fr), Tracks(s, g, r, cs, fr),
         NEW k \in DOMAIN cs, NEW c, c = cs[k].req, c.op \in Edits, BlindAlone(cs),
         NEW w, DOMAIN w = DOMAIN r, \A y \in DOMAIN r : w[y].place = r[y].place,
         c.id \in DOMAIN r, NEW ds, CallServed(cs, ds, k, "ok", Only(w, {c.id}))
  PROVE  Tracks(s, g, w, ds, fr)
<1> DEFINE a == Only(w, {c.id})
<1>1. /\ DOMAIN ds = DOMAIN cs /\ \A m \in DOMAIN cs : ds[m].req = cs[m].req
      /\ \A m \in DOMAIN cs : m = k \/ ds[m] = cs[m]
      /\ ds[k].state = "ok" /\ ds[k].answer = a
  BY CallsAreServed
<1>2. /\ \A op, x : op \in {"create", "move", "delete"} => (Sends(ds, op, x) <=> Sends(cs, op, x))
      /\ \A x : Unmade(cs, x) => Unmade(ds, x)
  BY CallsAreServed, OpsApart
<1>3. a[c.id].place = r[c.id].place
  BY DEF Only
<1> HIDE DEF a
<1>4. SamePlaces(s, w, ds)
  BY <1>2 DEF Tracks, SamePlaces
<1>5. MovesShow(s, ds)
  <2> SUFFICES ASSUME NEW m \in DOMAIN ds, ds[m].req.op = "move", ds[m].state = "sent"
               PROVE  LET d == ds[m].req
                      IN  IF d.id \in DOMAIN s THEN s[d.id].place = d.place
                          ELSE Sends(ds, "delete", d.id) \/ Missing(s, d.place)
    BY DEF MovesShow
  <2>1. m \in DOMAIN cs /\ ds[m] = cs[m]
    BY <1>1
  <2>2. IF cs[m].req.id \in DOMAIN s THEN s[cs[m].req.id].place = cs[m].req.place
        ELSE Sends(cs, "delete", cs[m].req.id) \/ Missing(s, cs[m].req.place)
    BY <2>1 DEF Tracks, MovesShow
  <2> QED BY <1>2, <2>1, <2>2
<1>6. PutsFit(s, ds)
  <2> SUFFICES ASSUME NEW m \in DOMAIN ds, Put(ds[m].req), ds[m].state = "ok",
                      ds[m].req.id \in DOMAIN s
               PROVE  ds[m].answer[ds[m].req.id].place = s[ds[m].req.id].place
    BY DEF PutsFit
  <2>1. CASE m # k
    BY <1>1, <2>1 DEF Tracks, PutsFit
  <2>2. CASE m = k
    <3>1. ds[m].req = c /\ c.id \in DOMAIN s /\ c.id \in DOMAIN r
      BY <1>1, <2>2
    <3>2. ~Sends(cs, "move", c.id)
      <4> SUFFICES ASSUME NEW j \in DOMAIN cs, cs[j].req.op = "move", c.id \in IdsOf(cs[j].req)
                   PROVE  FALSE
        BY DEF Sends
      <4>1. Share(cs[j].req, cs[k].req) /\ Blind(cs[j].req) /\ j # k
        BY OpsApart, PlacesAreKnown DEF Share, Blind
      <4> QED BY <4>1, OpsApart DEF BlindAlone
    <3>3. s[c.id].place = r[c.id].place
      BY <3>1, <3>2 DEF Tracks, SamePlaces
    <3> QED BY <1>1, <1>3, <2>2, <3>1, <3>3
  <2> QED BY <2>1, <2>2
<1>7. CreatesShow(s, ds)
  BY <1>1 DEF Tracks, CreatesShow
<1>8. DeletesShow(s, ds)
  BY <1>1 DEF Tracks, DeletesShow
<1>9. SurplusDies(s, g, w, ds, fr)
  <2>1. \A q : Dead(r, cs, fr, q) => Dead(w, ds, fr, q)
    BY <1>2 DEF Dead
  <2> QED BY <1>2, <2>1 DEF Tracks, SurplusDies
<1>10. LackDies(s, w, ds)
  BY <1>2 DEF Tracks, LackDies
<1> QED BY <1>4, <1>5, <1>6, <1>7, <1>8, <1>9, <1>10 DEF Tracks

\* A move arrives.
LEMMA MoveTracks ==
  ASSUME NEW s, NEW g, NEW r, NEW cs, NEW fr, Grounded(s, g, r, cs, fr), Tracks(s, g, r, cs, fr),
         NEW k \in DOMAIN cs, NEW c, c = cs[k].req, c.op = "move",
         NEW w, DOMAIN w = DOMAIN r, \A y \in DOMAIN r : y # c.id => w[y] = r[y],
         c.id \in DOMAIN r, w[c.id].place = c.place,
         NEW ds, NEW a, CallServed(cs, ds, k, "ok", a)
  PROVE  Tracks(s, g, w, ds, fr)
<1>1. /\ DOMAIN ds = DOMAIN cs /\ \A m \in DOMAIN cs : ds[m].req = cs[m].req
      /\ \A m \in DOMAIN cs : m = k \/ ds[m] = cs[m]
      /\ cs[k].state = "sent" /\ ds[k].state = "ok" /\ ds[k].answer = a
  BY CallsAreServed
<1>2. IdsOf(c) = {c.id}
  BY PlacesAreKnown
<1>3. /\ \A op, x : Sends(ds, op, x) => Sends(cs, op, x)
      /\ \A op, x : Sends(cs, op, x) => Sends(ds, op, x) \/ (op = "move" /\ x = c.id)
      /\ \A x : Unmade(cs, x) => Unmade(ds, x)
  BY <1>2, CallsAreServed
<1>4. IF c.id \in DOMAIN s THEN s[c.id].place = c.place
      ELSE Sends(cs, "delete", c.id) \/ Missing(s, c.place)
  BY <1>1 DEF Tracks, MovesShow
<1>5. SamePlaces(s, w, ds)
  BY <1>3, <1>4 DEF Tracks, SamePlaces
<1>6. MovesShow(s, ds)
  <2> SUFFICES ASSUME NEW m \in DOMAIN ds, ds[m].req.op = "move", ds[m].state = "sent"
               PROVE  LET d == ds[m].req
                      IN  IF d.id \in DOMAIN s THEN s[d.id].place = d.place
                          ELSE Sends(ds, "delete", d.id) \/ Missing(s, d.place)
    BY DEF MovesShow
  <2>1. m \in DOMAIN cs /\ ds[m] = cs[m]
    BY <1>1
  <2>2. IF cs[m].req.id \in DOMAIN s THEN s[cs[m].req.id].place = cs[m].req.place
        ELSE Sends(cs, "delete", cs[m].req.id) \/ Missing(s, cs[m].req.place)
    BY <2>1 DEF Tracks, MovesShow
  <2> QED BY <1>3, <2>1, <2>2
<1>7. PutsFit(s, ds)
  <2>1. ~Put(c)
    BY OpsApart DEF Put
  <2> QED BY <1>1, <2>1 DEF Tracks, PutsFit
<1>8. CreatesShow(s, ds)
  BY <1>1 DEF Tracks, CreatesShow
<1>9. DeletesShow(s, ds)
  BY <1>1 DEF Tracks, DeletesShow
<1>10. SurplusDies(s, g, w, ds, fr)
  <2>1. \A q : Dead(r, cs, fr, q) => Dead(w, ds, fr, q)
    BY <1>3 DEF Dead
  <2> QED BY <1>3, <2>1 DEF Tracks, SurplusDies
<1>11. LackDies(s, w, ds)
  <2> SUFFICES ASSUME NEW x \in DOMAIN w, x \notin DOMAIN s
               PROVE  \/ Sends(ds, "delete", x) \/ Sends(ds, "move", x)
                      \/ Missing(s, w[x].place)
    BY DEF LackDies
  <2>1. CASE x = c.id
    BY <1>3, <1>4, <2>1
  <2>2. CASE x # c.id
    <3>1. \/ Sends(cs, "delete", x) \/ Sends(cs, "move", x) \/ Missing(s, r[x].place)
      BY DEF Tracks, LackDies
    <3> QED BY <1>3, <2>2, <3>1
  <2> QED BY <2>1, <2>2
<1> QED BY <1>5, <1>6, <1>7, <1>8, <1>9, <1>10, <1>11 DEF Tracks

\* The calls stay but for the deletion of x, which may be done.
DeletedCalls(cs, ds, x) ==
  /\ DOMAIN ds = DOMAIN cs /\ \A m \in DOMAIN cs : ds[m].req = cs[m].req
  /\ \A m \in DOMAIN cs : \/ ds[m] = cs[m]
                          \/ /\ cs[m].req.op = "delete" /\ cs[m].req.id = x
                             /\ cs[m].state = "sent" /\ ds[m].state = "ok"

\* Rows go, by the call of this page or of another one.
LEMMA GoneTracks ==
  ASSUME NEW s, NEW g, NEW r, NEW cs, NEW fr, Grounded(s, g, r, cs, fr), Tracks(s, g, r, cs, fr),
         DOMAIN r \subseteq Ids, NEW x, NEW w, w = Deleted(r, x),
         NEW h, g \subseteq h, x \in h \/ x \notin DOMAIN s,
         NEW ds, DeletedCalls(cs, ds, x), ~Ominous(ds, w)
  PROVE  Tracks(s, h, w, ds, fr)
<1>0. Whole(r) /\ Avoids(r, fr)
  BY DEF Grounded
<1>14. /\ DOMAIN ds = DOMAIN cs /\ \A m \in DOMAIN cs : ds[m].req = cs[m].req
      /\ \A m \in DOMAIN cs : \/ ds[m] = cs[m]
                              \/ /\ cs[m].req.op = "delete" /\ cs[m].req.id = x
                                 /\ cs[m].state = "sent" /\ ds[m].state = "ok"
  BY DEF DeletedCalls
<1>1. /\ DOMAIN w \subseteq DOMAIN r /\ x \notin DOMAIN w
      /\ \A y \in DOMAIN w : w[y] = r[y]
      /\ \A y \in DOMAIN r : y \in DOMAIN w \/ y = x \/ \E q \in Parents(r, y) : q \notin DOMAIN w
  BY <1>0, DeletedLooks
<1>2. /\ \A op, y : op \in {"create", "move"} => (Sends(ds, op, y) <=> Sends(cs, op, y))
      /\ \A op, y : Sends(ds, op, y) => Sends(cs, op, y)
      /\ \A y : Unmade(cs, y) => Unmade(ds, y)
  BY <1>14 DEF Sends, Unmade
<1>3. \A y : Sends(cs, "delete", y) => Sends(ds, "delete", y) \/ y = x
  <2>1. \A m \in DOMAIN cs : cs[m].req.op = "delete" => IdsOf(cs[m].req) = {cs[m].req.id}
    BY PlacesAreKnown
  <2> QED BY <1>14, <2>1 DEF Sends
<1>4. \A y : Sends(ds, "move", y) => y \in DOMAIN w
  <2>1. \A m \in DOMAIN ds : ds[m].req.op = "move" => IdsOf(ds[m].req) = {ds[m].req.id}
    BY <1>14, PlacesAreKnown
  <2> QED BY <2>1 DEF Sends, Ominous
<1>5. SamePlaces(s, w, ds)
  BY <1>1, <1>2 DEF Tracks, SamePlaces
<1>6. MovesShow(s, ds)
  <2> SUFFICES ASSUME NEW m \in DOMAIN ds, ds[m].req.op = "move", ds[m].state = "sent"
               PROVE  LET d == ds[m].req
                      IN  IF d.id \in DOMAIN s THEN s[d.id].place = d.place
                          ELSE Sends(ds, "delete", d.id) \/ Missing(s, d.place)
    BY DEF MovesShow
  <2>1. m \in DOMAIN cs /\ ds[m] = cs[m]
    BY <1>14
  <2>2. IF cs[m].req.id \in DOMAIN s THEN s[cs[m].req.id].place = cs[m].req.place
        ELSE Sends(cs, "delete", cs[m].req.id) \/ Missing(s, cs[m].req.place)
    BY <2>1 DEF Tracks, MovesShow
  <2>3. cs[m].req.id # x
    <3>1. cs[m].req.id \in DOMAIN w
      BY <2>1 DEF Ominous
    <3> QED BY <1>1, <3>1
  <2> QED BY <1>3, <2>1, <2>2, <2>3
<1>7. PutsFit(s, ds)
  <2>1. \A m \in DOMAIN ds : Put(ds[m].req) => ds[m] = cs[m]
    BY <1>14, OpsApart DEF Put
  <2> QED BY <1>14, <2>1 DEF Tracks, PutsFit
<1>8. CreatesShow(s, ds)
  <2>1. \A m \in DOMAIN ds : ds[m].req.op = "create" => ds[m] = cs[m]
    BY <1>14
  <2> QED BY <1>14, <2>1 DEF Tracks, CreatesShow
<1>9. DeletesShow(s, ds)
  BY <1>14 DEF Tracks, DeletesShow
<1>10. SurplusDies(s, h, w, ds, fr)
  <2> SUFFICES ASSUME NEW y \in DOMAIN s, y \notin h \cup DOMAIN w
               PROVE  \/ Sends(ds, "create", y) \/ Unmade(ds, y)
                      \/ \E q \in Parents(s, y) : Dead(w, ds, fr, q)
    BY DEF SurplusDies
  <2>1. CASE y \notin DOMAIN r
    <3>1. \/ Sends(cs, "create", y) \/ Unmade(cs, y)
          \/ \E q \in Parents(s, y) : Dead(r, cs, fr, q)
      BY <2>1 DEF Tracks, SurplusDies
    <3>2. \A q : Dead(r, cs, fr, q) => Dead(w, ds, fr, q)
      BY <1>1, <1>2 DEF Dead
    <3> QED BY <1>2, <3>1, <3>2
  <2>2. CASE y \in DOMAIN r
    <3>1. PICK q \in Parents(r, y) : q \notin DOMAIN w
      BY <1>1, <2>2
    <3>2. q \in DOMAIN r /\ q \notin fr
      BY <1>0, <2>2 DEF Whole, Avoids
    <3>3. ~Sends(ds, "create", q)
      <4>1. \A m \in DOMAIN cs : cs[m].req.op = "create" /\ cs[m].state = "sent" =>
              IdsOf(cs[m].req) \cap DOMAIN r = {}
        BY PlacesAreKnown DEF Unborn
      <4> QED BY <1>2, <3>2, <4>1 DEF Sends
    <3>4. Dead(w, ds, fr, q)
      BY <3>1, <3>2, <3>3 DEF Dead
    <3>5. s[y].place = r[y].place
      BY <1>2, <1>4, <2>2 DEF Tracks, SamePlaces
    <3> QED BY <3>1, <3>4, <3>5 DEF Parents
  <2> QED BY <2>1, <2>2
<1>11. LackDies(s, w, ds)
  <2> SUFFICES ASSUME NEW y \in DOMAIN w, y \notin DOMAIN s
               PROVE  \/ Sends(ds, "delete", y) \/ Sends(ds, "move", y)
                      \/ Missing(s, w[y].place)
    BY DEF LackDies
  <2>1. \/ Sends(cs, "delete", y) \/ Sends(cs, "move", y) \/ Missing(s, r[y].place)
    BY <1>1 DEF Tracks, LackDies
  <2> QED BY <1>1, <1>2, <1>3, <2>1
<1> QED BY <1>5, <1>6, <1>7, <1>8, <1>9, <1>10, <1>11 DEF Tracks

-----------------------------------------------------------------------------
(* What is ominous stays so until an answer alerts                         *)

\* An alert to come was to come before.
LEMMA OminousLasts ==
  ASSUME NEW cs, NEW r, NEW ds, NEW w, ~Ominous(ds, w),
         \A m \in DOMAIN cs : cs[m].state = "refused" => m \in DOMAIN ds /\ ds[m] = cs[m],
         \A m \in DOMAIN cs : cs[m].state = "sent" /\ cs[m].req.op = "move" /\ cs[m].req.id \notin DOMAIN r =>
           \/ m \in DOMAIN ds /\ ds[m] = cs[m] /\ cs[m].req.id \notin DOMAIN w
           \/ m \in DOMAIN ds /\ ds[m].state = "refused" /\ ds[m].req = cs[m].req
  PROVE  ~Ominous(cs, r)
BY DEF Ominous

\* A row whose move is under way is not being made.
LEMMA ServeIsOminous ==
  ASSUME NEW r, NEW cs, BlindAlone(cs), NEW k \in DOMAIN cs, NEW v,
         \A x \in DOMAIN r : r[x] \in Row,
         ServedShaped(r, cs[k].req, v), NEW ds,
         CallServed(cs, ds, k, IF v.ok THEN "ok" ELSE "refused", v.answer), ~Ominous(ds, v.rows)
  PROVE  ~Ominous(cs, r)
<1> DEFINE c == cs[k].req
           w == v.rows
<1>1. /\ DOMAIN ds = DOMAIN cs /\ \A m \in DOMAIN cs : ds[m].req = cs[m].req
      /\ \A m \in DOMAIN cs : m = k \/ ds[m] = cs[m]
      /\ cs[k].state = "sent" /\ ds[k].state = IF v.ok THEN "ok" ELSE "refused"
  BY CallsAreServed
<1>2. \A m \in DOMAIN cs : cs[m].req.id \in IdsOf(cs[m].req)
  BY DEF IdsOf
<1>3. \A y \in DOMAIN w : y \in DOMAIN r \/ (c.op = "create" /\ y \in IdsOf(c))
  <2>1. c.id \in IdsOf(c)
    BY DEF IdsOf
  <2>2. CASE w = Deleted(r, c.id)
    <3>1. DOMAIN Deleted(r, c.id) \subseteq DOMAIN r
      BY ShownIsThere DEF Deleted, View, Without
    <3> QED BY <2>2, <3>1
  <2>3. CASE c.op = "create" /\ w = Created(r, c.id, Fresh(c.place, c.text))
    BY <2>1, <2>3, CreatedLooks
  <2>4. CASE w = MovedTo(r, c.id, c.place, c.index)
    BY <2>4 DEF MovedTo, Updated
  <2>5. CASE w = Updated(r, c.id, Edited(r[c.id], c.op, c.text))
    BY <2>5, UpdatedLooks
  <2> QED BY <2>2, <2>3, <2>4, <2>5 DEF ServedShaped
<1>4. ASSUME NEW m \in DOMAIN cs, m # k, cs[m].req.op = "move", cs[m].req.id \notin DOMAIN r
      PROVE  cs[m].req.id \notin DOMAIN w
  <2> SUFFICES ASSUME cs[m].req.id \in IdsOf(c), c.op = "create" PROVE FALSE
    BY <1>3, <1>4
  <2>1. Share(cs[m].req, cs[k].req) /\ Blind(cs[m].req)
    BY <1>2, <1>4 DEF Share, Blind
  <2> QED BY <1>4, <2>1 DEF BlindAlone
<1>5. ASSUME c.op = "move", c.id \notin DOMAIN r PROVE ~v.ok
  BY <1>5, OpsApart DEF ServedShaped
<1> QED BY <1>1, <1>4, <1>5, OminousLasts

\* Whatever call arrives, the server keeps track.
LEMMA ServeTracks ==
  ASSUME NEW s, NEW g, NEW r, NEW cs, NEW fr, Grounded(s, g, r, cs, fr), Tracks(s, g, r, cs, fr),
         DOMAIN r \subseteq Ids, \A x \in DOMAIN r : r[x] \in Row,
         NEW k \in DOMAIN cs, NEW v, ServedShaped(r, cs[k].req, v), NEW ds,
         CallServed(cs, ds, k, IF v.ok THEN "ok" ELSE "refused", v.answer),
         BlindAlone(cs), cs[k].req.op # "get", ~Ominous(ds, v.rows)
  PROVE  Tracks(s, g, v.rows, ds, fr)
<1> DEFINE c == cs[k].req
           w == v.rows
<1>1. /\ DOMAIN ds = DOMAIN cs /\ \A m \in DOMAIN cs : ds[m].req = cs[m].req
      /\ \A m \in DOMAIN cs : m = k \/ ds[m] = cs[m]
      /\ cs[k].state = "sent" /\ ds[k].state = IF v.ok THEN "ok" ELSE "refused"
  BY CallsAreServed
<1>2. CASE ~v.ok
  <2>1. c.op = "create" /\ c.id \in Ranked
    BY <1>1, <1>2 DEF Ominous
  <2>2. c.id \notin Personas
    BY <2>1, TablesApart DEF Ranked
  <2>3. w = r
    BY <1>2, <2>2 DEF ServedShaped
  <2>4. CallServed(cs, ds, k, "refused", v.answer)
    BY <1>2
  <2> QED BY <2>3, <2>4, RefusedTracks
<1>3. CASE /\ v.ok /\ c.op = "create" /\ \E x \in IdsOf(c) : v.answer = Only(w, {x})
           /\ \A y : y \in DOMAIN w <=> y \in DOMAIN r \/ y \in IdsOf(c)
           /\ \A y \in DOMAIN r : y \notin IdsOf(c) => w[y] = r[y]
           /\ \A x \in IdsOf(c) : w[x].place = PlaceFor(c, x)
  <2>1. PICK u : u = w
    OBVIOUS
  <2>2. CallServed(cs, ds, k, "ok", v.answer)
    BY <1>3
  <2>3. PICK d : d = c
    OBVIOUS
  <2>4. d = cs[k].req /\ d.op = "create"
    BY <1>3, <2>3
  <2>5. Makes(r, d, u, v.answer)
    BY <1>3, <2>1, <2>3 DEF Makes
  <2>9. Tracks(s, g, u, ds, fr)
    BY <2>2, <2>4, <2>5, CreateTracks
  <2> QED BY <2>1, <2>9
<1>4. CASE /\ v.ok /\ c.op \in Edits /\ c.id \in DOMAIN r /\ v.answer = Only(w, {c.id})
           /\ w = Updated(r, c.id, Edited(r[c.id], c.op, c.text))
  <2>1. PICK u : u = w
    OBVIOUS
  <2>2. PICK d : d = c
    OBVIOUS
  <2>3. /\ d.op \in Edits /\ d.id \in DOMAIN r
        /\ u = Updated(r, d.id, Edited(r[d.id], d.op, d.text))
        /\ CallServed(cs, ds, k, "ok", Only(u, {d.id}))
    BY <1>4, <2>1, <2>2
  <2>4. /\ DOMAIN u = DOMAIN r
        /\ \A y \in DOMAIN r : u[y] = IF y = d.id THEN Edited(r[d.id], d.op, d.text) ELSE r[y]
    BY <2>3, UpdatedLooks
  <2>5. Edited(r[d.id], d.op, d.text).place = r[d.id].place
    BY <2>3 DEF Edited, Row
  <2>6. \A y \in DOMAIN r : u[y].place = r[y].place
    BY <2>4, <2>5
  <2>7. Tracks(s, g, u, ds, fr)
    BY <2>2, <2>3, <2>4, <2>6, EditTracks
  <2> QED BY <2>1, <2>7
<1>5. CASE /\ v.ok /\ c.op = "move" /\ c.id \in DOMAIN r
           /\ w = MovedTo(r, c.id, c.place, c.index)
  <2>1. PICK u : u = w
    OBVIOUS
  <2>2. PICK d : d = c
    OBVIOUS
  <2>3. /\ d.op = "move" /\ d.id \in DOMAIN r /\ u = MovedTo(r, d.id, d.place, d.index)
        /\ CallServed(cs, ds, k, "ok", v.answer)
    BY <1>5, <2>1, <2>2
  <2>4. /\ DOMAIN u = DOMAIN r /\ u[d.id].place = d.place
        /\ \A y \in DOMAIN r : y # d.id => u[y] = r[y]
    BY <2>3, MovedLooks
  <2>5. Tracks(s, g, u, ds, fr)
    BY <2>2, <2>3, <2>4, MoveTracks
  <2> QED BY <2>1, <2>5
<1>6. CASE v.ok /\ c.op = "delete" /\ w = Deleted(r, c.id)
  <2>1. PICK u : u = w
    OBVIOUS
  <2>2. PICK x : x = c.id
    OBVIOUS
  <2>3. x \notin DOMAIN s
    BY <1>6, <2>2 DEF Tracks, DeletesShow
  <2>4. DeletedCalls(cs, ds, x)
    BY <1>1, <1>6, <2>2 DEF DeletedCalls
  <2>5. u = Deleted(r, x) /\ ~Ominous(ds, u)
    BY <1>6, <2>1, <2>2
  <2>6. g \subseteq g /\ (x \in g \/ x \notin DOMAIN s)
    BY <2>3
  <2>8. Tracks(s, g, u, ds, fr)
    BY <2>4, <2>5, <2>6, GoneTracks
  <2> QED BY <2>1, <2>8
<1> QED BY <1>2, <1>3, <1>4, <1>5, <1>6 DEF ServedShaped

-----------------------------------------------------------------------------
(* Tracks: answers                                                         *)

\* Rows lie where they lay, and of those that are sent none is gone.
LEMMA AnswerTracks ==
  ASSUME NEW s, NEW g, NEW r, NEW cs, NEW fr, Grounded(s, g, r, cs, fr), Tracks(s, g, r, cs, fr),
         NEW k \in DOMAIN cs, cs[k].state # "sent", NEW ds, CallGone(cs, ds, k),
         NEW t, AnswerShaped(cs[k], s, t, FALSE), ~Ominous(ds, r)
  PROVE  Tracks(t, g, r, ds, fr)
<1> DEFINE o == cs[k]
           x == o.req.id
<1>1. \A m \in DOMAIN ds : m \in DOMAIN cs /\ ds[m] = cs[m] /\ m # k
  BY DEF CallGone
<1>2. /\ \A m \in DOMAIN cs : m = k \/ m \in DOMAIN ds
      /\ \A op, y : Sends(cs, op, y) <=> Sends(ds, op, y)
  BY DEF CallGone, Sends
<1>3. \/ DOMAIN t = DOMAIN s /\ o.state = "ok"
      \/ /\ Unborn(o) /\ o.state = "refused" /\ x \in Ranked
         /\ \A y : y \in DOMAIN t <=> y \in DOMAIN s /\ y # x
  <2>1. CASE t = Updated(s, x, o.answer[x]) /\ o.state = "ok"
    BY <2>1, UpdatedLooks
  <2>2. CASE t = Without(s, {x}) /\ o.state = "refused" /\ o.req.op = "create" /\ x \in Ranked
    BY <2>2, WithoutLooks DEF Unborn
  <2>3. CASE t = Without(s, {x}) /\ o.state = "ok" /\ o.req.op = "delete"
    <3>1. x \notin DOMAIN s
      BY <2>3 DEF Tracks, DeletesShow
    <3>2. \A y : y \in DOMAIN t <=> y \in DOMAIN s /\ y \notin {x}
      BY <2>3, WithoutLooks
    <3>3. DOMAIN t = DOMAIN s
      <4>1. DOMAIN t \subseteq DOMAIN s /\ DOMAIN s \subseteq DOMAIN t
        BY <3>1, <3>2
      <4> QED BY <4>1
    <3> QED BY <2>3, <3>3
  <2>4. CASE t = s /\ o.state = "ok"
    BY <2>4
  <2> QED BY <2>1, <2>2, <2>3, <2>4 DEF AnswerShaped
<1>4. \A y \in DOMAIN t : y \in DOMAIN s /\ t[y].place = s[y].place
  <2>1. CASE o.state = "ok" /\ Put(o.req) /\ t = Updated(s, x, o.answer[x])
    <3>1. /\ DOMAIN t = DOMAIN s
          /\ \A y \in DOMAIN s : t[y] = IF y = x THEN o.answer[x] ELSE s[y]
      BY <2>1, UpdatedLooks
    <3>2. x \in DOMAIN s => o.answer[x].place = s[x].place
      BY <2>1 DEF Tracks, PutsFit
    <3> QED BY <3>1, <3>2
  <2>2. CASE t = Without(s, {x})
    BY <2>2, WithoutLooks
  <2>3. CASE t = s
    BY <2>3
  <2> QED BY <2>1, <2>2, <2>3 DEF AnswerShaped
<1>5. \A y \in DOMAIN t : Parents(t, y) = Parents(s, y)
  BY <1>4 DEF Parents
<1>6. Lasts(s, t, fr)
  BY <1>4, <1>5, MissingLasts DEF Grounded
\* A row that goes is not there, and no other call is about it.
<1>7. ASSUME NEW y \in DOMAIN s, y \notin DOMAIN t
      PROVE  /\ y = x /\ y \notin DOMAIN r
             /\ \A m \in DOMAIN ds : ds[m].req.op = "create" => y \notin IdsOf(ds[m].req)
             /\ \A m \in DOMAIN ds : ds[m].req.op = "move" /\ ds[m].state = "sent" => y # ds[m].req.id
  <2>1. Unborn(o) /\ y = x
    BY <1>3, <1>7
  <2>2. x \in IdsOf(o.req) /\ x \notin DOMAIN r
    BY <2>1, PlacesAreKnown
  <2>3. \A m \in DOMAIN ds : ds[m].req.op = "create" => y \notin IdsOf(ds[m].req)
    <3> SUFFICES ASSUME NEW m \in DOMAIN ds, ds[m].req.op = "create", y \in IdsOf(ds[m].req)
                 PROVE  FALSE
      OBVIOUS
    <3>1. m \in DOMAIN cs /\ m # k /\ cs[m].req.op = "create" /\ cs[k].req.op = "create"
      BY <1>1, <2>1 DEF Unborn
    <3>2. Share(cs[m].req, cs[k].req)
      BY <1>1, <2>1, <2>2 DEF Share
    <3> QED BY <3>1, <3>2, PlacesAreKnown
  <2>4. \A m \in DOMAIN ds : ds[m].req.op = "move" /\ ds[m].state = "sent" => y # ds[m].req.id
    BY <2>1, <2>2 DEF Ominous
  <2> QED BY <2>1, <2>2, <2>3, <2>4
<1>8. SamePlaces(t, r, ds)
  BY <1>2, <1>4 DEF Tracks, SamePlaces
<1>9. MovesShow(t, ds)
  <2> SUFFICES ASSUME NEW m \in DOMAIN ds, ds[m].req.op = "move", ds[m].state = "sent"
               PROVE  LET d == ds[m].req
                      IN  IF d.id \in DOMAIN t THEN t[d.id].place = d.place
                          ELSE Sends(ds, "delete", d.id) \/ Missing(t, d.place)
    BY DEF MovesShow
  <2>1. m \in DOMAIN cs /\ ds[m] = cs[m] /\ RowsOf(cs[m].req.place) \cap fr = {}
    BY <1>1, PlacesAreKnown
  <2>2. IF cs[m].req.id \in DOMAIN s THEN s[cs[m].req.id].place = cs[m].req.place
        ELSE Sends(cs, "delete", cs[m].req.id) \/ Missing(s, cs[m].req.place)
    BY <2>1 DEF Tracks, MovesShow
  <2>3. CASE cs[m].req.id \in DOMAIN s
    BY <1>4, <1>7, <2>1, <2>2, <2>3
  <2>4. CASE cs[m].req.id \notin DOMAIN s
    BY <1>2, <1>4, <1>6, <2>1, <2>2, <2>4 DEF Lasts
  <2> QED BY <2>3, <2>4
<1>10. PutsFit(t, ds)
  BY <1>1, <1>4 DEF Tracks, PutsFit
<1>11. CreatesShow(t, ds)
  <2> SUFFICES ASSUME NEW m \in DOMAIN ds, ds[m].req.op = "create", ds[m].state = "sent",
                      NEW y \in IdsOf(ds[m].req)
               PROVE  IF y \in DOMAIN t THEN t[y].place = PlaceFor(ds[m].req, y)
                      ELSE Missing(t, PlaceFor(ds[m].req, y))
    BY DEF CreatesShow
  <2>1. m \in DOMAIN cs /\ ds[m] = cs[m] /\ RowsOf(PlaceFor(cs[m].req, y)) \cap fr = {}
    BY <1>1, PlacesAreKnown
  <2>2. IF y \in DOMAIN s THEN s[y].place = PlaceFor(cs[m].req, y)
        ELSE Missing(s, PlaceFor(cs[m].req, y))
    BY <2>1 DEF Tracks, CreatesShow
  <2>3. CASE y \in DOMAIN s
    BY <1>4, <1>7, <2>1, <2>2, <2>3
  <2>4. CASE y \notin DOMAIN s
    BY <1>4, <1>6, <2>1, <2>2, <2>4 DEF Lasts
  <2> QED BY <2>3, <2>4
<1>12. DeletesShow(t, ds)
  BY <1>1, <1>4 DEF Tracks, DeletesShow
<1>13. SurplusDies(t, g, r, ds, fr)
  <2> SUFFICES ASSUME NEW y \in DOMAIN t, y \notin g \cup DOMAIN r
               PROVE  \/ Sends(ds, "create", y) \/ Unmade(ds, y)
                      \/ \E q \in Parents(t, y) : Dead(r, ds, fr, q)
    BY DEF SurplusDies
  <2>1. \/ Sends(cs, "create", y) \/ Unmade(cs, y)
        \/ \E q \in Parents(s, y) : Dead(r, cs, fr, q)
    BY <1>4 DEF Tracks, SurplusDies
  <2>2. \A q : Dead(r, cs, fr, q) => Dead(r, ds, fr, q)
    BY <1>2 DEF Dead
  <2>3. ASSUME Unmade(cs, y) PROVE Unmade(ds, y)
    <3>1. PICK m \in DOMAIN cs : /\ cs[m].state = "refused" /\ cs[m].req.op = "create"
                                 /\ cs[m].req.id = y /\ y \in Ranked
      BY <2>3 DEF Unmade
    <3>2. m # k
      BY <1>3, <3>1
    <3> QED BY <1>1, <1>2, <3>1, <3>2 DEF Unmade
  <2> QED BY <1>2, <1>5, <2>1, <2>2, <2>3
<1>14. LackDies(t, r, ds)
  <2> SUFFICES ASSUME NEW y \in DOMAIN r, y \notin DOMAIN t
               PROVE  \/ Sends(ds, "delete", y) \/ Sends(ds, "move", y)
                      \/ Missing(t, r[y].place)
    BY DEF LackDies
  <2>1. y \notin DOMAIN s
    BY <1>7
  <2>2. \/ Sends(cs, "delete", y) \/ Sends(cs, "move", y) \/ Missing(s, r[y].place)
    BY <2>1 DEF Tracks, LackDies
  <2>3. RowsOf(r[y].place) \cap fr = {}
    BY PlacesAreKnown
  <2> QED BY <1>2, <1>6, <2>2, <2>3 DEF Lasts
<1> QED BY <1>8, <1>9, <1>10, <1>11, <1>12, <1>13, <1>14 DEF Tracks

-----------------------------------------------------------------------------
(* Tracks: loading                                                         *)

\* A place without rows.
LEMMA NoRowsNoPlace ==
  ASSUME NEW place \in Seq(Ids), RowsOf(place) = {}
  PROVE  place = <<>>
<1>1. DOMAIN place = {}
  BY DEF RowsOf
<1> QED BY <1>1

\* A project lies nowhere.
LEMMA ProjectsLieNowhere ==
  ASSUME NEW s, Laid(s), \A x \in DOMAIN s : s[x] \in Row, NEW p \in DOMAIN s \cap Projects
  PROVE  s[p].place = <<>>
<1>1. RowsOf(s[p].place) = {}
  BY AboveIsHigher DEF Laid, Parents
<1>2. s[p].place \in Seq(Ids)
  BY DEF Row
<1> QED BY <1>1, <1>2, NoRowsNoPlace

\* A page that has loaded keeps track.
LEMMA LoadTracks ==
  ASSUME NEW s, NEW g, NEW r, NEW cs, NEW fr, Grounded(s, g, r, cs, fr),
         DOMAIN r \subseteq Ids, \A x \in DOMAIN r : r[x] \in Row, \A x \in DOMAIN s : s[x] \in Row,
         DOMAIN s \cap Projects = DOMAIN r \cap Projects,
         NEW a, Laid(a), Avoids(a, fr), NEW y, LoadFits(a, g, r, y),
         NEW t, LoadShaped(s, a, t), NEW ds, DOMAIN ds = {}
  PROVE  Tracks(t, g, r, ds, fr)
<1>1. /\ \A x : x \in DOMAIN t <=> IF x \in Projects THEN x \in DOMAIN s ELSE x \in DOMAIN a
      /\ \A x \in DOMAIN t : t[x] = IF x \in Projects THEN s[x] ELSE a[x]
  BY DEF LoadShaped
<1>2. Laid(s) /\ Laid(r)
  BY DEF Grounded, Laid, Whole
<1>3. Shown(Without(a, g)) = DOMAIN r /\ \A x \in DOMAIN r : x \in DOMAIN a /\ a[x] = r[x]
  BY DEF LoadFits
<1>4. SamePlaces(t, r, ds)
  <2> SUFFICES ASSUME NEW x \in DOMAIN t \cap DOMAIN r PROVE t[x].place = r[x].place
    BY DEF SamePlaces
  <2>1. CASE x \in Projects
    <3>1. x \in DOMAIN s /\ t[x] = s[x]
      BY <1>1, <2>1
    <3>2. s[x].place = <<>> /\ r[x].place = <<>>
      BY <1>2, <2>1, <3>1, ProjectsLieNowhere
    <3> QED BY <3>1, <3>2
  <2>2. CASE x \notin Projects
    BY <1>1, <1>3, <2>2
  <2> QED BY <2>1, <2>2
<1>5. MovesShow(t, ds) /\ PutsFit(t, ds) /\ CreatesShow(t, ds) /\ DeletesShow(t, ds)
  BY DEF MovesShow, PutsFit, CreatesShow, DeletesShow
<1>6. SurplusDies(t, g, r, ds, fr)
  <2> SUFFICES ASSUME NEW x \in DOMAIN t, x \notin g \cup DOMAIN r
               PROVE  \E q \in Parents(t, x) : Dead(r, ds, fr, q)
    BY DEF SurplusDies
  <2>1. x \notin Projects
    BY <1>1
  <2>2. x \in DOMAIN a /\ Parents(t, x) = Parents(a, x)
    BY <1>1, <2>1 DEF Parents
  <2>3. PICK w : w = Without(a, g)
    OBVIOUS
  <2>4. /\ \A z : z \in DOMAIN w <=> z \in DOMAIN a /\ z \notin g
        /\ \A z \in DOMAIN w : w[z] = a[z] /\ Parents(w, z) = Parents(a, z)
    BY <2>3, WithoutLooks
  <2>5. Laid(w)
    BY <2>3, WithoutIsLaid
  <2>6. x \in DOMAIN w /\ x \notin Shown(w)
    BY <1>3, <2>2, <2>3, <2>4
  <2>7. PICK q \in Parents(w, x) : q \notin Shown(w)
    BY <2>5, <2>6, ShownIn
  <2>8. q \in Parents(a, x) /\ q \notin DOMAIN r
    BY <1>3, <2>3, <2>4, <2>6, <2>7
  <2>9. q \notin fr
    BY <2>2, <2>8 DEF Avoids
  <2>10. Dead(r, ds, fr, q)
    BY <2>8, <2>9 DEF Dead, Sends
  <2> QED BY <2>2, <2>8, <2>10
<1>7. LackDies(t, r, ds)
  BY <1>1, <1>3 DEF LackDies
<1> QED BY <1>4, <1>5, <1>6, <1>7 DEF Tracks

-----------------------------------------------------------------------------
(* Tracked is kept                                                         *)

\* What fair marks exclude.
LEMMA FairMarks ==
  ASSUME Marks, Fair(why)
  PROVE  /\ NoneHasty(calls) /\ BlindAlone(calls)
         /\ \A k \in DOMAIN calls : calls[k].req.op = "get" =>
              DOMAIN calls = {k} /\ page = "loading" /\ k = mount
BY DEF Marks, Marked, Fair, GetAlone

\* What is amiss with none of the projects is nothing with all of them.
LEMMA LoadedProjects ==
  ASSUME Inv, Ground, ProjectsIn, ProjectsMatched, mode = "editor", page = "loading", Fair(why),
         \A k \in DOMAIN calls : calls[k].req.op = "get"
  PROVE  DOMAIN store \cap Projects = DOMAIN rows \cap Projects
<1>1. DOMAIN store \cap Projects \subseteq DOMAIN rows /\ DOMAIN store \cap Projects # {}
  BY DEF ProjectsIn
<1>2. CASE "project" \in why
  BY <1>1, <1>2 DEF Fair, OneProject
<1>3. CASE "project" \notin why
  <2>1. ~Spoilt(calls)
    BY DEF Spoilt
  <2>2. \A p : ~Sends(calls, "delete", p)
    BY DEF Sends
  <2>3. ProjectsMatch(store, rows, calls)
    BY <1>3, <2>1 DEF ProjectsMatched
  <2> QED BY <1>1, <2>2, <2>3 DEF ProjectsMatch
<1> QED BY <1>2, <1>3

\* Every step that does not alert keeps track.
LEMMA StepKeepsTracked ==
  ASSUME Inv, Ground, Marks, ProjectsIn, Tracked, Loading, ProjectsMatched, Stepped,
         Marked(calls', why', page', mount'),
         mode' = "editor", page' # "loading", Fair(why'), ~Ominous(calls', rows')
  PROVE  Tracks(store', gone', rows', calls', fresh')
<1> DEFINE Goal == Tracks(store', gone', rows', calls', fresh')
<1>1. Grounded(store, gone, rows, calls, fresh)
  BY DEF Ground
<1>2. ASSUME why \subseteq why' PROVE Fair(why)
  BY <1>2 DEF Fair
<1>3. ASSUME why \subseteq why', page' = page \/ page # "loading", mode' = mode,
             ~Ominous(calls, rows)
      PROVE  Tracks(store, gone, rows, calls, fresh)
  BY <1>2, <1>3 DEF Tracked
<1>4. ASSUME NEW c, FormStep(c) PROVE Goal
  <2>1. /\ FormShaped(store, fresh, store', c) /\ page = "board" /\ mode' = mode
        /\ CallComes(calls, calls', Number, c) /\ why \subseteq why'
        /\ fresh' = IF c.op = "create" THEN fresh \ IdsOf(c) ELSE fresh
        /\ rows' = rows /\ gone' = gone
    BY <1>4 DEF FormStep
  <2>2. ~Ominous(calls, rows)
    BY <2>1, CallsGrow, OminousLasts
  <2>3. Tracks(store, gone, rows, calls, fresh)
    BY <1>3, <2>1, <2>2
  <2>4. PICK ds, t, fr2 : ds = calls' /\ t = store' /\ fr2 = fresh'
    OBVIOUS
  <2>5. BlindAlone(ds) /\ NoneHasty(ds) /\ ~Ominous(ds, rows)
    BY <2>1, <2>4 DEF Marked, Fair
  <2>6. FormShaped(store, fresh, t, c) /\ CallComes(calls, ds, Number, c)
    BY <2>1, <2>4
  <2>7. fr2 = IF c.op = "create" THEN fresh \ IdsOf(c) ELSE fresh
    BY <2>1, <2>4
  <2>8. fresh \in SUBSET Ids /\ \A x \in DOMAIN store : store[x] \in Row
    BY StoresAreTyped
  <2>9. Tracks(t, gone, rows, ds, fr2)
    BY <1>1, <2>3, <2>5, <2>6, <2>7, <2>8, FormTracks
  <2> QED BY <2>1, <2>4, <2>9
<1>5. ASSUME NEW p, OpenStep(p) PROVE Goal
  BY <1>5 DEF OpenStep
<1>6. ASSUME NEW k \in DOMAIN calls, NEW v, ServeStep(k, v) PROVE Goal
  <2>1. /\ ServedShaped(rows, calls[k].req, v)
        /\ CallServed(calls, calls', k, IF v.ok THEN "ok" ELSE "refused", v.answer)
        /\ rows' = v.rows
        /\ UNCHANGED <<store, page, mode, fresh, gone, why>>
    BY <1>6 DEF ServeStep
  <2>2. BlindAlone(calls) /\ calls[k].req.op # "get"
    BY <1>2, <2>1, FairMarks
  <2>3. PICK ds : ds = calls'
    OBVIOUS
  <2>4. ~Ominous(ds, v.rows) /\ CallServed(calls, ds, k, IF v.ok THEN "ok" ELSE "refused", v.answer)
    BY <2>1, <2>3
  <2>5. ~Ominous(calls, rows)
    BY <2>1, <2>2, <2>4, StoresAreTyped, ServeIsOminous
  <2>6. Tracks(store, gone, rows, calls, fresh)
    BY <1>3, <2>1, <2>5
  <2>7. DOMAIN rows \subseteq Ids /\ \A x \in DOMAIN rows : rows[x] \in Row
    BY StoresAreTyped
  <2>8. Tracks(store, gone, v.rows, ds, fresh)
    BY <1>1, <2>1, <2>2, <2>4, <2>6, <2>7, ServeTracks
  <2> QED BY <2>1, <2>3, <2>8
<1>7. ASSUME NEW k \in DOMAIN calls, RefuseStep(k) PROVE Goal
  <2>1. /\ CallServed(calls, calls', k, "refused", calls[k].answer)
        /\ UNCHANGED <<store, rows, page, mode, fresh, gone, why>>
    BY <1>7 DEF RefuseStep
  <2>2. PICK ds : ds = calls'
    OBVIOUS
  <2>3. ~Ominous(ds, rows) /\ CallServed(calls, ds, k, "refused", calls[k].answer)
    BY <2>1, <2>2
  <2>4. ~Ominous(calls, rows)
    BY <2>3, CallsAreServed, OminousLasts
  <2>5. Tracks(store, gone, rows, calls, fresh)
    BY <1>3, <2>1, <2>4
  <2>6. Tracks(store, gone, rows, ds, fresh)
    BY <1>1, <2>3, <2>5, RefusedTracks
  <2> QED BY <2>1, <2>2, <2>6
<1>8. ASSUME NEW k \in DOMAIN calls, LoseStep(k) PROVE Goal
  BY <1>8 DEF LoseStep, Amiss, Fair
<1>9. ASSUME NEW k \in DOMAIN calls, NEW alert \in BOOLEAN, AnswerStep(k, alert) PROVE Goal
  <2>1. /\ AnswerShaped(calls[k], store, store', alert) /\ CallGone(calls, calls', k)
        /\ why \subseteq why' /\ (alert => "alert" \in why')
        /\ UNCHANGED <<rows, page, mode, fresh, gone>>
    BY <1>9 DEF AnswerStep, Amiss
  <2>2. alert = FALSE
    BY <1>9, <2>1 DEF Fair
  <2>3. PICK ds, t : ds = calls' /\ t = store'
    OBVIOUS
  <2>4. AnswerShaped(calls[k], store, t, FALSE) /\ CallGone(calls, ds, k) /\ ~Ominous(ds, rows)
    BY <2>1, <2>2, <2>3
  <2>5. calls[k].state # "sent" /\ (calls[k].state = "refused" =>
                                     calls[k].req.op = "create" /\ calls[k].req.id \in Ranked)
    BY <2>4 DEF AnswerShaped
  <2>6. ~Ominous(calls, rows)
    BY <2>4, <2>5 DEF Ominous, CallGone
  <2>7. Tracks(store, gone, rows, calls, fresh)
    BY <1>3, <2>1, <2>6
  <2>8. Tracks(t, gone, rows, ds, fresh)
    BY <1>1, <2>4, <2>5, <2>7, AnswerTracks
  <2> QED BY <2>1, <2>3, <2>8
<1>10. ASSUME NEW k \in DOMAIN calls, LoadStep(k) PROVE Goal
  <2>1. /\ calls[k].req.op = "get" /\ calls[k].state # "sent" /\ CallGone(calls, calls', k)
        /\ UNCHANGED <<rows, mount, mode, fresh, gone, why>>
    BY <1>10 DEF LoadStep
  <2>2. Fair(why) /\ DOMAIN calls = {k} /\ page = "loading" /\ k = mount
    BY <1>2, <2>1, FairMarks
  <2>3. calls[k].state = "ok" /\ LoadShaped(store, calls[k].answer, store')
    BY <1>10, <2>2 DEF LoadStep
  <2>4. PICK ds, t, a : ds = calls' /\ t = store' /\ a = calls[k].answer
    OBVIOUS
  <2>5. DOMAIN ds = {}
    BY <2>1, <2>2, <2>4 DEF CallGone
  <2>6. LoadShaped(store, a, t) /\ LoadFits(a, gone, rows, why)
    BY <2>1, <2>2, <2>3, <2>4 DEF Loading
  <2>7. Laid(a) /\ Avoids(a, fresh)
    BY <1>1, <2>4 DEF Grounded, CallGrounded
  <2>8. DOMAIN store \cap Projects = DOMAIN rows \cap Projects
    BY <2>1, <2>2, LoadedProjects
  <2>9. /\ DOMAIN rows \subseteq Ids /\ \A x \in DOMAIN rows : rows[x] \in Row
        /\ \A x \in DOMAIN store : store[x] \in Row
    BY StoresAreTyped
  <2>10. Tracks(t, gone, rows, ds, fresh)
    BY <1>1, <2>5, <2>6, <2>7, <2>8, <2>9, LoadTracks
  <2> QED BY <2>1, <2>4, <2>10
<1>11. ASSUME NEW x, ElsewhereStep(x) PROVE Goal
  <2>1. /\ x \in DOMAIN rows \ Projects /\ rows' = Deleted(rows, x) /\ gone' = gone \cup {x}
        /\ why \subseteq why' /\ UNCHANGED <<store, calls, page, mode, fresh>>
    BY <1>11 DEF ElsewhereStep
  <2>2. PICK w, h : w = rows' /\ h = gone'
    OBVIOUS
  <2>3. w = Deleted(rows, x) /\ gone \subseteq h /\ x \in h /\ ~Ominous(calls, w)
    BY <2>1, <2>2
  <2>4. DOMAIN rows \subseteq Ids /\ Whole(rows)
    BY <1>1, StoresAreTyped DEF Grounded
  <2>5. DOMAIN w \subseteq DOMAIN rows
    BY <2>3, <2>4, DeletedLooks
  <2>6. ~Ominous(calls, rows)
    BY <2>3, <2>5 DEF Ominous
  <2>7. Tracks(store, gone, rows, calls, fresh)
    BY <1>3, <2>1, <2>6
  <2>8. DeletedCalls(calls, calls, x)
    BY DEF DeletedCalls
  <2>9. Tracks(store, h, w, calls, fresh)
    BY <1>1, <2>3, <2>4, <2>7, <2>8, GoneTracks
  <2> QED BY <2>1, <2>2, <2>9
<1>12. ASSUME IdleStep PROVE Goal
  <2>1. UNCHANGED <<store, rows, calls, page, mode, fresh, gone, why>>
    BY <1>12 DEF IdleStep
  <2> QED BY <1>3, <2>1
<1> QED BY <1>4, <1>5, <1>6, <1>7, <1>8, <1>9, <1>10, <1>11, <1>12 DEF Stepped

-----------------------------------------------------------------------------
(* Loading is kept                                                         *)

\* A load that was just served is right,
LEMMA FreshLoadFits ==
  ASSUME NEW g, NEW r, Whole(r), g \cap DOMAIN r = {}, NEW y
  PROVE  LoadFits(r, g, r, y)
<1>1. PICK w : w = Without(r, g)
  OBVIOUS
<1>2. /\ \A x : x \in DOMAIN w <=> x \in DOMAIN r /\ x \notin g
      /\ \A x \in DOMAIN w : Parents(w, x) = Parents(r, x)
  BY <1>1, WithoutLooks
<1>3. DOMAIN w \subseteq DOMAIN r /\ DOMAIN r \subseteq DOMAIN w
  BY <1>2
<1>4. DOMAIN w = DOMAIN r
  BY <1>3
<1>5. Shown(w) = DOMAIN r
  BY <1>2, <1>4, SameShown, WholeIsShown
<1> QED BY <1>1, <1>5 DEF LoadFits

\* and stays so with more marks,
LEMMA LaterLoadFits ==
  ASSUME NEW a, NEW g, NEW r, NEW y, LoadFits(a, g, r, y), NEW z, y \subseteq z
  PROVE  LoadFits(a, g, r, z)
BY DEF LoadFits

\* and when others delete what it holds.
LEMMA GoneLoadFits ==
  ASSUME NEW a, Laid(a), NEW g, NEW r, NEW y, LoadFits(a, g, r, y), Whole(r),
         DOMAIN r \subseteq Ids, g \cap DOMAIN r = {}, NEW x, NEW z, "elsewhere" \in z
  PROVE  LoadFits(a, g \cup {x}, Deleted(r, x), z)
<1>1. PICK w : w = Without(a, g)
  OBVIOUS
<1>2. PICK v : v = Without(a, g \cup {x})
  OBVIOUS
<1>3. PICK d : d = Deleted(r, x)
  OBVIOUS
<1>4. PICK u : u = Without(r, {x})
  OBVIOUS
<1>5. /\ \A q : q \in DOMAIN w <=> q \in DOMAIN a /\ q \notin g
      /\ \A q \in DOMAIN w : Parents(w, q) = Parents(a, q)
  BY <1>1, WithoutLooks
<1>6. /\ \A q : q \in DOMAIN v <=> q \in DOMAIN a /\ q \notin g \cup {x}
      /\ \A q \in DOMAIN v : Parents(v, q) = Parents(a, q)
      /\ Laid(v)
  BY <1>2, WithoutLooks, WithoutIsLaid
<1>7. /\ \A q : q \in DOMAIN u <=> q \in DOMAIN r /\ q \notin {x}
      /\ \A q \in DOMAIN u : Parents(u, q) = Parents(r, q)
  BY <1>4, WithoutLooks
<1>8. /\ Shown(w) = DOMAIN r
      /\ \A q \in DOMAIN r : q \in DOMAIN a /\ a[q] = r[q] /\ Parents(a, q) = Parents(r, q)
  BY <1>1 DEF LoadFits, Parents
<1>9. /\ \A q \in DOMAIN d : /\ q \in DOMAIN r /\ q # x /\ d[q] = r[q]
                             /\ Parents(d, q) = Parents(r, q) /\ Parents(d, q) \subseteq DOMAIN d
      /\ DOMAIN d = Shown(u)
  <2>1. Whole(d) /\ DOMAIN d \subseteq DOMAIN r \ {x}
    BY <1>3, DeletedLooks
  <2>2. \A q \in DOMAIN d : d[q] = r[q] /\ Parents(d, q) = Parents(r, q)
    BY <1>3, DeletedLooks
  <2>3. DOMAIN d = Shown(u)
    BY <1>3, <1>4 DEF Deleted, View
  <2> QED BY <2>1, <2>2, <2>3 DEF Whole
<1>10. DOMAIN d \subseteq Shown(v)
  <2>1. DOMAIN d \subseteq DOMAIN v
    BY <1>6, <1>8, <1>9
  <2>2. \A q \in DOMAIN d : Parents(v, q) \subseteq DOMAIN d
    BY <1>6, <1>8, <1>9, <2>1
  <2> QED BY <2>1, <2>2, ShownIsGreatest
<1>11. \A q \in Shown(v) : q \in DOMAIN v /\ Parents(v, q) \subseteq Shown(v)
  BY <1>6, ShownIsThere, ShownIsClosed
<1>12. Shown(v) \subseteq Shown(w)
  <2>1. Shown(v) \subseteq DOMAIN w /\ \A q \in Shown(v) : Parents(w, q) \subseteq Shown(v)
    BY <1>5, <1>6, <1>11
  <2> QED BY <2>1, ShownIsGreatest
<1>13. Shown(v) \subseteq Shown(u)
  <2>1. Shown(v) \subseteq DOMAIN u
    BY <1>6, <1>7, <1>8, <1>11, <1>12
  <2>2. \A q \in Shown(v) : Parents(u, q) \subseteq Shown(v)
    BY <1>6, <1>7, <1>8, <1>11, <1>12, <2>1
  <2> QED BY <2>1, <2>2, ShownIsGreatest
<1>14. Shown(v) = DOMAIN d
  BY <1>9, <1>10, <1>13
<1>15. \A q \in DOMAIN d : q \in DOMAIN a /\ a[q] = d[q]
  BY <1>8, <1>9
<1> QED BY <1>2, <1>3, <1>14, <1>15 DEF LoadFits

\* Every step keeps the load right.
LEMMA StepKeepsLoading ==
  ASSUME Inv, Ground, Marks, Loading, Stepped,
         mode' = "editor", page' = "loading", Fair(why'),
         NEW k \in DOMAIN calls', calls'[k].state = "ok"
  PROVE  LoadFits(calls'[k].answer, gone', rows', why')
<1> DEFINE Goal == LoadFits(calls'[k].answer, gone', rows', why')
<1>1. ASSUME k \in DOMAIN calls, calls'[k] = calls[k], why \subseteq why', page = "loading",
             UNCHANGED <<gone, rows, mode>>
      PROVE  Goal
  <2>1. Fair(why)
    BY <1>1 DEF Fair
  <2>2. LoadFits(calls[k].answer, gone, rows, why)
    BY <1>1, <2>1 DEF Loading
  <2>3. PICK z : z = why'
    OBVIOUS
  <2>4. LoadFits(calls[k].answer, gone, rows, z)
    BY <1>1, <2>2, <2>3, LaterLoadFits
  <2> QED BY <1>1, <2>3, <2>4
<1>2. ASSUME NEW c, FormStep(c) PROVE Goal
  BY <1>2 DEF FormStep
<1>3. ASSUME NEW p, OpenStep(p) PROVE Goal
  <2>1. Calls = {} /\ CallComes(calls, calls', Number, Get(p))
    BY <1>3 DEF OpenStep, Fair
  <2>2. calls'[k].state = "sent"
    BY <2>1 DEF Calls, CallComes, SentCall
  <2> QED BY <2>2
<1>4. ASSUME NEW m \in DOMAIN calls, NEW v, ServeStep(m, v) PROVE Goal
  <2>1. /\ ServedShaped(rows, calls[m].req, v)
        /\ CallServed(calls, calls', m, IF v.ok THEN "ok" ELSE "refused", v.answer)
        /\ rows' = v.rows
        /\ UNCHANGED <<store, page, mode, fresh, gone, why>>
    BY <1>4 DEF ServeStep
  <2>2. OnlyGets(calls) /\ GetAlone(calls, page, mount)
    BY <2>1 DEF Marks, Marked, Fair
  <2>3. DOMAIN calls' = DOMAIN calls /\ calls[m].req.op = "get" /\ k = m
    BY <2>1, <2>2 DEF OnlyGets, GetAlone, CallServed
  <2>4. v.ok /\ calls'[k].answer = v.answer
    BY <2>1, <2>3 DEF CallServed
  <2>5. v.rows = rows /\ v.answer = rows
    BY <2>1, <2>3, <2>4, OpsApart DEF ServedShaped
  <2>6. LoadFits(rows, gone, rows, why)
    BY FreshLoadFits DEF Ground, Grounded
  <2> QED BY <2>1, <2>4, <2>5, <2>6
<1>5. ASSUME NEW m \in DOMAIN calls, RefuseStep(m) PROVE Goal
  <2>1. k \in DOMAIN calls /\ calls'[k] = calls[k]
    BY <1>5, CallsAreServed DEF RefuseStep
  <2> QED BY <1>1, <1>5, <2>1 DEF RefuseStep
<1>6. ASSUME NEW m \in DOMAIN calls, LoseStep(m) PROVE Goal
  BY <1>6 DEF LoseStep, Amiss, Fair
<1>7. ASSUME NEW m \in DOMAIN calls, NEW alert \in BOOLEAN, AnswerStep(m, alert) PROVE Goal
  <2>1. /\ k \in DOMAIN calls /\ calls'[k] = calls[k] /\ why \subseteq why'
        /\ page = "loading" /\ UNCHANGED <<gone, rows, mode>>
    BY <1>7 DEF AnswerStep, CallGone, Amiss
  <2> QED BY <1>1, <2>1
<1>8. ASSUME NEW m \in DOMAIN calls, LoadStep(m) PROVE Goal
  <2>1. /\ k \in DOMAIN calls /\ calls'[k] = calls[k] /\ why \subseteq why'
        /\ page = "loading" /\ UNCHANGED <<gone, rows, mode>>
    BY <1>8 DEF LoadStep, CallGone
  <2> QED BY <1>1, <2>1
<1>9. ASSUME NEW x, ElsewhereStep(x) PROVE Goal
  <2>1. /\ rows' = Deleted(rows, x) /\ gone' = gone \cup {x} /\ why' = why \cup {"elsewhere"}
        /\ UNCHANGED <<calls, page, mode>>
    BY <1>9 DEF ElsewhereStep
  <2>2. Fair(why)
    BY <2>1 DEF Fair
  <2>3. LoadFits(calls[k].answer, gone, rows, why)
    BY <2>1, <2>2 DEF Loading
  <2>4. Laid(calls[k].answer)
    BY <2>1 DEF Ground, Grounded, CallGrounded
  <2>5. /\ Whole(rows) /\ gone \cap DOMAIN rows = {} /\ DOMAIN rows \subseteq Ids
    BY StoresAreTyped DEF Ground, Grounded
  <2>6. PICK z : z = why'
    OBVIOUS
  <2>7. "elsewhere" \in z
    BY <2>1, <2>6
  <2>8. LoadFits(calls[k].answer, gone \cup {x}, Deleted(rows, x), z)
    BY <2>3, <2>4, <2>5, <2>7, GoneLoadFits
  <2> QED BY <2>1, <2>6, <2>8
<1>10. ASSUME IdleStep PROVE Goal
  BY <1>1, <1>10 DEF IdleStep
<1> QED BY <1>2, <1>3, <1>4, <1>5, <1>6, <1>7, <1>8, <1>9, <1>10 DEF Stepped

-----------------------------------------------------------------------------
(* Settled rows                                                            *)

\* The calls that a settled row x depends on.
Bears(o, x) == \/ Put(o.req) /\ o.req.id = x /\ o.state # "refused"
               \/ BlindEdit(o, x)

\* The same calls bear on x.
SameBearing(cs, ds, x) ==
  /\ \A k \in DOMAIN cs : Bears(cs[k], x) => k \in DOMAIN ds /\ ds[k] = cs[k]
  /\ \A k \in DOMAIN ds : Bears(ds[k], x) => k \in DOMAIN cs /\ ds[k] = cs[k]

\* A row stays settled so long as it and its calls are the same.
LEMMA SettledStays ==
  ASSUME NEW s, NEW r, NEW cs, NEW x, Settled(s, r, cs, x),
         NEW t, NEW w, NEW ds, t[x] = s[x], w[x] = r[x], SameBearing(cs, ds, x)
  PROVE  Settled(t, w, ds, x)
<1>1. \A k : k \in Puts(cs, x) <=> k \in Puts(ds, x)
  BY DEF Puts, SameBearing, Bears
<1>2. \A k \in Puts(cs, x) : ds[k] = cs[k]
  BY DEF Puts, SameBearing, Bears
<1>3. ASSUME NEW k \in DOMAIN cs, Put(cs[k].req), cs[k].req.id = x, cs[k].state = "sent"
      PROVE  Settled(t, w, ds, x)
  <2>1. k \in DOMAIN ds /\ ds[k] = cs[k]
    BY <1>3 DEF SameBearing, Bears
  <2> QED BY <1>3, <2>1 DEF Settled
<1>4. ASSUME NEW k \in Puts(cs, x), cs[k].answer[x] = r[x],
             \A n \in Puts(cs, x) : cs[n].turn <= cs[k].turn
      PROVE  Settled(t, w, ds, x)
  <2>1. k \in Puts(ds, x) /\ ds[k].answer[x] = w[x]
    BY <1>1, <1>2, <1>4
  <2>2. \A n \in Puts(ds, x) : ds[n].turn <= ds[k].turn
    BY <1>1, <1>2, <1>4
  <2> QED BY <2>1, <2>2 DEF Settled
<1>5. ASSUME Puts(cs, x) = {} PROVE Puts(ds, x) = {}
  BY <1>1, <1>5
<1>6. CASE Puts(cs, x) = {} /\ s[x] = r[x] /\ \A k \in DOMAIN cs : ~BlindEdit(cs[k], x)
  <2>1. \A k \in DOMAIN ds : ~BlindEdit(ds[k], x)
    BY <1>6 DEF SameBearing, Bears
  <2> QED BY <1>5, <1>6, <2>1 DEF Settled
<1>7. ASSUME Puts(cs, x) = {}, NEW k \in DOMAIN cs, BlindEdit(cs[k], x),
             s[x] = Edited(r[x], cs[k].req.op, cs[k].req.text)
      PROVE  Settled(t, w, ds, x)
  <2>1. k \in DOMAIN ds /\ ds[k] = cs[k]
    BY <1>7 DEF SameBearing, Bears
  <2>2. t[x] = Edited(w[x], ds[k].req.op, ds[k].req.text)
    BY <1>7, <2>1
  <2>3. BlindEdit(ds[k], x) /\ Puts(ds, x) = {}
    BY <1>5, <1>7, <2>1
  <2> QED BY <2>1, <2>2, <2>3 DEF Settled
<1> QED BY <1>3, <1>4, <1>6, <1>7 DEF Settled

\* Nothing is under way about it.
LEMMA SettledAlone ==
  ASSUME NEW s, NEW r, NEW cs, NEW x, \A k \in DOMAIN cs : ~Bears(cs[k], x),
         \A k \in DOMAIN cs : cs[k].state \in {"sent", "ok", "refused"}
  PROVE  Settled(s, r, cs, x) <=> s[x] = r[x]
<1>1. Puts(cs, x) = {}
  BY DEF Puts, Bears
<1>2. \A k \in DOMAIN cs : ~BlindEdit(cs[k], x)
  BY DEF Bears
<1>3. \A k \in DOMAIN cs : ~(Put(cs[k].req) /\ cs[k].req.id = x /\ cs[k].state = "sent")
  BY DEF Bears
<1> QED BY <1>1, <1>2, <1>3 DEF Settled

\* An edit of x is sent.
LEMMA EditSettled ==
  ASSUME NEW s, NEW r, NEW cs, NEW x, Settled(s, r, cs, x),
         \A k \in DOMAIN cs : cs[k].state \in {"sent", "ok", "refused"},
         NEW c, c.op \in Edits, c.id = x, NEW n, NEW ds, CallComes(cs, ds, n, c),
         Blind(c) => BlindAlone(ds),
         NEW t, t[x] = Edited(s[x], c.op, c.text)
  PROVE  Settled(t, r, ds, x)
<1>1. n \in DOMAIN ds /\ ds[n].req = c /\ ds[n].state = "sent"
  BY CallsGrow
<1>2. CASE ~Blind(c)
  BY <1>1, <1>2 DEF Settled, Put
<1>3. CASE Blind(c)
  <2>1. ASSUME NEW k \in DOMAIN cs PROVE ~Bears(cs[k], x)
    <3> SUFFICES ASSUME Bears(cs[k], x) PROVE FALSE
      OBVIOUS
    <3>1. k \in DOMAIN ds /\ ds[k] = cs[k] /\ k # n
      BY CallsGrow
    <3>2. cs[k].req.id = x /\ cs[k].req.op \in Edits \cup {"create"}
      BY DEF Bears, Put, BlindEdit
    <3>3. Share(ds[n].req, ds[k].req)
      BY <1>1, <3>1, <3>2 DEF Share, IdsOf
    <3>4. ds[k].req.op = "delete"
      BY <1>1, <1>3, <3>1, <3>3 DEF BlindAlone
    <3> QED BY <3>1, <3>2, <3>4, OpsApart
  <2>2. s[x] = r[x]
    BY <2>1, SettledAlone
  <2>3. \A k \in DOMAIN ds : k = n \/ ~Bears(ds[k], x)
    BY <2>1, CallsGrow
  <2>4. Puts(ds, x) = {}
    BY <1>1, <1>3, <2>3, OpsApart DEF Puts, Bears, Put
  <2>5. BlindEdit(ds[n], x)
    BY <1>1, <1>3 DEF BlindEdit
  <2>6. t[x] = Edited(r[x], ds[n].req.op, ds[n].req.text)
    BY <1>1, <2>2
  <2> QED BY <1>1, <2>4, <2>5, <2>6 DEF Settled
<1> QED BY <1>2, <1>3

\* A call is served whose answer brings the row.
LEMMA PutServed ==
  ASSUME NEW s, NEW w, NEW cs, NEW x, NEW k, Put(cs[k].req), cs[k].req.id = x,
         NEW a, a[x] = w[x], NEW ds, CallServed(cs, ds, k, "ok", a)
  PROVE  Settled(s, w, ds, x)
<1>1. k \in DOMAIN ds /\ ds[k].req = cs[k].req /\ ds[k].state = "ok" /\ ds[k].answer = a
  BY DEF CallServed
<1>2. k \in Puts(ds, x)
  BY <1>1 DEF Puts
<1>3. \A m \in DOMAIN ds : ds[m].turn <= ds[k].turn
  BY DEF CallServed
<1>4. \A m \in Puts(ds, x) : ds[m].turn <= ds[k].turn
  BY <1>3 DEF Puts
<1>5. ds[k].answer[x] = w[x]
  BY <1>1
<1> QED BY <1>2, <1>4, <1>5 DEF Settled

\* An edit is served whose answer is not used.
LEMMA BlindServed ==
  ASSUME NEW s, NEW r, NEW w, NEW cs, BlindAlone(cs), NEW x, Settled(s, r, cs, x),
         NEW k, NEW c, c = cs[k].req, Blind(c), c.id = x, c.op \in Edits,
         w[x] = Edited(r[x], c.op, c.text), NEW a, NEW ds, CallServed(cs, ds, k, "ok", a)
  PROVE  Settled(s, w, ds, x)
<1>1. /\ k \in DOMAIN cs /\ DOMAIN ds = DOMAIN cs /\ ds[k].req = c /\ ds[k].state = "ok"
      /\ cs[k].state = "sent" /\ \A m \in DOMAIN cs : m # k => ds[m] = cs[m]
  BY DEF CallServed
<1>2. ASSUME NEW m \in DOMAIN cs, m # k PROVE ~Bears(cs[m], x)
  <2> SUFFICES ASSUME Bears(cs[m], x) PROVE FALSE
    OBVIOUS
  <2>1. cs[m].req.id = x /\ cs[m].req.op \in Edits \cup {"create"}
    BY DEF Bears, Put, BlindEdit
  <2>2. Share(cs[k].req, cs[m].req)
    BY <2>1 DEF Share, IdsOf
  <2>3. cs[m].req.op = "delete"
    BY <1>1, <1>2, <2>2 DEF BlindAlone
  <2> QED BY <2>1, <2>3, OpsApart
<1>3. ~Put(c)
  BY OpsApart DEF Put
<1>4. Puts(cs, x) = {} /\ Puts(ds, x) = {}
  BY <1>1, <1>2, <1>3 DEF Puts, Bears
<1>5. BlindEdit(cs[k], x)
  BY <1>1 DEF BlindEdit
<1>6. \A m \in DOMAIN cs : BlindEdit(cs[m], x) => m = k
  BY <1>2 DEF Bears
<1>7. ~\E m \in DOMAIN cs : Put(cs[m].req) /\ cs[m].req.id = x /\ cs[m].state = "sent"
  BY <1>1, <1>2, <1>3 DEF Bears
<1>8. s[x] = Edited(r[x], c.op, c.text)
  BY <1>1, <1>4, <1>5, <1>6, <1>7 DEF Settled
<1>9. \A m \in DOMAIN ds : ~BlindEdit(ds[m], x)
  BY <1>1, <1>6 DEF BlindEdit
<1> QED BY <1>4, <1>8, <1>9 DEF Settled

\* No older answer about the row of the call k is still to come.
InTurn(cs, k) ==
  \A n \in DOMAIN cs : n # k /\ cs[n].req.id = cs[k].req.id /\ cs[n].state # "sent" =>
    ~(cs[n].turn < cs[k].turn)

\* The answer that is put in is the server's row, or a later one is to come.
LEMMA PutAnswered ==
  ASSUME NEW s, NEW r, NEW cs, TurnsDiffer(cs), \A m \in DOMAIN cs : cs[m].turn \in Nat,
         NEW x, Settled(s, r, cs, x), NEW k \in Puts(cs, x), InTurn(cs, k),
         \A m \in DOMAIN cs : ~BlindEdit(cs[m], x),
         NEW ds, CallGone(cs, ds, k), NEW t, t[x] = cs[k].answer[x]
  PROVE  Settled(t, r, ds, x)
<1>1. /\ \A m : m \in DOMAIN ds <=> m \in DOMAIN cs /\ m # k
      /\ \A m \in DOMAIN ds : ds[m] = cs[m]
  BY DEF CallGone
<1>2. /\ \A m : m \in Puts(ds, x) <=> m \in Puts(cs, x) /\ m # k
      /\ \A m \in Puts(ds, x) : ds[m] = cs[m]
  BY <1>1 DEF Puts
<1>3. ASSUME NEW m \in DOMAIN cs, Put(cs[m].req), cs[m].req.id = x, cs[m].state = "sent"
      PROVE  Settled(t, r, ds, x)
  <2>1. m # k
    BY <1>3 DEF Puts
  <2>2. m \in DOMAIN ds /\ ds[m] = cs[m]
    BY <1>1, <1>3, <2>1
  <2> QED BY <1>3, <2>2 DEF Settled
<1>4. ASSUME NEW m \in Puts(cs, x), cs[m].answer[x] = r[x],
             \A n \in Puts(cs, x) : cs[n].turn <= cs[m].turn
      PROVE  Settled(t, r, ds, x)
  <2>1. CASE m # k
    <3>1. m \in Puts(ds, x) /\ ds[m].answer[x] = r[x]
      BY <1>2, <1>4, <2>1
    <3>2. \A n \in Puts(ds, x) : ds[n].turn <= ds[m].turn
      BY <1>2, <1>4, <3>1
    <3> QED BY <3>1, <3>2 DEF Settled
  <2>2. CASE m = k
    <3>1. ASSUME NEW n \in Puts(cs, x), n # k PROVE FALSE
      <4>1. /\ n \in DOMAIN cs /\ cs[n].req.id = cs[k].req.id /\ cs[n].state # "sent"
            /\ k \in DOMAIN cs /\ cs[k].state # "sent"
        BY <3>1 DEF Puts
      <4>2. ~(cs[n].turn < cs[k].turn) /\ cs[n].turn # cs[k].turn
        BY <3>1, <4>1 DEF InTurn, TurnsDiffer
      <4>3. cs[n].turn <= cs[k].turn /\ cs[n].turn \in Nat /\ cs[k].turn \in Nat
        BY <1>4, <2>2, <4>1
      <4> QED BY <4>2, <4>3
    <3>2. Puts(ds, x) = {}
      BY <1>2, <3>1
    <3>3. t[x] = r[x]
      BY <1>4, <2>2
    <3>4. \A n \in DOMAIN ds : ~BlindEdit(ds[n], x)
      BY <1>1
    <3> QED BY <3>2, <3>3, <3>4 DEF Settled
  <2> QED BY <2>1, <2>2
<1> QED BY <1>3, <1>4 DEF Settled

-----------------------------------------------------------------------------
(* Nothing is under way                                                    *)

\* Once nothing is under way, the rows of the server are those that are shown: what
\* only one side has lies below a row that the other side does not have either.
LEMMA QuietShown ==
  ASSUME NEW s, NEW g, NEW r, NEW cs, NEW fr, Grounded(s, g, r, cs, fr), Tracks(s, g, r, cs, fr),
         DOMAIN cs = {}, DOMAIN s \subseteq Ids, DOMAIN r \subseteq Ids
  PROVE  Shown(Without(s, g)) = DOMAIN r
<1>1. PICK w : w = Without(s, g)
  OBVIOUS
<1>2. /\ \A x : x \in DOMAIN w <=> x \in DOMAIN s /\ x \notin g
      /\ \A x \in DOMAIN w : w[x] = s[x] /\ Parents(w, x) = Parents(s, x)
  BY <1>1, WithoutLooks
<1>3. Laid(s) /\ Laid(w) /\ Whole(r) /\ g \cap DOMAIN r = {}
  BY <1>1, WithoutIsLaid DEF Grounded
<1>4. \A op, x : ~Sends(cs, op, x)
  BY DEF Sends
<1>5. \A x : ~Unmade(cs, x)
  BY DEF Unmade
<1>6. Shown(w) \subseteq DOMAIN w
  BY ShownIsThere
<1>7. \A x \in DOMAIN s \cap DOMAIN r : Parents(s, x) = Parents(r, x)
  BY <1>4 DEF Tracks, SamePlaces, Parents
<1>8. Shown(w) \subseteq DOMAIN r
  <2> DEFINE Y == Shown(w) \ DOMAIN r
  <2>1. ASSUME NEW x \in Y PROVE Above(x) \cap Y # {}
    <3>1. x \in DOMAIN s /\ x \notin g \cup DOMAIN r
      BY <1>2, <1>6
    <3>2. PICK q \in Parents(s, x) : Dead(r, cs, fr, q)
      BY <1>4, <1>5, <3>1 DEF Tracks, SurplusDies
    <3>3. q \in Shown(w)
      BY <1>2, <1>3, <1>6, <3>2, ShownIsClosed
    <3>4. q \in Above(x)
      BY <1>3, <3>1, <3>2 DEF Laid
    <3> QED BY <3>2, <3>3, <3>4 DEF Dead
  <2>2. Y \in SUBSET Ids
    BY <1>2, <1>6
  <2>3. Y = {}
    BY <2>1, <2>2, NoOrphans
  <2> QED BY <2>3
<1>9. DOMAIN r \subseteq Shown(w)
  <2> DEFINE Y == DOMAIN r \ Shown(w)
  <2>1. ASSUME NEW x \in Y PROVE Above(x) \cap Y # {}
    <3>1. Parents(r, x) \subseteq DOMAIN r \cap Above(x)
      BY <1>3 DEF Whole
    <3>2. CASE x \in DOMAIN s
      <4>1. x \in DOMAIN w /\ Parents(w, x) = Parents(r, x)
        BY <1>2, <1>3, <1>7, <3>2
      <4>2. PICK q \in Parents(w, x) : q \notin Shown(w)
        BY <1>3, <4>1, ShownIn
      <4> QED BY <3>1, <4>1, <4>2
    <3>3. CASE x \notin DOMAIN s
      <4>1. PICK q \in Parents(r, x) : Off(s, q)
        BY <1>4, <3>3 DEF Tracks, LackDies, Missing, Parents
      <4>2. q \notin Shown(w)
        <5> SUFFICES ASSUME q \in Shown(w) PROVE FALSE
          OBVIOUS
        <5>1. Parents(w, q) \subseteq Shown(w)
          BY <1>3, ShownIsClosed
        <5>2. q \in DOMAIN w /\ Parents(w, q) = Parents(s, q)
          BY <1>2, <1>6
        <5> QED BY <1>2, <1>6, <4>1, <5>1, <5>2 DEF Off
      <4> QED BY <3>1, <4>1, <4>2
    <3> QED BY <3>2, <3>3
  <2>2. Y \in SUBSET Ids
    OBVIOUS
  <2>3. Y = {}
    BY <2>1, <2>2, NoOrphans
  <2> QED BY <2>3
<1> QED BY <1>1, <1>8, <1>9

\* If they match as well, they are the same in every field.
LEMMA QuietMatches ==
  ASSUME NEW s, NEW g, NEW r, NEW cs, NEW fr, Grounded(s, g, r, cs, fr), Tracks(s, g, r, cs, fr),
         DOMAIN cs = {}, DOMAIN s \subseteq Ids, DOMAIN r \subseteq Ids, Matches(s, g, r, cs)
  PROVE  /\ Shown(s) = DOMAIN r
         /\ \A x \in DOMAIN r : x \in DOMAIN s /\ s[x] = r[x]
<1>1. PICK w : w = Without(s, g)
  OBVIOUS
<1>2. /\ \A x : x \in DOMAIN w <=> x \in DOMAIN s /\ x \notin g
      /\ \A x \in DOMAIN w : w[x] = s[x] /\ Parents(w, x) = Parents(s, x)
  BY <1>1, WithoutLooks
<1>3. Shown(w) = DOMAIN r
  BY <1>1, QuietShown
<1>4. DOMAIN w = DOMAIN s
  <2>1. DOMAIN w \subseteq DOMAIN s /\ DOMAIN s \subseteq DOMAIN w
    BY <1>2 DEF Matches
  <2> QED BY <2>1
<1>5. Shown(s) = Shown(w)
  BY <1>2, <1>4, SameShown
<1>6. ASSUME NEW x \in DOMAIN r PROVE x \in DOMAIN s /\ s[x] = r[x]
  <2>1. x \in DOMAIN s
    BY <1>3, <1>5, ShownIsThere
  <2>2. NoMove(cs)
    BY DEF NoMove
  <2>3. Settled(s, r, cs, x)
    BY <2>1, <2>2 DEF Matches, CommonSettled
  <2>4. s[x] = r[x]
    BY <2>3, SettledAlone
  <2> QED BY <2>1, <2>4
<1> QED BY <1>3, <1>5, <1>6

\* A card gets the same rank among the same cards.
LEMMA SameMove ==
  ASSUME NEW s, Laid(s), NEW r, Whole(r), Shown(s) = DOMAIN r,
         \A x \in DOMAIN r : x \in DOMAIN s /\ s[x] = r[x],
         NEW c, c.id \in DOMAIN r, RowsOf(c.place) \subseteq DOMAIN r,
         NEW t, t = MovedTo(s, c.id, c.place, c.index), s[c.id] \in Row
  PROVE  MoveFits(t, r, c)
<1> DEFINE place == c.place
           i == c.index
           L == InPlace(s, c.id, place)
           M == InPlace(r, c.id, place)
<1>1. ASSUME NEW y \in DOMAIN s, s[y].place = place PROVE y \in DOMAIN r
  <2>1. Parents(s, y) \subseteq Shown(s)
    BY <1>1 DEF Parents
  <2> QED BY <2>1, ShownIn
<1>2. L = M
  <2>1. \A y : y \in L <=> y \in DOMAIN s /\ SameSlice(c.id, y) /\ s[y].place = place
    BY DEF InPlace
  <2>2. \A y : y \in M <=> y \in DOMAIN r /\ SameSlice(c.id, y) /\ r[y].place = place
    BY DEF InPlace
  <2>3. \A y : y \in L <=> y \in M
    BY <1>1, <2>1, <2>2
  <2> QED BY <2>3
<1>3. ASSUME NEW K, \A z \in K : s[z] = r[z], NEW j PROVE RankAt(s, K, j) = RankAt(r, K, j)
  <2>1. \A q : Below(s, K, q) = Below(r, K, q)
    BY <1>3 DEF Below
  <2>2. \A q : UpTo(s, K, q) = UpTo(r, K, q)
    BY <1>3 DEF UpTo
  <2> DEFINE A == {y \in K : /\ Cardinality(Below(s, K, s[y].rank)) < j
                             /\ j <= Cardinality(UpTo(s, K, s[y].rank))}
             B == {y \in K : /\ Cardinality(Below(r, K, r[y].rank)) < j
                             /\ j <= Cardinality(UpTo(r, K, r[y].rank))}
  <2>3. A = B
    BY <1>3, <2>1, <2>2
  <2>4. RankAt(s, K, j) = IF A = {} THEN <<>> ELSE s[CHOOSE y \in A : TRUE].rank
    BY DEF RankAt
  <2>5. RankAt(r, K, j) = IF B = {} THEN <<>> ELSE r[CHOOSE y \in B : TRUE].rank
    BY DEF RankAt
  <2>6. CASE B = {}
    BY <2>3, <2>4, <2>5, <2>6
  <2>7. CASE B # {}
    <3>1. (CHOOSE y \in B : TRUE) \in B
      BY <2>7
    <3>2. (CHOOSE y \in B : TRUE) \in K
      BY <3>1
    <3>3. s[CHOOSE y \in B : TRUE] = r[CHOOSE y \in B : TRUE]
      BY <1>3, <3>2
    <3> HIDE DEF A, B
    <3> QED BY <2>3, <2>4, <2>5, <2>7, <3>3
  <2> QED BY <2>6, <2>7
<1>4. \A z \in L \ {c.id} : s[z] = r[z]
  BY <1>2 DEF InPlace
<1>5. PICK K : K = L \ {c.id}
  OBVIOUS
<1>6. RankAt(s, K, i) = RankAt(r, K, i) /\ RankAt(s, K, i + 1) = RankAt(r, K, i + 1)
  BY <1>3, <1>4, <1>5
<1>7. PICK rs, rr : /\ rs = Rank(RankAt(s, K, i), RankAt(s, K, i + 1)).rank
                    /\ rr = Rank(RankAt(r, K, i), RankAt(r, K, i + 1)).rank
  OBVIOUS
<1>8. rs = rr
  BY <1>6, <1>7
<1>9. PICK a, b : /\ a = [s[c.id] EXCEPT !.place = place, !.rank = rs]
                  /\ b = [r[c.id] EXCEPT !.place = place, !.rank = rr]
  OBVIOUS
<1>10. a = b
  BY <1>8, <1>9
<1>11. t = Updated(s, c.id, a)
  BY <1>5, <1>7, <1>9 DEF MovedTo
<1>12. PICK u : u = MovedTo(r, c.id, place, i)
  OBVIOUS
<1>13. u = Updated(r, c.id, b)
  BY <1>2, <1>5, <1>7, <1>9, <1>12 DEF MovedTo
<1>14. /\ DOMAIN t = DOMAIN s
       /\ \A y \in DOMAIN s : t[y] = IF y = c.id THEN a ELSE s[y]
  BY <1>11, UpdatedLooks
<1>15. \A y \in DOMAIN r : u[y] = IF y = c.id THEN b ELSE r[y]
  BY <1>13, UpdatedLooks
<1>16. \A x \in DOMAIN r : x \in DOMAIN t /\ t[x] = u[x]
  BY <1>10, <1>14, <1>15
<1> QED BY <1>12, <1>16 DEF MoveFits

-----------------------------------------------------------------------------
(* Matches: forms                                                          *)

\* Rows that both sides have are settled.
CommonSettles(s, r, cs) == \A x \in DOMAIN s \cap DOMAIN r : Settled(s, r, cs, x)

\* What the call c that comes bears on.
LEMMA NewBearing ==
  ASSUME NEW cs, NEW ds, NEW n, NEW c, CallComes(cs, ds, n, c), NEW x,
         x = c.id => c.op \notin Edits \cup {"create"}
  PROVE  SameBearing(cs, ds, x)
<1>1. /\ \A m \in DOMAIN cs : m \in DOMAIN ds /\ ds[m] = cs[m] /\ m # n
      /\ \A m \in DOMAIN ds : m = n \/ (m \in DOMAIN cs /\ ds[m] = cs[m])
      /\ n \in DOMAIN ds /\ ds[n].req = c
  BY CallsGrow
<1>2. ~Bears(ds[n], x)
  BY <1>1 DEF Bears, Put, BlindEdit
<1> QED BY <1>1, <1>2 DEF SameBearing

\* A form leaves every row settled, unless a move is under way.
LEMMA FormSettles ==
  ASSUME NEW s, NEW r, NEW cs, NEW fr, Avoids(r, fr), CommonSettles(s, r, cs),
         \A k \in DOMAIN cs : cs[k].state \in {"sent", "ok", "refused"},
         NEW t, NEW c, FormShaped(s, fr, t, c), c.op # "move",
         NEW n, NEW ds, CallComes(cs, ds, n, c), BlindAlone(ds)
  PROVE  CommonSettles(t, r, ds)
<1> SUFFICES ASSUME NEW x \in DOMAIN t, x \in DOMAIN r PROVE Settled(t, r, ds, x)
  BY DEF CommonSettles
<1>1. CASE Making(s, fr, t, c)
  <2>1. /\ IdsOf(c) \subseteq fr /\ DOMAIN t = DOMAIN s \cup IdsOf(c)
        /\ \A y \in DOMAIN s \ IdsOf(c) : t[y] = s[y]
    BY <1>1 DEF Making
  <2>2. x \notin fr
    BY DEF Avoids
  <2>3. x \in DOMAIN s /\ t[x] = s[x]
    BY <2>1, <2>2
  <2>4. x # c.id
    BY <2>1, <2>2 DEF IdsOf
  <2>5. SameBearing(cs, ds, x)
    BY <2>4, NewBearing
  <2>6. Settled(s, r, cs, x)
    BY <2>3 DEF CommonSettles
  <2> QED BY <2>3, <2>5, <2>6, SettledStays
<1>2. CASE Moving(s, t, c)
  BY <1>2 DEF Moving
<1>3. CASE Editing(s, t, c)
  <2>1. /\ c.op \in Edits /\ c.id \in Shown(s)
        /\ t = Updated(s, c.id, Edited(s[c.id], c.op, c.text))
    BY <1>3 DEF Editing
  <2>2. /\ DOMAIN t = DOMAIN s
        /\ \A y \in DOMAIN s : t[y] = IF y = c.id THEN Edited(s[c.id], c.op, c.text) ELSE s[y]
    BY <2>1, UpdatedLooks
  <2>3. Settled(s, r, cs, x)
    BY <2>2 DEF CommonSettles
  <2>4. CASE x = c.id
    <3>1. t[x] = Edited(s[x], c.op, c.text)
      BY <2>2, <2>4
    <3> QED BY <2>1, <2>3, <2>4, <3>1, EditSettled
  <2>5. CASE x # c.id
    <3>1. SameBearing(cs, ds, x)
      BY <2>5, NewBearing
    <3>2. t[x] = s[x]
      BY <2>2, <2>5
    <3> QED BY <2>3, <3>1, <3>2, SettledStays
  <2> QED BY <2>4, <2>5
<1>4. CASE Deleting(s, t, c)
  <2>1. c.op = "delete" /\ x \in DOMAIN s /\ t[x] = s[x]
    BY <1>4 DEF Deleting
  <2>2. SameBearing(cs, ds, x)
    BY <2>1, NewBearing, OpsApart
  <2>3. Settled(s, r, cs, x)
    BY <2>1 DEF CommonSettles
  <2> QED BY <2>1, <2>2, <2>3, SettledStays
<1> QED BY <1>1, <1>2, <1>3, <1>4 DEF FormShaped

\* A new persona's row is what its form says until its creation is served.
LEMMA FormKeepsPeople ==
  ASSUME NEW s, NEW g, NEW r, NEW cs, NEW fr, Grounded(s, g, r, cs, fr), NewPeople(s, cs),
         \A x \in DOMAIN s : s[x] \in Row,
         NEW t, NEW c, FormShaped(s, fr, t, c),
         NEW n, NEW ds, CallComes(cs, ds, n, c), BlindAlone(ds)
  PROVE  NewPeople(t, ds)
<1> SUFFICES ASSUME NEW k \in DOMAIN ds, ds[k].req.op = "create", ds[k].state = "sent",
                    NEW x \in IdsOf(ds[k].req), x \in DOMAIN t,
                    x \in Personas \cup WorkflowPersonas
             PROVE  t[x] = Fresh(PlaceFor(ds[k].req, x),
                                 IF x = ds[k].req.id THEN ds[k].req.text ELSE Blank)
  BY DEF NewPeople
<1>1. /\ \A m \in DOMAIN ds : m = n \/ (m \in DOMAIN cs /\ ds[m] = cs[m] /\ m # n)
      /\ n \in DOMAIN ds /\ ds[n].req = c
  BY CallsGrow
<1>2. CASE k = n
  <2>1. ds[k].req = c /\ c.op = "create"
    BY <1>1, <1>2
  <2>2. Making(s, fr, t, c)
    BY <2>1, OpsApart DEF FormShaped, Moving, Editing, Deleting
  <2> QED BY <2>1, <2>2 DEF Making
<1>3. CASE k # n
  <2>1. k \in DOMAIN cs /\ ds[k] = cs[k]
    BY <1>1, <1>3
  <2>2. x \notin fr
    BY <2>1 DEF Grounded, CallGrounded
  <2>3. CASE x \in DOMAIN s /\ t[x] = s[x]
    BY <2>1, <2>3 DEF NewPeople
  <2>4. CASE Making(s, fr, t, c)
    BY <2>2, <2>3, <2>4 DEF Making
  <2>5. CASE Moving(s, t, c)
    <3>1. c.op = "move" /\ c.id \in Ranked /\ t = MovedTo(s, c.id, c.place, c.index)
      BY <2>5, OpsApart DEF Moving, FormShaped, Placed
    <3>2. x # c.id
      BY <3>1, TablesApart DEF Ranked
    <3>3. x \in DOMAIN s /\ t[x] = s[x]
      BY <3>1, <3>2 DEF MovedTo, Updated
    <3> QED BY <2>3, <3>3
  <2>6. CASE Editing(s, t, c)
    <3>1. /\ c.op \in Edits /\ c.id \notin WorkflowPersonas
          /\ c.id \in Personas => c.op = "rename"
          /\ t = Updated(s, c.id, Edited(s[c.id], c.op, c.text))
      BY <2>6 DEF Editing, FormShaped, Placed
    <3>2. /\ DOMAIN t = DOMAIN s
          /\ \A y \in DOMAIN s : t[y] = IF y = c.id THEN Edited(s[c.id], c.op, c.text) ELSE s[y]
      BY <3>1, UpdatedLooks
    <3>3. x # c.id
      <4> SUFFICES ASSUME x = c.id PROVE FALSE
        OBVIOUS
      <4>1. Blind(c)
        BY <3>1 DEF Blind
      <4>2. Share(ds[n].req, ds[k].req)
        BY <1>1 DEF Share, IdsOf
      <4>3. ds[k].req.op = "delete"
        BY <1>1, <1>3, <4>1, <4>2 DEF BlindAlone
      <4> QED BY <4>3
    <3> QED BY <2>3, <3>2, <3>3
  <2>7. CASE Deleting(s, t, c)
    BY <2>3, <2>7 DEF Deleting
  <2> QED BY <2>4, <2>5, <2>6, <2>7 DEF FormShaped
<1> QED BY <1>2, <1>3

\* A card is moved when nothing else is under way.
LEMMA FormMatches ==
  ASSUME NEW s, NEW g, NEW r, NEW cs, NEW fr, g \subseteq Ids, fr \subseteq Ids,
         Grounded(s, g, r, cs, fr), Tracks(s, g, r, cs, fr), Matches(s, g, r, cs),
         DOMAIN s \subseteq Ids, \A x \in DOMAIN s : s[x] \in Row, DOMAIN r \subseteq Ids,
         \A k \in DOMAIN cs : cs[k].state \in {"sent", "ok", "refused"},
         NEW t, NEW c, FormShaped(s, fr, t, c), c.op \in Ops,
         NEW n, NEW ds, CallComes(cs, ds, n, c), BlindAlone(ds), MoveAlone(ds)
  PROVE  Matches(t, g, r, ds)
<1>1. /\ \A m \in DOMAIN cs : m \in DOMAIN ds /\ ds[m] = cs[m] /\ m # n
      /\ \A m \in DOMAIN ds : m = n \/ (m \in DOMAIN cs /\ ds[m] = cs[m])
      /\ n \in DOMAIN ds /\ ds[n].req = c /\ ds[n].state = "sent"
  BY CallsGrow
<1>2. NewPeople(t, ds)
  BY FormKeepsPeople DEF Matches
<1>3. \A y \in DOMAIN t : y \in DOMAIN s \/ y \in fr
  <2>1. CASE Moving(s, t, c)
    BY <2>1 DEF Moving, MovedTo, Updated
  <2>2. CASE Editing(s, t, c)
    BY <2>2 DEF Editing, Updated
  <2> QED BY <2>1, <2>2 DEF FormShaped, Making, Deleting
<1>4. g \cap DOMAIN t = {}
  BY <1>3 DEF Grounded, Matches
<1>5. ASSUME NEW k \in DOMAIN ds, ds[k].req.op = "move" PROVE k = n /\ DOMAIN cs = {}
  <2>1. DOMAIN ds = {k}
    BY <1>5 DEF MoveAlone
  <2> QED BY <1>1, <2>1
<1>6. CASE c.op # "move"
  <2>1. \A k \in DOMAIN ds : ds[k].req.op # "move"
    BY <1>1, <1>5, <1>6
  <2>2. MovesFit(t, r, ds)
    BY <2>1 DEF MovesFit
  <2>3. NoMove(cs)
    BY <1>1, <2>1 DEF NoMove
  <2>4. CommonSettles(s, r, cs)
    BY <2>3 DEF Matches, CommonSettled, CommonSettles
  <2>5. Avoids(r, fr)
    BY DEF Grounded
  <2>6. CommonSettles(t, r, ds)
    BY <1>6, <2>4, <2>5, FormSettles
  <2>7. CommonSettled(t, r, ds)
    BY <2>6 DEF CommonSettled, CommonSettles
  <2> QED BY <1>2, <1>4, <2>2, <2>7 DEF Matches
<1>7. CASE c.op = "move"
  <2>1. DOMAIN cs = {} /\ \A k \in DOMAIN ds : k = n
    BY <1>1, <1>5, <1>7
  <2>2. Moving(s, t, c)
    BY <1>7, OpsApart DEF FormShaped, Making, Editing, Deleting
  <2>3. c.id \in Shown(s) /\ RowsOf(c.place) \subseteq Shown(s) /\ t = MovedTo(s, c.id, c.place, c.index)
    BY <2>2 DEF Moving
  <2>4. Shown(s) = DOMAIN r /\ \A x \in DOMAIN r : x \in DOMAIN s /\ s[x] = r[x]
    BY <2>1, QuietMatches
  <2>5. Laid(s) /\ Whole(r)
    BY DEF Grounded
  <2>6. MoveFits(t, r, c)
    BY <2>3, <2>4, <2>5, SameMove
  <2>7. MovesFit(t, r, ds)
    BY <1>1, <2>1, <2>6 DEF MovesFit
  <2>8. ~NoMove(ds)
    BY <1>1, <1>7 DEF NoMove
  <2> QED BY <1>2, <1>4, <2>7, <2>8 DEF Matches, CommonSettled
<1> QED BY <1>6, <1>7

-----------------------------------------------------------------------------
(* Matches: the server                                                     *)

\* A call that is served bears on its own row.
LEMMA ServedBearing ==
  ASSUME NEW cs, NEW ds, NEW k, NEW st, NEW a, CallServed(cs, ds, k, st, a), NEW x,
         x = cs[k].req.id => cs[k].req.op \notin Edits \cup {"create"}
  PROVE  SameBearing(cs, ds, x)
<1>1. /\ DOMAIN ds = DOMAIN cs /\ ds[k].req = cs[k].req
      /\ \A m \in DOMAIN cs : m # k => ds[m] = cs[m]
  BY DEF CallServed
<1>2. ~Bears(cs[k], x) /\ ~Bears(ds[k], x)
  BY <1>1 DEF Bears, Put, BlindEdit
<1> QED BY <1>1, <1>2 DEF SameBearing

\* What a creation makes is settled.
LEMMA CreateSettles ==
  ASSUME NEW s, NEW g, NEW r, NEW cs, NEW fr, Grounded(s, g, r, cs, fr), NewPeople(s, cs),
         CommonSettles(s, r, cs), BlindAlone(cs),
         NEW k \in DOMAIN cs, NEW c, c = cs[k].req, c.op = "create", c.id \in Ids,
         NEW w, NEW a, Makes(r, c, w, a), NEW ds, CallServed(cs, ds, k, "ok", a),
         \A x \in IdsOf(c) \cap (Personas \cup WorkflowPersonas) :
           w[x] = Fresh(PlaceFor(c, x), IF x = c.id THEN c.text ELSE Blank)
  PROVE  CommonSettles(s, w, ds)
<1> SUFFICES ASSUME NEW x \in DOMAIN s, x \in DOMAIN w PROVE Settled(s, w, ds, x)
  BY DEF CommonSettles
<1>1. /\ \E z \in IdsOf(c) : a = Only(w, {z})
      /\ \A y : y \in DOMAIN w <=> y \in DOMAIN r \/ y \in IdsOf(c)
      /\ \A y \in DOMAIN r : y \notin IdsOf(c) => w[y] = r[y]
  BY DEF Makes
<1>2. CASE x \notin IdsOf(c)
  <2>1. x \in DOMAIN r /\ w[x] = r[x] /\ x # c.id
    BY <1>1, <1>2 DEF IdsOf
  <2>2. SameBearing(cs, ds, x)
    BY <2>1, ServedBearing
  <2>3. Settled(s, r, cs, x)
    BY <2>1 DEF CommonSettles
  <2> QED BY <2>1, <2>2, <2>3, SettledStays
<1>3. CASE x \in IdsOf(c) /\ c.id \in Ranked \cup Comments
  <2>1. c.id \notin Personas
    BY <1>3, TablesApart DEF Ranked
  <2>2. c.to = <<>>
    BY <2>1 DEF Grounded, CallGrounded, Placed
  <2>3. IdsOf(c) = {c.id}
    BY <2>2 DEF IdsOf
  <2>4. x = c.id /\ a = Only(w, {x}) /\ Put(cs[k].req)
    BY <1>1, <1>3, <2>3 DEF Put
  <2>5. a[x] = w[x]
    BY <2>4 DEF Only
  <2>6. cs[k].req.id = x
    BY <2>4
  <2> QED BY <2>4, <2>5, <2>6, PutServed
<1>4. CASE x \in IdsOf(c) /\ c.id \notin Ranked \cup Comments
  <2>1. c.id \notin Projects /\ (c.to # <<>> => c.id \in Personas /\ c.to[1] \in WorkflowPersonas)
    BY DEF Grounded, CallGrounded, Placed
  <2>2. c.id \in Personas \cup WorkflowPersonas
    BY <1>4, <2>1 DEF Ids, Tables, Ranked
  <2>3. x \in Personas \cup WorkflowPersonas
    BY <1>4, <2>1, <2>2 DEF IdsOf
  <2>4. cs[k].state = "sent"
    BY DEF CallServed
  <2>5. s[x] = w[x]
    BY <1>4, <2>3, <2>4 DEF NewPeople
  <2>6. ASSUME NEW m \in DOMAIN ds PROVE ~Bears(ds[m], x)
    <3> SUFFICES ASSUME Bears(ds[m], x) PROVE FALSE
      OBVIOUS
    <3>1. m \in DOMAIN cs /\ ds[m].req = cs[m].req
      BY DEF CallServed
    <3>2. ~Put(cs[m].req) \/ cs[m].req.id # x
      <4> SUFFICES ASSUME Put(cs[m].req), cs[m].req.id = x PROVE FALSE
        OBVIOUS
      <4>1. x \notin Ranked \cup Comments
        BY <2>3, TablesApart DEF Ranked
      <4>2. cs[m].req.op \in Edits /\ ~Blind(cs[m].req)
        BY <4>1 DEF Put
      <4>3. Placed(cs[m].req)
        BY <3>1 DEF Grounded, CallGrounded
      <4> QED BY <2>3, <4>2, <4>3 DEF Placed, Blind
    <3>3. BlindEdit(ds[m], x)
      BY <3>1, <3>2 DEF Bears
    <3>4. Blind(cs[m].req) /\ cs[m].req.id = x /\ cs[m].req.op \in Edits
      BY <3>1, <3>3 DEF BlindEdit
    <3>5. m # k
      BY <3>4, OpsApart
    <3>6. Share(cs[m].req, cs[k].req)
      BY <1>4, <3>4 DEF Share, IdsOf
    <3>7. cs[k].req.op = "delete"
      BY <3>1, <3>4, <3>5, <3>6 DEF BlindAlone
    <3> QED BY <3>7
  <2>7. Puts(ds, x) = {}
    BY <2>6 DEF Puts, Bears
  <2>8. \A m \in DOMAIN ds : ~BlindEdit(ds[m], x)
    BY <2>6 DEF Bears
  <2> QED BY <2>5, <2>7, <2>8 DEF Settled
<1> QED BY <1>2, <1>3, <1>4

\* An edit is served.
LEMMA EditServed ==
  ASSUME NEW s, NEW r, NEW cs, CommonSettles(s, r, cs), BlindAlone(cs),
         NEW k \in DOMAIN cs, NEW c, c = cs[k].req, c.op \in Edits,
         NEW w, DOMAIN w = DOMAIN r,
         \A y \in DOMAIN r : w[y] = IF y = c.id THEN Edited(r[c.id], c.op, c.text) ELSE r[y],
         NEW ds, CallServed(cs, ds, k, "ok", Only(w, {c.id}))
  PROVE  CommonSettles(s, w, ds)
<1> SUFFICES ASSUME NEW x \in DOMAIN s, x \in DOMAIN w PROVE Settled(s, w, ds, x)
  BY DEF CommonSettles
<1>1. Settled(s, r, cs, x)
  BY DEF CommonSettles
<1>2. CASE x # c.id
  <2>1. SameBearing(cs, ds, x)
    BY <1>2, ServedBearing
  <2>2. w[x] = r[x]
    BY <1>2
  <2> QED BY <1>1, <2>1, <2>2, SettledStays
<1>3. CASE x = c.id /\ ~Blind(c)
  <2>1. Put(cs[k].req) /\ cs[k].req.id = x
    BY <1>3 DEF Put
  <2>2. PICK a : a = Only(w, {c.id})
    OBVIOUS
  <2>3. a[x] = w[x]
    BY <1>3, <2>2 DEF Only
  <2>4. CallServed(cs, ds, k, "ok", a)
    BY <2>2
  <2> QED BY <2>1, <2>3, <2>4, PutServed
<1>4. CASE x = c.id /\ Blind(c)
  <2>1. w[x] = Edited(r[x], c.op, c.text)
    BY <1>4
  <2>2. PICK a : CallServed(cs, ds, k, "ok", a)
    OBVIOUS
  <2>3. c.id = x /\ Blind(c)
    BY <1>4
  <2> QED BY <1>1, <2>1, <2>2, <2>3, BlindServed
<1> QED BY <1>2, <1>3, <1>4

\* Rows of calls that are not creations or edits stay as they are.
LEMMA OtherServed ==
  ASSUME NEW s, NEW r, NEW cs, CommonSettles(s, r, cs),
         NEW k \in DOMAIN cs, NEW st, NEW a, NEW ds, CallServed(cs, ds, k, st, a),
         NEW w, \A y \in DOMAIN w : y \in DOMAIN r /\ w[y] = r[y],
         cs[k].req.op \notin Edits \cup {"create"} \/ cs[k].req.id \notin DOMAIN w
  PROVE  CommonSettles(s, w, ds)
<1> SUFFICES ASSUME NEW x \in DOMAIN s, x \in DOMAIN w PROVE Settled(s, w, ds, x)
  BY DEF CommonSettles
<1>1. SameBearing(cs, ds, x)
  BY ServedBearing
<1>2. Settled(s, r, cs, x)
  BY DEF CommonSettles
<1> QED BY <1>1, <1>2, SettledStays

\* The only move is served when nothing else is under way.
LEMMA MoveServed ==
  ASSUME NEW s, NEW r, NEW cs, NEW k \in DOMAIN cs, DOMAIN cs = {k}, cs[k].req.op = "move",
         NEW w, w = MovedTo(r, cs[k].req.id, cs[k].req.place, cs[k].req.index),
         MoveFits(s, r, cs[k].req), NEW ds, DOMAIN ds = {k}, ds[k].req = cs[k].req,
         ds[k].state = "ok"
  PROVE  CommonSettles(s, w, ds)
<1> SUFFICES ASSUME NEW x \in DOMAIN s, x \in DOMAIN w PROVE Settled(s, w, ds, x)
  BY DEF CommonSettles
<1>1. DOMAIN w = DOMAIN r
  BY DEF MovedTo, Updated
<1>2. s[x] = w[x]
  BY <1>1 DEF MoveFits
<1>3. ~Bears(ds[k], x)
  BY OpsApart DEF Bears, Put, BlindEdit
<1> QED BY <1>2, <1>3, SettledAlone

\* Serving a call keeps the stores matched.
LEMMA ServeMatches ==
  ASSUME NEW s, NEW g, NEW r, NEW cs, NEW fr, Grounded(s, g, r, cs, fr), Matches(s, g, r, cs),
         DOMAIN r \subseteq Ids, \A x \in DOMAIN r : r[x] \in Row,
         NEW k \in DOMAIN cs, cs[k].req.id \in Ids,
         NEW v, v = Served(r, cs[k].req), ServedShaped(r, cs[k].req, v), NEW ds,
         CallServed(cs, ds, k, IF v.ok THEN "ok" ELSE "refused", v.answer),
         BlindAlone(cs), MoveAlone(cs), cs[k].req.op # "get", ~Ominous(ds, v.rows)
  PROVE  Matches(s, g, v.rows, ds)
<1> DEFINE c == cs[k].req
           w == v.rows
<1>1. /\ DOMAIN ds = DOMAIN cs /\ \A m \in DOMAIN cs : ds[m].req = cs[m].req
      /\ \A m \in DOMAIN cs : m = k \/ ds[m] = cs[m]
      /\ cs[k].state = "sent" /\ ds[k].state = IF v.ok THEN "ok" ELSE "refused"
  BY CallsAreServed
<1>2. NewPeople(s, ds)
  BY <1>1 DEF Matches, NewPeople
<1>3. MovesFit(s, w, ds)
  <2> SUFFICES ASSUME NEW m \in DOMAIN ds, ds[m].req.op = "move", ds[m].state = "sent" PROVE FALSE
    BY DEF MovesFit
  <2>1. m # k /\ m \in DOMAIN cs /\ cs[m].req.op = "move"
    BY <1>1
  <2>2. DOMAIN cs = {m}
    BY <2>1 DEF MoveAlone
  <2> QED BY <2>1, <2>2
<1>4. g \cap DOMAIN s = {}
  BY DEF Matches
<1> SUFFICES ASSUME NoMove(ds) PROVE CommonSettles(s, w, ds)
  BY <1>2, <1>3, <1>4 DEF Matches, CommonSettled, CommonSettles
<1>5. ASSUME c.op # "move" PROVE CommonSettles(s, r, cs)
  <2>1. NoMove(cs)
    BY <1>1, <1>5 DEF NoMove
  <2> QED BY <2>1 DEF Matches, CommonSettled, CommonSettles
<1>6. CASE ~v.ok
  <2>1. c.op = "create" /\ c.id \in Ranked
    BY <1>1, <1>6 DEF Ominous
  <2>2. c.id \notin Personas
    BY <2>1, TablesApart DEF Ranked
  <2>3. w = r
    BY <1>6, <2>2 DEF ServedShaped
  <2>4. Unborn(cs[k]) /\ c.id \in IdsOf(c)
    BY <1>1, <2>1 DEF Unborn, IdsOf
  <2>5. c.id \notin DOMAIN w
    BY <2>3, <2>4, PlacesAreKnown
  <2>6. CommonSettles(s, r, cs)
    BY <1>5, <2>1
  <2>7. PICK u : u = w
    OBVIOUS
  <2>8. /\ \A y \in DOMAIN u : y \in DOMAIN r /\ u[y] = r[y]
        /\ cs[k].req.id \notin DOMAIN u
    BY <2>3, <2>5, <2>7
  <2>9. PICK st, a : CallServed(cs, ds, k, st, a)
    OBVIOUS
  <2>10. CommonSettles(s, u, ds)
    BY <2>6, <2>8, <2>9, OtherServed
  <2> QED BY <2>7, <2>10
<1>7. CASE /\ v.ok /\ c.op = "create" /\ \E x \in IdsOf(c) : v.answer = Only(w, {x})
           /\ \A y : y \in DOMAIN w <=> y \in DOMAIN r \/ y \in IdsOf(c)
           /\ \A y \in DOMAIN r : y \notin IdsOf(c) => w[y] = r[y]
           /\ \A x \in IdsOf(c) : w[x].place = PlaceFor(c, x)
           /\ \A x \in IdsOf(c) \cap (Personas \cup WorkflowPersonas) :
                w[x] = Fresh(PlaceFor(c, x), IF x = c.id THEN c.text ELSE Blank)
  <2>1. PICK u, d : u = w /\ d = c
    OBVIOUS
  <2>2. CallServed(cs, ds, k, "ok", v.answer)
    BY <1>7
  <2>3. d = cs[k].req /\ d.op = "create" /\ d.id \in Ids
    BY <1>7, <2>1
  <2>4. Makes(r, d, u, v.answer)
    BY <1>7, <2>1 DEF Makes
  <2>5. \A x \in IdsOf(d) \cap (Personas \cup WorkflowPersonas) :
          u[x] = Fresh(PlaceFor(d, x), IF x = d.id THEN d.text ELSE Blank)
    BY <1>7, <2>1
  <2>6. CommonSettles(s, r, cs) /\ NewPeople(s, cs)
    BY <1>5, <1>7 DEF Matches
  <2>7. CommonSettles(s, u, ds)
    BY <2>2, <2>3, <2>4, <2>5, <2>6, CreateSettles
  <2> QED BY <2>1, <2>7
<1>8. CASE /\ v.ok /\ c.op \in Edits /\ c.id \in DOMAIN r /\ v.answer = Only(w, {c.id})
           /\ w = Updated(r, c.id, Edited(r[c.id], c.op, c.text))
  <2>1. PICK u, d : u = w /\ d = c
    OBVIOUS
  <2>2. /\ d = cs[k].req /\ d.op \in Edits
        /\ u = Updated(r, d.id, Edited(r[d.id], d.op, d.text))
        /\ CallServed(cs, ds, k, "ok", Only(u, {d.id}))
    BY <1>8, <2>1
  <2>3. /\ DOMAIN u = DOMAIN r
        /\ \A y \in DOMAIN r : u[y] = IF y = d.id THEN Edited(r[d.id], d.op, d.text) ELSE r[y]
    BY <2>2, UpdatedLooks
  <2>4. CommonSettles(s, r, cs)
    BY <1>5, <1>8, OpsApart
  <2>5. CommonSettles(s, u, ds)
    BY <2>2, <2>3, <2>4, EditServed
  <2> QED BY <2>1, <2>5
<1>9. CASE /\ v.ok /\ c.op = "move" /\ w = MovedTo(r, c.id, c.place, c.index)
  <2>1. DOMAIN cs = {k}
    BY <1>9 DEF MoveAlone
  <2>2. MoveFits(s, r, c)
    BY <1>1, <1>9 DEF Matches, MovesFit
  <2>3. PICK u : u = w
    OBVIOUS
  <2>4. /\ u = MovedTo(r, cs[k].req.id, cs[k].req.place, cs[k].req.index)
        /\ cs[k].req.op = "move" /\ MoveFits(s, r, cs[k].req)
    BY <1>9, <2>2, <2>3
  <2>5. DOMAIN ds = {k} /\ ds[k].req = cs[k].req /\ ds[k].state = "ok"
    BY <1>1, <1>9, <2>1
  <2>6. CommonSettles(s, u, ds)
    BY <2>1, <2>4, <2>5, MoveServed
  <2> QED BY <2>3, <2>6
<1>10. CASE v.ok /\ c.op = "delete" /\ w = Deleted(r, c.id)
  <2>1. PICK u, x : u = w /\ x = c.id
    OBVIOUS
  <2>2. Whole(r)
    BY DEF Grounded
  <2>3. u = Deleted(r, x)
    BY <1>10, <2>1
  <2>4. \A y \in DOMAIN u : y \in DOMAIN r /\ u[y] = r[y]
    BY <2>2, <2>3, DeletedLooks
  <2>5. cs[k].req.op \notin Edits \cup {"create"}
    BY <1>10, OpsApart
  <2>6. PICK st, a : CallServed(cs, ds, k, st, a)
    OBVIOUS
  <2>7. CommonSettles(s, r, cs)
    BY <1>5, <1>10
  <2>8. CommonSettles(s, u, ds)
    BY <2>4, <2>5, <2>6, <2>7, OtherServed
  <2> QED BY <2>1, <2>8
<1> QED BY <1>6, <1>7, <1>8, <1>9, <1>10 DEF ServedShaped

\* A refused card is not there on the server.
LEMMA RefuseMatches ==
  ASSUME NEW s, NEW g, NEW r, NEW cs, NEW fr, Grounded(s, g, r, cs, fr), Matches(s, g, r, cs),
         NEW k \in DOMAIN cs, NEW a, NEW ds, CallServed(cs, ds, k, "refused", a),
         ~Ominous(ds, r)
  PROVE  Matches(s, g, r, ds)
<1>1. /\ DOMAIN ds = DOMAIN cs /\ \A m \in DOMAIN cs : ds[m].req = cs[m].req
      /\ \A m \in DOMAIN cs : m = k \/ ds[m] = cs[m]
      /\ cs[k].state = "sent" /\ ds[k].state = "refused"
  BY CallsAreServed
<1>2. cs[k].req.op = "create" /\ cs[k].req.id \in Ranked
  BY <1>1 DEF Ominous
<1>3. NewPeople(s, ds) /\ MovesFit(s, r, ds) /\ g \cap DOMAIN s = {}
  BY <1>1 DEF Matches, NewPeople, MovesFit
<1>4. Unborn(cs[k]) /\ cs[k].req.id \in IdsOf(cs[k].req)
  BY <1>1, <1>2 DEF Unborn, IdsOf
<1>5. cs[k].req.id \notin DOMAIN r
  BY <1>4, PlacesAreKnown
<1>6. ASSUME NoMove(ds) PROVE CommonSettles(s, r, ds)
  <2>1. NoMove(cs)
    BY <1>1, <1>2, <1>6 DEF NoMove
  <2>2. CommonSettles(s, r, cs)
    BY <2>1 DEF Matches, CommonSettled, CommonSettles
  <2> QED BY <1>5, <2>2, OtherServed
<1> QED BY <1>3, <1>6 DEF Matches, CommonSettled, CommonSettles

-----------------------------------------------------------------------------
(* Matches: answers                                                        *)

\* A call that goes and bears on no row is not missed.
LEMMA GoneBearing ==
  ASSUME NEW cs, NEW ds, NEW k, CallGone(cs, ds, k), NEW x, ~Bears(cs[k], x)
  PROVE  SameBearing(cs, ds, x)
BY DEF CallGone, SameBearing

\* What an answer does to a row.
LEMMA AnswerLooks ==
  ASSUME NEW o, NEW s, NEW t, NEW alert, AnswerShaped(o, s, t, alert), o.state # "sent",
         NEW y \in DOMAIN t
  PROVE  /\ y \in DOMAIN s
         /\ \/ t[y] = s[y] /\ ~Bears(o, y)
            \/ /\ Put(o.req) /\ o.req.id = y /\ o.state = "ok" /\ t[y] = o.answer[y]
<1> DEFINE x == o.req.id
<1>1. \A z : ~BlindEdit(o, z)
  BY DEF BlindEdit
<1>2. CASE o.state = "ok" /\ Put(o.req) /\ t = Updated(s, x, o.answer[x])
  <2>1. /\ DOMAIN t = DOMAIN s
        /\ \A z \in DOMAIN s : t[z] = IF z = x THEN o.answer[x] ELSE s[z]
    BY <1>2, UpdatedLooks
  <2> QED BY <1>1, <1>2, <2>1 DEF Bears
<1>3. CASE o.state = "refused"
  <2>1. t = s \/ t = Without(s, {x})
    BY <1>3 DEF AnswerShaped
  <2>2. y \in DOMAIN s /\ t[y] = s[y]
    BY <2>1, WithoutLooks
  <2> QED BY <1>1, <1>3, <2>2 DEF Bears
<1>4. CASE o.state = "ok" /\ o.req.op = "delete" /\ t = Without(s, {x})
  <2>1. y \in DOMAIN s /\ t[y] = s[y]
    BY <1>4, WithoutLooks
  <2>2. ~Put(o.req)
    BY <1>4, OpsApart DEF Put
  <2> QED BY <1>1, <2>1, <2>2 DEF Bears
<1>5. CASE o.state = "ok" /\ ~Put(o.req) /\ t = s
  BY <1>1, <1>5 DEF Bears
<1> QED BY <1>2, <1>3, <1>4, <1>5 DEF AnswerShaped

\* An answer leaves a row settled if no older answer is to come.
LEMMA AnswerSettles ==
  ASSUME NEW s, NEW r, NEW cs, TurnsDiffer(cs), \A m \in DOMAIN cs : cs[m].turn \in Nat,
         NEW k \in DOMAIN cs, cs[k].state # "sent", NEW ds, CallGone(cs, ds, k),
         NEW t, NEW alert, AnswerShaped(cs[k], s, t, alert),
         NEW y \in DOMAIN t, Settled(s, r, cs, y),
         cs[k].req.id = y /\ Put(cs[k].req) /\ cs[k].state = "ok" => InTurn(cs, k),
         cs[k].req.id = y /\ Put(cs[k].req) => \A m \in DOMAIN cs : ~BlindEdit(cs[m], y)
  PROVE  Settled(t, r, ds, y)
<1> DEFINE o == cs[k]
<1>1. CASE t[y] = s[y] /\ ~Bears(o, y)
  <2>1. SameBearing(cs, ds, y)
    BY <1>1, GoneBearing
  <2> QED BY <1>1, <2>1, SettledStays
<1>2. CASE Put(o.req) /\ o.req.id = y /\ o.state = "ok" /\ t[y] = o.answer[y]
  <2>1. k \in Puts(cs, y)
    BY <1>2 DEF Puts
  <2>2. t[y] = cs[k].answer[y] /\ InTurn(cs, k)
    BY <1>2
  <2>3. \A m \in DOMAIN cs : ~BlindEdit(cs[m], y)
    BY <1>2
  <2> QED BY <2>1, <2>2, <2>3, PutAnswered
<1> QED BY <1>1, <1>2, AnswerLooks

\* An answer in turn keeps the stores matched.
LEMMA AnswerMatches ==
  ASSUME NEW s, NEW g, NEW r, NEW cs, NEW fr, Grounded(s, g, r, cs, fr), Matches(s, g, r, cs),
         TurnsDiffer(cs), \A m \in DOMAIN cs : cs[m].turn \in Nat, BlindAlone(cs), MoveAlone(cs),
         NEW k \in DOMAIN cs, cs[k].state # "sent", NEW ds, CallGone(cs, ds, k), InTurn(cs, k),
         NEW t, NEW alert, AnswerShaped(cs[k], s, t, alert)
  PROVE  Matches(t, g, r, ds)
<1>1. \A m \in DOMAIN ds : m \in DOMAIN cs /\ ds[m] = cs[m] /\ m # k
  BY DEF CallGone
<1>2. \A m \in DOMAIN cs : m = k \/ m \in DOMAIN ds
  BY DEF CallGone
<1>3. \A y \in DOMAIN t : y \in DOMAIN s
  BY AnswerLooks
<1>4. g \cap DOMAIN t = {}
  BY <1>3 DEF Matches
<1>5. MovesFit(t, r, ds)
  <2> SUFFICES ASSUME NEW m \in DOMAIN ds, ds[m].req.op = "move" PROVE FALSE
    BY DEF MovesFit
  <2>1. m \in DOMAIN cs /\ m # k /\ cs[m].req.op = "move"
    BY <1>1
  <2>2. DOMAIN cs = {m}
    BY <2>1 DEF MoveAlone
  <2> QED BY <2>1, <2>2
<1>6. NewPeople(t, ds)
  <2> SUFFICES ASSUME NEW m \in DOMAIN ds, ds[m].req.op = "create", ds[m].state = "sent",
                      NEW x \in IdsOf(ds[m].req), x \in DOMAIN t,
                      x \in Personas \cup WorkflowPersonas
               PROVE  t[x] = Fresh(PlaceFor(ds[m].req, x),
                                   IF x = ds[m].req.id THEN ds[m].req.text ELSE Blank)
    BY DEF NewPeople
  <2>1. ds[m] = cs[m] /\ m \in DOMAIN cs /\ x \in DOMAIN s
    BY <1>1, <1>3
  <2>2. t[x] = s[x]
    <3> SUFFICES ASSUME Put(cs[k].req), cs[k].req.id = x PROVE FALSE
      BY AnswerLooks
    <3>1. x \notin Ranked \cup Comments
      BY TablesApart DEF Ranked
    <3>2. cs[k].req.op \in Edits /\ ~Blind(cs[k].req)
      BY <3>1 DEF Put
    <3>3. Placed(cs[k].req)
      BY DEF Grounded, CallGrounded
    <3> QED BY <3>2, <3>3 DEF Placed, Blind
  <2> QED BY <2>1, <2>2 DEF Matches, NewPeople
<1>7. ASSUME NoMove(ds), NEW y \in DOMAIN t, y \in DOMAIN r PROVE Settled(t, r, ds, y)
  <2>1. NoMove(cs)
    BY <1>1, <1>2, <1>7 DEF NoMove
  <2>2. Settled(s, r, cs, y)
    BY <1>3, <1>7, <2>1 DEF Matches, CommonSettled
  <2>3. ASSUME cs[k].req.id = y, Put(cs[k].req), NEW m \in DOMAIN cs PROVE ~BlindEdit(cs[m], y)
    <3> SUFFICES ASSUME BlindEdit(cs[m], y) PROVE FALSE
      OBVIOUS
    <3>1. Blind(cs[m].req) /\ cs[m].req.id = y /\ m # k
      BY DEF BlindEdit
    <3>2. Share(cs[m].req, cs[k].req)
      BY <2>3, <3>1 DEF Share, IdsOf
    <3>3. cs[k].req.op = "delete"
      BY <3>1, <3>2 DEF BlindAlone
    <3> QED BY <2>3, <3>3, OpsApart DEF Put
  <2> QED BY <1>7, <2>2, <2>3, AnswerSettles
<1> QED BY <1>4, <1>5, <1>6, <1>7 DEF Matches, CommonSettled

\* The project is loaded: what came is what the server has, and so is its own row.
LEMMA LoadMatches ==
  ASSUME NEW s, NEW g, NEW r, NEW cs, NEW fr, Grounded(s, g, r, cs, fr),
         NEW a, DOMAIN a = DOMAIN r, \A x \in DOMAIN r : a[x] = r[x],
         DOMAIN s \cap Projects \subseteq DOMAIN r,
         \A p \in DOMAIN s \cap Projects : s[p] = r[p],
         NEW t, LoadShaped(s, a, t), NEW ds, DOMAIN ds = {}
  PROVE  Matches(t, g, r, ds)
<1>1. /\ \A x : x \in DOMAIN t <=> IF x \in Projects THEN x \in DOMAIN s ELSE x \in DOMAIN a
      /\ \A x \in DOMAIN t : t[x] = IF x \in Projects THEN s[x] ELSE a[x]
  BY DEF LoadShaped
<1>2. \A x \in DOMAIN t : x \in DOMAIN r /\ t[x] = r[x]
  BY <1>1
<1>3. g \cap DOMAIN t = {}
  BY <1>2 DEF Grounded
<1>4. CommonSettled(t, r, ds)
  BY <1>2, SettledAlone DEF CommonSettled
<1>5. NewPeople(t, ds) /\ MovesFit(t, r, ds)
  BY DEF NewPeople, MovesFit
<1> QED BY <1>3, <1>4, <1>5 DEF Matches

-----------------------------------------------------------------------------
(* Matched is kept                                                         *)

\* Every step that earns no mark keeps them matched.
LEMMA StepKeepsMatched ==
  ASSUME Inv, Ground, Marks, Ordered, ProjectsIn, Tracked, Loading, Matched, ProjectsMatched,
         Stepped, Marked(calls', why', page', mount'),
         mode' = "editor", page' # "loading", why' = {}, ~Ominous(calls', rows')
  PROVE  Matches(store', gone', rows', calls')
<1> DEFINE Goal == Matches(store', gone', rows', calls')
<1>1. Grounded(store, gone, rows, calls, fresh)
  BY DEF Ground
<1>2. Fair({})
  BY DEF Fair
<1>3. ASSUME why = {}, page # "loading", mode = "editor", ~Ominous(calls, rows)
      PROVE  /\ Matches(store, gone, rows, calls)
             /\ Tracks(store, gone, rows, calls, fresh)
  BY <1>2, <1>3 DEF Matched, Tracked
<1>4. ASSUME why = {}
      PROVE  /\ BlindAlone(calls) /\ MoveAlone(calls)
             /\ \A k \in DOMAIN calls : calls[k].req.op = "get" =>
                  DOMAIN calls = {k} /\ page = "loading" /\ k = mount
  BY <1>4 DEF Marks, Marked, GetAlone
<1>5. ASSUME NEW c, FormStep(c) PROVE Goal
  <2>1. /\ FormShaped(store, fresh, store', c) /\ page = "board" /\ mode = "editor"
        /\ CallComes(calls, calls', Number, c) /\ why = {}
        /\ rows' = rows /\ gone' = gone
    BY <1>5 DEF FormStep
  <2>2. ~Ominous(calls, rows)
    BY <2>1, CallsGrow, OminousLasts
  <2>3. Matches(store, gone, rows, calls) /\ Tracks(store, gone, rows, calls, fresh)
    BY <1>3, <2>1, <2>2
  <2>4. PICK ds, t : ds = calls' /\ t = store'
    OBVIOUS
  <2>5. BlindAlone(ds) /\ MoveAlone(ds)
    BY <2>4 DEF Marked
  <2>6. FormShaped(store, fresh, t, c) /\ CallComes(calls, ds, Number, c)
    BY <2>1, <2>4
  <2>7. /\ gone \subseteq Ids /\ fresh \subseteq Ids /\ DOMAIN store \subseteq Ids
        /\ DOMAIN rows \subseteq Ids /\ \A x \in DOMAIN store : store[x] \in Row
        /\ \A k \in DOMAIN calls : calls[k].state \in {"sent", "ok", "refused"}
    BY StoresAreTyped
  <2>8. c.op \in Ops
    BY <2>6 DEF FormShaped, Making, Moving, Editing, Deleting, Ops
  <2>9. Matches(t, gone, rows, ds)
    BY <1>1, <2>3, <2>5, <2>6, <2>7, <2>8, FormMatches
  <2> QED BY <2>1, <2>4, <2>9
<1>6. ASSUME NEW p, OpenStep(p) PROVE Goal
  BY <1>6 DEF OpenStep
<1>7. ASSUME NEW k \in DOMAIN calls, NEW v, ServeStep(k, v) PROVE Goal
  <2>1. /\ v = Served(rows, calls[k].req) /\ ServedShaped(rows, calls[k].req, v)
        /\ CallServed(calls, calls', k, IF v.ok THEN "ok" ELSE "refused", v.answer)
        /\ rows' = v.rows
        /\ UNCHANGED <<store, page, mode, fresh, gone, why>>
    BY <1>7 DEF ServeStep
  <2>2. BlindAlone(calls) /\ MoveAlone(calls) /\ calls[k].req.op # "get"
    BY <1>4, <2>1
  <2>3. PICK ds : ds = calls'
    OBVIOUS
  <2>4. ~Ominous(ds, v.rows) /\ CallServed(calls, ds, k, IF v.ok THEN "ok" ELSE "refused", v.answer)
    BY <2>1, <2>3
  <2>5. /\ DOMAIN rows \subseteq Ids /\ \A x \in DOMAIN rows : rows[x] \in Row
        /\ calls[k].req.id \in Ids
    BY StoresAreTyped
  <2>6. ~Ominous(calls, rows)
    BY <2>1, <2>2, <2>4, <2>5, ServeIsOminous
  <2>7. Matches(store, gone, rows, calls)
    BY <1>3, <2>1, <2>6
  <2>8. Matches(store, gone, v.rows, ds)
    BY <1>1, <2>1, <2>2, <2>4, <2>5, <2>7, ServeMatches
  <2> QED BY <2>1, <2>3, <2>8
<1>8. ASSUME NEW k \in DOMAIN calls, RefuseStep(k) PROVE Goal
  <2>1. /\ CallServed(calls, calls', k, "refused", calls[k].answer)
        /\ UNCHANGED <<store, rows, page, mode, fresh, gone, why>>
    BY <1>8 DEF RefuseStep
  <2>2. PICK ds : ds = calls'
    OBVIOUS
  <2>3. ~Ominous(ds, rows) /\ CallServed(calls, ds, k, "refused", calls[k].answer)
    BY <2>1, <2>2
  <2>4. ~Ominous(calls, rows)
    BY <2>3, CallsAreServed, OminousLasts
  <2>5. Matches(store, gone, rows, calls)
    BY <1>3, <2>1, <2>4
  <2>6. Matches(store, gone, rows, ds)
    BY <1>1, <2>3, <2>5, RefuseMatches
  <2> QED BY <2>1, <2>2, <2>6
<1>9. ASSUME NEW k \in DOMAIN calls, LoseStep(k) PROVE Goal
  BY <1>9 DEF LoseStep, Amiss
<1>10. ASSUME NEW k \in DOMAIN calls, NEW alert \in BOOLEAN, AnswerStep(k, alert) PROVE Goal
  <2>1. /\ AnswerShaped(calls[k], store, store', alert) /\ CallGone(calls, calls', k)
        /\ why = {} /\ ~alert /\ ~Reversed(k)
        /\ UNCHANGED <<rows, page, mode, fresh, gone>>
    BY <1>10 DEF AnswerStep, Amiss
  <2>2. PICK ds, t : ds = calls' /\ t = store'
    OBVIOUS
  <2>3. AnswerShaped(calls[k], store, t, FALSE) /\ CallGone(calls, ds, k) /\ ~Ominous(ds, rows)
    BY <2>1, <2>2
  <2>4. calls[k].state # "sent" /\ (calls[k].state = "refused" =>
                                     calls[k].req.op = "create" /\ calls[k].req.id \in Ranked)
    BY <2>3 DEF AnswerShaped
  <2>5. ~Ominous(calls, rows)
    BY <2>3, <2>4 DEF Ominous, CallGone
  <2>6. Matches(store, gone, rows, calls) /\ BlindAlone(calls) /\ MoveAlone(calls)
    BY <1>3, <1>4, <2>1, <2>5
  <2>7. InTurn(calls, k)
    BY <2>1 DEF InTurn, Reversed
  <2>8. TurnsDiffer(calls) /\ \A m \in DOMAIN calls : calls[m].turn \in Nat
    BY StoresAreTyped DEF Ordered
  <2>9. Matches(t, gone, rows, ds)
    BY <1>1, <2>3, <2>4, <2>6, <2>7, <2>8, AnswerMatches
  <2> QED BY <2>1, <2>2, <2>9
<1>11. ASSUME NEW k \in DOMAIN calls, LoadStep(k) PROVE Goal
  <2>1. /\ calls[k].req.op = "get" /\ calls[k].state # "sent" /\ CallGone(calls, calls', k)
        /\ UNCHANGED <<rows, mount, mode, fresh, gone, why>>
    BY <1>11 DEF LoadStep
  <2>2. why = {} /\ DOMAIN calls = {k} /\ page = "loading" /\ k = mount
    BY <1>4, <2>1
  <2>3. calls[k].state = "ok" /\ LoadShaped(store, calls[k].answer, store')
    BY <1>11, <2>2 DEF LoadStep
  <2>4. PICK ds, t, a : ds = calls' /\ t = store' /\ a = calls[k].answer
    OBVIOUS
  <2>5. DOMAIN ds = {}
    BY <2>1, <2>2, <2>4 DEF CallGone
  <2>6. LoadShaped(store, a, t) /\ LoadFits(a, gone, rows, why)
    BY <1>2, <2>1, <2>2, <2>3, <2>4 DEF Loading
  <2>7. DOMAIN a = DOMAIN rows /\ \A x \in DOMAIN rows : a[x] = rows[x]
    BY <2>2, <2>6 DEF LoadFits
  <2>8. DOMAIN store \cap Projects \subseteq DOMAIN rows
    BY DEF ProjectsIn
  <2>9. ~Spoilt(calls)
    BY <2>1, <2>2 DEF Spoilt
  <2>10. \A p \in DOMAIN store \cap Projects : Settled(store, rows, calls, p)
    BY <2>1, <2>2, <2>9 DEF ProjectsMatched, ProjectsMatch
  <2>11. \A p : ~Bears(calls[k], p)
    BY <2>1, OpsApart DEF Bears, Put, BlindEdit
  <2>12. \A p \in DOMAIN store \cap Projects : store[p] = rows[p]
    BY <2>2, <2>3, <2>10, <2>11, SettledAlone
  <2>13. Matches(t, gone, rows, ds)
    BY <1>1, <2>5, <2>6, <2>7, <2>8, <2>12, LoadMatches
  <2> QED BY <2>1, <2>4, <2>13
<1>12. ASSUME NEW x, ElsewhereStep(x) PROVE Goal
  BY <1>12 DEF ElsewhereStep
<1>13. ASSUME IdleStep PROVE Goal
  <2>1. UNCHANGED <<store, rows, calls, page, mode, fresh, gone, why>>
    BY <1>13 DEF IdleStep
  <2> QED BY <1>3, <2>1
<1> QED BY <1>5, <1>6, <1>7, <1>8, <1>9, <1>10, <1>11, <1>12, <1>13 DEF Stepped

-----------------------------------------------------------------------------
(* ProjectsMatched is kept                                                 *)

\* Forms leave the projects settled.
LEMMA FormMatchesProjects ==
  ASSUME NEW s, NEW g, NEW r, NEW cs, NEW fr \in SUBSET Ids, Grounded(s, g, r, cs, fr),
         ProjectsMatch(s, r, cs), \A x \in DOMAIN s : s[x] \in Row,
         \A k \in DOMAIN cs : cs[k].state \in {"sent", "ok", "refused"},
         NEW t, NEW c, FormShaped(s, fr, t, c), NEW n, NEW ds, CallComes(cs, ds, n, c)
  PROVE  ProjectsMatch(t, r, ds)
<1>1. ASSUME NEW p \in DOMAIN s \cap Projects, p \notin DOMAIN t
      PROVE  Sends(ds, "delete", p)
  <2>1. CASE Moving(s, t, c)
    BY <1>1, <2>1 DEF Moving, MovedTo, Updated
  <2>2. CASE Editing(s, t, c)
    BY <1>1, <2>2 DEF Editing, Updated
  <2>3. CASE Deleting(s, t, c)
    <3>1. p = c.id /\ c.op = "delete"
      BY <1>1, <2>3, TablesApart DEF Deleting
    <3>2. c.id \in IdsOf(c)
      BY DEF IdsOf
    <3> QED BY <3>1, <3>2, CallsGrow
  <2> QED BY <1>1, <2>1, <2>2, <2>3 DEF FormShaped, Making
<1>2. ASSUME NEW p \in DOMAIN r \cap Projects PROVE p \in DOMAIN t \/ Sends(ds, "delete", p)
  BY <1>1, CallsGrow DEF ProjectsMatch
<1>3. ASSUME NEW p \in DOMAIN t \cap Projects PROVE Settled(t, r, ds, p)
  <2>1. p \in DOMAIN s
    BY FormKeepsProjects
  <2>2. Settled(s, r, cs, p) /\ p \notin fr
    BY <2>1 DEF ProjectsMatch, Grounded, Avoids
  <2>3. CASE Making(s, fr, t, c)
    <3>1. t[p] = s[p] /\ p # c.id
      BY <2>1, <2>2, <2>3 DEF Making, IdsOf
    <3>2. SameBearing(cs, ds, p)
      BY <3>1, NewBearing
    <3> QED BY <2>2, <3>1, <3>2, SettledStays
  <2>4. CASE Moving(s, t, c)
    <3>1. c.id \in Ranked /\ c.op = "move" /\ t = MovedTo(s, c.id, c.place, c.index)
      BY <2>4, OpsApart DEF Moving, FormShaped, Placed
    <3>2. p # c.id
      BY <3>1, TablesApart DEF Ranked
    <3>3. t[p] = s[p]
      BY <2>1, <3>1, <3>2 DEF MovedTo, Updated
    <3>4. SameBearing(cs, ds, p)
      BY <3>2, NewBearing
    <3> QED BY <2>2, <3>3, <3>4, SettledStays
  <2>5. CASE Editing(s, t, c)
    <3>1. c.op \in Edits /\ t = Updated(s, c.id, Edited(s[c.id], c.op, c.text))
      BY <2>5 DEF Editing
    <3>2. /\ DOMAIN t = DOMAIN s
          /\ \A y \in DOMAIN s : t[y] = IF y = c.id THEN Edited(s[c.id], c.op, c.text) ELSE s[y]
      BY <3>1, UpdatedLooks
    <3>3. CASE p = c.id
      <4>1. ~Blind(c)
        BY <3>1, <3>3, TablesApart, OpsApart DEF Blind
      <4>2. t[p] = Edited(s[p], c.op, c.text)
        BY <2>1, <3>2, <3>3
      <4> QED BY <2>2, <3>1, <3>3, <4>1, <4>2, EditSettled
    <3>4. CASE p # c.id
      <4>1. t[p] = s[p]
        BY <2>1, <3>2, <3>4
      <4>2. SameBearing(cs, ds, p)
        BY <3>4, NewBearing
      <4> QED BY <2>2, <4>1, <4>2, SettledStays
    <3> QED BY <3>3, <3>4
  <2>6. CASE Deleting(s, t, c)
    <3>1. c.op = "delete" /\ t[p] = s[p]
      BY <2>6 DEF Deleting
    <3>2. SameBearing(cs, ds, p)
      BY <3>1, NewBearing, OpsApart
    <3> QED BY <2>2, <3>1, <3>2, SettledStays
  <2> QED BY <2>3, <2>4, <2>5, <2>6 DEF FormShaped
<1> QED BY <1>2, <1>3 DEF ProjectsMatch

\* The server does, whatever it serves.
LEMMA ServeMatchesProjects ==
  ASSUME NEW s, NEW g, NEW r, NEW cs, NEW fr, Grounded(s, g, r, cs, fr),
         ProjectsMatch(s, r, cs), ProjectsAreIn(s, r, cs),
         DOMAIN r \subseteq Ids, \A x \in DOMAIN r : r[x] \in Row,
         NEW k \in DOMAIN cs, cs[k].req.id \in Ids,
         NEW v, ServedShaped(r, cs[k].req, v), NEW ds,
         CallServed(cs, ds, k, IF v.ok THEN "ok" ELSE "refused", v.answer), ~Spoilt(ds)
  PROVE  ProjectsMatch(s, v.rows, ds)
<1> DEFINE c == cs[k].req
           w == v.rows
<1>1. /\ DOMAIN ds = DOMAIN cs /\ \A m \in DOMAIN cs : ds[m].req = cs[m].req
      /\ \A m \in DOMAIN cs : m = k \/ ds[m] = cs[m]
      /\ cs[k].state = "sent" /\ ds[k].state = IF v.ok THEN "ok" ELSE "refused"
      /\ \A op, x : Sends(cs, op, x) => Sends(ds, op, x) \/ (op = c.op /\ x \in IdsOf(c))
  BY CallsAreServed
<1>2. Placed(c) /\ Whole(r)
  BY DEF Grounded, CallGrounded
<1>3. c.op = "create" => IdsOf(c) \cap Projects = {}
  BY <1>2, PlacedFor
<1>4. c.op # "create" => IdsOf(c) = {c.id}
  BY PlacesAreKnown
<1>5. v.ok \/ c.op = "get" \/ c.id \notin Projects
  BY <1>1 DEF Spoilt
<1>6. c.op = "delete" => \A p \in DOMAIN s \cap Projects : p # c.id
  BY DEF ProjectsAreIn
<1>7. CASE ~v.ok
  <2>1. c.id \notin Projects
    BY <1>5, <1>7 DEF ServedShaped
  <2>2. w = r \/ w = Created(r, c.id, Fresh(c.place, c.text))
    BY <1>7 DEF ServedShaped
  <2>3. \A p \in Projects : (p \in DOMAIN w <=> p \in DOMAIN r) /\ (p \in DOMAIN r => w[p] = r[p])
    BY <2>1, <2>2, CreatedLooks
  <2>4. ASSUME NEW p \in DOMAIN w \cap Projects PROVE p \in DOMAIN s \/ Sends(ds, "delete", p)
    <3>1. p \in DOMAIN s \/ Sends(cs, "delete", p)
      BY <2>3 DEF ProjectsMatch
    <3>2. ~("delete" = c.op /\ p \in IdsOf(c))
      BY <1>4, <2>1
    <3> QED BY <1>1, <3>1, <3>2
  <2>5. ASSUME NEW p \in DOMAIN s \cap Projects PROVE Settled(s, w, ds, p)
    <3>1. Settled(s, r, cs, p) /\ p \in DOMAIN r
      BY DEF ProjectsMatch, ProjectsAreIn
    <3>2. p # c.id
      BY <2>1
    <3>3. SameBearing(cs, ds, p)
      BY <3>2, ServedBearing
    <3>4. PICK u : u = w
      OBVIOUS
    <3>5. u[p] = r[p]
      BY <2>3, <3>1, <3>4
    <3>6. Settled(s, u, ds, p)
      BY <3>1, <3>3, <3>5, SettledStays
    <3> QED BY <3>4, <3>6
  <2> QED BY <2>4, <2>5 DEF ProjectsMatch
<1>8. CASE v.ok
  <2>1. \/ c.op = "get" /\ w = r
        \/ /\ c.op = "create" /\ \A y : y \in DOMAIN w <=> y \in DOMAIN r \/ y \in IdsOf(c)
           /\ \A y \in DOMAIN r : y \notin IdsOf(c) => w[y] = r[y]
        \/ /\ c.op \in Edits /\ v.answer = Only(w, {c.id})
           /\ w = Updated(r, c.id, Edited(r[c.id], c.op, c.text))
        \/ c.op = "move" /\ w = MovedTo(r, c.id, c.place, c.index)
        \/ c.op = "delete" /\ w = Deleted(r, c.id)
    BY <1>8 DEF ServedShaped
  <2>2. \A y \in DOMAIN Deleted(r, c.id) : y \in DOMAIN r /\ y # c.id /\ Deleted(r, c.id)[y] = r[y]
    BY <1>2, DeletedLooks
  <2>3. ASSUME NEW p \in DOMAIN w \cap Projects
        PROVE  p \in DOMAIN r /\ ~(c.op = "delete" /\ p \in IdsOf(c))
    <3>1. CASE c.op = "delete" /\ w = Deleted(r, c.id)
      <4>1. p \in DOMAIN r /\ p # c.id
        BY <2>2, <3>1
      <4> QED BY <1>4, <3>1, <4>1
    <3>2. CASE c.op # "delete"
      BY <1>3, <2>1, <3>2 DEF MovedTo, Updated
    <3> QED BY <2>1, <3>1, <3>2, OpsApart
  <2>4. ASSUME NEW p \in DOMAIN w \cap Projects PROVE p \in DOMAIN s \/ Sends(ds, "delete", p)
    <3>1. p \in DOMAIN s \/ Sends(cs, "delete", p)
      BY <2>3 DEF ProjectsMatch
    <3> QED BY <1>1, <2>3, <3>1
  <2>5. ASSUME NEW p \in DOMAIN s \cap Projects PROVE Settled(s, w, ds, p)
    <3>1. Settled(s, r, cs, p) /\ p \in DOMAIN r
      BY DEF ProjectsMatch, ProjectsAreIn
    <3>2. PICK u : u = w
      OBVIOUS
    <3>3. ASSUME SameBearing(cs, ds, p), u[p] = r[p] PROVE Settled(s, u, ds, p)
      BY <3>1, <3>3, SettledStays
    <3>4. p # c.id \/ c.op \notin Edits \cup {"create"} => SameBearing(cs, ds, p)
      BY ServedBearing
    <3>5. CASE c.op = "get" /\ w = r
      BY <3>2, <3>3, <3>4, <3>5, OpsApart
    <3>6. CASE /\ c.op = "create"
               /\ \A y \in DOMAIN r : y \notin IdsOf(c) => w[y] = r[y]
      <4>1. p \notin IdsOf(c) /\ c.id \in IdsOf(c)
        BY <1>3, <3>6 DEF IdsOf
      <4>2. u[p] = r[p] /\ p # c.id
        BY <3>1, <3>2, <3>6, <4>1
      <4> QED BY <3>2, <3>3, <3>4, <4>2
    <3>7. CASE /\ c.op \in Edits /\ v.answer = Only(w, {c.id})
               /\ w = Updated(r, c.id, Edited(r[c.id], c.op, c.text))
      <4>1. CASE p = c.id
        <5>1. ~Blind(c)
          BY <3>7, <4>1, TablesApart, OpsApart DEF Blind
        <5>2. Put(cs[k].req) /\ cs[k].req.id = p
          BY <3>7, <4>1, <5>1 DEF Put
        <5>3. PICK a : a = v.answer
          OBVIOUS
        <5>4. p \in DOMAIN u
          BY <3>1, <3>2, <3>7 DEF Updated
        <5>5. a[p] = u[p]
          BY <3>2, <3>7, <4>1, <5>3, <5>4 DEF Only
        <5>6. CallServed(cs, ds, k, "ok", a)
          BY <1>8, <5>3
        <5>7. Settled(s, u, ds, p)
          BY <5>2, <5>5, <5>6, PutServed
        <5> QED BY <3>2, <5>7
      <4>2. CASE p # c.id
        <5>1. u[p] = r[p]
          BY <3>1, <3>2, <3>7, <4>2 DEF Updated
        <5> QED BY <3>2, <3>3, <3>4, <4>2, <5>1
      <4> QED BY <4>1, <4>2
    <3>8. CASE c.op = "move" /\ w = MovedTo(r, c.id, c.place, c.index)
      <4>1. p # c.id
        BY <1>2, <3>8, TablesApart DEF Placed, Ranked
      <4>2. u[p] = r[p]
        BY <3>1, <3>2, <3>8, <4>1 DEF MovedTo, Updated
      <4> QED BY <3>2, <3>3, <3>4, <4>1, <4>2
    <3>9. CASE c.op = "delete" /\ w = Deleted(r, c.id)
      <4>1. p # c.id
        BY <1>6, <3>9
      <4>2. p \in DOMAIN Deleted(r, c.id)
        BY <1>2, <3>1, <4>1, ProjectsStay
      <4>3. u[p] = r[p]
        BY <2>2, <3>2, <3>9, <4>2
      <4> QED BY <3>2, <3>3, <3>4, <4>1, <4>3
    <3> QED BY <2>1, <3>5, <3>6, <3>7, <3>8, <3>9
  <2> QED BY <2>4, <2>5 DEF ProjectsMatch
<1> QED BY <1>7, <1>8

\* A call that goes and is not sent, or not about a project, leaves the projects settled.
LEMMA GoneMatchesProjects ==
  ASSUME NEW s, NEW g, NEW r, NEW cs, NEW fr, Grounded(s, g, r, cs, fr), ProjectsMatch(s, r, cs),
         NEW k \in DOMAIN cs, cs[k].req.id \in Projects => cs[k].req.op = "get",
         NEW ds, CallGone(cs, ds, k),
         NEW t, \A p \in Projects : p \in DOMAIN t <=> p \in DOMAIN s,
         \A p \in Projects \cap DOMAIN s : t[p] = s[p]
  PROVE  ProjectsMatch(t, r, ds)
<1>1. ASSUME NEW p \in Projects PROVE ~Bears(cs[k], p)
  BY <1>1, OpsApart DEF Bears, Put, BlindEdit
<1>2. ASSUME NEW p \in Projects, Sends(cs, "delete", p) PROVE Sends(ds, "delete", p)
  <2>1. PICK m \in DOMAIN cs : /\ cs[m].state = "sent" /\ cs[m].req.op = "delete"
                               /\ p \in IdsOf(cs[m].req)
    BY <1>2 DEF Sends
  <2>2. cs[m].req.id = p
    BY <2>1, PlacesAreKnown
  <2>3. m # k
    BY <1>2, <2>1, <2>2
  <2>4. m \in DOMAIN ds /\ ds[m] = cs[m]
    BY <2>1, <2>3 DEF CallGone
  <2> QED BY <2>1, <2>4 DEF Sends
<1>3. ASSUME NEW p \in DOMAIN t \cap Projects PROVE Settled(t, r, ds, p)
  <2>1. Settled(s, r, cs, p) /\ t[p] = s[p]
    BY DEF ProjectsMatch
  <2>2. SameBearing(cs, ds, p)
    BY <1>1, GoneBearing
  <2> QED BY <2>1, <2>2, SettledStays
<1> QED BY <1>2, <1>3 DEF ProjectsMatch

\* So do answers about them that come in turn.
LEMMA AnswerMatchesProjects ==
  ASSUME NEW s, NEW r, NEW cs, ProjectsMatch(s, r, cs),
         TurnsDiffer(cs), \A m \in DOMAIN cs : cs[m].turn \in Nat,
         NEW k \in DOMAIN cs, cs[k].state # "sent", NEW ds, CallGone(cs, ds, k),
         cs[k].req.id \in Projects => InTurn(cs, k),
         NEW t, NEW alert, AnswerShaped(cs[k], s, t, alert)
  PROVE  ProjectsMatch(t, r, ds)
<1>1. DOMAIN t \cap Projects = DOMAIN s \cap Projects
  BY AnswerKeepsProjects
<1>2. \A x : Sends(cs, "delete", x) => Sends(ds, "delete", x)
  BY DEF Sends, CallGone
<1>3. ASSUME NEW p \in DOMAIN t, p \in Projects PROVE Settled(t, r, ds, p)
  <2>1. Settled(s, r, cs, p)
    BY <1>1, <1>3 DEF ProjectsMatch
  <2>2. \A m \in DOMAIN cs : ~BlindEdit(cs[m], p)
    BY <1>3, TablesApart, OpsApart DEF BlindEdit, Blind
  <2> QED BY <1>3, <2>1, <2>2, AnswerSettles
<1> QED BY <1>1, <1>2, <1>3 DEF ProjectsMatch

\* Every step does that is not amiss with a project.
LEMMA StepKeepsProjectsMatched ==
  ASSUME Inv, Ground, Ordered, ProjectsIn, ProjectsMatched, Stepped,
         mode' = "editor", "project" \notin why', ~Spoilt(calls')
  PROVE  ProjectsMatch(store', rows', calls')
<1> DEFINE Goal == ProjectsMatch(store', rows', calls')
<1>1. Grounded(store, gone, rows, calls, fresh)
  BY DEF Ground
<1>2. ASSUME "project" \notin why, mode = "editor", ~Spoilt(calls)
      PROVE  ProjectsMatch(store, rows, calls)
  BY <1>2 DEF ProjectsMatched
<1>3. /\ fresh \in SUBSET Ids /\ DOMAIN rows \subseteq Ids
      /\ \A x \in DOMAIN store : store[x] \in Row
      /\ \A x \in DOMAIN rows : rows[x] \in Row
      /\ \A k \in DOMAIN calls : /\ calls[k].req.id \in Ids /\ calls[k].turn \in Nat
                                 /\ calls[k].state \in {"sent", "ok", "refused"}
  BY StoresAreTyped
<1>4. ASSUME NEW n, NEW c, CallComes(calls, calls', n, c) PROVE ~Spoilt(calls)
  BY <1>4, CallsGrow DEF Spoilt
<1>5. ASSUME NEW k, NEW st, NEW a, CallServed(calls, calls', k, st, a) PROVE ~Spoilt(calls)
  BY <1>5 DEF Spoilt, CallServed
<1>6. ASSUME NEW k, CallGone(calls, calls', k),
             calls[k].req.id \in Projects /\ calls[k].req.op # "get" => calls[k].state # "refused"
      PROVE  ~Spoilt(calls)
  BY <1>6 DEF Spoilt, CallGone
<1>7. ASSUME NEW c, FormStep(c) PROVE Goal
  <2>1. /\ FormShaped(store, fresh, store', c) /\ CallComes(calls, calls', Number, c)
        /\ mode = "editor" /\ why \subseteq why' /\ rows' = rows
    BY <1>7 DEF FormStep
  <2>2. ProjectsMatch(store, rows, calls)
    BY <1>2, <1>4, <2>1
  <2>3. PICK ds, t : ds = calls' /\ t = store'
    OBVIOUS
  <2>4. FormShaped(store, fresh, t, c) /\ CallComes(calls, ds, Number, c)
    BY <2>1, <2>3
  <2>5. ProjectsMatch(t, rows, ds)
    BY <1>1, <1>3, <2>2, <2>4, FormMatchesProjects
  <2> QED BY <2>1, <2>3, <2>5
<1>8. ASSUME NEW p, OpenStep(p) PROVE Goal
  <2>1. /\ CallComes(calls, calls', Number, Get(p)) /\ "project" \notin why
        /\ UNCHANGED <<store, rows, mode>>
    BY <1>8 DEF OpenStep
  <2>2. ProjectsMatch(store, rows, calls)
    BY <1>2, <1>4, <2>1
  <2>3. PICK ds : ds = calls'
    OBVIOUS
  <2>4. CallComes(calls, ds, Number, Get(p))
    BY <2>1, <2>3
  <2>5. Get(p).op \notin Edits \cup {"create"}
    BY OpsApart DEF Get, Request
  <2>6. \A q : SameBearing(calls, ds, q)
    BY <2>4, <2>5, NewBearing
  <2>7. ASSUME NEW q \in DOMAIN store \cap Projects PROVE Settled(store, rows, ds, q)
    <3>1. Settled(store, rows, calls, q)
      BY <2>2 DEF ProjectsMatch
    <3> QED BY <2>6, <3>1, SettledStays
  <2>8. \A q : Sends(calls, "delete", q) => Sends(ds, "delete", q)
    BY <2>4, CallsGrow
  <2>9. ProjectsMatch(store, rows, ds)
    BY <2>2, <2>7, <2>8 DEF ProjectsMatch
  <2> QED BY <2>1, <2>3, <2>9
<1>9. ASSUME NEW k \in DOMAIN calls, NEW v, ServeStep(k, v) PROVE Goal
  <2>1. /\ ServedShaped(rows, calls[k].req, v) /\ rows' = v.rows
        /\ CallServed(calls, calls', k, IF v.ok THEN "ok" ELSE "refused", v.answer)
        /\ UNCHANGED <<store, mode, why>>
    BY <1>9 DEF ServeStep
  <2>2. ProjectsMatch(store, rows, calls)
    BY <1>2, <1>5, <2>1
  <2>3. PICK ds : ds = calls'
    OBVIOUS
  <2>4. /\ CallServed(calls, ds, k, IF v.ok THEN "ok" ELSE "refused", v.answer)
        /\ ~Spoilt(ds)
    BY <2>1, <2>3
  <2>5. ProjectsAreIn(store, rows, calls)
    BY DEF ProjectsIn, ProjectsAreIn
  <2>6. ProjectsMatch(store, v.rows, ds)
    BY <1>1, <1>3, <2>1, <2>2, <2>4, <2>5, ServeMatchesProjects
  <2> QED BY <2>1, <2>3, <2>6
<1>10. ASSUME NEW k \in DOMAIN calls, RefuseStep(k) PROVE Goal
  <2>1. /\ CallServed(calls, calls', k, "refused", calls[k].answer)
        /\ UNCHANGED <<store, rows, mode, why>>
    BY <1>10 DEF RefuseStep
  <2>2. ProjectsMatch(store, rows, calls)
    BY <1>2, <1>5, <2>1
  <2>3. PICK ds : ds = calls'
    OBVIOUS
  <2>4. CallServed(calls, ds, k, "refused", calls[k].answer) /\ ~Spoilt(ds)
    BY <2>1, <2>3
  <2>5. calls[k].req.op = "get" \/ calls[k].req.id \notin Projects
    BY <2>4 DEF Spoilt, CallServed
  <2>6. ASSUME NEW q \in Projects PROVE SameBearing(calls, ds, q)
    BY <2>4, <2>5, ServedBearing, OpsApart
  <2>7. ASSUME NEW q \in DOMAIN store \cap Projects PROVE Settled(store, rows, ds, q)
    <3>1. Settled(store, rows, calls, q)
      BY <2>2 DEF ProjectsMatch
    <3> QED BY <2>6, <3>1, SettledStays
  <2>8. ASSUME NEW q \in Projects, Sends(calls, "delete", q) PROVE Sends(ds, "delete", q)
    <3>1. calls[k].req.op = "delete" => q \notin IdsOf(calls[k].req)
      BY <1>1, <2>5, PlacesAreKnown
    <3> QED BY <2>4, <2>8, <3>1, CallsAreServed
  <2>9. ProjectsMatch(store, rows, ds)
    BY <2>2, <2>7, <2>8 DEF ProjectsMatch
  <2> QED BY <2>1, <2>3, <2>9
<1>11. ASSUME NEW k \in DOMAIN calls, LoseStep(k) PROVE Goal
  <2>1. /\ CallGone(calls, calls', k) /\ why \subseteq why'
        /\ calls[k].req.id \in Projects => calls[k].req.op = "get"
        /\ UNCHANGED <<store, rows, mode>>
    BY <1>11 DEF LoseStep, Amiss
  <2>2. ProjectsMatch(store, rows, calls)
    BY <1>2, <1>6, <2>1
  <2>3. PICK ds : ds = calls'
    OBVIOUS
  <2>4. CallGone(calls, ds, k)
    BY <2>1, <2>3
  <2>5. ProjectsMatch(store, rows, ds)
    BY <1>1, <2>1, <2>2, <2>4, GoneMatchesProjects
  <2> QED BY <2>1, <2>3, <2>5
<1>12. ASSUME NEW k \in DOMAIN calls, NEW alert \in BOOLEAN, AnswerStep(k, alert) PROVE Goal
  <2>1. /\ AnswerShaped(calls[k], store, store', alert) /\ CallGone(calls, calls', k)
        /\ why \subseteq why' /\ UNCHANGED <<rows, mode>>
        /\ calls[k].req.id \in Projects /\ calls[k].req.op # "get" => ~alert /\ ~Reversed(k)
    BY <1>12 DEF AnswerStep, Amiss
  <2>2. calls[k].state # "sent" /\ calls[k].req.op # "get"
    BY <2>1 DEF AnswerShaped
  <2>3. calls[k].req.id \in Projects => calls[k].state # "refused"
    BY <2>1, <2>2, TablesApart DEF AnswerShaped, Ranked
  <2>4. ProjectsMatch(store, rows, calls)
    BY <1>2, <1>6, <2>1, <2>3
  <2>5. PICK ds, t : ds = calls' /\ t = store'
    OBVIOUS
  <2>6. AnswerShaped(calls[k], store, t, alert) /\ CallGone(calls, ds, k)
    BY <2>1, <2>5
  <2>7. calls[k].req.id \in Projects => InTurn(calls, k)
    BY <2>1, <2>2 DEF InTurn, Reversed
  <2>8. ProjectsMatch(t, rows, ds)
    BY <1>3, <2>2, <2>4, <2>6, <2>7, AnswerMatchesProjects DEF Ordered
  <2> QED BY <2>1, <2>5, <2>8
<1>13. ASSUME NEW k \in DOMAIN calls, LoadStep(k) PROVE Goal
  <2>1. /\ calls[k].req.op = "get" /\ CallGone(calls, calls', k)
        /\ store' = store \/ LoadShaped(store, calls[k].answer, store')
        /\ UNCHANGED <<rows, mode, why>>
    BY <1>13 DEF LoadStep
  <2>2. ProjectsMatch(store, rows, calls)
    BY <1>2, <1>6, <2>1
  <2>3. PICK ds, t : ds = calls' /\ t = store'
    OBVIOUS
  <2>4. CallGone(calls, ds, k)
    BY <2>1, <2>3
  <2>5. /\ \A p \in Projects : p \in DOMAIN t <=> p \in DOMAIN store
        /\ \A p \in Projects \cap DOMAIN store : t[p] = store[p]
    BY <2>1, <2>3 DEF LoadShaped
  <2>6. ProjectsMatch(t, rows, ds)
    BY <1>1, <2>1, <2>2, <2>4, <2>5, GoneMatchesProjects
  <2> QED BY <2>1, <2>3, <2>6
<1>14. ASSUME NEW x, ElsewhereStep(x) PROVE Goal
  <2>1. /\ x \in DOMAIN rows \ Projects /\ rows' = Deleted(rows, x)
        /\ why \subseteq why' /\ UNCHANGED <<store, calls, mode>>
    BY <1>14 DEF ElsewhereStep
  <2>2. ProjectsMatch(store, rows, calls)
    BY <1>2, <2>1
  <2>3. PICK w : w = rows'
    OBVIOUS
  <2>4. w = Deleted(rows, x) /\ Whole(rows)
    BY <1>1, <2>1, <2>3 DEF Grounded
  <2>5. \A y \in DOMAIN w : y \in DOMAIN rows /\ w[y] = rows[y]
    BY <1>3, <2>4, DeletedLooks
  <2>6. ASSUME NEW p \in DOMAIN store \cap Projects PROVE Settled(store, w, calls, p)
    <3>1. Settled(store, rows, calls, p) /\ p \in DOMAIN rows /\ p # x
      BY <2>1, <2>2 DEF ProjectsMatch, ProjectsIn
    <3>2. p \in DOMAIN w
      BY <1>3, <2>4, <3>1, ProjectsStay
    <3>3. w[p] = rows[p] /\ SameBearing(calls, calls, p)
      BY <2>5, <3>2 DEF SameBearing
    <3> QED BY <3>1, <3>3, SettledStays
  <2>7. ProjectsMatch(store, w, calls)
    BY <2>2, <2>5, <2>6 DEF ProjectsMatch
  <2> QED BY <2>1, <2>3, <2>7
<1>15. ASSUME IdleStep PROVE Goal
  <2>1. UNCHANGED <<store, rows, calls, mode, why>>
    BY <1>15 DEF IdleStep
  <2> QED BY <1>2, <2>1
<1> QED BY <1>7, <1>8, <1>9, <1>10, <1>11, <1>12, <1>13, <1>14, <1>15 DEF Stepped

-----------------------------------------------------------------------------
(* The two stores agree                                                    *)

\* How the two stores, the calls under way and the marks hang together.
Accord == /\ Ground /\ Marks /\ Ordered /\ ProjectsIn
          /\ Tracked /\ Loading /\ Matched /\ ProjectsMatched

\* When the page is opened the two sides are the same.
LEMMA InitAccord ==
  ASSUME Init
  PROVE  Accord
<1>1. /\ store = Start /\ rows = Start /\ DOMAIN calls = {} /\ page = "board"
      /\ gone = {} /\ why = {}
  BY DEF Init
<1>2. Ground
  BY InitIsGrounded
<1>3. Marks
  BY <1>1 DEF Marks, Marked, NoneHasty, BlindAlone, MoveAlone, GetAlone, OnlyGets
<1>4. Ordered /\ ProjectsIn /\ Loading
  BY <1>1 DEF Ordered, TurnsDiffer, ProjectsIn, Loading
<1>5. Tracks(store, gone, rows, calls, fresh)
  BY <1>1 DEF Tracks, SamePlaces, MovesShow, PutsFit, CreatesShow, DeletesShow, SurplusDies, LackDies
<1>6. \A x : Settled(store, rows, calls, x)
  BY <1>1, SettledAlone
<1>7. Matches(store, gone, rows, calls)
  BY <1>1, <1>6 DEF Matches, CommonSettled, NewPeople, MovesFit
<1>8. ProjectsMatch(store, rows, calls)
  BY <1>1, <1>6 DEF ProjectsMatch
<1> QED BY <1>2, <1>3, <1>4, <1>5, <1>7, <1>8 DEF Accord, Tracked, Matched, ProjectsMatched

\* Every step keeps them in accord.
LEMMA NextAccord ==
  ASSUME Inv, Accord, [Next]_vars
  PROVE  Accord'
<1>1. /\ Ground /\ Marks /\ Ordered /\ ProjectsIn
      /\ Tracked /\ Loading /\ Matched /\ ProjectsMatched
  BY DEF Accord
<1>2. Stepped
  BY <1>1, StepIsShaped
<1>3. Ground'
  BY <1>1, <1>2, StepKeepsGround DEF Ground
<1>4. Marked(calls', why', page', mount')
  BY <1>1, <1>2, StepKeepsMarks
<1>5. Marks'
  BY <1>4 DEF Marks
<1>6. Ordered'
  BY <1>1, <1>2, StepKeepsOrdered DEF Ordered
<1>7. ProjectsIn'
  BY <1>1, <1>2, StepKeepsProjects DEF ProjectsIn, ProjectsAreIn
<1>8. Tracked'
  BY <1>1, <1>2, <1>4, StepKeepsTracked DEF Tracked
<1>9. Loading'
  BY <1>1, <1>2, StepKeepsLoading DEF Loading
<1>10. Matched'
  BY <1>1, <1>2, <1>4, StepKeepsMatched DEF Matched
<1>11. ProjectsMatched'
  BY <1>1, <1>2, StepKeepsProjectsMatched DEF ProjectsMatched
<1> QED BY <1>3, <1>5, <1>6, <1>7, <1>8, <1>9, <1>10, <1>11 DEF Accord

\* The store, the tables, the calls under way and the reasons for a difference keep
\* in step (Accord): every row that one side has and the other has not is on its
\* way, or lies below one that is gone, and every row that both have is settled.
THEOREM StoresInAccord ==
  Spec => []Accord
<1>1. Init => Inv /\ Accord
  BY InitInv, InitAccord
<1>2. Inv /\ Accord /\ [Next]_vars => (Inv /\ Accord)'
  BY NextInv, NextAccord
<1> QED BY <1>1, <1>2, PTL DEF Spec

\* What a quiet page shows.
LEMMA AccordTracks ==
  ASSUME Inv, Accord, Quiet, Fair(why)
  PROVE  Shown(Without(store, gone)) = Shown(rows)
<1>1. DOMAIN calls = {} /\ page # "loading" /\ mode = "editor"
  BY DEF Quiet
<1>2. ~Ominous(calls, rows)
  BY <1>1 DEF Ominous
<1>3. Tracks(store, gone, rows, calls, fresh) /\ Grounded(store, gone, rows, calls, fresh)
  BY <1>1, <1>2 DEF Accord, Tracked, Ground
<1>4. DOMAIN store \subseteq Ids /\ DOMAIN rows \subseteq Ids
  BY StoresAreTyped
<1>5. Shown(Without(store, gone)) = DOMAIN rows
  BY <1>1, <1>3, <1>4, QuietShown
<1>6. Shown(rows) = DOMAIN rows
  BY <1>3, WholeIsShown DEF Grounded
<1> QED BY <1>5, <1>6

\* Once nothing is under way, the page of the open project shows the cards the
\* server has (BoardsAgree), for tables, forms, calls and bounds of any size.  With
\* one project: what went amiss with another one's own row is not put right by
\* opening this one.
THEOREM PagesShowTheBoard ==
  ASSUME OneProject
  PROVE  Spec => []BoardsAgree
<1>1. Inv /\ Accord => BoardsAgree
  <2> SUFFICES ASSUME Inv, Accord, Quiet, why \subseteq {"moved", "reversed", "elsewhere", "project"}
               PROVE  Shown(Without(store, gone)) = Shown(rows)
    BY DEF BoardsAgree
  <2>1. Fair(why)
    BY DEF Fair
  <2> QED BY <2>1, AccordTracks
<1> QED BY <1>1, Invariant, StoresInAccord, PTL

\* With several projects in the store it is so as long as nothing went amiss with a
\* project's own row.
THEOREM PagesShowTheirBoards ==
  Spec => [](Quiet /\ why \subseteq {"moved", "reversed", "elsewhere"}
               => Shown(Without(store, gone)) = Shown(rows))
<1>1. Inv /\ Accord => (Quiet /\ why \subseteq {"moved", "reversed", "elsewhere"}
                          => Shown(Without(store, gone)) = Shown(rows))
  <2> SUFFICES ASSUME Inv, Accord, Quiet, why \subseteq {"moved", "reversed", "elsewhere"}
               PROVE  Shown(Without(store, gone)) = Shown(rows)
    OBVIOUS
  <2>1. Fair(why)
    BY DEF Fair
  <2> QED BY <2>1, AccordTracks
<1> QED BY <1>1, Invariant, StoresInAccord, PTL

\* If moreover no answer was overtaken, no card moved beside another call and nothing
\* deleted elsewhere, the page agrees with the server in every field of every card
\* (RowsAgree): the optimistic places and ranks are those the server gave.
THEOREM PagesShowTheRows ==
  Spec => []RowsAgree
<1>1. Inv /\ Accord => RowsAgree
  <2> SUFFICES ASSUME Inv, Accord, Quiet, why = {}
               PROVE  View(store) = View(rows)
    BY DEF RowsAgree
  <2>1. DOMAIN calls = {} /\ page # "loading" /\ mode = "editor"
    BY DEF Quiet
  <2>2. ~Ominous(calls, rows) /\ Fair(why)
    BY <2>1 DEF Ominous, Fair
  <2>3. /\ Tracks(store, gone, rows, calls, fresh) /\ Matches(store, gone, rows, calls)
        /\ Grounded(store, gone, rows, calls, fresh)
    BY <2>1, <2>2 DEF Accord, Tracked, Matched, Ground
  <2>4. DOMAIN store \subseteq Ids /\ DOMAIN rows \subseteq Ids
    BY StoresAreTyped
  <2>5. /\ Shown(store) = DOMAIN rows
        /\ \A x \in DOMAIN rows : x \in DOMAIN store /\ store[x] = rows[x]
    BY <2>1, <2>3, <2>4, QuietMatches
  <2>6. Shown(rows) = DOMAIN rows
    BY <2>3, WholeIsShown DEF Grounded
  <2> QED BY <2>5, <2>6 DEF View
<1> QED BY <1>1, Invariant, StoresInAccord, PTL

=============================================================================
