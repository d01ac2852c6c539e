------------------------- MODULE ClientShown_proofs -------------------------
(***************************************************************************)
(* Theorems about what the pages of ClientPages show of a workspace, for    *)
(* any accounts, workspaces, addresses and bounds: its own projects and     *)
(* cards and no other's, no blank page, and lists that are the server's.    *)
(***************************************************************************)
EXTENDS ClientPages_proofs

-----------------------------------------------------------------------------
(* A workspace's own projects, a project's own cards                       *)

HomesIn(h, w) == {p \in DOMAIN h : h[p] = w}

\* An answer after which the document is loaded again; one that brings a new project.
Departs(c)       == c.op \in {"leave", "deleteWorkspace", "deleteAccount"} /\ c.state = "ok"
Brought(c, p, w) == c.op = "createProject" /\ c.state = "ok" /\ c.arg = p /\ c.ws = w

\* S has the projects of w, but for those whose answers are still to come.
Holds(h, cs, R, w, S) ==
  /\ S \subseteq HomesIn(h, w)
  /\ \A p \in HomesIn(h, w) : p \in S \/ \E k \in R : Brought(cs[k], p, w)

\* New projects are not there before, and are different ones.
Creations(h, cs, R) ==
  \A k \in R : cs[k].op = "createProject" =>
    /\ cs[k].state = "sent" => cs[k].arg \notin DOMAIN h
    /\ cs[k].state = "ok" => cs[k].answer = cs[k].arg
    /\ \A j \in R \ {k} : cs[j].op = "createProject" => cs[j].arg # cs[k].arg

\* What has been asked for is for the page.
Meant(cs, R, pg) ==
  /\ pg.wsp # 0 => \A k \in R : cs[k].op = "projects" /\ cs[k].by = pg.wsp => cs[k].ws = pg.ws
  /\ pg.inner # 0 /\ pg.at = "project" =>
       \A k \in R : cs[k].op = "project" /\ cs[k].by = pg.inner =>
         cs[k].arg = pg.arg /\ (cs[k].state = "ok" => cs[k].answer = pg.arg)

HasOwn(h, cs, R, pg, projects) ==
  /\ pg.wsp # 0 => \A k \in R : cs[k].op = "projects" /\ cs[k].by = pg.wsp /\ cs[k].state = "ok"
                                  => Holds(h, cs, R, pg.ws, cs[k].answer)
  /\ pg.wsp # 0 /\ pg.ready => Holds(h, cs, R, pg.ws, projects)
  /\ \A k \in R : cs[k].op = "createProject" /\ cs[k].state = "ok"
                    => cs[k].arg \in HomesIn(h, cs[k].ws)

ShowsOwn(h, cs, R, pg, st) ==
  /\ Creations(h, cs, R) /\ Meant(cs, R, pg)
  /\ pg.inner # 0 /\ pg.at = "project" /\ pg.shown => st.cards = pg.arg
  /\ (\E k \in R : Departs(cs[k])) \/ HasOwn(h, cs, R, pg, st.projects)

Own == why = {} => ShowsOwn(db.home, calls, DOMAIN calls, page, store)

\* A page whose workspace and project are those of the page before.
Same(pg, to) ==
  /\ to.wsp # 0 => to.wsp = pg.wsp /\ to.ws = pg.ws /\ to.ready = pg.ready
  /\ to.inner # 0 /\ to.at = "project" =>
       to.inner = pg.inner /\ pg.at = "project" /\ to.arg = pg.arg /\ to.shown = pg.shown

LEMMA HoldsLess ==
  ASSUME NEW h, NEW cs, NEW R, NEW Q, Q \subseteq R,
         \A k \in R \ Q : cs[k].op # "createProject" \/ cs[k].state # "ok",
         NEW w, NEW S, Holds(h, cs, R, w, S)
  PROVE  Holds(h, cs, Q, w, S)
BY DEF Holds, Brought

LEMMA KeepsOwn ==
  ASSUME NEW h, NEW cs, NEW R, NEW Q, Q \subseteq R,
         \A k \in R \ Q : /\ ~Departs(cs[k])
                          /\ cs[k].op # "createProject" \/ cs[k].state # "ok",
         NEW pg, NEW st, ShowsOwn(h, cs, R, pg, st), NEW to, Same(pg, to),
         NEW su, su.cards = st.cards, su.projects = st.projects
  PROVE  ShowsOwn(h, cs, Q, to, su)
<1>1. Creations(h, cs, Q) /\ Meant(cs, Q, to)
  BY DEF ShowsOwn, Creations, Meant, Same
<1>2. to.inner # 0 /\ to.at = "project" /\ to.shown => su.cards = to.arg
  BY DEF ShowsOwn, Same
<1>3. CASE \E k \in R : Departs(cs[k])
  <2>1. \E k \in Q : Departs(cs[k])
    BY <1>3
  <2> QED BY <1>1, <1>2, <2>1 DEF ShowsOwn
<1>4. CASE HasOwn(h, cs, R, pg, st.projects)
  <2>1. \A w, S : Holds(h, cs, R, w, S) => Holds(h, cs, Q, w, S)
    BY HoldsLess
  <2>2. HasOwn(h, cs, Q, to, su.projects)
    BY <1>4, <2>1 DEF HasOwn, Same
  <2> QED BY <1>1, <1>2, <2>2 DEF ShowsOwn
<1> QED BY <1>3, <1>4 DEF ShowsOwn

\* A new project is one that neither the server nor another call has.
NewProject(c) == c.op = "createProject" => c.arg \in Unused(Projects \ DOMAIN db.home, "createProject")

LEMMA MovesOwn ==
  ASSUME Base, NEW rest, NEW st, NEW pg, NEW asked, Moves(rest, st, pg, asked),
         \A c : asked = <<c>> => c.op # "project" /\ NewProject(c),
         why' = {} => ShowsOwn(db.home, calls, rest, pg, st)
  PROVE  Own'
<1>1. PICK p, cs, R, h : p = page' /\ cs = calls' /\ R = DOMAIN calls' /\ h = db.home
  OBVIOUS
<1>2. /\ Goes(pg, p, cs, R, rest, asked) /\ Remains(pg, p, cs, R \ rest) /\ store' = st
      /\ db'.home = h
  BY <1>1, MovesMakes DEF Moves
<1> SUFFICES ASSUME ShowsOwn(h, calls, rest, pg, st) PROVE ShowsOwn(h, cs, R, p, st)
  BY <1>1, <1>2 DEF Own
<1>3. /\ rest \subseteq R /\ \A j \in rest : cs[j] = calls[j]
      /\ rest \subseteq DOMAIN calls
  BY <1>2 DEF Goes, Moves
<1>4. ASSUME NEW j \in R \ rest
      PROVE  /\ cs[j].state = "sent"
             /\ Opened(cs[j], p) \/ (NewProject(cs[j]) /\ cs[j].op \notin {"projects", "project"})
  <2>1. CASE Opened(cs[j], p)
    BY <2>1 DEF Opened
  <2>2. CASE asked = <<cs[j]>>
    <3>1. Asked(pg, cs[j])
      BY <2>2, MovesAsk DEF Moves
    <3> QED BY <2>2, <3>1 DEF Asked
  <2> QED BY <1>2, <2>1, <2>2 DEF Goes
<1>5. \A j \in R \ rest : cs[j].op = "createProject" => NewProject(cs[j]) /\ j = Sent + 1
  <2>1. \A j \in R \ rest : Opened(cs[j], p) => cs[j].op # "createProject"
    BY DEF Opened
  <2> QED BY <1>2, <1>4, <2>1 DEF Goes
<1>6. Creations(h, cs, R)
  <2>1. ASSUME NEW k \in R, cs[k].op = "createProject", NEW j \in R \ {k},
               cs[j].op = "createProject", cs[j].arg = cs[k].arg
        PROVE  FALSE
    <3>1. CASE k \in rest /\ j \in rest
      BY <1>3, <2>1, <3>1 DEF ShowsOwn, Creations
    <3>2. CASE k \notin rest /\ j \notin rest
      BY <1>5, <2>1, <3>2
    <3>3. CASE k \notin rest /\ j \in rest
      <4>1. calls[j].op = "createProject" /\ calls[j].arg = cs[k].arg /\ j \in DOMAIN calls
        BY <1>3, <2>1, <3>3
      <4>2. NewProject(cs[k])
        BY <1>5, <2>1, <3>3
      <4> QED BY <2>1, <4>1, <4>2 DEF NewProject, Unused
    <3>4. CASE k \in rest /\ j \notin rest
      <4>1. calls[k].op = "createProject" /\ calls[k].arg = cs[j].arg /\ k \in DOMAIN calls
        BY <1>3, <2>1, <3>4
      <4>2. NewProject(cs[j])
        BY <1>5, <2>1, <3>4
      <4> QED BY <2>1, <4>1, <4>2 DEF NewProject, Unused
    <3> QED BY <3>1, <3>2, <3>3, <3>4
  <2>2. ASSUME NEW k \in R, cs[k].op = "createProject"
        PROVE  /\ cs[k].state = "sent" => cs[k].arg \notin DOMAIN h
               /\ cs[k].state = "ok" => cs[k].answer = cs[k].arg
    <3>1. CASE k \in rest
      BY <1>3, <2>2, <3>1 DEF ShowsOwn, Creations
    <3>2. CASE k \notin rest
      <4>1. NewProject(cs[k]) /\ cs[k].state = "sent"
        BY <1>4, <1>5, <2>2, <3>2
      <4> QED BY <1>1, <2>2, <4>1 DEF NewProject, Unused
    <3> QED BY <3>1, <3>2
  <2> QED BY <2>1, <2>2 DEF Creations
<1>7. \A k \in rest : calls[k].by <= Sent
  BY <1>3, SentIsLargest DEF Base
<1>8. p.wsp # 0 =>
        \/ p.wsp = pg.wsp /\ p.ready = pg.ready /\ p.ws = pg.ws
        \/ ~p.ready /\ \A k \in rest : calls[k].by # p.wsp
  <2>1. ASSUME NEW j \in R \ rest, Opened(cs[j], p), cs[j].op = "projects"
        PROVE  \A k \in rest : calls[k].by # p.wsp
    <3>1. p.wsp \in Nat /\ p.wsp > Sent
      BY <2>1 DEF Opened
    <3>2. Sent \in Nat /\ \A k \in rest : calls[k].by \in Nat
      BY <1>3, SentIsLargest DEF Base, PagesInv, Numbered, IsCall
    <3> QED BY <1>7, <3>1, <3>2
  <2> QED BY <1>2, <2>1 DEF Remains
<1>9. p.inner # 0 =>
        \/ p.inner = pg.inner /\ p.at = pg.at /\ p.shown = pg.shown /\ p.arg = pg.arg
        \/ ~p.shown /\ \A k \in rest : calls[k].by # p.inner
  <2>1. p.inner \in Nat /\ Sent \in Nat /\ \A k \in rest : calls[k].by \in Nat
    BY <1>2, <1>3, SentIsLargest DEF Base, PagesInv, Numbered, IsCall, Remains, IsPage
  <2>2. p.inner > Sent => \A k \in rest : calls[k].by # p.inner
    BY <1>7, <2>1
  <2> QED BY <1>2, <2>2 DEF Remains
<1>10. Meant(cs, R, p)
  <2>1. ASSUME p.wsp # 0, NEW k \in R, cs[k].op = "projects", cs[k].by = p.wsp
        PROVE  cs[k].ws = p.ws
    <3>1. CASE k \in rest
      BY <1>3, <1>8, <2>1, <3>1 DEF ShowsOwn, Meant
    <3>2. CASE k \notin rest
      BY <1>4, <2>1, <3>2 DEF Opened
    <3> QED BY <3>1, <3>2
  <2>2. ASSUME p.inner # 0, p.at = "project", NEW k \in R, cs[k].op = "project", cs[k].by = p.inner
        PROVE  cs[k].arg = p.arg /\ (cs[k].state = "ok" => cs[k].answer = p.arg)
    <3>1. CASE k \in rest
      BY <1>3, <1>9, <2>2, <3>1 DEF ShowsOwn, Meant
    <3>2. CASE k \notin rest
      BY <1>4, <2>2, <3>2 DEF Opened
    <3> QED BY <3>1, <3>2
  <2> QED BY <2>1, <2>2 DEF Meant
<1>11. p.inner # 0 /\ p.at = "project" /\ p.shown => st.cards = p.arg
  BY <1>9 DEF ShowsOwn
<1>12. CASE \E k \in rest : Departs(calls[k])
  <2>1. \E k \in R : Departs(cs[k])
    BY <1>3, <1>12
  <2> QED BY <1>6, <1>10, <1>11, <2>1 DEF ShowsOwn
<1>13. CASE HasOwn(h, calls, rest, pg, st.projects)
  <2>1. ASSUME NEW w, NEW S, Holds(h, calls, rest, w, S)
        PROVE  Holds(h, cs, R, w, S)
    BY <1>3, <2>1 DEF Holds
  <2>2. ASSUME p.wsp # 0, NEW k \in R, cs[k].op = "projects", cs[k].by = p.wsp, cs[k].state = "ok"
        PROVE  Holds(h, cs, R, p.ws, cs[k].answer)
    <3>1. k \in rest
      BY <1>4, <2>2
    <3>2. calls[k] = cs[k] /\ p.wsp = pg.wsp /\ p.ws = pg.ws
      BY <1>3, <1>8, <2>2, <3>1
    <3>3. Holds(h, calls, rest, p.ws, cs[k].answer)
      BY <1>13, <2>2, <3>1, <3>2 DEF HasOwn
    <3> QED BY <2>1, <3>3
  <2>3. ASSUME p.wsp # 0, p.ready PROVE Holds(h, cs, R, p.ws, st.projects)
    <3>1. p.wsp = pg.wsp /\ p.ws = pg.ws /\ pg.ready
      BY <1>8, <2>3
    <3>2. Holds(h, calls, rest, p.ws, st.projects)
      BY <1>13, <2>3, <3>1 DEF HasOwn
    <3> QED BY <2>1, <3>2
  <2>4. \A k \in R : cs[k].op = "createProject" /\ cs[k].state = "ok"
                       => cs[k].arg \in HomesIn(h, cs[k].ws)
    BY <1>3, <1>4, <1>13 DEF HasOwn
  <2>5. HasOwn(h, cs, R, p, st.projects)
    BY <2>2, <2>3, <2>4 DEF HasOwn
  <2> QED BY <1>6, <1>10, <1>11, <2>5 DEF ShowsOwn
<1> QED BY <1>12, <1>13 DEF ShowsOwn

LEMMA FormOwn ==
  ASSUME Base, Own, NEW op, NEW w, NEW x, Ask(op, w, x), Sends(op, w, x)
  PROVE  Own'
<1>1. PICK c : c = Call(op, w, x, page.inner)
  OBVIOUS
<1>2. /\ Moves(DOMAIN calls, store, page, <<c>>) /\ why' = why /\ c.op = op /\ c.arg = x
  BY <1>1, FormMoves
<1>3. c.op # "project" /\ NewProject(c)
  BY <1>2 DEF Sends, Forms, NewProject
<1>4. \A d : <<c>> = <<d>> => d.op # "project" /\ NewProject(d)
  BY <1>3
<1>5. why' = {} => ShowsOwn(db.home, calls, DOMAIN calls, page, store)
  BY <1>2 DEF Own
<1> QED BY <1>2, <1>4, <1>5, MovesOwn

\* Links that lead to another workspace or project make a page out of date at once.
LEMMA FollowSame ==
  ASSUME Base, NEW to, Follow(to), why' = {}, NEW pg, pg = Going(page, to.at, to.ws, to.arg)
  PROVE  Same(page, pg)
<1>1. IsPage(page) /\ Nested(page) /\ Placed(page)
  BY DEF Base, PagesInv
<1>2. /\ Kept(page, pg) /\ IsPage(pg) /\ Nested(pg) /\ Placed(pg)
      /\ pg.at = to.at /\ pg.ws = to.ws /\ pg.arg = to.arg
  BY <1>1, GoingPlaced, GoingFits
<1>3. to.at \in Within /\ page.wsp # 0 =>
        to.ws = page.ws /\ (to.at = "project" /\ page.at = "project" => to.arg = page.arg)
  BY DEF Follow
<1>4. pg.wsp # 0 => pg.wsp = page.wsp /\ pg.ws = page.ws /\ pg.ready = page.ready
  BY <1>2, <1>3 DEF Kept, Nested
<1>5. ASSUME pg.inner # 0, pg.at = "project"
      PROVE  /\ pg.inner = page.inner /\ page.at = "project" /\ pg.arg = page.arg
             /\ pg.shown = page.shown
  <2>1. /\ pg.inner = page.inner /\ page.at = "project" /\ pg.shown = page.shown
        /\ pg.wsp = page.wsp /\ pg.at \in Within
    BY <1>2, <1>5 DEF Kept, Within
  <2>2. pg.wsp # 0
    BY <1>2, <1>5, <2>1 DEF Placed
  <2> QED BY <1>2, <1>3, <1>5, <2>1, <2>2
<1> QED BY <1>4, <1>5 DEF Same

LEMMA FollowOwn ==
  ASSUME Base, Own, NEW to, Follow(to)
  PROVE  Own'
<1>1. PICK pg : pg = Going(page, to.at, to.ws, to.arg)
  OBVIOUS
<1>2. Moves(DOMAIN calls, store, pg, <<>>) /\ why \subseteq why'
  BY <1>1, FollowMoves DEF Moves
<1>3. ASSUME why' = {} PROVE ShowsOwn(db.home, calls, DOMAIN calls, pg, store)
  <2>1. Same(page, pg)
    BY <1>1, <1>3, FollowSame
  <2>2. ShowsOwn(db.home, calls, DOMAIN calls, page, store)
    BY <1>2, <1>3 DEF Own
  <2> QED BY <2>1, <2>2, KeepsOwn
<1>4. \A c : <<>> # <<c>>
  OBVIOUS
<1> QED BY <1>2, <1>3, <1>4, MovesOwn

LEMMA LoadOwn ==
  ASSUME Base, Base',
         \/ \E to \in Typed : TypeAddress(to)
         \/ \E k \in DOMAIN calls : DepartureAnswered(k) /\ Ok(k)
         \/ \E k \in DOMAIN calls : CheckoutAnswered(k) /\ Ok(k)
  PROVE  Own'
<1> SUFFICES ASSUME why' = {} PROVE Own'
  BY DEF Own
<1>1. PICK p, cs, R, h, st : /\ p = page' /\ cs = calls' /\ R = DOMAIN calls' /\ h = db'.home
                             /\ st = store'
  OBVIOUS
<1>2. ~p.loaded /\ ~p.shown /\ \A j \in R : Opened(cs[j], p)
  BY <1>1, LoadMakes
<1>3. p.wsp = 0
  BY <1>1, <1>2 DEF Base, Placed
<1>4. \A j \in R : /\ cs[j].op # "createProject" /\ cs[j].state = "sent"
                   /\ cs[j].op = "project" => cs[j].arg = p.arg
  BY <1>2 DEF Opened
<1>5. ShowsOwn(h, cs, R, p, st)
  BY <1>2, <1>3, <1>4 DEF ShowsOwn, Creations, Meant, HasOwn
<1> QED BY <1>1, <1>5 DEF Own

LEMMA InitOwn == Init => Own
<1> SUFFICES ASSUME Init PROVE Own
  OBVIOUS
<1>1. PICK p, cs, R, h : p = page /\ cs = calls /\ R = DOMAIN calls /\ h = db.home
  OBVIOUS
<1>2. ~p.loaded /\ ~p.shown
  BY <1>1, InitMakes
<1>3. p.wsp = 0 /\ (p.at \in Within => p.inner = 0)
  BY <1>1, <1>2, InitBase DEF Base, Placed, Inside
<1>4. \A j \in R : cs[j].op # "createProject" /\ cs[j].state = "sent"
  BY <1>1, InitMakes DEF Loads
<1>5. ShowsOwn(h, cs, R, p, store)
  BY <1>2, <1>3, <1>4 DEF ShowsOwn, Creations, Meant, HasOwn, Within
<1> QED BY <1>1, <1>5 DEF Own

\* What is served changes the projects by a call whose answer is still to come.
LEMMA ServeOwn ==
  ASSUME Base, Own, NEW k \in DOMAIN calls, Serve(k)
  PROVE  Own'
<1>1. /\ cookie' = cookie /\ store' = store /\ page' = page /\ why' = why
      /\ calls[k].state = "sent"
  BY ServeIs
<1> SUFFICES ASSUME why = {} PROVE Own'
  BY <1>1 DEF Own
<1>2. PICK ok \in BOOLEAN : Serves(k, ok)
  BY ServeIs
<1>3. calls[k].here
  BY DEF Base, AllHere
<1>4. PICK c, cs, R, h, g : c = calls[k] /\ cs = calls' /\ R = DOMAIN calls /\ h = db.home /\ g = db'.home
  OBVIOUS
<1>5. PICK d : d = cs[k]
  OBVIOUS
<1>6. /\ After(c, d, ok) /\ \A j \in R \ {k} : cs[j] = calls[j]
      /\ ok => Allowed(c)
      /\ db' = IF ok THEN Effect(c) ELSE db
      /\ DOMAIN calls' = R /\ k \in R /\ c.state = "sent"
  BY <1>1, <1>2, <1>3, <1>4, <1>5 DEF Serves
<1>7. ShowsOwn(h, calls, R, page, store)
  BY <1>4 DEF Own
<1>8. SUFFICES ShowsOwn(g, cs, R, page, store)
  BY <1>1, <1>4, <1>6 DEF Own
<1>9. TablesFit /\ MadeBy(page, c)
  BY <1>4 DEF Base
<1>10. /\ ok /\ c.op = "createProject" => g = With(h, c.arg, c.ws)
       /\ ~ (ok /\ c.op \in {"createProject", "deleteWorkspace"}) => g = h
  <2>1. CASE ~ok
    BY <1>4, <1>6, <2>1
  <2>2. CASE ok
    <3>1. PICK e : e = Effect(c)
      OBVIOUS
    <3>2. /\ c.op \notin {"createProject", "deleteWorkspace"} => e.home = db.home
          /\ c.op = "createProject" => e.home = With(db.home, c.arg, c.ws)
      BY <1>9, <3>1, EffectIs
    <3>3. g = e.home
      BY <1>4, <1>6, <2>2, <3>1
    <3> QED BY <1>4, <2>2, <3>2, <3>3
  <2> QED BY <2>1, <2>2
<1>11. d.op = c.op /\ d.ws = c.ws /\ d.arg = c.arg /\ d.by = c.by /\ (d.state = "ok" <=> ok)
       /\ d.state # "sent"
  BY <1>6 DEF After
<1>12. /\ ok /\ c.op \in {"createProject", "project"} => d.answer = c.arg
       /\ ok /\ c.op = "projects" => d.answer = HomesIn(h, c.ws)
  BY <1>4, <1>6 DEF After, AnswerTo, ProjectsOf, HomesIn
<1>13. \A j \in R : /\ cs[j].op = calls[j].op /\ cs[j].arg = calls[j].arg
                    /\ cs[j].by = calls[j].by /\ cs[j].ws = calls[j].ws
                    /\ j # k => cs[j] = calls[j]
  BY <1>4, <1>5, <1>6, <1>11
<1>14. c.op = "createProject" => c.arg \notin DOMAIN h
  BY <1>4, <1>6, <1>7 DEF ShowsOwn, Creations
<1>15. \A z : z \in DOMAIN g => z \in DOMAIN h \/ (ok /\ c.op = "createProject" /\ z = c.arg)
                                \/ (ok /\ c.op = "deleteWorkspace")
  <2>1. CASE ok /\ c.op = "createProject"
    <3>1. WithIs(h, g, c.arg, c.ws)
      BY <1>10, <2>1, WithAdds
    <3> QED BY <2>1, <3>1 DEF WithIs
  <2>2. CASE ~ (ok /\ c.op = "createProject")
    BY <1>10, <2>2
  <2> QED BY <2>1, <2>2
<1>16. CASE ok /\ c.op \in {"leave", "deleteWorkspace", "deleteAccount"}
  <2>1. Departs(d)
    BY <1>11, <1>16 DEF Departs
  <2>2. \A z \in DOMAIN g : z \in DOMAIN h
    <3>1. CASE c.op # "deleteWorkspace"
      BY <1>10, <1>16, <3>1
    <3>2. CASE c.op = "deleteWorkspace"
      <4>1. PICK e : e = Effect(c)
        OBVIOUS
      <4>2. e.home = Drop(db.home, ProjectsOf(c.ws))
        BY <1>9, <3>2, <4>1, EffectIs
      <4>3. g = Drop(h, ProjectsOf(c.ws))
        BY <1>4, <1>6, <1>16, <4>1, <4>2
      <4>4. PICK gone : gone = ProjectsOf(c.ws)
        OBVIOUS
      <4>5. DropIs(h, g, gone)
        BY <4>3, <4>4, DropDrops
      <4> QED BY <4>5 DEF DropIs
    <3> QED BY <3>1, <3>2
  <2>3. Creations(g, cs, R)
    BY <1>5, <1>7, <1>11, <1>13, <1>16, <2>2 DEF ShowsOwn, Creations
  <2>4. Meant(cs, R, page)
    BY <1>5, <1>7, <1>11, <1>13, <1>16 DEF ShowsOwn, Meant
  <2> QED BY <1>5, <1>6, <1>7, <2>1, <2>3, <2>4 DEF ShowsOwn
<1>17. CASE ~ (ok /\ c.op \in {"leave", "deleteWorkspace", "deleteAccount"})
  <2>1. \A p, w : p \in HomesIn(g, w) <=> \/ p \in HomesIn(h, w)
                                          \/ Brought(d, p, w)
    <3>1. CASE ok /\ c.op = "createProject"
      <4>1. WithIs(h, g, c.arg, c.ws)
        BY <1>10, <3>1, WithAdds
      <4> QED BY <1>11, <1>14, <3>1, <4>1 DEF WithIs, HomesIn, Brought
    <3>2. CASE ~ (ok /\ c.op = "createProject")
      BY <1>10, <1>11, <1>17, <3>2 DEF Brought
    <3> QED BY <3>1, <3>2
  <2>2. ~Departs(c) /\ ~Departs(d)
    BY <1>6, <1>11, <1>17 DEF Departs
  <2>3. Creations(g, cs, R)
    <3>1. ASSUME NEW j \in R, cs[j].op = "createProject", cs[j].state = "sent"
          PROVE  cs[j].arg \notin DOMAIN g
      <4>1. j # k
        BY <1>5, <1>11, <3>1
      <4>2. calls[j].arg \notin DOMAIN h
        BY <1>7, <1>13, <3>1, <4>1 DEF ShowsOwn, Creations
      <4>3. c.op = "createProject" => calls[j].arg # c.arg
        BY <1>4, <1>6, <1>7, <1>13, <3>1, <4>1 DEF ShowsOwn, Creations
      <4> QED BY <1>13, <1>15, <1>17, <4>2, <4>3
    <3>2. ASSUME NEW j \in R, cs[j].op = "createProject"
          PROVE  /\ cs[j].state = "ok" => cs[j].answer = cs[j].arg
                 /\ \A i \in R \ {j} : cs[i].op = "createProject" => cs[i].arg # cs[j].arg
      BY <1>5, <1>7, <1>11, <1>12, <1>13, <3>2 DEF ShowsOwn, Creations
    <3> QED BY <3>1, <3>2 DEF Creations
  <2>4. Meant(cs, R, page)
    <3>1. ASSUME page.wsp # 0, NEW j \in R, cs[j].op = "projects", cs[j].by = page.wsp
          PROVE  cs[j].ws = page.ws
      BY <1>7, <1>13, <3>1 DEF ShowsOwn, Meant
    <3>2. ASSUME page.inner # 0, page.at = "project", NEW j \in R, cs[j].op = "project",
                 cs[j].by = page.inner
          PROVE  cs[j].arg = page.arg /\ (cs[j].state = "ok" => cs[j].answer = page.arg)
      <4>1. cs[j].arg = page.arg /\ (calls[j].state = "ok" => calls[j].answer = page.arg)
        BY <1>7, <1>13, <3>2 DEF ShowsOwn, Meant
      <4>2. j # k => cs[j] = calls[j]
        BY <1>13
      <4>3. j = k /\ cs[j].state = "ok" => cs[j].answer = cs[j].arg
        BY <1>5, <1>11, <1>12, <3>2
      <4> QED BY <4>1, <4>2, <4>3
    <3> QED BY <3>1, <3>2 DEF Meant
  <2>5. CASE \E j \in R : Departs(calls[j])
    <3>1. PICK j \in R : Departs(calls[j])
      BY <2>5
    <3>2. Departs(cs[j])
      BY <1>4, <1>13, <2>2, <3>1
    <3> QED BY <1>7, <2>3, <2>4, <3>2 DEF ShowsOwn
  <2>6. CASE HasOwn(h, calls, R, page, store.projects)
    <3>1. ASSUME NEW w, NEW S, Holds(h, calls, R, w, S) PROVE Holds(g, cs, R, w, S)
      <4>1. \A j \in R : \A p : Brought(calls[j], p, w) => Brought(cs[j], p, w)
        BY <1>4, <1>6, <1>13 DEF Brought
      <4>2. \A p : Brought(d, p, w) => \E j \in R : Brought(cs[j], p, w)
        BY <1>5, <1>6
      <4> QED BY <2>1, <3>1, <4>1, <4>2 DEF Holds
    <3>2. \A w : Holds(h, calls, R, w, HomesIn(h, w))
      BY DEF Holds
    <3>3. ASSUME page.wsp # 0, NEW j \in R, cs[j].op = "projects", cs[j].by = page.wsp,
                 cs[j].state = "ok"
          PROVE  Holds(g, cs, R, page.ws, cs[j].answer)
      <4>1. CASE j # k
        <5>1. Holds(h, calls, R, page.ws, cs[j].answer)
          BY <1>13, <2>6, <3>3, <4>1 DEF HasOwn
        <5> QED BY <3>1, <5>1
      <4>2. CASE j = k
        <5>1. cs[j].answer = HomesIn(h, page.ws)
          BY <1>5, <1>11, <1>12, <2>4, <3>3, <4>2 DEF Meant
        <5> QED BY <3>1, <3>2, <5>1
      <4> QED BY <4>1, <4>2
    <3>4. page.wsp # 0 /\ page.ready => Holds(g, cs, R, page.ws, store.projects)
      BY <2>6, <3>1 DEF HasOwn
    <3>5. ASSUME NEW j \in R, cs[j].op = "createProject", cs[j].state = "ok"
          PROVE  cs[j].arg \in HomesIn(g, cs[j].ws)
      <4>1. CASE j # k
        <5>1. cs[j].arg \in HomesIn(h, cs[j].ws)
          BY <1>13, <2>6, <3>5, <4>1 DEF HasOwn
        <5> QED BY <2>1, <5>1
      <4>2. CASE j = k
        <5>1. Brought(d, cs[j].arg, cs[j].ws)
          BY <1>5, <3>5, <4>2 DEF Brought
        <5> QED BY <2>1, <5>1
      <4> QED BY <4>1, <4>2
    <3>6. HasOwn(g, cs, R, page, store.projects)
      BY <3>3, <3>4, <3>5 DEF HasOwn
    <3> QED BY <1>7, <2>3, <2>4, <3>6 DEF ShowsOwn
  <2> QED BY <1>7, <2>5, <2>6 DEF ShowsOwn
<1> QED BY <1>16, <1>17

LEMMA AnswerKeepsOwn ==
  ASSUME Base, Own, NEW k \in DOMAIN calls,
         ~Departs(calls[k]), calls[k].op # "createProject" \/ calls[k].state # "ok",
         NEW st, NEW pg, NEW asked, Moves(DOMAIN calls \ {k}, st, pg, asked), Same(page, pg),
         st.cards = store.cards, st.projects = store.projects,
         \A c : asked = <<c>> => c.op \notin {"project", "createProject"}
  PROVE  Own'
<1>1. PICK R, Q : R = DOMAIN calls /\ Q = DOMAIN calls \ {k}
  OBVIOUS
<1>2. why \subseteq why'
  BY DEF Moves
<1>3. ASSUME why' = {} PROVE ShowsOwn(db.home, calls, Q, pg, st)
  <2>1. ShowsOwn(db.home, calls, R, page, store)
    BY <1>1, <1>2, <1>3 DEF Own
  <2>2. Q \subseteq R /\ \A j \in R \ Q : j = k
    BY <1>1
  <2> QED BY <2>1, <2>2, KeepsOwn
<1>4. \A c : asked = <<c>> => c.op # "project" /\ NewProject(c)
  BY DEF NewProject
<1> QED BY <1>1, <1>3, <1>4, MovesOwn

LEMMA SameAtHome ==
  ASSUME Base, NEW pg, \/ pg = page
                       \/ pg = Going(page, "index", None, None)
                       \/ \E at : pg = Address(at, None, None)
  PROVE  Same(page, pg)
<1>1. IsPage(page) /\ Nested(page) /\ Placed(page)
  BY DEF Base, PagesInv
<1>2. CASE pg = page
  BY <1>2 DEF Same
<1>3. CASE pg = Going(page, "index", None, None)
  <2>1. Nested(pg) /\ pg.at = "index"
    BY <1>1, <1>3, GoingFits, GoingPlaced
  <2> QED BY <2>1 DEF Same, Nested, Within
<1>4. CASE \E at : pg = Address(at, None, None)
  BY <1>4, AddressPlaced DEF Same
<1> QED BY <1>2, <1>3, <1>4

\* The session and the account have nothing to do with what is shown of a workspace.
LEMMA AccountOwn ==
  ASSUME Base, Own, NEW k \in DOMAIN calls,
         AppAnswered(k) \/ GetAppAnswered(k) \/ SessionAnswered(k) \/ LogOutAnswered(k)
  PROVE  Own'
<1>0. /\ IsPage(page) /\ Whole(store)
      /\ \A c : <<>> # <<c>>
  BY DEF Base, PagesInv
<1>1. calls[k].op \in {"app", "getApp", "login", "signup", "logout"}
  BY AppMoves, GetAppMoves, SessionMoves, LogOutMoves
<1>2. ~Departs(calls[k]) /\ calls[k].op # "createProject"
  BY <1>1 DEF Departs
<1>3. CASE AppAnswered(k)
  <2>1. PICK st, pg :
          /\ Moves(DOMAIN calls \ {k}, st, pg, <<>>)
          /\ st = store \/ st = [store EXCEPT !.app = calls[k].answer]
          /\ \/ pg = page \/ pg = [page EXCEPT !.loaded = TRUE]
             \/ pg = Address("login", None, None)
    BY <1>3, AppMoves
  <2>2. Same(page, pg)
    <3>1. CASE pg = [page EXCEPT !.loaded = TRUE]
      BY <1>0, <3>1 DEF Same, IsPage
    <3> QED BY <2>1, <3>1, SameAtHome
  <2>3. st.cards = store.cards /\ st.projects = store.projects
    BY <1>0, <2>1 DEF Whole
  <2>4. Moves(DOMAIN calls \ {k}, st, pg, <<>>)
    BY <2>1
  <2> QED BY <1>0, <1>2, <2>2, <2>3, <2>4, AnswerKeepsOwn
<1>4. CASE GetAppAnswered(k)
  <2>1. PICK st :
          /\ Moves(DOMAIN calls \ {k}, st, page, <<>>)
          /\ st = store \/ st = [store EXCEPT !.app = calls[k].answer]
    BY <1>4, GetAppMoves
  <2>2. Same(page, page)
    BY SameAtHome
  <2>3. st.cards = store.cards /\ st.projects = store.projects
    BY <1>0, <2>1 DEF Whole
  <2>4. Moves(DOMAIN calls \ {k}, st, page, <<>>)
    BY <2>1
  <2> QED BY <1>0, <1>2, <2>2, <2>3, <2>4, AnswerKeepsOwn
<1>5. CASE SessionAnswered(k)
  <2>1. PICK pg : /\ Moves(DOMAIN calls \ {k}, store, pg, <<>>)
                  /\ pg = page \/ pg = Going(page, "index", None, None)
    BY <1>5, SessionMoves
  <2>2. Same(page, pg)
    BY <2>1, SameAtHome
  <2>3. Moves(DOMAIN calls \ {k}, store, pg, <<>>)
    BY <2>1
  <2> QED BY <1>0, <1>2, <2>2, <2>3, AnswerKeepsOwn
<1>6. CASE LogOutAnswered(k)
  <2>1. PICK st, pg :
          /\ Moves(DOMAIN calls \ {k}, st, pg, <<>>)
          /\ st = store \/ st = [store EXCEPT !.app = NoApp]
          /\ pg = page \/ pg = Going(page, "index", None, None)
    BY <1>6, LogOutMoves
  <2>2. Same(page, pg)
    BY <2>1, SameAtHome
  <2>3. st.cards = store.cards /\ st.projects = store.projects
    BY <1>0, <2>1 DEF Whole
  <2>4. Moves(DOMAIN calls \ {k}, st, pg, <<>>)
    BY <2>1
  <2> QED BY <1>0, <1>2, <2>2, <2>3, <2>4, AnswerKeepsOwn
<1> QED BY <1>3, <1>4, <1>5, <1>6

\* Nor have the lists and the forms of other pages.
LEMMA ListOwn ==
  ASSUME Base, Own, NEW k \in DOMAIN calls, ListAnswered(k)
  PROVE  Own'
<1>1. /\ calls[k].op \in {"members", "invites", "keys"}
      /\ \A c : <<>> # <<c>>
  BY ListMoves
<1>2. PICK pg :
        /\ Moves(DOMAIN calls \ {k}, store, pg, <<>>)
        /\ \/ Ok(k) /\ page.inner = calls[k].by /\ pg = Listed(k, page)
           \/ pg = page
  BY ListMoves
<1>3. Moves(DOMAIN calls \ {k}, store, pg, <<>>)
  BY <1>2
<1>4. Same(page, pg)
  <2>1. CASE pg = page
    BY <2>1 DEF Same
  <2>2. CASE page.inner = calls[k].by /\ pg = Listed(k, page)
    <3>1. IsPage(page) /\ MadeBy(page, calls[k])
      BY DEF Base, PagesInv
    <3>2. /\ \/ \E S : pg = [page EXCEPT !.members = S, !.shown = TRUE]
             \/ \E S : pg = [page EXCEPT !.invites = S]
             \/ \E S : pg = [page EXCEPT !.keys = S]
      BY <1>1, <2>2 DEF Listed
    <3>3. /\ pg.wsp = page.wsp /\ pg.ws = page.ws /\ pg.ready = page.ready
          /\ pg.inner = page.inner /\ pg.at = page.at /\ pg.arg = page.arg
      BY <3>1, <3>2 DEF IsPage
    <3>4. calls[k].op \in DOMAIN AtOf /\ "project" \notin AtOf[calls[k].op]
      BY <1>1 DEF AtOf
    <3>5. page.inner # 0 => page.at # "project"
      BY <2>2, <3>1, <3>4 DEF MadeBy
    <3> QED BY <3>3, <3>5 DEF Same
  <2> QED BY <1>2, <2>1, <2>2
<1>5. ~Departs(calls[k]) /\ calls[k].op # "createProject"
  BY <1>1 DEF Departs
<1> QED BY <1>1, <1>3, <1>4, <1>5, AnswerKeepsOwn

LEMMA FormAnswerOwn ==
  ASSUME Base, Own, NEW k \in DOMAIN calls,
         \/ SettingAnswered(k) \/ KeyAnswered(k) \/ WorkspaceCreated(k)
         \/ Says(k) \/ InviteAnswered(k) \/ PlanAnswered(k)
         \/ DepartureAnswered(k) /\ ~Ok(k)
         \/ CheckoutAnswered(k) /\ ~Ok(k)
  PROVE  Own'
<1>0. /\ IsPage(page) /\ MadeBy(page, calls[k])
      /\ \A c : <<>> # <<c>>
  BY DEF Base, PagesInv
<1>1. CASE SettingAnswered(k)
  <2>1. PICK asked :
          /\ Moves(DOMAIN calls \ {k}, store, page, asked)
          /\ \/ asked = <<>>
             \/ \E w : asked = <<Call(Reloads[calls[k].op], w, None, calls[k].by)>>
    BY <1>1, SettingMoves
  <2>2. Moves(DOMAIN calls \ {k}, store, page, asked) /\ calls[k].op \in DOMAIN Reloads
    BY <1>1, <2>1, SettingMoves
  <2>3. \A c : asked = <<c>> => c.op \in {"members", "invites"}
    <3>1. Reloads[calls[k].op] \in {"members", "invites"}
      BY <2>2 DEF Reloads
    <3>2. ASSUME NEW c, asked = <<c>> PROVE c.op \in {"members", "invites"}
      <4>1. PICK w : asked = <<Call(Reloads[calls[k].op], w, None, calls[k].by)>>
        BY <1>0, <2>1, <3>2
      <4>2. PICK d : d = Call(Reloads[calls[k].op], w, None, calls[k].by)
        OBVIOUS
      <4>3. d.op = Reloads[calls[k].op]
        BY <4>2 DEF Call
      <4>4. c = d
        BY <3>2, <4>1, <4>2
      <4> QED BY <3>1, <4>3, <4>4
    <3> QED BY <3>2
  <2>4. ~Departs(calls[k]) /\ calls[k].op # "createProject"
    BY <2>2 DEF Reloads, Departs
  <2>5. Same(page, page)
    BY SameAtHome
  <2> QED BY <2>2, <2>3, <2>4, <2>5, AnswerKeepsOwn
<1>2. CASE KeyAnswered(k)
  <2>1. PICK pg, asked :
          /\ Moves(DOMAIN calls \ {k}, store, pg, asked)
          /\ pg = page \/ pg = [page EXCEPT !.key = calls[k].answer]
          /\ asked = <<>> \/ asked = <<Call("keys", None, None, calls[k].by)>>
    BY <1>2, KeyMoves
  <2>2. Moves(DOMAIN calls \ {k}, store, pg, asked) /\ calls[k].op \in {"createKey", "revokeKey"}
    BY <1>2, <2>1, KeyMoves
  <2>3. \A c : asked = <<c>> => c.op = "keys"
    <3>1. PICK d : d = Call("keys", None, None, calls[k].by)
      OBVIOUS
    <3>2. d.op = "keys"
      BY <3>1 DEF Call
    <3> QED BY <1>0, <2>1, <3>1, <3>2
  <2>4. ~Departs(calls[k]) /\ calls[k].op # "createProject"
    BY <2>2 DEF Departs
  <2>5. Same(page, pg)
    BY <1>0, <2>1 DEF Same, IsPage
  <2> QED BY <2>2, <2>3, <2>4, <2>5, AnswerKeepsOwn
<1>3. CASE WorkspaceCreated(k)
  <2>1. PICK asked :
          /\ Moves(DOMAIN calls \ {k}, store, page, asked)
          /\ asked = <<>> \/ asked = <<Call("getApp", None, None, 0)>>
    BY <1>3, WorkspaceCreatedMoves
  <2>2. Moves(DOMAIN calls \ {k}, store, page, asked) /\ calls[k].op = "createWorkspace"
    BY <1>3, <2>1, WorkspaceCreatedMoves
  <2>3. \A c : asked = <<c>> => c.op = "getApp"
    <3>1. PICK d : d = Call("getApp", None, None, 0)
      OBVIOUS
    <3>2. d.op = "getApp"
      BY <3>1 DEF Call
    <3> QED BY <1>0, <2>1, <3>1, <3>2
  <2>4. ~Departs(calls[k]) /\ calls[k].op # "createProject"
    BY <2>2 DEF Departs
  <2>5. Same(page, page)
    BY SameAtHome
  <2> QED BY <2>2, <2>3, <2>4, <2>5, AnswerKeepsOwn
<1>4. CASE Says(k)
  <2>1. PICK pg : /\ Moves(DOMAIN calls \ {k}, store, pg, <<>>)
                  /\ pg = page \/ pg = [page EXCEPT !.said = calls[k].state]
    BY <1>4, SaysMoves
  <2>2. Moves(DOMAIN calls \ {k}, store, pg, <<>>) /\ calls[k].op \in Said
    BY <1>4, <2>1, SaysMoves
  <2>3. ~Departs(calls[k]) /\ calls[k].op # "createProject"
    BY <2>2 DEF Departs, Said
  <2>4. Same(page, pg)
    BY <1>0, <2>1 DEF Same, IsPage
  <2> QED BY <1>0, <2>2, <2>3, <2>4, AnswerKeepsOwn
<1>5. CASE InviteAnswered(k)
  <2>1. PICK pg : /\ Moves(DOMAIN calls \ {k}, store, pg, <<>>)
                  /\ \/ page.inner = calls[k].by /\ pg = [page EXCEPT !.shown = Ok(k)]
                     \/ pg = page
    BY <1>5, InviteMoves
  <2>2. Moves(DOMAIN calls \ {k}, store, pg, <<>>) /\ calls[k].op = "getInvite"
    BY <1>5, <2>1, InviteMoves
  <2>3. ~Departs(calls[k]) /\ calls[k].op # "createProject"
    BY <2>2 DEF Departs
  <2>4. Same(page, pg)
    <3>1. CASE page.inner = calls[k].by /\ pg = [page EXCEPT !.shown = Ok(k)]
      <4>1. "getInvite" \in DOMAIN AtOf /\ AtOf["getInvite"] = {"invite"}
        BY DEF AtOf
      <4>2. page.inner # 0 => page.at # "project"
        BY <1>0, <2>2, <3>1, <4>1 DEF MadeBy
      <4>3. /\ pg.wsp = page.wsp /\ pg.ws = page.ws /\ pg.ready = page.ready
            /\ pg.inner = page.inner /\ pg.at = page.at
        BY <1>0, <3>1 DEF IsPage
      <4> QED BY <4>2, <4>3 DEF Same
    <3>2. CASE pg = page
      BY <3>2 DEF Same
    <3> QED BY <2>1, <3>1, <3>2
  <2> QED BY <1>0, <2>2, <2>3, <2>4, AnswerKeepsOwn
<1>6. CASE PlanAnswered(k) \/ (DepartureAnswered(k) /\ ~Ok(k)) \/ (CheckoutAnswered(k) /\ ~Ok(k))
  <2>1. PICK pg : /\ Moves(DOMAIN calls \ {k}, store, pg, <<>>)
                  /\ pg = page \/ \E at : pg = Address(at, None, None)
    BY <1>6, RefusalMoves
  <2>2. Moves(DOMAIN calls \ {k}, store, pg, <<>>)
    BY <2>1
  <2>3. ~Departs(calls[k]) /\ calls[k].op # "createProject"
    BY <1>6, RefusalMoves DEF Departs, Ok
  <2>4. Same(page, pg)
    BY <2>1, SameAtHome
  <2> QED BY <1>0, <2>2, <2>3, <2>4, AnswerKeepsOwn
<1> QED BY <1>1, <1>2, <1>3, <1>4, <1>5, <1>6

LEMMA ProjectsOwn ==
  ASSUME Base, Own, NEW k \in DOMAIN calls, ProjectsAnswered(k)
  PROVE  Own'
<1>1. PICK st, pg :
        /\ Moves(DOMAIN calls \ {k}, st, pg, <<>>)
        /\ st = IF Ok(k) THEN [store EXCEPT !.projects = calls[k].answer] ELSE store
        /\ \/ Ok(k) /\ page.wsp = calls[k].by /\ pg = [page EXCEPT !.ready = TRUE]
           \/ ~ (Ok(k) /\ page.wsp = calls[k].by) /\ pg = page
  BY ProjectsMoves
<1>2. Moves(DOMAIN calls \ {k}, st, pg, <<>>) /\ why' = why \cup Amiss(k)
      /\ calls[k].op = "projects"
  BY <1>1, ProjectsMoves
<1>3. ASSUME why' = {} PROVE ShowsOwn(db.home, calls, DOMAIN calls \ {k}, pg, st)
  <2>1. Amiss(k) = {} /\ why = {}
    BY <1>2, <1>3
  <2>2. Ok(k) /\ calls[k].by \in {page.index, page.wsp, page.inner}
    BY <2>1 DEF Amiss
  <2>3. IsPage(page) /\ Whole(store) /\ MadeBy(page, calls[k])
    BY DEF Base, PagesInv
  <2>4. calls[k].by = page.wsp /\ page.wsp # 0
    BY <1>2, <2>2, <2>3 DEF MadeBy
  <2>5. pg = [page EXCEPT !.ready = TRUE] /\ st = [store EXCEPT !.projects = calls[k].answer]
    BY <1>1, <2>2, <2>4
  <2>6. /\ pg.wsp = page.wsp /\ pg.ws = page.ws /\ pg.inner = page.inner /\ pg.at = page.at
        /\ pg.arg = page.arg /\ pg.shown = page.shown
    BY <2>3, <2>5 DEF IsPage
  <2>7. st.projects = calls[k].answer /\ st.cards = store.cards
    BY <2>3, <2>5 DEF Whole
  <2>8. PICK h, R, Q, c : h = db.home /\ R = DOMAIN calls /\ Q = DOMAIN calls \ {k} /\ c = calls[k]
    OBVIOUS
  <2>9. ShowsOwn(h, calls, R, page, store)
    BY <2>1, <2>8 DEF Own
  <2>10. Q \subseteq R /\ k \in R /\ \A j \in R \ Q : j = k
    BY <2>8
  <2>11. Creations(h, calls, Q) /\ Meant(calls, Q, pg)
    BY <2>6, <2>9, <2>10 DEF ShowsOwn, Creations, Meant
  <2>12. pg.inner # 0 /\ pg.at = "project" /\ pg.shown => st.cards = pg.arg
    BY <2>6, <2>7, <2>9 DEF ShowsOwn
  <2>13. CASE \E j \in R : Departs(calls[j])
    <3>1. \E j \in Q : Departs(calls[j])
      BY <1>2, <2>10, <2>13 DEF Departs
    <3> QED BY <2>8, <2>11, <2>12, <3>1 DEF ShowsOwn
  <2>14. CASE HasOwn(h, calls, R, page, store.projects)
    <3>1. Holds(h, calls, R, page.ws, calls[k].answer)
      BY <1>2, <2>2, <2>4, <2>10, <2>14 DEF HasOwn, Ok
    <3>2. \A w, S : Holds(h, calls, R, w, S) => Holds(h, calls, Q, w, S)
      <4>1. \A j \in R \ Q : calls[j].op # "createProject" \/ calls[j].state # "ok"
        BY <1>2, <2>10
      <4> QED BY <2>10, <4>1, HoldsLess
    <3>3. HasOwn(h, calls, Q, pg, st.projects)
      BY <2>6, <2>7, <2>10, <2>14, <3>1, <3>2 DEF HasOwn
    <3> QED BY <2>8, <2>11, <2>12, <3>3 DEF ShowsOwn
  <2> QED BY <2>9, <2>13, <2>14 DEF ShowsOwn
<1>4. \A c : <<>> # <<c>>
  OBVIOUS
<1> QED BY <1>2, <1>3, <1>4, MovesOwn

LEMMA ProjectOwn ==
  ASSUME Base, Own, NEW k \in DOMAIN calls, ProjectAnswered(k)
  PROVE  Own'
<1>1. PICK st, pg :
        /\ Moves(DOMAIN calls \ {k}, st, pg, <<>>)
        /\ st = IF Ok(k) THEN [store EXCEPT !.cards = calls[k].answer] ELSE store
        /\ \/ Ok(k) /\ page.inner = calls[k].by /\ pg = [page EXCEPT !.shown = TRUE]
           \/ ~ (Ok(k) /\ page.inner = calls[k].by) /\ pg = page
  BY ProjectMoves
<1>2. Moves(DOMAIN calls \ {k}, st, pg, <<>>) /\ why' = why \cup Amiss(k)
      /\ calls[k].op = "project"
  BY <1>1, ProjectMoves
<1>3. ASSUME why' = {} PROVE ShowsOwn(db.home, calls, DOMAIN calls \ {k}, pg, st)
  <2>1. Amiss(k) = {} /\ why = {}
    BY <1>2, <1>3
  <2>2. Ok(k) /\ calls[k].by \in {page.index, page.wsp, page.inner}
    BY <2>1 DEF Amiss
  <2>3. IsPage(page) /\ Whole(store) /\ MadeBy(page, calls[k])
    BY DEF Base, PagesInv
  <2>4. calls[k].by = page.inner /\ page.inner # 0
    BY <1>2, <2>2, <2>3 DEF MadeBy
  <2>5. page.at = "project"
    <3>1. "project" \in DOMAIN AtOf /\ AtOf["project"] = {"project"}
      BY DEF AtOf
    <3> QED BY <1>2, <2>3, <2>4, <3>1 DEF MadeBy
  <2>6. pg = [page EXCEPT !.shown = TRUE] /\ st = [store EXCEPT !.cards = calls[k].answer]
    BY <1>1, <2>2, <2>4
  <2>7. /\ pg.wsp = page.wsp /\ pg.ws = page.ws /\ pg.inner = page.inner /\ pg.at = page.at
        /\ pg.arg = page.arg /\ pg.ready = page.ready
    BY <2>3, <2>6 DEF IsPage
  <2>8. st.cards = calls[k].answer /\ st.projects = store.projects
    BY <2>3, <2>6 DEF Whole
  <2>9. PICK h, R, Q : h = db.home /\ R = DOMAIN calls /\ Q = DOMAIN calls \ {k}
    OBVIOUS
  <2>10. ShowsOwn(h, calls, R, page, store)
    BY <2>1, <2>9 DEF Own
  <2>11. Q \subseteq R /\ k \in R /\ \A j \in R \ Q : j = k
    BY <2>9
  <2>12. Creations(h, calls, Q) /\ Meant(calls, Q, pg)
    BY <2>7, <2>10, <2>11 DEF ShowsOwn, Creations, Meant
  <2>13. st.cards = pg.arg
    BY <1>2, <2>2, <2>4, <2>5, <2>7, <2>8, <2>10, <2>11 DEF ShowsOwn, Meant, Ok
  <2>14. CASE \E j \in R : Departs(calls[j])
    <3>1. \E j \in Q : Departs(calls[j])
      BY <1>2, <2>11, <2>14 DEF Departs
    <3> QED BY <2>9, <2>12, <2>13, <3>1 DEF ShowsOwn
  <2>15. CASE HasOwn(h, calls, R, page, store.projects)
    <3>1. \A w, S : Holds(h, calls, R, w, S) => Holds(h, calls, Q, w, S)
      <4>1. \A j \in R \ Q : calls[j].op # "createProject" \/ calls[j].state # "ok"
        BY <1>2, <2>11
      <4> QED BY <2>11, <4>1, HoldsLess
    <3>2. HasOwn(h, calls, Q, pg, st.projects)
      BY <2>7, <2>8, <2>11, <2>15, <3>1 DEF HasOwn
    <3> QED BY <2>9, <2>12, <2>13, <3>2 DEF ShowsOwn
  <2> QED BY <2>10, <2>14, <2>15 DEF ShowsOwn
<1>4. \A c : <<>> # <<c>>
  OBVIOUS
<1> QED BY <1>2, <1>3, <1>4, MovesOwn

LEMMA LinkOwn ==
  ASSUME Base, Own, NEW k \in DOMAIN calls, LinkAnswered(k)
  PROVE  Own'
<1>1. PICK st, pg :
        /\ Moves(DOMAIN calls \ {k}, st, pg, <<>>)
        /\ \/ page.inner = calls[k].by /\ pg = [page EXCEPT !.shown = Ok(k)]
           \/ page.inner # calls[k].by /\ pg = page
  BY LinkMoves
<1>2. Moves(DOMAIN calls \ {k}, st, pg, <<>>) /\ why' = why \cup Amiss(k)
      /\ calls[k].op = "link"
  BY <1>1, LinkMoves
<1>3. ASSUME why' = {} PROVE ShowsOwn(db.home, calls, DOMAIN calls \ {k}, pg, st)
  <2>1. Amiss(k) = {} /\ why = {}
    BY <1>2, <1>3
  <2>2. calls[k].by \in {page.index, page.wsp, page.inner}
    BY <2>1 DEF Amiss
  <2>3. IsPage(page) /\ Nested(page) /\ MadeBy(page, calls[k])
    BY DEF Base, PagesInv
  <2>4. calls[k].by = page.inner /\ page.inner # 0
    BY <1>2, <2>2, <2>3 DEF MadeBy
  <2>5. page.at = "link"
    <3>1. "link" \in DOMAIN AtOf /\ AtOf["link"] = {"link"}
      BY DEF AtOf
    <3> QED BY <1>2, <2>3, <2>4, <3>1 DEF MadeBy
  <2>6. pg.wsp = 0 /\ pg.at = "link"
    BY <1>1, <2>3, <2>4, <2>5 DEF IsPage, Nested, Within
  <2>7. PICK h, R, Q : h = db.home /\ R = DOMAIN calls /\ Q = DOMAIN calls \ {k}
    OBVIOUS
  <2>8. ShowsOwn(h, calls, R, page, store)
    BY <2>1, <2>7 DEF Own
  <2>9. Q \subseteq R /\ \A j \in R \ Q : j = k
    BY <2>7
  <2>10. Creations(h, calls, Q) /\ Meant(calls, Q, pg)
    BY <2>6, <2>8, <2>9 DEF ShowsOwn, Creations, Meant
  <2>11. CASE \E j \in R : Departs(calls[j])
    <3>1. \E j \in Q : Departs(calls[j])
      BY <1>2, <2>9, <2>11 DEF Departs
    <3> QED BY <2>6, <2>7, <2>10, <3>1 DEF ShowsOwn
  <2>12. CASE HasOwn(h, calls, R, page, store.projects)
    <3>1. HasOwn(h, calls, Q, pg, st.projects)
      BY <2>6, <2>9, <2>12 DEF HasOwn
    <3> QED BY <2>6, <2>7, <2>10, <3>1 DEF ShowsOwn
  <2> QED BY <2>8, <2>11, <2>12 DEF ShowsOwn
<1>4. \A c : <<>> # <<c>>
  OBVIOUS
<1> QED BY <1>2, <1>3, <1>4, MovesOwn

LEMMA ProjectCreatedOwn ==
  ASSUME Base, Own, NEW k \in DOMAIN calls, ProjectCreated(k)
  PROVE  Own'
<1>1. PICK st :
        /\ Moves(DOMAIN calls \ {k}, st, page, <<>>)
        /\ st = IF Ok(k) THEN [store EXCEPT !.projects = store.projects \cup {calls[k].answer}]
                ELSE store
  BY ProjectCreatedMoves
<1>2. /\ Moves(DOMAIN calls \ {k}, st, page, <<>>) /\ calls[k].op = "createProject"
      /\ why' = {} => why = {} /\ calls[k].ws = page.ws
                      /\ \A j \in DOMAIN calls : calls[j].op # "projects"
  BY <1>1, ProjectCreatedMoves
<1>3. ~Departs(calls[k]) /\ \A c : <<>> # <<c>>
  BY <1>2 DEF Departs
<1>4. Whole(store)
  BY DEF Base
<1>5. CASE ~Ok(k)
  <2>1. st = store /\ calls[k].state # "ok"
    BY <1>1, <1>5 DEF Ok
  <2>2. Same(page, page)
    BY SameAtHome
  <2> QED BY <1>2, <1>3, <2>1, <2>2, AnswerKeepsOwn
<1>6. CASE Ok(k)
  <2>1. ASSUME why' = {} PROVE ShowsOwn(db.home, calls, DOMAIN calls \ {k}, page, st)
    <3>1. PICK h, R, Q, c : h = db.home /\ R = DOMAIN calls /\ Q = DOMAIN calls \ {k} /\ c = calls[k]
      OBVIOUS
    <3>2. ShowsOwn(h, calls, R, page, store)
      BY <1>2, <2>1, <3>1 DEF Own
    <3>3. Q \subseteq R /\ k \in R /\ \A j \in R \ Q : j = k
      BY <3>1
    <3>4. Creations(h, calls, Q) /\ Meant(calls, Q, page)
      BY <3>2, <3>3 DEF ShowsOwn, Creations, Meant
    <3>5. st.projects = store.projects \cup {c.answer} /\ st.cards = store.cards
      BY <1>1, <1>4, <1>6, <3>1 DEF Whole
    <3>6. page.inner # 0 /\ page.at = "project" /\ page.shown => st.cards = page.arg
      BY <3>2, <3>5 DEF ShowsOwn
    <3>7. CASE \E j \in R : Departs(calls[j])
      <4>1. \E j \in Q : Departs(calls[j])
        BY <1>3, <3>3, <3>7
      <4> QED BY <3>1, <3>4, <3>6, <4>1 DEF ShowsOwn
    <3>8. CASE HasOwn(h, calls, R, page, store.projects)
      <4>1. /\ c.op = "createProject" /\ c.state = "ok" /\ c.ws = page.ws
            /\ \A j \in Q : calls[j].op # "projects"
        BY <1>2, <1>6, <2>1, <3>1 DEF Ok
      <4>2. c.answer = c.arg /\ c.arg \in HomesIn(h, page.ws)
        BY <3>1, <3>2, <3>3, <3>8, <4>1 DEF HasOwn, ShowsOwn, Creations
      <4>3. ASSUME page.wsp # 0, page.ready PROVE Holds(h, calls, Q, page.ws, st.projects)
        <5>1. Holds(h, calls, R, page.ws, store.projects)
          BY <3>8, <4>3 DEF HasOwn
        <5>2. \A p : Brought(calls[k], p, page.ws) => p = c.answer
          BY <3>1, <4>2 DEF Brought
        <5> QED BY <3>3, <3>5, <4>2, <5>1, <5>2 DEF Holds
      <4>4. HasOwn(h, calls, Q, page, st.projects)
        BY <3>3, <3>8, <4>1, <4>3 DEF HasOwn
      <4> QED BY <3>1, <3>4, <3>6, <4>4 DEF ShowsOwn
    <3> QED BY <3>2, <3>7, <3>8 DEF ShowsOwn
  <2> QED BY <1>2, <1>3, <2>1, MovesOwn
<1> QED BY <1>5, <1>6

LEMMA NextOwn == Base /\ Own /\ [Next]_vars => Own'
<1> SUFFICES ASSUME Base, Own, [Next]_vars PROVE Own'
  OBVIOUS
<1>0. Base'
  BY NextBase
<1>1. CASE UNCHANGED vars
  BY <1>1 DEF vars, Own
<1>2. CASE FormSent
  <2>1. PICK op, w, x : Ask(op, w, x) /\ Sends(op, w, x)
    BY <1>2, FormSends
  <2> QED BY <2>1, FormOwn
<1>3. CASE Moved
  <2>1. CASE \E to \in Links : Follow(to)
    BY <2>1, FollowOwn
  <2>2. CASE \E to \in Typed : TypeAddress(to)
    BY <1>0, <2>2, LoadOwn
  <2> QED BY <1>3, <2>1, <2>2 DEF Moved
<1>4. ASSUME NEW k \in DOMAIN calls, Forget(k) PROVE Own'
  <2>1. "reload" \in why /\ why' = why
    BY <1>4 DEF Base, AllHere, Forget
  <2> QED BY <2>1 DEF Own
<1>5. ASSUME NEW k \in DOMAIN calls, AnswerArrives(k) PROVE Own'
  <2>1. CASE AppAnswered(k) \/ GetAppAnswered(k) \/ SessionAnswered(k) \/ LogOutAnswered(k)
    BY <2>1, AccountOwn
  <2>2. CASE (DepartureAnswered(k) \/ CheckoutAnswered(k)) /\ Ok(k)
    BY <1>0, <2>2, LoadOwn
  <2>3. CASE \/ SettingAnswered(k) \/ KeyAnswered(k) \/ WorkspaceCreated(k)
             \/ Says(k) \/ InviteAnswered(k) \/ PlanAnswered(k)
             \/ DepartureAnswered(k) /\ ~Ok(k)
             \/ CheckoutAnswered(k) /\ ~Ok(k)
    BY <2>3, FormAnswerOwn
  <2>4. CASE ListAnswered(k)
    BY <2>4, ListOwn
  <2>5. CASE ProjectsAnswered(k)
    BY <2>5, ProjectsOwn
  <2>6. CASE ProjectAnswered(k)
    BY <2>6, ProjectOwn
  <2>7. CASE LinkAnswered(k)
    BY <2>7, LinkOwn
  <2>8. CASE ProjectCreated(k)
    BY <2>8, ProjectCreatedOwn
  <2> QED BY <1>5, <2>1, <2>2, <2>3, <2>4, <2>5, <2>6, <2>7, <2>8 DEF AnswerArrives
<1>6. ASSUME NEW k \in DOMAIN calls, Serve(k) PROVE Own'
  BY <1>6, ServeOwn
<1>7. ASSUME NEW w \in Workspaces, RemovedElsewhere(w) PROVE Own'
  <2>1. why' # {}
    BY <1>7 DEF RemovedElsewhere
  <2> QED BY <2>1 DEF Own
<1> QED BY <1>1, <1>2, <1>3, <1>4, <1>5, <1>6, <1>7 DEF Next, Network

LEMMA QuietShowsOwn == Base /\ Own => ShowsItsOwn
<1> SUFFICES ASSUME Base, Own, Quiet, why = {}, page.ready
             PROVE  /\ store.projects = ProjectsOf(page.ws)
                    /\ page.at = "project" /\ page.shown => store.cards = page.arg
  BY DEF ShowsItsOwn
<1>1. DOMAIN calls = {}
  BY QuietIsEmpty
<1>2. ShowsOwn(db.home, calls, {}, page, store)
  BY <1>1 DEF Own
<1>3. page.wsp # 0 /\ (page.shown => page.inner # 0)
  BY DEF Base, PagesInv, Nested, Placed
<1>4. Holds(db.home, calls, {}, page.ws, store.projects)
  BY <1>2, <1>3 DEF ShowsOwn, HasOwn
<1>5. store.projects = HomesIn(db.home, page.ws)
  BY <1>4 DEF Holds, HomesIn
<1>6. page.at = "project" /\ page.shown => store.cards = page.arg
  BY <1>2, <1>3 DEF ShowsOwn
<1> QED BY <1>5, <1>6 DEF HomesIn, ProjectsOf

\* A workspace shows its own projects, all of them, and a project its own cards, when all
\* is answered in turn: for any number of pages, calls, accounts and workspaces.
THEOREM TheOwnIsShown == Spec => []ShowsItsOwn
<1>1. Init => Base /\ Own
  BY InitBase, InitOwn
<1>2. Base /\ Own /\ [Next]_vars => Base' /\ Own'
  BY NextBase, NextOwn
<1>3. Base /\ Own => ShowsItsOwn
  BY QuietShowsOwn
<1> QED BY <1>1, <1>2, <1>3, PTL DEF Spec

-----------------------------------------------------------------------------
(* No page for a workspace that is not there                               *)

Joins(c) == c.op = "acceptInvite" /\ c.state = "ok"

\* What is shown and what is on its way are memberships there are, each load with those
\* of the loads before it; and the page is one of them.
Lands(l, cs, R, who, pg, st) ==
  /\ \A w \in DOMAIN st.app.level : <<st.app.account, w>> \in DOMAIN l
  /\ \A k \in R : Brings(cs[k], who) => \A w \in DOMAIN cs[k].answer.level : <<who, w>> \in DOMAIN l
  /\ \A j \in R : \A k \in R : Brings(cs[j], who) /\ Brings(cs[k], who) /\ cs[j].turn < cs[k].turn
                          => DOMAIN cs[j].answer.level \subseteq DOMAIN cs[k].answer.level
  /\ pg.at \in Within => <<who, pg.ws>> \in DOMAIN l

\* The loads on their way have those shown, and the page's.
Finds(l, cs, R, who, pg, st) ==
  /\ pg.at # "blank"
  /\ \A k \in R : Brings(cs[k], who) =>
       /\ \A w \in DOMAIN st.app.level : <<who, w>> \in DOMAIN l => w \in DOMAIN cs[k].answer.level
       /\ pg.at \in Within => pg.ws \in DOMAIN cs[k].answer.level

AtHand(pg, st) == pg.at \in Within /\ pg.loaded => pg.ws \in DOMAIN st.app.level

Strange == {"typed", "reload", "elsewhere", "crossed", "overtaken"}

\* Unless the document is to be loaded again, or an invite has been accepted whose page
\* is still there.
Founded(l, cs, R, who, pg, st) ==
  \/ \E k \in R : Departs(cs[k])
  \/ /\ Lands(l, cs, R, who, pg, st)
     /\ (\E k \in R : Joins(cs[k])) \/ (Finds(l, cs, R, who, pg, st) /\ AtHand(pg, st))

InStore == AtHand(page, store)
There   == why \cap Strange = {} => Founded(db.level, calls, DOMAIN calls, cookie, page, store)

LEMMA LedWhere ==
  ASSUME NEW pg, IsPage(pg), Nested(pg), Placed(pg), NEW st, NEW to, to = Led(pg, st)
  PROVE  /\ AtHand(to, st)
         /\ to.at \in Within => \/ pg.at \in Within /\ to.ws = pg.ws
                                \/ to.loaded /\ to.ws \in DOMAIN st.app.level
         /\ to.at = "blank" => \/ pg.at = "blank"
                               \/ pg.at \in Within /\ pg.loaded /\ pg.ws \notin DOMAIN st.app.level
<1> DEFINE wss == DOMAIN st.app.level
<1>1. CASE pg.at \notin Inside \/ ~pg.loaded
  <2>1. to = pg
    BY <1>1 DEF Led
  <2> QED BY <1>1, <2>1 DEF AtHand, Inside
<1>2. CASE pg.at \in Inside /\ pg.loaded /\ st.app.account = None
  <2>1. to = Address("login", None, None)
    BY <1>2 DEF Led
  <2>2. to.at = "login"
    BY <2>1, AddressPlaced
  <2> QED BY <2>2 DEF AtHand, Within
<1>3. CASE pg.at = "index" /\ pg.loaded /\ st.app.account # None
  <2>1. CASE Cardinality(wss) = 1
    <3>1. wss # {}
      BY <2>1, FS_EmptySet
    <3>2. PICK w : w = CHOOSE v \in wss : TRUE
      OBVIOUS
    <3>3. w \in wss
      BY <3>1, <3>2
    <3>4. to = Going(pg, "workspace", w, None)
      BY <1>3, <2>1, <3>2 DEF Led, Inside
    <3>5. to.at = "workspace" /\ to.ws = w
      BY <3>4, GoingPlaced
    <3>6. pg.index # 0 /\ pg.wsp = 0
      BY <1>3 DEF Nested, Within
    <3>7. PICK new : new = Address("workspace", w, None)
      OBVIOUS
    <3>8. IsPage(new)
      BY <3>7, AddressFits
    <3>9. to = [new EXCEPT !.index = pg.index, !.loaded = pg.loaded]
      BY <1>3, <3>4, <3>6, <3>7 DEF Going, Inside, Within
    <3>10. to.loaded
      BY <1>3, <3>8, <3>9 DEF IsPage
    <3> QED BY <3>3, <3>5, <3>10 DEF AtHand
  <2>2. CASE Cardinality(wss) # 1
    <3>1. to = Going(pg, "workspaces", None, None)
      BY <1>3, <2>2 DEF Led, Inside
    <3>2. to.at = "workspaces"
      BY <3>1, GoingPlaced
    <3> QED BY <3>2 DEF AtHand, Within
  <2> QED BY <2>1, <2>2
<1>4. CASE pg.at \in Inside /\ pg.at # "index" /\ pg.loaded /\ st.app.account # None
  <2>1. CASE pg.at \in Within /\ pg.ws \notin wss
    <3>1. to = Address("blank", None, None)
      BY <1>4, <2>1 DEF Led
    <3>2. to.at = "blank"
      BY <3>1, AddressPlaced
    <3> QED BY <1>4, <2>1, <3>2 DEF AtHand, Within
  <2>2. CASE pg.at \in Within => pg.ws \in wss
    <3>1. CASE pg.at = "project" /\ pg.ready /\ pg.inner = 0 /\ pg.arg \notin st.projects
      <4>1. to = Going(pg, "workspace", pg.ws, None)
        BY <1>4, <2>2, <3>1 DEF Led
      <4>2. to.at = "workspace" /\ to.ws = pg.ws
        BY <4>1, GoingPlaced
      <4> QED BY <2>2, <3>1, <4>2 DEF AtHand, Within
    <3>2. CASE ~(pg.at = "project" /\ pg.ready /\ pg.inner = 0 /\ pg.arg \notin st.projects)
      <4>1. to = pg
        BY <1>4, <2>2, <3>2 DEF Led
      <4> QED BY <2>2, <4>1 DEF AtHand
    <3> QED BY <3>1, <3>2
  <2> QED BY <2>1, <2>2
<1> QED BY <1>1, <1>2, <1>3, <1>4 DEF Inside

LEMMA MovesThere ==
  ASSUME Base, Session', NEW rest, NEW st, NEW pg, NEW asked, Moves(rest, st, pg, asked),
         why' \cap Strange = {} => Founded(db.level, calls, rest, cookie', pg, st)
  PROVE  InStore' /\ There'
<1>1. PICK p, cs, R, l, who, to :
        /\ p = page' /\ cs = calls' /\ R = DOMAIN calls' /\ l = db.level /\ who = cookie'
        /\ to = Led(pg, st)
  OBVIOUS
<1>2. /\ Goes(pg, p, cs, R, rest, asked) /\ store' = st /\ db'.level = l
      /\ p.at = to.at /\ p.ws = to.ws /\ p.loaded = to.loaded
  <2>1. Moves(rest, st, pg, asked) /\ p = page' /\ cs = calls' /\ R = DOMAIN calls'
    BY <1>1
  <2>2. Goes(pg, p, cs, R, rest, asked) /\ store' = st
    BY <2>1, MovesMakes
  <2>3. Arrives(to, pg, p)
    <3>1. Arrives(Led(pg, st), pg, p)
      BY <2>1, MovesMakes
    <3> QED BY <1>1, <3>1
  <2>4. db'.level = l
    BY <1>1, <2>1 DEF Moves
  <2> QED BY <2>2, <2>3, <2>4 DEF Arrives
<1>3. /\ AtHand(to, st)
      /\ to.at \in Within => \/ pg.at \in Within /\ to.ws = pg.ws
                             \/ to.loaded /\ to.ws \in DOMAIN st.app.level
      /\ to.at = "blank" => \/ pg.at = "blank"
                            \/ pg.at \in Within /\ pg.loaded /\ pg.ws \notin DOMAIN st.app.level
  BY <1>1, LedWhere DEF Moves, Ready
<1>4. AtHand(p, st)
  BY <1>2, <1>3 DEF AtHand
<1>5. ASSUME why' \cap Strange = {} PROVE Founded(l, cs, R, who, p, st)
  <2>1. Founded(l, calls, rest, who, pg, st)
    BY <1>1, <1>5
  <2>2. rest \subseteq R /\ \A j \in rest : cs[j] = calls[j]
    BY <1>2 DEF Goes
  <2>3. \A j \in R \ rest : cs[j].state = "sent"
    <3>1. \A c : asked = <<c>> => c.state = "sent"
      BY MovesAsk DEF Moves, Asked
    <3> QED BY <1>2, <3>1 DEF Goes, Opened
  <2>4. \A j \in R : Brings(cs[j], who) => j \in rest
    BY <2>3 DEF Brings
  <2>5. CASE \E k \in rest : Departs(calls[k])
    <3>1. \E k \in R : Departs(cs[k])
      BY <2>2, <2>5
    <3> QED BY <3>1 DEF Founded
  <2>6. CASE ~ \E k \in rest : Departs(calls[k])
    <3>1. /\ Lands(l, calls, rest, who, pg, st)
          /\ \/ \E k \in rest : Joins(calls[k])
             \/ Finds(l, calls, rest, who, pg, st) /\ AtHand(pg, st)
      BY <2>1, <2>6 DEF Founded
    <3>2. p.loaded => st.app.account = who
      <4>1. why' \cap {"crossed", "reload"} = {}
        BY <1>5 DEF Strange
      <4> QED BY <1>1, <1>2, <4>1 DEF Session
    <3>3. p.at \in Within => <<who, p.ws>> \in DOMAIN l
      BY <1>2, <1>3, <3>1, <3>2 DEF Lands
    <3>4. Lands(l, cs, R, who, p, st)
      BY <2>2, <2>4, <3>1, <3>3 DEF Lands
    <3>5. CASE \E k \in rest : Joins(calls[k])
      <4>1. \E k \in R : Joins(cs[k])
        BY <2>2, <3>5
      <4> QED BY <3>4, <4>1 DEF Founded
    <3>6. CASE Finds(l, calls, rest, who, pg, st) /\ AtHand(pg, st)
      <4>1. p.at # "blank"
        BY <1>2, <1>3, <3>6 DEF Finds, AtHand
      <4>2. ASSUME NEW k \in R, Brings(cs[k], who)
            PROVE  /\ \A w \in DOMAIN st.app.level :
                        <<who, w>> \in DOMAIN l => w \in DOMAIN cs[k].answer.level
                   /\ p.at \in Within => p.ws \in DOMAIN cs[k].answer.level
        <5>1. /\ \A w \in DOMAIN st.app.level :
                   <<who, w>> \in DOMAIN l => w \in DOMAIN cs[k].answer.level
              /\ pg.at \in Within => pg.ws \in DOMAIN cs[k].answer.level
          BY <2>2, <2>4, <3>6, <4>2 DEF Finds
        <5> QED BY <1>2, <1>3, <3>3, <5>1
      <4>3. Finds(l, cs, R, who, p, st)
        BY <4>1, <4>2 DEF Finds
      <4> QED BY <1>4, <3>4, <4>3 DEF Founded
    <3> QED BY <3>1, <3>5, <3>6
  <2> QED BY <2>5, <2>6
<1> QED BY <1>1, <1>2, <1>4, <1>5 DEF InStore, There

\* An answer that neither loads the account nor changes the session leaves all that.
LEMMA KeepsThere ==
  ASSUME InStore, There, why \cap Strange = {}, NEW rest, rest \subseteq DOMAIN calls,
         \A k \in DOMAIN calls \ rest : ~Departs(calls[k]) /\ ~Joins(calls[k]),
         NEW pg, \/ pg.at = page.at /\ pg.ws = page.ws /\ pg.loaded = page.loaded
                 \/ pg.at \notin Within \cup {"blank"},
         NEW st, st.app = store.app
  PROVE  Founded(db.level, calls, rest, cookie, pg, st)
<1>1. PICK R, l : R = DOMAIN calls /\ l = db.level
  OBVIOUS
<1>2. Founded(l, calls, R, cookie, page, store) /\ rest \subseteq R
  BY <1>1 DEF There
<1>3. AtHand(pg, st)
  BY DEF InStore, AtHand
<1>4. CASE \E k \in R : Departs(calls[k])
  <2>1. \E k \in rest : Departs(calls[k])
    BY <1>1, <1>4
  <2> QED BY <2>1 DEF Founded
<1>5. CASE ~ \E k \in R : Departs(calls[k])
  <2>1. /\ Lands(l, calls, R, cookie, page, store)
        /\ (\E k \in R : Joins(calls[k])) \/ Finds(l, calls, R, cookie, page, store)
    BY <1>2, <1>5 DEF Founded
  <2>2. Lands(l, calls, rest, cookie, pg, st)
    BY <1>2, <2>1 DEF Lands
  <2>3. CASE \E k \in R : Joins(calls[k])
    <3>1. \E k \in rest : Joins(calls[k])
      BY <1>1, <2>3
    <3> QED BY <1>1, <2>2, <3>1 DEF Founded
  <2>4. CASE Finds(l, calls, R, cookie, page, store)
    <3>1. Finds(l, calls, rest, cookie, pg, st)
      BY <1>2, <2>4 DEF Finds
    <3> QED BY <1>1, <1>3, <2>2, <3>1 DEF Founded
  <2> QED BY <2>1, <2>3, <2>4
<1> QED BY <1>4, <1>5

\* A page that is opened anew, before anything is answered.
LEMMA OpenThere ==
  ASSUME NEW l, NEW cs, NEW R, \A k \in R : cs[k].state = "sent", NEW who,
         NEW pg, pg.at # "blank", ~pg.loaded, pg.at \in Within => <<who, pg.ws>> \in DOMAIN l,
         NEW st, st = NoTab
  PROVE  AtHand(pg, st) /\ Founded(l, cs, R, who, pg, st)
<1>1. DOMAIN st.app.level = {}
  BY DEF NoTab, NoApp
<1>2. \A k \in R : ~Brings(cs[k], who)
  BY DEF Brings
<1>3. Lands(l, cs, R, who, pg, st) /\ Finds(l, cs, R, who, pg, st)
  BY <1>1, <1>2 DEF Lands, Finds
<1>4. AtHand(pg, st)
  BY DEF AtHand
<1> QED BY <1>3, <1>4 DEF Founded

LEMMA InitThere == Init => InStore /\ There
<1> SUFFICES ASSUME Init PROVE InStore /\ There
  OBVIOUS
<1>1. /\ store = NoTab /\ ~page.loaded
      /\ \A k \in DOMAIN calls : calls[k].state = "sent"
  BY InitMakes
<1>2. PICK to \in Tabs : page.at = to.at /\ page.ws = to.ws /\ why = NotOwn(to)
  BY InitMakes
<1>3. page.at # "blank"
  BY <1>2, StartAssumption DEF Inside, Within, Public
<1>4. InStore
  BY <1>1 DEF InStore, AtHand
<1>5. ASSUME why \cap Strange = {} PROVE Founded(db.level, calls, DOMAIN calls, cookie, page, store)
  <2>1. page.at \in Within => <<cookie, page.ws>> \in DOMAIN db.level
    BY <1>2, <1>5 DEF NotOwn, Strange
  <2> QED BY <1>1, <1>3, <2>1, OpenThere
<1> QED BY <1>4, <1>5 DEF There

LEMMA LoadThere ==
  ASSUME Base,
         \/ \E to \in Typed : TypeAddress(to)
         \/ \E k \in DOMAIN calls : DepartureAnswered(k) /\ Ok(k)
         \/ \E k \in DOMAIN calls : CheckoutAnswered(k) /\ Ok(k)
  PROVE  There'
<1>1. PICK p, cs, R : p = page' /\ cs = calls' /\ R = DOMAIN calls'
  OBVIOUS
<1> SUFFICES ASSUME why' \cap Strange = {}
             PROVE  Founded(db'.level, cs, R, cookie', p, store')
  BY <1>1 DEF There
<1>2. "reload" \notin why' /\ "typed" \notin why'
  BY DEF Strange
<1>3. /\ store' = NoTab /\ cookie' = cookie /\ db' = db
      /\ \A j \in R : Opened(cs[j], p)
      /\ ~p.loaded
  BY <1>1, <1>2, LoadMakes
<1>4. \/ \E to \in Typed : p.at = to.at /\ p.ws = to.ws /\ NotOwn(to) \subseteq why'
      \/ p.at \in {"index", "success", "cancel"}
  BY <1>1, <1>2, LoadMakes
<1>5. \A j \in R : cs[j].state = "sent"
  BY <1>3 DEF Opened
<1>6. /\ p.at # "blank"
      /\ p.at \in Within => <<cookie, p.ws>> \in DOMAIN db.level
  <2>1. CASE p.at \in {"index", "success", "cancel"}
    BY <2>1 DEF Within
  <2>2. CASE \E to \in Typed : p.at = to.at /\ p.ws = to.ws /\ NotOwn(to) \subseteq why'
    <3>1. PICK to \in Typed : p.at = to.at /\ p.ws = to.ws /\ NotOwn(to) \subseteq why'
      BY <2>2
    <3>2. to.at # "blank"
      BY StartAssumption DEF Inside, Within, Public
    <3>3. to.at \in Within => <<cookie, to.ws>> \in DOMAIN db.level
      BY <1>2, <3>1 DEF NotOwn
    <3> QED BY <3>1, <3>2, <3>3
  <2> QED BY <1>4, <2>1, <2>2
<1>7. PICK st, l, who : st = store' /\ l = db'.level /\ who = cookie'
  OBVIOUS
<1>8. Founded(l, cs, R, who, p, st)
  BY <1>3, <1>5, <1>6, <1>7, OpenThere
<1> QED BY <1>7, <1>8

\* The page that a full load opens waits for the account.
LEMMA LoadInStore ==
  ASSUME Base,
         \/ \E to \in Typed : TypeAddress(to)
         \/ \E k \in DOMAIN calls : DepartureAnswered(k) /\ Ok(k)
         \/ \E k \in DOMAIN calls : CheckoutAnswered(k) /\ Ok(k)
  PROVE  InStore'
<1>1. PICK at, w, x, rest : Reload(at, w, x, rest) /\ rest \subseteq DOMAIN calls
  BY LoadMoves
<1>2. PICK p : p = page'
  OBVIOUS
<1>3. PICK to, n : to = Address(at, w, x) /\ Mounting(to, p, n)
  BY <1>1, <1>2, LoadsTo
<1>4. ~p.loaded
  BY <1>3, AddressPlaced DEF Mounting
<1> QED BY <1>2, <1>4 DEF InStore, AtHand

LEMMA FormThere ==
  ASSUME Base, Session', InStore, There, NEW op, NEW w, NEW x, Ask(op, w, x), Sends(op, w, x)
  PROVE  InStore' /\ There'
<1>1. PICK c : c = Call(op, w, x, page.inner)
  OBVIOUS
<1>2. Moves(DOMAIN calls, store, page, <<c>>) /\ cookie' = cookie /\ why' = why
  BY <1>1, FormMoves
<1>3. why' \cap Strange = {} => Founded(db.level, calls, DOMAIN calls, cookie', page, store)
  BY <1>2 DEF There
<1> QED BY <1>2, <1>3, MovesThere

\* A link leads to a workspace that is shown, and that the account has, if the account
\* shown is the session's.
LEMMA FollowThere ==
  ASSUME Base, Session, Session', InStore, There, NEW to \in Links, Follow(to)
  PROVE  InStore' /\ There'
<1>1. PICK pg : pg = Going(page, to.at, to.ws, to.arg)
  OBVIOUS
<1>2. Moves(DOMAIN calls, store, pg, <<>>) /\ cookie' = cookie
  BY <1>1, FollowMoves
<1>3. pg.at = to.at /\ pg.ws = to.ws
  BY <1>1, GoingPlaced DEF Base, PagesInv
<1>4. /\ page.at # "blank"
      /\ to.at \in Within => to.ws \in DOMAIN store.app.level
      /\ why \subseteq why' /\ (Logged \/ NotOwn(to) \subseteq why')
  BY DEF Follow
<1>5. ASSUME why' \cap Strange = {}
      PROVE  Founded(db.level, calls, DOMAIN calls, cookie, pg, store)
  <2>1. Founded(db.level, calls, DOMAIN calls, cookie, page, store)
    BY <1>4, <1>5 DEF There
  <2>2. PICK l, cs, R : l = db.level /\ cs = calls /\ R = DOMAIN calls
    OBVIOUS
  <2>3. CASE \E k \in R : Departs(cs[k])
    BY <2>2, <2>3 DEF Founded
  <2>4. CASE ~ \E k \in R : Departs(cs[k])
    <3>1. /\ Lands(l, cs, R, cookie, page, store)
          /\ (\E k \in R : Joins(cs[k])) \/ Finds(l, cs, R, cookie, page, store)
      BY <2>1, <2>2, <2>4 DEF Founded
    <3>2. pg.at \in Within => <<cookie, pg.ws>> \in DOMAIN l
      <4>1. CASE Logged
        <5>1. store.app.account = cookie
          BY <1>4, <1>5, <4>1 DEF Logged, Session, Strange
        <5> QED BY <1>3, <1>4, <3>1, <5>1 DEF Lands
      <4>2. CASE ~Logged
        <5>1. to.at \in Within => <<cookie, to.ws>> \in DOMAIN db.level
          BY <1>4, <1>5, <4>2 DEF NotOwn, Strange
        <5> QED BY <1>3, <2>2, <5>1
      <4> QED BY <4>1, <4>2
    <3>3. Lands(l, cs, R, cookie, pg, store)
      BY <3>1, <3>2 DEF Lands
    <3>4. AtHand(pg, store)
      BY <1>3, <1>4 DEF AtHand
    <3>5. pg.at # "blank"
      BY <1>3, StartAssumption DEF Inside, Within, Public
    <3>6. Finds(l, cs, R, cookie, page, store) => Finds(l, cs, R, cookie, pg, store)
      BY <1>3, <1>4, <3>2, <3>5 DEF Finds
    <3> QED BY <2>2, <3>1, <3>3, <3>4, <3>6 DEF Founded
  <2> QED BY <2>3, <2>4
<1>6. why' \cap Strange = {} => Founded(db.level, calls, DOMAIN calls, cookie', pg, store)
  BY <1>2, <1>5
<1> QED BY <1>2, <1>6, MovesThere

\* The account as it was asked for last, of those under way.
LEMMA BroughtThere ==
  ASSUME Base, There, why \cap Strange = {}, NEW k \in DOMAIN calls, Brings(calls[k], cookie),
         "overtaken" \notin Amiss(k),
         NEW st, st.app = calls[k].answer, NEW pg, pg.at = page.at, pg.ws = page.ws
  PROVE  Founded(db.level, calls, DOMAIN calls \ {k}, cookie, pg, st)
<1>1. PICK l, cs, R, who : l = db.level /\ cs = calls /\ R = DOMAIN calls /\ who = cookie
  OBVIOUS
<1>2. Founded(l, cs, R, who, page, store) /\ k \in R /\ Brings(cs[k], who)
  BY <1>1 DEF There
<1>3. st.app.account = who /\ DOMAIN st.app.level = DOMAIN cs[k].answer.level
  <2>1. Served(calls[k])
    BY DEF Base
  <2>2. calls[k].answer.account = calls[k].as
    BY <2>1 DEF Served, Brings
  <2> QED BY <1>1, <2>2 DEF Brings
<1>4. ~Departs(cs[k]) /\ ~Joins(cs[k])
  BY <1>2 DEF Brings, Departs, Joins, AppOps
<1>5. ASSUME NEW j \in R \ {k}, Brings(cs[j], who)
      PROVE  cs[k].turn < cs[j].turn
  <2>1. \/ calls[j].op = calls[k].op
        \/ {"app", "getApp"} = {calls[j].op, calls[k].op}
    BY <1>1, <1>5 DEF Brings, AppOps
  <2>2. Served(calls[j]) /\ Served(calls[k])
    BY <1>1 DEF Base
  <2>3. calls[j].turn # 0 /\ calls[j].turn \in Nat /\ calls[k].turn \in Nat
    BY <1>1, <1>5, <2>2 DEF Served, Brings, AppOps, Loads
  <2>4. ~(calls[j].turn < calls[k].turn)
    BY <1>1, <2>1, <2>3 DEF Amiss
  <2>5. calls[j].turn # calls[k].turn
    BY <1>1, <2>3 DEF Base, InTurn
  <2> QED BY <1>1, <2>3, <2>4, <2>5
<1>6. CASE \E j \in R : Departs(cs[j])
  BY <1>1, <1>4, <1>6 DEF Founded
<1>7. CASE ~ \E j \in R : Departs(cs[j])
  <2>1. /\ Lands(l, cs, R, who, page, store)
        /\ (\E j \in R : Joins(cs[j])) \/ Finds(l, cs, R, who, page, store)
    BY <1>2, <1>7 DEF Founded
  <2>2. Lands(l, cs, R \ {k}, who, pg, st)
    BY <1>2, <1>3, <2>1 DEF Lands
  <2>3. CASE \E j \in R : Joins(cs[j])
    BY <1>1, <1>4, <2>2, <2>3 DEF Founded
  <2>4. CASE Finds(l, cs, R, who, page, store)
    <3>1. pg.at # "blank" /\ AtHand(pg, st)
      BY <1>2, <1>3, <2>4 DEF Finds, AtHand
    <3>2. ASSUME NEW j \in R \ {k}, Brings(cs[j], who)
          PROVE  /\ DOMAIN st.app.level \subseteq DOMAIN cs[j].answer.level
                 /\ pg.at \in Within => pg.ws \in DOMAIN cs[j].answer.level
      BY <1>2, <1>3, <1>5, <2>1, <2>4, <3>2 DEF Lands, Finds
    <3>3. Finds(l, cs, R \ {k}, who, pg, st)
      BY <3>1, <3>2 DEF Finds
    <3> QED BY <1>1, <2>2, <3>1, <3>3 DEF Founded
  <2> QED BY <2>1, <2>3, <2>4
<1> QED BY <1>6, <1>7

LEMMA AppThere ==
  ASSUME Base, Session', InStore, There, NEW k \in DOMAIN calls, AppAnswered(k) \/ GetAppAnswered(k)
  PROVE  InStore' /\ There'
<1>1. IsPage(page) /\ Whole(store)
  BY DEF Base, PagesInv
<1>2. /\ cookie' = cookie /\ calls[k].op \in AppOps /\ calls[k].state # "sent"
      /\ why \cup (Amiss(k) \ {"late"}) \cup Crossed(k) \subseteq why'
  BY AppMoves, GetAppMoves DEF AppOps
<1>3. CASE Ok(k)
  <2>1. PICK st, pg :
          /\ Moves(DOMAIN calls \ {k}, st, pg, <<>>)
          /\ st = [store EXCEPT !.app = calls[k].answer]
          /\ pg = [page EXCEPT !.loaded = TRUE] \/ pg = page
    BY <1>3, AppMoves, GetAppMoves
  <2>2. st.app = calls[k].answer /\ pg.at = page.at /\ pg.ws = page.ws
    BY <1>1, <2>1 DEF Whole, IsPage
  <2>3. ASSUME why' \cap Strange = {}
        PROVE  Founded(db.level, calls, DOMAIN calls \ {k}, cookie, pg, st)
    <3>1. why \cap Strange = {} /\ "overtaken" \notin Amiss(k) /\ calls[k].as = cookie
      BY <1>2, <2>3 DEF Strange, Crossed
    <3>2. Brings(calls[k], cookie)
      BY <1>2, <1>3, <3>1 DEF Brings, Ok
    <3> QED BY <2>2, <3>1, <3>2, BroughtThere
  <2>4. why' \cap Strange = {} =>
          Founded(db.level, calls, DOMAIN calls \ {k}, cookie', pg, st)
    BY <1>2, <2>3
  <2> QED BY <2>1, <2>4, MovesThere
<1>4. CASE ~Ok(k)
  <2>1. PICK pg : /\ Moves(DOMAIN calls \ {k}, store, pg, <<>>)
                  /\ pg = page \/ pg = Address("login", None, None)
    BY <1>4, AppMoves, GetAppMoves
  <2>2. \/ pg.at = page.at /\ pg.ws = page.ws /\ pg.loaded = page.loaded
        \/ pg.at \notin Within \cup {"blank"}
    <3>1. pg = Address("login", None, None) => pg.at = "login"
      BY AddressPlaced
    <3> QED BY <2>1, <3>1 DEF Within
  <2>3. ~Departs(calls[k]) /\ ~Joins(calls[k])
    BY <1>2 DEF Departs, Joins, AppOps
  <2>4. ASSUME why' \cap Strange = {}
        PROVE  Founded(db.level, calls, DOMAIN calls \ {k}, cookie, pg, store)
    <3>1. why \cap Strange = {}
      BY <1>2, <2>4
    <3>2. \A j \in DOMAIN calls \ (DOMAIN calls \ {k}) : ~Departs(calls[j]) /\ ~Joins(calls[j])
      BY <2>3
    <3> QED BY <2>2, <3>1, <3>2, KeepsThere
  <2>5. why' \cap Strange = {} =>
          Founded(db.level, calls, DOMAIN calls \ {k}, cookie', pg, store)
    BY <1>2, <2>4
  <2> QED BY <2>1, <2>5, MovesThere
<1> QED BY <1>3, <1>4

\* A page outside all workspaces, and no load of the account under way.
LEMMA AwayThere ==
  ASSUME NEW l, NEW cs, NEW R, NEW Q, Q \subseteq R, NEW who, NEW me, NEW pg, NEW st, NEW qg,
         NEW su, Founded(l, cs, R, who, pg, st), su.app = st.app \/ su.app = NoApp,
         \A k \in R \ Q : ~Departs(cs[k]), \A k \in Q : ~Brings(cs[k], me),
         qg.at \notin Within \cup {"blank"}
  PROVE  Founded(l, cs, Q, me, qg, su)
<1>1. CASE \E k \in R : Departs(cs[k])
  BY <1>1 DEF Founded
<1>2. CASE ~ \E k \in R : Departs(cs[k])
  <2>1. \A w \in DOMAIN st.app.level : <<st.app.account, w>> \in DOMAIN l
    BY <1>2 DEF Founded, Lands
  <2>2. \A w \in DOMAIN su.app.level : <<su.app.account, w>> \in DOMAIN l
    <3>1. su.app = NoApp => DOMAIN su.app.level = {}
      BY DEF NoApp
    <3> QED BY <2>1, <3>1
  <2>3. Lands(l, cs, Q, me, qg, su)
    BY <2>2 DEF Lands
  <2>4. Finds(l, cs, Q, me, qg, su) /\ AtHand(qg, su)
    BY DEF Finds, AtHand
  <2> QED BY <2>3, <2>4 DEF Founded
<1> QED BY <1>1, <1>2

LEMMA SessionThere ==
  ASSUME Base, Session', InStore, There, NEW k \in DOMAIN calls,
         SessionAnswered(k) \/ LogOutAnswered(k)
  PROVE  InStore' /\ There'
<1>0. IsPage(page) /\ Nested(page) /\ Placed(page) /\ Whole(store)
  BY DEF Base, PagesInv
<1>1. PICK st, pg :
        /\ Moves(DOMAIN calls \ {k}, st, pg, <<>>)
        /\ st = IF LogOutAnswered(k) /\ Ok(k) THEN [store EXCEPT !.app = NoApp] ELSE store
        /\ pg = IF Ok(k) THEN Going(page, "index", None, None) ELSE page
  <2>1. CASE SessionAnswered(k)
    <3>1. ~LogOutAnswered(k)
      BY <2>1 DEF SessionAnswered, LogOutAnswered, Answered
    <3> QED BY <2>1, <3>1, SessionMoves
  <2>2. CASE LogOutAnswered(k)
    BY <2>2, LogOutMoves
  <2> QED BY <2>1, <2>2
<1>2. why \subseteq why'
  BY <1>1 DEF Moves
<1>3. ~Departs(calls[k]) /\ ~Joins(calls[k])
  BY SessionMoves, LogOutMoves DEF Departs, Joins
<1>4. ASSUME why' \cap Strange = {}
      PROVE  Founded(db.level, calls, DOMAIN calls \ {k}, cookie', pg, st)
  <2>1. why \cap Strange = {} /\ "crossed" \notin why'
    BY <1>2, <1>4 DEF Strange
  <2>2. CASE ~Ok(k)
    <3>1. cookie' = cookie
      BY <2>2, SessionMoves, LogOutMoves
    <3>2. pg = page /\ st = store
      BY <1>1, <2>2
    <3>3. \A j \in DOMAIN calls \ (DOMAIN calls \ {k}) : ~Departs(calls[j]) /\ ~Joins(calls[j])
      BY <1>3
    <3>4. Founded(db.level, calls, DOMAIN calls \ {k}, cookie, pg, st)
      BY <2>1, <3>2, <3>3, KeepsThere
    <3> QED BY <3>1, <3>4
  <2>3. CASE Ok(k)
    <3>1. pg.at = "index"
      BY <1>0, <1>1, <2>3, GoingPlaced
    <3>2. st.app = store.app \/ st.app = NoApp
      BY <1>0, <1>1 DEF Whole
    <3>3. ASSUME NEW j \in DOMAIN calls \ {k} PROVE ~Brings(calls[j], cookie')
      <4>1. CASE SessionAnswered(k)
        <5>1. ~Unsettled(DOMAIN calls \ {k})
          BY <2>1, <2>3, <4>1, SessionMoves
        <5> QED BY <5>1 DEF Unsettled, Brings, AppOps
      <4>2. CASE LogOutAnswered(k)
        <5>1. cookie' = None
          BY <2>3, <4>2, LogOutMoves
        <5>2. Served(calls[j])
          BY DEF Base
        <5> QED BY <5>1, <5>2, PagesAssumption DEF Served, Brings
      <4> QED BY <4>1, <4>2
    <3>4. PICK l, cs, R, Q, me : /\ l = db.level /\ cs = calls /\ R = DOMAIN calls
                                 /\ Q = DOMAIN calls \ {k} /\ me = cookie'
      OBVIOUS
    <3>5. Founded(l, cs, R, cookie, page, store)
      BY <2>1, <3>4 DEF There
    <3>6. /\ \A j \in R \ Q : ~Departs(cs[j])
          /\ \A j \in Q : ~Brings(cs[j], me)
          /\ Q \subseteq R
      BY <1>3, <3>3, <3>4
    <3>7. pg.at \notin Within \cup {"blank"}
      BY <3>1 DEF Within
    <3>8. Founded(l, cs, Q, me, pg, st)
      BY <3>2, <3>5, <3>6, <3>7, AwayThere
    <3> QED BY <3>4, <3>8
  <2> QED BY <2>2, <2>3
<1> QED BY <1>1, <1>4, MovesThere

LEMMA OtherThere ==
  ASSUME Base, Session', InStore, There, NEW k \in DOMAIN calls, Other(k)
  PROVE  InStore' /\ There'
<1>1. PICK st, pg, asked : Stays(k, st, pg, asked)
  BY OtherMoves
<1>2. /\ cookie' = cookie
      /\ calls[k].op \in {"leave", "deleteWorkspace", "deleteAccount"} => ~Ok(k)
  BY OtherMoves
<1>3. /\ Moves(DOMAIN calls \ {k}, st, pg, asked) /\ st.app = store.app
      /\ \/ pg.at = page.at /\ pg.ws = page.ws /\ pg.loaded = page.loaded
         \/ pg.at \notin Within \cup {"blank"}
  BY <1>1 DEF Stays, Within
<1>4. ~Departs(calls[k]) /\ why \subseteq why'
  BY <1>2, <1>3 DEF Departs, Ok, Moves
<1>5. ASSUME why' \cap Strange = {}
      PROVE  Founded(db.level, calls, DOMAIN calls \ {k}, cookie, pg, st)
  <2>1. why \cap Strange = {} /\ "elsewhere" \notin why'
    BY <1>4, <1>5 DEF Strange
  <2>2. CASE ~Joins(calls[k])
    <3>1. \A j \in DOMAIN calls \ (DOMAIN calls \ {k}) : ~Departs(calls[j]) /\ ~Joins(calls[j])
      BY <1>4, <2>2
    <3> QED BY <1>3, <2>1, <3>1, KeepsThere
  <2>3. CASE Joins(calls[k])
    <3>1. calls[k].op = "acceptInvite" /\ Ok(k)
      BY <2>3 DEF Joins, Ok
    <3>2. Says(k)
      BY <3>1 DEF Other, ProjectsAnswered, ProjectAnswered, LinkAnswered, ListAnswered, Reloads,
         SettingAnswered, KeyAnswered, ProjectCreated, WorkspaceCreated, InviteAnswered,
         PlanAnswered, DepartureAnswered, CheckoutAnswered, Answered
    <3>3. page.inner = calls[k].by /\ ~Unsettled(DOMAIN calls \ {k})
      BY <2>1, <3>1, <3>2, SaysMoves
    <3>4. MadeBy(page, calls[k])
      BY DEF Base
    <3>5. "acceptInvite" \in DOMAIN AtOf /\ AtOf["acceptInvite"] = {"invite"}
      BY DEF AtOf
    <3>6. page.at = "invite"
      BY <3>1, <3>3, <3>4, <3>5 DEF MadeBy
    <3>7. pg.at \notin Within \cup {"blank"}
      BY <1>3, <3>6 DEF Within
    <3>8. \A j \in DOMAIN calls \ {k} : ~Brings(calls[j], cookie)
      BY <3>3 DEF Unsettled, Brings, AppOps
    <3>9. PICK l, cs, R, Q : l = db.level /\ cs = calls /\ R = DOMAIN calls /\ Q = R \ {k}
      OBVIOUS
    <3>10. Founded(l, cs, R, cookie, page, store)
      BY <2>1, <3>9 DEF There
    <3>11. /\ \A j \in R \ Q : ~Departs(cs[j])
           /\ \A j \in Q : ~Brings(cs[j], cookie)
           /\ Q \subseteq R
      BY <1>4, <3>8, <3>9
    <3>12. Founded(l, cs, Q, cookie, pg, st)
      BY <1>3, <3>7, <3>10, <3>11, AwayThere
    <3> QED BY <3>9, <3>12
  <2> QED BY <2>2, <2>3
<1>6. why' \cap Strange = {} =>
        Founded(db.level, calls, DOMAIN calls \ {k}, cookie', pg, st)
  BY <1>2, <1>5
<1> QED BY <1>3, <1>6, MovesThere

LEMMA WithGrows ==
  ASSUME NEW f, NEW x, NEW y, NEW g, g = With(f, x, y)
  PROVE  DOMAIN g = DOMAIN f \cup {x}
BY DEF With

\* But for departures, which load the document again, no account shown loses a workspace,
\* and but for accepted invites none gains one that any page shows.
LEMMA EffectKeeps ==
  ASSUME TablesFit, PagesAssumption, NEW c, Allowed(c), c.state = "sent",
         c.op \notin {"leave", "deleteWorkspace", "deleteAccount"},
         NEW who, NEW held, Spares(c, who, held)
  PROVE  /\ \A a \in {who, held} : \A w :
              <<a, w>> \in DOMAIN db.level => <<a, w>> \in DOMAIN Effect(c).level
         /\ c.op # "acceptInvite" =>
              \A w \in Used : <<who, w>> \in DOMAIN Effect(c).level => <<who, w>> \in DOMAIN db.level
<1>1. PICK d, l, m : d = Effect(c) /\ l = db.level /\ m = d.level
  OBVIOUS
<1> SUFFICES /\ \A a \in {who, held} : \A w : <<a, w>> \in DOMAIN l => <<a, w>> \in DOMAIN m
             /\ c.op # "acceptInvite" =>
                  \A w \in Used : <<who, w>> \in DOMAIN m => <<who, w>> \in DOMAIN l
  BY <1>1
<1>2. LevelsFit(l)
  BY <1>1 DEF TablesFit
<1>3. CASE c.op \notin MemberOps
  <2>1. d.level = db.level
    BY <1>1, <1>3, EffectIs
  <2>2. m = l
    BY <1>1, <2>1
  <2> QED BY <2>2
<1>4. CASE c.op \in {"signup", "createWorkspace"}
  <2>1. PICK a : a = IF c.op = "signup" THEN c.arg ELSE c.as
    OBVIOUS
  <2>2. d.level = With(db.level, <<a, c.ws>>, "OWNER")
    <3>1. CASE c.op = "signup"
      BY <1>1, <2>1, <3>1, EffectIs
    <3>2. CASE c.op = "createWorkspace"
      BY <1>1, <2>1, <3>2, EffectIs
    <3> QED BY <1>4, <3>1, <3>2
  <2>3. DOMAIN m = DOMAIN l \cup {<<a, c.ws>>}
    <3>1. m = With(l, <<a, c.ws>>, "OWNER")
      BY <1>1, <2>2
    <3> QED BY <3>1, WithGrows
  <2>4. c.ws \notin Used
    BY <1>4 DEF Allowed, Fits
  <2>5. \A w \in Used : <<who, w>> # <<a, c.ws>>
    BY <2>4
  <2> QED BY <2>3, <2>5
<1>5. CASE c.op = "acceptInvite"
  <2>1. PICK x : x = <<Invitee[c.arg], db.invites[c.arg]>>
    OBVIOUS
  <2>2. d.level = With(db.level, x, "VIEWER")
    BY <1>1, <1>5, <2>1, EffectIs
  <2>3. DOMAIN m = DOMAIN l \cup {x}
    <3>1. m = With(l, x, "VIEWER")
      BY <1>1, <2>2
    <3> QED BY <3>1, WithGrows
  <2> QED BY <1>5, <2>3
<1>6. CASE c.op = "level"
  <2>1. d.level = [db.level EXCEPT ![<<c.arg[1], c.ws>>] = c.arg[2]]
    BY <1>1, <1>6, EffectIs
  <2>2. DOMAIN m = DOMAIN l
    BY <1>1, <2>1
  <2> QED BY <2>2
<1>7. CASE c.op = "removeMember"
  <2>1. d.level = Drop(db.level, {<<c.arg, c.ws>>})
    BY <1>1, <1>7, EffectIs
  <2>2. m = Drop(l, {<<c.arg, c.ws>>})
    BY <1>1, <2>1
  <2>3. DropIs(l, m, {<<c.arg, c.ws>>})
    BY <2>2, DropDrops
  <2>4. DOMAIN m = DOMAIN l \ {<<c.arg, c.ws>>}
    BY <2>3 DEF DropIs
  <2>5. <<c.arg, c.ws>> \in DOMAIN l
    BY <1>1, <1>7 DEF Allowed, Fits
  <2>6. c.arg \in Accounts
    BY <1>2, <2>5 DEF LevelsFit
  <2>7. c.arg \notin {who, held}
    BY <1>7, <2>6, PagesAssumption DEF Spares, Target
  <2> QED BY <2>4, <2>7
<1> QED BY <1>3, <1>4, <1>5, <1>6, <1>7 DEF MemberOps

LEMMA ServeThere ==
  ASSUME Base, Session, InStore, There, NEW k \in DOMAIN calls, Serve(k)
  PROVE  InStore' /\ There'
<1>1. /\ cookie' = cookie /\ store' = store /\ page' = page /\ why' = why
      /\ calls[k].state = "sent"
  BY ServeIs
<1>2. InStore'
  BY <1>1 DEF InStore
<1> SUFFICES ASSUME why \cap Strange = {} PROVE There'
  BY <1>1, <1>2 DEF There
<1>3. PICK ok \in BOOLEAN : Serves(k, ok)
  BY ServeIs
<1>4. Latest \in Nat /\ \A j \in DOMAIN calls : calls[j].turn < Latest /\ calls[j].turn \in Nat
  BY LatestIsLater DEF Base, Served
<1>5. calls[k].here
  BY DEF Base, AllHere, Strange
<1>6. PICK c, cs, R, who, l, m, pg, st :
        /\ c = calls[k] /\ cs = calls' /\ R = DOMAIN calls /\ who = cookie
        /\ l = db.level /\ m = db'.level /\ pg = page /\ st = store
  OBVIOUS
<1>7. PICK d : d = cs[k]
  OBVIOUS
<1>8. /\ After(c, d, ok) /\ \A j \in R \ {k} : cs[j] = calls[j]
      /\ ok => Allowed(c)
      /\ db' = IF ok THEN Effect(c) ELSE db
      /\ DOMAIN calls' = R
  BY <1>3, <1>5, <1>6, <1>7 DEF Serves
<1>9. c.state = "sent" /\ TablesFit /\ k \in R /\ LevelsFit(l)
  BY <1>1, <1>6 DEF Base, TablesFit
<1>10. SUFFICES Founded(m, cs, R, who, pg, st)
  BY <1>1, <1>6, <1>8 DEF There
<1>11. d.op = c.op /\ d.state = (IF ok THEN "ok" ELSE "refused") /\ d.as = c.as
  BY <1>8 DEF After
<1>12. Founded(l, calls, R, who, pg, st)
  BY <1>6 DEF There
<1>13. /\ ~Departs(c) /\ ~Joins(c) /\ ~Brings(c, who)
  BY <1>9 DEF Departs, Joins, Brings
<1>14. CASE \E j \in R : Departs(calls[j])
  <2>1. \E j \in R : Departs(cs[j])
    BY <1>6, <1>8, <1>13, <1>14
  <2> QED BY <2>1 DEF Founded
<1>15. CASE Departs(d)
  BY <1>7, <1>9, <1>15 DEF Founded
<1>16. CASE (~ \E j \in R : Departs(calls[j])) /\ ~Departs(d)
  <2>1. /\ Lands(l, calls, R, who, pg, st)
        /\ \/ \E j \in R : Joins(calls[j])
           \/ Finds(l, calls, R, who, pg, st) /\ AtHand(pg, st)
    BY <1>12, <1>16 DEF Founded
  <2>2. Spares(c, who, st.app.account)
    BY <1>6 DEF Session, Strange
  <2>3. /\ \A a \in {who, st.app.account} : \A w : <<a, w>> \in DOMAIN l => <<a, w>> \in DOMAIN m
        /\ ~Joins(d) => \A w \in Used : <<who, w>> \in DOMAIN m => <<who, w>> \in DOMAIN l
    <3>1. CASE ~ok
      BY <1>6, <1>8, <3>1
    <3>2. CASE ok
      <4>1. c.op \notin {"leave", "deleteWorkspace", "deleteAccount"}
        BY <1>11, <1>16, <3>2 DEF Departs
      <4>2. m = Effect(c).level /\ Allowed(c)
        BY <1>6, <1>8, <3>2
      <4>3. ~Joins(d) => c.op # "acceptInvite"
        BY <1>11, <3>2 DEF Joins
      <4>4. /\ \A a \in {who, st.app.account} :
                 \A w :
              <<a, w>> \in DOMAIN db.level => <<a, w>> \in DOMAIN Effect(c).level
            /\ c.op # "acceptInvite" =>
                 \A w \in Used : <<who, w>> \in DOMAIN Effect(c).level => <<who, w>> \in DOMAIN db.level
        BY <1>9, <2>2, <4>1, <4>2, EffectKeeps, PagesAssumption
      <4>5. db.level = l /\ Effect(c).level = m
        BY <1>6, <4>2
      <4> QED BY <4>3, <4>4, <4>5
    <3> QED BY <3>1, <3>2
  <2>4. Brings(d, who) =>
          /\ m = l /\ d.turn = Latest
          /\ \A w : w \in DOMAIN d.answer.level <=> <<who, w>> \in DOMAIN l
    <3> SUFFICES ASSUME Brings(d, who)
                 PROVE  /\ m = l /\ d.turn = Latest
                        /\ \A w : w \in DOMAIN d.answer.level <=> <<who, w>> \in DOMAIN l
      OBVIOUS
    <3>1. ok /\ c.op \in AppOps /\ c.as = who
      BY <1>11 DEF Brings
    <3>2. Effect(c) = db
      BY <3>1 DEF AppOps, Effect
    <3>3. m = l
      BY <1>6, <1>8, <3>1, <3>2
    <3>4. d.turn = Latest
      BY <1>8, <3>1 DEF After, AppOps, Loads
    <3>5. d.answer = [account |-> c.as, level |-> LevelsOf(c.as)]
      BY <1>8, <3>1 DEF After, AnswerTo, AppOps
    <3>6. d.answer.level = LevelsIn(l, who)
      BY <1>6, <3>1, <3>5 DEF LevelsIn, LevelsOf
    <3>7. DOMAIN d.answer.level = {v \in Workspaces : <<who, v>> \in DOMAIN l}
      BY <3>6 DEF LevelsIn
    <3>8. \A w : <<who, w>> \in DOMAIN l => w \in Workspaces
      BY <1>9 DEF LevelsFit
    <3> QED BY <3>3, <3>4, <3>7, <3>8
  <2>5. ASSUME NEW j \in R, Brings(cs[j], who), j # k
        PROVE  /\ Brings(calls[j], who) /\ cs[j] = calls[j]
               /\ cs[j].turn < Latest /\ cs[j].turn \in Nat
    BY <1>4, <1>6, <1>8, <2>5
  <2>6. Lands(m, cs, R, who, pg, st)
    <3>1. /\ \A w \in DOMAIN st.app.level : <<st.app.account, w>> \in DOMAIN m
          /\ pg.at \in Within => <<who, pg.ws>> \in DOMAIN m
      BY <2>1, <2>3 DEF Lands
    <3>2. ASSUME NEW j \in R, Brings(cs[j], who), NEW w \in DOMAIN cs[j].answer.level
          PROVE  <<who, w>> \in DOMAIN m /\ <<who, w>> \in DOMAIN l
      <4>1. CASE j = k
        BY <1>7, <2>4, <3>2, <4>1
      <4>2. CASE j # k
        BY <2>1, <2>3, <2>5, <3>2, <4>2 DEF Lands
      <4> QED BY <4>1, <4>2
    <3>3. ASSUME NEW i \in R, NEW j \in R, Brings(cs[i], who), Brings(cs[j], who),
                 cs[i].turn < cs[j].turn
          PROVE  DOMAIN cs[i].answer.level \subseteq DOMAIN cs[j].answer.level
      <4>1. CASE j = k
        BY <1>7, <2>4, <3>2, <3>3, <4>1
      <4>2. CASE j # k /\ i = k
        BY <1>4, <1>7, <2>4, <2>5, <3>3, <4>2
      <4>3. CASE j # k /\ i # k
        BY <2>1, <2>5, <3>3, <4>3 DEF Lands
      <4> QED BY <4>1, <4>2, <4>3
    <3> QED BY <3>1, <3>2, <3>3 DEF Lands
  <2>7. CASE (\E j \in R : Joins(calls[j])) \/ Joins(d)
    <3>1. \E j \in R : Joins(cs[j])
      BY <1>6, <1>7, <1>8, <1>9, <1>13, <2>7
    <3> QED BY <2>6, <3>1 DEF Founded
  <2>8. CASE Finds(l, calls, R, who, pg, st) /\ AtHand(pg, st) /\ ~Joins(d)
    <3>1. ASSUME NEW w \in DOMAIN st.app.level, <<who, w>> \in DOMAIN m
          PROVE  <<who, w>> \in DOMAIN l
      <4>1. <<st.app.account, w>> \in DOMAIN l
        BY <2>1 DEF Lands
      <4>2. w \in Used
        BY <1>6, <4>1 DEF Used
      <4> QED BY <2>3, <2>8, <3>1, <4>2
    <3>2. ASSUME NEW j \in R, Brings(cs[j], who)
          PROVE  /\ \A w \in DOMAIN st.app.level :
                      <<who, w>> \in DOMAIN m => w \in DOMAIN cs[j].answer.level
                 /\ pg.at \in Within => pg.ws \in DOMAIN cs[j].answer.level
      <4>1. CASE j = k
        BY <1>7, <2>1, <2>4, <3>1, <3>2, <4>1 DEF Lands
      <4>2. CASE j # k
        BY <2>5, <2>8, <3>1, <3>2, <4>2 DEF Finds
      <4> QED BY <4>1, <4>2
    <3>3. Finds(m, cs, R, who, pg, st)
      BY <2>8, <3>2 DEF Finds
    <3> QED BY <2>6, <2>8, <3>3 DEF Founded
  <2> QED BY <2>1, <2>7, <2>8
<1> QED BY <1>14, <1>15, <1>16

LEMMA NextThere == Base /\ Session /\ InStore /\ There /\ [Next]_vars => (InStore /\ There)'
<1> SUFFICES ASSUME Base, Session, InStore, There, [Next]_vars
             PROVE  InStore' /\ There'
  OBVIOUS
<1>0. Base' /\ Session'
  BY NextBase, NextSession
<1>1. CASE UNCHANGED vars
  BY <1>1 DEF vars, InStore, There
<1>2. CASE FormSent
  <2>1. PICK op, w, x : Ask(op, w, x) /\ Sends(op, w, x)
    BY <1>2, FormSends
  <2> QED BY <1>0, <2>1, FormThere
<1>3. CASE \E to \in Links : Follow(to)
  BY <1>0, <1>3, FollowThere
<1>4. CASE \E to \in Typed : TypeAddress(to)
  BY <1>4, LoadThere, LoadInStore
<1>5. ASSUME NEW k \in DOMAIN calls, Serve(k) PROVE InStore' /\ There'
  BY <1>5, ServeThere
<1>6. ASSUME NEW k \in DOMAIN calls, Forget(k) PROVE InStore' /\ There'
  <2>1. why' = why /\ page' = page /\ store' = store /\ ~calls[k].here
    BY <1>6 DEF Forget
  <2>2. "reload" \in why'
    BY <2>1 DEF Base, AllHere
  <2> QED BY <2>1, <2>2 DEF InStore, There, Strange
<1>7. ASSUME NEW w \in Workspaces, RemovedElsewhere(w) PROVE InStore' /\ There'
  <2>1. "elsewhere" \in why' /\ page' = page /\ store' = store
    BY <1>7 DEF RemovedElsewhere
  <2> QED BY <2>1 DEF InStore, There, Strange
<1>8. ASSUME NEW k \in DOMAIN calls, AnswerArrives(k) PROVE InStore' /\ There'
  <2>1. CASE AppAnswered(k) \/ GetAppAnswered(k)
    BY <1>0, <2>1, AppThere
  <2>2. CASE SessionAnswered(k) \/ LogOutAnswered(k)
    BY <1>0, <2>2, SessionThere
  <2>3. CASE (DepartureAnswered(k) \/ CheckoutAnswered(k)) /\ Ok(k)
    BY <2>3, LoadThere, LoadInStore
  <2>4. CASE Other(k)
    BY <1>0, <2>4, OtherThere
  <2> QED BY <1>8, <2>1, <2>2, <2>3, <2>4 DEF AnswerArrives, Other
<1> QED BY <1>1, <1>2, <1>3, <1>4, <1>5, <1>6, <1>7, <1>8 DEF Next, Network, Moved

LEMMA QuietIsFounded ==
  ASSUME Base, There
  PROVE  NeverBlank
<1> SUFFICES ASSUME Quiet, why \cap Strange = {} PROVE page.at # "blank"
  BY DEF NeverBlank, Strange
<1>1. DOMAIN calls = {}
  BY QuietIsEmpty DEF Strange
<1>2. Founded(db.level, calls, {}, cookie, page, store)
  BY <1>1 DEF There
<1> QED BY <1>2 DEF Founded, Finds

\* No page is for a workspace that the account shown does not have, whatever the account
\* joins, leaves and makes, unless one was typed, sessions crossed, an older answer came
\* last or it was removed elsewhere: for any number of pages, calls and accounts.
THEOREM NoPageIsBlank == Spec => []NeverBlank
<1>1. Init => Base /\ Session /\ InStore /\ There
  BY InitBase, InitSession, InitThere
<1>2. Base /\ Session /\ InStore /\ There /\ [Next]_vars => (Base /\ Session /\ InStore /\ There)'
  BY NextBase, NextSession, NextThere
<1>3. Base /\ There => NeverBlank
  BY QuietIsFounded
<1> QED BY <1>1, <1>2, <1>3, PTL DEF Spec

-----------------------------------------------------------------------------
(* Whose lists are loaded                                                  *)

\* The calls of a page within are not taken for those of the pages around it.
Marked(pg, c) == c.op \in DOMAIN AtOf => c.by # 0 /\ c.by # pg.index /\ c.by # pg.wsp

\* The account's page is mounted when it is shown, and holds no keys before.
Settled(pg) ==
  /\ pg.at = "account" /\ pg.loaded => pg.inner # 0
  /\ pg.inner = 0 => pg.keys = {}

Marks ==
  "reload" \notin why => Settled(page) /\ \A k \in DOMAIN calls : Marked(page, calls[k])

LEMMA GoingBare ==
  ASSUME NEW pg, IsPage(pg), pg.inner = 0 => pg.keys = {}, NEW at, NEW w, NEW x,
         NEW to, to = Going(pg, at, w, x)
  PROVE  to.inner = 0 => to.keys = {}
<1>1. PICK new : new = Address(at, w, x)
  OBVIOUS
<1>2. IsPage(new) /\ new.inner = 0 /\ new.keys = {}
  BY <1>1, AddressFits DEF Address
<1>3. \/ to = new
      \/ to = [pg EXCEPT !.ws = w, !.arg = x]
      \/ to = [new EXCEPT !.index = pg.index, !.loaded = pg.loaded,
                          !.wsp = pg.wsp, !.ready = pg.ready]
      \/ to = [new EXCEPT !.index = pg.index, !.loaded = pg.loaded]
  BY <1>1 DEF Going
<1> QED BY <1>2, <1>3 DEF IsPage

LEMMA LedBare ==
  ASSUME NEW pg, IsPage(pg), pg.inner = 0 => pg.keys = {}, NEW st, NEW to, to = Led(pg, st)
  PROVE  to.inner = 0 => to.keys = {}
<1>1. \A at, w, x : Address(at, w, x).keys = {}
  BY DEF Address
<1>2. \/ to = pg
      \/ \E at, w, x : to = Address(at, w, x)
      \/ \E at, w, x : to = Going(pg, at, w, x)
  BY DEF Led
<1> QED BY <1>1, <1>2, GoingBare

\* A page that is shown with the account is mounted.
LEMMA MountSettled ==
  ASSUME NEW pg, Nested(pg), pg.inner = 0 => pg.keys = {},
         NEW n \in Nat, n # 0, NEW p, Mounting(pg, p, n)
  PROVE  Settled(p)
<1>1. p.inner = 0 => p.keys = {}
  BY DEF Mounting
<1>2. ASSUME p.at = "account", p.loaded, pg.inner = 0 PROVE Mounts(pg) = "inner"
  <2>1. pg.at = "account" /\ pg.loaded /\ pg.index # 0
    BY <1>2 DEF Mounting, Nested
  <2> QED BY <1>2, <2>1 DEF Mounts, Public, Inside, Within
<1>3. p.at = "account" /\ p.loaded => p.inner # 0
  BY <1>2 DEF Mounting
<1> QED BY <1>1, <1>3 DEF Settled

LEMMA OpenedMarked ==
  ASSUME NEW p, Placed(p), NEW c, Opened(c, p), Sent \in Nat
  PROVE  Marked(p, c)
<1>1. c.op \in DOMAIN AtOf => c.by = p.inner /\ c.by # 0
  BY DEF Opened, AtOf
<1> QED BY <1>1 DEF Marked, Placed

LEMMA MovesMarks ==
  ASSUME Base, Base', NEW rest, NEW st, NEW pg, NEW asked, Moves(rest, st, pg, asked),
         "reload" \notin why' =>
           /\ pg.inner = 0 => pg.keys = {}
           /\ \A k \in rest : Marked(pg, calls[k])
           /\ \A c : asked = <<c>> => Marked(pg, c)
  PROVE  Marks'
<1>1. PICK p, cs, R : p = page' /\ cs = calls' /\ R = DOMAIN calls'
  OBVIOUS
<1> SUFFICES ASSUME "reload" \notin why'
             PROVE  Settled(p) /\ \A k \in R : Marked(p, cs[k])
  BY <1>1 DEF Marks
<1>2. Goes(pg, p, cs, R, rest, asked) /\ Remains(pg, p, cs, R \ rest)
  BY <1>1, MovesMakes
<1>3. /\ Sent \in Nat /\ \A k \in DOMAIN calls : calls[k].by <= Sent
  BY SentIsLargest DEF Base, PagesInv, Numbered
<1>4. IsPage(pg) /\ Nested(pg) /\ rest \subseteq DOMAIN calls
  BY DEF Moves, Ready
<1>5. Settled(p)
  <2>1. PICK to, n : /\ to = Led(pg, st) /\ n \in Nat /\ n > Sent /\ Nested(to)
                     /\ Mounting(to, page', n)
    BY MovesTo
  <2>2. Mounting(to, p, n) /\ n # 0
    BY <1>1, <1>3, <2>1
  <2>3. to.inner = 0 => to.keys = {}
    BY <1>4, <2>1, LedBare
  <2> QED BY <2>1, <2>2, <2>3, MountSettled
<1>6. ASSUME NEW c, Marked(pg, c), c.by \in Nat, c.by <= Sent PROVE Marked(p, c)
  <2>1. p.index # 0 => p.index = pg.index \/ p.index > Sent
    BY <1>2 DEF Remains, Opened, AtOf
  <2>2. p.wsp # 0 => p.wsp = pg.wsp \/ p.wsp > Sent
    BY <1>2 DEF Remains, Opened, AtOf
  <2>3. p.index \in Nat /\ p.wsp \in Nat
    BY <1>2 DEF Remains, IsPage
  <2> QED BY <1>3, <1>6, <2>1, <2>2, <2>3 DEF Marked
<1>7. ASSUME NEW k \in R PROVE Marked(p, cs[k])
  <2>1. CASE k \in rest
    <3>1. cs[k] = calls[k] /\ calls[k].by \in Nat /\ calls[k].by <= Sent
      BY <1>2, <1>3, <1>4, <2>1 DEF Goes, Base, PagesInv, Numbered, IsCall
    <3> QED BY <1>6, <2>1, <3>1
  <2>2. CASE k \notin rest /\ asked = <<cs[k]>>
    <3>1. Asked(pg, cs[k])
      BY <2>2, MovesAsk DEF Moves
    <3>2. cs[k].by \in Nat /\ cs[k].by <= Sent
      BY <3>1 DEF Asked, IsCall
    <3> QED BY <1>6, <2>2, <3>2
  <2>3. CASE k \notin rest /\ Opened(cs[k], p)
    <3>1. Placed(p)
      BY <1>1 DEF Base
    <3> QED BY <1>3, <2>3, <3>1, OpenedMarked
  <2> QED BY <1>2, <2>1, <2>2, <2>3 DEF Goes
<1> QED BY <1>5, <1>7

LEMMA LoadMarks ==
  ASSUME Base, Base',
         \/ \E to \in Typed : TypeAddress(to)
         \/ \E k \in DOMAIN calls : DepartureAnswered(k) /\ Ok(k)
         \/ \E k \in DOMAIN calls : CheckoutAnswered(k) /\ Ok(k)
  PROVE  Marks'
<1> SUFFICES ASSUME "reload" \notin why' PROVE Marks'
  BY DEF Marks
<1>1. PICK p, cs, R : p = page' /\ cs = calls' /\ R = DOMAIN calls'
  OBVIOUS
<1>2. \A j \in R : Opened(cs[j], p)
  BY <1>1, LoadMakes
<1>3. Placed(p) /\ Sent \in Nat
  BY <1>1, SentIsLargest DEF Base, PagesInv, Numbered
<1>4. PICK at, w, x, rest : Reload(at, w, x, rest) /\ rest \subseteq DOMAIN calls
  BY LoadMoves
<1>5. PICK to, n : to = Address(at, w, x) /\ n \in Nat /\ n > Sent /\ Mounting(to, page', n)
  BY <1>4, LoadsTo
<1>6. Nested(to) /\ to.keys = {}
  BY <1>5, AddressFits DEF Address
<1>7. Mounting(to, p, n) /\ n # 0
  BY <1>1, <1>3, <1>5
<1>8. Settled(p)
  BY <1>5, <1>6, <1>7, MountSettled
<1>9. \A j \in R : Marked(p, cs[j])
  BY <1>2, <1>3, OpenedMarked
<1> QED BY <1>1, <1>8, <1>9 DEF Marks

LEMMA InitMarks == Init => Marks
<1> SUFFICES ASSUME Init PROVE Marks
  OBVIOUS
<1>1. PICK to \in Tabs :
        /\ page = MountedAs(Address(to.at, to.ws, to.arg), 1)
        /\ calls = [k \in DOMAIN Opens(Address(to.at, to.ws, to.arg)) |->
                      [op |-> Opens(Address(to.at, to.ws, to.arg))[k], as |-> cookie,
                       ws |-> to.ws, arg |-> to.arg, by |-> 1, here |-> TRUE,
                       state |-> "sent", turn |-> 0, answer |-> None]]
  BY DEF Init
<1>2. PICK pg : pg = Address(to.at, to.ws, to.arg)
  OBVIOUS
<1>3. PICK o : o = Opens(pg)
  OBVIOUS
<1>4. /\ page = MountedAs(pg, 1)
      /\ calls = [k \in DOMAIN o |->
                    [op |-> o[k], as |-> cookie, ws |-> to.ws, arg |-> to.arg, by |-> 1,
                     here |-> TRUE, state |-> "sent", turn |-> 0, answer |-> None]]
  BY <1>1, <1>2, <1>3
<1>5. /\ IsPage(pg) /\ Nested(pg) /\ Placed(pg) /\ pg.index = 0 /\ pg.wsp = 0 /\ pg.inner = 0
      /\ pg.keys = {}
  <2>1. IsPage(pg) /\ Nested(pg)
    BY <1>2, AddressFits
  <2>2. Placed(pg) /\ pg.index = 0 /\ pg.wsp = 0 /\ pg.inner = 0
    BY <1>2, AddressPlaced
  <2>3. pg.keys = {}
    BY <1>2 DEF Address
  <2> QED BY <2>1, <2>2, <2>3
<1>6. Len(o) \in Nat /\ DOMAIN o = 1 .. Len(o)
  BY <1>3, OpensOf
<1>7. DOMAIN calls = 1 .. Len(o)
  BY <1>4, <1>6
<1>8. ASSUME NEW k \in 1 .. Len(o) PROVE calls[k].op = o[k] /\ calls[k].by = 1
  <2>1. k \in DOMAIN o
    BY <1>6
  <2>2. calls[k] = [op |-> o[k], as |-> cookie, ws |-> to.ws, arg |-> to.arg, by |-> 1,
                    here |-> TRUE, state |-> "sent", turn |-> 0, answer |-> None]
    BY <1>4, <2>1
  <2> QED BY <2>2
<1>9. PICK p : p = page
  OBVIOUS
<1>10. Mounting(pg, p, 1)
  BY <1>4, <1>5, <1>9, MountPlaced
<1>11. Settled(p)
  BY <1>5, <1>10, MountSettled
<1>12. ASSUME NEW k \in DOMAIN calls PROVE Marked(p, calls[k])
  <2>1. PICK op : op = Opens(pg)[k]
    OBVIOUS
  <2>2. op \in DOMAIN AtOf => Mounts(pg) = "inner"
    <3>1. \/ op = "app" \/ op = "projects" \/ op \in {"logout", "verify"}
          \/ Mounts(pg) = "inner"
      BY <1>3, <1>7, <2>1, OpensFrom
    <3> QED BY <3>1 DEF AtOf
  <2>3. Mounts(pg) = "inner" => p.index = 0 /\ p.wsp = 0
    BY <1>5, <1>10 DEF Mounting
  <2> QED BY <1>3, <1>7, <1>8, <2>1, <2>2, <2>3 DEF Marked
<1> QED BY <1>9, <1>11, <1>12 DEF Marks

-----------------------------------------------------------------------------
(* The lists of the settings and of the keys                               *)

Lists == {"members", "invites", "keys"}

\* The changes after which a list is loaded again.
Changes == [members |-> {"level", "removeMember"}, invites |-> {"invite", "cancelInvite"},
            keys |-> {"createKey", "revokeKey"}]

On(pg, op)     == pg.inner # 0 /\ pg.at = (IF op = "keys" THEN "account" ELSE "settings")
HeldOn(pg, op) == CASE op = "members" -> pg.members
                    [] op = "invites" -> pg.invites
                    [] op = "keys"    -> pg.keys

MembersIn(l, w) == {<<m[1], l[m]>> : m \in {n \in DOMAIN l : n[2] = w}}

\* What the list is in the tables d.
ListIn(d, op, w, who) == CASE op = "members" -> MembersIn(d.level, w)
                           [] op = "invites" -> HomesIn(d.invites, w)
                           [] op = "keys"    -> HomesIn(d.keys, who)

\* A load for the page n that brings its list; an answer after which the list is loaded
\* anew, or left; a load that was not served yet.
Gives(c, op, n)  == c.op = op /\ c.by = n /\ c.state = "ok"
Renews(c, op)    == Departs(c) \/ Joins(c) \/ (c.op \in Changes[op] /\ c.state = "ok")
Owes(c, op, n)   == c.op = op /\ c.by = n /\ c.state # "ok"

\* The load served last, or else what is held, is fresh.
Newest(cs, R, op, n, fresh, held) ==
  \/ \E k \in R : /\ Gives(cs[k], op, n) /\ cs[k].answer = fresh
                  /\ \A j \in R \ {k} : Gives(cs[j], op, n) => cs[j].turn < cs[k].turn
  \/ held = fresh /\ \A k \in R : Gives(cs[k], op, n) => cs[k].answer = fresh

UpToDate(cs, R, op, n, fresh, held) ==
  \/ \E k \in R : Renews(cs[k], op) \/ Owes(cs[k], op, n)
  \/ Newest(cs, R, op, n, fresh, held)

\* A load for the page is one of its list.
About(c, op, pg, who) ==
  c.op = op /\ c.by = pg.inner => IF op = "keys" THEN c.as = who ELSE c.ws = pg.ws

ListFits(d, cs, R, who, pg, op) ==
  /\ \A k \in R : About(cs[k], op, pg, who)
  /\ UpToDate(cs, R, op, pg.inner, ListIn(d, op, pg.ws, who), HeldOn(pg, op))

ListsDue ==
  why = {} => \A op \in Lists : On(page, op) => ListFits(db, calls, DOMAIN calls, cookie, page, op)

\* A page that is opened with the load of its list.
LEMMA OpenedFits ==
  ASSUME NEW p, NEW cs, NEW R, \A k \in R : cs[k].by = p.inner => Opened(cs[k], p),
         NEW op \in Lists, \E k \in R : cs[k].op = op /\ Opened(cs[k], p), NEW d
  PROVE  ListFits(d, cs, R, cookie', p, op)
<1>1. \A k \in R : About(cs[k], op, p, cookie')
  BY DEF Opened, About
<1>2. PICK k \in R : cs[k].op = op /\ Opened(cs[k], p)
  OBVIOUS
<1>3. Owes(cs[k], op, p.inner)
  BY <1>2 DEF Opened, Owes, Lists
<1> QED BY <1>1, <1>3 DEF ListFits, UpToDate

LEMMA MovesLists ==
  ASSUME Base, NEW rest, NEW st, NEW pg, NEW asked, Moves(rest, st, pg, asked),
         ASSUME NEW op \in Lists, On(pg, op), why' = {}
         PROVE  /\ \A k \in rest : About(calls[k], op, pg, cookie')
                /\ \A c : asked = <<c>> => About(c, op, pg, cookie')
                /\ \/ \E c : asked = <<c>> /\ Owes(c, op, pg.inner)
                   \/ UpToDate(calls, rest, op, pg.inner, ListIn(db, op, pg.ws, cookie'),
                               HeldOn(pg, op))
  PROVE  ListsDue'
<1>1. PICK p, cs, R : p = page' /\ cs = calls' /\ R = DOMAIN calls'
  OBVIOUS
<1>2. db' = db
  BY DEF Moves
<1> SUFFICES ASSUME why' = {}, NEW op \in Lists, On(p, op)
             PROVE  ListFits(db, cs, R, cookie', p, op)
  BY <1>1, <1>2 DEF ListsDue
<1>3. Goes(pg, p, cs, R, rest, asked) /\ Remains(pg, p, cs, R \ rest)
  BY <1>1, MovesMakes
<1>4. /\ Sent \in Nat /\ \A k \in DOMAIN calls : calls[k].by \in Nat /\ calls[k].by <= Sent
  BY SentIsLargest DEF Base, PagesInv, Numbered, IsCall
<1>5. pg.inner \in Nat /\ pg.inner <= Sent /\ rest \subseteq DOMAIN calls
  BY DEF Moves, Ready, IsPage
<1>6. \A c : asked = <<c>> => c.state = "sent" /\ c.by \in Nat /\ c.by <= Sent
  BY MovesAsk DEF Moves, Asked, IsCall
<1>7. rest \subseteq R /\ \A k \in rest : cs[k] = calls[k]
  BY <1>3 DEF Goes
<1>8. ASSUME NEW k \in R \ rest
      PROVE  asked = <<cs[k]>> \/ Opened(cs[k], p)
  BY <1>3 DEF Goes
<1>9. CASE p.inner > Sent /\ \E j \in R : cs[j].op = op /\ Opened(cs[j], p)
  <2>1. ASSUME NEW k \in R, cs[k].by = p.inner PROVE Opened(cs[k], p)
    <3>1. CASE k \in rest
      <4>1. cs[k].by \in Nat /\ cs[k].by <= Sent
        BY <1>4, <1>5, <1>7, <3>1
      <4> QED BY <1>4, <1>9, <2>1, <4>1
    <3>2. CASE asked = <<cs[k]>>
      <4>1. cs[k].by \in Nat /\ cs[k].by <= Sent
        BY <1>6, <3>2
      <4> QED BY <1>4, <1>9, <2>1, <4>1
    <3> QED BY <1>8, <3>1, <3>2
  <2> QED BY <1>9, <2>1, OpenedFits
<1>10. CASE /\ p.inner = pg.inner /\ p.at = pg.at /\ p.ws = pg.ws
            /\ p.members = pg.members /\ p.invites = pg.invites /\ p.keys = pg.keys
  <2>1. On(pg, op)
    BY <1>10 DEF On
  <2>2. /\ \A k \in rest : About(calls[k], op, pg, cookie')
        /\ \A c : asked = <<c>> => About(c, op, pg, cookie')
        /\ \/ \E c : asked = <<c>> /\ Owes(c, op, pg.inner)
           \/ UpToDate(calls, rest, op, pg.inner, ListIn(db, op, pg.ws, cookie'), HeldOn(pg, op))
    BY <2>1
  <2>3. \A c : About(c, op, pg, cookie') => About(c, op, p, cookie')
    BY <1>10 DEF About
  <2>4. ASSUME NEW k \in R PROVE About(cs[k], op, p, cookie')
    <3>1. CASE k \in rest
      BY <1>7, <2>2, <2>3, <3>1
    <3>2. CASE asked = <<cs[k]>>
      BY <2>2, <2>3, <3>2
    <3>3. CASE Opened(cs[k], p)
      BY <3>3 DEF Opened, About
    <3> QED BY <1>8, <3>1, <3>2, <3>3
  <2>5. PICK fresh, held : fresh = ListIn(db, op, p.ws, cookie') /\ held = HeldOn(p, op)
    OBVIOUS
  <2>6. fresh = ListIn(db, op, pg.ws, cookie') /\ held = HeldOn(pg, op)
    BY <1>10, <2>5 DEF HeldOn
  <2>7. \A k \in R \ rest : cs[k].state = "sent"
    BY <1>6, <1>8 DEF Opened
  <2>8. CASE \E c : asked = <<c>> /\ Owes(c, op, pg.inner)
    <3>1. PICK c : asked = <<c>> /\ Owes(c, op, pg.inner)
      BY <2>8
    <3>2. \E j \in R : cs[j] = c
      BY <1>3, <3>1 DEF Goes
    <3> QED BY <1>10, <2>4, <3>1, <3>2 DEF ListFits, UpToDate
  <2>9. CASE UpToDate(calls, rest, op, pg.inner, fresh, held)
    <3>1. CASE \E k \in rest : Renews(calls[k], op) \/ Owes(calls[k], op, pg.inner)
      BY <1>7, <1>10, <2>4, <3>1 DEF ListFits, UpToDate
    <3>2. CASE Newest(calls, rest, op, pg.inner, fresh, held)
      <4>1. \A k \in R : Gives(cs[k], op, p.inner) =>
              k \in rest /\ cs[k] = calls[k] /\ Gives(calls[k], op, pg.inner)
        BY <1>7, <1>10, <2>7 DEF Gives
      <4>2. Newest(cs, R, op, p.inner, fresh, held)
        <5>1. CASE held = fresh /\ \A k \in rest : Gives(calls[k], op, pg.inner) => calls[k].answer = fresh
          BY <4>1, <5>1 DEF Newest
        <5>2. CASE \E k \in rest :
                     /\ Gives(calls[k], op, pg.inner) /\ calls[k].answer = fresh
                     /\ \A j \in rest \ {k} : Gives(calls[j], op, pg.inner) => calls[j].turn < calls[k].turn
          BY <1>7, <1>10, <4>1, <5>2 DEF Newest
        <5> QED BY <3>2, <5>1, <5>2 DEF Newest
      <4> QED BY <2>4, <2>5, <4>2 DEF ListFits, UpToDate
    <3> QED BY <2>9, <3>1, <3>2 DEF UpToDate
  <2> QED BY <2>2, <2>6, <2>8, <2>9
<1>11. p.inner # 0 /\ p.at = (IF op = "keys" THEN "account" ELSE "settings")
  BY DEF On
<1>12. \/ /\ p.inner = pg.inner /\ p.at = pg.at /\ p.ws = pg.ws
          /\ p.members = pg.members /\ p.invites = pg.invites /\ p.keys = pg.keys
       \/ /\ p.inner > Sent
          /\ p.at = "settings" => \A o \in {"members", "invites"} :
               \E j \in R \ rest : cs[j].op = o /\ Opened(cs[j], p)
          /\ p.at = "account" => \E j \in R \ rest : cs[j].op = "keys" /\ Opened(cs[j], p)
  BY <1>3, <1>11 DEF Remains
<1> QED BY <1>9, <1>10, <1>11, <1>12 DEF Lists

\* An answer that is nothing to any list.
Passes(c) ==
  /\ ~Departs(c) /\ ~Joins(c) /\ c.op \notin Lists
  /\ \A op \in Lists : ~(c.op \in Changes[op] /\ c.state = "ok")

LEMMA KeepsLists ==
  ASSUME Base, ListsDue, NEW rest, NEW st, NEW pg, NEW asked, Moves(rest, st, pg, asked),
         \A c : asked = <<c>> => c.op \notin Lists,
         \A op \in Lists : On(pg, op) /\ why' = {} =>
           /\ \A k \in DOMAIN calls \ rest : Passes(calls[k])
           /\ cookie' = cookie /\ On(page, op) /\ pg.inner = page.inner
           /\ op # "keys" => pg.ws = page.ws
           /\ HeldOn(pg, op) = HeldOn(page, op)
  PROVE  ListsDue'
<1>1. ASSUME NEW op \in Lists, On(pg, op), why' = {}
      PROVE  /\ \A k \in rest : About(calls[k], op, pg, cookie')
             /\ \A c : asked = <<c>> => About(c, op, pg, cookie')
             /\ \/ \E c : asked = <<c>> /\ Owes(c, op, pg.inner)
                \/ UpToDate(calls, rest, op, pg.inner, ListIn(db, op, pg.ws, cookie'),
                            HeldOn(pg, op))
  <2>1. why = {} /\ rest \subseteq DOMAIN calls
    BY <1>1 DEF Moves
  <2>2. /\ cookie' = cookie /\ On(page, op) /\ pg.inner = page.inner
        /\ op # "keys" => pg.ws = page.ws
        /\ HeldOn(pg, op) = HeldOn(page, op)
    BY <1>1
  <2>3. PICK fresh, held : fresh = ListIn(db, op, page.ws, cookie) /\ held = HeldOn(page, op)
    OBVIOUS
  <2>4. /\ \A k \in DOMAIN calls : About(calls[k], op, page, cookie)
        /\ UpToDate(calls, DOMAIN calls, op, page.inner, fresh, held)
    BY <2>1, <2>2, <2>3 DEF ListsDue, ListFits
  <2>5. \A k \in rest : About(calls[k], op, pg, cookie')
    BY <2>1, <2>2, <2>4 DEF About
  <2>6. \A c : asked = <<c>> => About(c, op, pg, cookie')
    BY DEF About
  <2>7. \A k \in DOMAIN calls \ rest : /\ ~Renews(calls[k], op) /\ ~Owes(calls[k], op, page.inner)
                                       /\ ~Gives(calls[k], op, page.inner)
    BY <1>1 DEF Passes, Renews, Owes, Gives
  <2>8. UpToDate(calls, rest, op, page.inner, fresh, held)
    <3>1. CASE \E k \in DOMAIN calls : Renews(calls[k], op) \/ Owes(calls[k], op, page.inner)
      BY <2>7, <3>1 DEF UpToDate
    <3>2. CASE Newest(calls, DOMAIN calls, op, page.inner, fresh, held)
      BY <2>1, <2>7, <3>2 DEF UpToDate, Newest
    <3> QED BY <2>4, <3>1, <3>2 DEF UpToDate
  <2>9. fresh = ListIn(db, op, pg.ws, cookie')
    BY <2>2, <2>3 DEF ListIn, Lists
  <2> QED BY <2>2, <2>3, <2>5, <2>6, <2>8, <2>9
<1> QED BY <1>1, MovesLists

LEMMA LoadLists ==
  ASSUME Base, Base',
         \/ \E to \in Typed : TypeAddress(to)
         \/ \E k \in DOMAIN calls : DepartureAnswered(k) /\ Ok(k)
         \/ \E k \in DOMAIN calls : CheckoutAnswered(k) /\ Ok(k)
  PROVE  ListsDue'
<1>1. PICK p, cs, R, d : p = page' /\ cs = calls' /\ R = DOMAIN calls' /\ d = db'
  OBVIOUS
<1> SUFFICES ASSUME why' = {}, NEW op \in Lists, On(p, op)
             PROVE  ListFits(d, cs, R, cookie', p, op)
  BY <1>1 DEF ListsDue
<1>2. ~p.loaded
  BY <1>1, LoadMakes
<1>3. Placed(p)
  BY <1>1 DEF Base
<1> QED BY <1>2, <1>3 DEF Placed, On, Inside, Within

LEMMA InitLists == Init => ListsDue
<1> SUFFICES ASSUME Init, NEW op \in Lists, On(page, op) PROVE FALSE
  BY DEF ListsDue
<1>1. ~page.loaded /\ Placed(page)
  BY InitMakes, InitBase DEF Base
<1> QED BY <1>1 DEF Placed, On, Inside, Within

\* The page goes on, or gives up what it has mounted.
Still(pg) ==
  /\ pg.index \in {0, page.index} /\ pg.wsp \in {0, page.wsp}
  /\ pg.inner = 0 => pg.keys = {}
  /\ pg.inner # 0 => /\ pg.inner = page.inner /\ pg.at = page.at
                     /\ pg.members = page.members /\ pg.invites = page.invites
                     /\ pg.keys = page.keys

LEMMA StillTold ==
  ASSUME Base, page.inner = 0 => page.keys = {}, NEW pg,
         \/ pg = page
         \/ pg = [page EXCEPT !.loaded = TRUE]
         \/ pg = [page EXCEPT !.ready = TRUE]
         \/ \E b : pg = [page EXCEPT !.shown = b]
         \/ \E x : pg = [page EXCEPT !.key = x]
         \/ \E x : pg = [page EXCEPT !.said = x]
  PROVE  Still(pg) /\ pg.ws = page.ws /\ pg.at = page.at
<1>1. IsPage(page)
  BY DEF Base, PagesInv
<1>2. /\ pg.index = page.index /\ pg.wsp = page.wsp /\ pg.inner = page.inner /\ pg.at = page.at
      /\ pg.ws = page.ws /\ pg.members = page.members /\ pg.invites = page.invites
      /\ pg.keys = page.keys
  BY <1>1 DEF IsPage
<1> QED BY <1>2 DEF Still

LEMMA StillGoing ==
  ASSUME Base, page.inner = 0 => page.keys = {}, NEW at, NEW w, NEW x,
         NEW pg, pg = Going(page, at, w, x)
  PROVE  Still(pg) /\ pg.at = at
<1>1. IsPage(page) /\ Nested(page) /\ Placed(page)
  BY DEF Base, PagesInv
<1>2. Kept(page, pg) /\ pg.at = at
  BY <1>1, GoingPlaced
<1>3. pg.inner = 0 => pg.keys = {}
  BY <1>1, GoingBare
<1> QED BY <1>2, <1>3 DEF Still, Kept

LEMMA StillAway ==
  ASSUME NEW at, NEW w, NEW x, NEW pg, pg = Address(at, w, x)
  PROVE  Still(pg) /\ pg.at = at
BY DEF Still, Address

\* The answers but for the lists, the changes of lists, and those that load the document.
Plainly(k) ==
  \/ AppAnswered(k) \/ GetAppAnswered(k) \/ ProjectsAnswered(k) \/ ProjectAnswered(k)
  \/ LinkAnswered(k) \/ ProjectCreated(k) \/ WorkspaceCreated(k) \/ SessionAnswered(k)
  \/ LogOutAnswered(k) \/ Says(k) \/ InviteAnswered(k) \/ PlanAnswered(k)
  \/ DepartureAnswered(k) /\ ~Ok(k)
  \/ CheckoutAnswered(k) /\ ~Ok(k)

Plain(k, st, pg, asked) ==
  /\ Moves(DOMAIN calls \ {k}, st, pg, asked) /\ Still(pg)
  /\ \A c : asked = <<c>> => c.op = "getApp"
  /\ \/ pg.at \notin {"settings", "account"} \/ why' # {}
     \/ pg.ws = page.ws /\ cookie' = cookie /\ Passes(calls[k])

LEMMA PassesBy ==
  ASSUME NEW c, \/ c.op \in {"app", "getApp", "projects", "project", "link", "getInvite",
                             "createProject", "createWorkspace", "login", "signup", "logout",
                             "changePlan", "checkout"}
                \/ c.op \in Said /\ c.op # "acceptInvite"
                \/ c.op \in Said \cup {"leave", "deleteWorkspace", "deleteAccount"} /\ c.state # "ok"
  PROVE  Passes(c)
<1>1. c.op \notin Lists
  BY DEF Lists, Said
<1>2. c.state # "ok" \/ c.op \notin {"leave", "deleteWorkspace", "deleteAccount", "acceptInvite"}
  BY DEF Said
<1>3. c.state # "ok" \/ c.op \notin {"level", "removeMember", "invite", "cancelInvite",
                                     "createKey", "revokeKey"}
  BY DEF Said
<1>4. \A op \in Lists : Changes[op] \subseteq {"level", "removeMember", "invite", "cancelInvite",
                                               "createKey", "revokeKey"}
  BY DEF Lists, Changes
<1> QED BY <1>1, <1>2, <1>3, <1>4 DEF Passes, Departs, Joins

\* Who joins by an invite is shown the page of the invite, if he is still there.
LEMMA JoinedAt ==
  ASSUME Base, NEW k \in DOMAIN calls, Says(k), calls[k].op = "acceptInvite", Ok(k), why' = {}
  PROVE  page.at = "invite"
<1>1. page.inner = calls[k].by
  BY SaysMoves
<1>2. MadeBy(page, calls[k])
  BY DEF Base
<1>3. "acceptInvite" \in DOMAIN AtOf /\ AtOf["acceptInvite"] = {"invite"}
  BY DEF AtOf
<1> QED BY <1>1, <1>2, <1>3 DEF MadeBy

LEMMA PlainMoves ==
  ASSUME Base, page.inner = 0 => page.keys = {}, NEW k \in DOMAIN calls, Plainly(k)
  PROVE  \E st, pg, asked : Plain(k, st, pg, asked)
<1>0. \A c : <<>> # <<c>>
  OBVIOUS
<1>1. CASE AppAnswered(k)
  <2>1. cookie' = cookie /\ Passes(calls[k])
    BY <1>1, AppMoves, PassesBy
  <2>2. PICK st, pg : /\ Moves(DOMAIN calls \ {k}, st, pg, <<>>)
                      /\ \/ pg = page \/ pg = [page EXCEPT !.loaded = TRUE]
                         \/ pg = Address("login", None, None)
    BY <1>1, AppMoves
  <2>3. Still(pg) /\ (pg.at = "login" \/ pg.ws = page.ws)
    BY <2>2, StillTold, StillAway
  <2> QED BY <1>0, <2>1, <2>2, <2>3 DEF Plain
<1>2. CASE GetAppAnswered(k)
  <2>1. cookie' = cookie /\ Passes(calls[k])
    BY <1>2, GetAppMoves, PassesBy
  <2>2. PICK st : Moves(DOMAIN calls \ {k}, st, page, <<>>)
    BY <1>2, GetAppMoves
  <2>3. Still(page)
    BY StillTold
  <2> QED BY <1>0, <2>1, <2>2, <2>3 DEF Plain
<1>3. CASE ProjectsAnswered(k)
  <2>1. cookie' = cookie /\ Passes(calls[k])
    BY <1>3, ProjectsMoves, PassesBy
  <2>2. PICK st, pg : /\ Moves(DOMAIN calls \ {k}, st, pg, <<>>)
                      /\ pg = page \/ pg = [page EXCEPT !.ready = TRUE]
    BY <1>3, ProjectsMoves
  <2>3. Still(pg) /\ pg.ws = page.ws
    BY <2>2, StillTold
  <2> QED BY <1>0, <2>1, <2>2, <2>3 DEF Plain
<1>4. CASE ProjectAnswered(k)
  <2>1. cookie' = cookie /\ Passes(calls[k])
    BY <1>4, ProjectMoves, PassesBy
  <2>2. PICK st, pg : /\ Moves(DOMAIN calls \ {k}, st, pg, <<>>)
                      /\ pg = page \/ pg = [page EXCEPT !.shown = TRUE]
    BY <1>4, ProjectMoves
  <2>3. Still(pg) /\ pg.ws = page.ws
    BY <2>2, StillTold
  <2> QED BY <1>0, <2>1, <2>2, <2>3 DEF Plain
<1>5. CASE LinkAnswered(k)
  <2>1. cookie' = cookie /\ Passes(calls[k])
    BY <1>5, LinkMoves, PassesBy
  <2>2. PICK st, pg : /\ Moves(DOMAIN calls \ {k}, st, pg, <<>>)
                      /\ pg = page \/ pg = [page EXCEPT !.shown = Ok(k)]
    BY <1>5, LinkMoves
  <2>3. Still(pg) /\ pg.ws = page.ws
    BY <2>2, StillTold
  <2> QED BY <1>0, <2>1, <2>2, <2>3 DEF Plain
<1>6. CASE ProjectCreated(k)
  <2>1. cookie' = cookie /\ Passes(calls[k])
    BY <1>6, ProjectCreatedMoves, PassesBy
  <2>2. PICK st : Moves(DOMAIN calls \ {k}, st, page, <<>>)
    BY <1>6, ProjectCreatedMoves
  <2>3. Still(page)
    BY StillTold
  <2> QED BY <1>0, <2>1, <2>2, <2>3 DEF Plain
<1>7. CASE WorkspaceCreated(k)
  <2>1. cookie' = cookie /\ Passes(calls[k])
    BY <1>7, WorkspaceCreatedMoves, PassesBy
  <2>2. PICK asked : /\ Moves(DOMAIN calls \ {k}, store, page, asked)
                     /\ asked = <<>> \/ asked = <<Call("getApp", None, None, 0)>>
    BY <1>7, WorkspaceCreatedMoves
  <2>3. Still(page)
    BY StillTold
  <2>4. Call("getApp", None, None, 0).op = "getApp"
    BY CallIs
  <2>5. \A c : asked = <<c>> => c.op = "getApp"
    BY <1>0, <2>2, <2>4
  <2> QED BY <2>1, <2>2, <2>3, <2>5 DEF Plain
<1>8. CASE SessionAnswered(k)
  <2>1. Passes(calls[k]) /\ (~Ok(k) => cookie' = cookie)
    BY <1>8, SessionMoves, PassesBy
  <2>2. PICK pg : /\ Moves(DOMAIN calls \ {k}, store, pg, <<>>)
                  /\ pg = IF Ok(k) THEN Going(page, "index", None, None) ELSE page
    BY <1>8, SessionMoves
  <2>3. Still(pg) /\ (Ok(k) => pg.at = "index") /\ (~Ok(k) => pg.ws = page.ws)
    BY <2>2, StillTold, StillGoing
  <2> QED BY <1>0, <2>1, <2>2, <2>3 DEF Plain
<1>9. CASE LogOutAnswered(k)
  <2>1. Passes(calls[k]) /\ (~Ok(k) => cookie' = cookie)
    BY <1>9, LogOutMoves, PassesBy
  <2>2. PICK st, pg : /\ Moves(DOMAIN calls \ {k}, st, pg, <<>>)
                      /\ pg = IF Ok(k) THEN Going(page, "index", None, None) ELSE page
    BY <1>9, LogOutMoves
  <2>3. Still(pg) /\ (Ok(k) => pg.at = "index") /\ (~Ok(k) => pg.ws = page.ws)
    BY <2>2, StillTold, StillGoing
  <2> QED BY <1>0, <2>1, <2>2, <2>3 DEF Plain
<1>10. CASE Says(k)
  <2>1. cookie' = cookie /\ calls[k].op \in Said
    BY <1>10, SaysMoves
  <2>2. PICK pg : /\ Moves(DOMAIN calls \ {k}, store, pg, <<>>)
                  /\ pg = page \/ pg = [page EXCEPT !.said = calls[k].state]
    BY <1>10, SaysMoves
  <2>3. Still(pg) /\ pg.ws = page.ws /\ pg.at = page.at
    BY <2>2, StillTold
  <2>4. Passes(calls[k]) \/ (calls[k].op = "acceptInvite" /\ Ok(k))
    BY <2>1, PassesBy DEF Ok
  <2>5. Passes(calls[k]) \/ why' # {} \/ page.at = "invite"
    BY <1>10, <2>4, JoinedAt
  <2> QED BY <1>0, <2>1, <2>2, <2>3, <2>5 DEF Plain
<1>11. CASE InviteAnswered(k)
  <2>1. cookie' = cookie /\ Passes(calls[k])
    BY <1>11, InviteMoves, PassesBy
  <2>2. PICK pg : /\ Moves(DOMAIN calls \ {k}, store, pg, <<>>)
                  /\ pg = page \/ pg = [page EXCEPT !.shown = Ok(k)]
    BY <1>11, InviteMoves
  <2>3. Still(pg) /\ pg.ws = page.ws
    BY <2>2, StillTold
  <2> QED BY <1>0, <2>1, <2>2, <2>3 DEF Plain
<1>12. CASE \/ PlanAnswered(k)
            \/ DepartureAnswered(k) /\ ~Ok(k)
            \/ CheckoutAnswered(k) /\ ~Ok(k)
  <2>1. cookie' = cookie /\ Passes(calls[k])
    BY <1>12, RefusalMoves, PassesBy DEF Ok
  <2>2. PICK pg : /\ Moves(DOMAIN calls \ {k}, store, pg, <<>>)
                  /\ pg = page \/ \E at \in {"success", "cancel"} : pg = Address(at, None, None)
    BY <1>12, RefusalMoves
  <2>3. Still(pg) /\ (pg.at \in {"success", "cancel"} \/ pg.ws = page.ws)
    BY <2>2, StillTold, StillAway
  <2> QED BY <1>0, <2>1, <2>2, <2>3 DEF Plain
<1> QED BY <1>1, <1>2, <1>3, <1>4, <1>5, <1>6, <1>7, <1>8, <1>9, <1>10, <1>11, <1>12 DEF Plainly

LEMMA StillMarks ==
  ASSUME Base, Base', Marks, "reload" \notin why,
         NEW rest, NEW st, NEW pg, NEW asked, Moves(rest, st, pg, asked),
         pg.index \in {0, page.index}, pg.wsp \in {0, page.wsp}, pg.inner = 0 => pg.keys = {},
         \A c : asked = <<c>> => Marked(page, c)
  PROVE  Marks'
<1>1. \A c : Marked(page, c) => Marked(pg, c)
  BY DEF Marked
<1>2. \A k \in rest : Marked(page, calls[k])
  BY DEF Marks, Moves
<1> QED BY <1>1, <1>2, MovesMarks

LEMMA FormMarks ==
  ASSUME Base, Base', Marks, "reload" \notin why,
         NEW op, NEW w, NEW x, Ask(op, w, x), Sends(op, w, x)
  PROVE  Marks'
<1>1. PICK c : c = Call(op, w, x, page.inner)
  OBVIOUS
<1>2. Moves(DOMAIN calls, store, page, <<c>>) /\ c.op = op /\ c.by = page.inner
  BY <1>1, FormMoves
<1>3. Settled(page) /\ Placed(page) /\ Nested(page)
  BY DEF Marks, Base, PagesInv
<1>4. op \in DOMAIN AtOf => page.inner # 0
  <2>1. CASE op = "createKey"
    <3>1. op \in DOMAIN AtOf /\ AtOf[op] = {"account"}
      BY <2>1 DEF AtOf
    <3>2. page.at = "account" /\ page.loaded
      BY <2>1, <3>1 DEF Sends, Logged
    <3> QED BY <1>3, <3>2 DEF Settled
  <2>2. CASE op = "revokeKey"
    BY <1>3, <2>2 DEF Sends, Settled
  <2>3. CASE op \in {"level", "removeMember", "invite", "cancelInvite", "resend", "acceptInvite"}
    BY <2>3 DEF Sends
  <2>4. op \in DOMAIN AtOf /\ op \in Forms =>
          op \in {"level", "removeMember", "invite", "cancelInvite", "resend", "acceptInvite",
                  "createKey", "revokeKey"}
    BY DEF AtOf, Forms
  <2>5. op \in Forms
    BY DEF Sends
  <2> QED BY <2>1, <2>2, <2>3, <2>4, <2>5
<1>5. Marked(page, c)
  BY <1>2, <1>3, <1>4 DEF Marked, Placed
<1>6. \A d : <<c>> = <<d>> => d = c
  OBVIOUS
<1>7. page.inner = 0 => page.keys = {}
  BY <1>3 DEF Settled
<1> QED BY <1>2, <1>5, <1>6, <1>7, StillMarks

LEMMA PlainMarks ==
  ASSUME Base, Base', Marks, "reload" \notin why, NEW k \in DOMAIN calls, Plainly(k)
  PROVE  Marks'
<1>1. page.inner = 0 => page.keys = {}
  BY DEF Marks, Settled
<1>2. PICK st, pg, asked : Plain(k, st, pg, asked)
  BY <1>1, PlainMoves
<1>3. \A c : asked = <<c>> => Marked(page, c)
  BY <1>2 DEF Plain, Marked, AtOf
<1> QED BY <1>2, <1>3, StillMarks DEF Plain, Still

LEMMA ListMarks ==
  ASSUME Base, Base', Marks, "reload" \notin why, NEW k \in DOMAIN calls, ListAnswered(k)
  PROVE  Marks'
<1>1. IsPage(page) /\ Settled(page) /\ Marked(page, calls[k])
  BY DEF Marks, Base, PagesInv
<1>2. PICK pg : /\ Moves(DOMAIN calls \ {k}, store, pg, <<>>)
                /\ \/ page.inner = calls[k].by /\ pg = Listed(k, page)
                   \/ pg = page
  BY ListMoves
<1>3. calls[k].op \in {"members", "invites", "keys"}
  BY ListMoves
<1>4. page.inner = calls[k].by => page.inner # 0
  BY <1>1, <1>3 DEF Marked, AtOf
<1>5. \/ pg = page
      \/ /\ page.inner # 0 /\ pg.index = page.index /\ pg.wsp = page.wsp
         /\ pg.inner = page.inner
  <2>1. CASE pg = Listed(k, page) /\ calls[k].op = "members" /\ page.inner = calls[k].by
    BY <1>1, <1>4, <2>1 DEF Listed, IsPage
  <2>2. CASE pg = Listed(k, page) /\ calls[k].op = "invites" /\ page.inner = calls[k].by
    BY <1>1, <1>4, <2>2 DEF Listed, IsPage
  <2>3. CASE pg = Listed(k, page) /\ calls[k].op = "keys" /\ page.inner = calls[k].by
    BY <1>1, <1>4, <2>3 DEF Listed, IsPage
  <2> QED BY <1>2, <1>3, <2>1, <2>2, <2>3
<1>6. pg.index \in {0, page.index} /\ pg.wsp \in {0, page.wsp} /\ (pg.inner = 0 => pg.keys = {})
  BY <1>1, <1>5 DEF Settled
<1>7. \A c : <<>> # <<c>>
  OBVIOUS
<1> QED BY <1>2, <1>6, <1>7, StillMarks

\* The reload after a change is for the page that asked for the change.
LEMMA ChangeMarks ==
  ASSUME Base, Base', Marks, "reload" \notin why, NEW k \in DOMAIN calls,
         SettingAnswered(k) \/ KeyAnswered(k)
  PROVE  Marks'
<1>1. /\ page.inner = 0 => page.keys = {}
      /\ Marked(page, calls[k])
  BY DEF Marks, Settled
<1>2. calls[k].op \in {"level", "removeMember", "invite", "cancelInvite", "resend",
                       "createKey", "revokeKey"}
  BY SettingMoves, KeyMoves DEF Reloads
<1>3. calls[k].by # 0 /\ calls[k].by # page.index /\ calls[k].by # page.wsp
  BY <1>1, <1>2 DEF Marked, AtOf
<1>4. PICK pg, asked :
        /\ Moves(DOMAIN calls \ {k}, store, pg, asked)
        /\ pg = page \/ pg = [page EXCEPT !.key = calls[k].answer]
        /\ asked = <<>> \/ \E op, w : asked = <<Call(op, w, None, calls[k].by)>>
  <2>1. CASE SettingAnswered(k)
    <3>1. PICK asked :
            /\ Moves(DOMAIN calls \ {k}, store, page, asked)
            /\ asked = IF Ok(k)
                       THEN <<Call(Reloads[calls[k].op],
                                   IF page.inner = calls[k].by THEN page.ws ELSE calls[k].ws,
                                   None, calls[k].by)>>
                       ELSE <<>>
      BY <2>1, SettingMoves
    <3>2. asked = <<>> \/ \E op, w : asked = <<Call(op, w, None, calls[k].by)>>
      BY <3>1
    <3> QED BY <3>1, <3>2
  <2>2. CASE KeyAnswered(k)
    <3>1. PICK pg, asked :
            /\ Moves(DOMAIN calls \ {k}, store, pg, asked)
            /\ pg = page \/ pg = [page EXCEPT !.key = calls[k].answer]
            /\ asked = IF Ok(k) THEN <<Call("keys", None, None, calls[k].by)>> ELSE <<>>
      BY <2>2, KeyMoves
    <3>2. asked = <<>> \/ \E op, w : asked = <<Call(op, w, None, calls[k].by)>>
      BY <3>1
    <3> QED BY <3>1, <3>2
  <2> QED BY <2>1, <2>2
<1>5. \A op, w, b : Call(op, w, None, b).by = b
  BY CallIs
<1>6. \A c : <<>> # <<c>>
  OBVIOUS
<1>7. \A c : asked = <<c>> => c.by = calls[k].by
  BY <1>4, <1>5, <1>6
<1>8. \A c : asked = <<c>> => Marked(page, c)
  BY <1>3, <1>7 DEF Marked
<1>9. Still(pg)
  BY <1>1, <1>4, StillTold
<1> QED BY <1>4, <1>8, <1>9, StillMarks DEF Still

LEMMA NextMarks == Base /\ Marks /\ [Next]_vars => Marks'
<1> SUFFICES ASSUME Base, Marks, [Next]_vars, "reload" \notin why' PROVE Marks'
  BY DEF Marks
<1>0. Base'
  BY NextBase
<1>1. CASE UNCHANGED vars
  BY <1>1 DEF vars, Marks
<1>2. CASE FormSent
  <2>1. PICK op, w, x : Ask(op, w, x) /\ Sends(op, w, x)
    BY <1>2, FormSends
  <2>2. "reload" \notin why
    BY <2>1 DEF Ask
  <2> QED BY <1>0, <2>1, <2>2, FormMarks
<1>3. CASE \E to \in Links : Follow(to)
  <2>1. PICK to \in Links : Follow(to)
    BY <1>3
  <2>2. PICK pg : pg = Going(page, to.at, to.ws, to.arg)
    OBVIOUS
  <2>3. Moves(DOMAIN calls, store, pg, <<>>)
    BY <2>1, <2>2, FollowMoves
  <2>4. "reload" \notin why
    BY <2>3 DEF Moves
  <2>5. Still(pg)
    BY <2>2, <2>4, StillGoing DEF Marks, Settled
  <2>6. \A c : <<>> # <<c>>
    OBVIOUS
  <2> QED BY <1>0, <2>3, <2>4, <2>5, <2>6, StillMarks DEF Still
<1>4. CASE \E to \in Typed : TypeAddress(to)
  BY <1>0, <1>4, LoadMarks
<1>5. ASSUME NEW k \in DOMAIN calls, Serve(k) PROVE Marks'
  <2>1. page' = page /\ why' = why
    BY <1>5, ServeIs
  <2>2. PICK ok \in BOOLEAN : Serves(k, ok)
    BY <1>5, ServeIs
  <2>3. PICK cs, R : cs = calls' /\ R = DOMAIN calls'
    OBVIOUS
  <2>4. \A j \in R : j \in DOMAIN calls /\ cs[j].op = calls[j].op /\ cs[j].by = calls[j].by
    BY <2>2, <2>3 DEF Serves, After
  <2>5. \A j \in R : Marked(page, cs[j])
    BY <2>1, <2>4 DEF Marks, Marked
  <2> QED BY <2>1, <2>3, <2>5 DEF Marks
<1>6. ASSUME NEW k \in DOMAIN calls, Forget(k) PROVE Marks'
  <2>1. why' = why /\ ~calls[k].here
    BY <1>6 DEF Forget
  <2> QED BY <2>1 DEF Base, AllHere
<1>7. ASSUME NEW w \in Workspaces, RemovedElsewhere(w) PROVE Marks'
  <2>1. page' = page /\ calls' = calls /\ why \subseteq why'
    BY <1>7 DEF RemovedElsewhere
  <2> QED BY <2>1 DEF Marks
<1>8. ASSUME NEW k \in DOMAIN calls, AnswerArrives(k) PROVE Marks'
  <2>1. CASE (DepartureAnswered(k) \/ CheckoutAnswered(k)) /\ Ok(k)
    BY <1>0, <2>1, LoadMarks
  <2>2. CASE ListAnswered(k)
    <3>1. "reload" \notin why
      BY <2>2, ListMoves
    <3> QED BY <1>0, <2>2, <3>1, ListMarks
  <2>3. CASE SettingAnswered(k) \/ KeyAnswered(k)
    <3>1. "reload" \notin why
      BY <2>3, SettingMoves, KeyMoves
    <3> QED BY <1>0, <2>3, <3>1, ChangeMarks
  <2>4. CASE Plainly(k)
    <3>1. "reload" \notin why
      BY <2>4, AppMoves, GetAppMoves, ProjectsMoves, ProjectMoves, LinkMoves, ProjectCreatedMoves,
         WorkspaceCreatedMoves, SessionMoves, LogOutMoves, SaysMoves, InviteMoves, RefusalMoves
         DEF Plainly
    <3> QED BY <1>0, <2>4, <3>1, PlainMarks
  <2> QED BY <1>8, <2>1, <2>2, <2>3, <2>4 DEF AnswerArrives, Plainly
<1> QED BY <1>1, <1>2, <1>3, <1>4, <1>5, <1>6, <1>7, <1>8 DEF Next, Network, Moved

LEMMA FormLists ==
  ASSUME Base, ListsDue, NEW op, NEW w, NEW x, Ask(op, w, x), Sends(op, w, x)
  PROVE  ListsDue'
<1>1. PICK c : c = Call(op, w, x, page.inner)
  OBVIOUS
<1>2. Moves(DOMAIN calls, store, page, <<c>>) /\ c.op = op /\ cookie' = cookie
  BY <1>1, FormMoves
<1>3. op \notin Lists
  BY DEF Sends, Forms, Lists
<1>4. \A d : <<c>> = <<d>> => d = c
  OBVIOUS
<1> QED BY <1>2, <1>3, <1>4, KeepsLists

LEMMA FollowLists ==
  ASSUME Base, Marks, ListsDue, NEW to, Follow(to)
  PROVE  ListsDue'
<1> SUFFICES ASSUME why' = {} PROVE ListsDue'
  BY DEF ListsDue
<1>1. PICK pg : pg = Going(page, to.at, to.ws, to.arg)
  OBVIOUS
<1>2. Moves(DOMAIN calls, store, pg, <<>>) /\ cookie' = cookie
  BY <1>1, FollowMoves
<1>3. why = {}
  BY <1>2 DEF Moves
<1>4. Still(pg)
  BY <1>1, <1>3, StillGoing DEF Marks, Settled
<1>5. pg.wsp # 0 => pg.ws = page.ws
  BY <1>1, FollowSame DEF Same
<1>6. Placed(pg)
  BY <1>2 DEF Moves, Ready
<1>7. ASSUME NEW op \in Lists, On(pg, op)
      PROVE  /\ On(page, op) /\ pg.inner = page.inner
             /\ op # "keys" => pg.ws = page.ws
             /\ HeldOn(pg, op) = HeldOn(page, op)
  <2>1. pg.inner # 0 /\ pg.at = (IF op = "keys" THEN "account" ELSE "settings")
    BY <1>7 DEF On
  <2>2. op # "keys" => pg.wsp # 0
    BY <1>6, <2>1 DEF Placed, Within
  <2>3. On(page, op) /\ HeldOn(pg, op) = HeldOn(page, op)
    BY <1>4, <2>1 DEF Still, On, HeldOn
  <2> QED BY <1>4, <1>5, <2>1, <2>2, <2>3 DEF Still
<1>8. \A c : <<>> # <<c>>
  OBVIOUS
<1> QED BY <1>2, <1>7, <1>8, KeepsLists

LEMMA PlainLists ==
  ASSUME Base, Marks, ListsDue, NEW k \in DOMAIN calls, Plainly(k), why = {}
  PROVE  ListsDue'
<1>1. page.inner = 0 => page.keys = {}
  BY DEF Marks, Settled
<1>2. PICK st, pg, asked : Plain(k, st, pg, asked)
  BY <1>1, PlainMoves
<1>3. Moves(DOMAIN calls \ {k}, st, pg, asked) /\ Still(pg)
  BY <1>2 DEF Plain
<1>4. \A c : asked = <<c>> => c.op \notin Lists
  BY <1>2 DEF Plain, Lists
<1>5. ASSUME NEW op \in Lists, On(pg, op), why' = {}
      PROVE  /\ Passes(calls[k]) /\ cookie' = cookie /\ On(page, op) /\ pg.inner = page.inner
             /\ op # "keys" => pg.ws = page.ws
             /\ HeldOn(pg, op) = HeldOn(page, op)
  <2>1. pg.inner # 0 /\ pg.at = (IF op = "keys" THEN "account" ELSE "settings")
    BY <1>5 DEF On
  <2>2. pg.ws = page.ws /\ cookie' = cookie /\ Passes(calls[k])
    BY <1>2, <1>5, <2>1 DEF Plain
  <2>3. On(page, op) /\ HeldOn(pg, op) = HeldOn(page, op)
    BY <1>3, <2>1 DEF Still, On, HeldOn
  <2> QED BY <1>3, <2>1, <2>2, <2>3 DEF Still
<1> QED BY <1>3, <1>4, <1>5, KeepsLists

\* A list is shown as the newest of the loads that have been served brings it.
LEMMA NewestShown ==
  ASSUME Base, NEW k \in DOMAIN calls, NEW op \in Lists, NEW n, Gives(calls[k], op, n),
         "overtaken" \notin Amiss(k), NEW fresh, NEW held,
         UpToDate(calls, DOMAIN calls, op, n, fresh, held)
  PROVE  UpToDate(calls, DOMAIN calls \ {k}, op, n, fresh, calls[k].answer)
<1>1. ASSUME NEW j \in DOMAIN calls \ {k}, Gives(calls[j], op, n)
      PROVE  ~(calls[j].turn < calls[k].turn)
  <2>1. calls[j].op = calls[k].op /\ calls[j].op \in Loads /\ calls[j].state = "ok"
    BY <1>1 DEF Gives, Lists, Loads
  <2>2. Served(calls[j])
    BY DEF Base
  <2>3. calls[j].turn # 0
    BY <2>1, <2>2 DEF Served
  <2> QED BY <2>1, <2>3 DEF Amiss
<1>2. CASE \E j \in DOMAIN calls : Renews(calls[j], op) \/ Owes(calls[j], op, n)
  <2>1. ~Renews(calls[k], op) /\ ~Owes(calls[k], op, n)
    BY DEF Gives, Owes, Renews, Departs, Joins, Lists, Changes
  <2> QED BY <1>2, <2>1 DEF UpToDate
<1>3. CASE held = fresh /\ \A j \in DOMAIN calls : Gives(calls[j], op, n) => calls[j].answer = fresh
  BY <1>3 DEF UpToDate, Newest
<1>4. CASE \E b \in DOMAIN calls :
             /\ Gives(calls[b], op, n) /\ calls[b].answer = fresh
             /\ \A j \in DOMAIN calls \ {b} : Gives(calls[j], op, n) => calls[j].turn < calls[b].turn
  <2>1. PICK b \in DOMAIN calls :
             /\ Gives(calls[b], op, n) /\ calls[b].answer = fresh
             /\ \A j \in DOMAIN calls \ {b} : Gives(calls[j], op, n) => calls[j].turn < calls[b].turn
    BY <1>4
  <2>2. CASE b = k
    <3>1. \A j \in DOMAIN calls \ {k} : ~Gives(calls[j], op, n)
      BY <1>1, <2>1, <2>2
    <3> QED BY <2>1, <2>2, <3>1 DEF UpToDate, Newest
  <2>3. CASE b # k
    BY <2>1, <2>3 DEF UpToDate, Newest
  <2> QED BY <2>2, <2>3
<1> QED BY <1>2, <1>3, <1>4 DEF UpToDate, Newest

\* A call that is nothing to a list is not missed.
LEMMA NotNewest ==
  ASSUME NEW k \in DOMAIN calls, NEW op, NEW n, ~Renews(calls[k], op),
         calls[k].op # op \/ calls[k].by # n, NEW fresh, NEW held,
         UpToDate(calls, DOMAIN calls, op, n, fresh, held)
  PROVE  UpToDate(calls, DOMAIN calls \ {k}, op, n, fresh, held)
<1>1. ~Owes(calls[k], op, n) /\ ~Gives(calls[k], op, n)
  BY DEF Owes, Gives
<1>2. CASE \E j \in DOMAIN calls : Renews(calls[j], op) \/ Owes(calls[j], op, n)
  BY <1>1, <1>2 DEF UpToDate
<1>3. CASE Newest(calls, DOMAIN calls, op, n, fresh, held)
  BY <1>1, <1>3 DEF UpToDate, Newest
<1> QED BY <1>2, <1>3 DEF UpToDate

LEMMA ListLists ==
  ASSUME Base, ListsDue, NEW k \in DOMAIN calls, ListAnswered(k)
  PROVE  ListsDue'
<1> SUFFICES ASSUME why' = {} PROVE ListsDue'
  BY DEF ListsDue
<1>1. /\ cookie' = cookie /\ calls[k].op \in Lists /\ calls[k].state # "sent"
      /\ why' = why \cup (Amiss(k) \ {"late"})
  BY ListMoves DEF Lists
<1>2. why = {} /\ "overtaken" \notin Amiss(k) /\ "refused" \notin Amiss(k)
  BY <1>1
<1>3. Ok(k)
  BY <1>2 DEF Amiss
<1>4. PICK pg :
        /\ Moves(DOMAIN calls \ {k}, store, pg, <<>>)
        /\ \/ page.inner = calls[k].by /\ pg = Listed(k, page)
           \/ page.inner # calls[k].by /\ pg = page
  BY <1>3, ListMoves
<1>5. IsPage(page)
  BY DEF Base, PagesInv
<1>6. /\ pg.inner = page.inner /\ pg.at = page.at /\ pg.ws = page.ws
      /\ \A op \in Lists : HeldOn(pg, op) = IF page.inner = calls[k].by /\ calls[k].op = op
                                            THEN calls[k].answer ELSE HeldOn(page, op)
  <2>1. CASE pg = Listed(k, page) /\ calls[k].op = "members" /\ page.inner = calls[k].by
    BY <1>5, <2>1 DEF Listed, IsPage, HeldOn, Lists
  <2>2. CASE pg = Listed(k, page) /\ calls[k].op = "invites" /\ page.inner = calls[k].by
    BY <1>5, <2>2 DEF Listed, IsPage, HeldOn, Lists
  <2>3. CASE pg = Listed(k, page) /\ calls[k].op = "keys" /\ page.inner = calls[k].by
    BY <1>5, <2>3 DEF Listed, IsPage, HeldOn, Lists
  <2> QED BY <1>1, <1>4, <2>1, <2>2, <2>3 DEF Lists
<1>7. ASSUME NEW op \in Lists, On(pg, op)
      PROVE  /\ \A j \in DOMAIN calls \ {k} : About(calls[j], op, pg, cookie')
             /\ UpToDate(calls, DOMAIN calls \ {k}, op, pg.inner, ListIn(db, op, pg.ws, cookie'),
                         HeldOn(pg, op))
  <2>1. PICK fresh, held : fresh = ListIn(db, op, page.ws, cookie) /\ held = HeldOn(page, op)
    OBVIOUS
  <2>2. On(page, op)
    BY <1>6, <1>7 DEF On
  <2>3. /\ \A j \in DOMAIN calls : About(calls[j], op, page, cookie)
        /\ UpToDate(calls, DOMAIN calls, op, page.inner, fresh, held)
    BY <1>2, <2>1, <2>2 DEF ListsDue, ListFits
  <2>4. \A j \in DOMAIN calls \ {k} : About(calls[j], op, pg, cookie')
    BY <1>1, <1>6, <2>3 DEF About
  <2>5. fresh = ListIn(db, op, pg.ws, cookie')
    BY <1>1, <1>6, <2>1
  <2>6. CASE page.inner = calls[k].by /\ calls[k].op = op
    <3>1. Gives(calls[k], op, page.inner)
      BY <1>3, <2>6 DEF Gives, Ok
    <3>2. UpToDate(calls, DOMAIN calls \ {k}, op, page.inner, fresh, calls[k].answer)
      BY <1>2, <2>3, <3>1, NewestShown
    <3> QED BY <1>6, <2>4, <2>5, <2>6, <3>2
  <2>7. CASE ~(page.inner = calls[k].by /\ calls[k].op = op)
    <3>1. ~Renews(calls[k], op)
      BY <1>1 DEF Renews, Departs, Joins, Lists, Changes
    <3>2. UpToDate(calls, DOMAIN calls \ {k}, op, page.inner, fresh, held)
      BY <2>3, <2>7, <3>1, NotNewest
    <3>3. HeldOn(pg, op) = held
      BY <1>6, <2>1, <2>7
    <3> QED BY <1>6, <2>4, <2>5, <3>2, <3>3
  <2> QED BY <2>6, <2>7
<1>8. \A c : <<>> # <<c>>
  OBVIOUS
<1> QED BY <1>4, <1>7, <1>8, MovesLists

\* After a change of a list it is loaded again, for the page that it is on.
LEMMA ChangeLists ==
  ASSUME Base, Marks, ListsDue, NEW k \in DOMAIN calls, SettingAnswered(k) \/ KeyAnswered(k)
  PROVE  ListsDue'
<1> SUFFICES ASSUME why' = {} PROVE ListsDue'
  BY DEF ListsDue
<1>1. /\ cookie' = cookie
      /\ calls[k].op \in {"level", "removeMember", "invite", "cancelInvite", "resend",
                          "createKey", "revokeKey"}
      /\ why' = why \cup (Amiss(k) \cap {"late"})
  BY SettingMoves, KeyMoves DEF Reloads
<1>2. why = {} /\ "late" \notin Amiss(k) /\ IsPage(page)
  BY <1>1 DEF Base, PagesInv
<1>3. Marked(page, calls[k]) /\ (page.inner = 0 => page.keys = {})
  BY <1>2 DEF Marks, Settled
<1>4. page.inner = calls[k].by
  BY <1>1, <1>2, <1>3 DEF Amiss, Marked, AtOf
<1>5. PICK o : o \in Lists /\ (\A op \in Lists : calls[k].op \in Changes[op] => op = o)
               /\ (SettingAnswered(k) => o = Reloads[calls[k].op])
               /\ (KeyAnswered(k) => o = "keys")
  <2>1. CASE SettingAnswered(k)
    <3>1. calls[k].op \in DOMAIN Reloads /\ ~KeyAnswered(k)
      BY <2>1, SettingMoves, KeyMoves DEF Reloads
    <3>2. PICK o : o = Reloads[calls[k].op]
      OBVIOUS
    <3>3. o \in Lists /\ \A op \in Lists : calls[k].op \in Changes[op] => op = o
      BY <3>1, <3>2 DEF Reloads, Changes, Lists
    <3> QED BY <3>1, <3>2, <3>3
  <2>2. CASE KeyAnswered(k)
    <3>1. calls[k].op \in {"createKey", "revokeKey"} /\ ~SettingAnswered(k)
      BY <2>2, SettingMoves, KeyMoves DEF Reloads
    <3>2. \A op \in Lists : calls[k].op \in Changes[op] => op = "keys"
      BY <3>1 DEF Changes, Lists
    <3> QED BY <3>1, <3>2 DEF Lists
  <2> QED BY <2>1, <2>2
<1>6. PICK pg, asked :
        /\ Moves(DOMAIN calls \ {k}, store, pg, asked)
        /\ pg = page \/ pg = [page EXCEPT !.key = calls[k].answer]
        /\ asked = IF Ok(k) THEN <<Call(o, IF o = "keys" THEN None ELSE page.ws, None, page.inner)>>
                            ELSE <<>>
  <2>1. CASE SettingAnswered(k)
    <3>1. o # "keys"
      <4>1. calls[k].op \in DOMAIN Reloads
        BY <2>1, SettingMoves
      <4>2. PICK op : op = calls[k].op
        OBVIOUS
      <4>3. o = Reloads[op] /\ op \in DOMAIN Reloads
        BY <1>5, <2>1, <4>1, <4>2
      <4> QED BY <4>3 DEF Reloads
    <3>2. PICK asked :
            /\ Moves(DOMAIN calls \ {k}, store, page, asked)
            /\ asked = IF Ok(k)
                       THEN <<Call(Reloads[calls[k].op],
                                   IF page.inner = calls[k].by THEN page.ws ELSE calls[k].ws,
                                   None, calls[k].by)>>
                       ELSE <<>>
      BY <2>1, SettingMoves
    <3>3. o = Reloads[calls[k].op]
      BY <1>5, <2>1
    <3>4. asked = IF Ok(k) THEN <<Call(o, IF o = "keys" THEN None ELSE page.ws, None, page.inner)>>
                           ELSE <<>>
      BY <1>4, <3>1, <3>2, <3>3
    <3> QED BY <3>2, <3>4
  <2>2. CASE KeyAnswered(k)
    <3>1. PICK pg, asked :
            /\ Moves(DOMAIN calls \ {k}, store, pg, asked)
            /\ pg = page \/ pg = [page EXCEPT !.key = calls[k].answer]
            /\ asked = IF Ok(k) THEN <<Call("keys", None, None, calls[k].by)>> ELSE <<>>
      BY <2>2, KeyMoves
    <3>2. asked = IF Ok(k) THEN <<Call(o, IF o = "keys" THEN None ELSE page.ws, None, page.inner)>>
                           ELSE <<>>
      BY <1>4, <1>5, <2>2, <3>1
    <3> QED BY <3>1, <3>2
  <2> QED BY <2>1, <2>2
<1>7. /\ pg.inner = page.inner /\ pg.at = page.at /\ pg.ws = page.ws
      /\ \A op \in Lists : HeldOn(pg, op) = HeldOn(page, op)
  BY <1>2, <1>6 DEF IsPage, HeldOn
<1>8. PICK c : c = Call(o, IF o = "keys" THEN None ELSE page.ws, None, page.inner)
  OBVIOUS
<1>9. /\ c.op = o /\ c.as = cookie' /\ c.by = page.inner /\ c.state = "sent"
      /\ o # "keys" => c.ws = page.ws
  BY <1>8, CallIs
<1>10. asked = IF Ok(k) THEN <<c>> ELSE <<>>
  BY <1>6, <1>8
<1>11. \A e : asked = <<e>> => e = c
  <2>1. (\A e : <<>> # <<e>>) /\ (\A e : <<c>> = <<e>> => e = c)
    OBVIOUS
  <2> QED BY <1>10, <2>1
<1>12. ASSUME NEW op \in Lists, On(pg, op)
       PROVE  /\ \A j \in DOMAIN calls \ {k} : About(calls[j], op, pg, cookie')
              /\ \A e : asked = <<e>> => About(e, op, pg, cookie')
              /\ \/ \E e : asked = <<e>> /\ Owes(e, op, pg.inner)
                 \/ UpToDate(calls, DOMAIN calls \ {k}, op, pg.inner,
                             ListIn(db, op, pg.ws, cookie'), HeldOn(pg, op))
  <2>1. PICK fresh, held : fresh = ListIn(db, op, page.ws, cookie) /\ held = HeldOn(page, op)
    OBVIOUS
  <2>2. On(page, op)
    BY <1>7, <1>12 DEF On
  <2>3. /\ \A j \in DOMAIN calls : About(calls[j], op, page, cookie)
        /\ UpToDate(calls, DOMAIN calls, op, page.inner, fresh, held)
    BY <1>2, <2>1, <2>2 DEF ListsDue, ListFits
  <2>4. \A j \in DOMAIN calls \ {k} : About(calls[j], op, pg, cookie')
    BY <1>1, <1>7, <2>3 DEF About
  <2>5. \A e : asked = <<e>> => About(e, op, pg, cookie')
    BY <1>7, <1>9, <1>11 DEF About
  <2>6. CASE op = o /\ Ok(k)
    <3>1. Owes(c, op, pg.inner)
      BY <1>7, <1>9, <2>6 DEF Owes
    <3> QED BY <1>10, <2>4, <2>5, <2>6, <3>1
  <2>7. CASE op # o \/ ~Ok(k)
    <3>1. ~Renews(calls[k], op)
      BY <1>1, <1>5, <2>7 DEF Renews, Departs, Joins, Ok
    <3>2. calls[k].op # op
      BY <1>1 DEF Lists
    <3>3. UpToDate(calls, DOMAIN calls \ {k}, op, page.inner, fresh, held)
      BY <2>3, <3>1, <3>2, NotNewest
    <3>4. fresh = ListIn(db, op, pg.ws, cookie') /\ held = HeldOn(pg, op)
      BY <1>1, <1>7, <2>1
    <3> QED BY <1>7, <2>4, <2>5, <3>3, <3>4
  <2> QED BY <2>6, <2>7
<1> QED BY <1>6, <1>12, MovesLists

LEMMA MembersWith ==
  ASSUME NEW l, NEW a, NEW v, NEW y, NEW w, v # w, NEW g, g = With(l, <<a, v>>, y)
  PROVE  MembersIn(g, w) = MembersIn(l, w)
<1>1. PICK x : x = <<a, v>>
  OBVIOUS
<1>2. WithIs(l, g, x, y)
  BY <1>1, WithAdds
<1>3. x[2] # w
  BY <1>1
<1>4. \A n : n \in DOMAIN g /\ n[2] = w <=> n \in DOMAIN l /\ n[2] = w
  BY <1>2, <1>3 DEF WithIs
<1>5. \A n \in DOMAIN l : n[2] = w => g[n] = l[n]
  BY <1>2, <1>3 DEF WithIs
<1>6. {n \in DOMAIN g : n[2] = w} = {n \in DOMAIN l : n[2] = w}
  BY <1>4
<1> QED BY <1>5, <1>6 DEF MembersIn

\* What no change of a list is leaves it: a new workspace is not one in use.
LEMMA ListKept ==
  ASSUME TablesFit, NEW c, Allowed(c),
         c.op \notin {"leave", "deleteWorkspace", "deleteAccount", "acceptInvite"},
         NEW op \in Lists, c.op \notin Changes[op], NEW w, op = "members" => w \in Used, NEW who,
         NEW e, e = Effect(c)
  PROVE  ListIn(e, op, w, who) = ListIn(db, op, w, who)
<1>1. CASE op = "keys"
  <2>1. c.op \notin {"deleteAccount", "createKey", "revokeKey"}
    BY <1>1 DEF Changes
  <2>2. e.keys = db.keys
    BY <2>1, EffectIs
  <2> QED BY <1>1, <2>2 DEF ListIn
<1>2. CASE op = "invites"
  <2>1. c.op \notin {"acceptInvite", "deleteWorkspace", "invite", "cancelInvite"}
    BY <1>2 DEF Changes
  <2>2. e.invites = db.invites
    BY <2>1, EffectIs
  <2> QED BY <1>2, <2>2 DEF ListIn
<1>3. CASE op = "members"
  <2>1. c.op \notin {"level", "removeMember"}
    BY <1>3 DEF Changes
  <2>2. CASE c.op \in {"signup", "createWorkspace"}
    <3>1. c.ws # w
      BY <1>3, <2>2 DEF Allowed, Fits
    <3>2. \/ e.level = With(db.level, <<c.arg, c.ws>>, "OWNER")
          \/ e.level = With(db.level, <<c.as, c.ws>>, "OWNER")
      BY <2>2, EffectIs
    <3>3. MembersIn(e.level, w) = MembersIn(db.level, w)
      BY <3>1, <3>2, MembersWith
    <3> QED BY <1>3, <3>3 DEF ListIn
  <2>3. CASE c.op \notin {"signup", "createWorkspace"}
    <3>1. c.op \notin MemberOps
      BY <2>1, <2>3 DEF MemberOps
    <3>2. e.level = db.level
      BY <3>1, EffectIs
    <3> QED BY <1>3, <3>2 DEF ListIn
  <2> QED BY <2>2, <2>3
<1> QED BY <1>1, <1>2, <1>3 DEF Lists

LEMMA ServeLists ==
  ASSUME Base, There, ListsDue, NEW k \in DOMAIN calls, Serve(k)
  PROVE  ListsDue'
<1>1. /\ cookie' = cookie /\ page' = page /\ why' = why /\ calls[k].state = "sent"
  BY ServeIs
<1>2. PICK ok \in BOOLEAN : Serves(k, ok)
  BY ServeIs
<1>3. PICK c, cs, e, pg, R : c = calls[k] /\ cs = calls' /\ e = db' /\ pg = page /\ R = DOMAIN calls
  OBVIOUS
<1> SUFFICES ASSUME why = {}, NEW op \in Lists, On(pg, op)
             PROVE  ListFits(e, cs, DOMAIN calls', cookie, pg, op)
  BY <1>1, <1>3 DEF ListsDue
<1>4. calls[k].here
  BY DEF Base, AllHere
<1>5. PICK d : d = cs[k]
  OBVIOUS
<1>6. /\ After(c, d, ok) /\ \A j \in R \ {k} : cs[j] = calls[j]
      /\ ok => Allowed(c)
      /\ e = IF ok THEN Effect(c) ELSE db
      /\ DOMAIN calls' = R /\ k \in R /\ c.state = "sent"
  BY <1>1, <1>2, <1>3, <1>4, <1>5 DEF Serves
<1>7. d.op = c.op /\ d.as = c.as /\ d.ws = c.ws /\ d.by = c.by
      /\ d.state = IF ok THEN "ok" ELSE "refused"
  BY <1>6 DEF After
<1>8. PICK n, fresh, held, new :
        /\ n = pg.inner /\ fresh = ListIn(db, op, pg.ws, cookie) /\ held = HeldOn(pg, op)
        /\ new = ListIn(e, op, pg.ws, cookie)
  OBVIOUS
<1>9. /\ \A j \in R : About(calls[j], op, pg, cookie)
      /\ UpToDate(calls, R, op, n, fresh, held)
  BY <1>3, <1>8 DEF ListsDue, ListFits
<1>10. \A j \in R : About(cs[j], op, pg, cookie)
  <2>1. About(d, op, pg, cookie)
    BY <1>3, <1>6, <1>7, <1>9 DEF About
  <2> QED BY <1>5, <1>6, <1>9, <2>1
<1>11. SUFFICES UpToDate(cs, R, op, n, new, held)
  BY <1>6, <1>8, <1>10 DEF ListFits
<1>12. ~Renews(c, op) /\ ~Gives(c, op, n)
  BY <1>6 DEF Renews, Departs, Joins, Gives
<1>13. CASE Renews(d, op) \/ Owes(d, op, n)
  BY <1>5, <1>6, <1>13 DEF UpToDate
<1>14. CASE Gives(d, op, n)
  <2>1. c.op = op /\ c.by = n /\ ok
    BY <1>7, <1>14 DEF Gives
  <2>2. Effect(c) = db
    BY <2>1 DEF Lists, Effect
  <2>3. new = fresh
    BY <1>6, <1>8, <2>1, <2>2
  <2>4. About(c, op, pg, cookie)
    BY <1>3, <1>6, <1>9
  <2>5. d.answer = AnswerTo(c)
    BY <1>6, <2>1 DEF After
  <2>6. d.answer = fresh
    <3>1. CASE op = "members"
      BY <1>8, <2>1, <2>4, <2>5, <3>1 DEF About, AnswerTo, MembersOf, MembersIn, ListIn
    <3>2. CASE op = "invites"
      BY <1>8, <2>1, <2>4, <2>5, <3>2 DEF About, AnswerTo, InvitesOf, HomesIn, ListIn
    <3>3. CASE op = "keys"
      BY <1>8, <2>1, <2>4, <2>5, <3>3 DEF About, AnswerTo, KeysOf, HomesIn, ListIn
    <3> QED BY <3>1, <3>2, <3>3 DEF Lists
  <2>7. d.turn = Latest
    BY <1>6, <2>1 DEF After, Lists, Loads
  <2>8. \A j \in R \ {k} : cs[j].turn < d.turn
    BY <1>3, <1>6, <2>7, LatestIsLater
  <2> QED BY <1>5, <1>6, <1>14, <2>3, <2>6, <2>8 DEF UpToDate, Newest
<1>15. CASE ~Renews(d, op) /\ ~Owes(d, op, n) /\ ~Gives(d, op, n)
  <2>1. ~Owes(c, op, n)
    BY <1>7, <1>15 DEF Owes, Gives
  <2>2. CASE \E j \in R : Renews(calls[j], op) \/ Owes(calls[j], op, n)
    <3>1. PICK j \in R : Renews(calls[j], op) \/ Owes(calls[j], op, n)
      BY <2>2
    <3>2. j # k
      BY <1>3, <1>12, <2>1, <3>1
    <3> QED BY <1>6, <3>1, <3>2 DEF UpToDate
  <2>3. CASE ~(\E j \in R : Renews(calls[j], op) \/ Owes(calls[j], op, n))
    <3>1. Newest(calls, R, op, n, fresh, held)
      BY <1>9, <2>3 DEF UpToDate
    <3>2. \A j \in R : /\ Gives(cs[j], op, n) <=> Gives(calls[j], op, n)
                       /\ Gives(calls[j], op, n) => cs[j] = calls[j]
      BY <1>3, <1>5, <1>6, <1>12, <1>15
    <3>3. Newest(cs, R, op, n, fresh, held)
      BY <3>1, <3>2 DEF Newest
    <3>4. new = fresh
      <4>1. CASE ~ok
        BY <1>6, <1>8, <4>1
      <4>2. CASE ok
        <5>1. c.op \notin Changes[op]
          BY <1>7, <1>15, <4>2 DEF Renews
        <5>2. c.op \notin {"leave", "deleteWorkspace", "deleteAccount", "acceptInvite"}
          BY <1>7, <1>15, <4>2 DEF Renews, Departs, Joins
        <5>3. op = "members" => pg.ws \in Used
          <6>1. ASSUME op = "members" PROVE pg.at \in Within
            BY <6>1 DEF On, Within
          <6>2. ~(\E j \in R : Departs(calls[j]))
            BY <2>3 DEF Renews
          <6>3. Founded(db.level, calls, R, cookie, pg, store)
            BY <1>3 DEF There
          <6>4. pg.at \in Within => <<cookie, pg.ws>> \in DOMAIN db.level
            BY <6>2, <6>3 DEF Founded, Lands
          <6>5. PICK m : m = <<cookie, pg.ws>>
            OBVIOUS
          <6>6. m[2] = pg.ws
            BY <6>5
          <6> QED BY <6>1, <6>4, <6>5, <6>6 DEF Used
        <5>4. e = Effect(c) /\ Allowed(c) /\ TablesFit
          BY <1>6, <4>2 DEF Base
        <5> QED BY <1>8, <5>1, <5>2, <5>3, <5>4, ListKept
      <4> QED BY <4>1, <4>2
    <3> QED BY <3>3, <3>4 DEF UpToDate
  <2> QED BY <2>2, <2>3
<1> QED BY <1>13, <1>14, <1>15

LEMMA NextLists == Base /\ Marks /\ There /\ ListsDue /\ [Next]_vars => ListsDue'
<1> SUFFICES ASSUME Base, Marks, There, ListsDue, [Next]_vars, why' = {} PROVE ListsDue'
  BY DEF ListsDue
<1>0. Base'
  BY NextBase
<1>1. CASE UNCHANGED vars
  BY <1>1 DEF vars, ListsDue
<1>2. CASE FormSent
  BY <1>2, FormSends, FormLists
<1>3. CASE \E to \in Links : Follow(to)
  BY <1>3, FollowLists
<1>4. CASE \E to \in Typed : TypeAddress(to)
  BY <1>0, <1>4, LoadLists
<1>5. ASSUME NEW k \in DOMAIN calls, Serve(k) PROVE ListsDue'
  BY <1>5, ServeLists
<1>6. ASSUME NEW k \in DOMAIN calls, Forget(k) PROVE ListsDue'
  <2>1. why = {} /\ ~calls[k].here
    BY <1>6 DEF Forget
  <2> QED BY <2>1 DEF Base, AllHere
<1>7. ASSUME NEW w \in Workspaces, RemovedElsewhere(w) PROVE ListsDue'
  BY <1>7 DEF RemovedElsewhere
<1>8. ASSUME NEW k \in DOMAIN calls, AnswerArrives(k) PROVE ListsDue'
  <2>1. CASE (DepartureAnswered(k) \/ CheckoutAnswered(k)) /\ Ok(k)
    BY <1>0, <2>1, LoadLists
  <2>2. CASE ListAnswered(k)
    BY <2>2, ListLists
  <2>3. CASE SettingAnswered(k) \/ KeyAnswered(k)
    BY <2>3, ChangeLists
  <2>4. CASE Plainly(k)
    <3>1. why \subseteq why'
      BY <2>4, AppMoves, GetAppMoves, ProjectsMoves, ProjectMoves, LinkMoves, ProjectCreatedMoves,
         WorkspaceCreatedMoves, SessionMoves, LogOutMoves, SaysMoves, InviteMoves, RefusalMoves
         DEF Plainly
    <3> QED BY <2>4, <3>1, PlainLists
  <2> QED BY <1>8, <2>1, <2>2, <2>3, <2>4 DEF AnswerArrives, Plainly
<1> QED BY <1>1, <1>2, <1>3, <1>4, <1>5, <1>6, <1>7, <1>8 DEF Next, Network, Moved

LEMMA QuietListsAgree ==
  ASSUME Base, Session, ListsDue
  PROVE  ListsAgree
<1> SUFFICES ASSUME Quiet, why = {}
             PROVE  /\ OnSettings => /\ page.members = MembersOf(page.ws)
                                     /\ page.invites = InvitesOf(page.ws)
                    /\ page.at = "account" /\ page.inner # 0 =>
                         page.keys = KeysOf(store.app.account)
  BY DEF ListsAgree
<1>1. DOMAIN calls = {}
  BY QuietIsEmpty
<1>2. ASSUME NEW op \in Lists, On(page, op)
      PROVE  HeldOn(page, op) = ListIn(db, op, page.ws, cookie)
  BY <1>1, <1>2 DEF ListsDue, ListFits, UpToDate, Newest
<1>3. ASSUME OnSettings PROVE page.members = MembersOf(page.ws) /\ page.invites = InvitesOf(page.ws)
  <2>1. On(page, "members") /\ On(page, "invites")
    BY <1>3 DEF On, OnSettings
  <2>2. page.members = MembersIn(db.level, page.ws) /\ page.invites = HomesIn(db.invites, page.ws)
    BY <1>2, <2>1 DEF Lists, HeldOn, ListIn
  <2> QED BY <2>2 DEF MembersIn, MembersOf, HomesIn, InvitesOf
<1>4. ASSUME page.at = "account", page.inner # 0
      PROVE  page.keys = KeysOf(store.app.account)
  <2>1. On(page, "keys")
    BY <1>4 DEF On
  <2>2. page.keys = HomesIn(db.keys, cookie)
    BY <1>2, <2>1 DEF Lists, HeldOn, ListIn
  <2>3. page.loaded
    BY <1>4 DEF Base, Placed, Inside
  <2>4. store.app.account = cookie
    BY <2>3 DEF Session
  <2> QED BY <2>2, <2>4 DEF HomesIn, KeysOf
<1> QED BY <1>3, <1>4

\* The lists of the settings and of the keys are the server's when all is answered, in
\* whatever order changes and loads of the lists passed each other on the way: for any
\* number of pages, calls, members, invites and keys.
THEOREM TheListsAgree == Spec => []ListsAgree
<1>1. Init => Base /\ Session /\ InStore /\ There /\ Marks /\ ListsDue
  BY InitBase, InitSession, InitThere, InitMarks, InitLists
<1>2. /\ Base /\ Session /\ InStore /\ There /\ Marks /\ ListsDue /\ [Next]_vars
      => (Base /\ Session /\ InStore /\ There /\ Marks /\ ListsDue)'
  BY NextBase, NextSession, NextThere, NextMarks, NextLists
<1>3. Base /\ Session /\ ListsDue => ListsAgree
  BY QuietListsAgree
<1> QED BY <1>1, <1>2, <1>3, PTL DEF Spec

=============================================================================
