------------------------- MODULE ClientPages_proofs -------------------------
(***************************************************************************)
(* Theorems about ClientPages, for any accounts, workspaces, addresses and  *)
(* bounds: that no page waits for an answer that nobody will give, and that *)
(* the pages show the account of the session.                              *)
(***************************************************************************)
EXTENDS ClientPages, WellFoundedInduction, FiniteSetTheorems, TLAPS

\* A page is a page, and a call a call, whatever they hold.
IsPage(pg) ==
  /\ DOMAIN pg = {"at", "ws", "arg", "index", "loaded", "wsp", "ready", "inner", "shown",
                  "members", "invites", "keys", "key", "said"}
  /\ pg.index \in Nat /\ pg.wsp \in Nat /\ pg.inner \in Nat
  /\ pg.loaded \in BOOLEAN /\ pg.ready \in BOOLEAN /\ pg.shown \in BOOLEAN

IsCall(c) ==
  /\ DOMAIN c = {"op", "as", "ws", "arg", "by", "here", "state", "turn", "answer"}
  /\ c.by \in Nat /\ c.here \in BOOLEAN

\* IndexPage and WorkspacePage are mounted at their addresses only, and have their
\* answer only when they are mounted.
Nested(pg) ==
  /\ pg.index = 0 => ~pg.loaded
  /\ pg.wsp = 0 => ~pg.ready
  /\ pg.index # 0 => pg.at \in Inside
  /\ pg.wsp # 0 => pg.at \in Within

\* Whatever can be mounted at the address is.
Full(pg) ==
  /\ pg.at \in Inside => pg.index # 0
  /\ pg.at \in Within /\ pg.loaded => pg.wsp # 0
  /\ pg.at \in Within /\ pg.loaded /\ pg.ready => pg.inner # 0

\* A call of R for page number n is under way.
Pending(cs, R, op, n) == \E k \in R : cs[k].op = op /\ cs[k].by = n /\ cs[k].here

\* Each page that is mounted and has no answer has its call under way.
Owed(pg, cs, R) ==
  /\ pg.index # 0 /\ ~pg.loaded => Pending(cs, R, "app", pg.index)
  /\ pg.wsp # 0 /\ ~pg.ready => Pending(cs, R, "projects", pg.wsp)
  /\ pg.at = "project" /\ pg.inner # 0 /\ ~pg.shown
       => Pending(cs, R, "project", pg.inner)
  /\ pg.at = "subscription" /\ pg.inner # 0 /\ ~pg.shown
       => Pending(cs, R, "members", pg.inner)

\* Only a page of an invite or of a shared project is told that it has none.
OwnAnswers(pg, cs, R) ==
  \A k \in R : cs[k].op \in {"link", "getInvite"} /\ cs[k].by = pg.inner
                 => pg.at \in {"link", "invite"}

\* Numbers of pages begin with 1, and there is a largest one.
Numbered(cs, R) ==
  /\ R \subseteq Nat
  /\ \A k \in R : /\ IsCall(cs[k])
                  /\ cs[k].op \in {"app", "projects", "link", "getInvite"} => cs[k].by # 0
Bounded == \E m \in Nat : \A k \in DOMAIN calls : k <= m /\ calls[k].by <= m

PagesInv ==
  /\ IsPage(page) /\ Nested(page) /\ Full(page)
  /\ calls = [k \in DOMAIN calls |-> calls[k]]
  /\ Numbered(calls, DOMAIN calls) /\ Bounded
  /\ OwnAnswers(page, calls, DOMAIN calls)
  /\ "refused" \in why \/ Owed(page, calls, DOMAIN calls)

-----------------------------------------------------------------------------
(* Numbers                                                                 *)

LEMMA Least ==
  ASSUME NEW T, T \subseteq Nat, T # {}
  PROVE  \E k \in T : \A j \in T : k <= j
<1> DEFINE R == {ss \in Nat \X Nat : ss[1] < ss[2]}
<1>1. IsWellFoundedOn(R, Nat)
  BY NatLessThanWellFounded DEF OpToRel
<1>2. PICK k \in T : \A j \in T : ~ (<<j, k>> \in R)
  BY <1>1, WFMin
<1>3. \A j \in T : ~ (j < k)
  BY <1>2
<1> QED BY <1>3

\* Numbers that have a bound have a largest one.
LEMMA MaxIsLargest ==
  ASSUME NEW S, S \subseteq Nat, S # {}, NEW m \in Nat, \A s \in S : s <= m
  PROVE  Max(S) \in S /\ \A s \in S : s <= Max(S)
<1> DEFINE T == {b \in Nat : \A s \in S : s <= b}
<1>1. PICK b \in T : \A j \in T : b <= j
  BY Least
<1>2. b \in Nat /\ \A s \in S : s <= b
  BY <1>1
<1>3. b \in S
  <2> SUFFICES ASSUME b \notin S PROVE FALSE
    OBVIOUS
  <2>1. \A s \in S : s < b
    BY <1>2
  <2>2. b > 0
    <3>1. PICK s \in S : TRUE
      OBVIOUS
    <3>2. s \in Nat /\ s < b
      BY <2>1
    <3> QED BY <1>2, <3>2
  <2>3. b - 1 \in T
    BY <1>2, <2>1, <2>2
  <2> QED BY <1>1, <1>2, <2>3
<1> HIDE DEF T
<1>4. \E x \in S : \A y \in S : x >= y
  BY <1>2, <1>3
<1>5. Max(S) \in S /\ \A y \in S : Max(S) >= y
  BY <1>4 DEF Max
<1> QED BY <1>5

LEMMA SentIsLargest ==
  ASSUME PagesInv
  PROVE  /\ Sent \in Nat
         /\ page.index <= Sent /\ page.wsp <= Sent /\ page.inner <= Sent
         /\ \A k \in DOMAIN calls : k <= Sent /\ calls[k].by <= Sent
<1> DEFINE S == {0, page.index, page.wsp, page.inner} \cup DOMAIN calls
                  \cup {calls[k].by : k \in DOMAIN calls}
<1>1. PICK m \in Nat : \A k \in DOMAIN calls : k <= m /\ calls[k].by <= m
  BY DEF PagesInv, Bounded
<1>2. page.index \in Nat /\ page.wsp \in Nat /\ page.inner \in Nat
  BY DEF PagesInv, IsPage
<1>3. \A k \in DOMAIN calls : k \in Nat /\ calls[k].by \in Nat
  BY DEF PagesInv, Numbered, IsCall
<1>4. S \subseteq Nat /\ S # {}
  BY <1>2, <1>3
<1>5. m + page.index + page.wsp + page.inner \in Nat
  BY <1>2
<1>6. \A s \in S : s <= m + page.index + page.wsp + page.inner
  BY <1>1, <1>2, <1>3
<1>7. Sent = Max(S)
  BY DEF Sent
<1> HIDE DEF S
<1>8. Sent \in S /\ \A s \in S : s <= Sent
  BY <1>4, <1>5, <1>6, <1>7, MaxIsLargest
<1> QED BY <1>4, <1>8 DEF S

-----------------------------------------------------------------------------
(* Pages                                                                   *)

LEMMA AddressFits ==
  ASSUME NEW at, NEW w, NEW x, NEW to, to = Address(at, w, x)
  PROVE  IsPage(to) /\ Nested(to) /\ (\A cs, R : Owed(to, cs, R)) /\ to.inner = 0
BY DEF Address, IsPage, Nested, Owed

\* Following a link keeps what is mounted and what is owed to it.
LEMMA GoingFits ==
  ASSUME NEW pg, IsPage(pg), Nested(pg), NEW at, NEW w, NEW x,
         NEW to, to = Going(pg, at, w, x)
  PROVE  /\ IsPage(to) /\ Nested(to)
         /\ \A cs, R : Owed(pg, cs, R) => Owed(to, cs, R)
         /\ to.inner = 0 \/ (to.inner = pg.inner /\ to.at = pg.at)
<1> DEFINE new == Address(at, w, x)
           same == [pg EXCEPT !.ws = w, !.arg = x]
           ws == [new EXCEPT !.index = pg.index, !.loaded = pg.loaded,
                             !.wsp = pg.wsp, !.ready = pg.ready]
           in == [new EXCEPT !.index = pg.index, !.loaded = pg.loaded]
<1>1. CASE at \notin Inside \/ pg.index = 0
  <2>1. to = new
    BY <1>1 DEF Going
  <2> HIDE DEF new
  <2>2. IsPage(new) /\ Nested(new) /\ (\A cs, R : Owed(new, cs, R)) /\ new.inner = 0
    BY AddressFits DEF new
  <2> QED BY <2>1, <2>2
<1>2. CASE at \in Inside /\ pg.index # 0 /\ at = pg.at
  <2>1. to = same
    BY <1>2 DEF Going
  <2>2. /\ IsPage(same) /\ same.at = pg.at /\ same.index = pg.index /\ same.wsp = pg.wsp
        /\ same.inner = pg.inner /\ same.loaded = pg.loaded /\ same.ready = pg.ready
        /\ same.shown = pg.shown
    BY DEF IsPage
  <2> HIDE DEF same
  <2> QED BY <2>1, <2>2 DEF Nested, Owed
<1>3. CASE at \in Within /\ pg.index # 0 /\ at # pg.at /\ pg.wsp # 0
  <2>1. to = ws
    BY <1>3 DEF Going, Inside
  <2>2. /\ IsPage(ws) /\ ws.at = at /\ ws.index = pg.index /\ ws.wsp = pg.wsp
        /\ ws.inner = 0 /\ ws.loaded = pg.loaded /\ ws.ready = pg.ready
    BY DEF IsPage, Address
  <2>3. at \in Inside
    BY <1>3 DEF Inside
  <2> HIDE DEF ws
  <2> QED BY <1>3, <2>1, <2>2, <2>3 DEF Nested, Owed
<1>4. CASE at \in Inside /\ pg.index # 0 /\ at # pg.at /\ ~ (at \in Within /\ pg.wsp # 0)
  <2>1. to = in
    BY <1>4 DEF Going
  <2>2. /\ IsPage(in) /\ in.at = at /\ in.index = pg.index /\ in.wsp = 0
        /\ in.inner = 0 /\ in.loaded = pg.loaded /\ in.ready = FALSE
    BY DEF IsPage, Address
  <2> HIDE DEF in
  <2> QED BY <1>4, <2>1, <2>2 DEF Nested, Owed
<1>5. at \in Within => at \in Inside
  BY DEF Inside
<1> QED BY <1>1, <1>2, <1>3, <1>4, <1>5

\* So does being redirected.
LEMMA LedFits ==
  ASSUME NEW pg, IsPage(pg), Nested(pg), NEW st, NEW to, to = Led(pg, st)
  PROVE  /\ IsPage(to) /\ Nested(to)
         /\ \A cs, R : Owed(pg, cs, R) => Owed(to, cs, R)
         /\ to.inner = 0 \/ (to.inner = pg.inner /\ to.at = pg.at)
<1>1. \/ to = pg
      \/ \E at, w, x : to = Address(at, w, x)
      \/ \E at, w, x : to = Going(pg, at, w, x)
  BY Zenon DEF Led
<1>2. CASE to = pg
  BY <1>2
<1>3. CASE \E at, w, x : to = Address(at, w, x)
  BY <1>3, AddressFits
<1>4. CASE \E at, w, x : to = Going(pg, at, w, x)
  BY <1>4, GoingFits
<1> QED BY <1>1, <1>2, <1>3, <1>4

\* What is mounted next is one page, whose number is new and whose calls are made.
LEMMA MountFits ==
  ASSUME NEW pg, IsPage(pg), Nested(pg), NEW n \in Nat, n # 0,
         NEW cs, NEW R, NEW ds, NEW Q,
         \A op, b : Pending(cs, R, op, b) => Pending(ds, Q, op, b),
         \A i \in 1 .. Len(Opens(pg)) : Pending(ds, Q, Opens(pg)[i], n),
         NEW to, to = MountedAs(pg, n)
  PROVE  /\ IsPage(to) /\ Nested(to) /\ Full(to)
         /\ Owed(pg, cs, R) => Owed(to, ds, Q)
<1> DEFINE what == Mounts(pg)
<1>1. Owed(pg, cs, R) => Owed(pg, ds, Q)
  BY DEF Owed
<1>ops. ASSUME NEW op, Opens(pg) = <<op>> PROVE Pending(ds, Q, op, n)
  <2>1. 1 \in 1 .. Len(Opens(pg)) /\ Opens(pg)[1] = op
    BY <1>ops
  <2> QED BY <2>1
<1>2. CASE pg.at \in Public /\ pg.inner = 0
  <2>1. what = "inner"
    <3>1. pg.at \notin Inside /\ pg.at \notin Within /\ pg.at \notin {"workspaces", "account"}
      BY <1>2 DEF Public, Inside, Within
    <3> QED BY <1>2, <3>1 DEF Mounts
  <2>2. to = [pg EXCEPT !.inner = n]
    BY <2>1 DEF MountedAs
  <2>3. /\ IsPage(to) /\ to.at = pg.at /\ to.index = pg.index /\ to.wsp = pg.wsp
        /\ to.loaded = pg.loaded /\ to.ready = pg.ready
    BY <2>2 DEF IsPage
  <2>4. pg.at \notin Inside /\ pg.at \notin Within
    BY <1>2 DEF Public, Inside, Within
  <2>5. pg.at # "project" /\ pg.at # "subscription"
    BY <2>4 DEF Within
  <2> QED BY <1>1, <2>3, <2>4, <2>5 DEF Nested, Full, Owed
<1>3. CASE pg.at \in Inside /\ pg.index = 0
  <2>1. pg.at \notin Public
    BY <1>3 DEF Public, Inside, Within
  <2>2. what = "index"
    BY <1>3, <2>1 DEF Mounts, Nested
  <2>3. to = [pg EXCEPT !.index = n] /\ Opens(pg) = <<"app">>
    BY <2>2 DEF MountedAs, Opens
  <2>4. /\ IsPage(to) /\ to.at = pg.at /\ to.index = n /\ to.wsp = pg.wsp
        /\ to.inner = pg.inner /\ to.loaded = pg.loaded /\ to.ready = pg.ready
        /\ to.shown = pg.shown
    BY <2>3 DEF IsPage
  <2>5. Pending(ds, Q, "app", n)
    BY <2>3, <1>ops
  <2> QED BY <1>1, <1>3, <2>4, <2>5 DEF Nested, Full, Owed
<1>4. CASE pg.at \in Within /\ pg.index # 0 /\ pg.loaded /\ pg.wsp = 0
  <2>1. pg.at \notin Public /\ pg.at \in Inside /\ pg.at \notin {"workspaces", "account"}
    BY <1>4 DEF Public, Inside, Within
  <2>2. what = "wsp"
    BY <1>4, <2>1 DEF Mounts
  <2>3. to = [pg EXCEPT !.wsp = n] /\ Opens(pg) = <<"projects">>
    BY <2>2 DEF MountedAs, Opens
  <2>4. /\ IsPage(to) /\ to.at = pg.at /\ to.index = pg.index /\ to.wsp = n
        /\ to.inner = pg.inner /\ to.loaded = pg.loaded /\ to.ready = pg.ready
        /\ to.shown = pg.shown
    BY <2>3 DEF IsPage
  <2>5. Pending(ds, Q, "projects", n)
    BY <2>3, <1>ops
  <2> QED BY <1>1, <1>4, <2>4, <2>5 DEF Nested, Full, Owed
<1>5. CASE /\ pg.at \in Inside /\ pg.index # 0 /\ pg.inner = 0 /\ pg.loaded
           /\ \/ pg.at \in Within /\ pg.wsp # 0 /\ pg.ready
              \/ pg.at \in {"workspaces", "account"}
  <2>1. pg.at \notin Public /\ ~ (pg.at \in Within /\ pg.at \in {"workspaces", "account"})
    BY <1>5 DEF Public, Inside, Within
  <2>2. what = "inner"
    BY <1>5, <2>1 DEF Mounts
  <2>3. /\ to = [pg EXCEPT !.inner = n]
        /\ pg.at = "project" => Opens(pg) = <<"project">>
        /\ pg.at = "subscription" => Opens(pg) = <<"members">>
    BY <2>2 DEF MountedAs, Opens, OnMount
  <2>4. /\ IsPage(to) /\ to.at = pg.at /\ to.index = pg.index /\ to.wsp = pg.wsp
        /\ to.inner = n /\ to.loaded = pg.loaded /\ to.ready = pg.ready
    BY <2>3 DEF IsPage
  <2>5. /\ pg.at = "project" => Pending(ds, Q, "project", n)
        /\ pg.at = "subscription" => Pending(ds, Q, "members", n)
    BY <2>3, <1>ops
  <2> QED BY <1>1, <1>5, <2>1, <2>4, <2>5 DEF Nested, Full, Owed
<1>6. ASSUME ~ (pg.at \in Public /\ pg.inner = 0), ~ (pg.at \in Inside /\ pg.index = 0),
             ~ (pg.at \in Within /\ pg.index # 0 /\ pg.loaded /\ pg.wsp = 0),
             ~ (/\ pg.at \in Inside /\ pg.index # 0 /\ pg.inner = 0 /\ pg.loaded
                /\ \/ pg.at \in Within /\ pg.wsp # 0 /\ pg.ready
                   \/ pg.at \in {"workspaces", "account"})
      PROVE  /\ IsPage(to) /\ Nested(to) /\ Full(to)
             /\ Owed(pg, cs, R) => Owed(to, ds, Q)
  <2>1. pg.at \in Within => pg.at \in Inside
    BY DEF Inside
  <2>2. pg.at \in {"workspaces", "account"} => pg.at \in Inside
    BY DEF Inside
  <2>3. what = "none"
    BY <1>6, <2>1, <2>2 DEF Mounts, Nested
  <2>4. to = pg
    BY <2>3 DEF MountedAs
  <2> QED BY <1>1, <1>6, <2>1, <2>4 DEF Full
<1> QED BY <1>2, <1>3, <1>4, <1>5, <1>6

-----------------------------------------------------------------------------
(* The rest of a step                                                      *)

LEMMA OpensOf ==
  ASSUME NEW pg
  PROVE  /\ \/ Opens(pg) = <<>>
            \/ \E a : Opens(pg) = <<a>>
            \/ \E a, b : Opens(pg) = <<a, b>>
         /\ \A i \in 1 .. Len(Opens(pg)) :
              Opens(pg)[i] \in {"link", "getInvite"} =>
                Mounts(pg) = "inner" /\ pg.at \in {"link", "invite"}
<1>1. CASE Mounts(pg) = "index"
  <2>1. Opens(pg) = <<"app">>
    BY <1>1 DEF Opens
  <2> QED BY <2>1
<1>2. CASE Mounts(pg) = "wsp"
  <2>1. Opens(pg) = <<"projects">>
    BY <1>2 DEF Opens
  <2> QED BY <2>1
<1>3. CASE Mounts(pg) = "inner" /\ pg.at \in DOMAIN OnMount
  <2>1. Opens(pg) = OnMount[pg.at]
    BY <1>3 DEF Opens
  <2>2. pg.at \in {"logout", "verify", "invite", "link", "account", "settings",
                   "subscription", "project"}
    BY <1>3 DEF OnMount
  <2>3. CASE pg.at = "settings"
    <3>1. Opens(pg) = <<"members", "invites">>
      BY <2>1, <2>3 DEF OnMount
    <3> QED BY <3>1
  <2>4. CASE pg.at \in {"link", "invite"}
    <3>1. \E a : Opens(pg) = <<a>>
      BY <2>1, <2>4 DEF OnMount
    <3> QED BY <1>3, <2>4, <3>1
  <2>5. CASE pg.at \in {"logout", "verify", "account", "subscription", "project"}
    <3>1. \E a : Opens(pg) = <<a>> /\ a \notin {"link", "getInvite"}
      BY <2>1, <2>5 DEF OnMount
    <3> QED BY <3>1
  <2> QED BY <2>2, <2>3, <2>4, <2>5
<1>4. CASE /\ Mounts(pg) \notin {"index", "wsp"}
           /\ ~ (Mounts(pg) = "inner" /\ pg.at \in DOMAIN OnMount)
  <2>1. Opens(pg) = <<>>
    BY <1>4 DEF Opens
  <2> QED BY <2>1
<1> QED BY <1>1, <1>2, <1>3, <1>4

\* A call as it is made, at most one, by a form or an answer.
Asks(asked) ==
  \/ asked = <<>>
  \/ \E c : /\ asked = <<c>> /\ IsCall(c) /\ c.by <= Sent
            /\ c.op \notin {"app", "projects", "link", "getInvite"}

\* What Proceed makes of the calls: those of rest are kept, and those that a page
\* opens with are made under the new number n.
Extended(rest, to, n) ==
  /\ rest \subseteq DOMAIN calls' /\ \A k \in rest : calls'[k] = calls[k]
  /\ \A j \in DOMAIN calls' \ rest :
       /\ j \in Nat /\ j <= n + 2 /\ IsCall(calls'[j]) /\ calls'[j].by <= n
       /\ calls'[j].op \in {"app", "projects", "link", "getInvite"} =>
            /\ calls'[j].by = n
            /\ \E i \in 1 .. Len(Opens(to)) : Opens(to)[i] = calls'[j].op
  /\ \A i \in 1 .. Len(Opens(to)) :
       \E j \in DOMAIN calls' \ rest :
         calls'[j].op = Opens(to)[i] /\ calls'[j].by = n /\ calls'[j].here

\* The same, call by call.
Made(rest, asked, to, n) ==
  /\ rest \subseteq DOMAIN calls' /\ \A k \in rest : calls'[k] = calls[k]
  /\ \A j \in DOMAIN calls' \ rest :
       \/ asked = <<calls'[j]>> /\ j = Sent + 1
       \/ \E i \in 1 .. Len(Opens(to)) : calls'[j] = Call(Opens(to)[i], to.ws, to.arg, n)
  /\ \A i \in 1 .. Len(Opens(to)) :
       \E j \in DOMAIN calls' \ rest : calls'[j] = Call(Opens(to)[i], to.ws, to.arg, n)
  /\ \A c : asked = <<c>> => \E j \in DOMAIN calls' \ rest : calls'[j] = c

LEMMA ProceedsTo ==
  ASSUME PagesInv, NEW st, NEW pg, NEW rest, rest \subseteq DOMAIN calls,
         NEW asked, Asks(asked), Proceed(st, pg, rest, asked)
  PROVE  \E to, n : /\ to = Led(pg, st) /\ page' = MountedAs(to, n)
                    /\ n \in Nat /\ n > Sent /\ Extended(rest, to, n)
                    /\ Made(rest, asked, to, n)
                    /\ calls' = [k \in DOMAIN calls' |-> calls'[k]]
<1>1. PICK to : to = Led(pg, st)
  OBVIOUS
<1>2. PICK s : s = Sent
  OBVIOUS
<1>3. PICK n : n = s + Len(asked) + 1
  OBVIOUS
<1>4. PICK o : o = Opens(to)
  OBVIOUS
<1> DEFINE mine == [i \in 1 .. Len(o) |-> Call(o[i], to.ws, to.arg, n)]
<1>5. PICK new : new = asked \o mine
  OBVIOUS
<1>6. /\ page' = MountedAs(to, n)
      /\ calls' = [k \in rest \cup {s + i : i \in DOMAIN new} |->
                     IF k \in rest THEN calls[k] ELSE new[k - s]]
  BY <1>1, <1>2, <1>3, <1>4, <1>5 DEF Proceed
<1>7. s \in Nat /\ \A k \in DOMAIN calls : k \in Nat /\ k <= s
  BY <1>2, SentIsLargest DEF PagesInv, Numbered
<1>8. Len(asked) \in Nat /\ Len(asked) <= 1 /\ asked = [i \in 1 .. Len(asked) |-> asked[i]]
  <2>1. CASE asked = <<>>
    BY <2>1
  <2>2. CASE \E c : asked = <<c>>
    BY <2>2
  <2> QED BY <2>1, <2>2 DEF Asks
<1>9. Len(o) \in Nat /\ Len(o) <= 2
  BY <1>4, OpensOf
<1>10. n \in Nat /\ n > s
  BY <1>3, <1>7, <1>8
<1>11. /\ DOMAIN new = 1 .. Len(asked) + Len(o)
       /\ \A i \in 1 .. Len(asked) : new[i] = asked[i]
       /\ \A i \in 1 .. Len(o) : new[Len(asked) + i] = Call(o[i], to.ws, to.arg, n)
  <2>1. PICK own : own = mine
    OBVIOUS
  <2>2. Len(own) = Len(o) /\ own = [i \in 1 .. Len(o) |-> own[i]]
    BY <1>9, <2>1
  <2>3. \A i \in 1 .. Len(o) : own[i] = Call(o[i], to.ws, to.arg, n)
    BY <2>1
  <2>4. new = asked \o own
    BY <1>5, <2>1
  <2> HIDE DEF mine
  <2>5. new = [i \in 1 .. Len(asked) + Len(own) |->
                 IF i <= Len(asked) THEN asked[i] ELSE own[i - Len(asked)]]
    BY <1>8, <1>9, <2>2, <2>4
  <2> QED BY <1>8, <1>9, <2>2, <2>3, <2>5
<1> HIDE DEF mine
<1>12. ASSUME NEW i \in 1 .. Len(o)
       PROVE  /\ IsCall(Call(o[i], to.ws, to.arg, n))
              /\ Call(o[i], to.ws, to.arg, n).op = o[i]
              /\ Call(o[i], to.ws, to.arg, n).by = n
              /\ Call(o[i], to.ws, to.arg, n).here
  BY <1>10 DEF Call, IsCall
<1>13. DOMAIN calls' = rest \cup {s + i : i \in DOMAIN new}
  BY <1>6
<1>14. ASSUME NEW i \in DOMAIN new
       PROVE  s + i \in DOMAIN calls' \ rest /\ calls'[s + i] = new[i]
  <2>1. i \in Nat /\ i > 0
    BY <1>8, <1>9, <1>11
  <2>2. s + i \notin rest
    BY <1>7, <2>1
  <2>3. (s + i) - s = i
    BY <1>7, <2>1
  <2> QED BY <1>6, <2>2, <2>3
<1>15. ASSUME NEW j \in DOMAIN calls' \ rest
       PROVE  /\ j \in Nat /\ j <= n + 2 /\ IsCall(calls'[j]) /\ calls'[j].by <= n
              /\ calls'[j].op \in {"app", "projects", "link", "getInvite"} =>
                   /\ calls'[j].by = n
                   /\ \E i \in 1 .. Len(o) : o[i] = calls'[j].op
  <2>1. PICK i \in DOMAIN new : j = s + i
    BY <1>13
  <2>2. calls'[j] = new[i]
    BY <1>14, <2>1
  <2>3. i \in Nat /\ i <= Len(asked) + Len(o) /\ i > 0
    BY <1>8, <1>9, <1>11
  <2>4. j \in Nat /\ j <= n + 2
    BY <1>3, <1>7, <1>8, <1>9, <2>1, <2>3
  <2>5. CASE i <= Len(asked)
    <3>1. /\ Len(asked) = 1 /\ i = 1 /\ calls'[j] = asked[1]
      BY <1>8, <1>11, <2>2, <2>3, <2>5
    <3>2. /\ IsCall(asked[1]) /\ asked[1].by <= s
          /\ asked[1].op \notin {"app", "projects", "link", "getInvite"}
      BY <1>2, <3>1 DEF Asks
    <3>3. asked[1].by \in Nat
      BY <3>2 DEF IsCall
    <3> QED BY <1>7, <1>10, <2>4, <3>1, <3>2, <3>3
  <2>6. CASE ~ (i <= Len(asked))
    <3>1. i - Len(asked) \in 1 .. Len(o) /\ Len(asked) + (i - Len(asked)) = i
      BY <1>8, <1>9, <2>3, <2>6
    <3>2. calls'[j] = Call(o[i - Len(asked)], to.ws, to.arg, n)
      BY <1>11, <2>2, <3>1
    <3> QED BY <1>10, <1>12, <2>4, <3>1, <3>2
  <2> QED BY <2>5, <2>6
<1>16. ASSUME NEW i \in 1 .. Len(o)
       PROVE  \E j \in DOMAIN calls' \ rest :
                calls'[j].op = o[i] /\ calls'[j].by = n /\ calls'[j].here
  <2>1. Len(asked) + i \in DOMAIN new
    BY <1>8, <1>9, <1>11
  <2>2. calls'[s + (Len(asked) + i)] = Call(o[i], to.ws, to.arg, n)
    BY <1>11, <1>14, <2>1
  <2> QED BY <1>12, <1>14, <2>1, <2>2
<1>17. rest \subseteq DOMAIN calls' /\ \A k \in rest : calls'[k] = calls[k]
  BY <1>6
<1>18. calls' = [k \in DOMAIN calls' |-> calls'[k]]
  BY <1>6
<1>19. Extended(rest, to, n)
  BY <1>4, <1>15, <1>16, <1>17 DEF Extended
<1>20. Made(rest, asked, to, n)
  <2>1. ASSUME NEW j \in DOMAIN calls' \ rest
        PROVE  \/ asked = <<calls'[j]>> /\ j = s + 1
               \/ \E i \in 1 .. Len(o) : calls'[j] = Call(o[i], to.ws, to.arg, n)
    <3>1. PICK i \in DOMAIN new : j = s + i
      BY <1>13
    <3>2. calls'[j] = new[i] /\ i \in Nat /\ i <= Len(asked) + Len(o) /\ i > 0
      BY <1>8, <1>9, <1>11, <1>14, <3>1
    <3>3. CASE i <= Len(asked)
      <4>1. Len(asked) = 1 /\ i = 1 /\ calls'[j] = asked[1]
        BY <1>8, <1>11, <3>2, <3>3
      <4> QED BY <1>8, <3>1, <4>1
    <3>4. CASE ~ (i <= Len(asked))
      <4>1. i - Len(asked) \in 1 .. Len(o) /\ Len(asked) + (i - Len(asked)) = i
        BY <1>8, <1>9, <3>2, <3>4
      <4> QED BY <1>11, <3>2, <4>1
    <3> QED BY <3>3, <3>4
  <2>2. ASSUME NEW i \in 1 .. Len(o)
        PROVE  \E j \in DOMAIN calls' \ rest : calls'[j] = Call(o[i], to.ws, to.arg, n)
    <3>1. Len(asked) + i \in DOMAIN new
      BY <1>8, <1>9, <1>11
    <3> QED BY <1>11, <1>14, <3>1
  <2>3. ASSUME NEW c, asked = <<c>>
        PROVE  \E j \in DOMAIN calls' \ rest : calls'[j] = c
    <3>1. 1 \in DOMAIN new /\ new[1] = c
      BY <1>9, <1>11, <2>3
    <3> QED BY <1>14, <3>1
  <2> QED BY <1>2, <1>4, <1>17, <2>1, <2>2, <2>3 DEF Made
<1> QED BY <1>1, <1>2, <1>6, <1>10, <1>18, <1>19, <1>20

\* A step that leads to a page which has what it needs keeps the invariant.
LEMMA Proceeds ==
  ASSUME PagesInv, NEW st, NEW pg, IsPage(pg), Nested(pg), pg.inner <= Sent,
         NEW rest, rest \subseteq DOMAIN calls, NEW asked, Asks(asked),
         OwnAnswers(pg, calls, rest),
         "refused" \in why' \/ Owed(pg, calls, rest),
         Proceed(st, pg, rest, asked)
  PROVE  PagesInv'
<1>1. PICK to, n : /\ to = Led(pg, st) /\ page' = MountedAs(to, n)
                   /\ n \in Nat /\ n > Sent /\ Extended(rest, to, n)
                   /\ calls' = [k \in DOMAIN calls' |-> calls'[k]]
  BY ProceedsTo
<1>2. /\ IsPage(to) /\ Nested(to)
      /\ "refused" \in why' \/ Owed(to, calls, rest)
      /\ to.inner = 0 \/ (to.inner = pg.inner /\ to.at = pg.at)
  BY <1>1, LedFits
<1>3. Sent \in Nat /\ \A k \in rest : k \in Nat /\ k <= Sent /\ calls[k].by <= Sent
  BY SentIsLargest DEF PagesInv, Numbered
<1>4. \A op, b : Pending(calls, rest, op, b) => Pending(calls', DOMAIN calls', op, b)
  BY <1>1 DEF Extended, Pending
<1>5. \A i \in 1 .. Len(Opens(to)) : Pending(calls', DOMAIN calls', Opens(to)[i], n)
  BY <1>1 DEF Extended, Pending
<1>6. n \in Nat /\ n # 0
  BY <1>1, <1>3
<1>7. PICK cs, R, ds, Q : cs = calls /\ R = rest /\ ds = calls' /\ Q = DOMAIN calls'
  OBVIOUS
<1>8. PICK p : p = page'
  OBVIOUS
<1>9. /\ IsPage(p) /\ Nested(p) /\ Full(p)
      /\ "refused" \in why' \/ Owed(p, ds, Q)
  <2>1. p = MountedAs(to, n)
    BY <1>1, <1>8
  <2>2. IsPage(p) /\ Nested(p) /\ Full(p) /\ (Owed(to, cs, R) => Owed(p, ds, Q))
    BY <1>2, <1>4, <1>5, <1>6, <1>7, <2>1, MountFits
  <2> QED BY <1>2, <1>7, <2>2
<1>10. Numbered(ds, Q)
  <2>1. ASSUME NEW k \in Q
        PROVE  /\ k \in Nat /\ IsCall(ds[k])
               /\ ds[k].op \in {"app", "projects", "link", "getInvite"} => ds[k].by # 0
    <3>1. CASE k \in rest
      BY <1>1, <1>7, <3>1 DEF PagesInv, Numbered, Extended
    <3>2. CASE k \notin rest
      BY <1>1, <1>6, <1>7, <3>2 DEF Extended
    <3> QED BY <3>1, <3>2
  <2> QED BY <2>1 DEF Numbered
<1>11. \A k \in Q : k <= n + 2 /\ ds[k].by <= n + 2
  <2>1. ASSUME NEW k \in Q PROVE k <= n + 2 /\ ds[k].by <= n + 2
    <3>1. CASE k \in rest
      <4>1. ds[k] = calls[k] /\ calls[k].by \in Nat
        BY <1>1, <1>7, <3>1 DEF PagesInv, Numbered, IsCall, Extended
      <4> QED BY <1>1, <1>3, <3>1, <4>1
    <3>2. CASE k \notin rest
      <4>1. ds[k].by \in Nat /\ ds[k].by <= n
        BY <1>1, <1>7, <3>2 DEF Extended, IsCall
      <4> QED BY <1>1, <1>7, <3>2, <4>1 DEF Extended
    <3> QED BY <3>1, <3>2
  <2> QED BY <2>1
<1>12. n + 2 \in Nat
  BY <1>1
<1>13. OwnAnswers(p, ds, Q)
  <2> SUFFICES ASSUME NEW k \in Q, ds[k].op \in {"link", "getInvite"}, ds[k].by = p.inner
               PROVE  p.at \in {"link", "invite"}
    BY DEF OwnAnswers
  <2>1. /\ p.at = to.at /\ (p.inner = to.inner \/ (p.inner = n /\ Mounts(to) = "inner"))
        /\ Mounts(to) = "inner" => p.inner = n
    BY <1>1, <1>2, <1>8 DEF MountedAs, IsPage
  <2>2. CASE k \in rest
    <3>1. ds[k] = calls[k] /\ ds[k].by # 0 /\ ds[k].by # n
      <4>1. ds[k] = calls[k] /\ IsCall(calls[k]) /\ calls[k].by # 0
        BY <1>1, <1>7, <2>2 DEF PagesInv, Numbered, Extended
      <4>2. calls[k].by \in Nat /\ calls[k].by <= Sent
        BY <1>3, <2>2, <4>1 DEF IsCall
      <4> QED BY <1>1, <1>3, <4>1, <4>2
    <3>2. p.inner = pg.inner /\ p.at = pg.at
      BY <1>2, <2>1, <3>1
    <3> QED BY <2>2, <3>1, <3>2 DEF OwnAnswers
  <2>3. CASE k \notin rest
    <3>1. PICK i \in 1 .. Len(Opens(to)) : Opens(to)[i] = ds[k].op
      BY <1>1, <1>7, <2>3 DEF Extended
    <3>2. to.at \in {"link", "invite"}
      BY <3>1, OpensOf
    <3> QED BY <2>1, <3>2
  <2> QED BY <2>2, <2>3
<1> QED BY <1>1, <1>7, <1>8, <1>9, <1>10, <1>11, <1>12, <1>13 DEF PagesInv, Bounded

\* So does a full load of an address.
LEMMA LoadsAgain ==
  ASSUME PagesInv, NEW at, NEW w, NEW x, NEW rest, rest \subseteq DOMAIN calls,
         Reload(at, w, x, rest)
  PROVE  PagesInv'
<1>1. PICK to : to = Address(at, w, x)
  OBVIOUS
<1>2. PICK s : s = Sent
  OBVIOUS
<1>3. PICK n : n = s + 1
  OBVIOUS
<1>4. PICK o : o = Opens(to)
  OBVIOUS
<1>5. PICK kept : kept = Orphans(rest)
  OBVIOUS
<1>6. /\ page' = MountedAs(to, n)
      /\ calls' = [k \in kept \cup {s + i : i \in DOMAIN o} |->
                     IF k \in kept THEN [calls[k] EXCEPT !.here = FALSE]
                                    ELSE Call(o[k - s], w, x, n)]
  BY <1>1, <1>2, <1>3, <1>4, <1>5 DEF Reload
<1>7. /\ s \in Nat /\ n \in Nat /\ n # 0
      /\ \A k \in DOMAIN calls : k \in Nat /\ k <= s /\ calls[k].by <= s
  BY <1>2, <1>3, SentIsLargest DEF PagesInv, Numbered
<1>8. kept \subseteq DOMAIN calls
  BY <1>5 DEF Orphans
<1>9. Len(o) \in Nat /\ Len(o) <= 2 /\ DOMAIN o = 1 .. Len(o)
  BY <1>4, OpensOf
<1>10. IsPage(to) /\ Nested(to) /\ (\A cs, R : Owed(to, cs, R)) /\ to.inner = 0
  BY <1>1, AddressFits
<1>11. PICK ds, Q : ds = calls' /\ Q = DOMAIN calls'
  OBVIOUS
<1>12. Q = kept \cup {s + i : i \in DOMAIN o}
  BY <1>6, <1>11
<1>13. ASSUME NEW k \in kept
       PROVE  /\ k \in Q /\ ~ds[k].here /\ IsCall(ds[k]) /\ ds[k].op = calls[k].op
              /\ ds[k].by = calls[k].by
              /\ ds[k].op \notin {"app", "projects", "link", "getInvite"}
  <2>1. ds[k] = [calls[k] EXCEPT !.here = FALSE] /\ k \in Q
    BY <1>6, <1>11, <1>12
  <2>2. IsCall(calls[k])
    BY <1>8 DEF PagesInv, Numbered
  <2>3. calls[k].op \notin {"app", "projects", "link", "getInvite"}
    BY <1>5 DEF Orphans, Loads
  <2> QED BY <2>1, <2>2, <2>3 DEF IsCall
<1>14. ASSUME NEW i \in 1 .. Len(o)
       PROVE  /\ s + i \in Q /\ s + i \notin kept
              /\ ds[s + i] = Call(o[i], w, x, n)
  <2>1. s + i \in Q /\ s + i \notin kept
    BY <1>7, <1>8, <1>9, <1>12
  <2>2. (s + i) - s = i
    BY <1>7, <1>9
  <2> QED BY <1>6, <1>11, <2>1, <2>2
<1>15. ASSUME NEW i \in 1 .. Len(o)
       PROVE  /\ IsCall(ds[s + i]) /\ ds[s + i].op = o[i] /\ ds[s + i].by = n
              /\ ds[s + i].here
  <2>1. ds[s + i] = Call(o[i], w, x, n)
    BY <1>14
  <2>2. /\ IsCall(Call(o[i], w, x, n)) /\ Call(o[i], w, x, n).op = o[i]
        /\ Call(o[i], w, x, n).by = n /\ Call(o[i], w, x, n).here
    BY <1>7 DEF Call, IsCall
  <2> QED BY <2>1, <2>2
<1>16. \A k \in Q : k \in kept \/ \E i \in 1 .. Len(o) : k = s + i
  BY <1>9, <1>12
<1>17. PICK p : p = page'
  OBVIOUS
<1>18. /\ IsPage(p) /\ Nested(p) /\ Full(p)
       /\ "refused" \in why' \/ Owed(p, ds, Q)
  <2>1. p = MountedAs(to, n)
    BY <1>6, <1>17
  <2>2. \A i \in 1 .. Len(Opens(to)) : Pending(ds, Q, Opens(to)[i], n)
    BY <1>4, <1>14, <1>15 DEF Pending
  <2>3. \A op, b : Pending(ds, Q, op, b) => Pending(ds, Q, op, b)
    OBVIOUS
  <2> QED BY <1>7, <1>10, <2>1, <2>2, <2>3, MountFits
<1>19. Numbered(ds, Q)
  <2>1. Q \subseteq Nat
    BY <1>7, <1>8, <1>9, <1>12
  <2> QED BY <1>7, <1>13, <1>15, <1>16, <2>1 DEF Numbered
<1>20. s + 2 \in Nat /\ \A k \in Q : k <= s + 2 /\ ds[k].by <= s + 2
  <2>1. ASSUME NEW k \in kept PROVE k <= s + 2 /\ ds[k].by <= s + 2
    <3>1. k \in Nat /\ k <= s /\ ds[k].by <= s /\ ds[k].by \in Nat
      BY <1>7, <1>8, <1>13 DEF IsCall
    <3> QED BY <1>7, <3>1
  <2>2. ASSUME NEW i \in 1 .. Len(o) PROVE s + i <= s + 2 /\ ds[s + i].by <= s + 2
    BY <1>3, <1>7, <1>9, <1>15
  <2> QED BY <1>7, <1>16, <2>1, <2>2
<1>21. OwnAnswers(p, ds, Q)
  <2> SUFFICES ASSUME NEW k \in Q, ds[k].op \in {"link", "getInvite"}, ds[k].by = p.inner
               PROVE  p.at \in {"link", "invite"}
    BY DEF OwnAnswers
  <2>1. p.at = to.at
    BY <1>6, <1>10, <1>17 DEF MountedAs, IsPage
  <2>2. PICK i \in 1 .. Len(o) : k = s + i
    BY <1>13, <1>16
  <2> QED BY <1>4, <1>15, <2>1, <2>2, OpensOf
<1>22. calls' = [k \in DOMAIN calls' |-> calls'[k]]
  BY <1>6
<1> QED BY <1>11, <1>17, <1>18, <1>19, <1>20, <1>21, <1>22 DEF PagesInv, Bounded

-----------------------------------------------------------------------------
(* The steps                                                               *)

LEMMA CallFits ==
  ASSUME PagesInv, NEW op, op \notin {"app", "projects", "link", "getInvite"},
         NEW w, NEW x, NEW b \in Nat, b <= Sent,
         NEW asked, asked = <<Call(op, w, x, b)>>
  PROVE  Asks(asked)
<1>1. PICK c : c = Call(op, w, x, b)
  OBVIOUS
<1>2. IsCall(c) /\ c.by = b /\ c.op = op
  BY <1>1 DEF Call, IsCall
<1>3. asked = <<c>>
  BY <1>1
<1> QED BY <1>2, <1>3 DEF Asks

LEMMA NothingAsked == Asks(<<>>)
BY DEF Asks

\* The page within is the same, or another one that is not mounted yet.
LEMMA OwnFits ==
  ASSUME PagesInv, NEW pg, IsPage(pg),
         pg.inner = 0 \/ (pg.inner = page.inner /\ pg.at = page.at),
         NEW rest, rest \subseteq DOMAIN calls
  PROVE  OwnAnswers(pg, calls, rest) /\ pg.inner <= Sent
<1>1. \A k \in rest : calls[k].op \in {"link", "getInvite"} => calls[k].by # 0
  BY DEF PagesInv, Numbered
<1>2. page.inner <= Sent /\ 0 <= Sent
  BY SentIsLargest
<1> QED BY <1>1, <1>2 DEF PagesInv, OwnAnswers

\* Answer k leads to a page that has what it needs among the other calls.
LEMMA Handles ==
  ASSUME PagesInv, NEW k \in DOMAIN calls, NEW st, NEW pg, NEW asked,
         IsPage(pg), Nested(pg), Asks(asked),
         pg.inner = 0 \/ (pg.inner = page.inner /\ pg.at = page.at),
         why \subseteq why',
         \/ "refused" \in why'
         \/ Owed(page, calls, DOMAIN calls) => Owed(pg, calls, DOMAIN calls \ {k}),
         Proceed(st, pg, DOMAIN calls \ {k}, asked)
  PROVE  PagesInv'
<1> DEFINE rest == DOMAIN calls \ {k}
<1>1. rest \subseteq DOMAIN calls
  OBVIOUS
<1>2. "refused" \in why' \/ Owed(pg, calls, rest)
  BY DEF PagesInv
<1>3. OwnAnswers(pg, calls, rest) /\ pg.inner <= Sent
  BY <1>1, OwnFits
<1> QED BY <1>1, <1>2, <1>3, Proceeds

\* The same but for what the page has been told.
Like(pg, qg) ==
  /\ IsPage(qg) /\ qg.at = pg.at /\ qg.index = pg.index /\ qg.loaded = pg.loaded
  /\ qg.wsp = pg.wsp /\ qg.ready = pg.ready /\ qg.inner = pg.inner
  /\ qg.shown = pg.shown

LEMMA LikeFits ==
  ASSUME PagesInv, NEW pg, Like(page, pg)
  PROVE  /\ IsPage(pg) /\ Nested(pg)
         /\ \A cs, R : Owed(page, cs, R) => Owed(pg, cs, R)
BY DEF PagesInv, Like, Nested, Owed

\* The answers that no page waits for.
LEMMA OwedWithout ==
  ASSUME NEW cs, NEW R, NEW k \in R, cs[k].op \notin {"app", "projects", "project", "members"},
         NEW pg, Owed(pg, cs, R)
  PROVE  Owed(pg, cs, R \ {k})
BY DEF Owed, Pending

LEMMA LikeHandled ==
  ASSUME PagesInv, NEW k \in DOMAIN calls,
         calls[k].op \notin {"app", "projects", "project", "members"},
         NEW st, NEW pg, Like(page, pg), NEW asked, Asks(asked), why \subseteq why',
         Proceed(st, pg, DOMAIN calls \ {k}, asked)
  PROVE  PagesInv'
<1>1. PICK cs, R : cs = calls /\ R = DOMAIN calls
  OBVIOUS
<1>2. Owed(page, cs, R) => Owed(pg, cs, R \ {k})
  BY <1>1, LikeFits, OwedWithout
<1>3. pg.inner = page.inner /\ pg.at = page.at
  BY DEF Like
<1> QED BY <1>1, <1>2, <1>3, LikeFits, Handles

LEMMA GoesHome ==
  ASSUME PagesInv, NEW k \in DOMAIN calls,
         calls[k].op \notin {"app", "projects", "project", "members"},
         NEW st, NEW at, NEW w, NEW x, why \subseteq why',
         Proceed(st, Going(page, at, w, x), DOMAIN calls \ {k}, <<>>)
  PROVE  PagesInv'
<1>1. PICK cs, R : cs = calls /\ R = DOMAIN calls
  OBVIOUS
<1>2. PICK pg : pg = Going(page, at, w, x)
  OBVIOUS
<1>3. /\ IsPage(pg) /\ Nested(pg) /\ (Owed(page, cs, R) => Owed(pg, cs, R))
      /\ pg.inner = 0 \/ (pg.inner = page.inner /\ pg.at = page.at)
  BY <1>2, GoingFits DEF PagesInv
<1>4. Owed(page, cs, R) => Owed(pg, cs, R \ {k})
  BY <1>1, <1>3, OwedWithout
<1> QED BY <1>1, <1>2, <1>3, <1>4, NothingAsked, Handles

LEMMA GoesAway ==
  ASSUME PagesInv, NEW k \in DOMAIN calls, NEW st, NEW at, NEW w, NEW x, why \subseteq why',
         Proceed(st, Address(at, w, x), DOMAIN calls \ {k}, <<>>)
  PROVE  PagesInv'
<1>1. PICK cs, R : cs = calls /\ R = DOMAIN calls
  OBVIOUS
<1>2. PICK pg : pg = Address(at, w, x)
  OBVIOUS
<1>3. IsPage(pg) /\ Nested(pg) /\ Owed(pg, cs, R \ {k}) /\ pg.inner = 0
  BY <1>2, AddressFits
<1> QED BY <1>1, <1>2, <1>3, NothingAsked, Handles

LEMMA IsRefused ==
  ASSUME NEW k, ~Ok(k)
  PROVE  "refused" \in Amiss(k)
BY DEF Amiss

\* An answer that a page waits for is told to it, or refused.
LEMMA PagesAnswered ==
  ASSUME PagesInv, NEW k \in DOMAIN calls,
         \/ AppAnswered(k) \/ ProjectsAnswered(k) \/ ProjectAnswered(k)
         \/ ListAnswered(k)
  PROVE  PagesInv'
<1>1. PICK cs, R : cs = calls /\ R = DOMAIN calls
  OBVIOUS
<1>2. IsPage(page) /\ Nested(page) /\ IsCall(calls[k])
  BY DEF PagesInv, Numbered
<1>3. CASE AppAnswered(k) /\ Ok(k)
  <2>1. PICK pg : pg = IF page.index = calls[k].by THEN [page EXCEPT !.loaded = TRUE] ELSE page
    OBVIOUS
  <2>2. /\ Proceed(LoadApplication(store, calls[k].answer), pg, DOMAIN calls \ {k}, <<>>)
        /\ calls[k].op = "app" /\ why \subseteq why'
    BY <1>3, <2>1 DEF AppAnswered, Handled, Answered
  <2>3. calls[k].by # 0
    BY <2>2 DEF PagesInv, Numbered
  <2>4. /\ IsPage(pg) /\ pg.at = page.at /\ pg.index = page.index /\ pg.wsp = page.wsp
        /\ pg.inner = page.inner /\ pg.ready = page.ready /\ pg.shown = page.shown
        /\ IF page.index = calls[k].by THEN pg.loaded ELSE pg.loaded = page.loaded
    BY <1>2, <2>1 DEF IsPage
  <2>5. Nested(pg)
    BY <1>2, <2>3, <2>4 DEF Nested
  <2>6. Owed(page, cs, R) => Owed(pg, cs, R \ {k})
    BY <1>1, <2>2, <2>4 DEF Owed, Pending
  <2> QED BY <1>1, <2>2, <2>4, <2>5, <2>6, NothingAsked, Handles
<1>4. CASE AppAnswered(k) /\ ~Ok(k)
  <2>1. /\ Proceed(store, Address("login", None, None), DOMAIN calls \ {k}, <<>>)
        /\ why \subseteq why'
    BY <1>4 DEF AppAnswered, Handled
  <2> QED BY <2>1, GoesAway
<1>5. CASE ProjectsAnswered(k)
  <2>1. PICK pg : pg = IF Ok(k) /\ page.wsp = calls[k].by THEN [page EXCEPT !.ready = TRUE] ELSE page
    OBVIOUS
  <2>2. PICK st : Proceed(st, pg, DOMAIN calls \ {k}, <<>>)
    BY <1>5, <2>1 DEF ProjectsAnswered, Handled
  <2>3. /\ calls[k].op = "projects" /\ why \subseteq why' /\ (~Ok(k) => "refused" \in why')
    BY <1>5, IsRefused DEF ProjectsAnswered, Answered
  <2>4. calls[k].by # 0
    BY <2>3 DEF PagesInv, Numbered
  <2>5. /\ IsPage(pg) /\ pg.at = page.at /\ pg.index = page.index /\ pg.wsp = page.wsp
        /\ pg.inner = page.inner /\ pg.loaded = page.loaded /\ pg.shown = page.shown
        /\ IF Ok(k) /\ page.wsp = calls[k].by THEN pg.ready ELSE pg.ready = page.ready
    BY <1>2, <2>1 DEF IsPage
  <2>6. Nested(pg)
    BY <1>2, <2>4, <2>5 DEF Nested
  <2>7. Ok(k) => (Owed(page, cs, R) => Owed(pg, cs, R \ {k}))
    BY <1>1, <2>3, <2>5 DEF Owed, Pending
  <2> QED BY <1>1, <2>2, <2>3, <2>5, <2>6, <2>7, NothingAsked, Handles
<1>6. CASE ProjectAnswered(k)
  <2>1. PICK pg : pg = IF Ok(k) /\ page.inner = calls[k].by THEN [page EXCEPT !.shown = TRUE] ELSE page
    OBVIOUS
  <2>2. PICK st : Proceed(st, pg, DOMAIN calls \ {k}, <<>>)
    BY <1>6, <2>1 DEF ProjectAnswered, Handled
  <2>3. /\ calls[k].op = "project" /\ why \subseteq why' /\ (~Ok(k) => "refused" \in why')
    BY <1>6, IsRefused DEF ProjectAnswered, Answered
  <2>4. /\ IsPage(pg) /\ pg.at = page.at /\ pg.index = page.index /\ pg.wsp = page.wsp
        /\ pg.inner = page.inner /\ pg.loaded = page.loaded /\ pg.ready = page.ready
        /\ IF Ok(k) /\ page.inner = calls[k].by THEN pg.shown ELSE pg.shown = page.shown
    BY <1>2, <2>1 DEF IsPage
  <2>5. Nested(pg)
    BY <1>2, <2>4 DEF Nested
  <2>6. Ok(k) => (Owed(page, cs, R) => Owed(pg, cs, R \ {k}))
    BY <1>1, <2>3, <2>4 DEF Owed, Pending
  <2> QED BY <1>1, <2>2, <2>3, <2>4, <2>5, <2>6, NothingAsked, Handles
<1>7. CASE ListAnswered(k)
  <2>1. PICK pg : pg = IF Ok(k) /\ page.inner = calls[k].by THEN Listed(k, page) ELSE page
    OBVIOUS
  <2>2. Proceed(store, pg, DOMAIN calls \ {k}, <<>>)
    BY <1>7, <2>1 DEF ListAnswered, Handled
  <2>3. /\ calls[k].op \in {"members", "invites", "keys"}
        /\ why \subseteq why' /\ (~Ok(k) => "refused" \in why')
    BY <1>7, IsRefused DEF ListAnswered, Answered
  <2>4. /\ IsPage(pg) /\ pg.at = page.at /\ pg.index = page.index /\ pg.wsp = page.wsp
        /\ pg.inner = page.inner /\ pg.loaded = page.loaded /\ pg.ready = page.ready
        /\ IF Ok(k) /\ page.inner = calls[k].by /\ calls[k].op = "members"
           THEN pg.shown ELSE pg.shown = page.shown
    <3>1. CASE calls[k].op = "members"
      BY <1>2, <2>1, <3>1 DEF IsPage, Listed
    <3>2. CASE calls[k].op = "invites"
      BY <1>2, <2>1, <3>2 DEF IsPage, Listed
    <3>3. CASE calls[k].op = "keys"
      BY <1>2, <2>1, <3>3 DEF IsPage, Listed
    <3> QED BY <2>3, <3>1, <3>2, <3>3
  <2>5. Nested(pg)
    BY <1>2, <2>4 DEF Nested
  <2>6. Ok(k) => (Owed(page, cs, R) => Owed(pg, cs, R \ {k}))
    BY <1>1, <2>3, <2>4 DEF Owed, Pending
  <2> QED BY <1>1, <2>2, <2>3, <2>4, <2>5, <2>6, NothingAsked, Handles
<1> QED BY <1>3, <1>4, <1>5, <1>6, <1>7

\* Invites and shared projects, which their own pages are told of.
LEMMA ShownAnswered ==
  ASSUME PagesInv, NEW k \in DOMAIN calls, LinkAnswered(k) \/ InviteAnswered(k)
  PROVE  PagesInv'
<1>1. PICK cs, R : cs = calls /\ R = DOMAIN calls
  OBVIOUS
<1>2. IsPage(page) /\ Nested(page)
  BY DEF PagesInv
<1>3. PICK pg : pg = IF page.inner = calls[k].by THEN [page EXCEPT !.shown = Ok(k)] ELSE page
  OBVIOUS
<1>4. /\ \E st : Proceed(st, pg, DOMAIN calls \ {k}, <<>>)
      /\ calls[k].op \in {"link", "getInvite"} /\ why \subseteq why'
  BY <1>3 DEF LinkAnswered, InviteAnswered, Answered, Handled
<1>5. PICK st : Proceed(st, pg, DOMAIN calls \ {k}, <<>>)
  BY <1>4
<1>6. /\ IsPage(pg) /\ pg.at = page.at /\ pg.index = page.index /\ pg.wsp = page.wsp
      /\ pg.inner = page.inner /\ pg.loaded = page.loaded /\ pg.ready = page.ready
      /\ page.inner # calls[k].by => pg.shown = page.shown
  BY <1>2, <1>3 DEF IsPage, Ok
<1>7. page.inner = calls[k].by => page.at \in {"link", "invite"}
  BY <1>4 DEF PagesInv, OwnAnswers
<1>8. Nested(pg)
  BY <1>2, <1>6 DEF Nested
<1>9. Owed(page, cs, R) => Owed(pg, cs, R \ {k})
  BY <1>1, <1>4, <1>6, <1>7 DEF Owed, Pending
<1> QED BY <1>1, <1>4, <1>5, <1>6, <1>8, <1>9, NothingAsked, Handles

\* The other answers leave the page as it is, or ask for a list once more.
LEMMA OthersAnswered ==
  ASSUME PagesInv, NEW k \in DOMAIN calls,
         \/ GetAppAnswered(k) \/ SettingAnswered(k) \/ KeyAnswered(k)
         \/ ProjectCreated(k) \/ WorkspaceCreated(k) \/ Says(k)
  PROVE  PagesInv'
<1>1. /\ calls[k].op \notin {"app", "projects", "project", "members"}
      /\ why \subseteq why'
  BY DEF GetAppAnswered, SettingAnswered, KeyAnswered, ProjectCreated, WorkspaceCreated,
     Says, Answered, Reloads, Said
<1>2. calls[k].by \in Nat /\ calls[k].by <= Sent /\ 0 <= Sent
  BY SentIsLargest DEF PagesInv, Numbered, IsCall
<1>3. Like(page, page)
  BY DEF PagesInv, Like
<1>4. CASE GetAppAnswered(k) \/ ProjectCreated(k)
  <2>1. \E st : Proceed(st, page, DOMAIN calls \ {k}, <<>>)
    BY <1>4 DEF GetAppAnswered, ProjectCreated, Handled
  <2> QED BY <1>1, <1>3, <2>1, NothingAsked, LikeHandled
<1>5. CASE SettingAnswered(k)
  <2>1. PICK w : w = IF page.inner = calls[k].by THEN page.ws ELSE calls[k].ws
    OBVIOUS
  <2>2. PICK asked : asked = IF Ok(k) THEN <<Call(Reloads[calls[k].op], w, None, calls[k].by)>>
                                      ELSE <<>>
    OBVIOUS
  <2>3. Proceed(store, page, DOMAIN calls \ {k}, asked)
    BY <1>5, <2>1, <2>2 DEF SettingAnswered, Handled
  <2>4. Reloads[calls[k].op] \in {"members", "invites"}
    BY <1>5 DEF SettingAnswered, Answered, Reloads
  <2>5. Asks(asked)
    BY <1>2, <2>2, <2>4, CallFits, NothingAsked
  <2> QED BY <1>1, <1>3, <2>3, <2>5, LikeHandled
<1>6. CASE KeyAnswered(k)
  <2>1. PICK pg : pg = IF Ok(k) /\ calls[k].op = "createKey" /\ page.inner = calls[k].by
                       THEN [page EXCEPT !.key = calls[k].answer] ELSE page
    OBVIOUS
  <2>2. PICK asked : asked = IF Ok(k) THEN <<Call("keys", None, None, calls[k].by)>> ELSE <<>>
    OBVIOUS
  <2>3. Proceed(store, pg, DOMAIN calls \ {k}, asked)
    BY <1>6, <2>1, <2>2 DEF KeyAnswered, Handled
  <2>4. Asks(asked)
    BY <1>2, <2>2, CallFits, NothingAsked
  <2>5. Like(page, pg)
    BY <2>1 DEF PagesInv, IsPage, Like
  <2> QED BY <1>1, <2>3, <2>4, <2>5, LikeHandled
<1>7. CASE WorkspaceCreated(k)
  <2>1. PICK asked : asked = IF Ok(k) THEN <<Call("getApp", None, None, 0)>> ELSE <<>>
    OBVIOUS
  <2>2. Proceed(store, page, DOMAIN calls \ {k}, asked)
    BY <1>7, <2>1 DEF WorkspaceCreated, Handled
  <2>3. Asks(asked)
    BY <1>2, <2>1, CallFits, NothingAsked
  <2> QED BY <1>1, <1>3, <2>2, <2>3, LikeHandled
<1>8. CASE Says(k)
  <2>1. PICK pg : pg = IF page.inner = calls[k].by THEN [page EXCEPT !.said = calls[k].state]
                                                   ELSE page
    OBVIOUS
  <2>2. Proceed(store, pg, DOMAIN calls \ {k}, <<>>)
    BY <1>8, <2>1 DEF Says, Handled
  <2>3. Like(page, pg)
    BY <2>1 DEF PagesInv, IsPage, Like
  <2> QED BY <1>1, <2>2, <2>3, NothingAsked, LikeHandled
<1> QED BY <1>4, <1>5, <1>6, <1>7, <1>8

\* Answers that lead to another address.
LEMMA LeadsAway ==
  ASSUME PagesInv, NEW k \in DOMAIN calls,
         \/ SessionAnswered(k) \/ LogOutAnswered(k) \/ DepartureAnswered(k)
         \/ CheckoutAnswered(k) \/ PlanAnswered(k)
  PROVE  PagesInv'
<1>1. calls[k].op \notin {"app", "projects", "project", "members"}
  BY DEF SessionAnswered, LogOutAnswered, DepartureAnswered, CheckoutAnswered, PlanAnswered,
     Answered
<1>2. Like(page, page)
  BY DEF PagesInv, Like
<1>3. DOMAIN calls \ {k} \subseteq DOMAIN calls
  OBVIOUS
<1>4. CASE SessionAnswered(k)
  <2>1. why \subseteq why'
    BY <1>4 DEF SessionAnswered
  <2>2. CASE Ok(k)
    BY <1>1, <1>4, <2>1, <2>2, GoesHome DEF SessionAnswered, Handled
  <2>3. CASE ~Ok(k)
    BY <1>1, <1>2, <1>4, <2>1, <2>3, NothingAsked, LikeHandled DEF SessionAnswered, Handled
  <2> QED BY <2>2, <2>3
<1>5. CASE LogOutAnswered(k)
  <2>1. why \subseteq why'
    BY <1>5 DEF LogOutAnswered
  <2>2. CASE Ok(k)
    BY <1>1, <1>5, <2>1, <2>2, GoesHome DEF LogOutAnswered, Handled
  <2>3. CASE ~Ok(k)
    BY <1>1, <1>2, <1>5, <2>1, <2>3, NothingAsked, LikeHandled DEF LogOutAnswered, Handled
  <2> QED BY <2>2, <2>3
<1>6. CASE DepartureAnswered(k)
  <2>1. CASE Ok(k)
    <3>1. Reload("index", None, None, DOMAIN calls \ {k})
      BY <1>6, <2>1 DEF DepartureAnswered
    <3> QED BY <1>3, <3>1, LoadsAgain
  <2>2. CASE ~Ok(k)
    <3>1. Proceed(store, page, DOMAIN calls \ {k}, <<>>) /\ why \subseteq why'
      BY <1>6, <2>2 DEF DepartureAnswered, Handled
    <3> QED BY <1>1, <1>2, <3>1, NothingAsked, LikeHandled
  <2> QED BY <2>1, <2>2
<1>7. CASE CheckoutAnswered(k)
  <2>1. CASE Ok(k)
    <3>1. PICK at : Reload(at, None, None, DOMAIN calls \ {k})
      BY <1>7, <2>1 DEF CheckoutAnswered
    <3> QED BY <1>3, <3>1, LoadsAgain
  <2>2. CASE ~Ok(k)
    <3>1. Proceed(store, Address("cancel", None, None), DOMAIN calls \ {k}, <<>>)
            /\ why \subseteq why'
      BY <1>7, <2>2 DEF CheckoutAnswered
    <3> QED BY <3>1, GoesAway
  <2> QED BY <2>1, <2>2
<1>8. CASE PlanAnswered(k)
  <2>1. PICK at : at = IF Ok(k) THEN "success" ELSE "cancel"
    OBVIOUS
  <2>2. Proceed(store, Address(at, None, None), DOMAIN calls \ {k}, <<>>) /\ why \subseteq why'
    BY <1>8, <2>1 DEF PlanAnswered, Handled
  <2> QED BY <2>2, GoesAway
<1> QED BY <1>4, <1>5, <1>6, <1>7, <1>8

\* A form asks for something that no page waits for.
LEMMA FormsSent ==
  ASSUME PagesInv, FormSent
  PROVE  PagesInv'
<1>1. \E op, w, x : op \notin {"app", "projects", "link", "getInvite"} /\ Ask(op, w, x)
  BY DEF FormSent, LogIn, SignUp, SendReset, SetPassword, SendContact, AcceptInvite,
     ResendEmail, ChangeEmail, ChangeName, DeleteAccount, OnCreate, OnRevoke,
     CreateWorkspace, CreateProject, DeleteMember, ChangeRole, Leave, DeleteWorkspace,
     ChangeInformation, CreateInvite, DeleteInvite, ResendInvite, ChangePlan
<1>2. PICK op, w, x : op \notin {"app", "projects", "link", "getInvite"} /\ Ask(op, w, x)
  BY <1>1
<1>3. PICK asked : asked = <<Call(op, w, x, page.inner)>>
  OBVIOUS
<1>4. Proceed(store, page, DOMAIN calls, asked) /\ why' = why
  BY <1>2, <1>3 DEF Ask
<1>5. page.inner \in Nat /\ page.inner <= Sent
  BY SentIsLargest DEF PagesInv, IsPage
<1>6. Asks(asked)
  BY <1>2, <1>3, <1>5, CallFits
<1>7. "refused" \in why' \/ Owed(page, calls, DOMAIN calls)
  BY <1>4 DEF PagesInv
<1> QED BY <1>4, <1>5, <1>6, <1>7, Proceeds DEF PagesInv

LEMMA GetsAbout ==
  ASSUME PagesInv, Moved
  PROVE  PagesInv'
<1>1. CASE \E to \in Links : Follow(to)
  <2>1. PICK to \in Links : Follow(to)
    BY <1>1
  <2>2. PICK pg : pg = Going(page, to.at, to.ws, to.arg)
    OBVIOUS
  <2>3. Proceed(store, pg, DOMAIN calls, <<>>) /\ why \subseteq why'
    BY <2>1, <2>2 DEF Follow
  <2>4. PICK cs, R : cs = calls /\ R = DOMAIN calls
    OBVIOUS
  <2>5. /\ IsPage(pg) /\ Nested(pg) /\ (Owed(page, cs, R) => Owed(pg, cs, R))
        /\ pg.inner = 0 \/ (pg.inner = page.inner /\ pg.at = page.at)
    BY <2>2, GoingFits DEF PagesInv
  <2>6. OwnAnswers(pg, calls, DOMAIN calls) /\ pg.inner <= Sent
    BY <2>5, OwnFits
  <2>7. "refused" \in why' \/ Owed(pg, calls, DOMAIN calls)
    BY <2>3, <2>4, <2>5 DEF PagesInv
  <2> QED BY <2>3, <2>5, <2>6, <2>7, NothingAsked, Proceeds
<1>2. CASE \E to \in Typed : TypeAddress(to)
  <2>1. PICK to \in Typed : TypeAddress(to)
    BY <1>2
  <2>2. Reload(to.at, to.ws, to.arg, DOMAIN calls)
    BY <2>1 DEF TypeAddress
  <2> QED BY <2>2, LoadsAgain
<1> QED BY <1>1, <1>2 DEF Moved

\* Calls that change only in what the server has done of them, or that no page of
\* this document has made.
LEMMA NetworkKeeps ==
  ASSUME PagesInv, page' = page, why' = why, DOMAIN calls' \subseteq DOMAIN calls,
         calls' = [j \in DOMAIN calls' |-> calls'[j]],
         \A j \in DOMAIN calls' : /\ IsCall(calls'[j]) /\ calls'[j].op = calls[j].op
                                  /\ calls'[j].by = calls[j].by
                                  /\ calls'[j].here = calls[j].here,
         \A j \in DOMAIN calls \ DOMAIN calls' : ~calls[j].here
  PROVE  PagesInv'
<1>1. Numbered(calls, DOMAIN calls)' /\ Bounded'
  BY DEF PagesInv, Numbered, Bounded
<1>2. OwnAnswers(page, calls, DOMAIN calls)'
  BY DEF PagesInv, OwnAnswers
<1>3. \A op, n : Pending(calls, DOMAIN calls, op, n) => Pending(calls', DOMAIN calls', op, n)
  BY DEF Pending
<1>4. ("refused" \in why \/ Owed(page, calls, DOMAIN calls))'
  BY <1>3 DEF PagesInv, Owed
<1> QED BY <1>1, <1>2, <1>4 DEF PagesInv

LEMMA Travels ==
  ASSUME PagesInv, NEW k \in DOMAIN calls, Serve(k) \/ Forget(k)
  PROVE  PagesInv'
<1>1. \A j \in DOMAIN calls : IsCall(calls[j])
  BY DEF PagesInv, Numbered
<1>2. page' = page /\ why' = why
  BY DEF Serve, Forget
<1>3. CASE ~calls[k].here /\ calls' = Restrict(calls, DOMAIN calls \ {k})
  <2>1. DOMAIN calls' = DOMAIN calls \ {k} /\ \A j \in DOMAIN calls' : calls'[j] = calls[j]
    BY <1>3 DEF Restrict
  <2>2. calls' = [j \in DOMAIN calls' |-> calls'[j]]
    BY <1>3 DEF Restrict
  <2> QED BY <1>1, <1>2, <1>3, <2>1, <2>2, NetworkKeeps
<1>4. CASE Serve(k) /\ calls[k].here
  <2>1. PICK state, turn, answer :
          calls' = [calls EXCEPT ![k].state = state, ![k].turn = turn, ![k].answer = answer]
    <3>1. PICK ok : calls' = [calls EXCEPT
                                ![k].state = IF ok THEN "ok" ELSE "refused",
                                ![k].turn = IF calls[k].op \in Loads THEN Latest ELSE 0,
                                ![k].answer = IF ok THEN AnswerTo(calls[k]) ELSE None]
      BY <1>4 DEF Serve
    <3> QED BY <3>1
  <2>2. DOMAIN calls' = DOMAIN calls
    BY <2>1
  <2>3. calls'[k] = [calls[k] EXCEPT !.state = state, !.turn = turn, !.answer = answer]
    BY <2>1 DEF PagesInv
  <2>4. \A j \in DOMAIN calls' : j # k => calls'[j] = calls[j]
    BY <2>1 DEF PagesInv
  <2>5. IsCall(calls[k])
    BY <1>1
  <2>6. /\ IsCall(calls'[k]) /\ calls'[k].op = calls[k].op /\ calls'[k].by = calls[k].by
        /\ calls'[k].here = calls[k].here
    BY <2>3, <2>5 DEF IsCall
  <2>7. calls' = [j \in DOMAIN calls' |-> calls'[j]]
    BY <2>1 DEF PagesInv
  <2> QED BY <1>1, <1>2, <2>2, <2>4, <2>6, <2>7, NetworkKeeps
<1>5. Forget(k) => ~calls[k].here /\ calls' = Restrict(calls, DOMAIN calls \ {k})
  BY DEF Forget
<1>6. Serve(k) /\ ~calls[k].here => calls' = Restrict(calls, DOMAIN calls \ {k})
  BY DEF Serve
<1> QED BY <1>3, <1>4, <1>5, <1>6

-----------------------------------------------------------------------------
(* Nobody waits for ever                                                   *)

LEMMA InitPages == Init => PagesInv
<1> SUFFICES ASSUME Init PROVE PagesInv
  OBVIOUS
<1>1. PICK to \in Tabs :
        /\ page = MountedAs(Address(to.at, to.ws, to.arg), 1)
        /\ calls = [k \in DOMAIN Opens(Address(to.at, to.ws, to.arg)) |->
                      [op |-> Opens(Address(to.at, to.ws, to.arg))[k], as |-> cookie,
                       ws |-> to.ws, arg |-> to.arg, by |-> 1, here |-> TRUE,
                       state |-> "sent", turn |-> 0, answer |-> None]]
  BY DEF Init
<1>2. PICK pg : pg = Address(to.at, to.ws, to.arg)
  OBVIOUS
<1>3. PICK o : o = Opens(pg)
  OBVIOUS
<1>4. /\ page = MountedAs(pg, 1)
      /\ calls = [k \in DOMAIN o |->
                    [op |-> o[k], as |-> cookie, ws |-> to.ws, arg |-> to.arg, by |-> 1,
                     here |-> TRUE, state |-> "sent", turn |-> 0, answer |-> None]]
  BY <1>1, <1>2, <1>3
<1>5. IsPage(pg) /\ Nested(pg) /\ (\A cs, R : Owed(pg, cs, R)) /\ pg.inner = 0
  BY <1>2, AddressFits
<1>6. Len(o) \in Nat /\ Len(o) <= 2 /\ DOMAIN o = 1 .. Len(o)
  BY <1>3, OpensOf
<1>7. DOMAIN calls = 1 .. Len(o)
  BY <1>4, <1>6
<1>8. ASSUME NEW k \in 1 .. Len(o)
      PROVE  /\ IsCall(calls[k]) /\ calls[k].op = o[k] /\ calls[k].by = 1 /\ calls[k].here
  BY <1>4, <1>6, <1>8 DEF IsCall
<1>9. \A i \in 1 .. Len(Opens(pg)) : Pending(calls, DOMAIN calls, Opens(pg)[i], 1)
  BY <1>3, <1>7, <1>8 DEF Pending
<1>10. /\ IsPage(page) /\ Nested(page) /\ Full(page)
       /\ "refused" \in why \/ Owed(page, calls, DOMAIN calls)
  <2>1. PICK ds, Q : ds = calls /\ Q = DOMAIN calls
    OBVIOUS
  <2>2. Owed(pg, ds, Q) /\ \A op, b : Pending(ds, Q, op, b) => Pending(ds, Q, op, b)
    BY <1>5
  <2>3. PICK p : p = page
    OBVIOUS
  <2>4. p = MountedAs(pg, 1) /\ 1 \in Nat /\ 1 # 0
    BY <1>4, <2>3
  <2>5. \A i \in 1 .. Len(Opens(pg)) : Pending(ds, Q, Opens(pg)[i], 1)
    BY <1>9, <2>1
  <2>6. IsPage(p) /\ Nested(p) /\ Full(p) /\ Owed(p, ds, Q)
    BY <1>5, <2>2, <2>4, <2>5, MountFits
  <2> QED BY <2>1, <2>3, <2>6
<1>11. Numbered(calls, DOMAIN calls) /\ Bounded
  <2>1. \A k \in DOMAIN calls : k \in Nat /\ k <= 2 /\ calls[k].by <= 2
    BY <1>6, <1>7, <1>8
  <2> QED BY <1>7, <1>8, <2>1 DEF Numbered, Bounded
<1>12. OwnAnswers(page, calls, DOMAIN calls)
  <2> SUFFICES ASSUME NEW k \in DOMAIN calls, calls[k].op \in {"link", "getInvite"}
               PROVE  page.at \in {"link", "invite"}
    BY DEF OwnAnswers
  <2>1. o[k] \in {"link", "getInvite"} /\ k \in 1 .. Len(o)
    BY <1>7, <1>8
  <2>2. pg.at \in {"link", "invite"}
    BY <1>3, <2>1, OpensOf
  <2> QED BY <1>4, <1>5, <2>2 DEF MountedAs, IsPage
<1>13. calls = [k \in DOMAIN calls |-> calls[k]]
  BY <1>4
<1> QED BY <1>10, <1>11, <1>12, <1>13 DEF PagesInv

LEMMA NextPages == PagesInv /\ [Next]_vars => PagesInv'
<1> SUFFICES ASSUME PagesInv, [Next]_vars PROVE PagesInv'
  OBVIOUS
<1>1. CASE UNCHANGED vars
  BY <1>1 DEF vars, PagesInv, Numbered, Bounded, OwnAnswers, Owed, Pending
<1>2. CASE FormSent
  BY <1>2, FormsSent
<1>3. CASE Moved
  BY <1>3, GetsAbout
<1>4. ASSUME NEW k \in DOMAIN calls, Serve(k) \/ Forget(k) PROVE PagesInv'
  BY <1>4, Travels
<1>5. ASSUME NEW k \in DOMAIN calls, AnswerArrives(k) PROVE PagesInv'
  BY <1>5, PagesAnswered, ShownAnswered, OthersAnswered, LeadsAway DEF AnswerArrives
<1>6. CASE \E w \in Workspaces : RemovedElsewhere(w)
  <2>1. page' = page /\ calls' = calls /\ why \subseteq why'
    BY <1>6 DEF RemovedElsewhere
  <2> QED BY <2>1 DEF PagesInv, Numbered, Bounded, OwnAnswers, Owed, Pending
<1> QED BY <1>1, <1>2, <1>3, <1>4, <1>5, <1>6 DEF Next, Network

\* No page waits for ever: while a page has not all that it was mounted for, a call of
\* its own is still under way, in whatever order links, sessions and answers come, or
\* the server has refused it something.
THEOREM NobodyWaitsForEver == Spec => []NeverStuck
<1>1. PagesInv => NeverStuck
  <2> SUFFICES ASSUME PagesInv, Quiet, Waits, "refused" \notin why PROVE FALSE
    BY DEF NeverStuck
  <2>1. Owed(page, calls, DOMAIN calls) /\ Full(page) /\ Nested(page) /\ IsPage(page)
    BY DEF PagesInv
  <2>2. \A op, n : ~Pending(calls, DOMAIN calls, op, n)
    BY DEF Quiet, Pending
  <2>3. page.at \in Within => page.at \in Inside
    BY DEF Inside
  <2>4. page.at \in {"project", "subscription"} => page.at \in Within
    BY DEF Within
  <2> QED BY <2>1, <2>2, <2>3, <2>4 DEF Waits, Owed, Full, Nested
<1> QED BY <1>1, InitPages, NextPages, PTL DEF Spec


-----------------------------------------------------------------------------
(* What the other properties rest on: whose call is whose, what a call      *)
(* holds, and the tables of the server                                      *)

AppOps == {"app", "getApp"}

\* What is mounted within what, each under a number of its own.
Placed(pg) ==
  /\ pg.at \in Inside /\ pg.inner # 0 => pg.loaded
  /\ pg.at \in Within /\ pg.inner # 0 => pg.wsp # 0 /\ pg.ready
  /\ pg.wsp # 0 => pg.loaded
  /\ pg.shown => pg.inner # 0
  /\ pg.index # 0 => pg.index # pg.wsp /\ pg.index # pg.inner
  /\ pg.wsp # 0 => pg.wsp # pg.inner
  /\ pg.at \notin Inside \cup Public => pg.inner = 0

\* The pages that make a call.
AtOf == [project |-> {"project"}, link |-> {"link"}, getInvite |-> {"invite"},
         members |-> {"settings", "subscription"}, invites |-> {"settings"},
         keys |-> {"account"}, level |-> {"settings"}, removeMember |-> {"settings"},
         invite |-> {"settings"}, cancelInvite |-> {"settings"}, resend |-> {"settings"},
         createKey |-> {"account"}, revokeKey |-> {"account"}, acceptInvite |-> {"invite"}]

\* No call passes for one of a page that did not make it.
MadeBy(pg, c) ==
  /\ c.op = "projects" => c.by # 0 /\ c.by # pg.index /\ c.by # pg.inner
  /\ c.op \in {"project", "link"} => c.by # 0 /\ c.by # pg.index /\ c.by # pg.wsp
  /\ c.op = "app" => c.by # 0 /\ c.by # pg.wsp /\ c.by # pg.inner
  /\ c.op \in {"acceptInvite", "members", "level", "removeMember"} => c.by # 0
  /\ c.op \in DOMAIN AtOf /\ c.by = pg.inner /\ pg.inner # 0 => pg.at \in AtOf[c.op]

\* The member whom a change of members is about.
Target(c) == IF c.op = "level" THEN c.arg[1] ELSE c.arg

Served(c) ==
  /\ c.state \in {"sent", "ok", "refused"} /\ c.turn \in Nat
  /\ c.op = "signup" => c.arg \in Accounts /\ c.ws \in Workspaces
  /\ c.op = "createWorkspace" => c.ws \in Workspaces
  /\ c.state # "sent" /\ c.op \in Loads => c.turn # 0
  /\ c.state = "ok" /\ c.op \in AppOps =>
       c.as \in Accounts /\ c.answer = [account |-> c.as, level |-> c.answer.level]

InTurn ==
  /\ \E m \in Nat : \A k \in DOMAIN calls : calls[k].turn <= m
  /\ \A j, k \in DOMAIN calls :
       j # k /\ calls[j].turn # 0 => calls[j].turn # calls[k].turn

IsFcn(f) == f = [z \in DOMAIN f |-> f[z]]
LevelsFit(f)  == IsFcn(f) /\ DOMAIN f \subseteq Accounts \X Workspaces
InvitesFit(f) == IsFcn(f) /\ \A i \in DOMAIN f : f[i] \in Workspaces

TablesFit ==
  /\ db = [accounts |-> db.accounts, level |-> db.level, home |-> db.home,
           invites |-> db.invites, keys |-> db.keys]
  /\ db.accounts \subseteq Accounts
  /\ LevelsFit(db.level) /\ IsFcn(db.home) /\ InvitesFit(db.invites) /\ IsFcn(db.keys)

Whole(st) == DOMAIN st = {"app", "projects", "cards"}

AllHere == \A k \in DOMAIN calls : calls[k].here

Base ==
  /\ PagesInv
  /\ Placed(page)
  /\ \A k \in DOMAIN calls : MadeBy(page, calls[k]) /\ Served(calls[k])
  /\ InTurn /\ TablesFit /\ Whole(store)
  /\ "reload" \in why \/ AllHere

-----------------------------------------------------------------------------
(* Pages                                                                   *)

LEMMA AddressPlaced ==
  ASSUME NEW at, NEW w, NEW x, NEW to, to = Address(at, w, x)
  PROVE  /\ Placed(to) /\ to.at = at /\ to.ws = w /\ to.arg = x /\ to.index = 0 /\ to.wsp = 0
         /\ to.inner = 0 /\ ~to.loaded /\ ~to.ready /\ ~to.shown
BY DEF Address, Placed

\* What a link keeps of the page, and what it gives up.
Kept(pg, to) ==
  /\ to.index = 0 \/ (to.index = pg.index /\ to.loaded = pg.loaded)
  /\ to.wsp = 0 \/ (to.wsp = pg.wsp /\ to.ready = pg.ready /\ to.index = pg.index)
  /\ to.inner = 0 \/ /\ to.inner = pg.inner /\ to.at = pg.at /\ to.shown = pg.shown
                     /\ to.members = pg.members /\ to.invites = pg.invites /\ to.keys = pg.keys
                     /\ to.wsp = pg.wsp
  /\ to.index = 0 => ~to.loaded
  /\ to.wsp = 0 => ~to.ready
  /\ to.inner = 0 => ~to.shown

LEMMA GoingPlaced ==
  ASSUME NEW pg, IsPage(pg), Nested(pg), Placed(pg), NEW at, NEW w, NEW x,
         NEW to, to = Going(pg, at, w, x)
  PROVE  Placed(to) /\ Kept(pg, to) /\ to.at = at /\ to.ws = w /\ to.arg = x
<1> DEFINE new == Address(at, w, x)
           same == [pg EXCEPT !.ws = w, !.arg = x]
           ws == [new EXCEPT !.index = pg.index, !.loaded = pg.loaded,
                             !.wsp = pg.wsp, !.ready = pg.ready]
           in == [new EXCEPT !.index = pg.index, !.loaded = pg.loaded]
<1>0. /\ IsPage(new) /\ new.at = at /\ new.ws = w /\ new.arg = x /\ new.index = 0 /\ new.wsp = 0
      /\ new.inner = 0 /\ new.loaded = FALSE /\ new.ready = FALSE /\ new.shown = FALSE
  BY AddressFits DEF Address
<1>1. CASE at \notin Inside \/ pg.index = 0
  <2>1. to = new
    BY <1>1 DEF Going
  <2> HIDE DEF new
  <2> QED BY <1>0, <2>1 DEF Placed, Kept
<1>2. CASE at \in Inside /\ pg.index # 0 /\ at = pg.at
  <2>1. to = same
    BY <1>2 DEF Going
  <2>2. /\ same.at = pg.at /\ same.index = pg.index /\ same.wsp = pg.wsp
        /\ same.inner = pg.inner /\ same.loaded = pg.loaded /\ same.ready = pg.ready
        /\ same.shown = pg.shown /\ same.members = pg.members /\ same.invites = pg.invites
        /\ same.keys = pg.keys /\ same.ws = w /\ same.arg = x
    BY DEF IsPage
  <2> HIDE DEF same
  <2>3. Kept(pg, to)
    BY <2>1, <2>2 DEF Kept, Nested, Placed, IsPage
  <2> QED BY <1>2, <2>1, <2>2, <2>3 DEF Placed
<1>3. CASE at \in Within /\ pg.index # 0 /\ at # pg.at /\ pg.wsp # 0
  <2>1. to = ws
    BY <1>3 DEF Going, Inside
  <2>2. /\ ws.at = at /\ ws.index = pg.index /\ ws.wsp = pg.wsp
        /\ ws.inner = 0 /\ ws.loaded = pg.loaded /\ ws.ready = pg.ready
        /\ ws.shown = FALSE /\ ws.ws = w /\ ws.arg = x
    BY <1>0 DEF IsPage
  <2> HIDE DEF ws, new
  <2> QED BY <1>3, <2>1, <2>2 DEF Nested, Placed, Kept
<1>4. CASE at \in Inside /\ pg.index # 0 /\ at # pg.at /\ ~ (at \in Within /\ pg.wsp # 0)
  <2>1. to = in
    BY <1>4 DEF Going
  <2>2. /\ in.at = at /\ in.index = pg.index /\ in.wsp = 0
        /\ in.inner = 0 /\ in.loaded = pg.loaded /\ in.ready = FALSE
        /\ in.shown = FALSE /\ in.ws = w /\ in.arg = x
    BY <1>0 DEF IsPage
  <2> HIDE DEF in, new
  <2> QED BY <1>4, <2>1, <2>2 DEF Nested, Placed, Kept
<1>5. at \in Within => at \in Inside
  BY DEF Inside
<1> QED BY <1>1, <1>2, <1>3, <1>4, <1>5

LEMMA LedPlaced ==
  ASSUME NEW pg, IsPage(pg), Nested(pg), Placed(pg), NEW st, NEW to, to = Led(pg, st)
  PROVE  Placed(to) /\ (to = pg \/ Kept(pg, to))
<1>1. \/ to = pg
      \/ \E at, w, x : to = Address(at, w, x)
      \/ \E at, w, x : to = Going(pg, at, w, x)
  BY Zenon DEF Led
<1>2. CASE to = pg
  BY <1>2
<1>3. CASE \E at, w, x : to = Address(at, w, x)
  <2>1. PICK at, w, x : to = Address(at, w, x)
    BY <1>3
  <2>2. /\ Placed(to) /\ to.index = 0 /\ to.wsp = 0 /\ to.inner = 0
        /\ ~to.loaded /\ ~to.ready /\ ~to.shown
    BY <2>1, AddressPlaced
  <2> QED BY <2>2 DEF Kept
<1>4. CASE \E at, w, x : to = Going(pg, at, w, x)
  BY <1>4, GoingPlaced
<1> QED BY <1>1, <1>2, <1>3, <1>4


\* A page with one more page mounted, under the number n.
Mounting(pg, to, n) ==
  /\ IsPage(to) /\ to.at = pg.at /\ to.ws = pg.ws /\ to.arg = pg.arg
  /\ to.loaded = pg.loaded /\ to.ready = pg.ready /\ to.shown = pg.shown
  /\ to.members = pg.members /\ to.invites = pg.invites /\ to.keys = pg.keys
  /\ to.index = IF Mounts(pg) = "index" THEN n ELSE pg.index
  /\ to.wsp = IF Mounts(pg) = "wsp" THEN n ELSE pg.wsp
  /\ to.inner = IF Mounts(pg) = "inner" THEN n ELSE pg.inner

LEMMA MountsWhat ==
  ASSUME NEW pg
  PROVE  /\ Mounts(pg) \in {"index", "wsp", "inner", "none"}
         /\ Mounts(pg) = "index" => pg.at \in Inside /\ pg.index = 0
         /\ Mounts(pg) = "wsp" => pg.at \in Within /\ pg.loaded /\ pg.wsp = 0
         /\ Mounts(pg) = "inner" =>
              /\ pg.inner = 0
              /\ \/ pg.at \in Public
                 \/ pg.at \in Within /\ pg.loaded /\ pg.wsp # 0 /\ pg.ready
                 \/ pg.at \in {"workspaces", "account"} /\ pg.loaded
BY Zenon DEF Mounts

LEMMA MountPlaced ==
  ASSUME NEW pg, IsPage(pg), Nested(pg), Placed(pg),
         NEW n \in Nat, pg.index < n, pg.wsp < n, pg.inner < n,
         NEW to, to = MountedAs(pg, n)
  PROVE  Placed(to) /\ Mounting(pg, to, n)
<1>1. Mounting(pg, to, n)
  <2>1. CASE Mounts(pg) = "index"
    BY <2>1 DEF Mounting, MountedAs, IsPage
  <2>2. CASE Mounts(pg) = "wsp"
    BY <2>2 DEF Mounting, MountedAs, IsPage
  <2>3. CASE Mounts(pg) = "inner"
    BY <2>3 DEF Mounting, MountedAs, IsPage
  <2>4. CASE Mounts(pg) \notin {"index", "wsp", "inner"}
    BY <2>4 DEF Mounting, MountedAs, IsPage
  <2> QED BY <2>1, <2>2, <2>3, <2>4
<1>2. /\ pg.index \in Nat /\ pg.wsp \in Nat /\ pg.inner \in Nat /\ n # 0
      /\ n # pg.index /\ n # pg.wsp /\ n # pg.inner
  BY DEF IsPage
<1>3. /\ pg.at \in Within => pg.at \in Inside
      /\ pg.at \in {"workspaces", "account"} => pg.at \in Inside /\ pg.at \notin Within
      /\ pg.at \in Public => pg.at \notin Inside
  BY DEF Inside, Within, Public
<1>4. CASE Mounts(pg) = "index"
  BY <1>1, <1>2, <1>4, MountsWhat DEF Placed, Mounting
<1>5. CASE Mounts(pg) = "wsp"
  BY <1>1, <1>2, <1>3, <1>5, MountsWhat DEF Placed, Mounting, Nested
<1>6. CASE Mounts(pg) = "inner"
  BY <1>1, <1>2, <1>3, <1>6, MountsWhat DEF Placed, Mounting, Nested
<1>7. CASE Mounts(pg) = "none"
  BY <1>1, <1>7 DEF Placed, Mounting
<1> QED BY <1>1, <1>4, <1>5, <1>6, <1>7, MountsWhat

\* The calls that pages are opened with.
LEMMA OpensFrom ==
  ASSUME NEW pg, NEW i \in 1 .. Len(Opens(pg)), NEW op, op = Opens(pg)[i]
  PROVE  \/ op = "app" /\ Mounts(pg) = "index"
         \/ op = "projects" /\ Mounts(pg) = "wsp"
         \/ op \in {"logout", "verify"} /\ Mounts(pg) = "inner"
         \/ /\ op \in {"project", "link", "getInvite", "members", "invites", "keys"}
            /\ pg.at \in AtOf[op] /\ Mounts(pg) = "inner"
<1>1. CASE Mounts(pg) = "index"
  <2>1. Opens(pg) = <<"app">>
    BY <1>1 DEF Opens
  <2> QED BY <1>1, <2>1
<1>2. CASE Mounts(pg) = "wsp"
  <2>1. Opens(pg) = <<"projects">>
    BY <1>2 DEF Opens
  <2> QED BY <1>2, <2>1
<1>3. CASE Mounts(pg) = "inner" /\ pg.at \in DOMAIN OnMount
  <2>1. Opens(pg) = OnMount[pg.at]
    BY <1>3 DEF Opens
  <2>2. pg.at \in {"logout", "verify", "invite", "link", "account", "settings",
                   "subscription", "project"}
    BY <1>3 DEF OnMount
  <2>3. CASE pg.at = "settings"
    <3>1. Opens(pg) = <<"members", "invites">>
      BY <2>1, <2>3 DEF OnMount
    <3> QED BY <1>3, <2>3, <3>1 DEF AtOf
  <2>4. ASSUME NEW o, pg.at # "settings", Opens(pg) = <<o>> PROVE op = o
    BY <2>4
  <2>5. CASE pg.at \in {"logout", "verify"}
    BY <1>3, <2>1, <2>4, <2>5 DEF OnMount
  <2>6. CASE pg.at = "invite"
    <3>1. op = "getInvite"
      BY <2>1, <2>4, <2>6 DEF OnMount
    <3> QED BY <1>3, <2>6, <3>1 DEF AtOf
  <2>7. CASE pg.at = "link"
    <3>1. op = "link"
      BY <2>1, <2>4, <2>7 DEF OnMount
    <3> QED BY <1>3, <2>7, <3>1 DEF AtOf
  <2>8. CASE pg.at = "account"
    <3>1. op = "keys"
      BY <2>1, <2>4, <2>8 DEF OnMount
    <3> QED BY <1>3, <2>8, <3>1 DEF AtOf
  <2>9. CASE pg.at = "subscription"
    <3>1. op = "members"
      BY <2>1, <2>4, <2>9 DEF OnMount
    <3> QED BY <1>3, <2>9, <3>1 DEF AtOf
  <2>10. CASE pg.at = "project"
    <3>1. op = "project"
      BY <2>1, <2>4, <2>10 DEF OnMount
    <3> QED BY <1>3, <2>10, <3>1 DEF AtOf
  <2> QED BY <2>2, <2>3, <2>5, <2>6, <2>7, <2>8, <2>9, <2>10
<1>4. CASE /\ Mounts(pg) \notin {"index", "wsp"}
           /\ ~ (Mounts(pg) = "inner" /\ pg.at \in DOMAIN OnMount)
  <2>1. Opens(pg) = <<>>
    BY <1>4 DEF Opens
  <2> QED BY <2>1
<1> QED BY <1>1, <1>2, <1>3, <1>4

-----------------------------------------------------------------------------
(* Steps                                                                   *)

LEMMA CallIs ==
  ASSUME NEW op, NEW w, NEW x, NEW b, NEW c, c = Call(op, w, x, b)
  PROVE  /\ c.op = op /\ c.as = cookie' /\ c.ws = w /\ c.arg = x /\ c.by = b /\ c.here
         /\ c.state = "sent" /\ c.turn = 0
BY DEF Call

\* A page that may come next: one that another one is made of, or a new one.
Ready(pg) ==
  /\ IsPage(pg) /\ Nested(pg) /\ Placed(pg)
  /\ pg.index <= Sent /\ pg.wsp <= Sent /\ pg.inner <= Sent

LEMMA PageFits == ASSUME Base PROVE Ready(page)
BY SentIsLargest DEF Base, PagesInv, Ready

LEMMA KeptFits ==
  ASSUME Base, NEW pg, IsPage(pg), Nested(pg), Placed(pg), Kept(page, pg)
  PROVE  Ready(pg) /\ \A k \in DOMAIN calls : MadeBy(pg, calls[k])
<1>1. page.index <= Sent /\ page.wsp <= Sent /\ page.inner <= Sent /\ 0 <= Sent
  BY SentIsLargest DEF Base
<1>2. Ready(pg)
  BY <1>1 DEF Ready, Kept
<1>3. ASSUME NEW k \in DOMAIN calls PROVE MadeBy(pg, calls[k])
  BY DEF Base, MadeBy, Kept
<1> QED BY <1>2, <1>3

\* Where a step leads: a page pg is led on to another one, on which one more page may
\* be mounted.
LEMMA Leads ==
  ASSUME Base, NEW st, NEW pg, Ready(pg), NEW rest, rest \subseteq DOMAIN calls,
         NEW asked, Asks(asked), Proceed(st, pg, rest, asked)
  PROVE  \E to, n : /\ to = Led(pg, st) /\ n \in Nat /\ n > Sent /\ store' = st
                    /\ IsPage(to) /\ Nested(to) /\ Placed(to) /\ (to = pg \/ Kept(pg, to))
                    /\ to.index < n /\ to.wsp < n /\ to.inner < n
                    /\ Mounting(to, page', n) /\ Placed(page')
                    /\ Made(rest, asked, to, n)
<1>0. PagesInv /\ Sent \in Nat
  BY SentIsLargest DEF Base
<1>1. PICK to, n : /\ to = Led(pg, st) /\ page' = MountedAs(to, n)
                   /\ n \in Nat /\ n > Sent /\ Made(rest, asked, to, n)
  BY <1>0, ProceedsTo
<1>2. IsPage(to) /\ Nested(to)
  BY <1>1, LedFits DEF Ready
<1>3. Placed(to) /\ (to = pg \/ Kept(pg, to))
  BY <1>1, LedPlaced DEF Ready
<1>4. to.index < n /\ to.wsp < n /\ to.inner < n
  BY <1>0, <1>1, <1>2, <1>3 DEF Ready, Kept, IsPage
<1>5. PICK p : p = page'
  OBVIOUS
<1>6. Placed(p) /\ Mounting(to, p, n)
  <2>1. p = MountedAs(to, n)
    BY <1>1, <1>5
  <2> QED BY <1>1, <1>2, <1>3, <1>4, <2>1, MountPlaced
<1>7. store' = st
  BY DEF Proceed
<1> QED BY <1>1, <1>2, <1>3, <1>4, <1>5, <1>6, <1>7

\* A call that was made by a page of those kept was not made by one mounted now.
LEMMA MadeByKept ==
  ASSUME NEW pg, NEW to, to = pg \/ Kept(pg, to), NEW n \in Nat, NEW p, Mounting(to, p, n),
         NEW c, MadeBy(pg, c), c.by \in Nat, c.by < n
  PROVE  MadeBy(p, c)
<1>1. MadeBy(to, c)
  BY DEF MadeBy, Kept
<1> QED BY <1>1 DEF MadeBy, Mounting

LEMMA MadeByOpening ==
  ASSUME NEW to, IsPage(to), Placed(to), NEW n \in Nat, n # 0,
         to.index < n, to.wsp < n, to.inner < n,
         NEW p, Mounting(to, p, n), NEW i \in 1 .. Len(Opens(to)),
         NEW c, c.op = Opens(to)[i], c.by = n, c.state = "sent", c.turn = 0
  PROVE  MadeBy(p, c) /\ Served(c)
<1>1. PICK op : op = Opens(to)[i]
  OBVIOUS
<1>2. c.op = op /\ c.by = n /\ c.state = "sent" /\ c.turn = 0
  BY <1>1
<1>3. \/ op = "app" /\ Mounts(to) = "index"
      \/ op = "projects" /\ Mounts(to) = "wsp"
      \/ op \in {"logout", "verify"} /\ Mounts(to) = "inner"
      \/ /\ op \in {"project", "link", "getInvite", "members", "invites", "keys"}
         /\ to.at \in AtOf[op] /\ Mounts(to) = "inner"
  BY <1>1, OpensFrom
<1>4. to.index # n /\ to.wsp # n /\ to.inner # n
  BY DEF IsPage
<1>5. MadeBy(p, c)
  <2>1. op \in {"app", "projects", "logout", "verify"} => op \notin DOMAIN AtOf
    BY DEF AtOf
  <2> QED BY <1>2, <1>3, <1>4, <2>1 DEF MadeBy, Mounting
<1>6. Served(c)
  BY <1>2, <1>3 DEF Served
<1> QED BY <1>5, <1>6

LEMMA MadeByOpened ==
  ASSUME NEW to, IsPage(to), Placed(to), NEW n \in Nat, n # 0,
         to.index < n, to.wsp < n, to.inner < n,
         NEW p, Mounting(to, p, n), NEW i \in 1 .. Len(Opens(to)),
         NEW c, c = Call(Opens(to)[i], to.ws, to.arg, n)
  PROVE  MadeBy(p, c) /\ Served(c)
<1>1. PICK op : op = Opens(to)[i]
  OBVIOUS
<1>2. c.op = op /\ c.by = n /\ c.state = "sent" /\ c.turn = 0
  BY <1>1, CallIs
<1> QED BY <1>1, <1>2, MadeByOpening

LEMMA ProceedBase ==
  ASSUME Base, PagesInv', NEW st, NEW pg, Ready(pg), NEW rest, rest \subseteq DOMAIN calls,
         NEW asked, Asks(asked), Proceed(st, pg, rest, asked), Whole(st),
         \A k \in rest : MadeBy(pg, calls[k]),
         \A c : asked = <<c>> => /\ MadeBy(pg, c) /\ Served(c) /\ c.here
                                 /\ c.by \in Nat /\ c.by <= Sent /\ c.turn = 0,
         why \subseteq why', TablesFit'
  PROVE  Base'
<1>1. PICK to, n : /\ n \in Nat /\ n > Sent
                   /\ IsPage(to) /\ Nested(to) /\ Placed(to) /\ (to = pg \/ Kept(pg, to))
                   /\ to.index < n /\ to.wsp < n /\ to.inner < n
                   /\ Mounting(to, page', n) /\ Placed(page')
                   /\ Made(rest, asked, to, n)
  BY Leads
<1>2. Sent \in Nat /\ \A k \in DOMAIN calls : calls[k].by \in Nat /\ calls[k].by <= Sent
  BY SentIsLargest DEF Base, PagesInv, Numbered, IsCall
<1>3. PICK p, cs, R : p = page' /\ cs = calls' /\ R = DOMAIN calls'
  OBVIOUS
<1>4. ASSUME NEW k \in R
      PROVE  /\ MadeBy(p, cs[k]) /\ Served(cs[k]) /\ ("reload" \in why \/ cs[k].here)
             /\ \/ k \in rest /\ cs[k] = calls[k]
                \/ k \notin rest /\ cs[k].turn = 0
  <2>1. CASE k \in rest
    <3>1. cs[k] = calls[k] /\ MadeBy(pg, cs[k]) /\ Served(cs[k]) /\ ("reload" \in why \/ cs[k].here)
      BY <1>1, <1>3, <2>1 DEF Made, Base, AllHere
    <3>2. cs[k].by \in Nat /\ cs[k].by < n
      BY <1>1, <1>2, <2>1, <3>1
    <3> QED BY <1>1, <1>3, <2>1, <3>1, <3>2, MadeByKept
  <2>2. CASE k \notin rest /\ asked = <<cs[k]>>
    <3>1. /\ MadeBy(pg, cs[k]) /\ Served(cs[k]) /\ cs[k].here
          /\ cs[k].by \in Nat /\ cs[k].by <= Sent /\ cs[k].turn = 0
      BY <2>2
    <3>2. cs[k].by < n
      BY <1>1, <1>2, <3>1
    <3> QED BY <1>1, <1>3, <2>2, <3>1, <3>2, MadeByKept
  <2>3. ASSUME NEW i \in 1 .. Len(Opens(to)), k \notin rest,
               cs[k] = Call(Opens(to)[i], to.ws, to.arg, n)
        PROVE  MadeBy(p, cs[k]) /\ Served(cs[k]) /\ cs[k].here /\ cs[k].turn = 0
    <3>1. cs[k].here /\ cs[k].turn = 0
      BY <2>3, CallIs
    <3>2. n # 0
      BY <1>1, <1>2
    <3> QED BY <1>1, <1>3, <2>3, <3>1, <3>2, MadeByOpened
  <2> QED BY <1>1, <1>3, <2>1, <2>2, <2>3 DEF Made
<1>5. InTurn'
  <2>1. PICK m \in Nat : \A k \in DOMAIN calls : calls[k].turn <= m
    BY DEF Base, InTurn
  <2>2. \A k \in R : cs[k].turn <= m
    BY <1>4, <2>1
  <2>3. ASSUME NEW j \in R, NEW k \in R, j # k, cs[j].turn # 0
        PROVE  cs[j].turn # cs[k].turn
    <3>1. j \in rest /\ cs[j] = calls[j]
      BY <1>4, <2>3
    <3>2. CASE k \in rest
      <4>1. cs[k] = calls[k]
        BY <1>4, <3>2
      <4> QED BY <2>3, <3>1, <3>2, <4>1 DEF Base, InTurn
    <3>3. CASE k \notin rest
      BY <1>4, <2>3, <3>3
    <3> QED BY <3>2, <3>3
  <2> QED BY <1>3, <2>2, <2>3 DEF InTurn
<1>6. "reload" \in why' \/ AllHere'
  BY <1>3, <1>4 DEF AllHere
<1>7. Whole(store)'
  BY DEF Proceed, Whole
<1> QED BY <1>1, <1>3, <1>4, <1>5, <1>6, <1>7 DEF Base

\* A full load of an address: only what the orphans still change is left.
LEMMA LoadsTo ==
  ASSUME Base, NEW at, NEW w, NEW x, NEW rest, rest \subseteq DOMAIN calls,
         Reload(at, w, x, rest)
  PROVE  \E to, n : /\ to = Address(at, w, x) /\ n \in Nat /\ n > Sent /\ store' = NoTab
                    /\ Mounting(to, page', n) /\ Placed(page')
                    /\ Orphans(rest) \subseteq DOMAIN calls'
                    /\ \A k \in Orphans(rest) : calls'[k] = [calls[k] EXCEPT !.here = FALSE]
                    /\ \A j \in DOMAIN calls' \ Orphans(rest) :
                         \E i \in 1 .. Len(Opens(to)) : calls'[j] = Call(Opens(to)[i], w, x, n)
                    /\ \A i \in 1 .. Len(Opens(to)) :
                         \E j \in DOMAIN calls' \ Orphans(rest) :
                           calls'[j] = Call(Opens(to)[i], w, x, n)
<1>1. PICK to : to = Address(at, w, x)
  OBVIOUS
<1>2. PICK s : s = Sent
  OBVIOUS
<1>3. PICK n : n = s + 1
  OBVIOUS
<1>4. PICK o : o = Opens(to)
  OBVIOUS
<1>5. PICK kept : kept = Orphans(rest)
  OBVIOUS
<1>6. /\ page' = MountedAs(to, n) /\ store' = NoTab
      /\ calls' = [k \in kept \cup {s + i : i \in DOMAIN o} |->
                     IF k \in kept THEN [calls[k] EXCEPT !.here = FALSE]
                                    ELSE Call(o[k - s], w, x, n)]
  BY <1>1, <1>2, <1>3, <1>4, <1>5 DEF Reload
<1>7. /\ s \in Nat /\ n \in Nat /\ n > s
      /\ \A k \in DOMAIN calls : k \in Nat /\ k <= s
  BY <1>2, <1>3, SentIsLargest DEF Base, PagesInv, Numbered
<1>8. kept \subseteq DOMAIN calls
  BY <1>5 DEF Orphans
<1>9. Len(o) \in Nat /\ DOMAIN o = 1 .. Len(o)
  BY <1>4, OpensOf
<1>10. IsPage(to) /\ Nested(to) /\ Placed(to) /\ to.index = 0 /\ to.wsp = 0 /\ to.inner = 0
  BY <1>1, AddressFits, AddressPlaced
<1>11. PICK p : p = page'
  OBVIOUS
<1>12. Mounting(to, p, n) /\ Placed(p)
  <2>1. p = MountedAs(to, n)
    BY <1>6, <1>11
  <2>2. to.index < n /\ to.wsp < n /\ to.inner < n
    BY <1>7, <1>10
  <2> QED BY <1>7, <1>10, <2>1, <2>2, MountPlaced
<1>13. kept \subseteq DOMAIN calls' /\ \A k \in kept : calls'[k] = [calls[k] EXCEPT !.here = FALSE]
  BY <1>6
<1>14. ASSUME NEW i \in 1 .. Len(o)
       PROVE  s + i \in DOMAIN calls' \ kept /\ calls'[s + i] = Call(o[i], w, x, n)
  <2>1. s + i \in DOMAIN calls' /\ s + i \notin kept
    BY <1>6, <1>7, <1>8, <1>9
  <2>2. (s + i) - s = i
    BY <1>7, <1>9
  <2> QED BY <1>6, <2>1, <2>2
<1>15. ASSUME NEW j \in DOMAIN calls' \ kept
       PROVE  \E i \in 1 .. Len(o) : calls'[j] = Call(o[i], w, x, n)
  <2>1. PICK i \in 1 .. Len(o) : j = s + i
    BY <1>6, <1>9
  <2> QED BY <1>14, <2>1
<1>16. n \in Nat /\ n > Sent /\ store' = NoTab /\ Mounting(to, page', n) /\ Placed(page')
  BY <1>2, <1>6, <1>7, <1>11, <1>12
<1>17. /\ \A j \in DOMAIN calls' \ Orphans(rest) :
            \E i \in 1 .. Len(Opens(to)) : calls'[j] = Call(Opens(to)[i], w, x, n)
       /\ \A i \in 1 .. Len(Opens(to)) :
            \E j \in DOMAIN calls' \ Orphans(rest) : calls'[j] = Call(Opens(to)[i], w, x, n)
  BY <1>4, <1>5, <1>14, <1>15
<1> QED BY <1>1, <1>5, <1>13, <1>16, <1>17

LEMMA LoadBase ==
  ASSUME Base, PagesInv', NEW at, NEW w, NEW x, NEW rest, rest \subseteq DOMAIN calls,
         Reload(at, w, x, rest), Orphans(rest) # {} => "reload" \in why', TablesFit'
  PROVE  Base'
<1>1. PICK to, n : /\ to = Address(at, w, x) /\ n \in Nat /\ n > Sent
                   /\ Mounting(to, page', n) /\ Placed(page')
                   /\ Orphans(rest) \subseteq DOMAIN calls'
                   /\ \A k \in Orphans(rest) : calls'[k] = [calls[k] EXCEPT !.here = FALSE]
                   /\ \A j \in DOMAIN calls' \ Orphans(rest) :
                        \E i \in 1 .. Len(Opens(to)) : calls'[j] = Call(Opens(to)[i], w, x, n)
  BY LoadsTo
<1>2. Sent \in Nat /\ \A k \in DOMAIN calls : calls[k].by \in Nat /\ calls[k].by <= Sent
  BY SentIsLargest DEF Base, PagesInv, Numbered, IsCall
<1>3. PICK p, cs, R, kept : p = page' /\ cs = calls' /\ R = DOMAIN calls' /\ kept = Orphans(rest)
  OBVIOUS
<1>4. /\ IsPage(to) /\ Nested(to) /\ Placed(to) /\ to.ws = w /\ to.arg = x
      /\ to.index = 0 /\ to.wsp = 0 /\ to.inner = 0
  BY <1>1, AddressFits, AddressPlaced
<1>5. n # 0 /\ 0 < n
  BY <1>1, <1>2
<1>6. ASSUME NEW k \in kept
      PROVE  /\ k \in DOMAIN calls /\ k \in R /\ cs[k].op = calls[k].op
             /\ cs[k].turn = calls[k].turn /\ MadeBy(p, cs[k]) /\ Served(cs[k])
  <2>1. k \in DOMAIN calls /\ calls[k].op \notin Loads /\ calls[k].state = "sent"
    BY <1>3 DEF Orphans
  <2>2. cs[k] = [calls[k] EXCEPT !.here = FALSE] /\ IsCall(calls[k]) /\ k \in R
    BY <1>1, <1>3, <2>1 DEF Base, PagesInv, Numbered
  <2>3. /\ cs[k].op = calls[k].op /\ cs[k].as = calls[k].as /\ cs[k].ws = calls[k].ws
        /\ cs[k].arg = calls[k].arg /\ cs[k].by = calls[k].by /\ cs[k].turn = calls[k].turn
        /\ cs[k].state = calls[k].state
    BY <2>2 DEF IsCall
  <2>4. Served(cs[k])
    BY <2>1, <2>3 DEF Base, Served
  <2>5. calls[k].op \notin {"projects", "project", "link", "app"}
    BY <2>1 DEF Loads
  <2>6. calls[k].by < n
    BY <1>1, <1>2, <2>1
  <2>7. MadeBy(p, cs[k])
    <3>1. p.inner = 0 \/ p.inner = n
      BY <1>1, <1>3, <1>4 DEF Mounting
    <3>2. MadeBy(page, calls[k])
      BY <2>1 DEF Base
    <3> QED BY <1>2, <1>5, <2>1, <2>3, <2>5, <2>6, <3>1, <3>2 DEF MadeBy
  <2> QED BY <2>1, <2>2, <2>3, <2>4, <2>7
<1>7. ASSUME NEW k \in R, k \notin kept
      PROVE  MadeBy(p, cs[k]) /\ Served(cs[k]) /\ cs[k].here /\ cs[k].turn = 0
  <2>1. PICK i \in 1 .. Len(Opens(to)) : cs[k] = Call(Opens(to)[i], to.ws, to.arg, n)
    BY <1>1, <1>3, <1>4, <1>7
  <2>2. cs[k].here /\ cs[k].turn = 0
    BY <2>1, CallIs
  <2> QED BY <1>1, <1>3, <1>4, <1>5, <2>1, <2>2, MadeByOpened
<1>8. InTurn'
  <2>1. PICK m \in Nat : \A k \in DOMAIN calls : calls[k].turn <= m
    BY DEF Base, InTurn
  <2>2. \A k \in R : cs[k].turn <= m
    BY <1>6, <1>7, <2>1
  <2>3. ASSUME NEW j \in R, NEW k \in R, j # k, cs[j].turn # 0
        PROVE  cs[j].turn # cs[k].turn
    BY <1>6, <1>7, <2>3 DEF Base, InTurn
  <2> QED BY <1>3, <2>2, <2>3 DEF InTurn
<1>9. "reload" \in why' \/ AllHere'
  BY <1>3, <1>7 DEF AllHere
<1>10. Whole(store)'
  BY DEF Reload, NoTab, Whole
<1> QED BY <1>1, <1>3, <1>6, <1>7, <1>8, <1>9, <1>10 DEF Base

-----------------------------------------------------------------------------
(* The server                                                              *)

\* The calls that change members, and those that change projects, invites, keys and
\* accounts.
MemberOps == {"signup", "createWorkspace", "acceptInvite", "level", "removeMember", "leave",
              "deleteWorkspace", "deleteAccount"}

\* The memberships in a workspace, and those of an account.
RowsIn(w) == {m \in DOMAIN db.level : m[2] = w}
RowsOf(a) == {m \in DOMAIN db.level : m[1] = a}

LEMMA EffectIs ==
  ASSUME TablesFit, NEW c, NEW d, d = Effect(c)
  PROVE  /\ d = [accounts |-> d.accounts, level |-> d.level, home |-> d.home,
                 invites |-> d.invites, keys |-> d.keys]
         /\ c.op \notin MemberOps => d.level = db.level
         /\ c.op \notin {"createProject", "deleteWorkspace"} => d.home = db.home
         /\ c.op \notin {"acceptInvite", "deleteWorkspace", "invite", "cancelInvite"} =>
              d.invites = db.invites
         /\ c.op \notin {"deleteAccount", "createKey", "revokeKey"} => d.keys = db.keys
         /\ c.op \notin {"signup", "deleteAccount"} => d.accounts = db.accounts
         /\ c.op = "signup" => /\ d.accounts = db.accounts \cup {c.arg}
                               /\ d.level = With(db.level, <<c.arg, c.ws>>, "OWNER")
         /\ c.op = "createWorkspace" => d.level = With(db.level, <<c.as, c.ws>>, "OWNER")
         /\ c.op = "acceptInvite" =>
              /\ d.level = With(db.level, <<Invitee[c.arg], db.invites[c.arg]>>, "VIEWER")
              /\ d.invites = Drop(db.invites, {c.arg})
         /\ c.op = "createProject" => d.home = With(db.home, c.arg, c.ws)
         /\ c.op = "level" => d.level = [db.level EXCEPT ![<<c.arg[1], c.ws>>] = c.arg[2]]
         /\ c.op = "removeMember" => d.level = Drop(db.level, {<<c.arg, c.ws>>})
         /\ c.op = "leave" => d.level = Drop(db.level, {<<c.as, c.ws>>})
         /\ c.op = "deleteWorkspace" =>
              /\ d.level = Drop(db.level, RowsIn(c.ws))
              /\ d.home = Drop(db.home, ProjectsOf(c.ws))
              /\ d.invites = Drop(db.invites, InvitesOf(c.ws))
         /\ c.op = "deleteAccount" =>
              /\ d.accounts = db.accounts \ {c.as}
              /\ d.level = Drop(db.level, RowsOf(c.as))
              /\ d.keys = Drop(db.keys, KeysOf(c.as))
         /\ c.op = "invite" => d.invites = With(db.invites, c.arg, c.ws)
         /\ c.op = "cancelInvite" => d.invites = Drop(db.invites, {c.arg})
         /\ c.op = "createKey" => d.keys = With(db.keys, c.arg, c.as)
         /\ c.op = "revokeKey" => d.keys = Drop(db.keys, {c.arg})
<1>0. db = [accounts |-> db.accounts, level |-> db.level, home |-> db.home,
            invites |-> db.invites, keys |-> db.keys]
  BY DEF TablesFit
<1>1. CASE c.op = "signup"
  BY <1>0, <1>1 DEF Effect, MemberOps
<1>2. CASE c.op = "createWorkspace"
  BY <1>0, <1>2 DEF Effect, MemberOps
<1>3. CASE c.op = "acceptInvite"
  BY <1>0, <1>3 DEF Effect, MemberOps
<1>4. CASE c.op = "createProject"
  BY <1>0, <1>4 DEF Effect, MemberOps
<1>5. CASE c.op = "level"
  BY <1>0, <1>5 DEF Effect, MemberOps
<1>6. CASE c.op = "removeMember"
  BY <1>0, <1>6 DEF Effect, MemberOps
<1>7. CASE c.op = "leave"
  BY <1>0, <1>7 DEF Effect, MemberOps
<1>8. CASE c.op = "deleteWorkspace"
  BY <1>0, <1>8 DEF Effect, MemberOps, RowsIn, RowsOf
<1>9. CASE c.op = "deleteAccount"
  BY <1>0, <1>9 DEF Effect, MemberOps, RowsIn, RowsOf
<1>10. CASE c.op = "invite"
  BY <1>0, <1>10 DEF Effect, MemberOps
<1>11. CASE c.op = "cancelInvite"
  BY <1>0, <1>11 DEF Effect, MemberOps
<1>12. CASE c.op = "createKey"
  BY <1>0, <1>12 DEF Effect, MemberOps
<1>13. CASE c.op = "revokeKey"
  BY <1>0, <1>13 DEF Effect, MemberOps
<1>14. CASE c.op \notin MemberOps \cup {"createProject", "invite", "cancelInvite", "createKey",
                                       "revokeKey"}
  <2>1. d = db
    BY <1>14 DEF Effect, MemberOps
  <2> QED BY <1>0, <1>14, <2>1 DEF MemberOps
<1> QED BY <1>1, <1>2, <1>3, <1>4, <1>5, <1>6, <1>7, <1>8, <1>9, <1>10, <1>11, <1>12, <1>13,
           <1>14 DEF MemberOps

\* What the tables hold, written for tables that need not be those of the server.
DropIs(f, g, gone) == DOMAIN g = DOMAIN f \ gone /\ \A z \in DOMAIN g : g[z] = f[z]

WithIs(f, g, x, y) ==
  DOMAIN g = DOMAIN f \cup {x} /\ g[x] = y /\ \A z \in DOMAIN f : z # x => g[z] = f[z]

LEMMA DropDrops == \A f, gone : IsFcn(Drop(f, gone)) /\ DropIs(f, Drop(f, gone), gone)
BY DEF Drop, Restrict, DropIs, IsFcn

LEMMA WithAdds == \A f, x, y : IsFcn(With(f, x, y)) /\ WithIs(f, With(f, x, y), x, y)
BY DEF With, IsFcn, WithIs

LEMMA WithFits ==
  ASSUME NEW f, NEW x, NEW y, NEW g, g = With(f, x, y)
  PROVE  /\ LevelsFit(f) /\ x \in Accounts \X Workspaces => LevelsFit(g)
         /\ InvitesFit(f) /\ y \in Workspaces => InvitesFit(g)
<1>1. IsFcn(g) /\ WithIs(f, g, x, y)
  BY WithAdds
<1> QED BY <1>1 DEF LevelsFit, InvitesFit, WithIs

LEMMA DropFits ==
  ASSUME NEW f, NEW gone, NEW g, g = Drop(f, gone)
  PROVE  (LevelsFit(f) => LevelsFit(g)) /\ (InvitesFit(f) => InvitesFit(g))
<1>1. IsFcn(g) /\ DropIs(f, g, gone)
  BY DropDrops
<1> QED BY <1>1 DEF LevelsFit, InvitesFit, DropIs

\* An effect keeps the tables in order.
LEMMA EffectFits ==
  ASSUME TablesFit, NEW c, Served(c), Allowed(c), db' = Effect(c)
  PROVE  TablesFit'
<1>1. PICK d : d = Effect(c)
  OBVIOUS
<1>2. PICK l, h, v, y : l = db.level /\ h = db.home /\ v = db.invites /\ y = db.keys
  OBVIOUS
<1>3. LevelsFit(l) /\ IsFcn(h) /\ InvitesFit(v) /\ IsFcn(y) /\ db.accounts \subseteq Accounts
  BY <1>2 DEF TablesFit
<1>4. PICK ml, mh, mv, my : ml = d.level /\ mh = d.home /\ mv = d.invites /\ my = d.keys
  OBVIOUS
<1>5. d.accounts \subseteq Accounts
  <2>1. CASE c.op = "signup"
    <3>1. d.accounts = db.accounts \cup {c.arg}
      BY <1>1, <2>1, EffectIs
    <3> QED BY <1>3, <2>1, <3>1 DEF Served
  <2>2. CASE c.op = "deleteAccount"
    <3>1. d.accounts = db.accounts \ {c.as}
      BY <1>1, <2>2, EffectIs
    <3> QED BY <1>3, <3>1
  <2>3. CASE c.op \notin {"signup", "deleteAccount"}
    <3>1. d.accounts = db.accounts
      BY <1>1, <2>3, EffectIs
    <3> QED BY <1>3, <3>1
  <2> QED BY <2>1, <2>2, <2>3
<1>6. LevelsFit(ml)
  <2>1. CASE c.op \notin MemberOps
    <3>1. ml = l
      BY <1>1, <1>2, <1>4, <2>1, EffectIs
    <3> QED BY <1>3, <3>1
  <2>2. CASE c.op = "signup"
    <3>1. ml = With(l, <<c.arg, c.ws>>, "OWNER")
      BY <1>1, <1>2, <1>4, <2>2, EffectIs
    <3>2. <<c.arg, c.ws>> \in Accounts \X Workspaces
      BY <2>2 DEF Served
    <3> QED BY <1>3, <3>1, <3>2, WithFits
  <2>3. CASE c.op = "createWorkspace"
    <3>1. ml = With(l, <<c.as, c.ws>>, "OWNER")
      BY <1>1, <1>2, <1>4, <2>3, EffectIs
    <3>2. c.as \in db.accounts
      BY <2>3 DEF Allowed, Anyone, LoggedIn, Takes
    <3>3. <<c.as, c.ws>> \in Accounts \X Workspaces
      BY <1>3, <2>3, <3>2 DEF Served
    <3> QED BY <1>3, <3>1, <3>3, WithFits
  <2>4. CASE c.op = "acceptInvite"
    <3>1. ml = With(l, <<Invitee[c.arg], v[c.arg]>>, "VIEWER")
      BY <1>1, <1>2, <1>4, <2>4, EffectIs
    <3>2. c.arg \in DOMAIN v /\ Invitee[c.arg] \in db.accounts
      BY <1>2, <2>4 DEF Allowed, Fits
    <3>3. <<Invitee[c.arg], v[c.arg]>> \in Accounts \X Workspaces
      BY <1>3, <3>2 DEF InvitesFit
    <3> QED BY <1>3, <3>1, <3>3, WithFits
  <2>5. CASE c.op = "level"
    <3>1. d.level = [db.level EXCEPT ![<<c.arg[1], c.ws>>] = c.arg[2]]
      BY <1>1, <2>5, EffectIs
    <3>2. ml = [l EXCEPT ![<<c.arg[1], c.ws>>] = c.arg[2]]
      BY <1>2, <1>4, <3>1
    <3> QED BY <1>3, <3>2 DEF LevelsFit, IsFcn
  <2>6. CASE c.op \in {"removeMember", "leave", "deleteWorkspace", "deleteAccount"}
    <3>1. \E gone : d.level = Drop(db.level, gone)
      <4>1. CASE c.op = "removeMember"
        <5>1. d.level = Drop(db.level, {<<c.arg, c.ws>>})
          BY <1>1, <4>1, EffectIs
        <5> QED BY <5>1
      <4>2. CASE c.op = "leave"
        <5>1. d.level = Drop(db.level, {<<c.as, c.ws>>})
          BY <1>1, <4>2, EffectIs
        <5> QED BY <5>1
      <4>3. CASE c.op = "deleteWorkspace"
        <5>1. d.level = Drop(db.level, RowsIn(c.ws))
          BY <1>1, <4>3, EffectIs
        <5> QED BY <5>1
      <4>4. CASE c.op = "deleteAccount"
        <5>1. d.level = Drop(db.level, RowsOf(c.as))
          BY <1>1, <4>4, EffectIs
        <5> QED BY <5>1
      <4> QED BY <2>6, <4>1, <4>2, <4>3, <4>4
    <3>2. \E gone : ml = Drop(l, gone)
      BY <1>2, <1>4, <3>1
    <3> QED BY <1>3, <3>2, DropFits
  <2> QED BY <2>1, <2>2, <2>3, <2>4, <2>5, <2>6 DEF MemberOps
<1>7. IsFcn(mh)
  <2>1. \/ d.home = db.home \/ (\E x, z : d.home = With(db.home, x, z))
        \/ \E gone : d.home = Drop(db.home, gone)
    <3>1. CASE c.op = "createProject"
      <4>1. d.home = With(db.home, c.arg, c.ws)
        BY <1>1, <3>1, EffectIs
      <4> QED BY <4>1
    <3>2. CASE c.op = "deleteWorkspace"
      <4>1. d.home = Drop(db.home, ProjectsOf(c.ws))
        BY <1>1, <3>2, EffectIs
      <4> QED BY <4>1
    <3>3. CASE c.op \notin {"createProject", "deleteWorkspace"}
      <4>1. d.home = db.home
        BY <1>1, <3>3, EffectIs
      <4> QED BY <4>1
    <3> QED BY <3>1, <3>2, <3>3
  <2>2. mh = h \/ (\E x, z : mh = With(h, x, z)) \/ \E gone : mh = Drop(h, gone)
    BY <1>2, <1>4, <2>1
  <2> QED BY <1>3, <2>2, WithAdds, DropDrops
<1>8. InvitesFit(mv)
  <2>1. CASE c.op \notin {"acceptInvite", "deleteWorkspace", "invite", "cancelInvite"}
    <3>1. mv = v
      BY <1>1, <1>2, <1>4, <2>1, EffectIs
    <3> QED BY <1>3, <3>1
  <2>2. CASE c.op \in {"acceptInvite", "deleteWorkspace", "cancelInvite"}
    <3>1. \E gone : d.invites = Drop(db.invites, gone)
      <4>1. CASE c.op = "acceptInvite"
        <5>1. d.invites = Drop(db.invites, {c.arg})
          BY <1>1, <4>1, EffectIs
        <5> QED BY <5>1
      <4>2. CASE c.op = "deleteWorkspace"
        <5>1. d.invites = Drop(db.invites, InvitesOf(c.ws))
          BY <1>1, <4>2, EffectIs
        <5> QED BY <5>1
      <4>3. CASE c.op = "cancelInvite"
        <5>1. d.invites = Drop(db.invites, {c.arg})
          BY <1>1, <4>3, EffectIs
        <5> QED BY <5>1
      <4> QED BY <2>2, <4>1, <4>2, <4>3
    <3>2. \E gone : mv = Drop(v, gone)
      BY <1>2, <1>4, <3>1
    <3> QED BY <1>3, <3>2, DropFits
  <2>3. CASE c.op = "invite"
    <3>1. mv = With(v, c.arg, c.ws)
      BY <1>1, <1>2, <1>4, <2>3, EffectIs
    <3>2. <<c.as, c.ws>> \in DOMAIN l
      BY <1>2, <2>3 DEF Allowed, Anyone, LoggedIn
    <3>3. c.ws \in Workspaces
      BY <1>3, <3>2 DEF LevelsFit
    <3> QED BY <1>3, <3>1, <3>3, WithFits
  <2> QED BY <2>1, <2>2, <2>3
<1>9. IsFcn(my)
  <2>1. \/ d.keys = db.keys \/ (\E x, z : d.keys = With(db.keys, x, z))
        \/ \E gone : d.keys = Drop(db.keys, gone)
    <3>1. CASE c.op = "createKey"
      <4>1. d.keys = With(db.keys, c.arg, c.as)
        BY <1>1, <3>1, EffectIs
      <4> QED BY <4>1
    <3>2. CASE c.op = "revokeKey"
      <4>1. d.keys = Drop(db.keys, {c.arg})
        BY <1>1, <3>2, EffectIs
      <4> QED BY <4>1
    <3>3. CASE c.op = "deleteAccount"
      <4>1. d.keys = Drop(db.keys, KeysOf(c.as))
        BY <1>1, <3>3, EffectIs
      <4> QED BY <4>1
    <3>4. CASE c.op \notin {"createKey", "revokeKey", "deleteAccount"}
      <4>1. d.keys = db.keys
        BY <1>1, <3>4, EffectIs
      <4> QED BY <4>1
    <3> QED BY <3>1, <3>2, <3>3, <3>4
  <2>2. my = y \/ (\E x, z : my = With(y, x, z)) \/ \E gone : my = Drop(y, gone)
    BY <1>2, <1>4, <2>1
  <2> QED BY <1>3, <2>2, WithAdds, DropDrops
<1>10. /\ LevelsFit(d.level) /\ IsFcn(d.home) /\ InvitesFit(d.invites) /\ IsFcn(d.keys)
  BY <1>4, <1>6, <1>7, <1>8, <1>9
<1>11. d = [accounts |-> d.accounts, level |-> d.level, home |-> d.home,
            invites |-> d.invites, keys |-> d.keys]
  BY <1>1, EffectIs
<1>12. db' = d
  BY <1>1
<1> QED BY <1>5, <1>10, <1>11, <1>12 DEF TablesFit

\* The page told something: the same pages are mounted, at the same address.
Tells(pg, qg) ==
  /\ IsPage(qg) /\ Nested(qg) /\ Placed(qg)
  /\ qg.at = pg.at /\ qg.ws = pg.ws /\ qg.arg = pg.arg
  /\ qg.index = pg.index /\ qg.wsp = pg.wsp /\ qg.inner = pg.inner

LEMMA TellsFits ==
  ASSUME Base, NEW pg, Tells(page, pg)
  PROVE  Ready(pg) /\ \A k \in DOMAIN calls : MadeBy(pg, calls[k])
<1>1. page.index <= Sent /\ page.wsp <= Sent /\ page.inner <= Sent
  BY SentIsLargest DEF Base
<1>2. Ready(pg)
  BY <1>1 DEF Ready, Tells
<1>3. ASSUME NEW k \in DOMAIN calls PROVE MadeBy(pg, calls[k])
  BY DEF Base, MadeBy, Tells
<1> QED BY <1>2, <1>3

LEMMA TellsNothing == ASSUME Base PROVE Tells(page, page)
BY DEF Base, PagesInv, Tells

\* A call made by a form or after an answer.
Asked(pg, c) ==
  /\ MadeBy(pg, c) /\ Served(c) /\ IsCall(c) /\ c.here /\ c.state = "sent" /\ c.turn = 0
  /\ c.by <= Sent /\ c.as = cookie' /\ c.op \notin {"app", "projects", "link", "getInvite"}

\* A step within the document.
Moves(rest, st, pg, asked) ==
  /\ Proceed(st, pg, rest, asked) /\ rest \subseteq DOMAIN calls /\ Whole(st)
  /\ Ready(pg) /\ \A k \in rest : MadeBy(pg, calls[k])
  /\ asked = <<>> \/ \E c : asked = <<c>> /\ Asked(pg, c)
  /\ db' = db /\ why \subseteq why'

LEMMA MovesAsk ==
  ASSUME NEW pg, NEW asked, asked = <<>> \/ \E c : asked = <<c>> /\ Asked(pg, c)
  PROVE  Asks(asked) /\ \A c : asked = <<c>> => Asked(pg, c)
<1>1. CASE asked = <<>>
  <2>1. \A c : asked # <<c>>
    BY <1>1
  <2> QED BY <1>1, <2>1 DEF Asks
<1>2. CASE \E c : asked = <<c>> /\ Asked(pg, c)
  <2>1. PICK c : asked = <<c>> /\ Asked(pg, c)
    BY <1>2
  <2>2. \A d : asked = <<d>> => d = c
    BY <2>1
  <2> QED BY <2>1, <2>2 DEF Asks, Asked
<1> QED BY <1>1, <1>2

LEMMA MovesBase ==
  ASSUME Base, PagesInv', NEW rest, NEW st, NEW pg, NEW asked, Moves(rest, st, pg, asked)
  PROVE  Base'
<1>1. Asks(asked) /\ \A c : asked = <<c>> => Asked(pg, c)
  BY MovesAsk DEF Moves
<1>2. TablesFit'
  BY DEF Base, TablesFit, Moves
<1>3. \A c : asked = <<c>> => /\ MadeBy(pg, c) /\ Served(c) /\ c.here
                              /\ c.by \in Nat /\ c.by <= Sent /\ c.turn = 0
  BY <1>1 DEF Asked, IsCall
<1>4. /\ Ready(pg) /\ rest \subseteq DOMAIN calls /\ Proceed(st, pg, rest, asked)
      /\ why \subseteq why' /\ Whole(st) /\ \A k \in rest : MadeBy(pg, calls[k])
  BY DEF Moves
<1> QED BY <1>1, <1>2, <1>3, <1>4, ProceedBase

\* Where it leads.
LEMMA MovesTo ==
  ASSUME Base, NEW rest, NEW st, NEW pg, NEW asked, Moves(rest, st, pg, asked)
  PROVE  \E to, n : /\ to = Led(pg, st) /\ n \in Nat /\ n > Sent /\ store' = st
                    /\ IsPage(to) /\ Nested(to) /\ Placed(to) /\ (to = pg \/ Kept(pg, to))
                    /\ to.index < n /\ to.wsp < n /\ to.inner < n
                    /\ Mounting(to, page', n) /\ Placed(page')
                    /\ Made(rest, asked, to, n)
<1>1. Asks(asked)
  BY MovesAsk DEF Moves
<1> QED BY <1>1, Leads DEF Moves

LEMMA MovesOn ==
  ASSUME Base, NEW rest, rest \subseteq DOMAIN calls, NEW st, NEW pg, Tells(page, pg) \/ Kept(page, pg),
         IsPage(pg), Nested(pg), Placed(pg),
         NEW asked, asked = <<>> \/ \E c : asked = <<c>> /\ Asked(pg, c),
         Proceed(st, pg, rest, asked), Whole(st), db' = db, why \subseteq why'
  PROVE  Moves(rest, st, pg, asked)
BY TellsFits, KeptFits DEF Moves

-----------------------------------------------------------------------------
(* What each action is                                                     *)

\* A form sends a call for the page within.
Forms == {"login", "signup", "sendReset", "setPassword", "contact", "acceptInvite",
          "resendEmail", "changeEmail", "changeName", "deleteAccount", "createKey", "revokeKey",
          "createWorkspace", "createProject", "removeMember", "level", "leave",
          "deleteWorkspace", "info", "invite", "cancelInvite", "resend", "checkout",
          "changePlan"}

Sends(op, w, x) ==
  /\ op \in Forms
  /\ op = "signup" => x \in Accounts /\ w \in Workspaces
  /\ op = "createWorkspace" => w \in Workspaces
  /\ op = "acceptInvite" => page.inner # 0
  /\ op \in {"level", "removeMember"} =>
       /\ OnSettings
       /\ (IF op = "level" THEN x[1] ELSE x) # store.app.account
  /\ op = "createProject" =>
       x \in Unused(Projects \ DOMAIN db.home, "createProject") /\ page.ready /\ w = page.ws
  /\ op = "createKey" => x \in Unused(Keys \ DOMAIN db.keys, "createKey") /\ Logged
  /\ op = "revokeKey" => x \in page.keys
  /\ op = "invite" => x \in Unused(Invites \ DOMAIN db.invites, "invite") /\ w = page.ws
  /\ op \in DOMAIN AtOf => page.at \in AtOf[op]
  /\ op \in {"level", "removeMember", "invite", "cancelInvite", "resend"} =>
       page.inner # 0 /\ w = page.ws

LEMMA FormSends ==
  ASSUME Base, FormSent
  PROVE  \E op, w, x : Ask(op, w, x) /\ Sends(op, w, x)
<1>1. CASE \E a \in Accounts : LogIn(a) \/ \E w \in Workspaces : SignUp(a, w)
  BY <1>1 DEF LogIn, SignUp, Sends, Forms, AtOf
<1>2. CASE SendReset \/ SetPassword \/ SendContact
  BY <1>2 DEF SendReset, SetPassword, SendContact, Sends, Forms, AtOf
<1>3. CASE AcceptInvite
  BY <1>3 DEF AcceptInvite, Sends, Forms, AtOf, Base, Placed
<1>4. CASE ResendEmail \/ ChangeEmail \/ ChangeName \/ DeleteAccount
  BY <1>4 DEF ResendEmail, ChangeEmail, ChangeName, DeleteAccount, Sends, Forms, AtOf
<1>5. CASE \E y \in Unused(Keys \ DOMAIN db.keys, "createKey") : OnCreate(y)
  BY <1>5 DEF OnCreate, Sends, Forms, AtOf
<1>6. CASE \E y \in page.keys : OnRevoke(y)
  BY <1>6 DEF OnRevoke, Sends, Forms, AtOf
<1>7. CASE \E w \in Workspaces : CreateWorkspace(w)
  BY <1>7 DEF CreateWorkspace, Sends, Forms, AtOf
<1>8. CASE \E p \in Unused(Projects \ DOMAIN db.home, "createProject") : CreateProject(p)
  BY <1>8 DEF CreateProject, Sends, Forms, AtOf
<1>9. CASE \E m \in page.members : DeleteMember(m) \/ \E l \in Grants : ChangeRole(m, l)
  <2>1. PICK m \in page.members : DeleteMember(m) \/ \E l \in Grants : ChangeRole(m, l)
    BY <1>9
  <2>2. CASE DeleteMember(m)
    BY <2>2 DEF DeleteMember, OnSettings, Sends, Forms, AtOf
  <2>3. ASSUME NEW l \in Grants, ChangeRole(m, l)
        PROVE  \E op, w, x : Ask(op, w, x) /\ Sends(op, w, x)
    <3>1. PICK x : x = <<m[1], l>>
      OBVIOUS
    <3>2. x[1] = m[1] /\ Ask("level", page.ws, x)
      BY <2>3, <3>1 DEF ChangeRole
    <3>3. OnSettings /\ m[1] # store.app.account
      BY <2>3 DEF ChangeRole
    <3>4. Sends("level", page.ws, x)
      BY <3>2, <3>3 DEF OnSettings, Sends, Forms, AtOf
    <3> QED BY <3>2, <3>4
  <2> QED BY <2>1, <2>2, <2>3
<1>10. CASE Leave \/ DeleteWorkspace \/ ChangeInformation
  BY <1>10 DEF Leave, DeleteWorkspace, ChangeInformation, Sends, Forms, AtOf
<1>11. CASE \E i \in Unused(Invites \ DOMAIN db.invites, "invite") : CreateInvite(i)
  BY <1>11 DEF CreateInvite, OnSettings, Sends, Forms, AtOf
<1>12. CASE \E i \in page.invites : DeleteInvite(i) \/ ResendInvite(i)
  BY <1>12 DEF DeleteInvite, ResendInvite, OnSettings, Sends, Forms, AtOf
<1>13. CASE ChangePlan
  <2>1. PICK op : op = IF MustCreateNewSub(Status[page.ws]) THEN "checkout" ELSE "changePlan"
    OBVIOUS
  <2>2. Ask(op, page.ws, NbrOfEditors)
    BY <1>13, <2>1 DEF ChangePlan
  <2>3. op \in {"checkout", "changePlan"}
    BY <2>1
  <2> QED BY <2>2, <2>3 DEF Sends, Forms, AtOf
<1> QED BY <1>1, <1>2, <1>3, <1>4, <1>5, <1>6, <1>7, <1>8, <1>9, <1>10, <1>11, <1>12,
           <1>13 DEF FormSent

LEMMA FormMoves ==
  ASSUME Base, NEW op, NEW w, NEW x, Ask(op, w, x), Sends(op, w, x),
         NEW c, c = Call(op, w, x, page.inner)
  PROVE  /\ Moves(DOMAIN calls, store, page, <<c>>) /\ cookie' = cookie /\ why' = why
         /\ c.op = op /\ c.ws = w /\ c.arg = x /\ c.by = page.inner /\ c.as = cookie
         /\ c.state = "sent"
<1>1. /\ c.op = op /\ c.as = cookie' /\ c.ws = w /\ c.arg = x /\ c.by = page.inner /\ c.here
      /\ c.state = "sent" /\ c.turn = 0
  BY CallIs
<1>2. /\ Proceed(store, page, DOMAIN calls, <<c>>) /\ cookie' = cookie /\ db' = db
      /\ why' = why
  BY DEF Ask
<1>3. page.inner \in Nat /\ page.inner <= Sent
  BY SentIsLargest DEF Base, PagesInv, IsPage
<1>4. IsCall(c)
  BY <1>3 DEF Call, IsCall
<1>5. op \in Forms
  BY DEF Sends
<1>6. op \notin {"projects", "project", "link", "app", "members", "getInvite"} \cup Loads
  BY <1>5 DEF Forms, Loads
<1>7. MadeBy(page, c)
  BY <1>1, <1>6 DEF MadeBy, Sends
<1>8. Served(c)
  BY <1>1, <1>6 DEF Served, Sends
<1>9. Asked(page, c)
  BY <1>1, <1>3, <1>4, <1>6, <1>7, <1>8 DEF Asked
<1>10. IsPage(page) /\ Nested(page) /\ Placed(page) /\ Whole(store)
  BY DEF Base, PagesInv
<1> QED BY <1>1, <1>2, <1>9, <1>10, TellsNothing, MovesOn

\* Follow keeps what the address has in common.
LEMMA FollowMoves ==
  ASSUME Base, NEW to, Follow(to), NEW pg, pg = Going(page, to.at, to.ws, to.arg)
  PROVE  Moves(DOMAIN calls, store, pg, <<>>) /\ Kept(page, pg) /\ cookie' = cookie
<1>1. IsPage(page) /\ Nested(page) /\ Placed(page) /\ Whole(store)
  BY DEF Base, PagesInv
<1>2. IsPage(pg) /\ Nested(pg) /\ Placed(pg) /\ Kept(page, pg)
  BY <1>1, GoingFits, GoingPlaced
<1>3. /\ Proceed(store, pg, DOMAIN calls, <<>>) /\ cookie' = cookie /\ db' = db
      /\ why \subseteq why'
  BY DEF Follow
<1> QED BY <1>1, <1>2, <1>3, MovesOn

\* An answer that tells the page nothing, or leads away.
LEMMA AnswerMoves ==
  ASSUME Base, NEW k, NEW st, NEW pg, NEW asked,
         Handled(k, st, pg, asked), Whole(st), why \subseteq why',
         asked = <<>> \/ \E c : asked = <<c>> /\ Asked(pg, c),
         \/ Tells(page, pg)
         \/ \E at, w, x : pg = Going(page, at, w, x)
         \/ \E at, w, x : pg = Address(at, w, x)
  PROVE  Moves(DOMAIN calls \ {k}, st, pg, asked)
<1>1. IsPage(page) /\ Nested(page) /\ Placed(page)
  BY DEF Base, PagesInv
<1>2. Proceed(st, pg, DOMAIN calls \ {k}, asked) /\ db' = db
  BY DEF Handled
<1>3. CASE Tells(page, pg)
  BY <1>2, <1>3, MovesOn DEF Tells
<1>4. CASE \E at, w, x : pg = Going(page, at, w, x)
  <2>1. IsPage(pg) /\ Nested(pg) /\ Placed(pg) /\ Kept(page, pg)
    BY <1>1, <1>4, GoingFits, GoingPlaced
  <2> QED BY <1>2, <2>1, MovesOn
<1>5. CASE \E at, w, x : pg = Address(at, w, x)
  <2>1. /\ IsPage(pg) /\ Nested(pg) /\ Placed(pg) /\ pg.index = 0 /\ pg.wsp = 0
        /\ pg.inner = 0 /\ ~pg.loaded /\ ~pg.ready /\ ~pg.shown
    BY <1>5, AddressFits, AddressPlaced
  <2>2. Kept(page, pg)
    BY <2>1 DEF Kept
  <2> QED BY <1>2, <2>1, <2>2, MovesOn
<1> QED BY <1>3, <1>4, <1>5

\* What the page may be told.
LEMMA Tellings ==
  ASSUME Base, NEW qg,
         \/ qg = page
         \/ page.index # 0 /\ qg = [page EXCEPT !.loaded = TRUE]
         \/ page.wsp # 0 /\ qg = [page EXCEPT !.ready = TRUE]
         \/ page.inner # 0 /\ \E b \in BOOLEAN : qg = [page EXCEPT !.shown = b]
         \/ page.inner # 0 /\ \E S : qg = [page EXCEPT !.members = S, !.shown = TRUE]
         \/ \E S : qg = [page EXCEPT !.invites = S]
         \/ \E S : qg = [page EXCEPT !.keys = S]
         \/ \E x : qg = [page EXCEPT !.key = x]
         \/ \E x : qg = [page EXCEPT !.said = x]
  PROVE  Tells(page, qg)
<1>1. IsPage(page) /\ Nested(page) /\ Placed(page)
  BY DEF Base, PagesInv
<1>2. CASE qg = page
  BY <1>1, <1>2 DEF Tells
<1>3. CASE page.index # 0 /\ qg = [page EXCEPT !.loaded = TRUE]
  BY <1>1, <1>3 DEF Tells, IsPage, Nested, Placed
<1>4. CASE page.wsp # 0 /\ qg = [page EXCEPT !.ready = TRUE]
  BY <1>1, <1>4 DEF Tells, IsPage, Nested, Placed
<1>5. CASE page.inner # 0 /\ \E b \in BOOLEAN : qg = [page EXCEPT !.shown = b]
  BY <1>1, <1>5 DEF Tells, IsPage, Nested, Placed
<1>6. CASE page.inner # 0 /\ \E S : qg = [page EXCEPT !.members = S, !.shown = TRUE]
  BY <1>1, <1>6 DEF Tells, IsPage, Nested, Placed
<1>7. CASE \E S : qg = [page EXCEPT !.invites = S]
  BY <1>1, <1>7 DEF Tells, IsPage, Nested, Placed
<1>8. CASE \E S : qg = [page EXCEPT !.keys = S]
  BY <1>1, <1>8 DEF Tells, IsPage, Nested, Placed
<1>9. CASE \E x : qg = [page EXCEPT !.key = x]
  BY <1>1, <1>9 DEF Tells, IsPage, Nested, Placed
<1>10. CASE \E x : qg = [page EXCEPT !.said = x]
  BY <1>1, <1>10 DEF Tells, IsPage, Nested, Placed
<1> QED BY <1>2, <1>3, <1>4, <1>5, <1>6, <1>7, <1>8, <1>9, <1>10

LEMMA AppMoves ==
  ASSUME Base, NEW k \in DOMAIN calls, AppAnswered(k)
  PROVE  /\ cookie' = cookie /\ calls[k].op = "app" /\ calls[k].state # "sent"
         /\ why' = why \cup Amiss(k) \cup Crossed(k)
         /\ \E st, pg :
              /\ Moves(DOMAIN calls \ {k}, st, pg, <<>>)
              /\ \/ /\ Ok(k) /\ st = [store EXCEPT !.app = calls[k].answer]
                    /\ \/ page.index = calls[k].by /\ pg = [page EXCEPT !.loaded = TRUE]
                       \/ page.index # calls[k].by /\ pg = page
                 \/ ~Ok(k) /\ st = store /\ pg = Address("login", None, None)
<1>1. /\ cookie' = cookie /\ calls[k].op = "app" /\ calls[k].state # "sent"
      /\ why' = why \cup Amiss(k) \cup Crossed(k)
  BY DEF AppAnswered, Answered, Quietly
<1>2. calls[k].by # 0
  BY <1>1 DEF Base, MadeBy
<1>3. PICK st, pg : /\ Handled(k, st, pg, <<>>)
                    /\ \/ /\ Ok(k) /\ st = [store EXCEPT !.app = calls[k].answer]
                          /\ \/ page.index = calls[k].by /\ pg = [page EXCEPT !.loaded = TRUE]
                             \/ page.index # calls[k].by /\ pg = page
                       \/ ~Ok(k) /\ st = store /\ pg = Address("login", None, None)
  <2>1. CASE Ok(k) /\ page.index = calls[k].by
    BY <2>1 DEF AppAnswered, LoadApplication
  <2>2. CASE Ok(k) /\ page.index # calls[k].by
    BY <2>2 DEF AppAnswered, LoadApplication
  <2>3. CASE ~Ok(k)
    BY <2>3 DEF AppAnswered
  <2> QED BY <2>1, <2>2, <2>3
<1>4. Tells(page, pg) \/ \E at, w, x : pg = Address(at, w, x)
  BY <1>2, <1>3, Tellings
<1>5. Moves(DOMAIN calls \ {k}, st, pg, <<>>)
  BY <1>1, <1>3, <1>4, AnswerMoves DEF Whole, Base
<1> QED BY <1>1, <1>3, <1>5

LEMMA GetAppMoves ==
  ASSUME Base, NEW k \in DOMAIN calls, GetAppAnswered(k)
  PROVE  /\ cookie' = cookie /\ calls[k].op = "getApp" /\ calls[k].state # "sent"
         /\ why' = why \cup (Amiss(k) \ {"late"}) \cup Crossed(k)
         /\ \E st : /\ Moves(DOMAIN calls \ {k}, st, page, <<>>)
                    /\ st = IF Ok(k) THEN [store EXCEPT !.app = calls[k].answer] ELSE store
<1>1. /\ cookie' = cookie /\ calls[k].op = "getApp" /\ calls[k].state # "sent"
      /\ why' = why \cup (Amiss(k) \ {"late"}) \cup Crossed(k)
  BY DEF GetAppAnswered, Answered, Quietly
<1>2. PICK st : /\ Handled(k, st, page, <<>>)
                /\ st = IF Ok(k) THEN [store EXCEPT !.app = calls[k].answer] ELSE store
  BY DEF GetAppAnswered, LoadApplication
<1>3. Moves(DOMAIN calls \ {k}, st, page, <<>>)
  BY <1>1, <1>2, TellsNothing, AnswerMoves DEF Whole, Base
<1> QED BY <1>1, <1>2, <1>3

LEMMA ProjectsMoves ==
  ASSUME Base, NEW k \in DOMAIN calls, ProjectsAnswered(k)
  PROVE  /\ cookie' = cookie /\ calls[k].op = "projects" /\ calls[k].state # "sent"
         /\ why' = why \cup Amiss(k)
         /\ \E st, pg :
              /\ Moves(DOMAIN calls \ {k}, st, pg, <<>>)
              /\ st = IF Ok(k) THEN [store EXCEPT !.projects = calls[k].answer] ELSE store
              /\ \/ Ok(k) /\ page.wsp = calls[k].by /\ pg = [page EXCEPT !.ready = TRUE]
                 \/ ~ (Ok(k) /\ page.wsp = calls[k].by) /\ pg = page
<1>1. /\ cookie' = cookie /\ calls[k].op = "projects" /\ calls[k].state # "sent"
      /\ why' = why \cup Amiss(k)
  BY DEF ProjectsAnswered, Answered, Quietly
<1>2. calls[k].by # 0
  BY <1>1 DEF Base, MadeBy
<1>3. PICK st, pg :
        /\ Handled(k, st, pg, <<>>)
        /\ st = IF Ok(k) THEN [store EXCEPT !.projects = calls[k].answer] ELSE store
        /\ \/ Ok(k) /\ page.wsp = calls[k].by /\ pg = [page EXCEPT !.ready = TRUE]
           \/ ~ (Ok(k) /\ page.wsp = calls[k].by) /\ pg = page
  BY DEF ProjectsAnswered
<1>4. Tells(page, pg)
  BY <1>2, <1>3, Tellings
<1>5. Moves(DOMAIN calls \ {k}, st, pg, <<>>)
  BY <1>1, <1>3, <1>4, AnswerMoves DEF Whole, Base
<1> QED BY <1>1, <1>3, <1>5

LEMMA ProjectMoves ==
  ASSUME Base, NEW k \in DOMAIN calls, ProjectAnswered(k)
  PROVE  /\ cookie' = cookie /\ calls[k].op = "project" /\ calls[k].state # "sent"
         /\ why' = why \cup Amiss(k)
         /\ \E st, pg :
              /\ Moves(DOMAIN calls \ {k}, st, pg, <<>>)
              /\ st = IF Ok(k) THEN [store EXCEPT !.cards = calls[k].answer] ELSE store
              /\ \/ Ok(k) /\ page.inner = calls[k].by /\ pg = [page EXCEPT !.shown = TRUE]
                 \/ ~ (Ok(k) /\ page.inner = calls[k].by) /\ pg = page
<1>1. /\ cookie' = cookie /\ calls[k].op = "project" /\ calls[k].state # "sent"
      /\ why' = why \cup Amiss(k)
  BY DEF ProjectAnswered, Answered, Quietly
<1>2. calls[k].by # 0
  BY <1>1 DEF Base, MadeBy
<1>3. PICK st, pg :
        /\ Handled(k, st, pg, <<>>)
        /\ st = IF Ok(k) THEN [store EXCEPT !.cards = calls[k].answer] ELSE store
        /\ \/ Ok(k) /\ page.inner = calls[k].by /\ pg = [page EXCEPT !.shown = TRUE]
           \/ ~ (Ok(k) /\ page.inner = calls[k].by) /\ pg = page
  BY DEF ProjectAnswered
<1>4. Tells(page, pg)
  BY <1>2, <1>3, Tellings
<1>5. Moves(DOMAIN calls \ {k}, st, pg, <<>>)
  BY <1>1, <1>3, <1>4, AnswerMoves DEF Whole, Base
<1> QED BY <1>1, <1>3, <1>5

LEMMA LinkMoves ==
  ASSUME Base, NEW k \in DOMAIN calls, LinkAnswered(k)
  PROVE  /\ cookie' = cookie /\ calls[k].op = "link" /\ calls[k].state # "sent"
         /\ why' = why \cup Amiss(k)
         /\ \E st, pg :
              /\ Moves(DOMAIN calls \ {k}, st, pg, <<>>)
              /\ st = IF Ok(k) THEN [store EXCEPT !.projects = {calls[k].answer},
                                                  !.cards = calls[k].answer] ELSE store
              /\ \/ page.inner = calls[k].by /\ pg = [page EXCEPT !.shown = Ok(k)]
                 \/ page.inner # calls[k].by /\ pg = page
<1>1. /\ cookie' = cookie /\ calls[k].op = "link" /\ calls[k].state # "sent"
      /\ why' = why \cup Amiss(k)
  BY DEF LinkAnswered, Answered, Quietly
<1>2. calls[k].by # 0
  BY <1>1 DEF Base, MadeBy
<1>3. PICK st, pg :
        /\ Handled(k, st, pg, <<>>)
        /\ st = IF Ok(k) THEN [store EXCEPT !.projects = {calls[k].answer},
                                            !.cards = calls[k].answer] ELSE store
        /\ \/ page.inner = calls[k].by /\ pg = [page EXCEPT !.shown = Ok(k)]
           \/ page.inner # calls[k].by /\ pg = page
  BY DEF LinkAnswered
<1>4. Ok(k) \in BOOLEAN
  BY DEF Ok
<1>5. Tells(page, pg)
  BY <1>2, <1>3, <1>4, Tellings
<1>6. Moves(DOMAIN calls \ {k}, st, pg, <<>>)
  BY <1>1, <1>3, <1>5, AnswerMoves DEF Whole, Base
<1> QED BY <1>1, <1>3, <1>6

LEMMA ListMoves ==
  ASSUME Base, NEW k \in DOMAIN calls, ListAnswered(k)
  PROVE  /\ cookie' = cookie /\ calls[k].op \in {"members", "invites", "keys"}
         /\ calls[k].state # "sent" /\ why' = why \cup (Amiss(k) \ {"late"})
         /\ \E pg :
              /\ Moves(DOMAIN calls \ {k}, store, pg, <<>>)
              /\ \/ Ok(k) /\ page.inner = calls[k].by /\ pg = Listed(k, page)
                 \/ ~ (Ok(k) /\ page.inner = calls[k].by) /\ pg = page
<1>1. /\ cookie' = cookie /\ calls[k].op \in {"members", "invites", "keys"}
      /\ calls[k].state # "sent" /\ why' = why \cup (Amiss(k) \ {"late"})
  BY DEF ListAnswered, Answered, Quietly
<1>2. calls[k].op = "members" => calls[k].by # 0
  BY DEF Base, MadeBy
<1>3. PICK pg :
        /\ Handled(k, store, pg, <<>>)
        /\ \/ Ok(k) /\ page.inner = calls[k].by /\ pg = Listed(k, page)
           \/ ~ (Ok(k) /\ page.inner = calls[k].by) /\ pg = page
  BY DEF ListAnswered
<1>4. Tells(page, pg)
  <2>1. CASE Ok(k) /\ page.inner = calls[k].by
    <3>1. CASE calls[k].op = "members"
      <4>1. pg = [page EXCEPT !.members = calls[k].answer, !.shown = TRUE]
        BY <1>3, <2>1, <3>1 DEF Listed
      <4> QED BY <1>2, <2>1, <3>1, <4>1, Tellings
    <3>2. CASE calls[k].op = "invites"
      <4>1. pg = [page EXCEPT !.invites = calls[k].answer]
        BY <1>3, <2>1, <3>2 DEF Listed
      <4> QED BY <4>1, Tellings
    <3>3. CASE calls[k].op = "keys"
      <4>1. pg = [page EXCEPT !.keys = calls[k].answer]
        BY <1>3, <2>1, <3>3 DEF Listed
      <4> QED BY <4>1, Tellings
    <3> QED BY <1>1, <3>1, <3>2, <3>3
  <2> QED BY <1>3, <2>1, TellsNothing
<1>5. Moves(DOMAIN calls \ {k}, store, pg, <<>>)
  BY <1>1, <1>3, <1>4, AnswerMoves DEF Whole, Base
<1> QED BY <1>1, <1>3, <1>5

LEMMA SettingMoves ==
  ASSUME Base, NEW k \in DOMAIN calls, SettingAnswered(k)
  PROVE  /\ cookie' = cookie /\ calls[k].op \in DOMAIN Reloads /\ calls[k].state # "sent"
         /\ why' = why \cup (Amiss(k) \cap {"late"})
         /\ \E asked :
              /\ Moves(DOMAIN calls \ {k}, store, page, asked)
              /\ asked = IF Ok(k)
                         THEN <<Call(Reloads[calls[k].op],
                                     IF page.inner = calls[k].by THEN page.ws ELSE calls[k].ws,
                                     None, calls[k].by)>>
                         ELSE <<>>
<1>1. /\ cookie' = cookie /\ calls[k].op \in DOMAIN Reloads /\ calls[k].state # "sent"
      /\ why' = why \cup (Amiss(k) \cap {"late"})
  BY DEF SettingAnswered, Answered, Quietly
<1>2. PICK asked : /\ Handled(k, store, page, asked)
                   /\ asked = IF Ok(k)
                              THEN <<Call(Reloads[calls[k].op],
                                          IF page.inner = calls[k].by THEN page.ws ELSE calls[k].ws,
                                          None, calls[k].by)>>
                              ELSE <<>>
  BY DEF SettingAnswered
<1>3. asked = <<>> \/ \E c : asked = <<c>> /\ Asked(page, c)
  <2>1. CASE Ok(k)
    <3>1. PICK w : w = IF page.inner = calls[k].by THEN page.ws ELSE calls[k].ws
      OBVIOUS
    <3>2. PICK op, by : op = calls[k].op /\ by = calls[k].by
      OBVIOUS
    <3>3. PICK c : c = Call(Reloads[op], w, None, by)
      OBVIOUS
    <3>4. asked = <<c>>
      BY <1>2, <2>1, <3>1, <3>2, <3>3
    <3>5. /\ op \in {"level", "removeMember", "invite", "cancelInvite", "resend"}
          /\ op \in {"level", "removeMember"} => Reloads[op] = "members"
          /\ op \notin {"level", "removeMember"} => Reloads[op] = "invites"
      BY <1>1, <3>2 DEF Reloads
    <3>6. /\ c.op = Reloads[op] /\ c.as = cookie' /\ c.by = by /\ c.here /\ c.state = "sent"
          /\ c.turn = 0
      BY <3>3, CallIs
    <3>7. by \in Nat /\ by <= Sent
      BY <3>2, SentIsLargest DEF Base, PagesInv, Numbered, IsCall
    <3>8. IsCall(c)
      BY <3>3, <3>7 DEF Call, IsCall
    <3>9. op \in {"level", "removeMember"} => by # 0
      BY <3>2 DEF Base, MadeBy
    <3>10. by = page.inner /\ page.inner # 0 => page.at = "settings"
      <4>1. op \in DOMAIN AtOf /\ AtOf[op] = {"settings"}
        BY <3>5 DEF AtOf
      <4> QED BY <3>2, <4>1 DEF Base, MadeBy
    <3>11. MadeBy(page, c)
      BY <3>5, <3>6, <3>9, <3>10 DEF MadeBy, AtOf
    <3>12. Served(c)
      BY <3>5, <3>6 DEF Served
    <3> QED BY <3>4, <3>5, <3>6, <3>7, <3>8, <3>11, <3>12 DEF Asked
  <2> QED BY <1>2, <2>1
<1>4. Moves(DOMAIN calls \ {k}, store, page, asked)
  BY <1>1, <1>2, <1>3, TellsNothing, AnswerMoves DEF Base
<1> QED BY <1>1, <1>2, <1>4

LEMMA KeyMoves ==
  ASSUME Base, NEW k \in DOMAIN calls, KeyAnswered(k)
  PROVE  /\ cookie' = cookie /\ calls[k].op \in {"createKey", "revokeKey"}
         /\ calls[k].state # "sent" /\ why' = why \cup (Amiss(k) \cap {"late"})
         /\ \E pg, asked :
              /\ Moves(DOMAIN calls \ {k}, store, pg, asked)
              /\ pg = page \/ pg = [page EXCEPT !.key = calls[k].answer]
              /\ asked = IF Ok(k) THEN <<Call("keys", None, None, calls[k].by)>> ELSE <<>>
<1>1. /\ cookie' = cookie /\ calls[k].op \in {"createKey", "revokeKey"}
      /\ calls[k].state # "sent" /\ why' = why \cup (Amiss(k) \cap {"late"})
  BY DEF KeyAnswered, Answered, Quietly
<1>2. PICK pg, asked :
        /\ Handled(k, store, pg, asked)
        /\ pg = page \/ pg = [page EXCEPT !.key = calls[k].answer]
        /\ asked = IF Ok(k) THEN <<Call("keys", None, None, calls[k].by)>> ELSE <<>>
  BY DEF KeyAnswered
<1>3. Tells(page, pg)
  BY <1>2, Tellings
<1>4. asked = <<>> \/ \E c : asked = <<c>> /\ Asked(pg, c)
  <2>1. CASE Ok(k)
    <3>1. PICK by : by = calls[k].by
      OBVIOUS
    <3>2. PICK c : c = Call("keys", None, None, by)
      OBVIOUS
    <3>3. asked = <<c>>
      BY <1>2, <2>1, <3>1, <3>2
    <3>4. /\ c.op = "keys" /\ c.as = cookie' /\ c.by = by /\ c.here /\ c.state = "sent"
          /\ c.turn = 0
      BY <3>2, CallIs
    <3>5. by \in Nat /\ by <= Sent
      BY <3>1, SentIsLargest DEF Base, PagesInv, Numbered, IsCall
    <3>6. IsCall(c)
      BY <3>2, <3>5 DEF Call, IsCall
    <3>7. by = page.inner /\ page.inner # 0 => page.at = "account"
      <4>1. calls[k].op \in DOMAIN AtOf /\ AtOf[calls[k].op] = {"account"}
        BY <1>1 DEF AtOf
      <4> QED BY <3>1, <4>1 DEF Base, MadeBy
    <3>8. MadeBy(pg, c)
      BY <1>3, <3>4, <3>7 DEF MadeBy, AtOf, Tells
    <3>9. Served(c)
      BY <3>4 DEF Served
    <3> QED BY <3>3, <3>4, <3>5, <3>6, <3>8, <3>9 DEF Asked
  <2> QED BY <1>2, <2>1
<1>5. Moves(DOMAIN calls \ {k}, store, pg, asked)
  BY <1>1, <1>2, <1>3, <1>4, AnswerMoves DEF Base
<1> QED BY <1>1, <1>2, <1>5

LEMMA ProjectCreatedMoves ==
  ASSUME Base, NEW k \in DOMAIN calls, ProjectCreated(k)
  PROVE  /\ cookie' = cookie /\ calls[k].op = "createProject" /\ calls[k].state # "sent"
         /\ why' = why \cup (IF calls[k].ws # page.ws THEN {"late"} ELSE {})
                \cup (IF \E j \in DOMAIN calls : calls[j].op = "projects" THEN {"overtaken"} ELSE {})
         /\ \E st : /\ Moves(DOMAIN calls \ {k}, st, page, <<>>)
                    /\ st = IF Ok(k)
                            THEN [store EXCEPT !.projects = store.projects \cup {calls[k].answer}]
                            ELSE store
<1>1. /\ cookie' = cookie /\ calls[k].op = "createProject" /\ calls[k].state # "sent"
      /\ why' = why \cup (IF calls[k].ws # page.ws THEN {"late"} ELSE {})
                \cup (IF \E j \in DOMAIN calls : calls[j].op = "projects" THEN {"overtaken"} ELSE {})
  BY DEF ProjectCreated, Answered, Quietly
<1>2. why \subseteq why'
  BY <1>1
<1>3. PICK st : /\ Handled(k, st, page, <<>>)
                /\ st = IF Ok(k)
                        THEN [store EXCEPT !.projects = store.projects \cup {calls[k].answer}]
                        ELSE store
  BY DEF ProjectCreated
<1>4. Moves(DOMAIN calls \ {k}, st, page, <<>>)
  BY <1>2, <1>3, TellsNothing, AnswerMoves DEF Base, Whole
<1> QED BY <1>1, <1>3, <1>4

LEMMA WorkspaceCreatedMoves ==
  ASSUME Base, NEW k \in DOMAIN calls, WorkspaceCreated(k)
  PROVE  /\ cookie' = cookie /\ calls[k].op = "createWorkspace" /\ calls[k].state # "sent"
         /\ why' = why
         /\ \E asked : /\ Moves(DOMAIN calls \ {k}, store, page, asked)
                       /\ asked = IF Ok(k) THEN <<Call("getApp", None, None, 0)>> ELSE <<>>
<1>1. /\ cookie' = cookie /\ calls[k].op = "createWorkspace" /\ calls[k].state # "sent"
      /\ why' = why
  BY DEF WorkspaceCreated, Answered, Quietly
<1>2. PICK asked : /\ Handled(k, store, page, asked)
                   /\ asked = IF Ok(k) THEN <<Call("getApp", None, None, 0)>> ELSE <<>>
  BY DEF WorkspaceCreated
<1>3. PICK c : c = Call("getApp", None, None, 0)
  OBVIOUS
<1>4. /\ c.op = "getApp" /\ c.as = cookie' /\ c.by = 0 /\ c.here /\ c.state = "sent"
      /\ c.turn = 0
  BY <1>3, CallIs
<1>5. IsCall(c) /\ 0 <= Sent
  BY <1>3, SentIsLargest DEF Call, IsCall, Base
<1>6. MadeBy(page, c) /\ Served(c)
  BY <1>4 DEF MadeBy, Served, AtOf
<1>7. Asked(page, c)
  BY <1>4, <1>5, <1>6 DEF Asked
<1>8. asked = <<>> \/ \E d : asked = <<d>> /\ Asked(page, d)
  BY <1>2, <1>3, <1>7
<1>9. Moves(DOMAIN calls \ {k}, store, page, asked)
  BY <1>1, <1>2, <1>8, TellsNothing, AnswerMoves DEF Base
<1> QED BY <1>1, <1>2, <1>9

\* Away from the page, or not, after a session has begun or ended.
LEMMA SessionMoves ==
  ASSUME Base, NEW k \in DOMAIN calls, SessionAnswered(k)
  PROVE  /\ calls[k].op \in {"login", "signup"} /\ calls[k].state # "sent"
         /\ cookie' = IF Ok(k) THEN calls[k].answer ELSE cookie
         /\ why' = IF Ok(k) /\ (page.index # 0 \/ Unsettled(DOMAIN calls \ {k}))
                   THEN why \cup {"crossed"} ELSE why
         /\ \E pg : /\ Moves(DOMAIN calls \ {k}, store, pg, <<>>)
                    /\ pg = IF Ok(k) THEN Going(page, "index", None, None) ELSE page
<1>1. /\ calls[k].op \in {"login", "signup"} /\ calls[k].state # "sent"
      /\ cookie' = IF Ok(k) THEN calls[k].answer ELSE cookie
      /\ why' = IF Ok(k) /\ (page.index # 0 \/ Unsettled(DOMAIN calls \ {k}))
                THEN why \cup {"crossed"} ELSE why
  BY DEF SessionAnswered, Answered
<1>2. PICK pg : /\ Handled(k, store, pg, <<>>)
                /\ pg = IF Ok(k) THEN Going(page, "index", None, None) ELSE page
  BY DEF SessionAnswered
<1>3. why \subseteq why'
  BY <1>1
<1>4. Tells(page, pg) \/ \E at, w, x : pg = Going(page, at, w, x)
  BY <1>2, TellsNothing
<1>5. Moves(DOMAIN calls \ {k}, store, pg, <<>>)
  BY <1>2, <1>3, <1>4, AnswerMoves DEF Base
<1> QED BY <1>1, <1>2, <1>5

LEMMA LogOutMoves ==
  ASSUME Base, NEW k \in DOMAIN calls, LogOutAnswered(k)
  PROVE  /\ calls[k].op = "logout" /\ calls[k].state # "sent"
         /\ cookie' = IF Ok(k) THEN None ELSE cookie
         /\ why' = why
         /\ \E st, pg : /\ Moves(DOMAIN calls \ {k}, st, pg, <<>>)
                        /\ st = IF Ok(k) THEN [store EXCEPT !.app = NoApp] ELSE store
                        /\ pg = IF Ok(k) THEN Going(page, "index", None, None) ELSE page
<1>1. /\ calls[k].op = "logout" /\ calls[k].state # "sent"
      /\ cookie' = IF Ok(k) THEN None ELSE cookie
      /\ why' = why
  BY DEF LogOutAnswered, Answered
<1>2. PICK st, pg : /\ Handled(k, st, pg, <<>>)
                    /\ st = IF Ok(k) THEN [store EXCEPT !.app = NoApp] ELSE store
                    /\ pg = IF Ok(k) THEN Going(page, "index", None, None) ELSE page
  BY DEF LogOutAnswered, ResetApplication
<1>3. Tells(page, pg) \/ \E at, w, x : pg = Going(page, at, w, x)
  BY <1>2, TellsNothing
<1>4. Moves(DOMAIN calls \ {k}, st, pg, <<>>)
  BY <1>1, <1>2, <1>3, AnswerMoves DEF Base, Whole
<1> QED BY <1>1, <1>2, <1>4

LEMMA SaysMoves ==
  ASSUME Base, NEW k \in DOMAIN calls, Says(k)
  PROVE  /\ cookie' = cookie /\ calls[k].op \in Said /\ calls[k].state # "sent"
         /\ why' = IF /\ calls[k].op = "acceptInvite" /\ Ok(k)
                      /\ page.inner # calls[k].by \/ Unsettled(DOMAIN calls \ {k})
                   THEN why \cup {"elsewhere"} ELSE why
         /\ \E pg : /\ Moves(DOMAIN calls \ {k}, store, pg, <<>>)
                    /\ pg = page \/ pg = [page EXCEPT !.said = calls[k].state]
<1>1. /\ cookie' = cookie /\ calls[k].op \in Said /\ calls[k].state # "sent"
      /\ why' = IF /\ calls[k].op = "acceptInvite" /\ Ok(k)
                   /\ page.inner # calls[k].by \/ Unsettled(DOMAIN calls \ {k})
                THEN why \cup {"elsewhere"} ELSE why
  BY DEF Says, Answered, Quietly
<1>2. PICK pg : /\ Handled(k, store, pg, <<>>)
                /\ pg = page \/ pg = [page EXCEPT !.said = calls[k].state]
  BY DEF Says
<1>3. why \subseteq why'
  BY <1>1
<1>4. Tells(page, pg)
  BY <1>2, Tellings
<1>5. Moves(DOMAIN calls \ {k}, store, pg, <<>>)
  BY <1>2, <1>3, <1>4, AnswerMoves DEF Base
<1> QED BY <1>1, <1>2, <1>5

LEMMA InviteMoves ==
  ASSUME Base, NEW k \in DOMAIN calls, InviteAnswered(k)
  PROVE  /\ cookie' = cookie /\ calls[k].op = "getInvite" /\ calls[k].state # "sent" /\ why' = why
         /\ \E pg : /\ Moves(DOMAIN calls \ {k}, store, pg, <<>>)
                    /\ \/ page.inner = calls[k].by /\ pg = [page EXCEPT !.shown = Ok(k)]
                       \/ page.inner # calls[k].by /\ pg = page
<1>1. /\ cookie' = cookie /\ calls[k].op = "getInvite" /\ calls[k].state # "sent" /\ why' = why
  BY DEF InviteAnswered, Answered, Quietly
<1>2. calls[k].by # 0
  BY <1>1 DEF Base, PagesInv, Numbered
<1>3. PICK pg : /\ Handled(k, store, pg, <<>>)
                /\ \/ page.inner = calls[k].by /\ pg = [page EXCEPT !.shown = Ok(k)]
                   \/ page.inner # calls[k].by /\ pg = page
  BY DEF InviteAnswered
<1>4. Ok(k) \in BOOLEAN
  BY DEF Ok
<1>5. Tells(page, pg)
  BY <1>2, <1>3, <1>4, Tellings
<1>6. Moves(DOMAIN calls \ {k}, store, pg, <<>>)
  BY <1>1, <1>3, <1>5, AnswerMoves DEF Base
<1> QED BY <1>1, <1>3, <1>6

\* What a refused departure or checkout does, and the change of a plan.
LEMMA RefusalMoves ==
  ASSUME Base, NEW k \in DOMAIN calls,
         \/ DepartureAnswered(k) /\ ~Ok(k)
         \/ CheckoutAnswered(k) /\ ~Ok(k)
         \/ PlanAnswered(k)
  PROVE  /\ cookie' = cookie /\ calls[k].state # "sent" /\ why' = why
         /\ \/ calls[k].op = "changePlan"
            \/ ~Ok(k) /\ calls[k].op \in {"leave", "deleteWorkspace", "deleteAccount", "checkout"}
         /\ \E pg : /\ Moves(DOMAIN calls \ {k}, store, pg, <<>>)
                    /\ pg = page \/ \E at \in {"success", "cancel"} : pg = Address(at, None, None)
<1>1. /\ cookie' = cookie /\ calls[k].state # "sent" /\ why' = why
      /\ \/ calls[k].op = "changePlan"
         \/ ~Ok(k) /\ calls[k].op \in {"leave", "deleteWorkspace", "deleteAccount", "checkout"}
  BY DEF DepartureAnswered, CheckoutAnswered, PlanAnswered, Answered, Quietly
<1>2. PICK pg : /\ Handled(k, store, pg, <<>>)
                /\ pg = page \/ \E at \in {"success", "cancel"} : pg = Address(at, None, None)
  <2>1. CASE DepartureAnswered(k) /\ ~Ok(k)
    BY <2>1 DEF DepartureAnswered
  <2>2. CASE CheckoutAnswered(k) /\ ~Ok(k)
    BY <2>2 DEF CheckoutAnswered, Handled
  <2>3. CASE PlanAnswered(k)
    BY <2>3 DEF PlanAnswered
  <2> QED BY <2>1, <2>2, <2>3
<1>3. Tells(page, pg) \/ \E at, w, x : pg = Address(at, w, x)
  BY <1>2, TellsNothing
<1>4. Moves(DOMAIN calls \ {k}, store, pg, <<>>)
  BY <1>1, <1>2, <1>3, AnswerMoves DEF Base
<1> QED BY <1>1, <1>2, <1>4

\* The document is loaded again.
LEMMA LoadMoves ==
  ASSUME \/ \E to \in Typed : TypeAddress(to)
         \/ \E k \in DOMAIN calls : DepartureAnswered(k) /\ Ok(k)
         \/ \E k \in DOMAIN calls : CheckoutAnswered(k) /\ Ok(k)
  PROVE  \E at, w, x, rest :
           /\ Reload(at, w, x, rest) /\ rest \subseteq DOMAIN calls /\ Stale(rest) \subseteq why'
           /\ cookie' = cookie /\ db' = db
           /\ \/ \E to \in Typed : at = to.at /\ w = to.ws /\ NotOwn(to) \subseteq why'
              \/ at \in {"index", "success", "cancel"}
<1>1. CASE \E to \in Typed : TypeAddress(to)
  BY <1>1 DEF TypeAddress
<1>2. CASE \E k \in DOMAIN calls : DepartureAnswered(k) /\ Ok(k)
  <2>1. PICK k \in DOMAIN calls : DepartureAnswered(k) /\ Ok(k)
    BY <1>2
  <2>2. PICK rest : rest = DOMAIN calls \ {k}
    OBVIOUS
  <2>3. /\ Reload("index", None, None, rest) /\ rest \subseteq DOMAIN calls
        /\ Stale(rest) \subseteq why' /\ cookie' = cookie /\ db' = db
    BY <2>1, <2>2 DEF DepartureAnswered
  <2> QED BY <2>3
<1>3. CASE \E k \in DOMAIN calls : CheckoutAnswered(k) /\ Ok(k)
  <2>1. PICK k \in DOMAIN calls : CheckoutAnswered(k) /\ Ok(k)
    BY <1>3
  <2>2. PICK rest : rest = DOMAIN calls \ {k}
    OBVIOUS
  <2>3. PICK at \in {"success", "cancel"} : Reload(at, None, None, rest)
    BY <2>1, <2>2 DEF CheckoutAnswered
  <2>4. rest \subseteq DOMAIN calls /\ Stale(rest) \subseteq why' /\ cookie' = cookie /\ db' = db
    BY <2>1, <2>2 DEF CheckoutAnswered
  <2> QED BY <2>3, <2>4
<1> QED BY <1>1, <1>2, <1>3

LEMMA LatestIsLater ==
  ASSUME Base
  PROVE  Latest \in Nat /\ Latest # 0 /\ \A k \in DOMAIN calls : calls[k].turn < Latest
<1>1. PICK m \in Nat : \A k \in DOMAIN calls : calls[k].turn <= m
  BY DEF Base, InTurn
<1>2. \A k \in DOMAIN calls : calls[k].turn \in Nat
  BY DEF Base, Served
<1>3. PICK S : S = Turns
  OBVIOUS
<1>4. S \subseteq Nat /\ S # {} /\ \A s \in S : s <= m
  BY <1>1, <1>2, <1>3 DEF Turns
<1>5. Max(S) \in S /\ \A s \in S : s <= Max(S)
  BY <1>1, <1>4, MaxIsLargest
<1>6. PICK l : l = CHOOSE t \in S : \A u \in S : u <= t
  OBVIOUS
<1>7. l \in S /\ \A u \in S : u <= l
  BY <1>5, <1>6
<1>8. Latest = 1 + l
  BY <1>3, <1>6 DEF Latest
<1>9. \A k \in DOMAIN calls : calls[k].turn \in S
  BY <1>3 DEF Turns
<1> QED BY <1>2, <1>4, <1>7, <1>8, <1>9

\* A call c that has been served, as the server's tables are now.
After(c, d, ok) ==
  /\ d.op = c.op /\ d.as = c.as /\ d.ws = c.ws /\ d.arg = c.arg /\ d.by = c.by /\ d.here = c.here
  /\ d.state = IF ok THEN "ok" ELSE "refused"
  /\ d.turn = IF c.op \in Loads THEN Latest ELSE 0
  /\ d.answer = IF ok THEN AnswerTo(c) ELSE None

Serves(k, ok) ==
  /\ ok => Allowed(calls[k])
  /\ db' = IF ok THEN Effect(calls[k]) ELSE db
  /\ \/ calls[k].here /\ DOMAIN calls' = DOMAIN calls /\ After(calls[k], calls'[k], ok)
     \/ ~calls[k].here /\ DOMAIN calls' = DOMAIN calls \ {k}
  /\ \A j \in DOMAIN calls' : j # k => calls'[j] = calls[j]

LEMMA ServeIs ==
  ASSUME Base, NEW k \in DOMAIN calls, Serve(k)
  PROVE  /\ cookie' = cookie /\ store' = store /\ page' = page /\ why' = why
         /\ calls[k].state = "sent"
         /\ \E ok \in BOOLEAN : Serves(k, ok)
<1>1. PICK ok \in BOOLEAN :
        /\ ok => Allowed(calls[k])
        /\ db' = IF ok THEN Effect(calls[k]) ELSE db
        /\ calls' = IF calls[k].here
                    THEN [calls EXCEPT ![k].state = IF ok THEN "ok" ELSE "refused",
                                       ![k].turn = IF calls[k].op \in Loads THEN Latest ELSE 0,
                                       ![k].answer = IF ok THEN AnswerTo(calls[k]) ELSE None]
                    ELSE Restrict(calls, DOMAIN calls \ {k})
  <2>1. PICK ok \in {Allowed(calls[k])} \cup (IF left.turns > 0 THEN {FALSE} ELSE {}) :
          /\ db' = IF ok THEN Effect(calls[k]) ELSE db
          /\ calls' = IF calls[k].here
                      THEN [calls EXCEPT ![k].state = IF ok THEN "ok" ELSE "refused",
                                         ![k].turn = IF calls[k].op \in Loads THEN Latest ELSE 0,
                                         ![k].answer = IF ok THEN AnswerTo(calls[k]) ELSE None]
                      ELSE Restrict(calls, DOMAIN calls \ {k})
    BY DEF Serve
  <2>2. Allowed(calls[k]) \in BOOLEAN
    BY DEF Allowed
  <2>3. ok \in BOOLEAN /\ (ok => Allowed(calls[k]))
    BY <2>1, <2>2
  <2> QED BY <2>1, <2>3
<1>2. CASE calls[k].here
  <2>1. PICK state, turn, answer :
          /\ state = IF ok THEN "ok" ELSE "refused"
          /\ turn = IF calls[k].op \in Loads THEN Latest ELSE 0
          /\ answer = IF ok THEN AnswerTo(calls[k]) ELSE None
    OBVIOUS
  <2>2. calls' = [calls EXCEPT ![k].state = state, ![k].turn = turn, ![k].answer = answer]
    BY <1>1, <1>2, <2>1
  <2>3. /\ DOMAIN calls' = DOMAIN calls /\ \A j \in DOMAIN calls' : j # k => calls'[j] = calls[j]
        /\ calls'[k] = [calls[k] EXCEPT !.state = state, !.turn = turn, !.answer = answer]
    BY <2>2 DEF Base, PagesInv
  <2>4. IsCall(calls[k])
    BY DEF Base, PagesInv, Numbered
  <2>5. PICK c, d : c = calls[k] /\ d = calls'[k]
    OBVIOUS
  <2>6. /\ d.op = c.op /\ d.as = c.as /\ d.ws = c.ws /\ d.arg = c.arg /\ d.by = c.by
        /\ d.here = c.here /\ d.state = state /\ d.turn = turn /\ d.answer = answer
    BY <2>3, <2>4, <2>5 DEF IsCall
  <2>7. After(calls[k], calls'[k], ok)
    BY <2>1, <2>5, <2>6 DEF After
  <2> QED BY <1>1, <1>2, <2>3, <2>7 DEF Serves, Serve
<1>3. CASE ~calls[k].here
  <2>1. calls' = Restrict(calls, DOMAIN calls \ {k})
    BY <1>1, <1>3
  <2>2. DOMAIN calls' = DOMAIN calls \ {k} /\ \A j \in DOMAIN calls' : calls'[j] = calls[j]
    BY <2>1 DEF Restrict
  <2> QED BY <1>1, <1>3, <2>2 DEF Serves, Serve
<1> QED BY <1>2, <1>3

LEMMA ServeBase ==
  ASSUME Base, PagesInv', NEW k \in DOMAIN calls, Serve(k)
  PROVE  Base'
<1>1. /\ cookie' = cookie /\ store' = store /\ page' = page /\ why' = why
      /\ calls[k].state = "sent"
  BY ServeIs
<1>2. PICK ok \in BOOLEAN : Serves(k, ok)
  BY ServeIs
<1>3. Latest \in Nat /\ Latest # 0 /\ \A j \in DOMAIN calls : calls[j].turn < Latest
  BY LatestIsLater
<1>4. MadeBy(page, calls[k]) /\ Served(calls[k]) /\ TablesFit
  BY DEF Base
<1>5. CASE calls[k].here
  <2>1. /\ DOMAIN calls' = DOMAIN calls /\ After(calls[k], calls'[k], ok)
        /\ \A j \in DOMAIN calls' : j # k => calls'[j] = calls[j]
    BY <1>2, <1>5 DEF Serves
  <2>2. PICK c, d : c = calls[k] /\ d = calls'[k]
    OBVIOUS
  <2>3. After(c, d, ok) /\ MadeBy(page, c) /\ Served(c)
    BY <1>4, <2>1, <2>2
  <2>4. MadeBy(page, d)
    BY <2>3 DEF After, MadeBy
  <2>5. Served(d)
    <3>1. ok /\ c.op \in AppOps => /\ c.as \in Accounts
                                   /\ d.answer = [account |-> c.as, level |-> d.answer.level]
      <4> SUFFICES ASSUME ok, c.op \in AppOps
                   PROVE  /\ c.as \in Accounts
                          /\ d.answer = [account |-> c.as, level |-> d.answer.level]
        OBVIOUS
      <4>1. Allowed(c)
        BY <1>2, <2>2 DEF Serves
      <4>2. c.as \in db.accounts
        BY <4>1 DEF Allowed, AppOps, Anyone, LoggedIn, Takes
      <4>3. d.answer = [account |-> c.as, level |-> LevelsOf(c.as)]
        BY <2>3 DEF After, AnswerTo, AppOps
      <4> QED BY <1>4, <4>2, <4>3 DEF TablesFit
    <3>2. d.turn \in Nat /\ (c.op \in Loads => d.turn # 0)
      BY <1>3, <2>3 DEF After
    <3>3. d.state \in {"ok", "refused"} /\ (d.state = "ok" => ok)
      BY <2>3 DEF After
    <3>4. d.op = c.op /\ d.as = c.as /\ d.ws = c.ws /\ d.arg = c.arg
      BY <2>3 DEF After
    <3>5. /\ c.op = "signup" => c.arg \in Accounts /\ c.ws \in Workspaces
          /\ c.op = "createWorkspace" => c.ws \in Workspaces
      BY <2>3 DEF Served
    <3> QED BY <3>1, <3>2, <3>3, <3>4, <3>5 DEF Served
  <2>6. InTurn'
    <3>0. \A j \in DOMAIN calls : calls[j].turn \in Nat
      BY DEF Base, Served
    <3>1. \A j \in DOMAIN calls : calls[j].turn \in Nat /\ calls[j].turn <= Latest
      BY <1>3, <3>0
    <3>2. d.turn = 0 \/ d.turn = Latest
      BY <2>3 DEF After
    <3>3. \A j \in DOMAIN calls' : calls'[j].turn <= Latest
      BY <1>3, <2>1, <2>2, <3>1, <3>2
    <3>4. ASSUME NEW i \in DOMAIN calls', NEW j \in DOMAIN calls', i # j, calls'[i].turn # 0
          PROVE  calls'[i].turn # calls'[j].turn
      <4>1. CASE i # k /\ j # k
        BY <2>1, <3>4, <4>1 DEF Base, InTurn
      <4>2. CASE i = k
        <5>1. j # k /\ calls'[j] = calls[j] /\ calls[j].turn < Latest /\ calls'[i].turn = Latest
          BY <1>3, <2>1, <2>2, <3>2, <3>4, <4>2
        <5> QED BY <1>3, <2>1, <3>1, <5>1
      <4>3. CASE j = k
        <5>1. i # k /\ calls'[i] = calls[i] /\ calls[i].turn < Latest
          BY <1>3, <2>1, <3>4, <4>3
        <5> QED BY <1>3, <2>1, <2>2, <3>1, <3>2, <3>4, <4>3, <5>1
      <4> QED BY <4>1, <4>2, <4>3
    <3> QED BY <1>3, <3>3, <3>4 DEF InTurn
  <2>7. AllHere => AllHere'
    BY <2>1, <2>2, <2>3 DEF AllHere, After
  <2>8. TablesFit'
    <3>1. CASE ok
      BY <1>2, <1>4, <3>1, EffectFits DEF Serves
    <3>2. CASE ~ok
      BY <1>2, <1>4, <3>2 DEF Serves, TablesFit
    <3> QED BY <3>1, <3>2
  <2>9. \A j \in DOMAIN calls' : (MadeBy(page, calls[j]) /\ Served(calls[j]))'
    BY <1>1, <2>1, <2>2, <2>4, <2>5 DEF Base
  <2> QED BY <1>1, <2>6, <2>7, <2>8, <2>9 DEF Base
<1>6. CASE ~calls[k].here
  <2>1. DOMAIN calls' = DOMAIN calls \ {k} /\ \A j \in DOMAIN calls' : calls'[j] = calls[j]
    BY <1>2, <1>6 DEF Serves
  <2>2. TablesFit'
    <3>1. CASE ok
      BY <1>2, <1>4, <3>1, EffectFits DEF Serves
    <3>2. CASE ~ok
      BY <1>2, <1>4, <3>2 DEF Serves, TablesFit
    <3> QED BY <3>1, <3>2
  <2>3. InTurn'
    BY <2>1 DEF Base, InTurn
  <2>4. AllHere => AllHere'
    BY <2>1 DEF AllHere
  <2>5. \A j \in DOMAIN calls' : (MadeBy(page, calls[j]) /\ Served(calls[j]))'
    BY <1>1, <2>1 DEF Base
  <2> QED BY <1>1, <2>2, <2>3, <2>4, <2>5 DEF Base
<1> QED BY <1>5, <1>6

LEMMA ForgetBase ==
  ASSUME Base, PagesInv', NEW k \in DOMAIN calls, Forget(k)
  PROVE  Base'
<1>1. /\ cookie' = cookie /\ store' = store /\ page' = page /\ why' = why /\ db' = db
      /\ calls' = Restrict(calls, DOMAIN calls \ {k})
  BY DEF Forget
<1>2. DOMAIN calls' = DOMAIN calls \ {k} /\ \A j \in DOMAIN calls' : calls'[j] = calls[j]
  BY <1>1 DEF Restrict
<1>3. InTurn'
  BY <1>2 DEF Base, InTurn
<1>4. AllHere => AllHere'
  BY <1>2 DEF AllHere
<1>5. TablesFit'
  BY <1>1 DEF Base, TablesFit
<1>6. \A j \in DOMAIN calls' : (MadeBy(page, calls[j]) /\ Served(calls[j]))'
  BY <1>1, <1>2 DEF Base
<1> QED BY <1>1, <1>3, <1>4, <1>5, <1>6 DEF Base

LEMMA RemovedBase ==
  ASSUME Base, PagesInv', NEW w \in Workspaces, RemovedElsewhere(w)
  PROVE  Base'
<1>1. /\ cookie' = cookie /\ store' = store /\ page' = page /\ why \subseteq why' /\ calls' = calls
      /\ db' = [db EXCEPT !.level = Drop(db.level, {<<cookie, w>>})]
  BY DEF RemovedElsewhere
<1>2. PICK l, m : l = db.level /\ m = Drop(l, {<<cookie, w>>})
  OBVIOUS
<1>3. LevelsFit(m)
  BY <1>2, DropFits DEF Base, TablesFit
<1>4. /\ db = [accounts |-> db.accounts, level |-> db.level, home |-> db.home,
               invites |-> db.invites, keys |-> db.keys]
      /\ db' = [db EXCEPT !.level = m]
  BY <1>1, <1>2 DEF Base, TablesFit
<1>5. db' = [accounts |-> db.accounts, level |-> m, home |-> db.home,
             invites |-> db.invites, keys |-> db.keys]
  BY <1>4
<1>6. TablesFit'
  BY <1>3, <1>5 DEF Base, TablesFit
<1>7. InTurn'
  BY <1>1 DEF Base, InTurn
<1>8. AllHere => AllHere'
  BY <1>1 DEF AllHere
<1>9. "reload" \in why' \/ AllHere'
  BY <1>1, <1>8 DEF Base
<1>10. \A j \in DOMAIN calls' : (MadeBy(page, calls[j]) /\ Served(calls[j]))'
  BY <1>1 DEF Base
<1> QED BY <1>1, <1>6, <1>7, <1>9, <1>10 DEF Base

LEMMA LoadingBase ==
  ASSUME Base, PagesInv',
         \/ \E to \in Typed : TypeAddress(to)
         \/ \E k \in DOMAIN calls : DepartureAnswered(k) /\ Ok(k)
         \/ \E k \in DOMAIN calls : CheckoutAnswered(k) /\ Ok(k)
  PROVE  Base'
<1>1. PICK at, w, x, rest :
           /\ Reload(at, w, x, rest) /\ rest \subseteq DOMAIN calls /\ Stale(rest) \subseteq why'
           /\ cookie' = cookie /\ db' = db
  BY LoadMoves
<1>2. Orphans(rest) # {} => "reload" \in why'
  BY <1>1 DEF Stale
<1>3. TablesFit'
  BY <1>1 DEF Base, TablesFit
<1> QED BY <1>1, <1>2, <1>3, LoadBase

LEMMA InitBase == Init => Base
<1> SUFFICES ASSUME Init PROVE Base
  OBVIOUS
<1>1. PICK to \in Tabs :
        /\ page = MountedAs(Address(to.at, to.ws, to.arg), 1)
        /\ calls = [k \in DOMAIN Opens(Address(to.at, to.ws, to.arg)) |->
                      [op |-> Opens(Address(to.at, to.ws, to.arg))[k], as |-> cookie,
                       ws |-> to.ws, arg |-> to.arg, by |-> 1, here |-> TRUE,
                       state |-> "sent", turn |-> 0, answer |-> None]]
  BY DEF Init
<1>2. PICK pg : pg = Address(to.at, to.ws, to.arg)
  OBVIOUS
<1>3. PICK o : o = Opens(pg)
  OBVIOUS
<1>4. /\ page = MountedAs(pg, 1)
      /\ calls = [k \in DOMAIN o |->
                    [op |-> o[k], as |-> cookie, ws |-> to.ws, arg |-> to.arg, by |-> 1,
                     here |-> TRUE, state |-> "sent", turn |-> 0, answer |-> None]]
  BY <1>1, <1>2, <1>3
<1>5. IsPage(pg) /\ Nested(pg) /\ Placed(pg) /\ pg.index = 0 /\ pg.wsp = 0 /\ pg.inner = 0
  BY <1>2, AddressFits, AddressPlaced
<1>6. Len(o) \in Nat /\ DOMAIN o = 1 .. Len(o)
  BY <1>3, OpensOf
<1>7. DOMAIN calls = 1 .. Len(o)
  BY <1>4, <1>6
<1>8. ASSUME NEW k \in 1 .. Len(o)
      PROVE  /\ calls[k].op = o[k] /\ calls[k].by = 1 /\ calls[k].here
             /\ calls[k].state = "sent" /\ calls[k].turn = 0
  BY <1>4, <1>6, <1>8
<1>9. PICK p : p = page
  OBVIOUS
<1>10. Placed(p) /\ Mounting(pg, p, 1)
  BY <1>4, <1>5, <1>9, MountPlaced
<1>11. ASSUME NEW k \in DOMAIN calls PROVE MadeBy(p, calls[k]) /\ Served(calls[k])
  <2>1. PICK c : c = calls[k]
    OBVIOUS
  <2>2. k \in 1 .. Len(Opens(pg)) /\ c.op = Opens(pg)[k] /\ c.by = 1 /\ c.state = "sent" /\ c.turn = 0
    BY <1>3, <1>7, <1>8, <2>1
  <2>3. MadeBy(p, c) /\ Served(c)
    BY <1>5, <1>10, <2>2, MadeByOpening
  <2> QED BY <2>1, <2>3
<1>12. InTurn
  BY <1>7, <1>8 DEF InTurn
<1>13. TablesFit
  <2>1. db = Start
    BY DEF Init
  <2>2. /\ LevelsFit(Start.level) /\ InvitesFit(Start.invites) /\ IsFcn(Start.home)
        /\ IsFcn(Start.keys)
    BY StartAssumption DEF LevelsFit, InvitesFit, IsFcn
  <2> QED BY <2>1, <2>2, StartAssumption DEF TablesFit
<1>14. Whole(store)
  BY DEF Init, NoTab, Whole
<1>15. AllHere
  BY <1>7, <1>8 DEF AllHere
<1> QED BY <1>9, <1>10, <1>11, <1>12, <1>13, <1>14, <1>15, InitPages DEF Base

LEMMA AnswerBase ==
  ASSUME Base, PagesInv', NEW k \in DOMAIN calls, AnswerArrives(k)
  PROVE  Base'
<1>1. CASE \E rest, st, pg, asked : Moves(rest, st, pg, asked)
  BY <1>1, MovesBase
<1>2. CASE \/ AppAnswered(k) \/ GetAppAnswered(k) \/ ProjectsAnswered(k) \/ ProjectAnswered(k)
           \/ LinkAnswered(k) \/ ListAnswered(k)
  BY <1>1, <1>2, AppMoves, GetAppMoves, ProjectsMoves, ProjectMoves, LinkMoves, ListMoves
<1>3. CASE \/ SettingAnswered(k) \/ KeyAnswered(k) \/ ProjectCreated(k) \/ WorkspaceCreated(k)
           \/ Says(k) \/ InviteAnswered(k)
  BY <1>1, <1>3, SettingMoves, KeyMoves, ProjectCreatedMoves, WorkspaceCreatedMoves, SaysMoves,
     InviteMoves
<1>4. CASE SessionAnswered(k) \/ LogOutAnswered(k) \/ PlanAnswered(k)
  BY <1>1, <1>4, SessionMoves, LogOutMoves, RefusalMoves
<1>5. CASE DepartureAnswered(k) \/ CheckoutAnswered(k)
  <2>1. CASE Ok(k)
    BY <1>5, <2>1, LoadingBase
  <2>2. CASE ~Ok(k)
    BY <1>1, <1>5, <2>2, RefusalMoves
  <2> QED BY <2>1, <2>2
<1> QED BY <1>2, <1>3, <1>4, <1>5 DEF AnswerArrives

LEMMA NextBase == Base /\ [Next]_vars => Base'
<1> SUFFICES ASSUME Base, [Next]_vars PROVE Base'
  OBVIOUS
<1>0. PagesInv'
  BY NextPages DEF Base
<1>1. CASE UNCHANGED vars
  BY <1>0, <1>1 DEF vars, Base, InTurn, TablesFit, AllHere
<1>2. CASE FormSent
  <2>1. PICK op, w, x : Ask(op, w, x) /\ Sends(op, w, x)
    BY <1>2, FormSends
  <2>2. PICK c : c = Call(op, w, x, page.inner)
    OBVIOUS
  <2>3. Moves(DOMAIN calls, store, page, <<c>>)
    BY <2>1, <2>2, FormMoves
  <2> QED BY <1>0, <2>3, MovesBase
<1>3. CASE Moved
  <2>1. CASE \E to \in Links : Follow(to)
    <3>1. PICK to \in Links : Follow(to)
      BY <2>1
    <3>2. PICK pg : pg = Going(page, to.at, to.ws, to.arg)
      OBVIOUS
    <3>3. Moves(DOMAIN calls, store, pg, <<>>)
      BY <3>1, <3>2, FollowMoves
    <3> QED BY <1>0, <3>3, MovesBase
  <2>2. CASE \E to \in Typed : TypeAddress(to)
    BY <1>0, <2>2, LoadingBase
  <2> QED BY <1>3, <2>1, <2>2 DEF Moved
<1>4. ASSUME NEW k \in DOMAIN calls, Serve(k) \/ Forget(k) PROVE Base'
  BY <1>0, <1>4, ServeBase, ForgetBase
<1>5. ASSUME NEW k \in DOMAIN calls, AnswerArrives(k) PROVE Base'
  BY <1>0, <1>5, AnswerBase
<1>6. CASE \E w \in Workspaces : RemovedElsewhere(w)
  BY <1>0, <1>6, RemovedBase
<1> QED BY <1>1, <1>2, <1>3, <1>4, <1>5, <1>6 DEF Next, Network

\* A call that a page was opened with.
Opened(c, p) ==
  /\ c.state = "sent" /\ c.turn = 0 /\ c.as = cookie' /\ c.here
  /\ c.ws = p.ws /\ c.arg = p.arg /\ c.by \in Nat /\ c.by > Sent
  /\ \/ c.op = "app" /\ c.by = p.index
     \/ c.op = "projects" /\ c.by = p.wsp
     \/ /\ c.op \in {"logout", "verify", "project", "link", "getInvite", "members", "invites",
                     "keys"}
        /\ c.by = p.inner
        /\ c.op \in DOMAIN AtOf => p.at \in AtOf[c.op]

LEMMA IsOpened ==
  ASSUME NEW to, NEW n \in Nat, n > Sent, Sent \in Nat, NEW p, Mounting(to, p, n),
         NEW i \in 1 .. Len(Opens(to)), NEW c, c = Call(Opens(to)[i], to.ws, to.arg, n)
  PROVE  Opened(c, p) /\ c.op = Opens(to)[i]
<1>1. PICK op : op = Opens(to)[i]
  OBVIOUS
<1>2. /\ c.op = op /\ c.as = cookie' /\ c.ws = to.ws /\ c.arg = to.arg /\ c.by = n /\ c.here
      /\ c.state = "sent" /\ c.turn = 0
  BY <1>1, CallIs
<1>3. \/ op = "app" /\ Mounts(to) = "index"
      \/ op = "projects" /\ Mounts(to) = "wsp"
      \/ op \in {"logout", "verify"} /\ Mounts(to) = "inner"
      \/ /\ op \in {"project", "link", "getInvite", "members", "invites", "keys"}
         /\ to.at \in AtOf[op] /\ Mounts(to) = "inner"
  BY <1>1, OpensFrom
<1>4. op \in {"app", "projects", "logout", "verify"} => op \notin DOMAIN AtOf
  BY DEF AtOf
<1>5. /\ p.ws = to.ws /\ p.arg = to.arg /\ p.at = to.at
      /\ Mounts(to) = "index" => p.index = n
      /\ Mounts(to) = "wsp" => p.wsp = n
      /\ Mounts(to) = "inner" => p.inner = n
  BY DEF Mounting
<1>6. \/ c.op = "app" /\ c.by = p.index
      \/ c.op = "projects" /\ c.by = p.wsp
      \/ /\ c.op \in {"logout", "verify", "project", "link", "getInvite", "members", "invites",
                      "keys"}
         /\ c.by = p.inner
         /\ c.op \in DOMAIN AtOf => p.at \in AtOf[c.op]
  <2>1. CASE op = "app" /\ Mounts(to) = "index"
    BY <1>2, <1>5, <2>1
  <2>2. CASE op = "projects" /\ Mounts(to) = "wsp"
    BY <1>2, <1>5, <2>2
  <2>3. CASE op \in {"logout", "verify"} /\ Mounts(to) = "inner"
    BY <1>2, <1>4, <1>5, <2>3
  <2>4. CASE /\ op \in {"project", "link", "getInvite", "members", "invites", "keys"}
             /\ to.at \in AtOf[op] /\ Mounts(to) = "inner"
    BY <1>2, <1>5, <2>4
  <2> QED BY <1>3, <2>1, <2>2, <2>3, <2>4
<1> QED BY <1>1, <1>2, <1>5, <1>6 DEF Opened

\* The calls after a step within the document, and what of the page goes on.
Goes(pg, p, cs, R, rest, asked) ==
  /\ rest \subseteq R /\ \A k \in rest : cs[k] = calls[k]
  /\ \A j \in R \ rest : (asked = <<cs[j]>> /\ j = Sent + 1) \/ Opened(cs[j], p)
  /\ \A c : asked = <<c>> => \E j \in R \ rest : cs[j] = c

Remains(pg, p, cs, Q) ==
  /\ IsPage(p)
  /\ p.index # 0 => \/ p.index = pg.index /\ p.loaded = pg.loaded
                    \/ ~p.loaded /\ \E j \in Q : cs[j].op = "app" /\ Opened(cs[j], p)
  /\ p.wsp # 0 => \/ /\ p.wsp = pg.wsp /\ p.ready = pg.ready /\ p.index = pg.index
                     /\ p.ws = pg.ws
                  \/ ~p.ready /\ \E j \in Q : cs[j].op = "projects" /\ Opened(cs[j], p)
  /\ p.inner # 0 => \/ /\ p.inner = pg.inner /\ p.at = pg.at /\ p.shown = pg.shown
                       /\ p.members = pg.members /\ p.invites = pg.invites /\ p.keys = pg.keys
                       /\ p.wsp = pg.wsp /\ p.ws = pg.ws /\ p.arg = pg.arg
                    \/ /\ ~p.shown /\ p.inner > Sent
                       /\ p.at = "settings" =>
                            \A op \in {"members", "invites"} :
                              \E j \in Q : cs[j].op = op /\ Opened(cs[j], p)
                       /\ p.at = "account" =>
                            \E j \in Q : cs[j].op = "keys" /\ Opened(cs[j], p)

\* All the calls of a page that is opened are there.
Fetches(to, n, cs, Q) ==
  \A i \in 1 .. Len(Opens(to)) : \E j \in Q : cs[j] = Call(Opens(to)[i], to.ws, to.arg, n)

LEMMA Opening ==
  ASSUME NEW to
  PROVE  /\ Mounts(to) = "index" => Len(Opens(to)) = 1 /\ Opens(to)[1] = "app"
         /\ Mounts(to) = "wsp" => Len(Opens(to)) = 1 /\ Opens(to)[1] = "projects"
         /\ Mounts(to) = "inner" /\ to.at = "settings" =>
              Len(Opens(to)) = 2 /\ Opens(to)[1] = "members" /\ Opens(to)[2] = "invites"
         /\ Mounts(to) = "inner" /\ to.at = "account" =>
              Len(Opens(to)) = 1 /\ Opens(to)[1] = "keys"
<1>1. Mounts(to) = "index" => Opens(to) = <<"app">>
  BY DEF Opens
<1>2. Mounts(to) = "wsp" => Opens(to) = <<"projects">>
  BY DEF Opens
<1>3. "settings" \in DOMAIN OnMount /\ OnMount["settings"] = <<"members", "invites">>
  BY DEF OnMount
<1>4. "account" \in DOMAIN OnMount /\ OnMount["account"] = <<"keys">>
  BY DEF OnMount
<1>5. Mounts(to) = "inner" /\ to.at \in DOMAIN OnMount => Opens(to) = OnMount[to.at]
  BY DEF Opens
<1> QED BY <1>1, <1>2, <1>3, <1>4, <1>5

\* A page that is kept where an answer leads to is the one of the same workspace.
Anchored(pg, to) ==
  /\ to.wsp # 0 => to.ws = pg.ws
  /\ to.inner # 0 => to.ws = pg.ws /\ to.arg = pg.arg

LEMMA LedAnchored ==
  ASSUME NEW pg, IsPage(pg), Nested(pg), Placed(pg), NEW st
  PROVE  Anchored(pg, Led(pg, st))
<1>1. ASSUME NEW at, NEW w, NEW x PROVE Anchored(pg, Address(at, w, x))
  BY DEF Address, Anchored
<1>2. ASSUME NEW at, at # pg.at, NEW w, w = pg.ws \/ pg.wsp = 0, NEW x
      PROVE  Anchored(pg, Going(pg, at, w, x))
  <2>1. PICK new : new = Address(at, w, x)
    OBVIOUS
  <2>2. IsPage(new) /\ new.ws = w /\ new.wsp = 0 /\ new.inner = 0
    BY <2>1, AddressFits, AddressPlaced
  <2>3. PICK to : to = Going(pg, at, w, x)
    OBVIOUS
  <2>4. \/ to = new
        \/ to = [new EXCEPT !.index = pg.index, !.loaded = pg.loaded,
                            !.wsp = pg.wsp, !.ready = pg.ready]
        \/ to = [new EXCEPT !.index = pg.index, !.loaded = pg.loaded]
    BY <1>2, <2>1, <2>3 DEF Going
  <2>5. to.ws = w /\ to.inner = 0 /\ to.wsp \in {0, pg.wsp}
    BY <2>2, <2>4 DEF IsPage
  <2>6. Anchored(pg, to)
    BY <1>2, <2>5 DEF Anchored
  <2> QED BY <2>3, <2>6
<1>3. CASE pg.at = "index"
  <2>1. pg.wsp = 0
    BY <1>3 DEF Nested, Within
  <2> QED BY <1>1, <1>2, <1>3, <2>1 DEF Led, Anchored
<1>4. CASE pg.at # "index"
  <2>1. pg.at = "project" => Anchored(pg, Going(pg, "workspace", pg.ws, None))
    BY <1>2
  <2> QED BY <1>1, <1>4, <2>1 DEF Led, Anchored
<1> QED BY <1>3, <1>4

LEMMA MountRemains ==
  ASSUME NEW pg, NEW to, IsPage(to), Nested(to), Placed(to), to = pg \/ Kept(pg, to),
         Anchored(pg, to),
         NEW n \in Nat, n > Sent, Sent \in Nat,
         NEW p, Mounting(to, p, n), NEW cs, NEW Q, Fetches(to, n, cs, Q)
  PROVE  Remains(pg, p, cs, Q)
<1>1. ASSUME NEW i \in 1 .. Len(Opens(to))
      PROVE  \E j \in Q : cs[j].op = Opens(to)[i] /\ Opened(cs[j], p)
  <2>1. PICK j \in Q : cs[j] = Call(Opens(to)[i], to.ws, to.arg, n)
    BY DEF Fetches
  <2>2. PICK c : c = cs[j]
    OBVIOUS
  <2>3. Opened(c, p) /\ c.op = Opens(to)[i]
    BY <2>1, <2>2, IsOpened
  <2> QED BY <2>2, <2>3
<1>2. /\ Mounts(to) = "index" => \E j \in Q : cs[j].op = "app" /\ Opened(cs[j], p)
      /\ Mounts(to) = "wsp" => \E j \in Q : cs[j].op = "projects" /\ Opened(cs[j], p)
      /\ Mounts(to) = "inner" /\ to.at = "settings" =>
           \A op \in {"members", "invites"} :
             \E j \in Q : cs[j].op = op /\ Opened(cs[j], p)
      /\ Mounts(to) = "inner" /\ to.at = "account" =>
           \E j \in Q : cs[j].op = "keys" /\ Opened(cs[j], p)
  BY <1>1, Opening
<1>3. /\ to.index = 0 \/ (to.index = pg.index /\ to.loaded = pg.loaded)
      /\ to.wsp = 0 \/ (to.wsp = pg.wsp /\ to.ready = pg.ready /\ to.index = pg.index)
      /\ to.inner = 0 \/ /\ to.inner = pg.inner /\ to.at = pg.at /\ to.shown = pg.shown
                         /\ to.members = pg.members /\ to.invites = pg.invites /\ to.keys = pg.keys
                         /\ to.wsp = pg.wsp
  BY DEF Kept
<1>4. to.inner = 0 => ~to.shown \/ to = pg
  BY DEF Kept
<1>5. p.index # 0 => \/ p.index = pg.index /\ p.loaded = pg.loaded
                     \/ ~p.loaded /\ \E j \in Q : cs[j].op = "app" /\ Opened(cs[j], p)
  BY <1>2, <1>3, MountsWhat DEF Mounting, Nested
<1>6. p.wsp # 0 => \/ /\ p.wsp = pg.wsp /\ p.ready = pg.ready /\ p.index = pg.index
                      /\ p.ws = pg.ws
                   \/ ~p.ready /\ \E j \in Q : cs[j].op = "projects" /\ Opened(cs[j], p)
  <2>1. CASE Mounts(to) = "wsp"
    BY <1>2, <2>1, MountsWhat DEF Mounting, Nested
  <2>2. CASE Mounts(to) = "index"
    <3>1. p.wsp = 0
      BY <2>2, MountsWhat DEF Mounting, Nested, Placed
    <3> QED BY <3>1
  <2>3. CASE Mounts(to) \notin {"wsp", "index"}
    <3>1. p.wsp = to.wsp /\ p.ready = to.ready /\ p.index = to.index /\ p.ws = to.ws
      BY <2>3 DEF Mounting
    <3> QED BY <1>3, <3>1 DEF Anchored
  <2> QED BY <2>1, <2>2, <2>3
<1>7. p.inner # 0 => \/ /\ p.inner = pg.inner /\ p.at = pg.at /\ p.shown = pg.shown
                        /\ p.members = pg.members /\ p.invites = pg.invites /\ p.keys = pg.keys
                        /\ p.wsp = pg.wsp /\ p.ws = pg.ws /\ p.arg = pg.arg
                     \/ /\ ~p.shown /\ p.inner > Sent
                        /\ p.at = "settings" =>
                             \A op \in {"members", "invites"} :
                               \E j \in Q : cs[j].op = op /\ Opened(cs[j], p)
                        /\ p.at = "account" =>
                             \E j \in Q : cs[j].op = "keys" /\ Opened(cs[j], p)
  <2>1. CASE Mounts(to) = "inner"
    <3>1. ~to.shown /\ p.shown = to.shown /\ p.inner = n /\ p.at = to.at
      BY <2>1, MountsWhat DEF Mounting, Placed
    <3> QED BY <1>2, <2>1, <3>1
  <2>2. CASE Mounts(to) # "inner" /\ to.inner # 0
    <3>1. /\ p.inner = to.inner /\ p.at = to.at /\ p.shown = to.shown
          /\ p.members = to.members /\ p.invites = to.invites /\ p.keys = to.keys
          /\ p.ws = to.ws /\ p.arg = to.arg
      BY <2>2 DEF Mounting
    <3>2. p.wsp = to.wsp
      BY <2>2, MountsWhat DEF Mounting, Placed
    <3>3. /\ to.inner = pg.inner /\ to.at = pg.at /\ to.shown = pg.shown
          /\ to.members = pg.members /\ to.invites = pg.invites /\ to.keys = pg.keys
          /\ to.wsp = pg.wsp /\ to.ws = pg.ws /\ to.arg = pg.arg
      BY <1>3, <2>2 DEF Anchored
    <3> QED BY <3>1, <3>2, <3>3
  <2>3. CASE Mounts(to) # "inner" /\ to.inner = 0
    BY <2>3 DEF Mounting
  <2> QED BY <2>1, <2>2, <2>3
<1>8. IsPage(p)
  BY DEF Mounting
<1> QED BY <1>5, <1>6, <1>7, <1>8 DEF Remains

\* What is on the page where a link or an answer led to.
Arrives(to, pg, p) ==
  /\ to = pg \/ Kept(pg, to)
  /\ p.at = to.at /\ p.ws = to.ws /\ p.arg = to.arg /\ p.loaded = to.loaded

LEMMA MovesMakes ==
  ASSUME Base, NEW rest, NEW st, NEW pg, NEW asked, Moves(rest, st, pg, asked),
         NEW p, p = page', NEW cs, cs = calls', NEW R, R = DOMAIN calls'
  PROVE  /\ Goes(pg, p, cs, R, rest, asked) /\ Remains(pg, p, cs, R \ rest) /\ store' = st
         /\ Arrives(Led(pg, st), pg, p)
<1>1. PICK to, n : /\ to = Led(pg, st) /\ n \in Nat /\ n > Sent /\ store' = st
                   /\ IsPage(to) /\ Nested(to) /\ Placed(to) /\ (to = pg \/ Kept(pg, to))
                   /\ to.index < n /\ to.wsp < n /\ to.inner < n
                   /\ Mounting(to, page', n) /\ Placed(page')
                   /\ Made(rest, asked, to, n)
  BY MovesTo
<1>2. Sent \in Nat
  BY SentIsLargest DEF Base
<1>3. Mounting(to, p, n)
  BY <1>1
<1>4. Fetches(to, n, cs, R \ rest)
  BY <1>1 DEF Made, Fetches
<1>0. Anchored(pg, to)
  BY <1>1, LedAnchored DEF Moves, Ready
<1>5. Remains(pg, p, cs, R \ rest)
  BY <1>0, <1>1, <1>2, <1>3, <1>4, MountRemains
<1>6. ASSUME NEW j \in R \ rest, ~(asked = <<cs[j]>> /\ j = Sent + 1) PROVE Opened(cs[j], p)
  <2>1. PICK i \in 1 .. Len(Opens(to)) : cs[j] = Call(Opens(to)[i], to.ws, to.arg, n)
    BY <1>1, <1>6 DEF Made
  <2>2. PICK c : c = cs[j]
    OBVIOUS
  <2>3. Opened(c, p)
    BY <1>1, <1>2, <1>3, <2>1, <2>2, IsOpened
  <2> QED BY <2>2, <2>3
<1>7. /\ rest \subseteq R /\ (\A k \in rest : cs[k] = calls[k])
      /\ \A c : asked = <<c>> => \E j \in R \ rest : cs[j] = c
  BY <1>1 DEF Made
<1>8. Goes(pg, p, cs, R, rest, asked)
  BY <1>6, <1>7 DEF Goes
<1>9. p.at = to.at /\ p.ws = to.ws /\ p.arg = to.arg /\ p.loaded = to.loaded
  BY <1>3 DEF Mounting
<1>10. Arrives(to, pg, p)
  BY <1>1, <1>9 DEF Arrives
<1> QED BY <1>1, <1>5, <1>8, <1>10

\* A full load that leaves nothing behind is a page opened anew.
LEMMA LoadMakes ==
  ASSUME Base,
         \/ \E to \in Typed : TypeAddress(to)
         \/ \E k \in DOMAIN calls : DepartureAnswered(k) /\ Ok(k)
         \/ \E k \in DOMAIN calls : CheckoutAnswered(k) /\ Ok(k),
         "reload" \notin why', NEW p, p = page', NEW cs, cs = calls', NEW R, R = DOMAIN calls'
  PROVE  /\ store' = NoTab /\ cookie' = cookie /\ db' = db
         /\ \A j \in R : Opened(cs[j], p)
         /\ ~p.loaded /\ ~p.ready /\ ~p.shown
         /\ \E pg : /\ pg.index = 0 /\ pg.wsp = 0 /\ pg.inner = 0
                    /\ Remains(pg, p, cs, R)
         /\ \/ \E to \in Typed : p.at = to.at /\ p.ws = to.ws /\ NotOwn(to) \subseteq why'
            \/ p.at \in {"index", "success", "cancel"}
<1>1. PICK at, w, x, rest :
           /\ Reload(at, w, x, rest) /\ rest \subseteq DOMAIN calls /\ Stale(rest) \subseteq why'
           /\ cookie' = cookie /\ db' = db
           /\ \/ \E to \in Typed : at = to.at /\ w = to.ws /\ NotOwn(to) \subseteq why'
              \/ at \in {"index", "success", "cancel"}
  BY LoadMoves
<1>2. Orphans(rest) = {}
  BY <1>1 DEF Stale
<1>3. PICK to, n : /\ to = Address(at, w, x) /\ n \in Nat /\ n > Sent /\ store' = NoTab
                   /\ Mounting(to, page', n)
                   /\ \A j \in DOMAIN calls' \ Orphans(rest) :
                        \E i \in 1 .. Len(Opens(to)) : calls'[j] = Call(Opens(to)[i], w, x, n)
                   /\ \A i \in 1 .. Len(Opens(to)) :
                        \E j \in DOMAIN calls' \ Orphans(rest) :
                          calls'[j] = Call(Opens(to)[i], w, x, n)
  BY <1>1, LoadsTo
<1>4. Sent \in Nat
  BY SentIsLargest DEF Base
<1>5. /\ IsPage(to) /\ Nested(to) /\ Placed(to) /\ to.at = at /\ to.ws = w /\ to.arg = x
      /\ to.index = 0 /\ to.wsp = 0 /\ to.inner = 0 /\ ~to.loaded /\ ~to.ready /\ ~to.shown
  BY <1>3, AddressFits, AddressPlaced
<1>6. Mounting(to, p, n)
  BY <1>3
<1>8. Fetches(to, n, cs, R)
  BY <1>2, <1>3, <1>5 DEF Fetches
<1>7. Anchored(to, to)
  BY DEF Anchored
<1>9. Remains(to, p, cs, R)
  BY <1>7, <1>3, <1>4, <1>5, <1>6, <1>8, MountRemains
<1>10. ASSUME NEW j \in R PROVE Opened(cs[j], p)
  <2>1. PICK i \in 1 .. Len(Opens(to)) : cs[j] = Call(Opens(to)[i], to.ws, to.arg, n)
    BY <1>2, <1>3, <1>5
  <2>2. PICK c : c = cs[j]
    OBVIOUS
  <2>3. Opened(c, p)
    BY <1>3, <1>4, <1>6, <2>1, <2>2, IsOpened
  <2> QED BY <2>2, <2>3
<1>11. /\ ~p.loaded /\ ~p.ready /\ ~p.shown /\ p.at = at /\ p.ws = w
  BY <1>5, <1>6 DEF Mounting
<1> QED BY <1>1, <1>3, <1>5, <1>9, <1>10, <1>11

-----------------------------------------------------------------------------
(* Whose account is shown                                                  *)

\* A change of members still to be served is about neither the account shown nor that
\* of the session.
Spares(c, who, held) ==
  c.state = "sent" /\ c.op \in {"level", "removeMember"} /\ Target(c) # None
    => Target(c) \notin {who, held}

Session ==
  why \cap {"crossed", "reload"} = {} =>
    /\ page.loaded => store.app.account = cookie
    /\ \A k \in DOMAIN calls : Spares(calls[k], cookie, store.app.account)

LEMMA MovesSession ==
  ASSUME Base, Base', NEW rest, NEW st, NEW pg, NEW asked, Moves(rest, st, pg, asked),
         pg.loaded => st.app.account = cookie',
         \A k \in rest : Spares(calls[k], cookie', st.app.account),
         \A c : asked = <<c>> => Spares(c, cookie', st.app.account)
  PROVE  Session'
<1>1. PICK p, cs, R : p = page' /\ cs = calls' /\ R = DOMAIN calls'
  OBVIOUS
<1>2. /\ Goes(pg, p, cs, R, rest, asked) /\ Remains(pg, p, cs, R \ rest) /\ store' = st
  BY <1>1, MovesMakes
<1>3. p.loaded => pg.loaded
  <2>1. p.index = 0 => ~p.loaded
    BY <1>1 DEF Base, PagesInv, Nested
  <2>2. p.index # 0 => p.loaded = pg.loaded \/ ~p.loaded
    BY <1>2 DEF Remains
  <2> QED BY <2>1, <2>2
<1>4. ASSUME NEW k \in R PROVE Spares(cs[k], cookie', st.app.account)
  <2>1. CASE k \in rest
    BY <1>2, <2>1 DEF Goes
  <2>2. CASE k \notin rest /\ Opened(cs[k], p)
    BY <2>2 DEF Opened, Spares
  <2> QED BY <1>2, <2>1, <2>2 DEF Goes
<1> QED BY <1>1, <1>2, <1>3, <1>4 DEF Session

\* The answers that leave the account and the session as they are.
Elsewhere == DOMAIN Reloads \cup Said \cup
  {"projects", "project", "link", "members", "invites", "keys", "createKey", "revokeKey",
   "createProject", "createWorkspace", "getInvite", "changePlan", "leave", "deleteWorkspace",
   "deleteAccount", "checkout"}

Other(k) ==
  \/ ProjectsAnswered(k) \/ ProjectAnswered(k) \/ LinkAnswered(k) \/ ListAnswered(k)
  \/ SettingAnswered(k) \/ KeyAnswered(k) \/ ProjectCreated(k) \/ WorkspaceCreated(k)
  \/ Says(k) \/ InviteAnswered(k) \/ PlanAnswered(k)
  \/ DepartureAnswered(k) /\ ~Ok(k)
  \/ CheckoutAnswered(k) /\ ~Ok(k)

Stays(k, st, pg, asked) ==
  /\ Moves(DOMAIN calls \ {k}, st, pg, asked) /\ st.app = store.app
  /\ \/ /\ pg.index = page.index /\ pg.loaded = page.loaded /\ pg.wsp = page.wsp
        /\ pg.inner = page.inner
        /\ pg.at = page.at /\ pg.ws = page.ws /\ pg.arg = page.arg
     \/ /\ pg.at \in {"success", "cancel"} /\ ~pg.loaded
        /\ pg.index = 0 /\ pg.wsp = 0 /\ pg.inner = 0
  /\ \A c : asked = <<c>> => c.op \in {"members", "invites", "keys", "getApp"}
  /\ calls[k].op = "createWorkspace" /\ Ok(k) =>
       \E c : asked = <<c>> /\ c.op = "getApp" /\ c.state = "sent"

LEMMA OtherMoves ==
  ASSUME Base, NEW k \in DOMAIN calls, Other(k)
  PROVE  /\ cookie' = cookie /\ calls[k].op \in Elsewhere
         /\ calls[k].op \in {"leave", "deleteWorkspace", "deleteAccount"} => ~Ok(k)
         /\ \E st, pg, asked : Stays(k, st, pg, asked)
<1>0. IsPage(page) /\ Whole(store)
  BY DEF Base, PagesInv
<1>1. CASE ProjectsAnswered(k)
  <2>1. PICK st, pg :
              /\ Moves(DOMAIN calls \ {k}, st, pg, <<>>)
              /\ st = IF Ok(k) THEN [store EXCEPT !.projects = calls[k].answer] ELSE store
              /\ pg = page \/ pg = [page EXCEPT !.ready = TRUE]
    BY <1>1, ProjectsMoves
  <2>2. /\ pg.index = page.index /\ pg.loaded = page.loaded /\ pg.wsp = page.wsp
        /\ pg.inner = page.inner /\ pg.at = page.at /\ pg.ws = page.ws /\ pg.arg = page.arg
    BY <1>0, <2>1 DEF IsPage
  <2>3. st.app = store.app
    BY <1>0, <2>1 DEF Whole
  <2>4. cookie' = cookie /\ calls[k].op = "projects"
    BY <1>1, ProjectsMoves
  <2> QED BY <2>1, <2>2, <2>3, <2>4 DEF Elsewhere, Stays
<1>2. CASE ProjectAnswered(k)
  <2>1. PICK st, pg :
              /\ Moves(DOMAIN calls \ {k}, st, pg, <<>>)
              /\ st = IF Ok(k) THEN [store EXCEPT !.cards = calls[k].answer] ELSE store
              /\ pg = page \/ pg = [page EXCEPT !.shown = TRUE]
    BY <1>2, ProjectMoves
  <2>2. /\ pg.index = page.index /\ pg.loaded = page.loaded /\ pg.wsp = page.wsp
        /\ pg.inner = page.inner /\ pg.at = page.at /\ pg.ws = page.ws /\ pg.arg = page.arg
    BY <1>0, <2>1 DEF IsPage
  <2>3. st.app = store.app
    BY <1>0, <2>1 DEF Whole
  <2>4. cookie' = cookie /\ calls[k].op = "project"
    BY <1>2, ProjectMoves
  <2> QED BY <2>1, <2>2, <2>3, <2>4 DEF Elsewhere, Stays
<1>3. CASE LinkAnswered(k)
  <2>1. PICK st, pg :
              /\ Moves(DOMAIN calls \ {k}, st, pg, <<>>)
              /\ st = IF Ok(k) THEN [store EXCEPT !.projects = {calls[k].answer},
                                                  !.cards = calls[k].answer] ELSE store
              /\ pg = page \/ pg = [page EXCEPT !.shown = Ok(k)]
    BY <1>3, LinkMoves
  <2>2. /\ pg.index = page.index /\ pg.loaded = page.loaded /\ pg.wsp = page.wsp
        /\ pg.inner = page.inner /\ pg.at = page.at /\ pg.ws = page.ws /\ pg.arg = page.arg
    BY <1>0, <2>1 DEF IsPage
  <2>3. st.app = store.app
    BY <1>0, <2>1 DEF Whole
  <2>4. cookie' = cookie /\ calls[k].op = "link"
    BY <1>3, LinkMoves
  <2>5. calls[k].op \in Elsewhere /\ calls[k].op # "createWorkspace"
        /\ calls[k].op \notin {"leave", "deleteWorkspace", "deleteAccount"}
    BY <2>4 DEF Elsewhere
  <2>6. \A c : <<>> # <<c>>
    OBVIOUS
  <2>7. Moves(DOMAIN calls \ {k}, st, pg, <<>>) /\ cookie' = cookie
    BY <2>1, <2>4
  <2> QED BY <2>2, <2>3, <2>5, <2>6, <2>7 DEF Stays
<1>4. CASE ListAnswered(k)
  <2>1. PICK pg : /\ Moves(DOMAIN calls \ {k}, store, pg, <<>>)
                  /\ pg = page \/ pg = Listed(k, page)
    BY <1>4, ListMoves
  <2>2. cookie' = cookie /\ calls[k].op \in {"members", "invites", "keys"}
    BY <1>4, ListMoves
  <2>3. /\ pg.index = page.index /\ pg.loaded = page.loaded /\ pg.wsp = page.wsp
        /\ pg.inner = page.inner /\ pg.at = page.at /\ pg.ws = page.ws /\ pg.arg = page.arg
    <3>1. CASE pg = page
      BY <3>1
    <3>2. CASE pg = Listed(k, page) /\ calls[k].op = "members"
      <4>1. pg = [page EXCEPT !.members = calls[k].answer, !.shown = TRUE]
        BY <3>2 DEF Listed
      <4> QED BY <1>0, <4>1 DEF IsPage
    <3>3. CASE pg = Listed(k, page) /\ calls[k].op = "invites"
      <4>1. pg = [page EXCEPT !.invites = calls[k].answer]
        BY <3>3 DEF Listed
      <4> QED BY <1>0, <4>1 DEF IsPage
    <3>4. CASE pg = Listed(k, page) /\ calls[k].op = "keys"
      <4>1. pg = [page EXCEPT !.keys = calls[k].answer]
        BY <3>4 DEF Listed
      <4> QED BY <1>0, <4>1 DEF IsPage
    <3> QED BY <2>1, <2>2, <3>1, <3>2, <3>3, <3>4
  <2> QED BY <2>1, <2>2, <2>3 DEF Elsewhere, Stays
<1>5. CASE SettingAnswered(k)
  <2>1. /\ cookie' = cookie /\ calls[k].op \in DOMAIN Reloads
        /\ \E asked : Moves(DOMAIN calls \ {k}, store, page, asked)
    BY <1>5, SettingMoves
  <2>2. PICK w : w = IF page.inner = calls[k].by THEN page.ws ELSE calls[k].ws
    OBVIOUS
  <2>3. PICK asked : /\ Moves(DOMAIN calls \ {k}, store, page, asked)
                     /\ asked = IF Ok(k)
                                THEN <<Call(Reloads[calls[k].op], w, None, calls[k].by)>> ELSE <<>>
    BY <1>5, <2>2, SettingMoves
  <2>4. Reloads[calls[k].op] \in {"members", "invites"}
    BY <2>1 DEF Reloads
  <2>5. \A c : asked = <<c>> => c.op \in {"members", "invites"}
    <3>1. CASE Ok(k)
      <4>1. PICK d : d = Call(Reloads[calls[k].op], w, None, calls[k].by)
        OBVIOUS
      <4>2. d.op = Reloads[calls[k].op]
        BY <4>1, CallIs
      <4>3. \A c : asked = <<c>> => c = d
        BY <2>3, <3>1, <4>1
      <4> QED BY <2>4, <4>2, <4>3
    <3>2. CASE ~Ok(k)
      BY <2>3, <3>2
    <3> QED BY <3>1, <3>2
  <2>6. calls[k].op \in Elsewhere /\ calls[k].op # "createWorkspace"
        /\ calls[k].op \notin {"leave", "deleteWorkspace", "deleteAccount"}
    BY <2>1 DEF Elsewhere, Reloads
  <2> QED BY <2>1, <2>3, <2>5, <2>6 DEF Stays
<1>6. CASE KeyAnswered(k)
  <2>1. PICK pg, asked :
              /\ Moves(DOMAIN calls \ {k}, store, pg, asked)
              /\ pg = page \/ pg = [page EXCEPT !.key = calls[k].answer]
              /\ asked = IF Ok(k) THEN <<Call("keys", None, None, calls[k].by)>> ELSE <<>>
    BY <1>6, KeyMoves
  <2>2. cookie' = cookie /\ calls[k].op \in {"createKey", "revokeKey"}
    BY <1>6, KeyMoves
  <2>3. /\ pg.index = page.index /\ pg.loaded = page.loaded /\ pg.wsp = page.wsp
        /\ pg.inner = page.inner /\ pg.at = page.at /\ pg.ws = page.ws /\ pg.arg = page.arg
    BY <1>0, <2>1 DEF IsPage
  <2>4. \A c : asked = <<c>> => c.op = "keys"
    <3>1. CASE Ok(k)
      <4>1. PICK d : d = Call("keys", None, None, calls[k].by)
        OBVIOUS
      <4>2. d.op = "keys"
        BY <4>1, CallIs
      <4>3. \A c : asked = <<c>> => c = d
        BY <2>1, <3>1, <4>1
      <4> QED BY <4>2, <4>3
    <3>2. CASE ~Ok(k)
      BY <2>1, <3>2
    <3> QED BY <3>1, <3>2
  <2> QED BY <2>1, <2>2, <2>3, <2>4 DEF Elsewhere, Stays
<1>7. CASE ProjectCreated(k)
  <2>1. PICK st : /\ Moves(DOMAIN calls \ {k}, st, page, <<>>)
                  /\ st = IF Ok(k)
                          THEN [store EXCEPT !.projects = store.projects \cup {calls[k].answer}]
                          ELSE store
    BY <1>7, ProjectCreatedMoves
  <2>2. st.app = store.app
    BY <1>0, <2>1 DEF Whole
  <2>3. cookie' = cookie /\ calls[k].op = "createProject"
    BY <1>7, ProjectCreatedMoves
  <2> QED BY <2>1, <2>2, <2>3 DEF Elsewhere, Stays
<1>8. CASE WorkspaceCreated(k)
  <2>1. PICK asked : /\ Moves(DOMAIN calls \ {k}, store, page, asked)
                     /\ asked = IF Ok(k) THEN <<Call("getApp", None, None, 0)>> ELSE <<>>
    BY <1>8, WorkspaceCreatedMoves
  <2>2. cookie' = cookie /\ calls[k].op = "createWorkspace"
    BY <1>8, WorkspaceCreatedMoves
  <2>3. PICK d : d = Call("getApp", None, None, 0)
    OBVIOUS
  <2>4. d.op = "getApp" /\ d.state = "sent"
    BY <2>3, CallIs
  <2>5. /\ \A c : asked = <<c>> => c = d
        /\ Ok(k) => asked = <<d>>
    BY <2>1, <2>3
  <2> QED BY <2>1, <2>2, <2>4, <2>5 DEF Elsewhere, Stays
<1>9. CASE Says(k)
  <2>1. PICK pg : /\ Moves(DOMAIN calls \ {k}, store, pg, <<>>)
                  /\ pg = page \/ pg = [page EXCEPT !.said = calls[k].state]
    BY <1>9, SaysMoves
  <2>2. cookie' = cookie /\ calls[k].op \in Said
    BY <1>9, SaysMoves
  <2>3. /\ pg.index = page.index /\ pg.loaded = page.loaded /\ pg.wsp = page.wsp
        /\ pg.inner = page.inner /\ pg.at = page.at /\ pg.ws = page.ws /\ pg.arg = page.arg
    BY <1>0, <2>1 DEF IsPage
  <2> QED BY <2>1, <2>2, <2>3 DEF Elsewhere, Said, Stays
<1>10. CASE InviteAnswered(k)
  <2>1. PICK pg : /\ Moves(DOMAIN calls \ {k}, store, pg, <<>>)
                  /\ pg = page \/ pg = [page EXCEPT !.shown = Ok(k)]
    BY <1>10, InviteMoves
  <2>2. cookie' = cookie /\ calls[k].op = "getInvite"
    BY <1>10, InviteMoves
  <2>3. /\ pg.index = page.index /\ pg.loaded = page.loaded /\ pg.wsp = page.wsp
        /\ pg.inner = page.inner /\ pg.at = page.at /\ pg.ws = page.ws /\ pg.arg = page.arg
    BY <1>0, <2>1 DEF IsPage
  <2> QED BY <2>1, <2>2, <2>3 DEF Elsewhere, Stays
<1>11. CASE \/ PlanAnswered(k)
            \/ DepartureAnswered(k) /\ ~Ok(k)
            \/ CheckoutAnswered(k) /\ ~Ok(k)
  <2>1. PICK pg : /\ Moves(DOMAIN calls \ {k}, store, pg, <<>>)
                  /\ pg = page \/ \E at \in {"success", "cancel"} : pg = Address(at, None, None)
    BY <1>11, RefusalMoves
  <2>2. /\ cookie' = cookie
        /\ \/ calls[k].op = "changePlan"
           \/ ~Ok(k) /\ calls[k].op \in {"leave", "deleteWorkspace", "deleteAccount", "checkout"}
    BY <1>11, RefusalMoves
  <2>3. CASE pg = page
    BY <2>1, <2>2, <2>3 DEF Elsewhere, Stays
  <2>4. CASE pg # page
    <3>1. PICK at \in {"success", "cancel"} : pg = Address(at, None, None)
      BY <2>1, <2>4
    <3>2. pg.at = at /\ ~pg.loaded /\ pg.index = 0 /\ pg.wsp = 0 /\ pg.inner = 0
      BY <3>1, AddressPlaced
    <3> QED BY <2>1, <2>2, <3>2 DEF Elsewhere, Stays
  <2> QED BY <2>3, <2>4
<1> QED BY <1>1, <1>2, <1>3, <1>4, <1>5, <1>6, <1>7, <1>8, <1>9, <1>10, <1>11 DEF Other

LEMMA InitMakes ==
  ASSUME Init
  PROVE  /\ store = NoTab /\ ~page.loaded /\ ~page.ready /\ ~page.shown
         /\ \A k \in DOMAIN calls :
              /\ calls[k].state = "sent" /\ calls[k].as = cookie
              /\ calls[k].op \in Loads \cup {"logout", "verify"}
         /\ page.index # 0 => \E k \in DOMAIN calls : calls[k].op = "app"
         /\ \E to \in Tabs : page.at = to.at /\ page.ws = to.ws /\ why = NotOwn(to)
<1>1. PICK to \in Tabs :
        /\ page = MountedAs(Address(to.at, to.ws, to.arg), 1)
        /\ calls = [k \in DOMAIN Opens(Address(to.at, to.ws, to.arg)) |->
                      [op |-> Opens(Address(to.at, to.ws, to.arg))[k], as |-> cookie,
                       ws |-> to.ws, arg |-> to.arg, by |-> 1, here |-> TRUE,
                       state |-> "sent", turn |-> 0, answer |-> None]]
        /\ why = NotOwn(to)
  BY DEF Init
<1>2. PICK pg : pg = Address(to.at, to.ws, to.arg)
  OBVIOUS
<1>3. PICK o : o = Opens(pg)
  OBVIOUS
<1>4. /\ page = MountedAs(pg, 1)
      /\ calls = [k \in DOMAIN o |->
                    [op |-> o[k], as |-> cookie, ws |-> to.ws, arg |-> to.arg, by |-> 1,
                     here |-> TRUE, state |-> "sent", turn |-> 0, answer |-> None]]
  BY <1>1, <1>2, <1>3
<1>5. /\ IsPage(pg) /\ Nested(pg) /\ Placed(pg) /\ pg.index = 0 /\ pg.wsp = 0 /\ pg.inner = 0
      /\ pg.at = to.at /\ pg.ws = to.ws /\ ~pg.loaded /\ ~pg.ready /\ ~pg.shown
  BY <1>2, AddressFits, AddressPlaced
<1>6. Len(o) \in Nat /\ DOMAIN o = 1 .. Len(o)
  BY <1>3, OpensOf
<1>7. DOMAIN calls = 1 .. Len(o)
  BY <1>4, <1>6
<1>8. ASSUME NEW k \in 1 .. Len(o)
      PROVE  calls[k].op = o[k] /\ calls[k].as = cookie /\ calls[k].state = "sent"
  BY <1>4, <1>6, <1>8
<1>9. PICK p : p = page
  OBVIOUS
<1>10. Mounting(pg, p, 1)
  BY <1>4, <1>5, <1>9, MountPlaced
<1>11. ASSUME NEW k \in DOMAIN calls PROVE calls[k].op \in Loads \cup {"logout", "verify"}
  <2>1. PICK op : op = Opens(pg)[k]
    OBVIOUS
  <2>2. \/ op = "app" \/ op = "projects" \/ op \in {"logout", "verify"}
        \/ op \in {"project", "link", "getInvite", "members", "invites", "keys"}
    BY <1>3, <1>7, <2>1, OpensFrom
  <2> QED BY <1>3, <1>7, <1>8, <2>1, <2>2 DEF Loads
<1>12. page.index # 0 => \E k \in DOMAIN calls : calls[k].op = "app"
  <2>1. page.index # 0 => Mounts(pg) = "index"
    BY <1>5, <1>9, <1>10 DEF Mounting
  <2> QED BY <1>3, <1>7, <1>8, <2>1, Opening
<1>13. /\ ~p.loaded /\ ~p.ready /\ ~p.shown /\ p.at = to.at /\ p.ws = to.ws
  BY <1>5, <1>10 DEF Mounting
<1>14. store = NoTab
  BY DEF Init
<1> QED BY <1>1, <1>7, <1>8, <1>9, <1>11, <1>12, <1>13, <1>14

LEMMA InitSession == Init => Session
<1> SUFFICES ASSUME Init PROVE Session
  OBVIOUS
<1>1. \A k \in DOMAIN calls : calls[k].op \in Loads \cup {"logout", "verify"}
  BY InitMakes
<1>2. ASSUME NEW k \in DOMAIN calls PROVE Spares(calls[k], cookie, store.app.account)
  BY <1>1 DEF Spares, Loads
<1> QED BY <1>2, InitMakes DEF Session

LEMMA FormSession ==
  ASSUME Base, Base', Session, NEW op, NEW w, NEW x, Ask(op, w, x), Sends(op, w, x)
  PROVE  Session'
<1>1. PICK c : c = Call(op, w, x, page.inner)
  OBVIOUS
<1>2. /\ Moves(DOMAIN calls, store, page, <<c>>) /\ cookie' = cookie /\ why' = why
      /\ c.op = op /\ c.arg = x
  BY <1>1, FormMoves
<1> SUFFICES ASSUME why \cap {"crossed", "reload"} = {} PROVE Session'
  BY <1>2 DEF Session
<1>3. Spares(c, cookie, store.app.account)
  <2>1. CASE op \in {"level", "removeMember"}
    <3>1. page.loaded
      BY <2>1 DEF Sends, OnSettings, Base, Placed, Inside, Within
    <3>2. store.app.account = cookie
      BY <3>1 DEF Session
    <3>3. Target(c) # store.app.account
      BY <1>2, <2>1 DEF Target, Sends
    <3> QED BY <3>2, <3>3 DEF Spares
  <2>2. CASE op \notin {"level", "removeMember"}
    BY <1>2, <2>2 DEF Spares
  <2> QED BY <2>1, <2>2
<1>4. /\ page.loaded => store.app.account = cookie'
      /\ \A k \in DOMAIN calls : Spares(calls[k], cookie', store.app.account)
      /\ Spares(c, cookie', store.app.account)
  BY <1>2, <1>3 DEF Session
<1>5. \A d : <<c>> = <<d>> => Spares(d, cookie', store.app.account)
  BY <1>4
<1> QED BY <1>2, <1>4, <1>5, MovesSession

LEMMA LoadSession ==
  ASSUME Base, Base',
         \/ \E to \in Typed : TypeAddress(to)
         \/ \E k \in DOMAIN calls : DepartureAnswered(k) /\ Ok(k)
         \/ \E k \in DOMAIN calls : CheckoutAnswered(k) /\ Ok(k)
  PROVE  Session'
<1> SUFFICES ASSUME "reload" \notin why' PROVE Session'
  BY DEF Session
<1>1. PICK p, cs, R : p = page' /\ cs = calls' /\ R = DOMAIN calls'
  OBVIOUS
<1>2. ~p.loaded /\ \A j \in R : Opened(cs[j], p)
  BY <1>1, LoadMakes
<1>3. ASSUME NEW j \in R PROVE Spares(cs[j], cookie', store'.app.account)
  BY <1>2 DEF Opened, Spares
<1> QED BY <1>1, <1>2, <1>3 DEF Session

\* The answers to what asks for the account, and to what begins and ends sessions.
LEMMA AnswerSession ==
  ASSUME Base, Base', Session, NEW k \in DOMAIN calls,
         AppAnswered(k) \/ GetAppAnswered(k) \/ SessionAnswered(k) \/ LogOutAnswered(k),
         why' \cap {"crossed", "reload"} = {}
  PROVE  Session'
<1>1. IsPage(page) /\ Nested(page) /\ Placed(page) /\ Whole(store) /\ Served(calls[k])
  BY DEF Base, PagesInv
<1>2. \A c : <<>> # <<c>>
  OBVIOUS
<1>3. ASSUME NEW st, NEW pg, Moves(DOMAIN calls \ {k}, st, pg, <<>>),
             cookie' = cookie, calls[k].op \in {"app", "getApp"},
             Ok(k) => calls[k].as = cookie,
             st = IF Ok(k) THEN [store EXCEPT !.app = calls[k].answer] ELSE store,
             pg.loaded => page.loaded \/ Ok(k)
      PROVE  Session'
  <2>1. Ok(k) => calls[k].answer.account = cookie
    BY <1>1, <1>3 DEF Served, Ok, AppOps
  <2>2. Ok(k) => st.app.account = cookie
    BY <1>1, <1>3, <2>1 DEF Whole
  <2>3. why \cap {"crossed", "reload"} = {}
    BY <1>3 DEF Moves
  <2>4. pg.loaded => st.app.account = cookie'
    BY <1>3, <2>2, <2>3 DEF Session
  <2>5. st.app.account \in {cookie, store.app.account}
    BY <1>3, <2>2
  <2>6. ASSUME NEW j \in DOMAIN calls \ {k} PROVE Spares(calls[j], cookie', st.app.account)
    BY <1>3, <2>3, <2>5 DEF Session, Spares
  <2> QED BY <1>2, <1>3, <2>4, <2>6, MovesSession
<1>4. CASE AppAnswered(k)
  <2>1. /\ cookie' = cookie /\ calls[k].op = "app" /\ why' = why \cup Amiss(k) \cup Crossed(k)
    BY <1>4, AppMoves
  <2>2. PICK st, pg :
              /\ Moves(DOMAIN calls \ {k}, st, pg, <<>>)
              /\ \/ /\ Ok(k) /\ st = [store EXCEPT !.app = calls[k].answer]
                    /\ \/ page.index = calls[k].by /\ pg = [page EXCEPT !.loaded = TRUE]
                       \/ page.index # calls[k].by /\ pg = page
                 \/ ~Ok(k) /\ st = store /\ pg = Address("login", None, None)
    BY <1>4, AppMoves
  <2>3. calls[k].as = cookie
    BY <2>1 DEF Crossed
  <2>4. pg.loaded => page.loaded \/ Ok(k)
    BY <2>2, AddressPlaced
  <2> QED BY <1>3, <2>1, <2>2, <2>3, <2>4
<1>5. CASE GetAppAnswered(k)
  <2>1. /\ cookie' = cookie /\ calls[k].op = "getApp"
        /\ why' = why \cup (Amiss(k) \ {"late"}) \cup Crossed(k)
    BY <1>5, GetAppMoves
  <2>2. PICK st : /\ Moves(DOMAIN calls \ {k}, st, page, <<>>)
                  /\ st = IF Ok(k) THEN [store EXCEPT !.app = calls[k].answer] ELSE store
    BY <1>5, GetAppMoves
  <2>3. calls[k].as = cookie
    BY <2>1 DEF Crossed
  <2> QED BY <1>3, <2>1, <2>2, <2>3
<1>6. CASE SessionAnswered(k) \/ LogOutAnswered(k)
  <2>1. PICK st, pg :
          /\ Moves(DOMAIN calls \ {k}, st, pg, <<>>)
          /\ st = IF LogOutAnswered(k) /\ Ok(k) THEN [store EXCEPT !.app = NoApp] ELSE store
          /\ pg = IF Ok(k) THEN Going(page, "index", None, None) ELSE page
    <3>1. CASE SessionAnswered(k)
      <4>1. ~LogOutAnswered(k)
        BY <3>1 DEF SessionAnswered, LogOutAnswered, Answered
      <4> QED BY <3>1, <4>1, SessionMoves
    <3>2. CASE LogOutAnswered(k)
      BY <3>2, LogOutMoves
    <3> QED BY <1>6, <3>1, <3>2
  <2>2. why \cap {"crossed", "reload"} = {}
    BY <2>1 DEF Moves
  <2>3. CASE ~Ok(k)
    <3>1. cookie' = cookie
      BY <1>6, <2>3, SessionMoves, LogOutMoves
    <3>2. /\ pg.loaded => st.app.account = cookie'
          /\ \A j \in DOMAIN calls \ {k} : Spares(calls[j], cookie', st.app.account)
      BY <2>1, <2>2, <2>3, <3>1 DEF Session
    <3> QED BY <1>2, <2>1, <3>2, MovesSession
  <2>4. CASE SessionAnswered(k) /\ Ok(k)
    <3>1. page.index = 0 /\ ~Unsettled(DOMAIN calls \ {k})
      BY <2>4, SessionMoves
    <3>2. Kept(page, pg)
      BY <1>1, <2>1, <2>4, GoingPlaced
    <3>3. ~pg.loaded
      BY <1>1, <3>1, <3>2 DEF Kept, Nested
    <3>4. ASSUME NEW j \in DOMAIN calls \ {k} PROVE Spares(calls[j], cookie', st.app.account)
      BY <3>1 DEF Unsettled, Spares, Loads
    <3> QED BY <1>2, <2>1, <3>3, <3>4, MovesSession
  <2>5. CASE LogOutAnswered(k) /\ Ok(k)
    <3>1. cookie' = None
      BY <2>5, LogOutMoves
    <3>2. st.app = NoApp
      BY <1>1, <2>1, <2>5 DEF Whole
    <3>3. st.app.account = None
      BY <3>2 DEF NoApp
    <3>4. ASSUME NEW j \in DOMAIN calls \ {k} PROVE Spares(calls[j], cookie', st.app.account)
      BY <3>1, <3>3 DEF Spares
    <3> QED BY <1>2, <2>1, <3>1, <3>3, <3>4, MovesSession
  <2> QED BY <1>6, <2>3, <2>4, <2>5
<1> QED BY <1>4, <1>5, <1>6

LEMMA NetworkSession ==
  ASSUME Base, Session,
         \/ \E k \in DOMAIN calls : Serve(k) \/ Forget(k)
         \/ \E w \in Workspaces : RemovedElsewhere(w)
  PROVE  Session'
<1>1. ASSUME NEW k \in DOMAIN calls, Serve(k) PROVE Session'
  <2>1. /\ cookie' = cookie /\ store' = store /\ page' = page /\ why' = why
    BY <1>1, ServeIs
  <2>2. PICK ok \in BOOLEAN : Serves(k, ok)
    BY <1>1, ServeIs
  <2>3. DOMAIN calls' \subseteq DOMAIN calls
        /\ \A j \in DOMAIN calls' : calls'[j] = calls[j] \/ calls'[j].state # "sent"
    BY <2>2 DEF Serves, After
  <2>4. ASSUME NEW j \in DOMAIN calls', Spares(calls[j], cookie, store.app.account)
        PROVE  Spares(calls'[j], cookie, store.app.account)
    <3>1. CASE calls'[j] = calls[j]
      BY <2>4, <3>1
    <3>2. CASE calls'[j].state # "sent"
      BY <3>2 DEF Spares
    <3> QED BY <2>3, <3>1, <3>2
  <2> QED BY <2>1, <2>3, <2>4 DEF Session
<1>2. ASSUME NEW k \in DOMAIN calls, Forget(k) PROVE Session'
  <2>1. /\ cookie' = cookie /\ store' = store /\ page' = page /\ why' = why
        /\ calls' = Restrict(calls, DOMAIN calls \ {k})
    BY <1>2 DEF Forget
  <2>2. DOMAIN calls' \subseteq DOMAIN calls /\ \A j \in DOMAIN calls' : calls'[j] = calls[j]
    BY <2>1 DEF Restrict
  <2>3. ASSUME NEW j \in DOMAIN calls', Spares(calls[j], cookie, store.app.account)
        PROVE  Spares(calls'[j], cookie, store.app.account)
    BY <2>2, <2>3
  <2> QED BY <2>1, <2>2, <2>3 DEF Session
<1>3. ASSUME NEW w \in Workspaces, RemovedElsewhere(w) PROVE Session'
  <2>1. /\ cookie' = cookie /\ store' = store /\ page' = page /\ why \subseteq why' /\ calls' = calls
    BY <1>3 DEF RemovedElsewhere
  <2> QED BY <2>1 DEF Session
<1> QED BY <1>1, <1>2, <1>3

LEMMA OtherSession ==
  ASSUME Base, Base', Session, NEW k \in DOMAIN calls, Other(k),
         why' \cap {"crossed", "reload"} = {}
  PROVE  Session'
<1>0. PICK st, pg, asked : Stays(k, st, pg, asked)
  BY OtherMoves
<1>1. /\ Moves(DOMAIN calls \ {k}, st, pg, asked) /\ st.app = store.app
      /\ \/ pg.loaded = page.loaded
         \/ ~pg.loaded
      /\ \A c : asked = <<c>> => c.op \in {"members", "invites", "keys", "getApp"}
  BY <1>0 DEF Stays
<1>2. cookie' = cookie
  BY OtherMoves
<1>3. why \cap {"crossed", "reload"} = {}
  BY <1>1 DEF Moves
<1>4. pg.loaded => page.loaded
  BY <1>1
<1>5. \A c : asked = <<c>> => Spares(c, cookie', st.app.account)
  BY <1>1 DEF Spares
<1>6. pg.loaded => st.app.account = cookie'
  BY <1>1, <1>2, <1>3, <1>4 DEF Session
<1>7. \A j \in DOMAIN calls \ {k} : Spares(calls[j], cookie', st.app.account)
  BY <1>1, <1>2, <1>3 DEF Session
<1> QED BY <1>1, <1>5, <1>6, <1>7, MovesSession

LEMMA NextSession == Base /\ Session /\ [Next]_vars => Session'
<1> SUFFICES ASSUME Base, Session, [Next]_vars, why' \cap {"crossed", "reload"} = {}
             PROVE  Session'
  BY DEF Session
<1>0. Base'
  BY NextBase
<1>1. CASE UNCHANGED vars
  BY <1>1 DEF vars, Session
<1>2. CASE FormSent
  <2>1. PICK op, w, x : Ask(op, w, x) /\ Sends(op, w, x)
    BY <1>2, FormSends
  <2> QED BY <1>0, <2>1, FormSession
<1>3. CASE Moved
  <2>1. CASE \E to \in Links : Follow(to)
    <3>1. PICK to \in Links : Follow(to)
      BY <2>1
    <3>2. PICK pg : pg = Going(page, to.at, to.ws, to.arg)
      OBVIOUS
    <3>3. Moves(DOMAIN calls, store, pg, <<>>) /\ Kept(page, pg) /\ cookie' = cookie
      BY <3>1, <3>2, FollowMoves
    <3>4. pg.loaded => page.loaded
      BY <3>3 DEF Kept, Moves, Ready, Nested
    <3>5. why \cap {"crossed", "reload"} = {}
      BY <3>3 DEF Moves
    <3>6. /\ pg.loaded => store.app.account = cookie'
          /\ \A j \in DOMAIN calls : Spares(calls[j], cookie', store.app.account)
      BY <3>3, <3>4, <3>5 DEF Session
    <3>7. \A c : <<>> # <<c>>
      OBVIOUS
    <3> QED BY <1>0, <3>3, <3>6, <3>7, MovesSession
  <2>2. CASE \E to \in Typed : TypeAddress(to)
    BY <1>0, <2>2, LoadSession
  <2> QED BY <1>3, <2>1, <2>2 DEF Moved
<1>4. CASE \E k \in DOMAIN calls : Serve(k) \/ Forget(k)
  BY <1>4, NetworkSession
<1>5. ASSUME NEW k \in DOMAIN calls, AnswerArrives(k) PROVE Session'
  <2>1. CASE AppAnswered(k) \/ GetAppAnswered(k) \/ SessionAnswered(k) \/ LogOutAnswered(k)
    BY <1>0, <2>1, AnswerSession
  <2>2. CASE (DepartureAnswered(k) \/ CheckoutAnswered(k)) /\ Ok(k)
    BY <1>0, <2>2, LoadSession
  <2>3. CASE Other(k)
    BY <1>0, <2>3, OtherSession
  <2> QED BY <1>5, <2>1, <2>2, <2>3 DEF AnswerArrives, Other
<1>6. CASE \E w \in Workspaces : RemovedElsewhere(w)
  BY <1>6, NetworkSession
<1> QED BY <1>1, <1>2, <1>3, <1>4, <1>5, <1>6 DEF Next, Network

-----------------------------------------------------------------------------
(* The account shown is the server's, or something that tells is still to come *)

LevelsIn(l, a) == [w \in {v \in Workspaces : <<a, v>> \in DOMAIN l} |-> l[<<a, w>>]]
ShownAs(l, a)  == [account |-> a, level |-> LevelsIn(l, a)]

Alterers == {"createWorkspace", "leave", "deleteWorkspace", "deleteAccount", "acceptInvite"}

\* An answer that leads to a new load of the account, a load that was not served as who,
\* and one that was.
Alters(c)      == c.op \in Alterers /\ c.state = "ok"
Awaits(c, who) == c.op \in AppOps /\ (c.state # "ok" \/ c.as # who)
Brings(c, who) == c.op \in AppOps /\ c.state = "ok" /\ c.as = who

InHand(cs, R, who) == \E k \in R : Alters(cs[k]) \/ Awaits(cs[k], who)

\* The load served last, or else what is held, is fresh.
Fresh(cs, R, who, fresh, held) ==
  \/ \E k \in R : /\ Brings(cs[k], who) /\ cs[k].answer = fresh
                  /\ \A j \in R \ {k} : Brings(cs[j], who) => cs[j].turn < cs[k].turn
  \/ held = fresh /\ \A k \in R : Brings(cs[k], who) => cs[k].answer = fresh

Doubts == {"crossed", "elsewhere", "refused", "overtaken", "reload"}

Known(cs, R, who, held) ==
  \/ InHand(cs, R, who)
  \/ who \in db.accounts /\ Fresh(cs, R, who, ShownAs(db.level, who), held)

AppDue ==
  page.index # 0 /\ why \cap Doubts = {} => Known(calls, DOMAIN calls, cookie, store.app)

\* Rows of one account, in two tables.
SameRows(l, m, a) ==
  \A v \in Workspaces : /\ <<a, v>> \in DOMAIN m <=> <<a, v>> \in DOMAIN l
                        /\ <<a, v>> \in DOMAIN l => m[<<a, v>>] = l[<<a, v>>]

LEMMA SameShown ==
  ASSUME NEW l, NEW m, NEW a, SameRows(l, m, a)
  PROVE  ShownAs(m, a) = ShownAs(l, a)
<1>1. {v \in Workspaces : <<a, v>> \in DOMAIN m} = {v \in Workspaces : <<a, v>> \in DOMAIN l}
  BY DEF SameRows
<1>2. PICK S : S = {v \in Workspaces : <<a, v>> \in DOMAIN l}
  OBVIOUS
<1>3. \A v \in S : m[<<a, v>>] = l[<<a, v>>]
  BY <1>2 DEF SameRows
<1>4. [w \in S |-> m[<<a, w>>]] = [w \in S |-> l[<<a, w>>]]
  BY <1>3
<1> QED BY <1>1, <1>2, <1>4 DEF ShownAs, LevelsIn

LEMMA RowsKept ==
  ASSUME NEW l, NEW a, NEW b, b # a, NEW w, NEW y
  PROVE  /\ SameRows(l, With(l, <<b, w>>, y), a)
         /\ SameRows(l, Drop(l, {<<b, w>>}), a)
         /\ SameRows(l, [l EXCEPT ![<<b, w>>] = y], a)
<1>0. \A v : <<a, v>> # <<b, w>>
  OBVIOUS
<1>1. PICK m : m = With(l, <<b, w>>, y)
  OBVIOUS
<1>2. WithIs(l, m, <<b, w>>, y)
  BY <1>1, WithAdds
<1>3. SameRows(l, m, a)
  BY <1>0, <1>2 DEF WithIs, SameRows
<1>4. PICK d : d = Drop(l, {<<b, w>>})
  OBVIOUS
<1>5. DropIs(l, d, {<<b, w>>})
  BY <1>4, DropDrops
<1>6. SameRows(l, d, a)
  BY <1>0, <1>5 DEF DropIs, SameRows
<1>7. SameRows(l, [l EXCEPT ![<<b, w>>] = y], a)
  BY <1>0 DEF SameRows
<1> QED BY <1>1, <1>3, <1>4, <1>6, <1>7

\* What others do to others changes nothing of what the account is shown.
LEMMA EffectSpares ==
  ASSUME TablesFit, PagesAssumption, NEW c, Served(c), Allowed(c), c.state = "sent",
         c.op \notin Alterers, db' = Effect(c),
         NEW who, who \in db.accounts, NEW held, Spares(c, who, held)
  PROVE  who \in db'.accounts /\ ShownAs(db'.level, who) = ShownAs(db.level, who)
<1>1. PICK d, l, m : d = Effect(c) /\ l = db.level /\ m = d.level
  OBVIOUS
<1>2. LevelsFit(l) /\ db.accounts \subseteq Accounts
  BY <1>1 DEF TablesFit
<1>3. who \in d.accounts
  <2>1. c.op \notin {"signup", "deleteAccount"} => d.accounts = db.accounts
    BY <1>1, EffectIs
  <2>2. c.op = "signup" => d.accounts = db.accounts \cup {c.arg}
    BY <1>1, EffectIs
  <2> QED BY <2>1, <2>2 DEF Alterers
<1>4. m = l \/ SameRows(l, m, who)
  <2>1. CASE c.op \notin MemberOps
    BY <1>1, <2>1, EffectIs
  <2>2. CASE c.op = "signup"
    <3>1. m = With(l, <<c.arg, c.ws>>, "OWNER")
      BY <1>1, <2>2, EffectIs
    <3>2. c.arg \notin db.accounts
      BY <2>2 DEF Allowed, Fits
    <3> QED BY <3>1, <3>2, RowsKept
  <2>3. CASE c.op = "level"
    <3>0. d.level = [db.level EXCEPT ![<<c.arg[1], c.ws>>] = c.arg[2]]
      BY <1>1, <2>3, EffectIs
    <3>1. m = [l EXCEPT ![<<c.arg[1], c.ws>>] = c.arg[2]]
      BY <1>1, <3>0
    <3>2. <<c.arg[1], c.ws>> \in DOMAIN l
      BY <1>1, <2>3 DEF Allowed, Fits
    <3>3. c.arg[1] \in Accounts
      BY <1>2, <3>2 DEF LevelsFit
    <3>4. c.arg[1] # who
      BY <2>3, <3>3, PagesAssumption DEF Spares, Target
    <3> QED BY <3>1, <3>4, RowsKept
  <2>4. CASE c.op = "removeMember"
    <3>1. m = Drop(l, {<<c.arg, c.ws>>})
      BY <1>1, <2>4, EffectIs
    <3>2. <<c.arg, c.ws>> \in DOMAIN l
      BY <1>1, <2>4 DEF Allowed, Fits
    <3>3. c.arg \in Accounts
      BY <1>2, <3>2 DEF LevelsFit
    <3>4. c.arg # who
      BY <2>4, <3>3, PagesAssumption DEF Spares, Target
    <3> QED BY <3>1, <3>4, RowsKept
  <2> QED BY <2>1, <2>2, <2>3, <2>4 DEF MemberOps, Alterers
<1> QED BY <1>1, <1>3, <1>4, SameShown

LEMMA MovesDue ==
  ASSUME Base, NEW rest, NEW st, NEW pg, NEW asked, Moves(rest, st, pg, asked),
         why' \cap Doubts = {} /\ pg.index # 0 =>
           \/ Known(calls, rest, cookie', st.app)
           \/ \E c : asked = <<c>> /\ c.op = "getApp"
  PROVE  AppDue'
<1>1. PICK p, cs, R, who : p = page' /\ cs = calls' /\ R = DOMAIN calls' /\ who = cookie'
  OBVIOUS
<1>2. /\ Goes(pg, p, cs, R, rest, asked) /\ Remains(pg, p, cs, R \ rest) /\ store' = st /\ db' = db
  BY <1>1, MovesMakes DEF Moves
<1> SUFFICES ASSUME p.index # 0, why' \cap Doubts = {} PROVE Known(cs, R, who, st.app)
  <2>1. db'.accounts = db.accounts /\ db'.level = db.level
    BY <1>2
  <2> QED BY <1>1, <1>2, <2>1 DEF AppDue, Known
<1>3. \A j \in R \ rest : cs[j].state = "sent"
  <2>1. \A c : asked = <<c>> => c.state = "sent"
    BY MovesAsk DEF Moves, Asked
  <2> QED BY <1>2, <2>1 DEF Goes, Opened
<1>4. rest \subseteq R /\ \A j \in rest : cs[j] = calls[j]
  BY <1>2 DEF Goes
<1>5. CASE \E j \in R \ rest : cs[j].op \in AppOps
  <2>1. PICK j \in R \ rest : cs[j].op \in AppOps
    BY <1>5
  <2>2. cs[j].state = "sent"
    BY <1>3
  <2>3. Awaits(cs[j], who)
    BY <2>1, <2>2 DEF Awaits
  <2>4. InHand(cs, R, who)
    BY <2>3 DEF InHand
  <2> QED BY <2>4 DEF Known
<1>6. CASE \A j \in R \ rest : cs[j].op \notin AppOps
  <2>1. p.index = pg.index
    BY <1>2, <1>6 DEF Remains, AppOps
  <2>2. ~ \E c : asked = <<c>> /\ c.op = "getApp"
    BY <1>2, <1>6 DEF Goes, AppOps
  <2>3. Known(calls, rest, who, st.app)
    BY <1>1, <2>1, <2>2
  <2>4. InHand(calls, rest, who) => InHand(cs, R, who)
    BY <1>4 DEF InHand
  <2>5. Fresh(calls, rest, who, ShownAs(db.level, who), st.app)
          => Fresh(cs, R, who, ShownAs(db.level, who), st.app)
    BY <1>4, <1>6 DEF Fresh, Brings
  <2> QED BY <2>3, <2>4, <2>5 DEF Known
<1> QED BY <1>5, <1>6

\* A call that neither loads the account nor alters it is not missed.
LEMMA NotMissed ==
  ASSUME NEW k \in DOMAIN calls, calls[k].op \notin AppOps, ~Alters(calls[k]), NEW who, NEW held,
         Known(calls, DOMAIN calls, who, held)
  PROVE  Known(calls, DOMAIN calls \ {k}, who, held)
<1>1. InHand(calls, DOMAIN calls, who) => InHand(calls, DOMAIN calls \ {k}, who)
  BY DEF InHand, Awaits
<1>2. ASSUME NEW fresh, Fresh(calls, DOMAIN calls, who, fresh, held)
      PROVE  Fresh(calls, DOMAIN calls \ {k}, who, fresh, held)
  BY <1>2 DEF Fresh, Brings
<1> QED BY <1>1, <1>2 DEF Known

\* The account is loaded, and none of the answers to come is older.
LEMMA BroughtDue ==
  ASSUME Base, NEW k \in DOMAIN calls, calls[k].op \in AppOps, calls[k].state # "sent",
         Amiss(k) \ {"late"} \subseteq why', why' \cap Doubts = {}, calls[k].as = cookie,
         Known(calls, DOMAIN calls, cookie, store.app),
         NEW held, held = calls[k].answer
  PROVE  Ok(k) /\ Known(calls, DOMAIN calls \ {k}, cookie, held)
<1>1. Ok(k)
  BY DEF Amiss, Doubts
<1>2. Brings(calls[k], cookie)
  BY <1>1 DEF Ok, Brings
<1>3. ASSUME NEW j \in DOMAIN calls \ {k}, Brings(calls[j], cookie)
      PROVE  ~(calls[j].turn < calls[k].turn)
  <2>1. \/ calls[j].op = calls[k].op
        \/ {"app", "getApp"} = {calls[j].op, calls[k].op}
    BY <1>3 DEF Brings, AppOps
  <2>2. calls[j].turn # 0
    BY <1>3 DEF Base, Served, Brings, AppOps, Loads
  <2>3. "overtaken" \notin Amiss(k)
    BY DEF Doubts
  <2> QED BY <2>1, <2>2, <2>3 DEF Amiss
<1>4. InHand(calls, DOMAIN calls, cookie) => InHand(calls, DOMAIN calls \ {k}, cookie)
  <2>1. ~Alters(calls[k]) /\ ~Awaits(calls[k], cookie)
    BY <1>2 DEF Alters, Awaits, Brings, AppOps, Alterers
  <2> QED BY <2>1 DEF InHand
<1>5. ASSUME NEW fresh, Fresh(calls, DOMAIN calls, cookie, fresh, store.app)
      PROVE  Fresh(calls, DOMAIN calls \ {k}, cookie, fresh, held)
  <2>1. CASE \A j \in DOMAIN calls : Brings(calls[j], cookie) => calls[j].answer = fresh
    BY <1>2, <2>1 DEF Fresh
  <2>2. CASE \E b \in DOMAIN calls :
               /\ Brings(calls[b], cookie) /\ calls[b].answer = fresh
               /\ \A j \in DOMAIN calls \ {b} : Brings(calls[j], cookie) => calls[j].turn < calls[b].turn
    <3>1. PICK b \in DOMAIN calls :
               /\ Brings(calls[b], cookie) /\ calls[b].answer = fresh
               /\ \A j \in DOMAIN calls \ {b} : Brings(calls[j], cookie) => calls[j].turn < calls[b].turn
      BY <2>2
    <3>2. CASE b = k
      <4>1. \A j \in DOMAIN calls \ {k} : ~Brings(calls[j], cookie)
        BY <1>3, <3>1, <3>2
      <4> QED BY <3>1, <3>2, <4>1 DEF Fresh
    <3>3. CASE b # k
      BY <3>1, <3>3 DEF Fresh
    <3> QED BY <3>2, <3>3
  <2> QED BY <1>5, <2>1, <2>2 DEF Fresh
<1> QED BY <1>1, <1>4, <1>5 DEF Known

LEMMA AppBrings ==
  ASSUME Base, AppDue, NEW k \in DOMAIN calls, AppAnswered(k) \/ GetAppAnswered(k)
  PROVE  AppDue'
<1> SUFFICES ASSUME why' \cap Doubts = {} PROVE AppDue'
  BY DEF AppDue
<1>0. IsPage(page) /\ Whole(store)
  BY DEF Base, PagesInv
<1>1. /\ cookie' = cookie /\ calls[k].op \in AppOps /\ calls[k].state # "sent"
      /\ Amiss(k) \ {"late"} \subseteq why' /\ calls[k].as = cookie
  BY AppMoves, GetAppMoves DEF AppOps, Crossed, Doubts
<1>2. Ok(k)
  BY <1>1 DEF Amiss, Doubts
<1>3. PICK st, pg :
        /\ Moves(DOMAIN calls \ {k}, st, pg, <<>>)
        /\ st = [store EXCEPT !.app = calls[k].answer]
        /\ pg = [page EXCEPT !.loaded = TRUE] \/ pg = page
  BY <1>2, AppMoves, GetAppMoves
<1>4. st.app = calls[k].answer /\ pg.index = page.index /\ why \cap Doubts = {}
  BY <1>0, <1>3 DEF Whole, IsPage, Moves
<1>5. pg.index # 0 => Known(calls, DOMAIN calls \ {k}, cookie, st.app)
  BY <1>1, <1>4, BroughtDue DEF AppDue
<1> QED BY <1>1, <1>3, <1>5, MovesDue

LEMMA OtherDue ==
  ASSUME Base, AppDue, NEW k \in DOMAIN calls, Other(k)
  PROVE  AppDue'
<1> SUFFICES ASSUME why' \cap Doubts = {} PROVE AppDue'
  BY DEF AppDue
<1>1. PICK st, pg, asked : Stays(k, st, pg, asked)
  BY OtherMoves
<1>2. /\ cookie' = cookie /\ calls[k].op \in Elsewhere
      /\ calls[k].op \in {"leave", "deleteWorkspace", "deleteAccount"} => ~Ok(k)
  BY OtherMoves
<1>3. /\ Moves(DOMAIN calls \ {k}, st, pg, asked) /\ st.app = store.app
      /\ pg.index = page.index \/ pg.index = 0
      /\ calls[k].op = "createWorkspace" /\ Ok(k) =>
           \E c : asked = <<c>> /\ c.op = "getApp"
  BY <1>1 DEF Stays
<1>4. why \cap Doubts = {}
  BY <1>3 DEF Moves
<1>5. calls[k].op \notin AppOps
  BY <1>2 DEF Elsewhere, AppOps, Reloads, Said
<1>6. CASE calls[k].op = "createWorkspace" /\ Ok(k)
  BY <1>3, <1>6, MovesDue
<1>7. CASE calls[k].op = "acceptInvite" /\ Ok(k)
  <2>1. Says(k)
    BY <1>7 DEF Other, ProjectsAnswered, ProjectAnswered, LinkAnswered, ListAnswered, Reloads,
       SettingAnswered, KeyAnswered, ProjectCreated, WorkspaceCreated, InviteAnswered,
       PlanAnswered, DepartureAnswered, CheckoutAnswered, Answered
  <2>2. page.inner = calls[k].by
    BY <1>7, <2>1, SaysMoves DEF Doubts
  <2>3. MadeBy(page, calls[k])
    BY DEF Base
  <2>4. "acceptInvite" \in DOMAIN AtOf /\ AtOf["acceptInvite"] = {"invite"}
    BY DEF AtOf
  <2>5. page.at = "invite"
    BY <1>7, <2>2, <2>3, <2>4 DEF MadeBy
  <2>6. page.index = 0
    BY <2>5 DEF Base, PagesInv, Nested, Inside, Within
  <2> QED BY <1>3, <2>6, MovesDue
<1>8. CASE ~Alters(calls[k])
  <2>1. pg.index # 0 => Known(calls, DOMAIN calls, cookie, store.app)
    BY <1>3, <1>4 DEF AppDue
  <2>2. pg.index # 0 => Known(calls, DOMAIN calls \ {k}, cookie', st.app)
    BY <1>2, <1>3, <1>5, <1>8, <2>1, NotMissed
  <2> QED BY <1>3, <2>2, MovesDue
<1> QED BY <1>2, <1>6, <1>7, <1>8 DEF Alters, Alterers, Ok

LEMMA SessionDue ==
  ASSUME Base, Base', AppDue, NEW k \in DOMAIN calls, SessionAnswered(k) \/ LogOutAnswered(k)
  PROVE  AppDue'
<1> SUFFICES ASSUME why' \cap Doubts = {} PROVE AppDue'
  BY DEF AppDue
<1>0. IsPage(page) /\ Nested(page) /\ Placed(page) /\ Whole(store)
  BY DEF Base, PagesInv
<1>1. PICK st, pg :
        /\ Moves(DOMAIN calls \ {k}, st, pg, <<>>)
        /\ st = IF LogOutAnswered(k) /\ Ok(k) THEN [store EXCEPT !.app = NoApp] ELSE store
        /\ pg = IF Ok(k) THEN Going(page, "index", None, None) ELSE page
  <2>1. CASE SessionAnswered(k)
    <3>1. ~LogOutAnswered(k)
      BY <2>1 DEF SessionAnswered, LogOutAnswered, Answered
    <3> QED BY <2>1, <3>1, SessionMoves
  <2>2. CASE LogOutAnswered(k)
    BY <2>2, LogOutMoves
  <2> QED BY <2>1, <2>2
<1>2. why \cap Doubts = {}
  BY <1>1 DEF Moves
<1>3. calls[k].op \notin AppOps /\ ~Alters(calls[k])
  BY SessionMoves, LogOutMoves DEF AppOps, Alters, Alterers
<1>4. CASE ~Ok(k)
  <2>1. cookie' = cookie
    BY <1>4, SessionMoves, LogOutMoves
  <2>2. pg.index # 0 => Known(calls, DOMAIN calls, cookie, store.app)
    BY <1>1, <1>2, <1>4 DEF AppDue
  <2>3. pg.index # 0 => Known(calls, DOMAIN calls \ {k}, cookie', st.app)
    BY <1>1, <1>3, <1>4, <2>1, <2>2, NotMissed
  <2> QED BY <1>1, <2>3, MovesDue
<1>5. CASE Ok(k)
  <2>0. Kept(page, pg) /\ pg.at = "index"
    BY <1>0, <1>1, <1>5, GoingPlaced
  <2>1. CASE SessionAnswered(k)
    <3>1. page.index = 0
      BY <1>5, <2>1, SessionMoves DEF Doubts
    <3>2. pg.index = 0
      BY <2>0, <3>1 DEF Kept
    <3> QED BY <1>1, <3>2, MovesDue
  <2>2. CASE LogOutAnswered(k) /\ pg.loaded
    <3>1. st.app = NoApp
      BY <1>0, <1>1, <1>5, <2>2 DEF Whole
    <3>2. Led(pg, st) = Address("login", None, None)
      BY <2>0, <2>2, <3>1 DEF Led, NoApp, Inside
    <3>3. PICK p, cs, R : p = page' /\ cs = calls' /\ R = DOMAIN calls'
      OBVIOUS
    <3>4. p.at = "login"
      <4>1. Moves(DOMAIN calls \ {k}, st, pg, <<>>)
        BY <1>1
      <4>2. Arrives(Led(pg, st), pg, p)
        BY <3>3, <4>1, MovesMakes
      <4>3. PICK to : to = Address("login", None, None)
        OBVIOUS
      <4>4. to.at = "login"
        BY <4>3, AddressPlaced
      <4> QED BY <3>2, <4>2, <4>3, <4>4 DEF Arrives
    <3>5. page'.index = 0
      BY <3>3, <3>4 DEF Base, PagesInv, Nested, Inside, Within
    <3> QED BY <3>5 DEF AppDue
  <2>3. CASE LogOutAnswered(k) /\ ~pg.loaded
    <3>1. cookie' = None
      BY <1>5, <2>3, LogOutMoves
    <3>2. ASSUME pg.index # 0 PROVE Known(calls, DOMAIN calls \ {k}, None, st.app)
      <4>1. page.index # 0 /\ ~page.loaded
        BY <2>0, <2>3, <3>2 DEF Kept
      <4>2. Owed(page, calls, DOMAIN calls)
        BY <1>2 DEF Base, PagesInv, Doubts
      <4>3. PICK j \in DOMAIN calls : calls[j].op = "app"
        BY <4>1, <4>2 DEF Owed, Pending
      <4>4. j # k /\ calls[j].op \in AppOps
        BY <1>3, <4>3 DEF AppOps
      <4>5. calls[j].state = "ok" => calls[j].as # None
        BY <4>4, PagesAssumption DEF Base, Served
      <4>6. Awaits(calls[j], None)
        BY <4>4, <4>5 DEF Awaits
      <4>7. InHand(calls, DOMAIN calls \ {k}, None)
        BY <4>4, <4>6 DEF InHand
      <4> QED BY <4>7 DEF Known
    <3> QED BY <1>1, <3>1, <3>2, MovesDue
  <2> QED BY <2>1, <2>2, <2>3
<1> QED BY <1>4, <1>5

LEMMA LoadDue ==
  ASSUME Base,
         \/ \E to \in Typed : TypeAddress(to)
         \/ \E k \in DOMAIN calls : DepartureAnswered(k) /\ Ok(k)
         \/ \E k \in DOMAIN calls : CheckoutAnswered(k) /\ Ok(k)
  PROVE  AppDue'
<1>1. PICK p, cs, R, who : p = page' /\ cs = calls' /\ R = DOMAIN calls' /\ who = cookie'
  OBVIOUS
<1> SUFFICES ASSUME "reload" \notin why', p.index # 0 PROVE InHand(cs, R, who)
  BY <1>1 DEF AppDue, Doubts, Known
<1>2. PICK pg : pg.index = 0 /\ pg.wsp = 0 /\ pg.inner = 0 /\ Remains(pg, p, cs, R)
  BY <1>1, LoadMakes
<1>3. PICK j \in R : cs[j].op = "app" /\ Opened(cs[j], p)
  BY <1>2 DEF Remains
<1>4. Awaits(cs[j], who)
  BY <1>3 DEF Awaits, AppOps, Opened
<1> QED BY <1>4 DEF InHand

LEMMA ServeDue ==
  ASSUME Base, Session, AppDue, NEW k \in DOMAIN calls, Serve(k)
  PROVE  AppDue'
<1>1. /\ cookie' = cookie /\ store' = store /\ page' = page /\ why' = why
      /\ calls[k].state = "sent"
  BY ServeIs
<1> SUFFICES ASSUME why \cap Doubts = {}, page.index # 0 PROVE AppDue'
  BY <1>1 DEF AppDue
<1>2. PICK ok \in BOOLEAN : Serves(k, ok)
  BY ServeIs
<1>3. Latest \in Nat /\ Latest # 0 /\ \A j \in DOMAIN calls : calls[j].turn < Latest
  BY LatestIsLater
<1>4. calls[k].here
  BY DEF Base, AllHere, Doubts
<1>5. PICK c, cs, R, who : c = calls[k] /\ cs = calls' /\ R = DOMAIN calls /\ who = cookie
  OBVIOUS
<1>6. PICK d : d = cs[k]
  OBVIOUS
<1>7. /\ After(c, d, ok) /\ \A j \in R \ {k} : cs[j] = calls[j]
      /\ ok => Allowed(c)
      /\ db' = IF ok THEN Effect(c) ELSE db
      /\ DOMAIN calls' = R
  BY <1>2, <1>4, <1>5, <1>6 DEF Serves
<1>8. Served(c) /\ c.state = "sent" /\ TablesFit /\ k \in R
  BY <1>1, <1>5 DEF Base
<1>9. SUFFICES \/ InHand(cs, R, who)
               \/ /\ who \in db'.accounts
                  /\ Fresh(cs, R, who, ShownAs(db'.level, who), store.app)
  BY <1>1, <1>5, <1>7 DEF AppDue, Known
<1>10. CASE c.op \in AppOps
  <2>1. d.op \in AppOps /\ d.as = c.as /\ d.state = IF ok THEN "ok" ELSE "refused"
    BY <1>7, <1>10 DEF After
  <2>2. CASE ~ok \/ c.as # who
    <3>1. Awaits(d, who)
      BY <2>1, <2>2 DEF Awaits
    <3> QED BY <1>6, <1>8, <3>1 DEF InHand
  <2>3. CASE ok /\ c.as = who
    <3>1. who \in db.accounts
      BY <1>7, <1>10, <2>3 DEF Allowed, AppOps, Anyone, LoggedIn, Takes
    <3>2. Effect(c) = db
      BY <1>10 DEF AppOps, Effect
    <3>3. db' = db
      BY <1>7, <2>3, <3>2
    <3>4. d.answer = [account |-> c.as, level |-> LevelsOf(c.as)]
      BY <1>7, <1>10, <2>3 DEF After, AnswerTo, AppOps
    <3>5. d.answer = ShownAs(db.level, who)
      BY <2>3, <3>4 DEF ShownAs, LevelsIn, LevelsOf
    <3>6. d.turn = Latest
      BY <1>7, <1>10 DEF After, AppOps, Loads
    <3>7. Brings(d, who) /\ \A j \in R \ {k} : cs[j].turn < d.turn
      BY <1>3, <1>5, <1>7, <2>1, <2>3, <3>6 DEF Brings
    <3>8. Fresh(cs, R, who, ShownAs(db.level, who), store.app)
      BY <1>6, <1>8, <3>5, <3>7 DEF Fresh
    <3> QED BY <3>1, <3>3, <3>8
  <2> QED BY <2>2, <2>3
<1>11. CASE c.op \notin AppOps /\ ok /\ c.op \in Alterers
  <2>1. Alters(d)
    BY <1>7, <1>11 DEF Alters, After
  <2> QED BY <1>6, <1>8, <2>1 DEF InHand
<1>12. CASE c.op \notin AppOps /\ ~(ok /\ c.op \in Alterers)
  <2>1. Known(calls, R, who, store.app)
    BY <1>5 DEF AppDue
  <2>2. InHand(calls, R, who) => InHand(cs, R, who)
    <3>1. ~Alters(calls[k]) /\ ~Awaits(calls[k], who)
      BY <1>5, <1>8, <1>12 DEF Alters, Awaits
    <3> QED BY <1>7, <3>1 DEF InHand
  <2>3. ASSUME who \in db.accounts
        PROVE  who \in db'.accounts /\ ShownAs(db'.level, who) = ShownAs(db.level, who)
    <3>1. CASE ~ok
      BY <1>7, <2>3, <3>1
    <3>2. CASE ok
      <4>1. Spares(c, who, store.app.account)
        BY <1>5 DEF Session, Doubts
      <4>2. Allowed(c) /\ db' = Effect(c) /\ c.op \notin Alterers
        BY <1>7, <1>12, <3>2
      <4> QED BY <1>8, <2>3, <4>1, <4>2, EffectSpares, PagesAssumption
    <3> QED BY <3>1, <3>2
  <2>4. ~Brings(c, who) /\ ~Brings(d, who)
    BY <1>7, <1>12 DEF Brings, After
  <2>5. ASSUME NEW fresh, Fresh(calls, R, who, fresh, store.app)
        PROVE  Fresh(cs, R, who, fresh, store.app)
    <3>1. \A j \in R : /\ Brings(cs[j], who) <=> Brings(calls[j], who)
                       /\ Brings(calls[j], who) => cs[j] = calls[j]
      BY <1>5, <1>6, <1>7, <2>4
    <3> QED BY <2>5, <3>1 DEF Fresh
  <2> QED BY <2>1, <2>2, <2>3, <2>5 DEF Known
<1> QED BY <1>10, <1>11, <1>12

LEMMA InitDue == Init => AppDue
<1> SUFFICES ASSUME Init, page.index # 0 PROVE AppDue
  BY DEF AppDue
<1>1. PICK k \in DOMAIN calls : calls[k].op = "app"
  BY InitMakes
<1>2. calls[k].state = "sent"
  BY InitMakes
<1>3. Awaits(calls[k], cookie)
  BY <1>1, <1>2 DEF Awaits, AppOps
<1>4. InHand(calls, DOMAIN calls, cookie)
  BY <1>3 DEF InHand
<1> QED BY <1>4 DEF AppDue, Known

LEMMA NextDue == Base /\ Session /\ AppDue /\ [Next]_vars => AppDue'
<1> SUFFICES ASSUME Base, Session, AppDue, [Next]_vars
             PROVE  AppDue'
  OBVIOUS
<1>0. Base'
  BY NextBase
<1>1. CASE UNCHANGED vars
  BY <1>1 DEF vars, AppDue, Known
<1>2. CASE FormSent
  <2>1. PICK op, w, x : Ask(op, w, x) /\ Sends(op, w, x)
    BY <1>2, FormSends
  <2>2. PICK c : c = Call(op, w, x, page.inner)
    OBVIOUS
  <2>3. Moves(DOMAIN calls, store, page, <<c>>) /\ cookie' = cookie /\ why' = why
    BY <2>1, <2>2, FormMoves
  <2>4. why' \cap Doubts = {} /\ page.index # 0 => Known(calls, DOMAIN calls, cookie', store.app)
    BY <2>3 DEF AppDue
  <2> QED BY <2>3, <2>4, MovesDue
<1>3. CASE \E to \in Links : Follow(to)
  <2>1. PICK to \in Links : Follow(to)
    BY <1>3
  <2>2. PICK pg : pg = Going(page, to.at, to.ws, to.arg)
    OBVIOUS
  <2>3. Moves(DOMAIN calls, store, pg, <<>>) /\ Kept(page, pg) /\ cookie' = cookie
    BY <2>1, <2>2, FollowMoves
  <2>4. pg.index # 0 => page.index # 0
    BY <2>3 DEF Kept
  <2>5. why \subseteq why'
    BY <2>3 DEF Moves
  <2>6. why' \cap Doubts = {} /\ pg.index # 0 => Known(calls, DOMAIN calls, cookie', store.app)
    BY <2>3, <2>4, <2>5 DEF AppDue
  <2> QED BY <2>3, <2>6, MovesDue
<1>4. CASE \E to \in Typed : TypeAddress(to)
  BY <1>4, LoadDue
<1>5. ASSUME NEW k \in DOMAIN calls, Serve(k) PROVE AppDue'
  BY <1>5, ServeDue
<1>6. ASSUME NEW k \in DOMAIN calls, Forget(k) PROVE AppDue'
  <2>1. why' = why /\ ~calls[k].here
    BY <1>6 DEF Forget
  <2>2. "reload" \in why'
    BY <2>1 DEF Base, AllHere
  <2> QED BY <2>2 DEF AppDue, Doubts
<1>7. ASSUME NEW w \in Workspaces, RemovedElsewhere(w) PROVE AppDue'
  <2>1. "elsewhere" \in why'
    BY <1>7 DEF RemovedElsewhere
  <2> QED BY <2>1 DEF AppDue, Doubts
<1>8. ASSUME NEW k \in DOMAIN calls, AnswerArrives(k) PROVE AppDue'
  <2>1. CASE AppAnswered(k) \/ GetAppAnswered(k)
    BY <2>1, AppBrings
  <2>2. CASE SessionAnswered(k) \/ LogOutAnswered(k)
    BY <1>0, <2>2, SessionDue
  <2>3. CASE (DepartureAnswered(k) \/ CheckoutAnswered(k)) /\ Ok(k)
    BY <2>3, LoadDue
  <2>4. CASE Other(k)
    BY <2>4, OtherDue
  <2> QED BY <1>8, <2>1, <2>2, <2>3, <2>4 DEF AnswerArrives, Other
<1> QED BY <1>1, <1>2, <1>3, <1>4, <1>5, <1>6, <1>7, <1>8 DEF Next, Network, Moved

\* When all is answered nothing is under way, unless calls of a document that is gone are.
LEMMA QuietIsEmpty ==
  ASSUME Base, Quiet, "reload" \notin why
  PROVE  DOMAIN calls = {}
BY DEF Base, AllHere, Quiet

LEMMA IsShown ==
  ASSUME Base, AppDue
  PROVE  SessionIsShown
<1> SUFFICES ASSUME Quiet, page.loaded, why \cap Doubts = {}
             PROVE  /\ cookie \in db.accounts
                    /\ store.app = [account |-> cookie, level |-> LevelsOf(cookie)]
  BY DEF SessionIsShown, Doubts
<1>1. DOMAIN calls = {}
  BY QuietIsEmpty DEF Doubts
<1>2. page.index # 0
  BY DEF Base, PagesInv, Nested
<1>3. PICK R : R = DOMAIN calls
  OBVIOUS
<1>4. R = {} /\ Known(calls, R, cookie, store.app)
  BY <1>1, <1>2, <1>3 DEF AppDue
<1>5. cookie \in db.accounts /\ store.app = ShownAs(db.level, cookie)
  BY <1>4 DEF Known, InHand, Fresh
<1> QED BY <1>5 DEF ShownAs, LevelsIn, LevelsOf

\* The pages show the account that the server takes the user for, with its workspaces
\* and its roles, for any number of accounts, workspaces and calls.
THEOREM TheSessionIsShown == Spec => []SessionIsShown
<1>1. Init => Base /\ Session /\ AppDue
  BY InitBase, InitSession, InitDue
<1>2. Base /\ Session /\ AppDue /\ [Next]_vars => (Base /\ Session /\ AppDue)'
  BY NextBase, NextSession, NextDue
<1>3. Base /\ AppDue => SessionIsShown
  BY IsShown
<1> QED BY <1>1, <1>2, <1>3, PTL DEF Spec

=============================================================================
