--------------------------- MODULE PlaneSync_proofs ---------------------------
(***************************************************************************)
(* Theorems about PlaneSync, for every set of cards, work items, syncers   *)
(* and texts and every budget of faults.                                   *)
(***************************************************************************)
EXTENDS PlaneSync, FiniteSetTheorems, WellFoundedInduction, TLAPS

USE TextsAssumption, BudgetAssumption, NoLinkAssumption

-----------------------------------------------------------------------------
(* Type correctness: TypeOK /\ Working is inductive.                       *)

TypeInv == TypeOK /\ Working

LEMMA InitTypeInv == Init => TypeInv
BY DEF Init, TypeInv, TypeOK, Working, NoJob, NoWrites, Job, Writes, Phases

LEMMA SpendType ==
  ASSUME TypeOK, NEW kind \in Kinds, Spend(kind)
  PROVE  budget' \in [Kinds -> Nat]
BY DEF TypeOK, Spend

\* Plane only grows.
LEMMA PlaneGrows ==
  ASSUME TypeOK, NEW e \in Posted, plane' = Append(plane, e)
  PROVE  plane' \in Seq(Posted) /\ DOMAIN plane \subseteq DOMAIN plane'
BY DEF TypeOK

\* A step of s that replaces its job record and moves it to phase ph.
LEMMA JobStep ==
  ASSUME TypeInv, NEW s \in Syncers, NEW j \in Job, NEW ph \in Phases,
         job' = [job EXCEPT ![s] = j], Goto(s, ph),
         ph \in {"idle", "next"} \/ j.link \in LinkRow,
         j.listed \subseteq DOMAIN plane',
         DOMAIN plane \subseteq DOMAIN plane'
  PROVE  /\ job' \in [Syncers -> Job]
         /\ pc' \in [Syncers -> Phases]
         /\ Working'
<1>1. job' \in [Syncers -> Job] /\ pc' \in [Syncers -> Phases]
  BY DEF TypeInv, TypeOK, Goto
<1>2. ASSUME NEW t \in Syncers
      PROVE  /\ pc'[t] \notin {"idle", "next"} => job'[t].link \in LinkRow
             /\ job'[t].listed \subseteq DOMAIN plane'
  BY <1>2 DEF TypeInv, TypeOK, Working, Goto
<1> QED BY <1>1, <1>2 DEF Working

LEMMA MemberTypeInv == TypeInv /\ MemberStep => TypeInv'
<1> SUFFICES ASSUME TypeInv, MemberStep PROVE TypeInv'
  OBVIOUS
<1> USE DEF TypeInv, TypeOK
<1>1. ASSUME NEW f \in Cards, NEW m \in Locals, WriteComment(f, m)
      PROVE  TypeInv'
  BY <1>1 DEF WriteComment, Comment, Texts, syncer, Working
<1>2. ASSUME NEW f \in Cards, NEW i \in Items, LinkCard(f, i)
      PROVE  TypeInv'
  <2>1. budget' \in [Kinds -> Nat]
    BY <1>2, SpendType DEF LinkCard, Kinds
  <2>2. links' \subseteq LinkRow /\ lastLink' \in Nat
    <3>1. CASE \E l \in links :
                 /\ links' = (links \ {l}) \cup
                      {[l EXCEPT !.item = i, !.status = "pending"]}
                 /\ UNCHANGED lastLink
      BY <3>1 DEF LinkRow, Statuses
    <3>2. CASE /\ links' = links \cup {FreshLink(f, i)}
               /\ lastLink' = lastLink + 1
      BY <3>2 DEF FreshLink, LinkRow, Statuses
    <3> QED BY <1>2, <3>1, <3>2 DEF LinkCard
  <2> QED BY <1>2, <2>1, <2>2 DEF LinkCard, syncer, Working
<1>3. ASSUME NEW f \in Cards, UnlinkCard(f) PROVE TypeInv'
  <2>1. budget' \in [Kinds -> Nat]
    BY <1>3, SpendType DEF UnlinkCard, Kinds
  <2> QED BY <1>3, <2>1 DEF UnlinkCard, syncer, members, Working
<1>4. ASSUME NEW f \in Cards, DeleteCard(f) PROVE TypeInv'
  <2>1. budget' \in [Kinds -> Nat]
    BY <1>4, SpendType DEF DeleteCard, Kinds
  <2> QED BY <1>4, <2>1 DEF DeleteCard, syncer, members, Working
<1>5. ASSUME NEW c \in comments, DeleteComment(c) PROVE TypeInv'
  <2>1. budget' \in [Kinds -> Nat]
    BY <1>5, SpendType DEF DeleteComment, Kinds
  <2> QED BY <1>5, <2>1 DEF DeleteComment, syncer, members, Working
<1>6. ASSUME NEW i \in Items, NEW m \in Remotes, WriteInPlane(i, m)
      PROVE  TypeInv'
  <2>1. plane' \in Seq(Posted) /\ DOMAIN plane \subseteq DOMAIN plane'
    BY <1>6, PlaneGrows DEF WriteInPlane, Posted, Texts
  <2>2. said' \subseteq Texts
    BY <1>6 DEF WriteInPlane, Texts
  <2> QED BY <1>6, <2>1, <2>2 DEF WriteInPlane, syncer, database, Working
<1> QED BY <1>1, <1>2, <1>3, <1>4, <1>5, <1>6 DEF MemberStep

LEMMA BeginTypeInv ==
  ASSUME TypeInv, NEW s \in Syncers, NEW q \in SUBSET links, Begin(s, q)
  PROVE  TypeInv'
<1> DEFINE j == [NoJob EXCEPT !.queue = q]
<1>1. j \in Job /\ j.listed = {}
  BY DEF TypeInv, TypeOK, NoJob, Job
<1>2. job' = [job EXCEPT ![s] = j] /\ Goto(s, "next") /\ UNCHANGED plane
  BY DEF Begin
<1> HIDE DEF j
<1>3. /\ job' \in [Syncers -> Job]
      /\ pc' \in [Syncers -> Phases]
      /\ Working'
  BY <1>1, <1>2, JobStep DEF Phases
<1> QED BY <1>3 DEF Begin, TypeInv, TypeOK, database, members

\* Rolling back, or committing, ends in an idle syncer.
LEMMA ResetType ==
  ASSUME TypeInv, NEW s \in Syncers, Reset(s), UNCHANGED plane
  PROVE  /\ job' \in [Syncers -> Job]
         /\ pc' \in [Syncers -> Phases]
         /\ Working'
         /\ writes' \in [Syncers -> Writes]
<1>1. NoJob \in Job /\ NoJob.listed = {} /\ NoWrites \in Writes
  BY DEF NoJob, Job, NoWrites, Writes
<1>2. writes' \in [Syncers -> Writes]
  BY <1>1 DEF TypeInv, TypeOK, Reset
<1> QED BY <1>1, <1>2, JobStep DEF Reset, Phases

LEMMA CrashTypeInv ==
  ASSUME TypeInv, NEW s \in Syncers, Crash(s)
  PROVE  TypeInv'
<1>1. budget' \in [Kinds -> Nat]
  BY SpendType DEF Crash, Kinds, TypeInv
<1> QED
  BY <1>1, ResetType DEF Crash, TypeInv, TypeOK, database, members

LEMMA OnLinkType ==
  ASSUME TypeInv, NEW s \in Syncers, NEW l \in job[s].queue,
         NEW failed \in BOOLEAN, OnLink(s, l, failed),
         NEW ph \in Phases, Goto(s, ph), UNCHANGED plane
  PROVE  /\ job' \in [Syncers -> Job]
         /\ pc' \in [Syncers -> Phases]
         /\ Working'
<1> DEFINE j == [NoJob EXCEPT !.queue = job[s].queue \ {l}, !.link = l,
                              !.known = IF failed THEN {} ELSE RowsOf(s, l),
                              !.failed = failed]
<1>1. l \in LinkRow /\ job[s].queue \ {l} \subseteq LinkRow
  BY DEF TypeInv, TypeOK, Job
<1>2. RowsOf(s, l) \subseteq MapRow
  BY DEF RowsOf, TypeInv, TypeOK, Writes
<1>3. j \in Job /\ j.link \in LinkRow /\ j.listed = {}
  BY <1>1, <1>2 DEF Job, NoJob
<1>4. job' = [job EXCEPT ![s] = j]
  BY DEF OnLink
<1> HIDE DEF j
<1> QED BY <1>3, <1>4, JobStep

\* A syncer in the middle of a link changes its job and keeps the link.
LEMMA SameLinkType ==
  ASSUME TypeInv, NEW s \in Syncers, NEW j \in Job, NEW ph \in Phases,
         job' = [job EXCEPT ![s] = j], Goto(s, ph),
         pc[s] \notin {"idle", "next"}, j.link = job[s].link,
         j.listed \subseteq DOMAIN plane,
         DOMAIN plane \subseteq DOMAIN plane'
  PROVE  /\ job' \in [Syncers -> Job]
         /\ pc' \in [Syncers -> Phases]
         /\ Working'
BY JobStep DEF TypeInv, Working

LEMMA ReadCommentsTypeInv ==
  ASSUME TypeInv, NEW s \in Syncers, ReadComments(s)
  PROVE  TypeInv'
<1> DEFINE j == [job[s] EXCEPT !.seen = CommentsOf(s, job[s].link.card)]
<1>1. CommentsOf(s, job[s].link.card) \subseteq Comment
  BY DEF CommentsOf, TypeInv, TypeOK, Writes
<1>2. /\ j \in Job /\ j.link = job[s].link
      /\ j.listed \subseteq DOMAIN plane
  BY <1>1 DEF TypeInv, TypeOK, Working, Job
<1>3. /\ job' = [job EXCEPT ![s] = j] /\ Goto(s, "push")
      /\ pc[s] = "read" /\ UNCHANGED plane
  BY DEF ReadComments
<1> HIDE DEF j
<1>4. /\ job' \in [Syncers -> Job]
      /\ pc' \in [Syncers -> Phases]
      /\ Working'
  BY <1>2, <1>3, SameLinkType DEF Phases
<1> QED BY <1>4 DEF ReadComments, TypeInv, TypeOK, database, members

LEMMA PlaneAcceptsType ==
  ASSUME TypeInv, NEW s \in Syncers, NEW c \in job[s].seen,
         pc[s] \notin {"idle", "next"}, PlaneAccepts(s, c)
  PROVE  plane' \in Seq(Posted) /\ DOMAIN plane \subseteq DOMAIN plane'
<1> DEFINE e == [item |-> job[s].link.item, text |-> c.text, src |-> c.id]
<1>1. job[s].link \in LinkRow /\ c \in Comment
  BY DEF TypeInv, TypeOK, Working, Job
<1>2. e \in Posted
  BY <1>1 DEF LinkRow, Comment, Posted
<1>3. plane' = Append(plane, e) /\ TypeOK
  BY DEF PlaneAccepts, TypeInv
<1> HIDE DEF e
<1> QED BY <1>2, <1>3, PlaneGrows

LEMMA PushTypeInv ==
  ASSUME TypeInv, NEW s \in Syncers, NEW c \in job[s].seen, Push(s, c)
  PROVE  TypeInv'
<1> DEFINE n == Len(plane) + 1
           j == [job[s] EXCEPT !.pid = n]
<1>1. plane' \in Seq(Posted) /\ DOMAIN plane \subseteq DOMAIN plane'
  BY PlaneAcceptsType DEF Push
<1>2. n \in Nat
  BY DEF TypeInv, TypeOK
<1>4. job' = [job EXCEPT ![s] = j] /\ Goto(s, "record") /\ pc[s] = "push"
  BY DEF Push
<1> HIDE DEF n
<1>3. /\ j \in Job /\ j.link = job[s].link
      /\ j.listed \subseteq DOMAIN plane
  BY <1>2 DEF TypeInv, TypeOK, Working, Job
<1> HIDE DEF j
<1>5. /\ job' \in [Syncers -> Job]
      /\ pc' \in [Syncers -> Phases]
      /\ Working'
  BY <1>1, <1>3, <1>4, SameLinkType DEF Phases
<1>6. /\ UNCHANGED <<database, members, lastId, budget, writes>>
      /\ TypeOK
  BY DEF Push, TypeInv
<1> QED BY <1>1, <1>5, <1>6 DEF TypeInv, TypeOK, database, members

\* A push that failed leaves the loop where it is, one comment further.
LEMMA SkipPushType ==
  ASSUME TypeInv, NEW s \in Syncers, NEW c \in job[s].seen, SkipPush(s, c),
         pc[s] = "push", UNCHANGED pc, DOMAIN plane \subseteq DOMAIN plane'
  PROVE  /\ job' \in [Syncers -> Job]
         /\ pc' \in [Syncers -> Phases]
         /\ Working'
<1> DEFINE n == c.id
           j == [job[s] EXCEPT !.failed = TRUE, !.at = n]
<1>1. n \in Nat
  BY DEF TypeInv, TypeOK, Job, Comment
<1>3. job' = [job EXCEPT ![s] = j]
  BY DEF SkipPush
<1> HIDE DEF n
<1>2. /\ j \in Job /\ j.link = job[s].link
      /\ j.listed \subseteq DOMAIN plane
  <2>1. job[s] \in Job /\ job[s].listed \subseteq DOMAIN plane
    BY DEF TypeInv, TypeOK, Working
  <2> QED BY <1>1, <2>1 DEF Job
<1>4. Goto(s, "push")
  BY DEF Goto, TypeInv, TypeOK
<1> HIDE DEF j
<1> QED BY <1>2, <1>3, <1>4, SameLinkType DEF Phases

LEMMA FailedPushTypeInv ==
  ASSUME TypeInv, NEW s \in Syncers, NEW c \in job[s].seen,
         PushRefused(s, c) \/ PushLost(s, c)
  PROVE  TypeInv'
<1>1. CASE PushRefused(s, c)
  <2>1. budget' \in [Kinds -> Nat]
    BY <1>1, SpendType DEF PushRefused, Kinds, TypeInv
  <2>2. /\ job' \in [Syncers -> Job]
        /\ pc' \in [Syncers -> Phases]
        /\ Working'
    BY <1>1, SkipPushType DEF PushRefused
  <2> QED
    BY <1>1, <2>1, <2>2 DEF PushRefused, TypeInv, TypeOK, database, members
<1>2. CASE PushLost(s, c)
  <2>1. budget' \in [Kinds -> Nat]
    BY <1>2, SpendType DEF PushLost, Kinds, TypeInv
  <2>2. plane' \in Seq(Posted) /\ DOMAIN plane \subseteq DOMAIN plane'
    BY <1>2, PlaneAcceptsType DEF PushLost
  <2>3. /\ job' \in [Syncers -> Job]
        /\ pc' \in [Syncers -> Phases]
        /\ Working'
    BY <1>2, <2>2, SkipPushType DEF PushLost
  <2> QED
    BY <1>2, <2>1, <2>2, <2>3 DEF PushLost, TypeInv, TypeOK, database, members
<1> QED BY <1>1, <1>2

LEMMA RecordPushTypeInv ==
  ASSUME TypeInv, NEW s \in Syncers, NEW c \in job[s].seen, RecordPush(s, c)
  PROVE  TypeInv'
<1> DEFINE j == [job[s] EXCEPT !.at = c.id,
                               !.known = @ \cup {PushedRow(s, c)}]
<1>1. c.id \in Nat /\ job[s].link \in LinkRow /\ job[s].pid \in Nat
  BY DEF RecordPush, TypeInv, TypeOK, Working, Job, Comment
<1>2. PushedRow(s, c) \in MapRow
  BY <1>1 DEF PushedRow, MapRow, Origins, LinkRow
<1>3. /\ j \in Job /\ j.link = job[s].link
      /\ j.listed \subseteq DOMAIN plane
  <2>1. job[s] \in Job /\ job[s].listed \subseteq DOMAIN plane
    BY DEF TypeInv, TypeOK, Working
  <2>2. job[s].known \cup {PushedRow(s, c)} \subseteq MapRow
    BY <1>2, <2>1 DEF Job
  <2> QED BY <1>1, <2>1, <2>2 DEF Job
<1>4. /\ job' = [job EXCEPT ![s] = j] /\ Goto(s, "push")
      /\ pc[s] = "record" /\ UNCHANGED plane
  BY DEF RecordPush
<1> HIDE DEF j
<1>5. /\ job' \in [Syncers -> Job]
      /\ pc' \in [Syncers -> Phases]
      /\ Working'
  BY <1>3, <1>4, SameLinkType DEF Phases
<1>6. writes' \in [Syncers -> Writes]
  BY <1>2 DEF RecordPush, TypeInv, TypeOK, Writes
<1> QED BY <1>5, <1>6 DEF RecordPush, TypeInv, TypeOK, database, members

LEMMA ListTypeInv ==
  ASSUME TypeInv, NEW s \in Syncers, ListItem(s) \/ ListFails(s)
  PROVE  TypeInv'
<1>1. CASE ListItem(s)
  <2> DEFINE j == [job[s] EXCEPT !.listed = ListedIn(job[s].link.item),
                                 !.at = 0]
  <2>1. /\ ListedIn(job[s].link.item) \subseteq DOMAIN plane
        /\ DOMAIN plane \subseteq Nat
    BY DEF ListedIn, TypeInv, TypeOK
  <2>2. /\ j \in Job /\ j.link = job[s].link
        /\ j.listed \subseteq DOMAIN plane
    BY <2>1 DEF TypeInv, TypeOK, Job
  <2>3. /\ job' = [job EXCEPT ![s] = j] /\ Goto(s, "pull")
        /\ pc[s] = "push" /\ UNCHANGED plane
    BY <1>1 DEF ListItem
  <2> HIDE DEF j
  <2>4. /\ job' \in [Syncers -> Job]
        /\ pc' \in [Syncers -> Phases]
        /\ Working'
    BY <2>2, <2>3, SameLinkType DEF Phases
  <2> QED BY <1>1, <2>4 DEF ListItem, TypeInv, TypeOK, database, members
<1>2. CASE ListFails(s)
  <2> DEFINE j == [job[s] EXCEPT !.failed = TRUE]
  <2>1. /\ j \in Job /\ j.link = job[s].link
        /\ j.listed \subseteq DOMAIN plane
    BY DEF TypeInv, TypeOK, Working, Job
  <2>2. /\ job' = [job EXCEPT ![s] = j] /\ Goto(s, "store")
        /\ pc[s] = "push" /\ UNCHANGED plane
    BY <1>2 DEF ListFails
  <2> HIDE DEF j
  <2>3. /\ job' \in [Syncers -> Job]
        /\ pc' \in [Syncers -> Phases]
        /\ Working'
    BY <2>1, <2>2, SameLinkType DEF Phases
  <2>4. budget' \in [Kinds -> Nat]
    BY <1>2, SpendType DEF ListFails, Kinds, TypeInv
  <2> QED
    BY <1>2, <2>3, <2>4 DEF ListFails, TypeInv, TypeOK, database, members
<1> QED BY <1>1, <1>2

LEMMA PullTypeInv ==
  ASSUME TypeInv, NEW s \in Syncers, NEW p \in job[s].listed,
         Pull(s, p) \/ PullRejected(s, p)
  PROVE  TypeInv'
<1>1. /\ p \in Nat /\ p \in DOMAIN plane /\ plane[p] \in Posted
      /\ pc[s] = "pull" /\ job[s].link \in LinkRow
  <2>1. pc[s] = "pull"
    BY DEF Pull, PullRejected
  <2>2. p \in DOMAIN plane /\ job[s].link \in LinkRow
    BY <2>1 DEF TypeInv, Working
  <2> QED BY <2>1, <2>2 DEF TypeInv, TypeOK
<1>2. CASE Pull(s, p)
  <2> DEFINE j == [job[s] EXCEPT !.at = p]
  <2>1. /\ PulledComment(s, p) \in Comment
        /\ PulledRow(s, p) \in MapRow
    BY <1>1 DEF PulledComment, PulledRow, Comment, MapRow, Origins, LinkRow,
                Posted, TypeInv, TypeOK
  <2>2. /\ j \in Job /\ j.link = job[s].link
        /\ j.listed \subseteq DOMAIN plane
    BY <1>1 DEF TypeInv, TypeOK, Working, Job
  <2>3. /\ job' = [job EXCEPT ![s] = j] /\ Goto(s, "pull") /\ UNCHANGED plane
    BY <1>1, <1>2 DEF Pull, Goto, TypeInv, TypeOK
  <2> HIDE DEF j
  <2>4. /\ job' \in [Syncers -> Job]
        /\ pc' \in [Syncers -> Phases]
        /\ Working'
    BY <1>1, <2>2, <2>3, SameLinkType DEF Phases
  <2>5. writes' \in [Syncers -> Writes]
    BY <1>2, <2>1 DEF Pull, TypeInv, TypeOK, Writes
  <2> QED
    BY <1>2, <2>4, <2>5 DEF Pull, TypeInv, TypeOK, database, members
<1>3. CASE PullRejected(s, p)
  <2> DEFINE j == [job[s] EXCEPT !.failed = TRUE]
  <2>1. /\ j \in Job /\ j.link = job[s].link
        /\ j.listed \subseteq DOMAIN plane
    BY DEF TypeInv, TypeOK, Working, Job
  <2>2. /\ job' = [job EXCEPT ![s] = j] /\ Goto(s, "store")
        /\ UNCHANGED plane
    BY <1>3 DEF PullRejected
  <2> HIDE DEF j
  <2>3. /\ job' \in [Syncers -> Job]
        /\ pc' \in [Syncers -> Phases]
        /\ Working'
    BY <1>1, <2>1, <2>2, SameLinkType DEF Phases
  <2> QED BY <1>3, <2>3 DEF PullRejected, TypeInv, TypeOK, database, members
<1> QED BY <1>2, <1>3

LEMMA StoreLinkTypeInv ==
  ASSUME TypeInv, NEW s \in Syncers, StoreLink(s)
  PROVE  TypeInv'
<1> DEFINE j == [NoJob EXCEPT !.queue = job[s].queue]
<1>1. job[s].link \in LinkRow
  BY DEF StoreLink, Storing, TypeInv, Working
<1>2. Outcome(s) \in LinkRow
  BY <1>1 DEF Outcome, LinkRow, Statuses
<1>3. writes' \in [Syncers -> Writes]
  <2>1. writes' = [writes EXCEPT ![s].links = @ \cup {Outcome(s)}]
    BY DEF StoreLink
  <2> QED BY <1>2, <2>1 DEF TypeInv, TypeOK, Writes
<1>4. j \in Job /\ j.listed = {}
  BY DEF TypeInv, TypeOK, Job, NoJob
<1>5. job' = [job EXCEPT ![s] = j] /\ Goto(s, "next") /\ UNCHANGED plane
  BY DEF StoreLink
<1> HIDE DEF j
<1>6. /\ job' \in [Syncers -> Job]
      /\ pc' \in [Syncers -> Phases]
      /\ Working'
  BY <1>4, <1>5, JobStep DEF Phases
<1> QED BY <1>3, <1>6 DEF StoreLink, TypeInv, TypeOK, database, members

LEMMA EndTypeInv ==
  ASSUME TypeInv, NEW s \in Syncers, Commit(s) \/ Panic(s)
  PROVE  TypeInv'
<1>1. /\ job' \in [Syncers -> Job]
      /\ pc' \in [Syncers -> Phases]
      /\ Working'
      /\ writes' \in [Syncers -> Writes]
  BY ResetType DEF Commit, Panic
<1>2. /\ comments' \subseteq Comment /\ rows' \subseteq MapRow
      /\ links' \subseteq LinkRow
  BY DEF Commit, Panic, Upserted, Writes, TypeInv, TypeOK, database
<1> QED BY <1>1, <1>2 DEF Commit, Panic, TypeInv, TypeOK, database, members

LEMMA ProgressTypeInv ==
  ASSUME TypeInv, NEW s \in Syncers, Progress(s)
  PROVE  TypeInv'
<1>1. ASSUME NEW l \in job[s].queue, ReadRows(s, l) PROVE TypeInv'
  <2>1. /\ job' \in [Syncers -> Job]
        /\ pc' \in [Syncers -> Phases]
        /\ Working'
    BY <1>1, OnLinkType DEF ReadRows, Phases
  <2> QED BY <1>1, <2>1 DEF ReadRows, TypeInv, TypeOK, database, members
<1>2. ASSUME NEW l \in job[s].queue, NoConnection(s, l) PROVE TypeInv'
  <2>1. budget' \in [Kinds -> Nat]
    BY <1>2, SpendType DEF NoConnection, Kinds, TypeInv
  <2>2. /\ job' \in [Syncers -> Job]
        /\ pc' \in [Syncers -> Phases]
        /\ Working'
    BY <1>2, OnLinkType DEF NoConnection, Phases
  <2> QED
    BY <1>2, <2>1, <2>2 DEF NoConnection, TypeInv, TypeOK, database, members
<1> QED
  BY <1>1, <1>2, ReadCommentsTypeInv, PushTypeInv, FailedPushTypeInv,
     RecordPushTypeInv, ListTypeInv, PullTypeInv, StoreLinkTypeInv,
     EndTypeInv DEF Progress

LEMMA NextTypeInv == TypeInv /\ [Next]_vars => TypeInv'
<1>1. TypeInv /\ UNCHANGED vars => TypeInv'
  BY DEF TypeInv, TypeOK, Working, vars, database, members, syncer
<1> QED
  BY <1>1, MemberTypeInv, BeginTypeInv, ProgressTypeInv, CrashTypeInv DEF Next

\* Every reachable state is well typed, and every syncer past "next" works on a
\* link, whose listing stays in Plane: what the code never checks at run time.
THEOREM TypeInvariant == Spec => []TypeInv
<1>1. Init => TypeInv
  BY InitTypeInv
<1> QED BY <1>1, NextTypeInv, PTL DEF Spec

\* Every reachable state is well typed, whatever the number of syncers, cards
\* and work items.
THEOREM TypeCorrect == Spec => []TypeOK
BY TypeInvariant, PTL DEF TypeInv

-----------------------------------------------------------------------------
(* Dedupe by external id: TypeInv /\ DedupeInv is inductive.               *)

LEMMA InitDedupe == Init => DedupeInv
BY DEF Init, DedupeInv, IdsDistinct, PidsDistinct, ImportsAreMapped,
       WritesAreMapped, Everywhere, NoWrites

LEMMA StutterDedupe ==
  ASSUME DedupeInv, UNCHANGED <<comments, rows, lastId, writes>>
  PROVE  DedupeInv'
BY DEF DedupeInv, IdsDistinct, PidsDistinct, ImportsAreMapped,
       WritesAreMapped, Everywhere

\* Comments that disappear disturb nothing.
LEMMA DeleteDedupe ==
  ASSUME DedupeInv, comments' \subseteq comments,
         UNCHANGED <<rows, lastId, writes>>
  PROVE  DedupeInv'
<1>1. Everywhere' \subseteq Everywhere
  BY DEF Everywhere
<1>2. IdsDistinct'
  BY <1>1 DEF DedupeInv, IdsDistinct
<1>3. PidsDistinct' /\ WritesAreMapped' /\ ImportsAreMapped'
  BY DEF DedupeInv, PidsDistinct, WritesAreMapped, ImportsAreMapped
<1> QED BY <1>2, <1>3 DEF DedupeInv

\* A comment with the next id is distinct from every other one.
LEMMA FreshId ==
  ASSUME TypeInv, DedupeInv, NEW e \in Comment, e.id = lastId + 1,
         lastId' = lastId + 1, Everywhere' \subseteq Everywhere \cup {e}
  PROVE  IdsDistinct'
<1>1. lastId \in Nat
  BY DEF TypeInv, TypeOK
<1>2. \A c \in Everywhere : c.id \in Nat /\ c.id <= lastId
  BY DEF TypeInv, TypeOK, Writes, Everywhere, Comment, DedupeInv, IdsDistinct
<1>3. \A c \in Everywhere' : c.id <= lastId'
  BY <1>1, <1>2
<1>4. ASSUME NEW c \in Everywhere', NEW d \in Everywhere', c.id = d.id
      PROVE  c = d
  BY <1>1, <1>2, <1>4 DEF DedupeInv, IdsDistinct
<1> QED BY <1>3, <1>4 DEF IdsDistinct

LEMMA MemberDedupe ==
  ASSUME TypeInv, DedupeInv, MemberStep
  PROVE  DedupeInv'
<1>1. ASSUME NEW f \in Cards, NEW m \in Locals, WriteComment(f, m)
      PROVE  DedupeInv'
  <2> DEFINE e == [id |-> lastId + 1, card |-> f, text |-> m, src |-> 0]
  <2>1. e \in Comment /\ e.id = lastId + 1 /\ e.src = 0
    BY DEF Comment, Texts, TypeInv, TypeOK
  <2>2. comments' = comments \cup {e} /\ lastId' = lastId + 1
    BY <1>1 DEF WriteComment
  <2>3. UNCHANGED <<rows, writes>>
    BY <1>1 DEF WriteComment, syncer
  <2> HIDE DEF e
  <2>4. IdsDistinct'
    BY <2>1, <2>2, <2>3, FreshId DEF Everywhere
  <2>5. PidsDistinct' /\ WritesAreMapped'
    BY <2>3 DEF DedupeInv, PidsDistinct, WritesAreMapped
  <2>6. ImportsAreMapped'
    BY <2>1, <2>2, <2>3 DEF DedupeInv, ImportsAreMapped
  <2> QED BY <2>4, <2>5, <2>6 DEF DedupeInv
<1>2. ASSUME NEW f \in Cards, DeleteCard(f) PROVE DedupeInv'
  BY <1>2, DeleteDedupe DEF DeleteCard, syncer
<1>3. ASSUME NEW c \in comments, DeleteComment(c) PROVE DedupeInv'
  BY <1>3, DeleteDedupe DEF DeleteComment, syncer
<1>4. ASSUME NEW f \in Cards,
             UnlinkCard(f) \/ \E i \in Items : LinkCard(f, i)
      PROVE  DedupeInv'
  BY <1>4, StutterDedupe DEF LinkCard, UnlinkCard, syncer
<1>5. ASSUME NEW i \in Items, NEW m \in Remotes, WriteInPlane(i, m)
      PROVE  DedupeInv'
  BY <1>5, StutterDedupe DEF WriteInPlane, syncer, database
<1> QED BY <1>1, <1>2, <1>3, <1>4, <1>5 DEF MemberStep

\* A row that neither waits nor collides is the only one of its Plane comment.
LEMMA InsertDistinct ==
  ASSUME TypeInv, DedupeInv, NEW s \in Syncers, NEW e \in MapRow,
         Inserts(s, e.pid), ~Blocked(s), ~Collides(s),
         UNCHANGED rows,
         \A t \in Syncers \ {s} : writes'[t].rows = writes[t].rows,
         writes'[s].rows = writes[s].rows \cup {e}
  PROVE  PidsDistinct'
<1>1. \A t \in Syncers \ {s} : \A r \in writes[t].rows : r.pid # e.pid
  BY DEF Blocked, Waits
<1>2. \A r \in rows \cup writes[s].rows : r.pid # e.pid
  BY DEF Collides
<1> QED BY <1>1, <1>2 DEF PidsDistinct, DedupeInv

LEMMA RecordPushDedupe ==
  ASSUME TypeInv, DedupeInv, NEW s \in Syncers, NEW c \in job[s].seen,
         RecordPush(s, c)
  PROVE  DedupeInv'
<1> DEFINE e == PushedRow(s, c)
<1>1. e \in MapRow /\ Inserts(s, e.pid)
  <2>1. /\ c.id \in Nat /\ job[s].pid \in Nat /\ job[s].link \in LinkRow
        /\ pc[s] = "record"
    BY DEF RecordPush, TypeInv, TypeOK, Working, Job, Comment
  <2> QED BY <2>1 DEF PushedRow, MapRow, Origins, LinkRow, Inserts
<1>2. /\ ~Blocked(s) /\ ~Collides(s)
      /\ writes' = [writes EXCEPT ![s].rows = @ \cup {e}]
      /\ UNCHANGED <<comments, rows, lastId>>
  BY DEF RecordPush, database
<1> HIDE DEF e
<1>3. /\ \A t \in Syncers \ {s} : writes'[t].rows = writes[t].rows
      /\ writes'[s].rows = writes[s].rows \cup {e}
      /\ \A t \in Syncers : writes'[t].comments = writes[t].comments
  BY <1>2 DEF TypeInv, TypeOK, Writes
<1>4. PidsDistinct'
  BY <1>1, <1>2, <1>3, InsertDistinct
<1>5. IdsDistinct'
  BY <1>2, <1>3 DEF IdsDistinct, Everywhere, DedupeInv
<1>6. WritesAreMapped' /\ ImportsAreMapped'
  BY <1>2, <1>3 DEF WritesAreMapped, ImportsAreMapped, DedupeInv
<1> QED BY <1>4, <1>5, <1>6 DEF DedupeInv

LEMMA PullDedupe ==
  ASSUME TypeInv, DedupeInv, NEW s \in Syncers, NEW p \in job[s].listed,
         Pull(s, p)
  PROVE  DedupeInv'
<1> DEFINE e == PulledRow(s, p)
           f == PulledComment(s, p)
<1>1. /\ e \in MapRow /\ Inserts(s, e.pid)
      /\ f \in Comment /\ f.id = lastId + 1
      /\ e.cid = f.id /\ e.pid = f.src /\ e.origin = "plane"
  <2>1. pc[s] = "pull" /\ NextPull(s, p) /\ Accepts(s, p)
    BY DEF Pull
  <2>2. p \in DOMAIN plane /\ job[s].link \in LinkRow
    BY <2>1 DEF TypeInv, Working
  <2>3. p \in Nat /\ plane[p] \in Posted /\ lastId \in Nat
    BY <2>2 DEF TypeInv, TypeOK
  <2> QED
    BY <2>1, <2>2, <2>3 DEF PulledRow, PulledComment, MapRow, Comment, Origins,
                            LinkRow, Posted, Inserts
<1>2. /\ ~Blocked(s) /\ ~Collides(s)
      /\ writes' = [writes EXCEPT ![s].comments = @ \cup {f},
                                  ![s].rows = @ \cup {e}]
      /\ lastId' = lastId + 1
      /\ UNCHANGED <<comments, rows>>
  BY DEF Pull, database
<1> HIDE DEF e, f
<1>3. /\ \A t \in Syncers \ {s} : writes'[t] = writes[t]
      /\ writes'[s].rows = writes[s].rows \cup {e}
      /\ writes'[s].comments = writes[s].comments \cup {f}
  BY <1>2 DEF TypeInv, TypeOK, Writes
<1>4. PidsDistinct'
  BY <1>1, <1>2, <1>3, InsertDistinct
<1>5. IdsDistinct'
  <2>1. \A t \in Syncers :
          writes'[t].comments \subseteq writes[t].comments \cup {f}
    BY <1>3
  <2>2. ASSUME NEW c \in Everywhere' PROVE c \in Everywhere \cup {f}
    <3>1. CASE c \in comments'
      BY <3>1, <1>2 DEF Everywhere
    <3>2. ASSUME NEW t \in Syncers, c \in writes'[t].comments
          PROVE  c \in Everywhere \cup {f}
      BY <3>2, <2>1 DEF Everywhere
    <3> QED BY <3>1, <3>2 DEF Everywhere
  <2> QED BY <1>1, <1>2, <2>2, FreshId
<1>6. WritesAreMapped'
  BY <1>1, <1>3 DEF WritesAreMapped, DedupeInv
<1>7. ImportsAreMapped'
  BY <1>2 DEF ImportsAreMapped, DedupeInv
<1> QED BY <1>4, <1>5, <1>6, <1>7 DEF DedupeInv

LEMMA StoreLinkDedupe ==
  ASSUME TypeInv, DedupeInv, NEW s \in Syncers, StoreLink(s)
  PROVE  DedupeInv'
<1>1. \A t \in Syncers : /\ writes'[t].rows = writes[t].rows
                         /\ writes'[t].comments = writes[t].comments
  BY DEF StoreLink, TypeInv, TypeOK, Writes
<1>2. UNCHANGED <<comments, rows, lastId>>
  BY DEF StoreLink, database
<1> QED
  BY <1>1, <1>2 DEF DedupeInv, IdsDistinct, PidsDistinct, ImportsAreMapped,
                    WritesAreMapped, Everywhere

\* Panic and crash drop what one transaction wrote, and only that.
LEMMA RollbackDedupe ==
  ASSUME TypeInv, DedupeInv, NEW s \in Syncers, Panic(s) \/ Crash(s)
  PROVE  DedupeInv'
<1>1. /\ writes' = [writes EXCEPT ![s] = NoWrites]
      /\ UNCHANGED <<comments, rows, lastId>>
  BY DEF Panic, Crash, Reset, database
<1>2. /\ \A t \in Syncers \ {s} : writes'[t] = writes[t]
      /\ writes'[s].rows = {} /\ writes'[s].comments = {}
  BY <1>1 DEF TypeInv, TypeOK, NoWrites
<1> QED
  BY <1>1, <1>2 DEF DedupeInv, IdsDistinct, PidsDistinct, ImportsAreMapped,
                    WritesAreMapped, Everywhere

LEMMA CommitDedupe ==
  ASSUME TypeInv, DedupeInv, NEW s \in Syncers, Commit(s)
  PROVE  DedupeInv'
<1>1. /\ writes' = [writes EXCEPT ![s] = NoWrites]
      /\ comments' = comments \cup writes[s].comments
      /\ rows' = rows \cup writes[s].rows
      /\ UNCHANGED lastId
  BY DEF Commit, Reset
<1>2. /\ \A t \in Syncers \ {s} : writes'[t] = writes[t]
      /\ writes'[s].rows = {} /\ writes'[s].comments = {}
  BY <1>1 DEF TypeInv, TypeOK, NoWrites
<1>3. Everywhere' \subseteq Everywhere
  BY <1>1, <1>2 DEF Everywhere
<1>4. IdsDistinct'
  BY <1>1, <1>3 DEF DedupeInv, IdsDistinct
<1>5. PidsDistinct'
  BY <1>1, <1>2 DEF DedupeInv, PidsDistinct
<1>6. WritesAreMapped'
  BY <1>2 DEF DedupeInv, WritesAreMapped
<1>7. ImportsAreMapped'
  BY <1>1 DEF DedupeInv, ImportsAreMapped, WritesAreMapped
<1> QED BY <1>4, <1>5, <1>6, <1>7 DEF DedupeInv

LEMMA NextDedupe == TypeInv /\ DedupeInv /\ [Next]_vars => DedupeInv'
<1> SUFFICES ASSUME TypeInv, DedupeInv, [Next]_vars PROVE DedupeInv'
  OBVIOUS
<1>1. CASE UNCHANGED vars
  BY <1>1, StutterDedupe DEF vars, database, syncer
<1>2. CASE MemberStep
  BY <1>2, MemberDedupe
<1>3. ASSUME NEW s \in Syncers, NEW q \in SUBSET links, Begin(s, q)
      PROVE  DedupeInv'
  BY <1>3, StutterDedupe DEF Begin, database
<1>4. ASSUME NEW s \in Syncers, Progress(s) PROVE DedupeInv'
  <2>1. ASSUME NEW l \in job[s].queue, ReadRows(s, l) \/ NoConnection(s, l)
        PROVE  DedupeInv'
    BY <2>1, StutterDedupe DEF ReadRows, NoConnection, database
  <2>2. CASE ReadComments(s) \/ ListItem(s) \/ ListFails(s)
    BY <2>2, StutterDedupe DEF ReadComments, ListItem, ListFails, database
  <2>3. ASSUME NEW c \in job[s].seen,
               Push(s, c) \/ PushRefused(s, c) \/ PushLost(s, c)
        PROVE  DedupeInv'
    BY <2>3, StutterDedupe DEF Push, PushRefused, PushLost, database
  <2>4. ASSUME NEW p \in job[s].listed, PullRejected(s, p) PROVE DedupeInv'
    BY <2>4, StutterDedupe DEF PullRejected, database
  <2> QED
    BY <1>4, <2>1, <2>2, <2>3, <2>4, RecordPushDedupe, PullDedupe,
       StoreLinkDedupe, CommitDedupe, RollbackDedupe DEF Progress
<1>5. ASSUME NEW s \in Syncers, Crash(s) PROVE DedupeInv'
  BY <1>5, RollbackDedupe
<1> QED BY <1>1, <1>2, <1>3, <1>4, <1>5 DEF Next

\* What DedupeInv says of committed and uncommitted rows holds in every
\* reachable state.
THEOREM DedupeInvariant == Spec => []DedupeInv
<1>1. Init => DedupeInv
  BY InitDedupe
<1> QED BY <1>1, NextDedupe, TypeInvariant, PTL DEF Spec

\* A Plane comment is imported at most once, for any number of syncers, with
\* panics, deadlocks, crashes, lost answers, relinking and deletions.
THEOREM DedupeByExternalId == Spec => []ImportedOnce
<1>1. TypeInv /\ DedupeInv => ImportedOnce
  BY DEF DedupeInv, ImportsAreMapped, PidsDistinct, IdsDistinct, Everywhere,
         ImportedOnce
<1> QED BY <1>1, TypeInvariant, DedupeInvariant, PTL

\* An import and its map row are committed together or not at all.
THEOREM ImportIsAtomic == Spec => []ImportsAreMapped
BY DedupeInvariant, PTL DEF DedupeInv

\* A Plane comment that is mapped is never imported, even when its first copy
\* was deleted or its link replaced.
THEOREM NoSecondImport == Spec => NoReimport
<1> DEFINE A == \A c \in comments' \ comments :
                  c.src # 0 => \A r \in rows : r.pid # c.src
<1>1. TypeInv /\ DedupeInv /\ [Next]_vars => [A]_vars
  <2> SUFFICES ASSUME DedupeInv, Next, NEW c \in comments' \ comments,
                      c.src # 0, NEW r \in rows
               PROVE  r.pid # c.src
    OBVIOUS
  <2>1. CASE MemberStep
    <3>1. ASSUME NEW f \in Cards, NEW m \in Locals, WriteComment(f, m)
          PROVE  c.src = 0
      BY <3>1 DEF WriteComment
    <3>2. ASSUME comments' \subseteq comments PROVE FALSE
      BY <3>2
    <3>3. ASSUME NEW f \in Cards,
                 \/ UnlinkCard(f) \/ DeleteCard(f)
                 \/ \E i \in Items : LinkCard(f, i)
          PROVE  FALSE
      BY <3>3, <3>2 DEF UnlinkCard, DeleteCard, LinkCard
    <3>4. ASSUME \/ \E d \in comments : DeleteComment(d)
                 \/ \E i \in Items, m \in Remotes : WriteInPlane(i, m)
          PROVE  FALSE
      BY <3>4, <3>2 DEF DeleteComment, WriteInPlane, database
    <3> QED BY <2>1, <3>1, <3>3, <3>4 DEF MemberStep
  <2>2. ASSUME NEW s \in Syncers, Commit(s) PROVE r.pid # c.src
    <3>1. c \in writes[s].comments
      BY <2>2 DEF Commit
    <3> QED BY <3>1 DEF DedupeInv, WritesAreMapped, PidsDistinct
  <2>3. ASSUME NEW s \in Syncers,
               \/ Crash(s)
               \/ Progress(s) /\ ~Commit(s)
               \/ \E q \in SUBSET links : Begin(s, q)
        PROVE  FALSE
    BY <2>3 DEF Crash, Begin, Progress, ReadRows, NoConnection, ReadComments,
                Push, PushRefused, PushLost, RecordPush, ListItem, ListFails,
                Pull, PullRejected, StoreLink, Panic, database
  <2> QED BY <2>1, <2>2, <2>3 DEF Next
<1> QED BY <1>1, TypeInvariant, DedupeInvariant, PTL DEF Spec, NoReimport

-----------------------------------------------------------------------------
(* Rows pair copies: TypeInv /\ PairInv is inductive.                      *)

\* The comments and rows anybody has, a syncer that read or wrote them included.
Held    == Everywhere \cup UNION {job[s].seen : s \in Syncers}
AnyRows == rows \cup UNION {writes[s].rows : s \in Syncers}

HeldOnce == /\ \A c \in Held : c.id > 0 /\ c.id <= lastId
            /\ \A c, d \in Held : c.id = d.id => c = d

Pairs(r) == /\ r.pid \in DOMAIN plane /\ r.cid <= lastId
            /\ r.origin = "featmap" => plane[r.pid].src = r.cid
            /\ \A c \in Held : c.id = r.cid => c.text = plane[r.pid].text

\* The answer that s has of Plane is about the comment it pushed.
Answered(s) ==
  pc[s] = "record" =>
    \A c \in Unpushed(s) : NextPush(s, c) =>
      /\ job[s].pid \in DOMAIN plane
      /\ plane[job[s].pid].src = c.id /\ plane[job[s].pid].text = c.text

PairInv == HeldOnce /\ (\A r \in AnyRows : Pairs(r)) /\ (\A s \in Syncers : Answered(s))

LEMMA InitPairs == Init => PairInv
BY DEF Init, PairInv, HeldOnce, Held, AnyRows, Answered, Everywhere, NoWrites, NoJob

LEMMA HeldType ==
  ASSUME TypeInv
  PROVE  /\ Held \subseteq Comment /\ AnyRows \subseteq MapRow
         /\ lastId \in Nat /\ plane \in Seq(Posted)
<1>1. ASSUME NEW s \in Syncers
      PROVE  /\ writes[s].comments \subseteq Comment /\ writes[s].rows \subseteq MapRow
             /\ job[s].seen \subseteq Comment
  BY DEF TypeInv, TypeOK, Writes, Job
<1>2. /\ comments \subseteq Comment /\ rows \subseteq MapRow
      /\ lastId \in Nat /\ plane \in Seq(Posted)
  BY DEF TypeInv, TypeOK
<1> QED BY <1>1, <1>2 DEF Held, AnyRows, Everywhere

PlaneKept == /\ DOMAIN plane \subseteq DOMAIN plane'
             /\ \A p \in DOMAIN plane : plane'[p] = plane[p]

LEMMA AppendKeeps ==
  ASSUME TypeInv, NEW e, plane' = Append(plane, e)
  PROVE  /\ PlaneKept
         /\ Len(plane) + 1 \in DOMAIN plane' /\ plane'[Len(plane) + 1] = e
BY HeldType DEF PlaneKept

\* Nothing new is held.
LEMMA PairsStay ==
  ASSUME PairInv, Held' \subseteq Held, AnyRows' \subseteq AnyRows,
         PlaneKept, UNCHANGED lastId
  PROVE  HeldOnce' /\ \A r \in AnyRows' : Pairs(r)'
<1>1. HeldOnce'
  BY DEF PairInv, HeldOnce
<1>2. ASSUME NEW r \in AnyRows' PROVE Pairs(r)'
  <2>1. Pairs(r)
    BY DEF PairInv
  <2> QED BY <2>1 DEF Pairs, PlaneKept
<1> QED BY <1>1, <1>2

\* An answer stays while its syncer does not move.
LEMMA AnswerStays ==
  ASSUME PairInv, NEW s \in Syncers, PlaneKept,
         pc'[s] # "record" \/ (pc'[s] = pc[s] /\ job'[s] = job[s])
  PROVE  Answered(s)'
<1>1. CASE pc'[s] # "record"
  BY <1>1 DEF Answered
<1>2. CASE pc'[s] = pc[s] /\ job'[s] = job[s]
  <2>1. Unpushed(s)' = Unpushed(s) /\ \A c : NextPush(s, c)' = NextPush(s, c)
    BY <1>2 DEF Unpushed, NextPush, MappedLocals
  <2>2. Answered(s)
    BY DEF PairInv
  <2> HIDE DEF Unpushed, NextPush
  <2>3. SUFFICES ASSUME pc'[s] = "record", NEW c \in Unpushed(s), NextPush(s, c)
                 PROVE  /\ job'[s].pid \in DOMAIN plane'
                        /\ plane'[job'[s].pid].src = c.id
                        /\ plane'[job'[s].pid].text = c.text
    BY <2>1 DEF Answered
  <2>4. /\ job[s].pid \in DOMAIN plane
        /\ plane[job[s].pid].src = c.id /\ plane[job[s].pid].text = c.text
    BY <1>2, <2>2, <2>3 DEF Answered
  <2> QED BY <1>2, <2>4 DEF PlaneKept
<1> QED BY <1>1, <1>2

\* A step that keeps all syncers where they are.
LEMMA QuietPairs ==
  ASSUME TypeInv, PairInv, comments' \subseteq comments, PlaneKept,
         UNCHANGED <<rows, lastId, syncer>>
  PROVE  PairInv'
<1>1. Held' \subseteq Held /\ AnyRows' = AnyRows
  BY DEF Held, AnyRows, Everywhere, syncer
<1>2. \A s \in Syncers : Answered(s)'
  BY AnswerStays DEF syncer
<1> QED BY <1>1, <1>2, PairsStay DEF PairInv

\* A step of s that writes no row and no comment, and does not wait for an answer.
LEMMA StepPairs ==
  ASSUME TypeInv, PairInv, NEW s \in Syncers, NEW j, NEW ph, ph # "record",
         job' = [job EXCEPT ![s] = j], Goto(s, ph), j.seen \subseteq Held,
         PlaneKept, UNCHANGED <<comments, rows, lastId, writes>>
  PROVE  PairInv'
<1>1. \A t \in Syncers : /\ pc'[t] = IF t = s THEN ph ELSE pc[t]
                         /\ job'[t] = IF t = s THEN j ELSE job[t]
  BY DEF Goto, TypeInv, TypeOK
<1>2. Held' \subseteq Held
  <2>1. ASSUME NEW t \in Syncers PROVE job'[t].seen \subseteq Held
    BY <1>1 DEF Held
  <2> QED BY <2>1 DEF Held, Everywhere
<1>3. AnyRows' = AnyRows
  BY DEF AnyRows
<1>4. \A t \in Syncers : Answered(t)'
  BY <1>1, AnswerStays
<1> QED BY <1>2, <1>3, <1>4, PairsStay DEF PairInv

LEMMA MemberPairs ==
  ASSUME TypeInv, PairInv, MemberStep
  PROVE  PairInv'
<1>1. ASSUME NEW f \in Cards, NEW m \in Locals, WriteComment(f, m)
      PROVE  PairInv'
  <2> DEFINE e == [id |-> lastId + 1, card |-> f, text |-> m, src |-> 0]
  <2>1. comments' = comments \cup {e} /\ lastId' = lastId + 1 /\ e.id = lastId + 1
    BY <1>1 DEF WriteComment
  <2>2. UNCHANGED <<rows, writes, job, pc, plane>>
    BY <1>1 DEF WriteComment, syncer
  <2> HIDE DEF e
  <2>3. Held' = Held \cup {e} /\ AnyRows' = AnyRows
    BY <2>1, <2>2 DEF Held, AnyRows, Everywhere
  <2>4. lastId \in Nat /\ \A c \in Held : c.id \in Nat
    BY HeldType DEF Comment
  <2>5. HeldOnce'
    BY <2>1, <2>3, <2>4 DEF HeldOnce, PairInv
  <2>6. ASSUME NEW r \in AnyRows PROVE Pairs(r)'
    <3>1. Pairs(r) /\ r.cid \in Nat
      BY HeldType DEF PairInv, MapRow
    <3> QED BY <2>1, <2>2, <2>3, <2>4, <3>1 DEF Pairs
  <2>7. PlaneKept
    BY <2>2 DEF PlaneKept
  <2>8. \A s \in Syncers : Answered(s)'
    BY <2>2, <2>7, AnswerStays
  <2> QED BY <2>3, <2>5, <2>6, <2>8 DEF PairInv
<1>2. ASSUME NEW f \in Cards,
             DeleteCard(f) \/ UnlinkCard(f) \/ \E i \in Items : LinkCard(f, i)
      PROVE  PairInv'
  <2>1. PlaneKept /\ comments' \subseteq comments /\ UNCHANGED <<rows, lastId, syncer>>
    BY <1>2 DEF DeleteCard, UnlinkCard, LinkCard, PlaneKept, members
  <2> QED BY <2>1, QuietPairs
<1>3. ASSUME NEW c \in comments, DeleteComment(c) PROVE PairInv'
  <2>1. PlaneKept /\ comments' \subseteq comments /\ UNCHANGED <<rows, lastId, syncer>>
    BY <1>3 DEF DeleteComment, PlaneKept
  <2> QED BY <2>1, QuietPairs
<1>4. ASSUME NEW i \in Items, NEW m \in Remotes, WriteInPlane(i, m)
      PROVE  PairInv'
  <2>1. PlaneKept
    BY <1>4, AppendKeeps DEF WriteInPlane
  <2> QED BY <1>4, <2>1, QuietPairs DEF WriteInPlane, database
<1> QED BY <1>1, <1>2, <1>3, <1>4 DEF MemberStep

LEMMA PushPairs ==
  ASSUME TypeInv, PairInv, NEW s \in Syncers, NEW c \in job[s].seen, Push(s, c)
  PROVE  PairInv'
<1> DEFINE j == [job[s] EXCEPT !.pid = Len(plane) + 1]
<1>1. /\ job' = [job EXCEPT ![s] = j] /\ Goto(s, "record") /\ NextPush(s, c)
      /\ UNCHANGED <<comments, rows, lastId, writes>>
  BY DEF Push, database
<1>2. job[s] \in Job /\ c \in Held
  BY DEF TypeInv, TypeOK, Held
<1>3. /\ j.seen = job[s].seen /\ j.at = job[s].at /\ j.known = job[s].known
      /\ j.pid = Len(plane) + 1
  BY <1>2 DEF Job
<1>4. /\ PlaneKept /\ Len(plane) + 1 \in DOMAIN plane'
      /\ plane'[Len(plane) + 1].src = c.id /\ plane'[Len(plane) + 1].text = c.text
  <2> DEFINE e == [item |-> job[s].link.item, text |-> c.text, src |-> c.id]
  <2>1. plane' = Append(plane, e)
    BY DEF Push, PlaneAccepts
  <2>2. PlaneKept /\ Len(plane) + 1 \in DOMAIN plane' /\ plane'[Len(plane) + 1] = e
    BY <2>1, AppendKeeps
  <2> QED BY <2>2
<1> HIDE DEF j
<1>5. \A t \in Syncers : /\ pc'[t] = IF t = s THEN "record" ELSE pc[t]
                         /\ job'[t] = IF t = s THEN j ELSE job[t]
  BY <1>1 DEF Goto, TypeInv, TypeOK
<1>6. Held' = Held /\ AnyRows' = AnyRows
  <2>1. \A t \in Syncers : job'[t].seen = job[t].seen
    BY <1>3, <1>5
  <2> QED BY <1>1, <2>1 DEF Held, AnyRows, Everywhere
<1>7. Answered(s)'
  <2>1. Unpushed(s)' = Unpushed(s) /\ \A d : NextPush(s, d)' = NextPush(s, d)
    BY <1>3, <1>5 DEF Unpushed, NextPush, MappedLocals
  <2>2. ASSUME NEW d \in Unpushed(s), NextPush(s, d) PROVE d = c
    <3>1. d \in Held /\ d.id <= c.id /\ c.id <= d.id
      BY <1>1, <2>2 DEF NextPush, Unpushed, Held
    <3>2. d.id \in Nat /\ c.id \in Nat
      BY <1>2, <3>1, HeldType DEF Comment
    <3> QED BY <1>2, <3>1, <3>2 DEF PairInv, HeldOnce
  <2>3. job'[s].pid = Len(plane) + 1
    BY <1>3, <1>5
  <2> HIDE DEF Unpushed, NextPush
  <2> QED BY <1>4, <2>1, <2>2, <2>3 DEF Answered
<1>8. \A t \in Syncers \ {s} : Answered(t)'
  BY <1>4, <1>5, AnswerStays
<1> QED BY <1>1, <1>4, <1>6, <1>7, <1>8, PairsStay DEF PairInv

LEMMA RecordPushPairs ==
  ASSUME TypeInv, PairInv, NEW s \in Syncers, NEW c \in job[s].seen, RecordPush(s, c)
  PROVE  PairInv'
<1> DEFINE e == PushedRow(s, c)
           j == [job[s] EXCEPT !.at = c.id, !.known = @ \cup {e}]
<1>1. /\ job' = [job EXCEPT ![s] = j] /\ Goto(s, "push")
      /\ writes' = [writes EXCEPT ![s].rows = @ \cup {e}]
      /\ UNCHANGED <<comments, rows, lastId, plane>>
      /\ pc[s] = "record" /\ NextPush(s, c)
  BY DEF RecordPush, database
<1>2. job[s] \in Job /\ c \in Held
  BY DEF TypeInv, TypeOK, Held
<1>3. j.seen = job[s].seen
  BY <1>2 DEF Job
<1>4. Pairs(e)
  <2>1. /\ job[s].pid \in DOMAIN plane
        /\ plane[job[s].pid].src = c.id /\ plane[job[s].pid].text = c.text
    BY <1>1 DEF PairInv, Answered, NextPush
  <2>2. \A d \in Held : d.id = c.id => d = c
    BY <1>2 DEF PairInv, HeldOnce
  <2>3. c.id <= lastId
    BY <1>2 DEF PairInv, HeldOnce
  <2>4. e.cid = c.id /\ e.pid = job[s].pid
    BY DEF PushedRow
  <2> HIDE DEF e
  <2> QED BY <2>1, <2>2, <2>3, <2>4 DEF Pairs
<1> HIDE DEF j, e
<1>5. \A t \in Syncers : /\ pc'[t] = IF t = s THEN "push" ELSE pc[t]
                         /\ job'[t] = IF t = s THEN j ELSE job[t]
                         /\ writes'[t].comments = writes[t].comments
                         /\ writes'[t].rows \subseteq writes[t].rows \cup {e}
  BY <1>1 DEF Goto, TypeInv, TypeOK, Writes
<1>6. Held' = Held /\ AnyRows' \subseteq AnyRows \cup {e}
  <2>1. \A t \in Syncers : job'[t].seen = job[t].seen
    BY <1>3, <1>5
  <2>2. Held' = Held
    BY <1>1, <1>5, <2>1 DEF Held, Everywhere
  <2> QED BY <1>1, <1>5, <2>2 DEF AnyRows
<1>7. HeldOnce' /\ \A r \in AnyRows' : Pairs(r)'
  BY <1>1, <1>4, <1>6 DEF PairInv, HeldOnce, Pairs
<1>8. PlaneKept
  BY <1>1 DEF PlaneKept
<1>9. \A t \in Syncers : Answered(t)'
  BY <1>5, <1>8, AnswerStays
<1> QED BY <1>7, <1>9 DEF PairInv

LEMMA PullPairs ==
  ASSUME TypeInv, PairInv, NEW s \in Syncers, NEW p \in job[s].listed, Pull(s, p)
  PROVE  PairInv'
<1> PICK e, f : e = PulledRow(s, p) /\ f = PulledComment(s, p)
  OBVIOUS
<1> DEFINE j == [job[s] EXCEPT !.at = p]
<1>1. /\ job' = [job EXCEPT ![s] = j] /\ lastId' = lastId + 1
      /\ writes' = [writes EXCEPT ![s].comments = @ \cup {f}, ![s].rows = @ \cup {e}]
      /\ UNCHANGED <<comments, rows, plane, pc>> /\ pc[s] = "pull"
  BY DEF Pull, database
<1>2. /\ e.cid = lastId + 1 /\ e.pid = p /\ e.origin = "plane"
      /\ f.id = lastId + 1 /\ f.text = plane[p].text
  BY DEF PulledRow, PulledComment
<1>3. p \in DOMAIN plane
  BY DEF TypeInv, Working
<1>4. job[s] \in Job /\ j.seen = job[s].seen
  BY DEF TypeInv, TypeOK, Job
<1> HIDE DEF j
<1>5. \A t \in Syncers : /\ job'[t] = IF t = s THEN j ELSE job[t]
                         /\ writes'[t].comments \subseteq writes[t].comments \cup {f}
                         /\ writes'[t].rows \subseteq writes[t].rows \cup {e}
  BY <1>1 DEF TypeInv, TypeOK, Writes
<1>6. Held' \subseteq Held \cup {f}
  <2>1. \A t \in Syncers : job'[t].seen = job[t].seen
    BY <1>4, <1>5
  <2>2. ASSUME NEW c \in Held' PROVE c \in Held \cup {f}
    <3>1. CASE c \in comments'
      BY <1>1, <3>1 DEF Held, Everywhere
    <3>2. ASSUME NEW t \in Syncers, c \in writes'[t].comments \/ c \in job'[t].seen
          PROVE  c \in Held \cup {f}
      BY <1>5, <2>1, <3>2 DEF Held, Everywhere
    <3> QED BY <2>2, <3>1, <3>2 DEF Held, Everywhere
  <2> QED BY <2>2
<1>7. AnyRows' \subseteq AnyRows \cup {e}
  <2>1. ASSUME NEW r \in AnyRows' PROVE r \in AnyRows \cup {e}
    <3>1. CASE r \in rows'
      BY <1>1, <3>1 DEF AnyRows
    <3>2. ASSUME NEW t \in Syncers, r \in writes'[t].rows
          PROVE  r \in AnyRows \cup {e}
      BY <1>5, <3>2 DEF AnyRows
    <3> QED BY <2>1, <3>1, <3>2 DEF AnyRows
  <2> QED BY <2>1
<1>8. lastId \in Nat /\ (\A c \in Held : c.id \in Nat) /\ \A r \in AnyRows : r.cid \in Nat
  BY HeldType DEF Comment, MapRow
<1>9. HeldOnce'
  BY <1>1, <1>2, <1>6, <1>8 DEF PairInv, HeldOnce
<1>10. ASSUME NEW r \in AnyRows PROVE Pairs(r)'
  <2>1. Pairs(r) /\ r.cid # f.id /\ r.cid <= lastId'
    BY <1>1, <1>2, <1>8 DEF PairInv, Pairs
  <2> QED BY <1>1, <1>6, <2>1 DEF Pairs
<1>11. Pairs(e)'
  <2>1. ASSUME NEW c \in Held', c.id = e.cid PROVE c = f
    BY <1>2, <1>6, <1>8, <2>1 DEF PairInv, HeldOnce
  <2> QED BY <1>1, <1>2, <1>3, <1>8, <2>1 DEF Pairs
<1>12. PlaneKept
  BY <1>1 DEF PlaneKept
<1>13. \A t \in Syncers : Answered(t)'
  BY <1>1, <1>5, <1>12, AnswerStays
<1> QED BY <1>7, <1>9, <1>10, <1>11, <1>13 DEF PairInv

LEMMA StoreLinkPairs ==
  ASSUME TypeInv, PairInv, NEW s \in Syncers, StoreLink(s)
  PROVE  PairInv'
<1> DEFINE j == [NoJob EXCEPT !.queue = job[s].queue]
<1>1. /\ job' = [job EXCEPT ![s] = j] /\ Goto(s, "next")
      /\ UNCHANGED <<comments, rows, lastId, plane>>
  BY DEF StoreLink, database
<1>2. j.seen = {}
  BY DEF NoJob
<1> HIDE DEF j
<1>3. \A t \in Syncers : /\ pc'[t] = IF t = s THEN "next" ELSE pc[t]
                         /\ job'[t] = IF t = s THEN j ELSE job[t]
                         /\ writes'[t].comments = writes[t].comments
                         /\ writes'[t].rows = writes[t].rows
  BY <1>1 DEF StoreLink, Goto, TypeInv, TypeOK, Writes
<1>4. Held' \subseteq Held
  <2>1. \A t \in Syncers : job'[t].seen \subseteq job[t].seen
    BY <1>2, <1>3
  <2> QED BY <1>1, <1>3, <2>1 DEF Held, Everywhere
<1>5. AnyRows' = AnyRows
  BY <1>1, <1>3 DEF AnyRows
<1>6. PlaneKept
  BY <1>1 DEF PlaneKept
<1>7. \A t \in Syncers : Answered(t)'
  BY <1>3, <1>6, AnswerStays
<1> QED BY <1>1, <1>4, <1>5, <1>6, <1>7, PairsStay DEF PairInv

\* What a transaction held is in the tables after its commit, and nowhere after
\* a roll back.
LEMMA EndPairs ==
  ASSUME TypeInv, PairInv, NEW s \in Syncers, Commit(s) \/ Panic(s) \/ Crash(s)
  PROVE  PairInv'
<1>1. /\ Reset(s) /\ UNCHANGED <<lastId, plane>>
      /\ comments' \subseteq comments \cup writes[s].comments
      /\ rows' \subseteq rows \cup writes[s].rows
  BY DEF Commit, Panic, Crash, database, members
<1>2. \A t \in Syncers : /\ pc'[t] = IF t = s THEN "idle" ELSE pc[t]
                         /\ job'[t] = IF t = s THEN NoJob ELSE job[t]
                         /\ writes'[t] = IF t = s THEN NoWrites ELSE writes[t]
  BY <1>1 DEF Reset, Goto, TypeInv, TypeOK
<1>3. /\ \A t \in Syncers : /\ job'[t].seen \subseteq job[t].seen
                            /\ writes'[t].comments \subseteq writes[t].comments
                            /\ writes'[t].rows \subseteq writes[t].rows
  BY <1>2 DEF NoJob, NoWrites
<1>4. Held' \subseteq Held
  BY <1>1, <1>3 DEF Held, Everywhere
<1>5. AnyRows' \subseteq AnyRows
  BY <1>1, <1>3 DEF AnyRows
<1>6. PlaneKept
  BY <1>1 DEF PlaneKept
<1>7. \A t \in Syncers : Answered(t)'
  BY <1>2, <1>6, AnswerStays
<1> QED BY <1>1, <1>4, <1>5, <1>6, <1>7, PairsStay DEF PairInv

LEMMA OtherPairs ==
  ASSUME TypeInv, PairInv, NEW s \in Syncers,
         \/ \E q \in SUBSET links : Begin(s, q)
         \/ \E l \in job[s].queue : ReadRows(s, l) \/ NoConnection(s, l)
         \/ ReadComments(s) \/ ListItem(s) \/ ListFails(s)
         \/ \E c \in job[s].seen : PushRefused(s, c) \/ PushLost(s, c)
         \/ \E p \in job[s].listed : PullRejected(s, p)
  PROVE  PairInv'
<1>1. job[s] \in Job /\ job[s].seen \subseteq Held
  BY DEF TypeInv, TypeOK, Held
<1>2. ASSUME NEW q \in SUBSET links, Begin(s, q) PROVE PairInv'
  <2> DEFINE j == [NoJob EXCEPT !.queue = q]
  <2>1. /\ job' = [job EXCEPT ![s] = j] /\ Goto(s, "next") /\ PlaneKept
        /\ UNCHANGED <<comments, rows, lastId, writes>>
    BY <1>2 DEF Begin, database, PlaneKept
  <2>2. j.seen = {}
    BY DEF NoJob
  <2> HIDE DEF j
  <2> QED BY <2>1, <2>2, StepPairs
<1>3. ASSUME NEW l \in job[s].queue, ReadRows(s, l) \/ NoConnection(s, l)
      PROVE  PairInv'
  <2>1. PICK failed : OnLink(s, l, failed)
    BY <1>3 DEF ReadRows, NoConnection
  <2>2. PICK ph \in {"read", "store"} : Goto(s, ph)
    BY <1>3 DEF ReadRows, NoConnection
  <2> DEFINE j == [NoJob EXCEPT !.queue = job[s].queue \ {l}, !.link = l,
                     !.known = IF failed THEN {} ELSE RowsOf(s, l), !.failed = failed]
  <2>3. /\ job' = [job EXCEPT ![s] = j] /\ PlaneKept
        /\ UNCHANGED <<comments, rows, lastId, writes>>
    BY <1>3, <2>1 DEF OnLink, ReadRows, NoConnection, database, PlaneKept
  <2>4. j.seen = {}
    BY DEF NoJob
  <2> HIDE DEF j
  <2> QED BY <2>2, <2>3, <2>4, StepPairs
<1>4. CASE ReadComments(s)
  <2> DEFINE j == [job[s] EXCEPT !.seen = CommentsOf(s, job[s].link.card)]
  <2>1. /\ job' = [job EXCEPT ![s] = j] /\ Goto(s, "push") /\ PlaneKept
        /\ UNCHANGED <<comments, rows, lastId, writes>>
    BY <1>4 DEF ReadComments, database, PlaneKept
  <2>2. j.seen \subseteq Held
    BY <1>1 DEF Job, CommentsOf, Held, Everywhere
  <2> HIDE DEF j
  <2> QED BY <2>1, <2>2, StepPairs
<1>5. CASE ListItem(s)
  <2> DEFINE j == [job[s] EXCEPT !.listed = ListedIn(job[s].link.item), !.at = 0]
  <2>1. /\ job' = [job EXCEPT ![s] = j] /\ Goto(s, "pull") /\ PlaneKept
        /\ UNCHANGED <<comments, rows, lastId, writes>>
    BY <1>5 DEF ListItem, database, PlaneKept
  <2>2. j.seen \subseteq Held
    BY <1>1 DEF Job
  <2> HIDE DEF j
  <2> QED BY <2>1, <2>2, StepPairs
<1>6. ASSUME \/ ListFails(s) \/ \E p \in job[s].listed : PullRejected(s, p) PROVE PairInv'
  <2> DEFINE j == [job[s] EXCEPT !.failed = TRUE]
  <2>1. /\ job' = [job EXCEPT ![s] = j] /\ Goto(s, "store") /\ PlaneKept
        /\ UNCHANGED <<comments, rows, lastId, writes>>
    BY <1>6 DEF ListFails, PullRejected, database, PlaneKept
  <2>2. j.seen \subseteq Held
    BY <1>1 DEF Job
  <2> HIDE DEF j
  <2> QED BY <2>1, <2>2, StepPairs
<1>7. ASSUME NEW c \in job[s].seen, PushRefused(s, c) \/ PushLost(s, c) PROVE PairInv'
  <2> DEFINE j == [job[s] EXCEPT !.failed = TRUE, !.at = c.id]
  <2>1. /\ job' = [job EXCEPT ![s] = j] /\ pc' = pc /\ pc[s] = "push"
        /\ UNCHANGED <<comments, rows, lastId, writes>>
    BY <1>7 DEF PushRefused, PushLost, SkipPush, database
  <2>2. Goto(s, "push")
    BY <2>1 DEF Goto, TypeInv, TypeOK
  <2>3. PlaneKept
    <3>1. CASE PushRefused(s, c)
      BY <3>1 DEF PushRefused, PlaneKept
    <3>2. CASE PushLost(s, c)
      BY <3>2, AppendKeeps DEF PushLost, PlaneAccepts
    <3> QED BY <1>7, <3>1, <3>2
  <2>4. j.seen \subseteq Held
    BY <1>1 DEF Job
  <2> HIDE DEF j
  <2> QED BY <2>1, <2>2, <2>3, <2>4, StepPairs
<1> QED BY <1>2, <1>3, <1>4, <1>5, <1>6, <1>7

LEMMA NextPairs == TypeInv /\ PairInv /\ [Next]_vars => PairInv'
<1> SUFFICES ASSUME TypeInv, PairInv, [Next]_vars PROVE PairInv'
  OBVIOUS
<1>1. CASE UNCHANGED vars
  <2>1. PlaneKept /\ UNCHANGED <<comments, rows, lastId, syncer>>
    BY <1>1 DEF PlaneKept, vars, database
  <2> QED BY <2>1, QuietPairs
<1>2. CASE MemberStep
  BY <1>2, MemberPairs
<1>3. ASSUME NEW s \in Syncers, \E q \in SUBSET links : Begin(s, q) PROVE PairInv'
  BY <1>3, OtherPairs
<1>4. ASSUME NEW s \in Syncers, Progress(s) PROVE PairInv'
  <2> HIDE DEF PairInv
  <2> QED BY <1>4, OtherPairs, PushPairs, RecordPushPairs, PullPairs, StoreLinkPairs,
       EndPairs DEF Progress
<1>5. ASSUME NEW s \in Syncers, Crash(s) PROVE PairInv'
  BY <1>5, EndPairs
<1> QED BY <1>1, <1>2, <1>3, <1>4, <1>5 DEF Next

\* Ids are held once, by committed or uncommitted rows, and every map row, and
\* every answer of Plane still to be recorded, belongs to the comment pushed.
THEOREM PairInvariant == Spec => []PairInv
<1>1. Init => PairInv
  BY InitPairs
<1> QED BY <1>1, NextPairs, TypeInvariant, PTL DEF Spec

\* A map row always pairs two copies of one comment, for any number of syncers:
\* no answer of Plane is recorded for another comment, no id is used again.
THEOREM RowsPair == Spec => []RowsPairCopies
<1>1. PairInv => RowsPairCopies
  BY DEF PairInv, Pairs, AnyRows, Held, Everywhere, RowsPairCopies
<1> QED BY <1>1, PairInvariant, PTL

-----------------------------------------------------------------------------
(* An "ok" is honest: PairInv and Accounted are inductive together.        *)

Mapped(s) == rows \cup writes[s].rows
IsPushed(s, c) == \E r \in Mapped(s) : r.link = job[s].link.id /\ r.cid = c.id
IsPulled(s, p) == \E r \in Mapped(s) : r.pid = p

\* What s has read is mapped or still before it, unless it will report an error.
AccountedBy(s) ==
  /\ \A r \in job[s].known : r \in Mapped(s) /\ r.link = job[s].link.id
  /\ pc[s] = "read" => job[s].at = 0
  /\ pc[s] = "store" => job[s].failed
  /\ pc[s] \in {"push", "record"} /\ ~job[s].failed =>
       \A c \in job[s].seen : c \in Unpushed(s) \/ IsPushed(s, c)
  /\ pc[s] = "pull" /\ ~job[s].failed =>
       /\ \A c \in job[s].seen : IsPushed(s, c)
       /\ \A p \in job[s].listed : p \in Unpulled(s) \/ IsPulled(s, p)

Accounted == \A s \in Syncers : AccountedBy(s)

LEMMA InitAccounted == Init => Accounted
BY DEF Init, Accounted, AccountedBy, NoJob

\* The rows of a syncer that does not move only become more.
LEMMA AccountStays ==
  ASSUME Accounted, NEW s \in Syncers, rows \subseteq rows',
         pc'[s] = pc[s], job'[s] = job[s], writes[s].rows \subseteq writes'[s].rows
  PROVE  AccountedBy(s)'
<1>1. AccountedBy(s) /\ Mapped(s) \subseteq Mapped(s)'
  BY DEF Accounted, Mapped
<1>2. Unpushed(s)' = Unpushed(s) /\ Unpulled(s)' = Unpulled(s)
  BY DEF Unpushed, Unpulled, MappedLocals, MappedPlane
<1>3. ASSUME NEW c, IsPushed(s, c) PROVE IsPushed(s, c)'
  BY <1>1, <1>3 DEF IsPushed
<1>4. ASSUME NEW p, IsPulled(s, p) PROVE IsPulled(s, p)'
  BY <1>1, <1>4 DEF IsPulled
<1> HIDE DEF Mapped, IsPushed, IsPulled, Unpushed, Unpulled
<1> QED BY <1>1, <1>2, <1>3, <1>4 DEF AccountedBy

\* A step of s alone.
LEMMA StepAccounts ==
  ASSUME TypeInv, Accounted, NEW s \in Syncers, NEW j, NEW ph, NEW w,
         job' = [job EXCEPT ![s] = j], pc' = [pc EXCEPT ![s] = ph],
         writes' = [writes EXCEPT ![s] = w], rows \subseteq rows',
         AccountedBy(s)'
  PROVE  Accounted'
<1>1. \A t \in Syncers \ {s} : pc'[t] = pc[t] /\ job'[t] = job[t] /\ writes'[t] = writes[t]
  BY DEF TypeInv, TypeOK
<1>2. \A t \in Syncers \ {s} : AccountedBy(t)'
  BY <1>1, AccountStays
<1> QED BY <1>2 DEF Accounted

\* Before it has read anything a syncer has nothing to account for.
LEMMA FreshAccounts ==
  ASSUME TypeInv, Accounted, NEW s \in Syncers, NEW j, NEW ph, NEW w,
         job' = [job EXCEPT ![s] = j], pc' = [pc EXCEPT ![s] = ph],
         writes' = [writes EXCEPT ![s] = w], rows \subseteq rows',
         ph \in {"idle", "next"}, j.known = {}
  PROVE  Accounted'
<1>1. pc'[s] = ph /\ job'[s] = j
  BY DEF TypeInv, TypeOK
<1>2. AccountedBy(s)'
  BY <1>1 DEF AccountedBy
<1> QED BY <1>2, StepAccounts

LEMMA QuietAccounts ==
  ASSUME Accounted, rows \subseteq rows', UNCHANGED syncer
  PROVE  Accounted'
BY AccountStays DEF Accounted, syncer

LEMMA ReadAccounts ==
  ASSUME TypeInv, Accounted, NEW s \in Syncers, NEW l \in job[s].queue,
         ReadRows(s, l) \/ NoConnection(s, l)
  PROVE  Accounted'
<1>1. PICK failed \in BOOLEAN :
        /\ OnLink(s, l, failed) /\ Goto(s, IF failed THEN "store" ELSE "read")
        /\ UNCHANGED <<rows, writes>>
  BY DEF ReadRows, NoConnection, database
<1> DEFINE j == [NoJob EXCEPT !.queue = job[s].queue \ {l}, !.link = l,
                   !.known = IF failed THEN {} ELSE RowsOf(s, l), !.failed = failed]
           ph == IF failed THEN "store" ELSE "read"
<1>2. /\ j.link = l /\ j.at = 0 /\ j.failed = failed
      /\ j.known = IF failed THEN {} ELSE RowsOf(s, l)
  BY DEF NoJob
<1>3. job' = [job EXCEPT ![s] = j] /\ pc' = [pc EXCEPT ![s] = ph]
  BY <1>1 DEF OnLink, Goto
<1> HIDE DEF j
<1>4. job'[s] = j /\ pc'[s] = ph /\ writes' = [writes EXCEPT ![s] = writes[s]]
  BY <1>1, <1>3 DEF TypeInv, TypeOK
<1>5. Mapped(s)' = rows \cup writes[s].rows
  BY <1>1 DEF Mapped
<1>6. AccountedBy(s)'
  BY <1>2, <1>4, <1>5 DEF AccountedBy, RowsOf
<1> QED BY <1>1, <1>3, <1>4, <1>6, StepAccounts

LEMMA ReadCommentsAccounts ==
  ASSUME TypeInv, PairInv, Accounted, NEW s \in Syncers, ReadComments(s)
  PROVE  Accounted'
<1> DEFINE j == [job[s] EXCEPT !.seen = CommentsOf(s, job[s].link.card)]
<1>1. /\ job' = [job EXCEPT ![s] = j] /\ pc' = [pc EXCEPT ![s] = "push"]
      /\ UNCHANGED <<rows, writes>> /\ pc[s] = "read"
  BY DEF ReadComments, Goto, database
<1>2. /\ j.known = job[s].known /\ j.link = job[s].link /\ j.at = job[s].at
      /\ j.seen = CommentsOf(s, job[s].link.card)
  BY DEF TypeInv, TypeOK, Job
<1> HIDE DEF j
<1>3. job'[s] = j /\ pc'[s] = "push" /\ writes' = [writes EXCEPT ![s] = writes[s]]
  BY <1>1 DEF TypeInv, TypeOK
<1>4. AccountedBy(s) /\ Mapped(s)' = Mapped(s)
  BY <1>1 DEF Accounted, Mapped
<1>5. ASSUME NEW c \in j.seen PROVE c \in Unpushed(s)' \/ IsPushed(s, c)'
  <2>1. c.id > 0
    BY <1>2, <1>5 DEF CommentsOf, Held, Everywhere, PairInv, HeldOnce
  <2>2. CASE \E r \in job[s].known : r.cid = c.id
    BY <1>2, <1>3, <1>4, <2>2 DEF AccountedBy, IsPushed
  <2>3. CASE \A r \in job[s].known : r.cid # c.id
    BY <1>1, <1>2, <1>3, <1>4, <1>5, <2>1, <2>3 DEF AccountedBy, Unpushed, MappedLocals
  <2> QED BY <2>2, <2>3
<1>6. AccountedBy(s)'
  BY <1>2, <1>3, <1>4, <1>5 DEF AccountedBy
<1> QED BY <1>1, <1>3, <1>6, StepAccounts

LEMMA PushAccounts ==
  ASSUME TypeInv, Accounted, NEW s \in Syncers, NEW c \in job[s].seen, Push(s, c)
  PROVE  Accounted'
<1> DEFINE j == [job[s] EXCEPT !.pid = Len(plane) + 1]
<1>1. /\ job' = [job EXCEPT ![s] = j] /\ pc' = [pc EXCEPT ![s] = "record"]
      /\ UNCHANGED <<rows, writes>> /\ pc[s] = "push"
  BY DEF Push, Goto, database
<1>2. /\ j.known = job[s].known /\ j.link = job[s].link /\ j.at = job[s].at
      /\ j.seen = job[s].seen /\ j.failed = job[s].failed
  BY DEF TypeInv, TypeOK, Job
<1> HIDE DEF j
<1>3. job'[s] = j /\ pc'[s] = "record" /\ writes' = [writes EXCEPT ![s] = writes[s]]
  BY <1>1 DEF TypeInv, TypeOK
<1>4. AccountedBy(s) /\ Mapped(s)' = Mapped(s)
  BY <1>1 DEF Accounted, Mapped
<1>5. Unpushed(s)' = Unpushed(s) /\ \A d : IsPushed(s, d)' = IsPushed(s, d)
  BY <1>2, <1>3, <1>4 DEF Unpushed, MappedLocals, IsPushed
<1>6. AccountedBy(s)'
  <2> HIDE DEF Unpushed, IsPushed
  <2> QED BY <1>1, <1>2, <1>3, <1>4, <1>5 DEF AccountedBy
<1> QED BY <1>1, <1>3, <1>6, StepAccounts

LEMMA FailAccounts ==
  ASSUME TypeInv, Accounted, NEW s \in Syncers,
         \/ ListFails(s)
         \/ \E c \in job[s].seen : PushRefused(s, c) \/ PushLost(s, c)
         \/ \E p \in job[s].listed : PullRejected(s, p)
  PROVE  Accounted'
<1>1. PICK at \in Nat, ph \in {"push", "store"} :
        /\ job' = [job EXCEPT ![s] = [job[s] EXCEPT !.failed = TRUE, !.at = at]]
        /\ pc' = [pc EXCEPT ![s] = ph] /\ UNCHANGED <<rows, writes>>
  <2>1. ASSUME ListFails(s) \/ \E p \in job[s].listed : PullRejected(s, p)
        PROVE  /\ job' = [job EXCEPT ![s] = [job[s] EXCEPT !.failed = TRUE, !.at = job[s].at]]
               /\ pc' = [pc EXCEPT ![s] = "store"] /\ UNCHANGED <<rows, writes>>
    <3>1. [job[s] EXCEPT !.failed = TRUE] =
            [job[s] EXCEPT !.failed = TRUE, !.at = job[s].at]
      BY DEF TypeInv, TypeOK, Job
    <3> QED BY <2>1, <3>1 DEF ListFails, PullRejected, Goto, database
  <2>2. ASSUME NEW c \in job[s].seen, PushRefused(s, c) \/ PushLost(s, c)
        PROVE  /\ job' = [job EXCEPT ![s] = [job[s] EXCEPT !.failed = TRUE, !.at = c.id]]
               /\ pc' = [pc EXCEPT ![s] = "push"] /\ UNCHANGED <<rows, writes>>
    BY <2>2 DEF PushRefused, PushLost, SkipPush, database, TypeInv, TypeOK
  <2>3. job[s].at \in Nat /\ \A c \in job[s].seen : c.id \in Nat
    BY DEF TypeInv, TypeOK, Job, Comment
  <2> QED BY <2>1, <2>2, <2>3
<1> DEFINE j == [job[s] EXCEPT !.failed = TRUE, !.at = at]
<1>2. j.failed = TRUE /\ j.known = job[s].known /\ j.link = job[s].link
  BY DEF TypeInv, TypeOK, Job
<1>3. job' = [job EXCEPT ![s] = j]
  BY <1>1
<1> HIDE DEF j
<1>4. job'[s] = j /\ pc'[s] = ph /\ writes' = [writes EXCEPT ![s] = writes[s]]
  BY <1>1, <1>3 DEF TypeInv, TypeOK
<1>5. AccountedBy(s) /\ Mapped(s)' = Mapped(s)
  BY <1>1 DEF Accounted, Mapped
<1>6. AccountedBy(s)'
  BY <1>2, <1>4, <1>5 DEF AccountedBy
<1> QED BY <1>1, <1>3, <1>4, <1>6, StepAccounts

LEMMA RecordPushAccounts ==
  ASSUME TypeInv, PairInv, Accounted, NEW s \in Syncers, NEW c \in job[s].seen,
         RecordPush(s, c)
  PROVE  Accounted'
<1> PICK e : e = PushedRow(s, c)
  OBVIOUS
<1> DEFINE j == [job[s] EXCEPT !.at = c.id, !.known = @ \cup {e}]
           w == [writes[s] EXCEPT !.rows = @ \cup {e}]
<1>1. /\ job' = [job EXCEPT ![s] = j] /\ pc' = [pc EXCEPT ![s] = "push"]
      /\ writes' = [writes EXCEPT ![s] = w] /\ UNCHANGED rows
      /\ pc[s] = "record" /\ NextPush(s, c)
  BY DEF RecordPush, Goto, database
<1>2. /\ j.known = job[s].known \cup {e} /\ j.link = job[s].link /\ j.at = c.id
      /\ j.seen = job[s].seen /\ j.failed = job[s].failed
      /\ w.rows = writes[s].rows \cup {e}
      /\ e.link = job[s].link.id /\ e.cid = c.id
  BY DEF TypeInv, TypeOK, Job, Writes, PushedRow
<1> HIDE DEF j, w
<1>3. job'[s] = j /\ pc'[s] = "push" /\ writes'[s] = w
  BY <1>1 DEF TypeInv, TypeOK
<1>4. AccountedBy(s) /\ Mapped(s)' = Mapped(s) \cup {e}
  BY <1>1, <1>2, <1>3 DEF Accounted, Mapped
<1>5. ASSUME NEW d \in job[s].seen, d \in Unpushed(s) \/ IsPushed(s, d)
      PROVE  d \in Unpushed(s)' \/ IsPushed(s, d)'
  <2>1. CASE IsPushed(s, d)
    BY <1>2, <1>3, <1>4, <2>1 DEF IsPushed
  <2>2. CASE d.id = c.id
    BY <1>2, <1>3, <1>4, <2>2 DEF IsPushed
  <2>3. CASE d \in Unpushed(s) /\ d.id # c.id
    <3>1. c.id <= d.id /\ c.id \in Nat /\ d.id \in Nat
      <4>1. c \in Held /\ d \in Held
        BY <1>5 DEF Held
      <4> QED BY <1>1, <2>3, <4>1, HeldType DEF NextPush, Comment
    <3>2. d.id > c.id /\ \A r \in job[s].known : r.cid # d.id
      BY <2>3, <3>1 DEF Unpushed, MappedLocals
    <3> QED BY <1>2, <1>3, <1>5, <2>3, <3>2 DEF Unpushed, MappedLocals
  <2> QED BY <1>5, <2>1, <2>2, <2>3
<1>6. AccountedBy(s)'
  <2> HIDE DEF Unpushed, IsPushed
  <2> QED BY <1>1, <1>2, <1>3, <1>4, <1>5 DEF AccountedBy
<1> QED BY <1>1, <1>6, StepAccounts

LEMMA ListAccounts ==
  ASSUME TypeInv, Accounted, NEW s \in Syncers, ListItem(s)
  PROVE  Accounted'
<1> DEFINE j == [job[s] EXCEPT !.listed = ListedIn(job[s].link.item), !.at = 0]
<1>1. /\ job' = [job EXCEPT ![s] = j] /\ pc' = [pc EXCEPT ![s] = "pull"]
      /\ UNCHANGED <<rows, writes>> /\ pc[s] = "push" /\ Unpushed(s) = {}
  BY DEF ListItem, Goto, database
<1>2. /\ j.known = job[s].known /\ j.link = job[s].link /\ j.at = 0
      /\ j.seen = job[s].seen /\ j.failed = job[s].failed
      /\ j.listed = ListedIn(job[s].link.item)
  BY DEF TypeInv, TypeOK, Job
<1> HIDE DEF j
<1>3. job'[s] = j /\ pc'[s] = "pull" /\ writes' = [writes EXCEPT ![s] = writes[s]]
  BY <1>1 DEF TypeInv, TypeOK
<1>4. AccountedBy(s) /\ Mapped(s)' = Mapped(s)
  BY <1>1 DEF Accounted, Mapped
<1>5. \A d : IsPushed(s, d)' = IsPushed(s, d)
  BY <1>2, <1>3, <1>4 DEF IsPushed
<1>6. ASSUME NEW p \in j.listed PROVE p \in Unpulled(s)' \/ IsPulled(s, p)'
  <2>1. p > 0
    BY <1>2, <1>6 DEF ListedIn, TypeInv, TypeOK
  <2>2. CASE \E r \in job[s].known : r.pid = p
    BY <1>4, <2>2 DEF AccountedBy, IsPulled
  <2>3. CASE \A r \in job[s].known : r.pid # p
    BY <1>2, <1>3, <1>6, <2>1, <2>3 DEF Unpulled, MappedPlane
  <2> QED BY <2>2, <2>3
<1>7. AccountedBy(s)'
  <2> HIDE DEF Unpulled, IsPulled, IsPushed
  <2> QED BY <1>1, <1>2, <1>3, <1>4, <1>5, <1>6 DEF AccountedBy
<1> QED BY <1>1, <1>3, <1>7, StepAccounts

LEMMA PullAccounts ==
  ASSUME TypeInv, Accounted, NEW s \in Syncers, NEW p \in job[s].listed, Pull(s, p)
  PROVE  Accounted'
<1> PICK e, f : e = PulledRow(s, p) /\ f = PulledComment(s, p)
  OBVIOUS
<1> DEFINE j == [job[s] EXCEPT !.at = p]
           w == [writes[s] EXCEPT !.comments = @ \cup {f}, !.rows = @ \cup {e}]
<1>1. /\ job' = [job EXCEPT ![s] = j]
      /\ UNCHANGED <<rows, pc>> /\ pc[s] = "pull" /\ NextPull(s, p)
  BY DEF Pull, database
<1>2. /\ j.known = job[s].known /\ j.link = job[s].link /\ j.at = p
      /\ j.seen = job[s].seen /\ j.failed = job[s].failed /\ j.listed = job[s].listed
      /\ w.rows = writes[s].rows \cup {e} /\ e.pid = p
      /\ job[s].listed \subseteq Nat
  BY DEF TypeInv, TypeOK, Job, Writes, PulledRow
<1>3. writes' = [writes EXCEPT ![s] = w]
  BY DEF Pull, TypeInv, TypeOK, Writes
<1> HIDE DEF j, w
<1>4. /\ job'[s] = j /\ pc'[s] = "pull" /\ writes'[s] = w
      /\ pc' = [pc EXCEPT ![s] = "pull"]
  BY <1>1, <1>3 DEF TypeInv, TypeOK
<1>5. AccountedBy(s) /\ Mapped(s)' = Mapped(s) \cup {e}
  BY <1>1, <1>2, <1>4 DEF Accounted, Mapped
<1>6. ASSUME NEW d, IsPushed(s, d) PROVE IsPushed(s, d)'
  BY <1>2, <1>4, <1>5, <1>6 DEF IsPushed
<1>7. ASSUME NEW q \in job[s].listed, q \in Unpulled(s) \/ IsPulled(s, q)
      PROVE  q \in Unpulled(s)' \/ IsPulled(s, q)'
  <2>1. CASE IsPulled(s, q) \/ q = p
    BY <1>2, <1>5, <2>1 DEF IsPulled
  <2>2. CASE q \in Unpulled(s) /\ q # p
    <3>1. q > p /\ q \notin MappedPlane(s)
      BY <1>1, <1>2, <2>2 DEF NextPull, Unpulled
    <3> QED BY <1>2, <1>4, <1>7, <3>1 DEF Unpulled, MappedPlane
  <2> QED BY <1>7, <2>1, <2>2
<1>8. AccountedBy(s)'
  <2> HIDE DEF Unpulled, IsPulled, IsPushed
  <2> QED BY <1>1, <1>2, <1>4, <1>5, <1>6, <1>7 DEF AccountedBy
<1> QED BY <1>1, <1>3, <1>4, <1>8, StepAccounts

LEMMA EndAccounts ==
  ASSUME TypeInv, Accounted, NEW s \in Syncers,
         \/ \E q \in SUBSET links : Begin(s, q)
         \/ StoreLink(s) \/ Commit(s) \/ Panic(s) \/ Crash(s)
  PROVE  Accounted'
<1>1. ASSUME NEW q \in SUBSET links, Begin(s, q) PROVE Accounted'
  <2> DEFINE j == [NoJob EXCEPT !.queue = q]
  <2>1. /\ job' = [job EXCEPT ![s] = j] /\ pc' = [pc EXCEPT ![s] = "next"]
        /\ writes' = [writes EXCEPT ![s] = writes[s]] /\ rows' = rows
    BY <1>1 DEF Begin, Goto, database, TypeInv, TypeOK
  <2>2. j.known = {}
    BY DEF NoJob
  <2> HIDE DEF j
  <2> QED BY <2>1, <2>2, FreshAccounts
<1>2. CASE StoreLink(s)
  <2> DEFINE j == [NoJob EXCEPT !.queue = job[s].queue]
             w == [writes[s] EXCEPT !.links = @ \cup {Outcome(s)}]
  <2>1. /\ job' = [job EXCEPT ![s] = j] /\ pc' = [pc EXCEPT ![s] = "next"]
        /\ writes' = [writes EXCEPT ![s] = w] /\ rows' = rows
    BY <1>2 DEF StoreLink, Goto, database
  <2>2. j.known = {}
    BY DEF NoJob
  <2> HIDE DEF j, w
  <2> QED BY <2>1, <2>2, FreshAccounts
<1>3. CASE Commit(s) \/ Panic(s) \/ Crash(s)
  <2>1. Reset(s) /\ rows \subseteq rows'
    BY <1>3 DEF Commit, Panic, Crash, database
  <2>2. NoJob.known = {}
    BY DEF NoJob
  <2> QED BY <2>1, <2>2, FreshAccounts DEF Reset, Goto
<1> QED BY <1>1, <1>2, <1>3

LEMMA NextAccounted == TypeInv /\ PairInv /\ Accounted /\ [Next]_vars => Accounted'
<1> SUFFICES ASSUME TypeInv, PairInv, Accounted, [Next]_vars PROVE Accounted'
  OBVIOUS
<1>1. CASE UNCHANGED vars
  BY <1>1, QuietAccounts DEF vars, database
<1>2. CASE MemberStep
  <2>1. rows' = rows /\ UNCHANGED syncer
    BY <1>2 DEF MemberStep, WriteComment, DeleteComment, DeleteCard, LinkCard, UnlinkCard,
       WriteInPlane, database
  <2> QED BY <2>1, QuietAccounts
<1>3. ASSUME NEW s \in Syncers, \E q \in SUBSET links : Begin(s, q) PROVE Accounted'
  BY <1>3, EndAccounts
<1>4. ASSUME NEW s \in Syncers, Progress(s) PROVE Accounted'
  BY <1>4, ReadAccounts, ReadCommentsAccounts, PushAccounts, FailAccounts,
     RecordPushAccounts, ListAccounts, PullAccounts, EndAccounts DEF Progress
<1>5. ASSUME NEW s \in Syncers, Crash(s) PROVE Accounted'
  BY <1>5, EndAccounts
<1> QED BY <1>1, <1>2, <1>3, <1>4, <1>5 DEF Next

LEMMA OnlyStoreLink ==
  ASSUME TypeInv, [Next]_vars, NEW s \in Syncers, NEW l \in writes'[s].links \ writes[s].links
  PROVE  StoreLink(s)
<1>1. ASSUME NEW t \in Syncers,
             \/ \E q \in SUBSET links : Begin(t, q)
             \/ \E k \in job[t].queue : ReadRows(t, k) \/ NoConnection(t, k)
             \/ ReadComments(t) \/ ListItem(t) \/ ListFails(t)
             \/ \E c \in job[t].seen : Push(t, c) \/ PushRefused(t, c) \/ PushLost(t, c)
             \/ \E p \in job[t].listed : PullRejected(t, p)
      PROVE  FALSE
  <2>1. writes' = writes
    BY <1>1 DEF Begin, ReadRows, NoConnection, ReadComments, ListItem, ListFails, Push,
       PushRefused, PushLost, PullRejected
  <2> QED BY <2>1
<1>2. ASSUME NEW t \in Syncers, Commit(t) \/ Panic(t) \/ Crash(t) PROVE FALSE
  <2>1. writes' = [writes EXCEPT ![t] = NoWrites]
    BY <1>2 DEF Commit, Panic, Crash, Reset
  <2> QED BY <2>1 DEF TypeInv, TypeOK, NoWrites
<1>3. ASSUME NEW t \in Syncers,
             \/ \E c \in job[t].seen : RecordPush(t, c)
             \/ \E p \in job[t].listed : Pull(t, p)
      PROVE  FALSE
  <2>1. writes[s].links = writes'[s].links
    <3>1. ASSUME NEW c \in job[t].seen, RecordPush(t, c)
          PROVE  writes[s].links = writes'[s].links
      BY <3>1 DEF RecordPush, TypeInv, TypeOK, Writes
    <3>2. ASSUME NEW p \in job[t].listed, Pull(t, p)
          PROVE  writes[s].links = writes'[s].links
      BY <3>2 DEF Pull, TypeInv, TypeOK, Writes
    <3> QED BY <1>3, <3>1, <3>2
  <2> QED BY <2>1
<1>4. ASSUME NEW t \in Syncers \ {s}, StoreLink(t) PROVE FALSE
  BY <1>4 DEF StoreLink, TypeInv, TypeOK
<1>5. CASE UNCHANGED vars
  BY <1>5 DEF vars, syncer
<1>6. CASE MemberStep
  <2>1. writes' = writes
    BY <1>6 DEF MemberStep, WriteComment, DeleteComment, DeleteCard, LinkCard, UnlinkCard,
       WriteInPlane, syncer
  <2> QED BY <2>1
<1> QED BY <1>1, <1>2, <1>3, <1>4, <1>5, <1>6 DEF Next, Progress

\* "ok" is written into a link only by a run that has mapped each comment it read
\* on either side, whatever others committed, failed or removed meanwhile.
THEOREM HonestOk == Spec => OkIsHonest
<1> DEFINE A == \A s \in Syncers : \A l \in writes'[s].links \ writes[s].links :
                  l.status = "ok" =>
                    LET mapped == rows \cup writes'[s].rows IN
                    /\ \A c \in job[s].seen :
                         \E r \in mapped : r.link = l.id /\ r.cid = c.id
                    /\ \A p \in job[s].listed : \E r \in mapped : r.pid = p
<1>1. TypeInv /\ Accounted /\ [Next]_vars => [A]_vars
  <2> SUFFICES ASSUME TypeInv, Accounted, [Next]_vars, NEW s \in Syncers,
                      NEW l \in writes'[s].links \ writes[s].links, l.status = "ok"
               PROVE  LET mapped == rows \cup writes'[s].rows IN
                      /\ \A c \in job[s].seen :
                           \E r \in mapped : r.link = l.id /\ r.cid = c.id
                      /\ \A p \in job[s].listed : \E r \in mapped : r.pid = p
    OBVIOUS
  <2>1. StoreLink(s)
    BY OnlyStoreLink
  <2>2. l = Outcome(s) /\ writes'[s].rows = writes[s].rows
    BY <2>1 DEF StoreLink, TypeInv, TypeOK, Writes
  <2>3. l.id = job[s].link.id /\ ~job[s].failed
    <3>1. job[s].link \in LinkRow
      BY <2>1 DEF StoreLink, Storing, TypeInv, Working
    <3> QED BY <2>2, <3>1 DEF Outcome, LinkRow
  <2>4. pc[s] = "pull" /\ Unpulled(s) = {}
    BY <2>1, <2>3 DEF StoreLink, Storing, Accounted, AccountedBy
  <2>5. /\ \A c \in job[s].seen : IsPushed(s, c)
        /\ \A p \in job[s].listed : IsPulled(s, p)
    BY <2>3, <2>4 DEF Accounted, AccountedBy
  <2> QED BY <2>2, <2>3, <2>5 DEF IsPushed, IsPulled, Mapped
<1>2. Init => Accounted
  BY InitAccounted
<1> QED BY <1>1, <1>2, NextAccounted, PairInvariant, TypeInvariant, PTL DEF Spec, OkIsHonest

-----------------------------------------------------------------------------
(* Runs that wait for each other: somebody can always go on.               *)

\* The guards of Progress(s): s has a statement or a Plane request to make that
\* neither waits nor fails, or one that Postgres aborts.
CanGoOn(s) ==
  \/ pc[s] \in {"next", "read"}
  \/ pc[s] = "push" /\ (Unpushed(s) = {} \/ \E c \in job[s].seen : NextPush(s, c))
  \/ /\ pc[s] = "record" /\ \E c \in job[s].seen : NextPush(s, c)
     /\ ~Blocked(s) /\ ~Collides(s)
  \/ /\ pc[s] = "pull"
     /\ \E p \in job[s].listed :
          /\ NextPull(s, p)
          /\ Accepts(s, p) => ~Blocked(s) /\ ~Collides(s)
  \/ Storing(s) /\ ~Blocked(s) /\ ~Collides(s)
  \/ Collides(s) \/ Deadlocked(s)

\* Who waits for an answer has pushed something, and who is idle holds nothing.
AtWork ==
  \A s \in Syncers : /\ pc[s] = "record" => Unpushed(s) # {}
                     /\ pc[s] = "idle" => writes[s] = NoWrites

\* A syncer that does not move stays at work, or idle.
LEMMA StaysAtWork ==
  ASSUME TypeInv, AtWork, NEW s \in Syncers,
         \A t \in Syncers \ {s} : pc'[t] = pc[t] /\ job'[t] = job[t] /\ writes'[t] = writes[t],
         pc'[s] = "record" => Unpushed(s)' # {},
         pc'[s] = "idle" => writes'[s] = NoWrites
  PROVE  AtWork'
<1>1. ASSUME NEW t \in Syncers \ {s}
      PROVE  /\ pc'[t] = "record" => Unpushed(t)' # {}
             /\ pc'[t] = "idle" => writes'[t] = NoWrites
  BY <1>1 DEF AtWork, Unpushed, MappedLocals
<1> QED BY <1>1 DEF AtWork

LEMMA NextAtWork == TypeInv /\ AtWork /\ [Next]_vars => AtWork'
<1> SUFFICES ASSUME TypeInv, AtWork, [Next]_vars PROVE AtWork'
  OBVIOUS
<1>1. CASE UNCHANGED syncer
  BY <1>1 DEF AtWork, syncer, Unpushed, MappedLocals
<1>2. CASE UNCHANGED vars \/ MemberStep
  BY <1>1, <1>2 DEF vars, MemberStep, WriteComment, LinkCard, UnlinkCard, DeleteCard,
     DeleteComment, WriteInPlane
<1>3. ASSUME NEW s \in Syncers, NEW c \in job[s].seen, Push(s, c) PROVE AtWork'
  <2>1. /\ \A t \in Syncers \ {s} : pc'[t] = pc[t] /\ job'[t] = job[t] /\ writes'[t] = writes[t]
        /\ pc'[s] = "record" /\ NextPush(s, c)
        /\ job' = [job EXCEPT ![s].pid = Len(plane) + 1]
    BY <1>3 DEF Push, Goto, TypeInv, TypeOK
  <2>2. Unpushed(s)' = Unpushed(s)
    BY <2>1 DEF Unpushed, MappedLocals, TypeInv, TypeOK, Job
  <2> QED BY <2>1, <2>2, StaysAtWork DEF NextPush
<1>4. ASSUME NEW s \in Syncers,
             \/ \E q \in SUBSET links : Begin(s, q)
             \/ \E l \in job[s].queue : ReadRows(s, l) \/ NoConnection(s, l)
             \/ ReadComments(s) \/ ListItem(s) \/ ListFails(s) \/ StoreLink(s)
             \/ \E c \in job[s].seen : PushRefused(s, c) \/ PushLost(s, c) \/ RecordPush(s, c)
             \/ \E p \in job[s].listed : Pull(s, p) \/ PullRejected(s, p)
      PROVE  AtWork'
  <2>1. /\ \A t \in Syncers \ {s} : pc'[t] = pc[t] /\ job'[t] = job[t] /\ writes'[t] = writes[t]
        /\ pc'[s] \in {"next", "read", "push", "pull", "store"}
    BY <1>4 DEF Begin, ReadRows, NoConnection, OnLink, ReadComments, ListItem, ListFails,
       StoreLink, PushRefused, PushLost, SkipPush, RecordPush, Pull, PullRejected, Goto,
       TypeInv, TypeOK
  <2> QED BY <2>1, StaysAtWork
<1>5. ASSUME NEW s \in Syncers, Commit(s) \/ Panic(s) \/ Crash(s) PROVE AtWork'
  <2>1. /\ \A t \in Syncers \ {s} : pc'[t] = pc[t] /\ job'[t] = job[t] /\ writes'[t] = writes[t]
        /\ pc'[s] = "idle" /\ writes'[s] = NoWrites
    BY <1>5 DEF Commit, Panic, Crash, Reset, Goto, TypeInv, TypeOK
  <2> QED BY <2>1, StaysAtWork
<1> QED BY <1>2, <1>3, <1>4, <1>5 DEF Next, Progress

LEMMA LeastNumber ==
  ASSUME NEW S, S \subseteq Nat, S # {}
  PROVE  \E n \in S : \A m \in S : n <= m
<1> DEFINE R == {ss \in Nat \X Nat : ss[1] < ss[2]}
<1>1. IsWellFoundedOn(R, Nat)
  BY NatLessThanWellFounded DEF OpToRel
<1>2. PICK n \in S : \A m \in S : ~ (<<m, n>> \in R)
  BY <1>1, WFMin
<1>3. \A m \in S : m \in Nat /\ n \in Nat /\ ~ (m < n)
  BY <1>2
<1> QED BY <1>3

\* Where all the members of a set wait for members of it, some of them wait for each
\* other in the way that Postgres sees.
LEMMA WaitersDeadlock ==
  ASSUME IsFiniteSet(Syncers), NEW B, B \subseteq Syncers, B # {},
         \A s \in B : \E t \in B : Waits(s, t)
  PROVE  \E s \in B : Deadlocked(s)
<1> DEFINE Closed(T) == T # {} /\ T \subseteq B /\ \A s \in T : \E t \in T : Waits(s, t)
           Sizes == {Cardinality(T) : T \in {U \in SUBSET B : Closed(U)}}
<1>1. Closed(B)
  OBVIOUS
<1>2. \A T \in SUBSET B : IsFiniteSet(T) /\ Cardinality(T) \in Nat
  BY FS_Subset, FS_CardinalityType
<1>3. PICK n \in Sizes : \A m \in Sizes : n <= m
  <2>1. Sizes \subseteq Nat /\ Sizes # {}
    BY <1>1, <1>2
  <2> HIDE DEF Sizes
  <2> QED BY <2>1, LeastNumber
<1>4. PICK T \in SUBSET B : Closed(T) /\ Cardinality(T) = n
  OBVIOUS
<1>5. ASSUME NEW u \in T, \A t \in T : ~Waits(t, u) PROVE FALSE
  <2>1. Closed(T \ {u})
    <3>1. \A t \in T : \E v \in T : v # u /\ Waits(t, v)
      BY <1>4, <1>5
    <3>2. T \ {u} # {}
      BY <1>5, <3>1
    <3> QED BY <1>4, <3>1, <3>2
  <2>2. Cardinality(T \ {u}) \in Sizes
    BY <2>1
  <2>3. Cardinality(T \ {u}) = n - 1 /\ n \in Nat
    BY <1>2, <1>4, FS_RemoveElement
  <2> QED BY <1>3, <2>2, <2>3
<1>6. PICK s \in T : TRUE
  BY <1>4
<1>7. Deadlocked(s)
  BY <1>4, <1>5, <1>6 DEF Deadlocked
<1> QED BY <1>6, <1>7

\* A set of comments or of Plane ids that is not empty has a first one.
LEMMA FirstIsThere ==
  ASSUME TypeInv, NEW s \in Syncers
  PROVE  /\ Unpushed(s) # {} => \E c \in job[s].seen : NextPush(s, c)
         /\ Unpulled(s) # {} => \E p \in job[s].listed : NextPull(s, p)
<1>1. Unpushed(s) \subseteq job[s].seen /\ \A c \in Unpushed(s) : c.id \in Nat
  BY DEF Unpushed, TypeInv, TypeOK, Job, Comment
<1>2. Unpulled(s) \subseteq job[s].listed /\ Unpulled(s) \subseteq Nat
  BY DEF Unpulled, TypeInv, TypeOK, Job
<1>3. ASSUME Unpushed(s) # {} PROVE \E c \in job[s].seen : NextPush(s, c)
  <2> DEFINE ids == {c.id : c \in Unpushed(s)}
  <2>1. ids \subseteq Nat /\ ids # {}
    BY <1>1, <1>3
  <2> HIDE DEF ids
  <2>2. PICK n \in ids : \A m \in ids : n <= m
    BY <2>1, LeastNumber
  <2> QED BY <1>1, <2>2 DEF NextPush, ids
<1>4. ASSUME Unpulled(s) # {} PROVE \E p \in job[s].listed : NextPull(s, p)
  BY <1>2, <1>4, LeastNumber DEF NextPull
<1> QED BY <1>3, <1>4

\* Who cannot go on waits for somebody.
LEMMA StandsForALock ==
  ASSUME TypeInv, AtWork, NEW s \in Syncers, pc[s] # "idle", ~CanGoOn(s)
  PROVE  Blocked(s)
<1>1. pc[s] \in {"push", "record", "pull", "store"}
  BY DEF CanGoOn, TypeInv, TypeOK, Phases
<1>2. pc[s] # "push"
  BY FirstIsThere DEF CanGoOn
<1>3. CASE pc[s] = "record"
  BY <1>3, FirstIsThere DEF CanGoOn, AtWork
<1>4. CASE pc[s] = "pull"
  BY <1>4, FirstIsThere DEF CanGoOn, Storing
<1>5. CASE pc[s] = "store"
  BY <1>5 DEF CanGoOn, Storing
<1> QED BY <1>1, <1>2, <1>3, <1>4, <1>5

\* Whatever runs overlap, whatever they have written and whoever waits for whom,
\* one of those under way can go on, as long as Postgres aborts one of a circle
\* that waits for itself.
THEOREM SomebodyGoesOn ==
  ASSUME IsFiniteSet(Syncers)
  PROVE  Spec => []((\E s \in Syncers : pc[s] # "idle")
                     => \E s \in Syncers : pc[s] # "idle" /\ CanGoOn(s))
<1>1. Init => AtWork
  BY DEF Init, AtWork
<1>2. TypeInv /\ AtWork =>
        ((\E s \in Syncers : pc[s] # "idle") => \E s \in Syncers : pc[s] # "idle" /\ CanGoOn(s))
  <2> SUFFICES ASSUME TypeInv, AtWork, \E s \in Syncers : pc[s] # "idle",
                      \A s \in Syncers : pc[s] # "idle" => ~CanGoOn(s)
               PROVE  FALSE
    OBVIOUS
  <2> DEFINE B == {s \in Syncers : pc[s] # "idle"}
  <2>1. ASSUME NEW s \in B PROVE \E t \in B : Waits(s, t)
    <3>1. PICK t \in Syncers : Waits(s, t)
      BY StandsForALock DEF Blocked
    <3>2. writes[t] # NoWrites
      BY <3>1 DEF Waits, NoWrites
    <3> QED BY <3>1, <3>2 DEF AtWork
  <2>2. PICK s \in B : Deadlocked(s)
    BY <2>1, WaitersDeadlock
  <2> QED BY <2>2 DEF CanGoOn
<1> QED BY <1>1, <1>2, NextAtWork, TypeInvariant, PTL DEF Spec

-----------------------------------------------------------------------------
(* One syncer, one link: nothing it inserts is there.                      *)

\* The links there are, or in the hands of s.
LinksAt(s) == links \cup writes[s].links \cup job[s].queue
                \cup ({job[s].link} \ {NoLink})

\* There is at most one link, and nothing is mapped for another one.
OneLink(s) ==
  /\ lastLink + budget["link"] <= 1
  /\ LinksAt(s) # {} => lastLink = 1
  /\ \A l \in LinksAt(s) : l.id = 1
  /\ \A l, k \in links : l = k
  /\ \A l, k \in job[s].queue : l = k
  /\ \A l, k \in writes[s].links : l = k
  /\ \A l, k \in LinksAt(s) : l.card = k.card /\ l.item = k.item
  /\ \A r \in Mapped(s) \cup job[s].known : r.link = 1

\* What s knows of the rows there are, at each stage of its run.
Informed(s) ==
  /\ pc[s] = "idle" => writes[s] = NoWrites /\ job[s] = NoJob
  /\ pc[s] = "next" => job[s].link = NoLink /\ (job[s].queue # {} => writes[s] = NoWrites)
  /\ pc[s] \notin {"idle", "next"} => job[s].queue = {} /\ writes[s].links = {}
  /\ pc[s] = "read" => writes[s] = NoWrites
  /\ pc[s] \in {"read", "push", "record", "pull"} => rows \subseteq job[s].known
  /\ pc[s] \in {"push", "record"} => writes[s].rows \subseteq job[s].known
                                      /\ writes[s].comments = {}
  /\ pc[s] = "pull" => \A r \in writes[s].rows : r \in job[s].known \/ r.pid <= job[s].at
  /\ pc[s] = "record" => \A r \in Mapped(s) : r.pid # job[s].pid

Alone(s) == OneLink(s) /\ Informed(s)

LEMMA SpendLess ==
  ASSUME TypeInv, budget' = budget \/ \E k \in Kinds : Spend(k)
  PROVE  \A k \in Kinds : budget'[k] \in Nat /\ budget[k] \in Nat /\ budget'[k] <= budget[k]
<1>1. budget \in [Kinds -> Nat]
  BY DEF TypeInv, TypeOK
<1>2. CASE budget' = budget
  BY <1>1, <1>2
<1>3. ASSUME NEW k \in Kinds, Spend(k)
      PROVE  \A e \in Kinds : budget'[e] \in Nat /\ budget[e] \in Nat /\ budget'[e] <= budget[e]
  <2>1. /\ budget[k] \in Nat /\ budget[k] > 0
        /\ \A e \in Kinds : budget'[e] = IF e = k THEN budget[k] - 1 ELSE budget[e]
    BY <1>1, <1>3 DEF Spend
  <2> QED BY <1>1, <2>1
<1> QED BY <1>2, <1>3

LEMMA InitAlone ==
  ASSUME NEW s \in Syncers, Budget["link"] <= 1, Init
  PROVE  Alone(s)
<1>1. budget["link"] \in Nat
  BY DEF Init, Kinds
<1>2. /\ job[s] = NoJob /\ writes[s] = NoWrites /\ pc[s] = "idle"
      /\ rows = {} /\ links = {} /\ lastLink = 0 /\ budget = Budget
  BY DEF Init
<1>3. /\ NoJob.queue = {} /\ NoJob.link = NoLink /\ NoJob.known = {}
      /\ NoWrites.links = {} /\ NoWrites.rows = {}
  BY DEF NoJob, NoWrites
<1>4. /\ LinksAt(s) = {} /\ Mapped(s) \cup job[s].known = {}
      /\ job[s].queue = {} /\ writes[s].links = {}
  BY <1>2, <1>3 DEF LinksAt, Mapped
<1>5. OneLink(s)
  BY <1>1, <1>2, <1>4 DEF OneLink
<1>6. Informed(s)
  BY <1>2 DEF Informed
<1> QED BY <1>5, <1>6 DEF Alone

\* Members make the link, once: there is nothing to remove it or to aim it elsewhere.
LEMMA MemberAlone ==
  ASSUME TypeInv, NEW s \in Syncers, Alone(s), MemberStep
  PROVE  Alone(s)'
<1>0. lastLink \in Nat /\ budget["link"] \in Nat
  BY DEF TypeInv, TypeOK, Kinds
<1>1. ASSUME \/ \E f \in Cards : DeleteCard(f) \/ \E m \in Locals : WriteComment(f, m)
             \/ \E c \in comments : DeleteComment(c)
             \/ \E i \in Items, m \in Remotes : WriteInPlane(i, m)
      PROVE  Alone(s)'
  <2>1. UNCHANGED <<rows, links, lastLink, pc, job, writes>>
    BY <1>1 DEF WriteComment, DeleteCard, DeleteComment, WriteInPlane, database, members, syncer
  <2>2. budget' = budget \/ \E k \in Kinds : Spend(k)
    BY <1>1 DEF WriteComment, DeleteCard, DeleteComment, WriteInPlane, Kinds
  <2>3. budget'["link"] <= budget["link"] /\ budget'["link"] \in Nat
    BY <2>2, SpendLess DEF Kinds
  <2>4. Informed(s)'
    BY <2>1 DEF Alone, Informed, Mapped
  <2>5. OneLink(s)'
    <3>1. LinksAt(s)' = LinksAt(s) /\ Mapped(s)' = Mapped(s)
      BY <2>1 DEF LinksAt, Mapped
    <3> QED BY <1>0, <2>1, <2>3, <3>1 DEF Alone, OneLink
  <2> QED BY <2>4, <2>5 DEF Alone
<1>2. ASSUME NEW f \in Cards, NEW i, LinkCard(f, i) \/ UnlinkCard(f)
      PROVE  Alone(s)'
  <2>1. /\ UNCHANGED <<rows, pc, job, writes>>
        /\ budget["link"] > 0 /\ budget'["link"] = budget["link"] - 1
    BY <1>2 DEF LinkCard, UnlinkCard, Spend, syncer, TypeInv, TypeOK, Kinds
  <2>2. lastLink = 0 /\ LinksAt(s) = {} /\ links = {}
    BY <1>0, <2>1 DEF Alone, OneLink, LinksAt
  <2>3. links' = {FreshLink(f, i)} /\ lastLink' = 1
    BY <1>2, <2>2 DEF LinkCard, UnlinkCard
  <2>4. FreshLink(f, i).id = 1
    BY <2>2 DEF FreshLink
  <2>5. LinksAt(s)' = {FreshLink(f, i)} /\ Mapped(s)' = Mapped(s)
    <3> HIDE DEF FreshLink
    <3> QED BY <2>1, <2>2, <2>3 DEF LinksAt, Mapped
  <2>6. Informed(s)'
    BY <2>1 DEF Alone, Informed, Mapped
  <2>7. OneLink(s)'
    <3> HIDE DEF FreshLink
    <3> QED BY <1>0, <2>1, <2>2, <2>3, <2>4, <2>5 DEF Alone, OneLink
  <2> QED BY <2>6, <2>7 DEF Alone
<1> QED BY <1>1, <1>2 DEF MemberStep

\* A step of s that reads or writes no link.
LEMMA SameLinks ==
  ASSUME TypeInv, NEW s \in Syncers, Alone(s), UNCHANGED <<links, lastLink>>,
         budget' = budget \/ \E k \in Kinds : Spend(k),
         LinksAt(s)' \subseteq LinksAt(s), writes'[s].links = writes[s].links,
         job'[s].queue = {} \/ job'[s].queue \subseteq links,
         \A r \in Mapped(s)' \cup job'[s].known :
           r \in Mapped(s) \cup job[s].known \/ r.link = 1
  PROVE  OneLink(s)'
<1>1. budget'["link"] <= budget["link"] /\ budget'["link"] \in Nat /\ budget["link"] \in Nat
  BY SpendLess DEF Kinds
<1>2. lastLink \in Nat
  BY DEF TypeInv, TypeOK
<1>3. OneLink(s)
  BY DEF Alone
<1>4. lastLink' + budget'["link"] <= 1
  BY <1>1, <1>2, <1>3 DEF OneLink
<1>5. \A l, k \in links' : l = k
  BY <1>3 DEF OneLink
<1>6. \A l, k \in job'[s].queue : l = k
  BY <1>3 DEF OneLink
<1>7. \A l, k \in writes'[s].links : l = k
  BY <1>3 DEF OneLink
<1>8. \A r \in Mapped(s)' \cup job'[s].known : r.link = 1
  BY <1>3 DEF OneLink
<1> HIDE DEF LinksAt, Mapped
<1> QED BY <1>3, <1>4, <1>5, <1>6, <1>7, <1>8 DEF OneLink

LEMMA BeginAlone ==
  ASSUME TypeInv, NEW s \in Syncers, Alone(s), NEW q \in SUBSET links, Begin(s, q)
  PROVE  Alone(s)'
<1> DEFINE j == [NoJob EXCEPT !.queue = q]
<1>1. j.queue = q /\ j.link = NoLink /\ j.known = {}
  BY DEF NoJob
<1>2. /\ pc[s] = "idle" /\ pc'[s] = "next" /\ job'[s] = j /\ writes' = writes
      /\ UNCHANGED <<rows, links, lastLink, budget>>
  BY DEF Begin, Goto, TypeInv, TypeOK, database, members
<1> HIDE DEF j
<1>3. Informed(s)'
  BY <1>1, <1>2 DEF Alone, Informed
<1>4. LinksAt(s)' \subseteq LinksAt(s) /\ Mapped(s)' = Mapped(s)
  BY <1>1, <1>2 DEF LinksAt, Mapped
<1> QED BY <1>1, <1>2, <1>3, <1>4, SameLinks DEF Alone

LEMMA ReadRowsAlone ==
  ASSUME TypeInv, NEW s \in Syncers, Alone(s), NEW l \in job[s].queue,
         ReadRows(s, l) \/ NoConnection(s, l)
  PROVE  Alone(s)'
<1> PICK failed \in BOOLEAN :
      /\ OnLink(s, l, failed)
      /\ (ReadRows(s, l) /\ ~failed) \/ (NoConnection(s, l) /\ failed)
  BY DEF ReadRows, NoConnection
<1> DEFINE j == [NoJob EXCEPT !.queue = job[s].queue \ {l}, !.link = l,
                              !.known = IF failed THEN {} ELSE RowsOf(s, l),
                              !.failed = failed]
<1>1. /\ j.queue = job[s].queue \ {l} /\ j.link = l
      /\ j.known = IF failed THEN {} ELSE RowsOf(s, l)
  BY DEF NoJob
<1>2. /\ pc[s] = "next" /\ pc'[s] = (IF failed THEN "store" ELSE "read")
      /\ job'[s] = j /\ writes' = writes
      /\ UNCHANGED <<rows, links, lastLink>>
      /\ budget' = budget \/ \E k \in Kinds : Spend(k)
  BY DEF ReadRows, NoConnection, OnLink, Goto, TypeInv, TypeOK, database, members, Kinds
<1> HIDE DEF j
<1>3. /\ writes[s] = NoWrites /\ job[s].queue \ {l} = {} /\ l.id = 1
      /\ l \in LinksAt(s)
  BY <1>2 DEF Alone, Informed, OneLink, LinksAt
<1>4. RowsOf(s, l) = rows
  BY <1>3 DEF RowsOf, Alone, OneLink, Mapped, NoWrites
<1>5. Informed(s)'
  BY <1>1, <1>2, <1>3, <1>4 DEF Informed, NoWrites
<1>6. LinksAt(s)' \subseteq LinksAt(s) /\ Mapped(s)' = Mapped(s)
  BY <1>1, <1>2, <1>3 DEF LinksAt, Mapped
<1>7. j.known \subseteq Mapped(s)
  BY <1>1, <1>4 DEF Mapped
<1> QED BY <1>1, <1>2, <1>3, <1>5, <1>6, <1>7, SameLinks DEF Alone

\* A step within a run that neither reads nor writes a row.
LEMMA WithinAlone ==
  ASSUME TypeInv, NEW s \in Syncers, Alone(s), NEW j \in Job, NEW ph,
         job' = [job EXCEPT ![s] = j], Goto(s, ph),
         pc[s] \notin {"idle", "next"}, ph \notin {"idle", "next", "read"},
         j.queue = job[s].queue, j.link = job[s].link, j.known = job[s].known,
         UNCHANGED <<links, lastLink, rows, writes>>,
         budget' = budget \/ \E k \in Kinds : Spend(k),
         ph \in {"push", "record", "pull"} => pc[s] \in {"read", "push"},
         ph = "record" => \A r \in Mapped(s) : r.pid # j.pid
  PROVE  Alone(s)'
<1>1. pc'[s] = ph /\ job'[s] = j
  BY DEF Goto, TypeInv, TypeOK
<1>2. LinksAt(s)' = LinksAt(s) /\ Mapped(s)' = Mapped(s)
  BY <1>1 DEF LinksAt, Mapped
<1>3. Informed(s)'
  <2>1. Informed(s)
    BY DEF Alone
  <2>2. pc[s] = "read" => writes[s].rows = {} /\ writes[s].comments = {}
    BY <2>1 DEF Informed, NoWrites
  <2> QED BY <1>1, <1>2, <2>1, <2>2 DEF Informed
<1>4. job[s].queue = {}
  BY DEF Alone, Informed
<1> QED BY <1>1, <1>2, <1>3, <1>4, SameLinks DEF Alone

LEMMA QuietAlone ==
  ASSUME TypeInv, PairInv, NEW s \in Syncers, Alone(s),
         \/ ReadComments(s) \/ ListItem(s) \/ ListFails(s)
         \/ \E c \in job[s].seen : Push(s, c) \/ PushRefused(s, c) \/ PushLost(s, c)
         \/ \E p \in job[s].listed : PullRejected(s, p)
  PROVE  Alone(s)'
<1>0. job[s] \in Job
  BY DEF TypeInv, TypeOK
<1>1. CASE ReadComments(s)
  <2> DEFINE j == [job[s] EXCEPT !.seen = CommentsOf(s, job[s].link.card)]
  <2>1. j \in Job
    BY <1>0 DEF Job, CommentsOf, TypeInv, TypeOK, Writes
  <2>2. /\ job' = [job EXCEPT ![s] = j] /\ Goto(s, "push") /\ pc[s] = "read"
        /\ UNCHANGED <<links, lastLink, rows, writes, budget>>
    BY <1>1 DEF ReadComments, database, members
  <2>3. j.queue = job[s].queue /\ j.link = job[s].link /\ j.known = job[s].known
    BY <1>0 DEF Job
  <2> HIDE DEF j
  <2> QED BY <2>1, <2>2, <2>3, WithinAlone
<1>2. CASE ListItem(s) \/ ListFails(s)
  <2> PICK ph \in {"pull", "store"} :
        (ListItem(s) /\ ph = "pull") \/ (ListFails(s) /\ ph = "store")
    BY <1>2
  <2> DEFINE j == IF ph = "pull"
                  THEN [job[s] EXCEPT !.listed = ListedIn(job[s].link.item), !.at = 0]
                  ELSE [job[s] EXCEPT !.failed = TRUE]
  <2>1. j \in Job
    <3>1. ListedIn(job[s].link.item) \subseteq Nat
      BY DEF ListedIn, TypeInv, TypeOK
    <3> QED BY <1>0, <3>1 DEF Job
  <2>2. /\ job' = [job EXCEPT ![s] = j] /\ Goto(s, ph) /\ pc[s] = "push"
        /\ UNCHANGED <<links, lastLink, rows, writes>>
        /\ budget' = budget \/ \E k \in Kinds : Spend(k)
    BY DEF ListItem, ListFails, database, members, Kinds
  <2>3. j.queue = job[s].queue /\ j.link = job[s].link /\ j.known = job[s].known
    BY <1>0 DEF Job
  <2> HIDE DEF j
  <2> QED BY <2>1, <2>2, <2>3, WithinAlone
<1>3. ASSUME NEW c \in job[s].seen, Push(s, c) PROVE Alone(s)'
  <2> DEFINE j == [job[s] EXCEPT !.pid = Len(plane) + 1]
  <2>0. Len(plane) + 1 \in Nat
    BY HeldType
  <2>1. j \in Job
    BY <1>0, <2>0 DEF Job
  <2>2. /\ job' = [job EXCEPT ![s] = j] /\ Goto(s, "record") /\ pc[s] = "push"
        /\ UNCHANGED <<links, lastLink, rows, writes, budget>>
    BY <1>3 DEF Push, database, members
  <2>3. /\ j.queue = job[s].queue /\ j.link = job[s].link /\ j.known = job[s].known
        /\ j.pid = Len(plane) + 1
    BY <1>0 DEF Job
  <2>4. \A r \in Mapped(s) : r.pid # Len(plane) + 1
    <3>1. \A r \in Mapped(s) : r.pid \in DOMAIN plane
      BY DEF Mapped, AnyRows, PairInv, Pairs
    <3> QED BY <3>1, HeldType
  <2> HIDE DEF j
  <2> QED BY <2>1, <2>2, <2>3, <2>4, WithinAlone
<1>4. ASSUME NEW c \in job[s].seen, PushRefused(s, c) \/ PushLost(s, c) PROVE Alone(s)'
  <2> DEFINE j == [job[s] EXCEPT !.failed = TRUE, !.at = c.id]
  <2>1. j \in Job
    BY <1>0 DEF Job, Comment
  <2>2. /\ job' = [job EXCEPT ![s] = j] /\ pc[s] = "push" /\ UNCHANGED pc
        /\ UNCHANGED <<links, lastLink, rows, writes>>
        /\ budget' = budget \/ \E k \in Kinds : Spend(k)
    BY <1>4 DEF PushRefused, PushLost, SkipPush, database, members, Kinds
  <2>3. j.queue = job[s].queue /\ j.link = job[s].link /\ j.known = job[s].known
    BY <1>0 DEF Job
  <2>4. Goto(s, "push")
    BY <2>2 DEF Goto, TypeInv, TypeOK
  <2> HIDE DEF j
  <2> QED BY <2>1, <2>2, <2>3, <2>4, WithinAlone
<1>5. ASSUME NEW p \in job[s].listed, PullRejected(s, p) PROVE Alone(s)'
  <2> DEFINE j == [job[s] EXCEPT !.failed = TRUE]
  <2>1. j \in Job
    BY <1>0 DEF Job
  <2>2. /\ job' = [job EXCEPT ![s] = j] /\ pc[s] = "pull" /\ Goto(s, "store")
        /\ UNCHANGED <<links, lastLink, rows, writes, budget>>
    BY <1>5 DEF PullRejected, database, members
  <2>3. j.queue = job[s].queue /\ j.link = job[s].link /\ j.known = job[s].known
    BY <1>0 DEF Job
  <2> HIDE DEF j
  <2> QED BY <2>1, <2>2, <2>3, WithinAlone
<1> QED BY <1>1, <1>2, <1>3, <1>4, <1>5

LEMMA LinkInHand ==
  ASSUME TypeInv, NEW s \in Syncers, Alone(s), pc[s] \notin {"idle", "next"}
  PROVE  /\ job[s].link \in LinkRow /\ job[s].link \in LinksAt(s)
         /\ job[s].link.id = 1
<1>1. job[s].link \in LinkRow
  BY DEF TypeInv, Working
<1>2. job[s].link \in LinksAt(s)
  BY <1>1 DEF LinksAt
<1> QED BY <1>1, <1>2 DEF Alone, OneLink

LEMMA RecordPushAlone ==
  ASSUME TypeInv, NEW s \in Syncers, Alone(s), NEW c \in job[s].seen, RecordPush(s, c)
  PROVE  Alone(s)'
<1> DEFINE e == PushedRow(s, c)
           j == [job[s] EXCEPT !.at = c.id, !.known = @ \cup {e}]
           w == [writes[s] EXCEPT !.rows = @ \cup {e}]
<1>1. /\ job' = [job EXCEPT ![s] = j] /\ Goto(s, "push")
      /\ writes' = [writes EXCEPT ![s] = w]
      /\ UNCHANGED <<rows, links, lastLink, budget>>
      /\ pc[s] = "record"
  BY DEF RecordPush, database, members
<1>2. job[s] \in Job /\ writes[s] \in Writes
  BY DEF TypeInv, TypeOK
<1>3. /\ j.queue = job[s].queue /\ j.link = job[s].link /\ j.known = job[s].known \cup {e}
      /\ w.rows = writes[s].rows \cup {e} /\ w.comments = writes[s].comments
      /\ w.links = writes[s].links
  BY <1>2 DEF Job, Writes
<1>4. e.link = 1
  BY <1>1, LinkInHand DEF PushedRow
<1> HIDE DEF e, j, w
<1>5. pc'[s] = "push" /\ job'[s] = j /\ writes'[s] = w
  BY <1>1 DEF Goto, TypeInv, TypeOK
<1>6. LinksAt(s)' = LinksAt(s) /\ Mapped(s)' = Mapped(s) \cup {e}
  BY <1>1, <1>3, <1>5 DEF LinksAt, Mapped
<1>7. Informed(s)'
  BY <1>1, <1>3, <1>5 DEF Alone, Informed
<1>8. job[s].queue = {}
  BY <1>1 DEF Alone, Informed
<1> QED BY <1>1, <1>3, <1>4, <1>5, <1>6, <1>7, <1>8, SameLinks DEF Alone

LEMMA PullAlone ==
  ASSUME TypeInv, NEW s \in Syncers, Alone(s), NEW p \in job[s].listed, Pull(s, p)
  PROVE  Alone(s)'
<1> DEFINE e == PulledRow(s, p)
           j == [job[s] EXCEPT !.at = p]
           w == [writes[s] EXCEPT !.comments = @ \cup {PulledComment(s, p)},
                                  !.rows = @ \cup {e}]
<1>1. /\ job' = [job EXCEPT ![s] = j] /\ UNCHANGED pc
      /\ writes' = [writes EXCEPT ![s] = w]
      /\ UNCHANGED <<rows, links, lastLink, budget>>
      /\ pc[s] = "pull" /\ NextPull(s, p)
  BY DEF Pull, database, members
<1>2. job[s] \in Job /\ writes[s] \in Writes
  BY DEF TypeInv, TypeOK
<1>3. /\ j.queue = job[s].queue /\ j.link = job[s].link /\ j.known = job[s].known
      /\ j.at = p
      /\ w.rows = writes[s].rows \cup {e} /\ w.links = writes[s].links
  BY <1>2 DEF Job, Writes
<1>4. e.link = 1 /\ e.pid = p
  BY <1>1, LinkInHand DEF PulledRow
<1> HIDE DEF e, j, w
<1>5. pc'[s] = "pull" /\ job'[s] = j /\ writes'[s] = w
  BY <1>1 DEF TypeInv, TypeOK
<1>6. LinksAt(s)' = LinksAt(s) /\ Mapped(s)' = Mapped(s) \cup {e}
  BY <1>1, <1>3, <1>5 DEF LinksAt, Mapped
<1>7. Informed(s)'
  <2>1. p \in Nat /\ job[s].at \in Nat /\ job[s].at < p
    BY <1>1, <1>2 DEF NextPull, Unpulled, Job
  <2>2. \A r \in writes[s].rows : r.pid \in Nat
    BY <1>2 DEF Writes, MapRow
  <2>3. \A r \in writes[s].rows : r \in job[s].known \/ r.pid <= p
    BY <1>1, <2>1, <2>2 DEF Alone, Informed
  <2>4. \A r \in writes'[s].rows : r \in job'[s].known \/ r.pid <= job'[s].at
    BY <1>3, <1>4, <1>5, <2>1, <2>3
  <2> QED BY <1>1, <1>3, <1>5, <2>4 DEF Alone, Informed
<1>8. job[s].queue = {}
  BY <1>1 DEF Alone, Informed
<1> QED BY <1>1, <1>3, <1>4, <1>5, <1>6, <1>7, <1>8, SameLinks DEF Alone

LEMMA StoreLinkAlone ==
  ASSUME TypeInv, NEW s \in Syncers, Alone(s), StoreLink(s)
  PROVE  Alone(s)'
<1> DEFINE j == [NoJob EXCEPT !.queue = job[s].queue]
           w == [writes[s] EXCEPT !.links = @ \cup {Outcome(s)}]
           o == Outcome(s)
<1>1. /\ job' = [job EXCEPT ![s] = j] /\ Goto(s, "next")
      /\ writes' = [writes EXCEPT ![s] = w]
      /\ UNCHANGED <<rows, links, lastLink, budget>>
      /\ pc[s] \in {"store", "pull"}
  BY DEF StoreLink, Storing, database, members
<1>2. job[s].queue = {} /\ writes[s].links = {} /\ writes[s] \in Writes
  BY <1>1 DEF Alone, Informed, TypeInv, TypeOK
<1>3. /\ j.queue = {} /\ j.link = NoLink /\ j.known = {}
      /\ w.rows = writes[s].rows /\ w.links = {o}
  BY <1>2 DEF NoJob, Writes
<1>4. job[s].link \in LinkRow /\ job[s].link \in LinksAt(s)
  BY <1>1, LinkInHand
<1>5. o.id = job[s].link.id /\ o.card = job[s].link.card /\ o.item = job[s].link.item
  BY <1>4 DEF Outcome, LinkRow
<1> HIDE DEF j, w, o
<1>6. pc'[s] = "next" /\ job'[s] = j /\ writes'[s] = w
  BY <1>1 DEF Goto, TypeInv, TypeOK
<1>7. LinksAt(s)' \subseteq LinksAt(s) \cup {o} /\ Mapped(s)' = Mapped(s)
  BY <1>1, <1>3, <1>6 DEF LinksAt, Mapped
<1>8. Informed(s)'
  BY <1>3, <1>6 DEF Informed
<1>9. OneLink(s)'
  <2>1. OneLink(s)
    BY DEF Alone
  <2>2. \A l, k \in LinksAt(s)' : l.id = 1 /\ l.card = k.card /\ l.item = k.item
    <3> HIDE DEF LinksAt
    <3> QED BY <1>4, <1>5, <1>7, <2>1 DEF OneLink
  <2>3. lastLink = 1
    <3> HIDE DEF LinksAt
    <3> QED BY <1>4, <2>1 DEF OneLink
  <2>4. \A r \in Mapped(s)' \cup job'[s].known : r.link = 1
    BY <1>3, <1>6, <1>7, <2>1 DEF OneLink
  <2> HIDE DEF LinksAt, Mapped
  <2> QED BY <1>1, <1>3, <1>6, <2>1, <2>2, <2>3, <2>4 DEF OneLink
<1> QED BY <1>8, <1>9 DEF Alone

LEMMA EndAlone ==
  ASSUME TypeInv, NEW s \in Syncers, Alone(s), Commit(s) \/ Panic(s) \/ Crash(s)
  PROVE  Alone(s)'
<1>1. /\ NoJob.queue = {} /\ NoJob.link = NoLink /\ NoJob.known = {}
      /\ NoWrites.links = {} /\ NoWrites.rows = {}
  BY DEF NoJob, NoWrites
<1>2. /\ pc'[s] = "idle" /\ job'[s] = NoJob /\ writes'[s] = NoWrites
      /\ UNCHANGED lastLink
      /\ budget' = budget \/ \E k \in Kinds : Spend(k)
      /\ rows' = rows \/ rows' = Mapped(s)
      /\ links' = links \/ links' = Upserted(s)
  BY DEF Commit, Panic, Crash, Reset, Goto, database, members, TypeInv, TypeOK, Mapped, Kinds
<1>3. Informed(s)'
  BY <1>2 DEF Informed
<1>4. OneLink(s)
  BY DEF Alone
<1>5. LinksAt(s)' \subseteq LinksAt(s) /\ Mapped(s)' \subseteq Mapped(s) /\ job'[s].known = {}
  BY <1>1, <1>2 DEF LinksAt, Mapped, Upserted
<1>6. \A l, k \in links' : l = k
  <2>1. CASE links' = links
    BY <1>4, <2>1 DEF OneLink
  <2>2. CASE links' = Upserted(s)
    <3>1. \A l \in links, w \in writes[s].links : l.id = w.id
      BY <1>4 DEF OneLink, LinksAt
    <3> QED BY <1>4, <2>2, <3>1 DEF OneLink, Upserted
  <2> QED BY <1>2, <2>1, <2>2
<1>7. lastLink' + budget'["link"] <= 1
  <2>1. lastLink \in Nat
    BY DEF TypeInv, TypeOK
  <2> QED BY <1>2, <1>4, <2>1, SpendLess DEF OneLink, Kinds
<1>8. OneLink(s)'
  <2> HIDE DEF LinksAt, Mapped
  <2> QED BY <1>1, <1>2, <1>4, <1>5, <1>6, <1>7 DEF OneLink
<1> QED BY <1>3, <1>8 DEF Alone

LEMMA NextAlone ==
  ASSUME NEW s, Syncers = {s}, TypeInv, PairInv, Alone(s), [Next]_vars
  PROVE  Alone(s)'
<1>1. CASE UNCHANGED vars
  BY <1>1 DEF vars, database, members, syncer, Alone, OneLink, Informed, LinksAt, Mapped
<1>2. CASE MemberStep
  BY <1>2, MemberAlone
<1>3. CASE \E q \in SUBSET links : Begin(s, q)
  BY <1>3, BeginAlone
<1>4. CASE Progress(s)
  BY <1>4, ReadRowsAlone, QuietAlone, RecordPushAlone, PullAlone, StoreLinkAlone, EndAlone
     DEF Progress
<1>5. CASE Crash(s)
  BY <1>5, EndAlone
<1> QED BY <1>1, <1>2, <1>3, <1>4, <1>5 DEF Next

\* A row there is while s pulls is known to s, or of a comment it has passed.
LEMMA PullsUnmapped ==
  ASSUME NEW s \in Syncers, TypeInv, Alone(s), pc[s] = "pull", NEW p \in Unpulled(s)
  PROVE  \A r \in Mapped(s) : r.pid # p
<1> SUFFICES ASSUME NEW r \in Mapped(s), r.pid = p PROVE FALSE
  OBVIOUS
<1>1. p > job[s].at /\ p \notin MappedPlane(s)
  BY DEF Unpulled
<1>2. r \in job[s].known \/ p <= job[s].at
  BY DEF Alone, Informed, Mapped
<1>3. p \in Nat /\ job[s].at \in Nat
  BY DEF Mapped, TypeInv, TypeOK, Writes, MapRow, Job
<1> QED BY <1>1, <1>2, <1>3 DEF MappedPlane

\* What s is about to insert is not there.
LEMMA AloneNeverFails ==
  ASSUME NEW s, Syncers = {s}, TypeInv, Alone(s)
  PROVE  ~Collides(s) /\ ~Deadlocked(s)
<1>1. ~Deadlocked(s)
  BY DEF Deadlocked, Waits
<1>2. \A r \in Mapped(s) : ~Inserts(s, r.pid)
  <2> SUFFICES ASSUME NEW r \in Mapped(s), Inserts(s, r.pid) PROVE FALSE
    OBVIOUS
  <2>1. CASE pc[s] = "record" /\ r.pid = job[s].pid
    BY <2>1 DEF Alone, Informed
  <2>2. CASE pc[s] = "pull" /\ NextPull(s, r.pid)
    BY <2>2, PullsUnmapped DEF NextPull
  <2> QED BY <2>1, <2>2 DEF Inserts
<1>3. Storing(s) => \A l \in links : l.id = job[s].link.id
  <2> SUFFICES ASSUME Storing(s), NEW l \in links PROVE l.id = job[s].link.id
    OBVIOUS
  <2>1. l.id = 1
    BY DEF Alone, OneLink, LinksAt
  <2> QED BY <2>1, LinkInHand DEF Storing
<1> QED BY <1>1, <1>2, <1>3 DEF Collides, Mapped

\* With a single syncer and a card that is linked once, no statement of a run
\* fails: what it inserts is not there, because it knows every row there is, and
\* the one link it may find stored is its own.
THEOREM AloneNeverPanics ==
  ASSUME NEW s, Syncers = {s}, Budget["link"] <= 1
  PROVE  Spec => []NeverPanics
<1>1. Init => Alone(s)
  BY InitAlone
<1>2. TypeInv /\ PairInv /\ Alone(s) /\ [Next]_vars => Alone(s)'
  BY NextAlone
<1>3. TypeInv /\ Alone(s) => NeverPanics
  BY AloneNeverFails DEF NeverPanics
<1> QED BY <1>1, <1>2, <1>3, TypeInvariant, PairInvariant, PTL DEF Spec

-----------------------------------------------------------------------------
(* One syncer, one link: what was written in Plane is not posted to it.    *)

\* Texts are written on one side, and s knows the row of every comment it has
\* read that was imported.
Copied(s) ==
  /\ \A p \in DOMAIN plane : plane[p].text \in Remotes => plane[p].text \in said
  /\ \A c \in Held : c.src = 0 => c.text \in Locals
  /\ \A c \in job[s].seen : c.src # 0 =>
       \E r \in job[s].known : r.cid = c.id /\ r.pid = c.src
  /\ NeverPushedBack

LEMMA InitCopied ==
  ASSUME NEW s \in Syncers, Init
  PROVE  Copied(s)
BY DEF Init, Copied, NeverPushedBack, Held, Everywhere, NoWrites, NoJob

LEMMA HeldAlone ==
  ASSUME NEW s, Syncers = {s}
  PROVE  /\ Held = comments \cup writes[s].comments \cup job[s].seen
         /\ Held' = comments' \cup writes'[s].comments \cup job'[s].seen
BY DEF Held, Everywhere

\* A step that posts nothing and makes no comment.
LEMMA CopiedStays ==
  ASSUME NEW s \in Syncers, Copied(s), plane' = plane, said \subseteq said',
         Held' \subseteq Held,
         job'[s].seen = {} \/ (job'[s].seen = job[s].seen /\ job[s].known \subseteq job'[s].known)
  PROVE  Copied(s)'
BY DEF Copied, NeverPushedBack

\* The steps that post nothing, make no comment and map nothing; none of them
\* leaves an answer of Plane unrecorded.
Aside(s) ==
  \/ UNCHANGED vars
  \/ \E f \in Cards : UnlinkCard(f) \/ \E i \in Items : LinkCard(f, i)
  \/ \E q \in SUBSET links : Begin(s, q)
  \/ \E l \in job[s].queue : ReadRows(s, l) \/ NoConnection(s, l)
  \/ ListItem(s) \/ ListFails(s)
  \/ \E c \in job[s].seen : PushRefused(s, c)
  \/ \E p \in job[s].listed : PullRejected(s, p)
  \/ StoreLink(s)

LEMMA AsideFacts ==
  ASSUME NEW s, Syncers = {s}, TypeInv, Aside(s)
  PROVE  /\ UNCHANGED <<comments, rows, plane, said, lastId>>
         /\ writes'[s].comments = writes[s].comments /\ writes'[s].rows = writes[s].rows
         /\ \/ job'[s].seen = {}
            \/ /\ job'[s].seen = job[s].seen /\ job'[s].known = job[s].known
         /\ (pc[s] = "record" \/ pc'[s] = "record") => UNCHANGED <<pc, job>>
<1> USE DEF TypeInv, TypeOK, database, members, syncer
<1>1. CASE UNCHANGED vars
  BY <1>1 DEF vars
<1>2. ASSUME NEW f \in Cards, UnlinkCard(f) \/ \E i \in Items : LinkCard(f, i)
      PROVE  UNCHANGED <<comments, rows, plane, said, lastId, pc, job, writes>>
  BY <1>2 DEF UnlinkCard, LinkCard
<1>3. ASSUME NEW q \in SUBSET links, Begin(s, q)
      PROVE  /\ UNCHANGED <<comments, rows, plane, said, lastId, writes>>
             /\ job'[s].seen = {} /\ pc[s] = "idle" /\ pc'[s] = "next"
  BY <1>3 DEF Begin, Goto, NoJob
<1>4. ASSUME NEW l \in job[s].queue, ReadRows(s, l) \/ NoConnection(s, l)
      PROVE  /\ UNCHANGED <<comments, rows, plane, said, lastId, writes>>
             /\ job'[s].seen = {} /\ pc[s] = "next" /\ pc'[s] \in {"read", "store"}
  <2>1. \A failed : OnLink(s, l, failed) => job'[s].seen = {}
    BY DEF OnLink, NoJob
  <2>2. OnLink(s, l, FALSE) \/ OnLink(s, l, TRUE)
    BY <1>4 DEF ReadRows, NoConnection
  <2>3. /\ UNCHANGED <<comments, rows, plane, said, lastId, writes>>
        /\ pc[s] = "next" /\ pc'[s] \in {"read", "store"}
    BY <1>4 DEF ReadRows, NoConnection, Goto
  <2> QED BY <2>1, <2>2, <2>3
<1>5. ASSUME \/ ListItem(s) \/ ListFails(s)
             \/ \E c \in job[s].seen : PushRefused(s, c)
             \/ \E p \in job[s].listed : PullRejected(s, p)
      PROVE  /\ UNCHANGED <<comments, rows, plane, said, lastId, writes>>
             /\ job'[s].seen = job[s].seen /\ job'[s].known = job[s].known
             /\ pc[s] # "record" /\ pc'[s] # "record"
  BY <1>5 DEF ListItem, ListFails, PushRefused, PullRejected, SkipPush, Goto, Job
<1>6. ASSUME StoreLink(s)
      PROVE  /\ UNCHANGED <<comments, rows, plane, said, lastId>>
             /\ job'[s].seen = {} /\ pc[s] # "record" /\ pc'[s] = "next"
             /\ writes'[s].comments = writes[s].comments
             /\ writes'[s].rows = writes[s].rows
  BY <1>6 DEF StoreLink, Storing, Goto, NoJob, Writes
<1> QED BY <1>1, <1>2, <1>3, <1>4, <1>5, <1>6 DEF Aside

LEMMA ReadCommentsCopied ==
  ASSUME NEW s, Syncers = {s}, TypeInv, DedupeInv, Alone(s), Copied(s), ReadComments(s)
  PROVE  Copied(s)'
<1>1. /\ UNCHANGED <<comments, rows, plane, said, writes>> /\ pc[s] = "read"
      /\ job'[s].seen = CommentsOf(s, job[s].link.card) /\ job'[s].known = job[s].known
  BY DEF ReadComments, database, members, TypeInv, TypeOK, Job
<1>2. job'[s].seen \subseteq comments /\ rows \subseteq job[s].known
  BY <1>1 DEF CommentsOf, Alone, Informed, NoWrites
<1>3. \A c \in job'[s].seen : c.src # 0 =>
        \E r \in job'[s].known : r.cid = c.id /\ r.pid = c.src
  BY <1>1, <1>2 DEF DedupeInv, ImportsAreMapped
<1>4. Held' \subseteq Held
  BY <1>1, <1>2, HeldAlone
<1> QED BY <1>1, <1>3, <1>4 DEF Copied, NeverPushedBack

\* A comment the push loop takes was written by a member.
LEMMA PushesOwn ==
  ASSUME NEW s \in Syncers, TypeInv, Copied(s), NEW c \in job[s].seen, c \in Unpushed(s)
  PROVE  c.src = 0 /\ c.text \in Locals
<1>1. c.src = 0
  BY DEF Copied, Unpushed, MappedLocals
<1> QED BY <1>1 DEF Copied, Held

LEMMA PostCopied ==
  ASSUME NEW s, Syncers = {s}, TypeInv, Copied(s), NEW m, NEW e, e.text = m,
         plane' = Append(plane, e), m \in Locals \/ (m \notin said /\ m \in said'),
         said \subseteq said', Held' \subseteq Held,
         job'[s].seen = job[s].seen, job'[s].known = job[s].known
  PROVE  Copied(s)'
<1>1. /\ DOMAIN plane' = DOMAIN plane \cup {Len(plane) + 1}
      /\ plane'[Len(plane) + 1] = e
      /\ \A p \in DOMAIN plane : plane'[p] = plane[p]
  BY HeldType
<1>2. \A p \in DOMAIN plane' : plane'[p].text \in Remotes => plane'[p].text \in said'
  BY <1>1 DEF Copied
<1>3. ASSUME NEW p \in DOMAIN plane', NEW q \in DOMAIN plane',
             plane'[p].text \in Remotes, plane'[q].text = plane'[p].text
      PROVE  p = q
  BY <1>1, <1>3 DEF Copied, NeverPushedBack
<1> QED BY <1>2, <1>3 DEF Copied, NeverPushedBack

LEMMA NextCopied ==
  ASSUME NEW s, Syncers = {s}, TypeInv, DedupeInv, Alone(s), Copied(s), [Next]_vars
  PROVE  Copied(s)'
<1>1. CASE Aside(s)
  <2>1. Held' \subseteq Held
    BY <1>1, AsideFacts, HeldAlone
  <2> QED BY <1>1, <2>1, AsideFacts, CopiedStays
<1>2. ASSUME NEW f \in Cards, NEW m \in Locals, WriteComment(f, m) PROVE Copied(s)'
  <2> DEFINE e == [id |-> lastId + 1, card |-> f, text |-> m, src |-> 0]
  <2>1. /\ UNCHANGED <<plane, job, writes>> /\ said \subseteq said'
        /\ comments' = comments \cup {e} /\ e.text \in Locals
    BY <1>2 DEF WriteComment, syncer
  <2> HIDE DEF e
  <2>2. Held' = Held \cup {e}
    BY <2>1, HeldAlone
  <2> QED BY <2>1, <2>2 DEF Copied, NeverPushedBack
<1>3. ASSUME \/ \E f \in Cards : DeleteCard(f)
             \/ \E c \in comments : DeleteComment(c)
      PROVE  Copied(s)'
  <2>1. /\ UNCHANGED <<plane, said, job, writes>> /\ comments' \subseteq comments
    BY <1>3 DEF DeleteCard, DeleteComment, members, syncer
  <2> QED BY <2>1, HeldAlone, CopiedStays
<1>4. ASSUME NEW i \in Items, NEW m \in Remotes, WriteInPlane(i, m) PROVE Copied(s)'
  <2>1. /\ UNCHANGED <<comments, job, writes>> /\ m \notin said /\ said' = said \cup {m}
        /\ plane' = Append(plane, [item |-> i, text |-> m, src |-> 0])
    BY <1>4 DEF WriteInPlane, database, syncer
  <2>2. Held' = Held
    BY <2>1, HeldAlone
  <2> QED BY <2>1, <2>2, PostCopied
<1>5. CASE ReadComments(s)
  BY <1>5, ReadCommentsCopied
<1>6. ASSUME NEW c \in job[s].seen, Push(s, c) \/ PushLost(s, c) PROVE Copied(s)'
  <2>1. /\ UNCHANGED <<comments, said, writes>> /\ c \in Unpushed(s)
        /\ job'[s].seen = job[s].seen /\ job'[s].known = job[s].known
        /\ plane' = Append(plane, [item |-> job[s].link.item, text |-> c.text, src |-> c.id])
    BY <1>6 DEF Push, PushLost, PlaneAccepts, SkipPush, NextPush, database, members,
                TypeInv, TypeOK, Job
  <2>2. Held' = Held
    BY <2>1, HeldAlone
  <2> QED BY <2>1, <2>2, PushesOwn, PostCopied
<1>7. ASSUME NEW c \in job[s].seen, RecordPush(s, c) PROVE Copied(s)'
  <2>1. /\ UNCHANGED <<comments, plane, said>>
        /\ writes'[s].comments = writes[s].comments
        /\ job'[s].seen = job[s].seen /\ job[s].known \subseteq job'[s].known
    BY <1>7 DEF RecordPush, database, members, TypeInv, TypeOK, Job, Writes
  <2> QED BY <2>1, HeldAlone, CopiedStays
<1>8. ASSUME NEW p \in job[s].listed, Pull(s, p) PROVE Copied(s)'
  <2> DEFINE e == PulledComment(s, p)
  <2>1. /\ UNCHANGED <<comments, plane, said>>
        /\ writes'[s].comments = writes[s].comments \cup {e}
        /\ job'[s].seen = job[s].seen /\ job'[s].known = job[s].known
    BY <1>8 DEF Pull, database, members, TypeInv, TypeOK, Job, Writes
  <2>2. e.src = p /\ p # 0
    <3>1. p \in DOMAIN plane /\ plane \in Seq(Posted)
      BY DEF TypeInv, TypeOK, Working
    <3> QED BY <3>1 DEF PulledComment
  <2> HIDE DEF e
  <2>3. Held' = Held \cup {e}
    BY <2>1, HeldAlone
  <2> QED BY <2>1, <2>2, <2>3 DEF Copied, NeverPushedBack
<1>9. CASE Commit(s) \/ Panic(s) \/ Crash(s)
  <2>1. /\ UNCHANGED <<plane, said>> /\ job'[s].seen = {} /\ writes'[s].comments = {}
        /\ comments' \subseteq comments \cup writes[s].comments
    BY <1>9 DEF Commit, Panic, Crash, Reset, NoJob, NoWrites, database, members, TypeInv, TypeOK
  <2> QED BY <2>1, HeldAlone, CopiedStays
<1> QED
  BY <1>1, <1>2, <1>3, <1>4, <1>5, <1>6, <1>7, <1>8, <1>9 DEF Next, MemberStep, Progress, Aside

\* With a single syncer and a card that is linked once, what was written in Plane
\* is never posted to Plane again, whatever pushes are lost, runs are cut short
\* and comments or cards are deleted.
THEOREM AloneNeverPushesBack ==
  ASSUME NEW s, Syncers = {s}, Budget["link"] <= 1
  PROVE  Spec => []NeverPushedBack
<1>1. Init => Alone(s) /\ Copied(s)
  BY InitAlone, InitCopied
<1>2. TypeInv /\ PairInv /\ Alone(s) /\ [Next]_vars => Alone(s)'
  BY NextAlone
<1>3. TypeInv /\ DedupeInv /\ Alone(s) /\ Copied(s) /\ [Next]_vars => Copied(s)'
  BY NextCopied
<1>4. Copied(s) => NeverPushedBack
  BY DEF Copied
<1> QED BY <1>1, <1>2, <1>3, <1>4, TypeInvariant, PairInvariant, DedupeInvariant, PTL DEF Spec

-----------------------------------------------------------------------------
(* One syncer, one link, no fault: the sync implements CommentMirror.      *)

\* No answer of Plane is lost, no run is cut short, no card is deleted.
Faultless == \A k \in {"lost", "crash", "drop"} : budget[k] = 0

\* Every text is at most once on either side, and what s posted is mapped, or
\* about to be.
Mirrored(s) ==
  /\ \A c \in Held : c.text \in said
  /\ \A c \in Held : c.src # 0 => /\ c.src \in DOMAIN plane
                                  /\ plane[c.src].text = c.text
                                  /\ c.text \in Remotes
  /\ \A c, d \in Held : c.text = d.text => c = d
  /\ \A p \in DOMAIN plane : /\ plane[p].text \in said
                             /\ plane[p].src = 0 <=> plane[p].text \in Remotes
  /\ \A p, q \in DOMAIN plane : plane[p].text = plane[q].text => p = q
  /\ \A p \in DOMAIN plane : plane[p].src # 0 =>
       \/ \E r \in Mapped(s) : r.pid = p /\ r.cid = plane[p].src
       \/ pc[s] = "record" /\ p = job[s].pid
  /\ \A p \in DOMAIN plane, c \in Held :
       c.text = plane[p].text /\ plane[p].src # 0 => plane[p].src = c.id
  /\ \A r \in writes[s].rows : r.origin = "plane" =>
       \E c \in writes[s].comments : c.src = r.pid
  /\ \A c \in writes[s].comments : c.src # 0

LEMMA InitMirrored ==
  ASSUME NEW s \in Syncers, Init
  PROVE  Mirrored(s)
BY DEF Init, Mirrored, Held, Everywhere, NoWrites, NoJob

LEMMA NextFaultless ==
  ASSUME TypeInv, Faultless, [Next]_vars
  PROVE  Faultless'
<1>1. CASE UNCHANGED vars
  BY <1>1 DEF vars, Faultless
<1>2. CASE MemberStep
  <2>1. budget' = budget \/ \E kind \in {"link", "delete", "drop"} : Spend(kind)
    BY <1>2 DEF MemberStep, WriteComment, DeleteComment, DeleteCard, LinkCard,
       UnlinkCard, WriteInPlane
  <2> QED BY <2>1, SpendLess DEF Faultless, Kinds
<1>3. ASSUME NEW s \in Syncers, NEW q, Begin(s, q) PROVE Faultless'
  BY <1>3 DEF Begin, Faultless
<1>4. ASSUME NEW s \in Syncers, Progress(s) PROVE Faultless'
  <2>1. budget' = budget \/ Spend("refused") \/ Spend("lost")
    BY <1>4 DEF Progress, ReadRows, NoConnection, ReadComments, Push, PushRefused,
       PushLost, RecordPush, ListItem, ListFails, Pull, PullRejected, StoreLink, Commit, Panic
  <2> QED BY <2>1, SpendLess DEF Faultless, Kinds
<1>5. ASSUME NEW s \in Syncers, Crash(s) PROVE Faultless'
  BY <1>5, SpendLess DEF Crash, Faultless, Kinds
<1> QED BY <1>1, <1>2, <1>3, <1>4, <1>5 DEF Next

\* A step that posts nothing and makes no comment.
LEMMA MirroredStays ==
  ASSUME NEW s \in Syncers, Mirrored(s), plane' = plane, said \subseteq said',
         Held' \subseteq Held, Mapped(s) \subseteq Mapped(s)',
         \A r \in writes'[s].rows : r.origin = "plane" => r \in writes[s].rows,
         writes'[s].comments \subseteq writes[s].comments,
         writes'[s].comments = writes[s].comments \/ writes'[s].rows = {},
         pc[s] = "record" => \/ pc'[s] = "record" /\ job'[s].pid = job[s].pid
                             \/ \E r \in Mapped(s)' : /\ r.pid = job[s].pid
                                                      /\ r.cid = plane[r.pid].src
  PROVE  Mirrored(s)'
<1> HIDE DEF Held, Mapped
<1>1. /\ \A c \in Held' : c.text \in said'
      /\ \A c \in Held' : c.src # 0 => /\ c.src \in DOMAIN plane'
                                       /\ plane'[c.src].text = c.text
                                       /\ c.text \in Remotes
      /\ \A c, d \in Held' : c.text = d.text => c = d
  BY DEF Mirrored
<1>2. /\ \A p \in DOMAIN plane' : /\ plane'[p].text \in said'
                                  /\ plane'[p].src = 0 <=> plane'[p].text \in Remotes
      /\ \A p, q \in DOMAIN plane' : plane'[p].text = plane'[q].text => p = q
  BY DEF Mirrored
<1>3. ASSUME NEW p \in DOMAIN plane, plane[p].src # 0
      PROVE  \/ \E r \in Mapped(s)' : r.pid = p /\ r.cid = plane[p].src
             \/ pc'[s] = "record" /\ p = job'[s].pid
  BY <1>3 DEF Mirrored
<1>4. \A p \in DOMAIN plane', c \in Held' :
        c.text = plane'[p].text /\ plane'[p].src # 0 => plane'[p].src = c.id
  BY DEF Mirrored
<1>5. \A r \in writes'[s].rows : r.origin = "plane" =>
        \E c \in writes'[s].comments : c.src = r.pid
  BY DEF Mirrored
<1>6. \A c \in writes'[s].comments : c.src # 0
  BY DEF Mirrored
<1> QED BY <1>1, <1>2, <1>3, <1>4, <1>5, <1>6 DEF Mirrored

\* A comment of a text nobody holds.
LEMMA MirroredMakes ==
  ASSUME NEW s \in Syncers, Mirrored(s), NEW e, plane' = plane, said \subseteq said',
         e.text \in said', Held' \subseteq Held \cup {e}, \A c \in Held : c.text # e.text,
         e.src # 0 => /\ e.src \in DOMAIN plane /\ plane[e.src].text = e.text
                      /\ e.text \in Remotes,
         \A p \in DOMAIN plane : plane[p].text = e.text => plane[p].src = 0,
         Mapped(s) \subseteq Mapped(s)', pc'[s] = pc[s], job'[s].pid = job[s].pid,
         \A r \in writes'[s].rows : r.origin = "plane" =>
           \E c \in writes'[s].comments : c.src = r.pid,
         \A c \in writes'[s].comments : c.src # 0
  PROVE  Mirrored(s)'
<1> HIDE DEF Held, Mapped
<1>1. /\ \A c \in Held' : c.text \in said'
      /\ \A c \in Held' : c.src # 0 => /\ c.src \in DOMAIN plane'
                                       /\ plane'[c.src].text = c.text
                                       /\ c.text \in Remotes
  BY DEF Mirrored
<1>2. \A c, d \in Held' : c.text = d.text => c = d
  BY DEF Mirrored
<1>3. /\ \A p \in DOMAIN plane' : /\ plane'[p].text \in said'
                                  /\ plane'[p].src = 0 <=> plane'[p].text \in Remotes
      /\ \A p, q \in DOMAIN plane' : plane'[p].text = plane'[q].text => p = q
  BY DEF Mirrored
<1>4. \A p \in DOMAIN plane' : plane'[p].src # 0 =>
        \/ \E r \in Mapped(s)' : r.pid = p /\ r.cid = plane'[p].src
        \/ pc'[s] = "record" /\ p = job'[s].pid
  BY DEF Mirrored
<1>5. \A p \in DOMAIN plane', c \in Held' :
        c.text = plane'[p].text /\ plane'[p].src # 0 => plane'[p].src = c.id
  BY DEF Mirrored
<1> QED BY <1>1, <1>2, <1>3, <1>4, <1>5 DEF Mirrored

\* A post of a text Plane does not have.
LEMMA MirroredPosts ==
  ASSUME NEW s \in Syncers, TypeInv, Mirrored(s), NEW e, plane' = Append(plane, e),
         said \subseteq said', e.text \in said',
         \A p \in DOMAIN plane : plane[p].text # e.text,
         e.src = 0 <=> e.text \in Remotes,
         Held' = Held, Mapped(s)' = Mapped(s), writes'[s] = writes[s],
         \A c \in Held : c.text = e.text /\ e.src # 0 => e.src = c.id,
         e.src # 0 => pc'[s] = "record" /\ job'[s].pid = Len(plane) + 1,
         pc[s] = "record" => pc'[s] = "record" /\ job'[s].pid = job[s].pid
  PROVE  Mirrored(s)'
<1> HIDE DEF Held, Mapped
<1>1. /\ DOMAIN plane' = DOMAIN plane \cup {Len(plane) + 1}
      /\ plane'[Len(plane) + 1] = e
      /\ \A p \in DOMAIN plane : plane'[p] = plane[p]
  BY HeldType
<1>2. /\ \A c \in Held' : c.text \in said'
      /\ \A c \in Held' : c.src # 0 => /\ c.src \in DOMAIN plane'
                                       /\ plane'[c.src].text = c.text
                                       /\ c.text \in Remotes
      /\ \A c, d \in Held' : c.text = d.text => c = d
  BY <1>1 DEF Mirrored
<1>3. /\ \A p \in DOMAIN plane' : /\ plane'[p].text \in said'
                                  /\ plane'[p].src = 0 <=> plane'[p].text \in Remotes
      /\ \A p, q \in DOMAIN plane' : plane'[p].text = plane'[q].text => p = q
  BY <1>1 DEF Mirrored
<1>4. \A p \in DOMAIN plane' : plane'[p].src # 0 =>
        \/ \E r \in Mapped(s)' : r.pid = p /\ r.cid = plane'[p].src
        \/ pc'[s] = "record" /\ p = job'[s].pid
  BY <1>1 DEF Mirrored
<1>5. \A p \in DOMAIN plane', c \in Held' :
        c.text = plane'[p].text /\ plane'[p].src # 0 => plane'[p].src = c.id
  BY <1>1 DEF Mirrored
<1>6. /\ \A r \in writes'[s].rows : r.origin = "plane" =>
           \E c \in writes'[s].comments : c.src = r.pid
      /\ \A c \in writes'[s].comments : c.src # 0
  BY DEF Mirrored
<1> QED BY <1>2, <1>3, <1>4, <1>5, <1>6 DEF Mirrored

\* The push loop takes no comment that Plane has.
LEMMA PushesNew ==
  ASSUME NEW s, Syncers = {s}, TypeInv, PairInv, Alone(s), Copied(s), Mirrored(s),
         pc[s] = "push", NEW c \in job[s].seen, c \in Unpushed(s)
  PROVE  /\ c \in Held /\ c.src = 0 /\ c.text \in Locals /\ c.text \in said /\ c.id # 0
         /\ \A p \in DOMAIN plane : plane[p].text # c.text
<1>1. c.src = 0 /\ c.text \in Locals
  BY PushesOwn
<1>2. c \in Held
  BY HeldAlone
<1>3. c.text \in said
  BY <1>2 DEF Mirrored
<1>4. c.id # 0
  BY <1>2, HeldType DEF PairInv, HeldOnce, Comment
<1>5. ASSUME NEW p \in DOMAIN plane, plane[p].text = c.text PROVE FALSE
  <2>1. plane[p].src # 0
    BY <1>1, <1>5 DEF Mirrored
  <2>2. PICK r \in Mapped(s) : r.pid = p /\ r.cid = plane[p].src
    BY <2>1 DEF Mirrored
  <2>3. r.cid = c.id
    BY <1>2, <1>5, <2>1, <2>2 DEF Mirrored
  <2>4. r \in job[s].known
    BY DEF Mapped, Alone, Informed
  <2> QED BY <2>3, <2>4 DEF Unpushed, MappedLocals
<1> QED BY <1>1, <1>2, <1>3, <1>4, <1>5

\* The pull loop takes no comment that featmap has, or had when s read the card.
LEMMA PullsNew ==
  ASSUME NEW s, Syncers = {s}, TypeInv, DedupeInv, Alone(s), Copied(s), Mirrored(s),
         pc[s] = "pull", NEW p \in job[s].listed, p \in Unpulled(s)
  PROVE  /\ p \in DOMAIN plane /\ p # 0 /\ plane[p].src = 0
         /\ plane[p].text \in Remotes /\ plane[p].text \in said
         /\ \A c \in Held : c.text # plane[p].text
<1>1. p \in DOMAIN plane /\ p # 0
  BY HeldType DEF TypeInv, Working
<1>2. plane[p].src = 0 /\ plane[p].text \in Remotes /\ plane[p].text \in said
  BY <1>1, PullsUnmapped DEF Mirrored
<1>3. ASSUME NEW c \in Held, c.text = plane[p].text PROVE FALSE
  <2>1. c.src # 0
    BY <1>2, <1>3 DEF Copied
  <2>2. c.src = p
    BY <1>1, <1>3, <2>1 DEF Mirrored
  <2>3. \E r \in Mapped(s) \cup job[s].known : r.pid = p
    <3>1. CASE c \in comments
      BY <2>1, <2>2, <3>1 DEF DedupeInv, ImportsAreMapped, Mapped
    <3>2. CASE c \in writes[s].comments
      BY <2>2, <3>2 DEF DedupeInv, WritesAreMapped, Mapped
    <3>3. CASE c \in job[s].seen
      BY <2>1, <2>2, <3>3 DEF Copied
    <3> QED BY <3>1, <3>2, <3>3, HeldAlone
  <2> QED BY <2>3, PullsUnmapped DEF Unpulled, MappedPlane
<1> QED BY <1>1, <1>2, <1>3

LEMMA NextMirrored ==
  ASSUME NEW s, Syncers = {s}, TypeInv, DedupeInv, PairInv, Alone(s), Copied(s),
         Faultless, Mirrored(s), [Next]_vars
  PROVE  Mirrored(s)'
<1>1. CASE Aside(s)
  <2>1. /\ UNCHANGED <<comments, rows, plane, said>>
        /\ writes'[s].comments = writes[s].comments /\ writes'[s].rows = writes[s].rows
        /\ job'[s].seen \subseteq job[s].seen
        /\ pc[s] = "record" => UNCHANGED <<pc, job>>
    BY <1>1, AsideFacts
  <2>2. Held' \subseteq Held /\ Mapped(s)' = Mapped(s)
    BY <2>1, HeldAlone DEF Mapped
  <2> QED BY <2>1, <2>2, MirroredStays
<1>2. ASSUME NEW f \in Cards, NEW m \in Locals, WriteComment(f, m) PROVE Mirrored(s)'
  <2> DEFINE e == [id |-> lastId + 1, card |-> f, text |-> m, src |-> 0]
  <2>1. /\ UNCHANGED <<plane, pc, job, writes, rows>> /\ m \notin said /\ said' = said \cup {m}
        /\ comments' = comments \cup {e} /\ e.text = m /\ e.src = 0
    BY <1>2 DEF WriteComment, syncer
  <2> HIDE DEF e
  <2>2. Held' = Held \cup {e} /\ Mapped(s)' = Mapped(s)
    BY <2>1, HeldAlone DEF Mapped
  <2>3. /\ \A c \in Held : c.text # e.text
        /\ \A p \in DOMAIN plane : plane[p].text # e.text
        /\ \A r \in writes'[s].rows : r.origin = "plane" =>
             \E c \in writes'[s].comments : c.src = r.pid
        /\ \A c \in writes'[s].comments : c.src # 0
    BY <2>1 DEF Mirrored
  <2> QED BY <2>1, <2>2, <2>3, MirroredMakes
<1>3. ASSUME NEW f \in Cards, DeleteCard(f) PROVE FALSE
  BY <1>3 DEF DeleteCard, Spend, Faultless
<1>4. ASSUME NEW c \in comments, DeleteComment(c) PROVE Mirrored(s)'
  <2>1. /\ UNCHANGED <<plane, said, pc, job, writes, rows>> /\ comments' \subseteq comments
    BY <1>4 DEF DeleteComment, members, syncer
  <2>2. Held' \subseteq Held /\ Mapped(s)' = Mapped(s)
    BY <2>1, HeldAlone DEF Mapped
  <2> QED BY <2>1, <2>2, MirroredStays
<1>5. ASSUME NEW i \in Items, NEW m \in Remotes, WriteInPlane(i, m) PROVE Mirrored(s)'
  <2> DEFINE e == [item |-> i, text |-> m, src |-> 0]
  <2>1. /\ UNCHANGED <<comments, pc, job, writes, rows>>
        /\ m \notin said /\ said' = said \cup {m}
        /\ plane' = Append(plane, e) /\ e.text = m /\ e.src = 0
    BY <1>5 DEF WriteInPlane, database, syncer
  <2> HIDE DEF e
  <2>2. Held' = Held /\ Mapped(s)' = Mapped(s)
    BY <2>1, HeldAlone DEF Mapped
  <2>3. \A p \in DOMAIN plane : plane[p].text # e.text
    BY <2>1 DEF Mirrored
  <2> QED BY <2>1, <2>2, <2>3, MirroredPosts
<1>6. CASE ReadComments(s)
  <2>1. /\ UNCHANGED <<comments, rows, plane, said, writes>> /\ pc[s] = "read"
        /\ job'[s].seen \subseteq comments \cup writes[s].comments
    BY <1>6 DEF ReadComments, CommentsOf, database, members, TypeInv, TypeOK, Job
  <2>2. Held' \subseteq Held /\ Mapped(s)' = Mapped(s)
    BY <2>1, HeldAlone DEF Mapped
  <2> QED BY <2>1, <2>2, MirroredStays
<1>7. ASSUME NEW c \in job[s].seen, Push(s, c) PROVE Mirrored(s)'
  <2> DEFINE e == [item |-> job[s].link.item, text |-> c.text, src |-> c.id]
  <2>1. /\ UNCHANGED <<comments, rows, said, writes>> /\ c \in Unpushed(s)
        /\ pc[s] = "push" /\ pc'[s] = "record"
        /\ job'[s].seen = job[s].seen /\ job'[s].pid = Len(plane) + 1
        /\ plane' = Append(plane, e) /\ e.text = c.text /\ e.src = c.id
    BY <1>7 DEF Push, PlaneAccepts, NextPush, Goto, database, members, TypeInv, TypeOK, Job
  <2> HIDE DEF e
  <2>2. Held' = Held /\ Mapped(s)' = Mapped(s)
    BY <2>1, HeldAlone DEF Mapped
  <2>3. /\ c \in Held /\ c.text \in Locals /\ c.text \in said /\ c.id # 0
        /\ \A p \in DOMAIN plane : plane[p].text # c.text
    BY <2>1, PushesNew
  <2>4. \A d \in Held : d.text = c.text => d = c
    BY <2>3 DEF Mirrored
  <2>5. e.src = 0 <=> e.text \in Remotes
    BY <2>1, <2>3
  <2>6. \A d \in Held : d.text = e.text /\ e.src # 0 => e.src = d.id
    BY <2>1, <2>4
  <2> QED BY <2>1, <2>2, <2>3, <2>5, <2>6, MirroredPosts
<1>8. ASSUME NEW c \in job[s].seen, PushLost(s, c) PROVE FALSE
  BY <1>8 DEF PushLost, Spend, Faultless
<1>9. ASSUME NEW c \in job[s].seen, RecordPush(s, c) PROVE Mirrored(s)'
  <2> DEFINE e == PushedRow(s, c)
  <2>1. /\ UNCHANGED <<comments, rows, plane, said>> /\ pc[s] = "record" /\ NextPush(s, c)
        /\ writes'[s].comments = writes[s].comments
        /\ writes'[s].rows = writes[s].rows \cup {e}
        /\ job'[s].seen = job[s].seen
        /\ e.origin = "featmap" /\ e.pid = job[s].pid /\ e.cid = c.id
    BY <1>9 DEF RecordPush, PushedRow, database, members, TypeInv, TypeOK, Job, Writes
  <2> HIDE DEF e
  <2>2. Held' = Held /\ Mapped(s)' = Mapped(s) \cup {e}
    BY <2>1, HeldAlone DEF Mapped
  <2>3. e.cid = plane[e.pid].src
    <3>1. c \in Unpushed(s)
      BY <2>1 DEF NextPush
    <3> QED BY <2>1, <3>1 DEF PairInv, Answered
  <2>4. /\ \A r \in writes'[s].rows : r.origin = "plane" => r \in writes[s].rows
        /\ \E r \in Mapped(s)' : r.pid = job[s].pid /\ r.cid = plane[r.pid].src
    BY <2>1, <2>2, <2>3
  <2> QED BY <2>1, <2>2, <2>4, MirroredStays
<1>10. ASSUME NEW p \in job[s].listed, Pull(s, p) PROVE Mirrored(s)'
  <2> DEFINE e == PulledComment(s, p)
             r == PulledRow(s, p)
  <2>1. /\ UNCHANGED <<comments, rows, plane, said, pc>>
        /\ pc[s] = "pull" /\ p \in Unpulled(s)
        /\ writes'[s].comments = writes[s].comments \cup {e}
        /\ writes'[s].rows = writes[s].rows \cup {r}
        /\ job'[s].seen = job[s].seen /\ job'[s].pid = job[s].pid
        /\ e.src = p /\ e.text = plane[p].text /\ r.pid = p
    BY <1>10 DEF Pull, NextPull, PulledComment, PulledRow, database, members, TypeInv,
       TypeOK, Job, Writes
  <2> HIDE DEF e, r
  <2>2. Held' = Held \cup {e} /\ Mapped(s)' = Mapped(s) \cup {r}
    BY <2>1, HeldAlone DEF Mapped
  <2>3. /\ p \in DOMAIN plane /\ p # 0 /\ plane[p].src = 0
        /\ plane[p].text \in Remotes /\ plane[p].text \in said
        /\ \A c \in Held : c.text # plane[p].text
    BY <2>1, PullsNew
  <2>4. \A q \in DOMAIN plane : plane[q].text = e.text => plane[q].src = 0
    BY <2>1, <2>3 DEF Mirrored
  <2>5. /\ \A q \in writes'[s].rows : q.origin = "plane" =>
             \E c \in writes'[s].comments : c.src = q.pid
        /\ \A c \in writes'[s].comments : c.src # 0
    BY <2>1, <2>3 DEF Mirrored
  <2> QED BY <2>1, <2>2, <2>3, <2>4, <2>5, MirroredMakes
<1>11. CASE Commit(s)
  <2>1. /\ UNCHANGED <<plane, said>> /\ job'[s].seen = {} /\ pc[s] = "next"
        /\ writes'[s].comments = {} /\ writes'[s].rows = {}
        /\ comments' = comments \cup writes[s].comments /\ rows' = rows \cup writes[s].rows
    BY <1>11 DEF Commit, Reset, NoJob, NoWrites, members, TypeInv, TypeOK
  <2>2. Held' \subseteq Held /\ Mapped(s)' = Mapped(s)
    BY <2>1, HeldAlone DEF Mapped
  <2> QED BY <2>1, <2>2, MirroredStays
<1>12. ~Panic(s) /\ ~Crash(s)
  BY AloneNeverFails DEF Panic, Crash, Spend, Faultless
<1> QED
  BY <1>1, <1>2, <1>3, <1>4, <1>5, <1>6, <1>7, <1>8, <1>9, <1>10, <1>11, <1>12
     DEF Next, MemberStep, Progress, Aside

\* The counts of the mirror.
Imported == {plane[r.pid].text : r \in {q \in rows : q.origin = "plane"}}
CardMap == [m \in Texts |-> Cardinality({c \in comments : c.text = m})]
ItemMap == [m \in Texts |-> Cardinality({p \in DOMAIN plane : plane[p].text = m})]
OnCard(m) == \E c \in comments : c.text = m
InItem(m) == \E p \in DOMAIN plane : plane[p].text = m

LEMMA CountOnce ==
  ASSUME NEW S, NEW x \in S, S \subseteq {x}
  PROVE  Cardinality(S) = 1
<1>1. S = {x}
  OBVIOUS
<1> QED BY <1>1, FS_Singleton

LEMMA CountTexts ==
  ASSUME NEW C, \A c, d \in C : c.text = d.text => c = d
  PROVE  [m \in Texts |-> Cardinality({c \in C : c.text = m})]
           = [m \in Texts |-> IF \E c \in C : c.text = m THEN 1 ELSE 0]
<1> SUFFICES ASSUME NEW m
             PROVE  Cardinality({c \in C : c.text = m})
                      = IF \E c \in C : c.text = m THEN 1 ELSE 0
  OBVIOUS
<1> DEFINE S == {c \in C : c.text = m}
<1>1. ASSUME NEW c \in C, c.text = m PROVE Cardinality(S) = 1
  <2>1. c \in S /\ S \subseteq {c}
    BY <1>1
  <2> HIDE DEF S
  <2> QED BY <2>1, CountOnce
<1>2. ASSUME \A c \in C : c.text # m PROVE Cardinality(S) = 0
  <2>1. S = {}
    BY <1>2
  <2> QED BY <2>1, FS_EmptySet
<1> QED BY <1>1, <1>2

LEMMA CountPosts ==
  ASSUME NEW P, \A p, q \in DOMAIN P : P[p].text = P[q].text => p = q
  PROVE  [m \in Texts |-> Cardinality({p \in DOMAIN P : P[p].text = m})]
           = [m \in Texts |-> IF \E p \in DOMAIN P : P[p].text = m THEN 1 ELSE 0]
<1> SUFFICES ASSUME NEW m
             PROVE  Cardinality({p \in DOMAIN P : P[p].text = m})
                      = IF \E p \in DOMAIN P : P[p].text = m THEN 1 ELSE 0
  OBVIOUS
<1> DEFINE S == {p \in DOMAIN P : P[p].text = m}
<1>1. ASSUME NEW p \in DOMAIN P, P[p].text = m PROVE Cardinality(S) = 1
  <2>1. p \in S /\ S \subseteq {p}
    BY <1>1
  <2> HIDE DEF S
  <2> QED BY <2>1, CountOnce
<1>2. ASSUME \A p \in DOMAIN P : P[p].text # m PROVE Cardinality(S) = 0
  <2>1. S = {}
    BY <1>2
  <2> QED BY <2>1, FS_EmptySet
<1> QED BY <1>1, <1>2

\* Every count of the mirror is none or one, before a step and after it.
LEMMA CardCounts ==
  ASSUME NEW s, Syncers = {s}
  PROVE  /\ Mirrored(s) => CardMap = [m \in Texts |-> IF OnCard(m) THEN 1 ELSE 0]
         /\ Mirrored(s)' => CardMap' = [m \in Texts |-> IF OnCard(m)' THEN 1 ELSE 0]
<1>1. /\ Mirrored(s) => \A c, d \in comments : c.text = d.text => c = d
      /\ Mirrored(s)' => \A c, d \in comments' : c.text = d.text => c = d
  BY HeldAlone DEF Mirrored
<1> QED BY <1>1, CountTexts DEF CardMap, OnCard

LEMMA ItemCounts ==
  ASSUME NEW s
  PROVE  /\ Mirrored(s) => ItemMap = [m \in Texts |-> IF InItem(m) THEN 1 ELSE 0]
         /\ Mirrored(s)' => ItemMap' = [m \in Texts |-> IF InItem(m)' THEN 1 ELSE 0]
<1>1. /\ Mirrored(s) =>
           \A p, q \in DOMAIN plane : plane[p].text = plane[q].text => p = q
      /\ Mirrored(s)' =>
           \A p, q \in DOMAIN plane' : plane'[p].text = plane'[q].text => p = q
  BY DEF Mirrored
<1> QED BY <1>1, CountPosts DEF ItemMap, InItem

MirrorInv(s) == /\ TypeInv /\ DedupeInv /\ PairInv
                /\ Alone(s) /\ Copied(s) /\ Faultless /\ Mirrored(s)

\* A step the mirror does not see.
LEMMA MirrorStutters ==
  ASSUME NEW s, Syncers = {s}, PairInv,
         UNCHANGED <<comments, plane, said, rows>>
  PROVE  UNCHANGED Mirror!vars
BY DEF Mirror!vars

LEMMA ImportedStays ==
  ASSUME TypeInv, PairInv, UNCHANGED rows, PlaneKept
  PROVE  Imported' = Imported
<1>1. \A r \in rows : r.pid \in DOMAIN plane
  BY DEF PairInv, AnyRows, Pairs
<1>2. \A r \in rows : plane'[r.pid] = plane[r.pid]
  BY <1>1 DEF PlaneKept
<1> QED BY <1>2 DEF Imported

\* One more comment, one more post, on a side that did not have the text.
LEMMA CardGains ==
  ASSUME NEW s, Syncers = {s}, Mirrored(s), Mirrored(s)', NEW e, NEW m, e.text = m,
         comments' = comments \cup {e}
  PROVE  CardMap' = [CardMap EXCEPT ![m] = 1]
<1>1. /\ CardMap = [x \in Texts |-> IF OnCard(x) THEN 1 ELSE 0]
      /\ CardMap' = [x \in Texts |-> IF OnCard(x)' THEN 1 ELSE 0]
  BY CardCounts
<1>2. \A x : OnCard(x)' <=> OnCard(x) \/ x = m
  BY DEF OnCard
<1>3. CardMap' = [x \in Texts |-> IF x = m THEN 1 ELSE IF OnCard(x) THEN 1 ELSE 0]
  BY <1>1, <1>2
<1> HIDE DEF OnCard, CardMap
<1> QED BY <1>1, <1>3

LEMMA ItemGains ==
  ASSUME NEW s, TypeInv, Mirrored(s), Mirrored(s)', NEW e, NEW m, e.text = m,
         plane' = Append(plane, e)
  PROVE  ItemMap' = [ItemMap EXCEPT ![m] = 1]
<1>1. /\ ItemMap = [x \in Texts |-> IF InItem(x) THEN 1 ELSE 0]
      /\ ItemMap' = [x \in Texts |-> IF InItem(x)' THEN 1 ELSE 0]
  BY ItemCounts
<1>2. \A x : InItem(x)' <=> InItem(x) \/ x = m
  <2>1. /\ DOMAIN plane' = DOMAIN plane \cup {Len(plane) + 1}
        /\ plane'[Len(plane) + 1] = e
        /\ \A p \in DOMAIN plane : plane'[p] = plane[p]
    BY HeldType
  <2> QED BY <2>1 DEF InItem
<1>3. ItemMap' = [x \in Texts |-> IF x = m THEN 1 ELSE IF InItem(x) THEN 1 ELSE 0]
  BY <1>1, <1>2
<1> HIDE DEF InItem, ItemMap
<1> QED BY <1>1, <1>3

LEMMA MembersMirror ==
  ASSUME NEW s, Syncers = {s}, MirrorInv(s), Mirrored(s)', MemberStep
  PROVE  Mirror!Next \/ UNCHANGED Mirror!vars
<1> USE DEF MirrorInv
<1>1. ASSUME NEW f \in Cards, NEW m \in Locals, WriteComment(f, m) PROVE Mirror!Next
  <2> DEFINE e == [id |-> lastId + 1, card |-> f, text |-> m, src |-> 0]
  <2>1. /\ UNCHANGED <<plane, rows>> /\ m \notin said /\ said' = said \cup {m}
        /\ comments' = comments \cup {e} /\ e.text = m
    BY <1>1 DEF WriteComment
  <2> HIDE DEF e
  <2>2. CardMap' = [CardMap EXCEPT ![m] = 1] /\ ItemMap' = ItemMap /\ Imported' = Imported
    BY <2>1, CardGains DEF ItemMap, Imported
  <2>3. Mirror!WriteOnCard(m)
    BY <2>1, <2>2 DEF Mirror!WriteOnCard, CardMap, ItemMap, Imported, Texts, Mirror!Texts
  <2> QED BY <2>3 DEF Mirror!Next
<1>2. ASSUME NEW f \in Cards, UnlinkCard(f) \/ \E i \in Items : LinkCard(f, i)
      PROVE  UNCHANGED Mirror!vars
  BY <1>2, MirrorStutters DEF UnlinkCard, LinkCard, members
<1>3. ASSUME NEW f \in Cards, DeleteCard(f) PROVE FALSE
  BY <1>3 DEF DeleteCard, Spend, Faultless
<1>4. ASSUME NEW d \in comments, DeleteComment(d) PROVE Mirror!Next
  <2>1. UNCHANGED <<plane, said, rows>> /\ comments' = comments \ {d}
    BY <1>4 DEF DeleteComment, members
  <2>2. CardMap' = [CardMap EXCEPT ![d.text] = 0]
    <3>1. /\ CardMap = [x \in Texts |-> IF OnCard(x) THEN 1 ELSE 0]
          /\ CardMap' = [x \in Texts |-> IF OnCard(x)' THEN 1 ELSE 0]
      BY CardCounts
    <3>2. \A x : OnCard(x)' <=> OnCard(x) /\ x # d.text
      BY <2>1, HeldAlone DEF OnCard, Mirrored
    <3>3. CardMap' = [x \in Texts |-> IF x = d.text THEN 0 ELSE IF OnCard(x) THEN 1 ELSE 0]
      BY <3>1, <3>2
    <3> HIDE DEF OnCard, CardMap
    <3> QED BY <3>1, <3>3
  <2>3. ItemMap' = ItemMap /\ Imported' = Imported /\ d.text \in Texts
    BY <2>1 DEF ItemMap, Imported, TypeInv, TypeOK, Comment
  <2>4. Mirror!Delete(d.text)
    BY <2>1, <2>2, <2>3 DEF Mirror!Delete, CardMap, ItemMap, Imported
  <2> QED BY <2>3, <2>4 DEF Mirror!Next, Texts, Mirror!Texts
<1>5. ASSUME NEW i \in Items, NEW m \in Remotes, WriteInPlane(i, m) PROVE Mirror!Next
  <2> DEFINE e == [item |-> i, text |-> m, src |-> 0]
  <2>1. /\ UNCHANGED <<comments, rows>> /\ m \notin said /\ said' = said \cup {m}
        /\ plane' = Append(plane, e) /\ e.text = m
    BY <1>5 DEF WriteInPlane, database
  <2> HIDE DEF e
  <2>2. ItemMap' = [ItemMap EXCEPT ![m] = 1] /\ CardMap' = CardMap /\ Imported' = Imported
    BY <2>1, ItemGains, ImportedStays, AppendKeeps DEF CardMap
  <2>3. Mirror!WriteInItem(m)
    BY <2>1, <2>2 DEF Mirror!WriteInItem, CardMap, ItemMap, Imported
  <2> QED BY <2>3 DEF Mirror!Next
<1> QED BY <1>1, <1>2, <1>3, <1>4, <1>5 DEF MemberStep

LEMMA PushMirrors ==
  ASSUME NEW s, Syncers = {s}, MirrorInv(s), Mirrored(s)',
         NEW c \in job[s].seen, Push(s, c)
  PROVE  Mirror!Next
<1> USE DEF MirrorInv
<1> DEFINE e == [item |-> job[s].link.item, text |-> c.text, src |-> c.id]
<1>1. /\ UNCHANGED <<comments, rows, said>> /\ c \in Unpushed(s) /\ pc[s] = "push"
      /\ plane' = Append(plane, e) /\ e.text = c.text
  BY DEF Push, PlaneAccepts, NextPush, database, members
<1> HIDE DEF e
<1>2. /\ c.text \in Locals /\ c.text \in said
      /\ \A p \in DOMAIN plane : plane[p].text # c.text
  BY <1>1, PushesNew
<1>3. ItemMap[c.text] = 0
  <2>1. ItemMap = [x \in Texts |-> IF InItem(x) THEN 1 ELSE 0]
    BY ItemCounts
  <2>2. c.text \in Texts /\ ~InItem(c.text)
    BY <1>2 DEF InItem, Texts
  <2> QED BY <2>1, <2>2
<1>4. ItemMap' = [ItemMap EXCEPT ![c.text] = 1] /\ CardMap' = CardMap /\ Imported' = Imported
  BY <1>1, ItemGains, ImportedStays, AppendKeeps DEF CardMap
<1>5. Mirror!CopyToItem(c.text)
  BY <1>1, <1>2, <1>3, <1>4 DEF Mirror!CopyToItem, CardMap, ItemMap, Imported
<1> QED BY <1>2, <1>5 DEF Mirror!Next

\* A commit shows the comments of a run, each with its row.
LEMMA CommitMirrors ==
  ASSUME NEW s, Syncers = {s}, MirrorInv(s), Mirrored(s)', Commit(s)
  PROVE  Mirror!Next
<1> USE DEF MirrorInv
<1> DEFINE W == writes[s].comments
<1>1. /\ UNCHANGED <<plane, said>>
      /\ comments' = comments \cup W /\ rows' = rows \cup writes[s].rows
  BY DEF Commit, members
<1>2. \A c \in W : /\ c \in Held /\ c.src \in DOMAIN plane /\ plane[c.src].text = c.text
                   /\ c.text \in Remotes
                   /\ \E r \in writes[s].rows : r.pid = c.src /\ r.origin = "plane"
  BY HeldAlone DEF Mirrored, DedupeInv, WritesAreMapped
<1>3. \A r \in writes[s].rows : r.origin = "plane" => \E c \in W : c.src = r.pid
  BY DEF Mirrored
<1> HIDE DEF W
<1>4. PICK ms \in SUBSET Remotes : ms = {c.text : c \in W}
  BY <1>2
<1>5. \A m \in ms : ItemMap[m] = 1
  <2>1. ItemMap = [x \in Texts |-> IF InItem(x) THEN 1 ELSE 0]
    BY ItemCounts
  <2>2. \A m \in ms : m \in Texts /\ InItem(m)
    BY <1>2, <1>4 DEF InItem, Texts
  <2> QED BY <2>1, <2>2
<1>6. \A m \in ms : m \notin Imported
  <2> SUFFICES ASSUME NEW c \in W, NEW r \in rows, plane[r.pid].text = c.text PROVE FALSE
    BY <1>4 DEF Imported
  <2>1. r.pid \in DOMAIN plane
    BY DEF PairInv, AnyRows, Pairs
  <2>2. r.pid = c.src
    BY <1>2, <2>1 DEF Mirrored
  <2> QED BY <1>2, <2>2 DEF DedupeInv, PidsDistinct
<1>7. Imported' = Imported \cup ms
  <2>1. Imported' \subseteq Imported \cup ms
    <3> SUFFICES ASSUME NEW r \in rows', r.origin = "plane"
                 PROVE  plane[r.pid].text \in Imported \cup ms
      BY <1>1 DEF Imported
    <3>1. CASE r \in rows
      BY <3>1 DEF Imported
    <3>2. CASE r \in writes[s].rows
      BY <1>2, <1>3, <1>4, <3>2
    <3> QED BY <1>1, <3>1, <3>2
  <2>2. Imported \subseteq Imported'
    BY <1>1 DEF Imported
  <2>3. ms \subseteq Imported'
    BY <1>1, <1>2, <1>4 DEF Imported
  <2> QED BY <2>1, <2>2, <2>3
<1>8. CardMap' = [m \in Texts |-> IF m \in ms THEN 1 ELSE CardMap[m]]
  <2>1. /\ CardMap = [x \in Texts |-> IF OnCard(x) THEN 1 ELSE 0]
        /\ CardMap' = [x \in Texts |-> IF OnCard(x)' THEN 1 ELSE 0]
    BY CardCounts
  <2>2. \A x : OnCard(x)' <=> OnCard(x) \/ x \in ms
    BY <1>1, <1>4 DEF OnCard
  <2> HIDE DEF OnCard, CardMap
  <2>3. CardMap' = [x \in Texts |-> IF x \in ms THEN 1 ELSE IF OnCard(x) THEN 1 ELSE 0]
    BY <2>1, <2>2
  <2>4. \A x \in Texts : CardMap[x] = IF OnCard(x) THEN 1 ELSE 0
    BY <2>1
  <2> QED BY <2>3, <2>4
<1>9. ItemMap' = ItemMap
  BY <1>1 DEF ItemMap
<1>10. Mirror!CopyToCard(ms)
  <2>1. Mirror!Texts = Texts
    BY DEF Texts, Mirror!Texts
  <2>2. /\ \A m \in ms : ItemMap[m] = 1 /\ m \notin Imported
        /\ Imported' = Imported \cup ms
        /\ CardMap' = [m \in Mirror!Texts |-> IF m \in ms THEN 1 ELSE CardMap[m]]
        /\ UNCHANGED <<said, ItemMap>>
    BY <1>1, <1>5, <1>6, <1>7, <1>8, <1>9, <2>1
  <2> QED BY <2>2, Zenon DEF Mirror!CopyToCard, CardMap, ItemMap, Imported
<1> QED BY <1>10 DEF Mirror!Next

LEMMA StepMirrors ==
  ASSUME NEW s, Syncers = {s}, MirrorInv(s), Mirrored(s)', [Next]_vars
  PROVE  Mirror!Next \/ UNCHANGED Mirror!vars
<1> USE DEF MirrorInv
<1>1. CASE Aside(s)
  BY <1>1, AsideFacts, MirrorStutters
<1>2. CASE MemberStep
  BY <1>2, MembersMirror
<1>3. CASE \E c \in job[s].seen : Push(s, c)
  BY <1>3, PushMirrors
<1>4. CASE \E c \in job[s].seen : PushLost(s, c)
  BY <1>4 DEF PushLost, Spend, Faultless
<1>5. CASE \/ ReadComments(s)
           \/ \E c \in job[s].seen : RecordPush(s, c)
           \/ \E p \in job[s].listed : Pull(s, p)
  BY <1>5, MirrorStutters DEF ReadComments, RecordPush, Pull, database, members
<1>6. CASE Commit(s)
  BY <1>6, CommitMirrors
<1>7. ~Panic(s) /\ ~Crash(s)
  BY AloneNeverFails DEF Panic, Crash, Spend, Faultless
<1> QED BY <1>1, <1>2, <1>3, <1>4, <1>5, <1>6, <1>7 DEF Next, Progress, Aside

\* With a single syncer, a card that is linked once and no answer of Plane lost,
\* run cut short or card deleted, the sync is the mirror CommentMirror promises:
\* what is written on one side is copied to the other at most once, however often
\* runs are repeated, pushes refused and comments deleted.
THEOREM AloneMirrors ==
  ASSUME NEW s, Syncers = {s}, Budget["link"] <= 1,
         \A k \in {"lost", "crash", "drop"} : Budget[k] = 0
  PROVE  Spec => ImplementsMirror
<1>1. Init => Alone(s) /\ Copied(s) /\ Faultless /\ Mirrored(s)
  BY InitAlone, InitCopied, InitMirrored DEF Init, Faultless
<1>2. Init => Mirror!Init
  <2> SUFFICES ASSUME Init PROVE Mirror!Init
    OBVIOUS
  <2>1. \A m : {c \in comments : c.text = m} = {} /\ {p \in DOMAIN plane : plane[p].text = m} = {}
    BY DEF Init
  <2>2. said = {} /\ {plane[r.pid].text : r \in {q \in rows : q.origin = "plane"}} = {}
    BY DEF Init
  <2> QED BY <2>1, <2>2, FS_EmptySet DEF Mirror!Init, Texts, Mirror!Texts
<1>3. TypeInv /\ PairInv /\ Alone(s) /\ [Next]_vars => Alone(s)'
  BY NextAlone
<1>4. TypeInv /\ DedupeInv /\ Alone(s) /\ Copied(s) /\ [Next]_vars => Copied(s)'
  BY NextCopied
<1>5. TypeInv /\ Faultless /\ [Next]_vars => Faultless'
  BY NextFaultless
<1>6. MirrorInv(s) /\ [Next]_vars => Mirrored(s)'
  BY NextMirrored DEF MirrorInv
<1>7. MirrorInv(s) /\ Mirrored(s)' /\ [Next]_vars => [Mirror!Next]_(Mirror!vars)
  BY StepMirrors
<1>8. MirrorInv(s) <=> /\ TypeInv /\ DedupeInv /\ PairInv
                       /\ Alone(s) /\ Copied(s) /\ Faultless /\ Mirrored(s)
  BY DEF MirrorInv
<1> QED
  BY <1>1, <1>2, <1>3, <1>4, <1>5, <1>6, <1>7, <1>8, TypeInvariant, DedupeInvariant,
     PairInvariant, PTL DEF Spec, ImplementsMirror, Mirror!Spec

===============================================================================
