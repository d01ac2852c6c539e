----------------------------- MODULE Membership -----------------------------
(***************************************************************************)
(* One workspace: its members, the invites that are open, the accounts and  *)
(* their e-mail addresses, and its subscription, which limits the members   *)
(* that may edit.                                                           *)
(* Each client runs one request at a time, in a READ COMMITTED transaction  *)
(* whose statements are the steps below; its writes and the commit are one  *)
(* step.  Stripe answers later, with a request of its own.                  *)
(***************************************************************************)
EXTENDS Integers, FiniteSets, Sequences

CONSTANTS
  Accounts,     \* ids of accounts
  Emails,       \* e-mail addresses
  Nobody,       \* stands for no account, no address and no row
  Clients,      \* requests that can be open at the same time
  StartAccounts,    \* the rows of the accounts there are at first
  Start,        \* the rows of the members there are at first
  StartSeats,   \* the seats of the trial
  MaxSeats,     \* bound on the seats that are asked for
  MaxRequests   \* bound on the requests of a behaviour

Levels  == {"VIEWER", "EDITOR", "ADMIN", "OWNER"}
isEditor(level) == level \in {"EDITOR", "ADMIN", "OWNER"}
isAdmin(level)  == level \in {"ADMIN", "OWNER"}

Statuses == {"trialing", "expired", "active", "past_due", "canceled"}
subscriptionIsActive(status) == status \in {"trialing", "active"}
subscriptionIsPaid(status)   == status \in {"active", "past_due"}

\* sent: the address that waits to be confirmed.
Account == [email : Emails, sent : SUBSET Emails]
Member  == [acc : Accounts, level : Levels]
Invite  == [email : Emails, level : Levels, by : Nat]
Subscription == [row : Nat, seats : 0 .. MaxSeats, status : Statuses]

ASSUME AccountsAssumption ==
  /\ Nobody \notin Accounts \cup Emails \cup Account
  /\ DOMAIN StartAccounts \subseteq Accounts
  /\ \A a \in DOMAIN StartAccounts : StartAccounts[a] \in Account
  /\ \A a, b \in DOMAIN StartAccounts :
       StartAccounts[a].email = StartAccounts[b].email => a = b
ASSUME BoundAssumption ==
  MaxSeats \in Nat /\ MaxRequests \in Nat /\ StartSeats \in 0 .. MaxSeats
ASSUME StartAssumption ==
  /\ Start \in Seq(Member)
  /\ \A i \in DOMAIN Start : Start[i].acc \in DOMAIN StartAccounts
  /\ \A i, j \in DOMAIN Start : Start[i].acc = Start[j].acc => i = j
  /\ \E i \in DOMAIN Start : Start[i].level = "OWNER"
  /\ Cardinality({i \in DOMAIN Start : isEditor(Start[i].level)}) <= StartSeats

VARIABLES
  workspace,  \* whether it is there
  members,    \* the rows of its members, by number
  invites,    \* the rows of its open invites, by number
  made,       \* the rows of both ever made
  accounts,   \* the rows of the accounts, by id
  used,       \* the ids of accounts ever made
  sub,        \* the subscription in force
  sessions,   \* seats of the checkouts at Stripe that are not completed
  tx,         \* the request of each client and what it has read
  begun       \* requests so far

vars == <<workspace, members, invites, made, accounts, used, sub, sessions, tx, begun>>
tables == <<workspace, members, invites, made, accounts, used, sub, sessions>>

Routes == {"level", "remove", "leave", "invite", "uninvite", "change", "cancel",
           "checkout", "delete"}

\* me and my: the member who asks and the level read of him; id, acc and level:
\* the row the request is about, as read; email: the address it is about; row: the
\* account, as read or as it will be stored; want and seats: what is asked for.
Tx == [op    : Routes \cup {"none", "accept", "account", "confirm", "close"},
       stage : {"idle", "route", "find", "count", "limit", "store"},
       me    : Nat, my : Levels, sub : Subscription,
       id    : Nat, acc : Accounts \cup {Nobody}, level : Levels,
       email : Emails \cup {Nobody}, row : Account \cup {Nobody},
       want  : Levels, seats : Nat]

Trial == [row |-> 0, seats |-> StartSeats, status |-> "trialing"]

NoTx == [op |-> "none", stage |-> "idle", me |-> 0, my |-> "VIEWER",
         sub |-> Trial, id |-> 0, acc |-> Nobody, level |-> "VIEWER",
         email |-> Nobody, row |-> Nobody, want |-> "VIEWER", seats |-> 0]

\* Register and CreateWorkspace make the workspace with its first owner and a
\* trial.
Init ==
  /\ workspace = TRUE
  /\ members = Start
  /\ invites = [i \in {} |-> 0]
  /\ made = Len(Start)
  /\ accounts = StartAccounts
  /\ used = DOMAIN StartAccounts
  /\ sub = Trial
  /\ sessions = {}
  /\ tx = [c \in Clients |-> NoTx]
  /\ begun = 0

----------------------------------------------------------------------------
(* Statements                                                              *)

MembersOf(a) == {i \in DOMAIN members : members[i].acc = a}
InvitesTo(e) == {i \in DOMAIN invites : invites[i].email = e}

\* GetAccountByEmail, GetMemberByEmail
AccountsAt(e) == {a \in DOMAIN accounts : accounts[a].email = e}
MembersAt(e)  == UNION {MembersOf(a) : a \in AccountsAt(e)}

Owners       == {i \in DOMAIN members : members[i].level = "OWNER"}

\* numberOfEditors
Editors == Cardinality({i \in DOMAIN members : isEditor(members[i].level)})

\* A member goes, and the invites he made go with him.
DeleteMembers(S) ==
  /\ members' = [i \in DOMAIN members \ S |-> members[i]]
  /\ invites' = [i \in {j \in DOMAIN invites : invites[j].by \notin S} |-> invites[i]]

\* Keys of the members table: the workspace, the account, one row per account.
MemberFits(a) ==
  /\ workspace /\ a \in DOMAIN accounts
  /\ MembersOf(a) = {}

AddMember(i, a, level) ==
  members' = [j \in DOMAIN members \cup {i} |->
                IF j = i THEN [acc |-> a, level |-> level] ELSE members[j]]

\* Bug: nothing keeps an address to one invite.
InviteFitsTwice(e, by) == by \in DOMAIN members

\* Keys of the invites table: the inviter, one row per address.
InviteFits(e, by) == by \in DOMAIN members /\ InvitesTo(e) = {}

----------------------------------------------------------------------------
(* Requests                                                                *)

Open(c, t) ==
  /\ tx[c].stage = "idle" /\ begun < MaxRequests
  /\ tx' = [tx EXCEPT ![c] = t]
  /\ begun' = begun + 1
  /\ UNCHANGED tables

Go(c, t) == tx' = [tx EXCEPT ![c] = t] /\ UNCHANGED <<tables, begun>>

At(c, op, stage) == tx[c].op = op /\ tx[c].stage = stage

\* The request is answered and its transaction committed.
Done(c) == tx' = [tx EXCEPT ![c] = NoTx] /\ UNCHANGED begun

\* User reads the member who asks ...
Arrive(c) ==
  \E i \in DOMAIN members, op \in Routes :
    Open(c, [NoTx EXCEPT !.op = op, !.stage = "route", !.me = i,
                         !.my = members[i].level])

\* ... and the subscription, and the route demands a level and a status.
Admitted(op, my, status) ==
  CASE op \in {"level", "invite"}    -> isAdmin(my) /\ subscriptionIsActive(status)
    [] op \in {"remove", "uninvite"} -> isAdmin(my)
    [] op \in {"change", "cancel"}   -> my = "OWNER" /\ subscriptionIsPaid(status)
    [] op = "checkout"               -> my = "OWNER"
    [] op = "delete"                 -> my = "OWNER" /\ ~subscriptionIsPaid(status)
    [] op = "leave"                  -> TRUE

Route(c) ==
  /\ tx[c].stage = "route" /\ workspace
  /\ Admitted(tx[c].op, tx[c].my, sub.status)
  /\ Go(c, [tx[c] EXCEPT !.stage = "find", !.sub = sub])

\* The member the request is about, who may be an owner only if an owner asks.
FindMember(c, i) ==
  /\ i \in DOMAIN members
  /\ ~(members[i].level = "OWNER" /\ tx[c].my = "ADMIN")

\* Bug: any word is a level.
FindLevelAnyWord(c) ==
  /\ At(c, "level", "find")
  /\ \E i \in DOMAIN members, want \in Levels \cup {"GUEST"} :
       /\ FindMember(c, i) /\ i # tx[c].me
       /\ Go(c, [tx[c] EXCEPT !.id = i, !.acc = members[i].acc,
                              !.level = members[i].level, !.want = want,
                              !.stage = IF isEditor(want) THEN "count" ELSE "store"])

\* UpdateMemberLevel
FindLevel(c) ==
  /\ At(c, "level", "find")
  /\ \E i \in DOMAIN members, want \in Levels :
       /\ FindMember(c, i) /\ i # tx[c].me
       /\ Go(c, [tx[c] EXCEPT !.id = i, !.acc = members[i].acc,
                              !.level = members[i].level, !.want = want,
                              !.stage = IF isEditor(want) THEN "count" ELSE "store"])

CountLevel(c) ==
  /\ At(c, "level", "count")
  /\ Go(c, [tx[c] EXCEPT !.seats = Editors, !.stage = "limit"])

\* Bug: the new editor is not counted.
LimitLevelOff(c) ==
  /\ At(c, "level", "limit") /\ workspace
  /\ isEditor(tx[c].level) \/ tx[c].seats <= sub.seats
  /\ Go(c, [tx[c] EXCEPT !.stage = "store"])

LimitLevel(c) ==
  /\ At(c, "level", "limit") /\ workspace
  /\ isEditor(tx[c].level) \/ tx[c].seats + 1 <= sub.seats
  /\ Go(c, [tx[c] EXCEPT !.stage = "store"])

\* The row is written, and inserted if it is gone.
StoreLevel(c) ==
  /\ At(c, "level", "store")
  /\ LET t == tx[c]
     IN  \/ /\ t.id \in DOMAIN members
            /\ members' = [members EXCEPT ![t.id].level = t.want]
         \/ /\ t.id \notin DOMAIN members /\ MemberFits(t.acc)
            /\ AddMember(t.id, t.acc, t.want)
  /\ Done(c)
  /\ UNCHANGED <<workspace, invites, made, accounts, used, sub, sessions>>

\* DeleteMember
FindRemoved(c) ==
  /\ At(c, "remove", "find")
  /\ \E i \in DOMAIN members :
       /\ FindMember(c, i) /\ ~(i = tx[c].me /\ tx[c].my = "OWNER")
       /\ Go(c, [tx[c] EXCEPT !.id = i, !.stage = "store"])

Remove(c) ==
  /\ At(c, "remove", "store")
  /\ DeleteMembers({tx[c].id})
  /\ Done(c)
  /\ UNCHANGED <<workspace, made, accounts, used, sub, sessions>>

\* Bug: an owner may leave.
LeaveAny(c) ==
  /\ At(c, "leave", "find")
  /\ DeleteMembers({tx[c].me})
  /\ Done(c)
  /\ UNCHANGED <<workspace, made, accounts, used, sub, sessions>>

Leave(c) ==
  /\ At(c, "leave", "find") /\ tx[c].my # "OWNER"
  /\ DeleteMembers({tx[c].me})
  /\ Done(c)
  /\ UNCHANGED <<workspace, made, accounts, used, sub, sessions>>

\* CreateInvite: neither a member nor an invite has the address.
FindInvited(c) ==
  /\ At(c, "invite", "find")
  /\ \E e \in Emails, want \in Levels :
       /\ ~(tx[c].my = "ADMIN" /\ want = "OWNER")
       /\ MembersAt(e) = {}
       /\ Go(c, [tx[c] EXCEPT !.email = e, !.want = want, !.stage = "count"])

FindPending(c) ==
  /\ At(c, "invite", "count")
  /\ InvitesTo(tx[c].email) = {} /\ workspace
  /\ Go(c, [tx[c] EXCEPT !.stage = "store"])

StoreInvite(c) ==
  /\ At(c, "invite", "store")
  /\ LET t == tx[c]
     IN  /\ InviteFits(t.email, t.me)
         /\ invites' = [i \in DOMAIN invites \cup {made + 1} |->
                          IF i = made + 1
                            THEN [email |-> t.email, level |-> t.want, by |-> t.me]
                            ELSE invites[i]]
  /\ made' = made + 1
  /\ Done(c)
  /\ UNCHANGED <<workspace, members, accounts, used, sub, sessions>>

DeleteInvite(i) == invites' = [j \in DOMAIN invites \ {i} |-> invites[j]]

\* DeleteInvite
FindUninvited(c) ==
  /\ At(c, "uninvite", "find")
  /\ \E i \in DOMAIN invites :
       /\ ~(tx[c].my = "ADMIN" /\ invites[i].level = "OWNER")
       /\ Go(c, [tx[c] EXCEPT !.id = i, !.stage = "store"])

Uninvite(c) ==
  /\ At(c, "uninvite", "store")
  /\ DeleteInvite(tx[c].id)
  /\ Done(c)
  /\ UNCHANGED <<workspace, members, made, accounts, used, sub, sessions>>

\* AcceptInvite finds the invite, then the account at its address ...
Accept(c) ==
  \E i \in DOMAIN invites :
    Open(c, [NoTx EXCEPT !.op = "accept", !.stage = "find", !.id = i,
                         !.email = invites[i].email, !.want = invites[i].level])

FindAccepting(c) ==
  /\ At(c, "accept", "find")
  /\ \E a \in AccountsAt(tx[c].email) :
       Go(c, [tx[c] EXCEPT !.acc = a, !.stage = "limit"])

\* ... and CreateMember the subscription and then, for an editor, the members.
LimitAccepted(c) ==
  /\ At(c, "accept", "limit") /\ workspace
  /\ Go(c, [tx[c] EXCEPT !.seats = sub.seats,
                         !.stage = IF isEditor(tx[c].want) THEN "count" ELSE "store"])

CountAccepted(c) ==
  /\ At(c, "accept", "count")
  /\ Editors < tx[c].seats
  /\ Go(c, [tx[c] EXCEPT !.stage = "store"])

\* Bug: the invite stays.
StoreAcceptedOnly(c) ==
  /\ At(c, "accept", "store")
  /\ MemberFits(tx[c].acc)
  /\ AddMember(made + 1, tx[c].acc, tx[c].want)
  /\ made' = made + 1
  /\ Done(c)
  /\ UNCHANGED <<workspace, invites, accounts, used, sub, sessions>>

StoreAccepted(c) ==
  /\ At(c, "accept", "store")
  /\ MemberFits(tx[c].acc)
  /\ AddMember(made + 1, tx[c].acc, tx[c].want)
  /\ DeleteInvite(tx[c].id)
  /\ made' = made + 1
  /\ Done(c)
  /\ UNCHANGED <<workspace, accounts, used, sub, sessions>>

\* User reads the account that asks for a change of its own row.
Enter(c) ==
  \E a \in DOMAIN accounts :
    Open(c, [NoTx EXCEPT !.op = "account", !.stage = "find", !.acc = a,
                         !.row = accounts[a]])

\* Key of the accounts table: one row per address.
AccountFits(a, e) == AccountsAt(e) \subseteq {a}

\* The whole row is written, and inserted if it is gone.
StoreAccount(c, row) ==
  /\ AccountFits(tx[c].acc, row.email)
  /\ accounts' = [a \in DOMAIN accounts \cup {tx[c].acc} |->
                    IF a = tx[c].acc THEN row ELSE accounts[a]]
  /\ Done(c)
  /\ UNCHANGED <<workspace, members, invites, made, used, sub, sessions>>

\* UpdateLatestActivityNow, UpdateName: the addresses are stored as they were read.
StoreVisit(c) == At(c, "account", "find") /\ StoreAccount(c, tx[c].row)

\* UpdateEmail: no account has the address, which is now to be confirmed.
FindEmail(c) ==
  /\ At(c, "account", "find")
  /\ \E e \in Emails :
       /\ AccountsAt(e) = {}
       /\ Go(c, [tx[c] EXCEPT !.row = [email |-> @.email, sent |-> {e}],
                              !.stage = "store"])

StoreEmail(c) == At(c, "account", "store") /\ StoreAccount(c, tx[c].row)

\* ConfirmEmail: the account of the key, of which no other has the address.
FindConfirmed(c) ==
  \E a \in DOMAIN accounts : \E e \in accounts[a].sent :
    Open(c, [NoTx EXCEPT !.op = "confirm", !.stage = "find", !.acc = a,
                         !.row = [email |-> e, sent |-> {}]])

CheckConfirmed(c) ==
  /\ At(c, "confirm", "find")
  /\ AccountsAt(tx[c].row.email) \subseteq {tx[c].acc}
  /\ Go(c, [tx[c] EXCEPT !.stage = "store"])

StoreConfirmed(c) == At(c, "confirm", "store") /\ StoreAccount(c, tx[c].row)

\* DeleteAccount, refused to owners.
FindClosed(c) ==
  /\ At(c, "account", "find")
  /\ MembersOf(tx[c].acc) \cap Owners = {}
  /\ Go(c, [tx[c] EXCEPT !.op = "close", !.stage = "store"])

Close(c) ==
  /\ At(c, "close", "store")
  /\ accounts' = [a \in DOMAIN accounts \ {tx[c].acc} |-> accounts[a]]
  /\ DeleteMembers(MembersOf(tx[c].acc))
  /\ Done(c)
  /\ UNCHANGED <<workspace, made, used, sub, sessions>>

\* DeleteWorkspace, with all that is in it.
DeleteWorkspace(c) ==
  /\ At(c, "delete", "find")
  /\ workspace' = FALSE
  /\ members' = [i \in {} |-> 0] /\ invites' = [i \in {} |-> 0]
  /\ Done(c)
  /\ UNCHANGED <<made, accounts, used, sub, sessions>>

\* Register, of an account that accepts an invite later: its address is free, and
\* to be confirmed.
Register(c) ==
  /\ tx[c].stage = "idle" /\ begun < MaxRequests
  /\ \E a \in Accounts \ used, e \in Emails :
       /\ AccountsAt(e) = {}
       /\ accounts' = [b \in DOMAIN accounts \cup {a} |->
                         IF b = a THEN [email |-> e, sent |-> {e}] ELSE accounts[b]]
       /\ used' = used \cup {a}
  /\ begun' = begun + 1
  /\ UNCHANGED <<workspace, members, invites, made, sub, sessions, tx>>

----------------------------------------------------------------------------
(* Subscription                                                            *)

\* Bug: the plan is not compared with the editors.
FindChangeAny(c) ==
  /\ At(c, "change", "find")
  /\ \E n \in 0 .. MaxSeats :
       Go(c, [tx[c] EXCEPT !.seats = n, !.stage = "store"])

\* handleChangeSubscription: no fewer seats than editors; then Stripe is asked
\* and the row read at first is written with its answer.
FindChange(c) ==
  /\ At(c, "change", "find")
  /\ \E n \in Editors .. MaxSeats :
       Go(c, [tx[c] EXCEPT !.seats = n, !.stage = "store"])

\* A row is in force until a checkout adds one.
StoreSubscription(c, row) ==
  /\ workspace
  /\ sub' = IF row.row = sub.row THEN row ELSE sub
  /\ Done(c)
  /\ UNCHANGED <<workspace, members, invites, made, accounts, used, sessions>>

StoreChange(c) ==
  /\ At(c, "change", "store")
  /\ \E status \in {"active", "past_due"} :
       StoreSubscription(c, [tx[c].sub EXCEPT !.seats = tx[c].seats, !.status = status])

\* handleCancelSubscription
StoreCancel(c) ==
  /\ At(c, "cancel", "find")
  /\ StoreSubscription(c, [tx[c].sub EXCEPT !.status = "canceled"])

\* GetSubscriptionPlanSession: the same limit, and nothing to be paid for yet.
FindCheckout(c) ==
  /\ At(c, "checkout", "find")
  /\ \E n \in Editors .. MaxSeats :
       Go(c, [tx[c] EXCEPT !.seats = n, !.stage = "limit"])

StartCheckout(c) ==
  /\ At(c, "checkout", "limit") /\ workspace
  /\ sub.status \in {"trialing", "expired", "canceled"}
  /\ sessions' = sessions \cup {tx[c].seats}
  /\ Done(c)
  /\ UNCHANGED <<workspace, members, invites, made, accounts, used, sub>>

\* StripeWebhook, checkout.session.completed: a row with the seats of the session.
CompleteCheckout(c) ==
  /\ tx[c].stage = "idle" /\ begun < MaxRequests
  /\ workspace
  /\ \E n \in sessions :
       /\ sub' = [row |-> sub.row + 1, seats |-> n, status |-> "active"]
       /\ sessions' = sessions \ {n}
  /\ begun' = begun + 1
  /\ UNCHANGED <<workspace, members, invites, made, accounts, used, tx>>

\* StripeWebhook, customer.subscription.updated and deleted: status and seats as
\* Stripe has them.
UpdateSubscription(c) ==
  /\ tx[c].stage = "idle" /\ begun < MaxRequests
  /\ workspace /\ sub.row > 0
  /\ \E status \in {"active", "past_due", "canceled"}, n \in 0 .. MaxSeats :
       sub' = [sub EXCEPT !.status = status, !.seats = n]
  /\ begun' = begun + 1
  /\ UNCHANGED <<workspace, members, invites, made, accounts, used, sessions, tx>>

\* The trial runs out.
Expire ==
  /\ sub.status = "trialing"
  /\ sub' = [sub EXCEPT !.status = "expired"]
  /\ UNCHANGED <<workspace, members, invites, made, accounts, used, sessions, tx, begun>>

\* The request is refused by one of its checks, a key is violated, or the
\* process, the connection or a lock fails: the transaction leaves nothing.
Fail(c) ==
  /\ tx[c].stage # "idle"
  /\ tx' = [tx EXCEPT ![c] = NoTx]
  /\ UNCHANGED <<tables, begun>>

Next ==
  \/ Expire
  \/ \E c \in Clients :
       \/ Arrive(c) \/ Route(c)
       \/ FindLevel(c) \/ CountLevel(c) \/ LimitLevel(c) \/ StoreLevel(c)
       \/ FindRemoved(c) \/ Remove(c) \/ Leave(c)
       \/ FindInvited(c) \/ FindPending(c) \/ StoreInvite(c)
       \/ FindUninvited(c) \/ Uninvite(c)
       \/ Accept(c) \/ FindAccepting(c)
       \/ LimitAccepted(c) \/ CountAccepted(c) \/ StoreAccepted(c)
       \/ Register(c) \/ Enter(c) \/ StoreVisit(c) \/ FindEmail(c) \/ StoreEmail(c)
       \/ FindConfirmed(c) \/ CheckConfirmed(c) \/ StoreConfirmed(c)
       \/ FindClosed(c) \/ Close(c) \/ DeleteWorkspace(c)
       \/ FindChange(c) \/ StoreChange(c) \/ StoreCancel(c)
       \/ FindCheckout(c) \/ StartCheckout(c) \/ CompleteCheckout(c)
       \/ UpdateSubscription(c) \/ Fail(c)

Spec == Init /\ [][Next]_vars

----------------------------------------------------------------------------
(* Properties                                                              *)

TypeOK ==
  /\ workspace \in BOOLEAN /\ made \in Nat
  /\ DOMAIN members \subseteq 1 .. made
  /\ \A i \in DOMAIN members : members[i] \in Member
  /\ DOMAIN invites \subseteq 1 .. made
  /\ \A i \in DOMAIN invites : invites[i] \in Invite
  /\ DOMAIN accounts \subseteq used /\ used \subseteq Accounts
  /\ \A a \in DOMAIN accounts : accounts[a] \in Account
  /\ sub \in Subscription
  /\ sessions \subseteq 0 .. MaxSeats
  /\ tx \in [Clients -> Tx]
  /\ begun \in 0 .. MaxRequests

\* A request that will write a row has read what it needs.
RequestsFit ==
  \A c \in Clients :
    LET t == tx[c]
    IN  /\ t.op = "level" /\ t.stage \in {"count", "limit", "store"} =>
             t.id \in 1 .. made /\ t.acc \in Accounts
        /\ t.op = "invite" /\ t.stage \in {"count", "store"} => t.email \in Emails
        /\ t.op = "accept" /\ t.stage # "find" => t.acc \in Accounts
        /\ t.op \in {"account", "confirm", "close"} => t.acc \in used
        /\ t.op \in {"account", "confirm"} => t.row \in Account
        /\ t.op = "accept" /\ t.stage = "count" => t.seats \in 0 .. MaxSeats
        /\ t.op \in {"change", "checkout"} => t.seats \in 0 .. MaxSeats

\* What the tables promise each other: an account has an address of its own; a
\* member has an account, and one membership per workspace; an invite was made by a
\* member and is the only one to its address; nothing outlives the workspace.
TablesAgree ==
  /\ \A a \in DOMAIN accounts : AccountsAt(accounts[a].email) = {a}
  /\ \A i \in DOMAIN members :
       members[i].acc \in DOMAIN accounts /\ MembersOf(members[i].acc) = {i}
  /\ \A i \in DOMAIN invites :
       invites[i].by \in DOMAIN members /\ InvitesTo(invites[i].email) = {i}
  /\ DOMAIN members \cup DOMAIN invites # {} => workspace

\* A workspace always has an owner, since no owner can leave it, be removed by
\* an admin, change his own level or close his account.
AlwaysOwned == workspace => Owners # {}

\* Whoever becomes an editor finds a seat, and a change of plan leaves a seat
\* for every editor.
EditorsHaveSeats ==
  [][/\ Editors' > Editors => Editors' <= sub.seats
     /\ \A c \in Clients : StoreChange(c) => Editors <= sub'.seats]_vars

\* Requests that count the editors before either stores can exceed the seats, but
\* only by one for each request there is beside another.
FewBeyondSeats == Editors <= MaxSeats + Cardinality(Clients) - 1

\* The open invites to the address of a member: nobody can accept them.
Stranded == {i \in DOMAIN invites : MembersAt(invites[i].email) # {}}

\* An invite is stranded only by a member who takes its address as his own, never
\* by an invitation, an acceptance or any other request.
OnlyAddressesStrand ==
  [][Stranded' \subseteq Stranded \/ \E c \in Clients : StoreConfirmed(c)]_vars

=============================================================================
