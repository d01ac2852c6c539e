-------------------------- MODULE Membership_proofs --------------------------
(***************************************************************************)
(* Theorems about Membership, for any accounts, clients and bounds.         *)
(***************************************************************************)
EXTENDS Membership, TLAPS, FiniteSetTheorems

\* What every step keeps, whatever requests run beside each other.
Inv == TypeOK /\ RequestsFit

-------------------------------------------------------------------------------
(* Types                                                                   *)

LEMMA NoTxType == NoTx \in Tx
BY BoundAssumption DEF NoTx, Tx, Trial, Subscription, Statuses, Levels, Routes

\* A request in a state may hold only numbers of rows that were made.
Fit(t) ==
  /\ t.op = "level" /\ t.stage \in {"count", "limit", "store"} =>
       t.id \in 1 .. made /\ t.acc \in Accounts
  /\ t.op = "invite" /\ t.stage \in {"count", "store"} => t.email \in Emails
  /\ t.op = "accept" /\ t.stage # "find" => t.acc \in Accounts
  /\ t.op \in {"account", "confirm", "close"} => t.acc \in used
  /\ t.op \in {"account", "confirm"} => t.row \in Account
  /\ t.op = "accept" /\ t.stage = "count" => t.seats \in 0 .. MaxSeats
  /\ t.op \in {"change", "checkout"} => t.seats \in 0 .. MaxSeats

LEMMA NoTxFits == Fit(NoTx)
BY DEF Fit, NoTx

LEMMA InitInv == Init => Inv
<1> SUFFICES ASSUME Init PROVE Inv
  OBVIOUS
<1>1. Len(Start) \in Nat /\ DOMAIN Start = 1 .. Len(Start)
  BY StartAssumption
<1>2. \A i \in DOMAIN Start : Start[i] \in Member
  BY StartAssumption
<1>3. Trial \in Subscription
  BY BoundAssumption DEF Trial, Subscription, Statuses
<1>4. TypeOK
  BY <1>1, <1>2, <1>3, NoTxType, BoundAssumption, AccountsAssumption DEF Init, TypeOK
<1>5. RequestsFit
  BY DEF Init, RequestsFit, NoTx
<1> QED BY <1>4, <1>5 DEF Inv

\* A step of a request that changes no table.
LEMMA GoInv ==
  ASSUME Inv, NEW c \in Clients, NEW t \in Tx, Fit(t), Go(c, t)
  PROVE  Inv'
<1>1. TypeOK'
  BY DEF Inv, TypeOK, Go, tables
<1>2. RequestsFit'
  BY DEF Inv, TypeOK, RequestsFit, Fit, Go, tables
<1> QED BY <1>1, <1>2 DEF Inv

LEMMA OpenInv ==
  ASSUME Inv, NEW c \in Clients, NEW t \in Tx, Fit(t), Open(c, t)
  PROVE  Inv'
<1>1. begun' \in 0 .. MaxRequests
  BY BoundAssumption DEF Inv, TypeOK, Open
<1>2. TypeOK'
  BY <1>1 DEF Inv, TypeOK, Open, tables
<1>3. RequestsFit'
  BY DEF Inv, TypeOK, RequestsFit, Fit, Open, tables
<1> QED BY <1>2, <1>3 DEF Inv

\* The request of a step that ends it leaves no claim behind.
LEMMA DoneFits ==
  ASSUME Inv, NEW c \in Clients, Done(c), made' \in {made, made + 1}, used' = used
  PROVE  tx' \in [Clients -> Tx] /\ begun' \in 0 .. MaxRequests /\ RequestsFit'
<1>1. tx' \in [Clients -> Tx] /\ begun' \in 0 .. MaxRequests
  BY NoTxType DEF Inv, TypeOK, Done
<1>2. ASSUME NEW d \in Clients PROVE Fit(tx[d])' 
  <2>1. CASE d = c
    BY <2>1 DEF Inv, TypeOK, Done, Fit, NoTx
  <2>2. CASE d # c
    <3>1. tx'[d] = tx[d]
      BY <2>2 DEF Inv, TypeOK, Done
    <3>2. 1 .. made \subseteq 1 .. made'
      BY DEF Inv, TypeOK
    <3> QED BY <3>1, <3>2 DEF Inv, RequestsFit, Fit
  <2> QED BY <2>1, <2>2
<1>3. RequestsFit'
  BY <1>2 DEF RequestsFit, Fit
<1> QED BY <1>1, <1>3

LEMMA DeletedTypes ==
  ASSUME Inv, NEW S, DeleteMembers(S), made' = made
  PROVE  /\ DOMAIN members' \subseteq 1 .. made'
         /\ \A i \in DOMAIN members' : members'[i] \in Member
         /\ DOMAIN invites' \subseteq 1 .. made'
         /\ \A i \in DOMAIN invites' : invites'[i] \in Invite
BY DEF Inv, TypeOK, DeleteMembers

LEMMA AddedTypes ==
  ASSUME Inv, NEW a \in Accounts, NEW level \in Levels, NEW i \in 1 .. made',
         AddMember(i, a, level), made' \in {made, made + 1}
  PROVE  /\ DOMAIN members' \subseteq 1 .. made'
         /\ \A j \in DOMAIN members' : members'[j] \in Member
<1>1. 1 .. made \subseteq 1 .. made'
  BY DEF Inv, TypeOK
<1>2. [acc |-> a, level |-> level] \in Member
  BY DEF Member
<1> QED BY <1>1, <1>2 DEF Inv, TypeOK, AddMember

LEMMA EditorsType ==
  ASSUME Inv
  PROVE  Editors \in Nat
<1>1. IsFiniteSet(1 .. made)
  BY FS_Interval DEF Inv, TypeOK
<1>2. {i \in DOMAIN members : isEditor(members[i].level)} \subseteq 1 .. made
  BY DEF Inv, TypeOK
<1>3. IsFiniteSet({i \in DOMAIN members : isEditor(members[i].level)})
  BY <1>1, <1>2, FS_Subset
<1> QED BY <1>3, FS_CardinalityType DEF Editors

-------------------------------------------------------------------------------
(* Requests that read                                                      *)

LEMMA ReadsInv ==
  ASSUME Inv, NEW c \in Clients,
         \/ Arrive(c) \/ Route(c) \/ FindLevel(c) \/ CountLevel(c) \/ LimitLevel(c)
         \/ FindRemoved(c) \/ FindInvited(c) \/ FindPending(c) \/ FindUninvited(c)
         \/ Accept(c) \/ FindAccepting(c) \/ LimitAccepted(c) \/ CountAccepted(c)
         \/ Enter(c) \/ FindEmail(c) \/ FindConfirmed(c) \/ CheckConfirmed(c)
         \/ FindClosed(c) \/ FindChange(c) \/ FindCheckout(c)
  PROVE  Inv'
<1> DEFINE t == tx[c]
<1>0. /\ t \in Tx /\ Fit(t) /\ made \in Nat /\ 1 .. made \subseteq Nat
      /\ used \subseteq Accounts
  BY DEF Inv, TypeOK, RequestsFit, Fit
<1>1. CASE Arrive(c)
  <2> PICK i \in DOMAIN members, op \in Routes :
        Open(c, [NoTx EXCEPT !.op = op, !.stage = "route", !.me = i,
                             !.my = members[i].level])
    BY <1>1 DEF Arrive
  <2> DEFINE u == [NoTx EXCEPT !.op = op, !.stage = "route", !.me = i,
                               !.my = members[i].level]
  <2>1. i \in Nat /\ members[i].level \in Levels
    BY <1>0 DEF Inv, TypeOK, Member
  <2>2. u \in Tx
    BY <2>1, NoTxType DEF Tx
  <2>3. Fit(u)
    BY BoundAssumption DEF Fit, NoTx, Routes
  <2> QED BY <2>2, <2>3, OpenInv
<1>2. CASE Route(c)
  <2>1. [t EXCEPT !.stage = "find", !.sub = sub] \in Tx
    BY <1>0 DEF Tx, Inv, TypeOK
  <2>2. Fit([t EXCEPT !.stage = "find", !.sub = sub])
    BY <1>0, <1>2 DEF Fit, Tx, Route
  <2> QED BY <1>2, <2>1, <2>2, GoInv DEF Route
<1>3. CASE FindLevel(c)
  <2> PICK i \in DOMAIN members, want \in Levels :
        Go(c, [t EXCEPT !.id = i, !.acc = members[i].acc,
                        !.level = members[i].level, !.want = want,
                        !.stage = IF isEditor(want) THEN "count" ELSE "store"])
    BY <1>3 DEF FindLevel
  <2> DEFINE u == [t EXCEPT !.id = i, !.acc = members[i].acc,
                        !.level = members[i].level, !.want = want,
                        !.stage = IF isEditor(want) THEN "count" ELSE "store"]
  <2>1. i \in 1 .. made /\ members[i].acc \in Accounts /\ members[i].level \in Levels
    BY DEF Inv, TypeOK, Member
  <2>2. u \in Tx
    BY <1>0, <2>1 DEF Tx
  <2>3. Fit(u)
    BY <1>0, <1>3, <2>1 DEF Fit, Tx, FindLevel, At
  <2> QED BY <2>2, <2>3, GoInv
<1>4. CASE CountLevel(c)
  <2> DEFINE u == [t EXCEPT !.seats = Editors, !.stage = "limit"]
  <2>2. u \in Tx
    BY <1>0, EditorsType DEF Tx
  <2>3. Fit(u)
    BY <1>0, <1>4 DEF Fit, Tx, CountLevel, At
  <2> QED BY <1>4, <2>2, <2>3, GoInv DEF CountLevel
<1>5. CASE LimitLevel(c)
  <2> DEFINE u == [t EXCEPT !.stage = "store"]
  <2>1. u \in Tx /\ Fit(u)
    BY <1>0, <1>5 DEF Tx, Fit, LimitLevel, At
  <2> QED BY <1>5, <2>1, GoInv DEF LimitLevel
<1>6. CASE FindRemoved(c)
  <2> PICK i \in DOMAIN members : Go(c, [t EXCEPT !.id = i, !.stage = "store"])
    BY <1>6 DEF FindRemoved
  <2>1. i \in Nat
    BY <1>0 DEF Inv, TypeOK
  <2>2. [t EXCEPT !.id = i, !.stage = "store"] \in Tx
    BY <1>0, <2>1 DEF Tx
  <2>3. Fit([t EXCEPT !.id = i, !.stage = "store"])
    BY <1>0, <1>6 DEF Fit, Tx, FindRemoved, At
  <2> QED BY <2>2, <2>3, GoInv
<1>7. CASE FindInvited(c)
  <2> PICK e \in Emails, want \in Levels :
        Go(c, [t EXCEPT !.email = e, !.want = want, !.stage = "count"])
    BY <1>7 DEF FindInvited
  <2>1. [t EXCEPT !.email = e, !.want = want, !.stage = "count"] \in Tx
    BY <1>0 DEF Tx
  <2>2. Fit([t EXCEPT !.email = e, !.want = want, !.stage = "count"])
    BY <1>0, <1>7 DEF Fit, Tx, FindInvited, At
  <2> QED BY <2>1, <2>2, GoInv
<1>8. CASE FindPending(c) \/ CountAccepted(c) \/ CheckConfirmed(c)
  <2> DEFINE u == [t EXCEPT !.stage = "store"]
  <2>1. u \in Tx /\ Fit(u)
    BY <1>0, <1>8 DEF Tx, Fit, FindPending, CountAccepted, CheckConfirmed, At
  <2> QED BY <1>8, <2>1, GoInv DEF FindPending, CountAccepted, CheckConfirmed
<1>9. CASE FindUninvited(c)
  <2> PICK i \in DOMAIN invites : Go(c, [t EXCEPT !.id = i, !.stage = "store"])
    BY <1>9 DEF FindUninvited
  <2>1. i \in Nat
    BY <1>0 DEF Inv, TypeOK
  <2>2. [t EXCEPT !.id = i, !.stage = "store"] \in Tx
    BY <1>0, <2>1 DEF Tx
  <2>3. Fit([t EXCEPT !.id = i, !.stage = "store"])
    BY <1>0, <1>9 DEF Fit, Tx, FindUninvited, At
  <2> QED BY <2>2, <2>3, GoInv
<1>10. CASE Accept(c)
  <2> PICK i \in DOMAIN invites :
        Open(c, [NoTx EXCEPT !.op = "accept", !.stage = "find", !.id = i,
                             !.email = invites[i].email, !.want = invites[i].level])
    BY <1>10 DEF Accept
  <2> DEFINE u == [NoTx EXCEPT !.op = "accept", !.stage = "find", !.id = i,
                               !.email = invites[i].email, !.want = invites[i].level]
  <2>1. i \in Nat /\ invites[i].email \in Emails /\ invites[i].level \in Levels
    BY <1>0 DEF Inv, TypeOK, Invite
  <2>2. u \in Tx
    BY <2>1, NoTxType DEF Tx
  <2>3. Fit(u)
    BY <2>1 DEF Fit, NoTx
  <2> QED BY <2>2, <2>3, OpenInv
<1>11. CASE LimitAccepted(c)
  <2> DEFINE u == [t EXCEPT !.seats = sub.seats,
                       !.stage = IF isEditor(t.want) THEN "count" ELSE "store"]
  <2>1. sub.seats \in Nat
    BY BoundAssumption DEF Inv, TypeOK, Subscription
  <2>2. u \in Tx
    BY <1>0, <2>1 DEF Tx
  <2>3. t.op = "accept" /\ t.stage = "limit" /\ sub.seats \in 0 .. MaxSeats
    BY <1>11 DEF LimitAccepted, At, Inv, TypeOK, Subscription
  <2>4. u.op = "accept" /\ u.acc = t.acc /\ u.seats = sub.seats
    BY <1>0, <2>3 DEF Tx
  <2>5. Fit(u)
    BY <1>0, <2>3, <2>4 DEF Fit
  <2> QED BY <1>11, <2>2, <2>5, GoInv DEF LimitAccepted
<1>12. CASE FindClosed(c)
  <2> DEFINE u == [t EXCEPT !.op = "close", !.stage = "store"]
  <2>1. t.op = "account" /\ Go(c, u)
    BY <1>12 DEF FindClosed, At
  <2>2. u \in Tx
    BY <1>0 DEF Tx
  <2>3. Fit(u)
    BY <1>0, <2>1 DEF Fit, Tx
  <2> QED BY <2>1, <2>2, <2>3, GoInv
<1>13. CASE FindChange(c) \/ FindCheckout(c)
  <2>1. PICK n \in Editors .. MaxSeats, s \in {"store", "limit"} :
          Go(c, [t EXCEPT !.seats = n, !.stage = s])
    BY <1>13 DEF FindChange, FindCheckout
  <2>2. n \in Nat
    BY EditorsType, BoundAssumption
  <2>3. [t EXCEPT !.seats = n, !.stage = s] \in Tx
    BY <1>0, <2>2 DEF Tx
  <2>4. Fit([t EXCEPT !.seats = n, !.stage = s])
    <3>1. n \in 0 .. MaxSeats
      BY EditorsType, BoundAssumption
    <3>2. t.op \in {"change", "checkout"}
      BY <1>13 DEF FindChange, FindCheckout, At
    <3> QED BY <1>0, <3>1, <3>2 DEF Fit, Tx
  <2> QED BY <2>1, <2>3, <2>4, GoInv
<1>14. CASE FindAccepting(c)
  <2> PICK a \in AccountsAt(t.email) : Go(c, [t EXCEPT !.acc = a, !.stage = "limit"])
    BY <1>14 DEF FindAccepting
  <2> DEFINE u == [t EXCEPT !.acc = a, !.stage = "limit"]
  <2>1. a \in Accounts /\ t.op = "accept"
    BY <1>0, <1>14 DEF AccountsAt, Inv, TypeOK, FindAccepting, At
  <2>2. u \in Tx /\ Fit(u)
    BY <1>0, <2>1 DEF Tx, Fit
  <2> QED BY <2>2, GoInv
<1>15. CASE Enter(c)
  <2> PICK a \in DOMAIN accounts :
        Open(c, [NoTx EXCEPT !.op = "account", !.stage = "find", !.acc = a,
                             !.row = accounts[a]])
    BY <1>15 DEF Enter
  <2> DEFINE u == [NoTx EXCEPT !.op = "account", !.stage = "find", !.acc = a,
                               !.row = accounts[a]]
  <2>1. a \in used /\ a \in Accounts /\ accounts[a] \in Account
    BY DEF Inv, TypeOK
  <2>2. u \in Tx
    BY <2>1, NoTxType DEF Tx
  <2>3. Fit(u)
    BY <2>1 DEF Fit, NoTx
  <2> QED BY <2>2, <2>3, OpenInv
<1>16. CASE FindEmail(c)
  <2> PICK e \in Emails :
        Go(c, [t EXCEPT !.row = [email |-> @.email, sent |-> {e}], !.stage = "store"])
    BY <1>16 DEF FindEmail
  <2> DEFINE row == [email |-> t.row.email, sent |-> {e}]
             u   == [t EXCEPT !.row = row, !.stage = "store"]
  <2>1. t.op = "account" /\ t.row \in Account /\ Go(c, u)
    BY <1>0, <1>16 DEF FindEmail, At, Fit
  <2>2. row \in Account
    BY <2>1 DEF Account
  <2> HIDE DEF row
  <2>3. u \in Tx
    BY <1>0, <2>2 DEF Tx
  <2>4. Fit(u)
    BY <1>0, <2>1, <2>2 DEF Fit, Tx
  <2> QED BY <2>1, <2>3, <2>4, GoInv
<1>17. CASE FindConfirmed(c)
  <2> PICK a \in DOMAIN accounts : \E e \in accounts[a].sent :
        Open(c, [NoTx EXCEPT !.op = "confirm", !.stage = "find", !.acc = a,
                             !.row = [email |-> e, sent |-> {}]])
    BY <1>17 DEF FindConfirmed
  <2> PICK e \in accounts[a].sent :
        Open(c, [NoTx EXCEPT !.op = "confirm", !.stage = "find", !.acc = a,
                             !.row = [email |-> e, sent |-> {}]])
    OBVIOUS
  <2> DEFINE row == [email |-> e, sent |-> {}]
             u   == [NoTx EXCEPT !.op = "confirm", !.stage = "find", !.acc = a, !.row = row]
  <2>1. a \in used /\ a \in Accounts /\ accounts[a] \in Account
    BY DEF Inv, TypeOK
  <2>2. row \in Account /\ Open(c, u)
    BY <2>1 DEF Account
  <2> HIDE DEF row
  <2>3. u \in Tx
    BY <2>1, <2>2, NoTxType DEF Tx
  <2>4. Fit(u)
    BY <2>1, <2>2 DEF Fit, NoTx
  <2> QED BY <2>2, <2>3, <2>4, OpenInv
<1> QED BY <1>1, <1>2, <1>3, <1>4, <1>5, <1>6, <1>7, <1>8, <1>9, <1>10, <1>11, <1>12, <1>13,
        <1>14, <1>15, <1>16, <1>17

-------------------------------------------------------------------------------
(* Requests that write                                                     *)

LEMMA WritesInv ==
  ASSUME Inv, NEW c \in Clients,
         \/ StoreLevel(c) \/ Remove(c) \/ Leave(c) \/ StoreInvite(c) \/ Uninvite(c)
         \/ StoreAccepted(c) \/ Close(c) \/ DeleteWorkspace(c) \/ StoreChange(c)
         \/ StoreCancel(c) \/ StartCheckout(c)
         \/ StoreVisit(c) \/ StoreEmail(c) \/ StoreConfirmed(c)
  PROVE  Inv'
<1> DEFINE t == tx[c]
<1>0. t \in Tx /\ Fit(t) /\ made \in Nat /\ made + 1 \in 1 .. made + 1
  BY DEF Inv, TypeOK, RequestsFit, Fit
<1>1. CASE StoreLevel(c)
  <2>1. t.id \in 1 .. made /\ t.acc \in Accounts /\ t.want \in Levels
    BY <1>0, <1>1 DEF StoreLevel, At, Fit, Tx
  <2>2. /\ DOMAIN members' \subseteq 1 .. made
        /\ \A i \in DOMAIN members' : members'[i] \in Member
    <3>1. CASE members' = [members EXCEPT ![t.id].level = t.want]
      BY <2>1, <3>1 DEF Inv, TypeOK, Member
    <3>2. CASE AddMember(t.id, t.acc, t.want)
      BY <1>1, <2>1, <3>2, AddedTypes DEF StoreLevel
    <3> QED BY <1>1, <3>1, <3>2 DEF StoreLevel
  <2> QED BY <1>1, <2>2, DoneFits DEF StoreLevel, Inv, TypeOK
<1>2. CASE Remove(c)
  BY <1>2, DoneFits, DeletedTypes DEF Remove, Inv, TypeOK
<1>3. CASE Leave(c)
  BY <1>3, DoneFits, DeletedTypes DEF Leave, Inv, TypeOK
<1>4. CASE StoreInvite(c)
  <2>1. [email |-> t.email, level |-> t.want, by |-> t.me] \in Invite
    BY <1>0, <1>4 DEF StoreInvite, At, Fit, Tx, Invite
  <2>2. /\ DOMAIN invites' \subseteq 1 .. made + 1
        /\ \A i \in DOMAIN invites' : invites'[i] \in Invite
    BY <1>0, <1>4, <2>1 DEF StoreInvite, Inv, TypeOK
  <2>3. DOMAIN members' \subseteq 1 .. made + 1
    BY <1>0, <1>4 DEF StoreInvite, Inv, TypeOK
  <2>4. tx' \in [Clients -> Tx] /\ begun' \in 0 .. MaxRequests /\ RequestsFit'
    BY <1>4, DoneFits DEF StoreInvite
  <2>5. made' = made + 1
        /\ UNCHANGED <<workspace, members, accounts, used, sub, sessions>>
    BY <1>4 DEF StoreInvite
  <2> QED BY <1>0, <2>2, <2>3, <2>4, <2>5 DEF Inv, TypeOK
<1>5. CASE Uninvite(c)
  BY <1>5, DoneFits DEF Uninvite, DeleteInvite, Inv, TypeOK
<1>6. CASE StoreAccepted(c)
  <2>1. t.acc \in Accounts /\ t.want \in Levels
    BY <1>0, <1>6 DEF StoreAccepted, At, Fit, Tx
  <2>2. /\ DOMAIN members' \subseteq 1 .. made'
        /\ \A i \in DOMAIN members' : members'[i] \in Member
    BY <1>0, <1>6, <2>1, AddedTypes DEF StoreAccepted
  <2>3. /\ DOMAIN invites' \subseteq 1 .. made'
        /\ \A i \in DOMAIN invites' : invites'[i] \in Invite
    BY <1>0, <1>6 DEF StoreAccepted, DeleteInvite, Inv, TypeOK
  <2> QED BY <1>0, <1>6, <2>2, <2>3, DoneFits DEF StoreAccepted, Inv, TypeOK
<1>7. CASE Close(c)
  BY <1>7, DoneFits, DeletedTypes DEF Close, Inv, TypeOK
<1>8. CASE DeleteWorkspace(c)
  BY <1>8, DoneFits DEF DeleteWorkspace, Inv, TypeOK
<1>9. CASE StoreChange(c) \/ StoreCancel(c)
  <2>1. PICK row \in Subscription : StoreSubscription(c, row)
    <3>1. CASE StoreCancel(c)
      BY <1>0, <3>1 DEF StoreCancel, Tx, Subscription, Statuses
    <3>2. CASE StoreChange(c)
      <4>1. PICK status \in {"active", "past_due"} :
              StoreSubscription(c, [t.sub EXCEPT !.seats = t.seats, !.status = status])
        BY <3>2 DEF StoreChange
      <4>2. t.seats \in 0 .. MaxSeats
        BY <1>0, <3>2 DEF StoreChange, At, Fit
      <4> QED BY <1>0, <4>1, <4>2 DEF Tx, Subscription, Statuses
    <3> QED BY <1>9, <3>1, <3>2
  <2> QED BY <2>1, DoneFits DEF StoreSubscription, Inv, TypeOK
<1>10. CASE StartCheckout(c)
  <2>1. t.seats \in 0 .. MaxSeats
    BY <1>0, <1>10 DEF StartCheckout, At, Fit
  <2> QED BY <1>10, <2>1, DoneFits DEF StartCheckout, Inv, TypeOK
<1>11. CASE StoreVisit(c) \/ StoreEmail(c) \/ StoreConfirmed(c)
  <2>1. t.acc \in used /\ t.row \in Account /\ StoreAccount(c, t.row)
    BY <1>0, <1>11 DEF StoreVisit, StoreEmail, StoreConfirmed, At, Fit
  <2>2. /\ DOMAIN accounts' \subseteq used
        /\ \A a \in DOMAIN accounts' : accounts'[a] \in Account
    BY <2>1 DEF StoreAccount, Inv, TypeOK
  <2> QED BY <2>1, <2>2, DoneFits DEF StoreAccount, Inv, TypeOK
<1> QED BY <1>1, <1>2, <1>3, <1>4, <1>5, <1>6, <1>7, <1>8, <1>9, <1>10, <1>11

\* Steps that are not part of a request that reads first.
LEMMA OthersInv ==
  ASSUME Inv,
         \/ Expire \/ UNCHANGED vars
         \/ \E c \in Clients : \/ Register(c) \/ CompleteCheckout(c)
                               \/ UpdateSubscription(c) \/ Fail(c)
  PROVE  Inv'
<1>1. CASE Expire \/ UNCHANGED vars
  BY <1>1 DEF Expire, vars, Inv, TypeOK, RequestsFit, Subscription, Statuses
<1>2. CASE \E c \in Clients : Fail(c)
  BY <1>2, NoTxType, NoTxFits, GoInv DEF Fail, Go
<1>3. CASE \E c \in Clients : Register(c)
  <2>1. PICK a \in Accounts \ used, e \in Emails :
          /\ accounts' = [b \in DOMAIN accounts \cup {a} |->
                            IF b = a THEN [email |-> e, sent |-> {e}] ELSE accounts[b]]
          /\ used' = used \cup {a}
    BY <1>3 DEF Register
  <2>2. [email |-> e, sent |-> {e}] \in Account
    BY DEF Account
  <2>3. /\ DOMAIN accounts' \subseteq used' /\ used' \subseteq Accounts
        /\ \A b \in DOMAIN accounts' : accounts'[b] \in Account
    BY <2>1, <2>2 DEF Inv, TypeOK
  <2>4. begun' \in 0 .. MaxRequests
    BY <1>3, BoundAssumption DEF Register, Inv, TypeOK
  <2>5. UNCHANGED <<workspace, members, invites, made, sub, sessions, tx>>
    BY <1>3 DEF Register
  <2>6. TypeOK'
    BY <2>3, <2>4, <2>5 DEF Inv, TypeOK
  <2>7. RequestsFit'
    BY <2>1, <2>5 DEF Inv, RequestsFit
  <2> QED BY <2>6, <2>7 DEF Inv
<1>4. CASE \E c \in Clients : CompleteCheckout(c)
  <2>1. begun' \in 0 .. MaxRequests
    BY <1>4, BoundAssumption DEF CompleteCheckout, Inv, TypeOK
  <2>2. sub' \in Subscription /\ sessions' \subseteq 0 .. MaxSeats
    BY <1>4 DEF CompleteCheckout, Inv, TypeOK, Subscription, Statuses
  <2> QED BY <1>4, <2>1, <2>2 DEF CompleteCheckout, Inv, TypeOK, RequestsFit
<1>5. CASE \E c \in Clients : UpdateSubscription(c)
  <2>1. begun' \in 0 .. MaxRequests
    <3>1. begun < MaxRequests /\ begun' = begun + 1
      BY <1>5, Zenon DEF UpdateSubscription
    <3>2. begun \in 0 .. MaxRequests
      BY DEF Inv, TypeOK
    <3> QED BY <3>1, <3>2, BoundAssumption
  <2>2. sub' \in Subscription
    BY <1>5 DEF UpdateSubscription, Inv, TypeOK, Subscription, Statuses
  <2> QED BY <1>5, <2>1, <2>2 DEF UpdateSubscription, Inv, TypeOK, RequestsFit
<1> QED BY <1>1, <1>2, <1>3, <1>4, <1>5

LEMMA NextInv == Inv /\ [Next]_vars => Inv'
BY ReadsInv, WritesInv, OthersInv DEF Next

\* Every reachable state is well typed.
THEOREM TypeCorrect == Spec => []TypeOK
<1>1. Spec => []Inv
  BY InitInv, NextInv, PTL DEF Spec
<1>2. Inv => TypeOK
  BY DEF Inv
<1> QED BY <1>1, <1>2, PTL

-------------------------------------------------------------------------------
(* The tables agree                                                        *)

AccountsAgree == \A a \in DOMAIN accounts : AccountsAt(accounts[a].email) = {a}

MembersAgree ==
  \A i \in DOMAIN members :
    members[i].acc \in DOMAIN accounts /\ MembersOf(members[i].acc) = {i}

InvitesAgree ==
  \A i \in DOMAIN invites :
    invites[i].by \in DOMAIN members /\ InvitesTo(invites[i].email) = {i}

\* A row with an address that no other account has, inserted or updated.
LEMMA AccountAgrees ==
  ASSUME AccountsAgree, NEW a, NEW row, AccountsAt(row.email) \subseteq {a},
         accounts' = [b \in DOMAIN accounts \cup {a} |-> IF b = a THEN row ELSE accounts[b]]
  PROVE  AccountsAgree' /\ DOMAIN accounts \subseteq DOMAIN accounts'
<1>1. /\ DOMAIN accounts' = DOMAIN accounts \cup {a} /\ accounts'[a] = row
      /\ \A b \in DOMAIN accounts \ {a} : accounts'[b] = accounts[b]
  OBVIOUS
<1>2. ASSUME NEW b \in DOMAIN accounts', NEW d \in DOMAIN accounts',
             accounts'[b].email = accounts'[d].email
      PROVE  b = d
  BY <1>1, <1>2 DEF AccountsAgree, AccountsAt
<1> QED BY <1>1, <1>2 DEF AccountsAgree, AccountsAt

LEMMA AddAgrees ==
  ASSUME Inv, MembersAgree, NEW a \in Accounts, NEW level \in Levels, NEW i \in Nat,
         i \notin DOMAIN members, MemberFits(a), AddMember(i, a, level),
         accounts' = accounts
  PROVE  MembersAgree' /\ DOMAIN members \subseteq DOMAIN members'
<1>1. /\ DOMAIN members' = DOMAIN members \cup {i}
      /\ members'[i] = [acc |-> a, level |-> level]
      /\ \A j \in DOMAIN members : members'[j] = members[j]
  BY DEF AddMember
<1>2. \A j \in DOMAIN members : members[j].acc # a
  BY DEF MemberFits, MembersOf
<1>3. ASSUME NEW j \in DOMAIN members'
      PROVE  members'[j].acc \in DOMAIN accounts' /\ MembersOf(members[j].acc)' = {j}
  <2>1. CASE j = i
    BY <1>1, <1>2, <2>1 DEF MemberFits, MembersOf
  <2>2. CASE j # i
    <3>1. members[j].acc \in DOMAIN accounts /\ MembersOf(members[j].acc) = {j}
      BY <1>1, <1>3, <2>2 DEF MembersAgree
    <3> QED BY <1>1, <1>2, <1>3, <2>2, <3>1 DEF MembersOf
  <2> QED BY <2>1, <2>2
<1> QED BY <1>1, <1>3 DEF MembersAgree

LEMMA DeleteAgrees ==
  ASSUME Inv, TablesAgree, NEW S, DeleteMembers(S), UNCHANGED workspace, AccountsAgree',
         \A i \in DOMAIN members \ S : members[i].acc \in DOMAIN accounts'
  PROVE  TablesAgree'
<1>1. MembersAgree'
  BY DEF DeleteMembers, TablesAgree, MembersAgree, MembersOf
<1>2. InvitesAgree'
  BY DEF DeleteMembers, TablesAgree, InvitesAgree, InvitesTo
<1>3. DOMAIN members' \cup DOMAIN invites' # {} => workspace'
  BY DEF DeleteMembers, TablesAgree
<1> QED BY <1>1, <1>2, <1>3 DEF TablesAgree, AccountsAgree, MembersAgree, InvitesAgree

\* Removing one invite, or none.
LEMMA UninviteAgrees ==
  ASSUME TablesAgree, NEW i, DeleteInvite(i), UNCHANGED workspace,
         DOMAIN members \subseteq DOMAIN members'
  PROVE  InvitesAgree'
BY DEF DeleteInvite, TablesAgree, InvitesAgree, InvitesTo

LEMMA StoreAgrees ==
  ASSUME Inv, TablesAgree, NEW c \in Clients,
         StoreLevel(c) \/ StoreInvite(c) \/ StoreAccepted(c)
  PROVE  TablesAgree'
<1> DEFINE t == tx[c]
<1>0. t \in Tx /\ made \in Nat /\ AccountsAgree /\ MembersAgree /\ InvitesAgree
  BY DEF Inv, TypeOK, TablesAgree, AccountsAgree, MembersAgree, InvitesAgree
<1>4. AccountsAgree'
  BY <1>0 DEF StoreLevel, StoreInvite, StoreAccepted, AccountsAgree, AccountsAt
<1>1. CASE StoreLevel(c)
  <2>1. CASE t.id \in DOMAIN members /\ members' = [members EXCEPT ![t.id].level = t.want]
    <3>1. /\ DOMAIN members' = DOMAIN members
          /\ \A i \in DOMAIN members : members'[i].acc = members[i].acc
      BY <2>1 DEF Inv, TypeOK, Member
    <3>2. UNCHANGED <<workspace, invites, accounts>>
      BY <1>1 DEF StoreLevel
    <3> QED BY <3>1, <3>2 DEF TablesAgree, MembersOf, InvitesTo, AccountsAt
  <2>2. CASE t.id \notin DOMAIN members /\ MemberFits(t.acc)
             /\ AddMember(t.id, t.acc, t.want)
    <3>1. t.id \in Nat /\ t.acc \in Accounts /\ t.want \in Levels
      BY <1>0, <1>1 DEF StoreLevel, At, Inv, RequestsFit, Tx
    <3>2. UNCHANGED <<workspace, invites, accounts>>
      BY <1>1 DEF StoreLevel
    <3>3. MembersAgree' /\ DOMAIN members \subseteq DOMAIN members'
      BY <1>0, <2>2, <3>1, <3>2, AddAgrees
    <3>4. InvitesAgree'
      BY <1>0, <3>2, <3>3 DEF InvitesAgree, InvitesTo
    <3> QED BY <1>4, <2>2, <3>2, <3>3, <3>4
          DEF TablesAgree, AccountsAgree, MembersAgree, InvitesAgree, MemberFits
  <2> QED BY <1>1, <2>1, <2>2 DEF StoreLevel
<1>2. CASE StoreInvite(c)
  <2>1. /\ invites' = [i \in DOMAIN invites \cup {made + 1} |->
                         IF i = made + 1
                           THEN [email |-> t.email, level |-> t.want, by |-> t.me]
                           ELSE invites[i]]
        /\ InviteFits(t.email, t.me)
        /\ UNCHANGED <<workspace, members, accounts>>
    BY <1>2 DEF StoreInvite
  <2>2. made + 1 \notin DOMAIN invites
    BY <1>0 DEF Inv, TypeOK
  <2>3. ASSUME NEW i \in DOMAIN invites'
        PROVE  invites'[i].by \in DOMAIN members /\ InvitesTo(invites[i].email)' = {i}
    <3>1. CASE i = made + 1
      BY <2>1, <2>2, <3>1 DEF InviteFits, InvitesTo
    <3>2. CASE i # made + 1
      <4>1. invites[i].by \in DOMAIN members /\ InvitesTo(invites[i].email) = {i}
        BY <1>0, <2>1, <2>3, <3>2 DEF InvitesAgree
      <4>2. invites[i].email # t.email
        BY <2>1, <2>3, <3>2 DEF InviteFits, InvitesTo
      <4> QED BY <2>1, <2>2, <2>3, <3>2, <4>1, <4>2 DEF InvitesTo
    <3> QED BY <3>1, <3>2
  <2>4. InvitesAgree'
    BY <2>1, <2>3 DEF InvitesAgree
  <2>5. MembersAgree'
    BY <1>0, <2>1 DEF MembersAgree, MembersOf
  <2>6. workspace'
    BY <2>1 DEF InviteFits, TablesAgree
  <2> QED BY <1>4, <2>4, <2>5, <2>6 DEF TablesAgree, AccountsAgree, MembersAgree, InvitesAgree
<1>3. CASE StoreAccepted(c)
  <2>1. t.acc \in Accounts /\ t.want \in Levels /\ made + 1 \notin DOMAIN members
    BY <1>0, <1>3 DEF StoreAccepted, At, Inv, TypeOK, RequestsFit, Tx
  <2>2. MembersAgree' /\ DOMAIN members \subseteq DOMAIN members'
    BY <1>0, <1>3, <2>1, AddAgrees DEF StoreAccepted
  <2>3. InvitesAgree'
    BY <1>3, <2>2, UninviteAgrees DEF StoreAccepted
  <2>4. workspace'
    BY <1>3 DEF StoreAccepted, MemberFits
  <2> QED BY <1>4, <2>2, <2>3, <2>4 DEF TablesAgree, AccountsAgree, MembersAgree, InvitesAgree
<1> QED BY <1>1, <1>2, <1>3

LEMMA DropAgrees ==
  ASSUME Inv, TablesAgree, NEW c \in Clients,
         Remove(c) \/ Leave(c) \/ Close(c) \/ Uninvite(c) \/ DeleteWorkspace(c)
  PROVE  TablesAgree'
<1>1. CASE Remove(c) \/ Leave(c)
  <2>1. UNCHANGED <<workspace, accounts>>
    BY <1>1 DEF Remove, Leave
  <2>2. PICK S : DeleteMembers(S)
    BY <1>1 DEF Remove, Leave
  <2>3. AccountsAgree' /\ \A i \in DOMAIN members : members[i].acc \in DOMAIN accounts'
    BY <2>1 DEF TablesAgree, AccountsAgree, AccountsAt
  <2> QED BY <2>1, <2>2, <2>3, DeleteAgrees
<1>2. CASE Close(c)
  <2>1. /\ accounts' = [a \in DOMAIN accounts \ {tx[c].acc} |-> accounts[a]]
        /\ DeleteMembers(MembersOf(tx[c].acc)) /\ UNCHANGED workspace
    BY <1>2 DEF Close
  <2>2. AccountsAgree'
    BY <2>1 DEF TablesAgree, AccountsAgree, AccountsAt
  <2>3. \A i \in DOMAIN members \ MembersOf(tx[c].acc) : members[i].acc \in DOMAIN accounts'
    BY <2>1 DEF TablesAgree, MembersOf
  <2> QED BY <2>1, <2>2, <2>3, DeleteAgrees
<1>3. CASE Uninvite(c)
  <2>1. InvitesAgree'
    BY <1>3, UninviteAgrees DEF Uninvite
  <2>2. MembersAgree'
    BY <1>3 DEF Uninvite, TablesAgree, MembersAgree, MembersOf
  <2>3. AccountsAgree'
    BY <1>3 DEF Uninvite, TablesAgree, AccountsAgree, AccountsAt
  <2>4. DOMAIN members' \cup DOMAIN invites' # {} => workspace'
    BY <1>3 DEF Uninvite, DeleteInvite, TablesAgree
  <2> QED BY <2>1, <2>2, <2>3, <2>4
          DEF TablesAgree, AccountsAgree, MembersAgree, InvitesAgree
<1>4. CASE DeleteWorkspace(c)
  BY <1>4 DEF DeleteWorkspace, TablesAgree, AccountsAt
<1> QED BY <1>1, <1>2, <1>3, <1>4

\* A step that writes an account and no more.
Accounting(c) == StoreVisit(c) \/ StoreEmail(c) \/ StoreConfirmed(c) \/ Register(c)

LEMMA AccountSteps ==
  ASSUME Inv, TablesAgree, NEW c \in Clients, Accounting(c)
  PROVE  TablesAgree' /\ UNCHANGED <<workspace, members, invites>>
<1>1. /\ UNCHANGED <<workspace, members, invites>>
      /\ \E a, row : /\ AccountsAt(row.email) \subseteq {a}
                     /\ accounts' = [b \in DOMAIN accounts \cup {a} |->
                                      IF b = a THEN row ELSE accounts[b]]
  <2>1. CASE StoreVisit(c) \/ StoreEmail(c) \/ StoreConfirmed(c)
    <3>1. StoreAccount(c, tx[c].row)
      BY <2>1 DEF StoreVisit, StoreEmail, StoreConfirmed
    <3> QED BY <3>1, Zenon DEF StoreAccount, AccountFits
  <2>2. CASE Register(c)
    <3>1. PICK a \in Accounts \ used, e \in Emails :
            /\ AccountsAt(e) = {}
            /\ accounts' = [b \in DOMAIN accounts \cup {a} |->
                             IF b = a THEN [email |-> e, sent |-> {e}] ELSE accounts[b]]
      BY <2>2 DEF Register
    <3>2. [email |-> e, sent |-> {e}].email = e
      OBVIOUS
    <3> QED BY <2>2, <3>1, <3>2 DEF Register
  <2> QED BY <2>1, <2>2 DEF Accounting
<1>2. AccountsAgree' /\ DOMAIN accounts \subseteq DOMAIN accounts'
  BY <1>1, AccountAgrees DEF TablesAgree, AccountsAgree
<1> QED BY <1>1, <1>2 DEF TablesAgree, AccountsAgree, MembersOf, InvitesTo

\* A step that is not of the three lemmas above leaves the tables as they are.
LEMMA TableSteps ==
  ASSUME [Next]_vars
  PROVE  \/ UNCHANGED <<workspace, members, invites, accounts>>
         \/ \E c \in Clients :
              \/ StoreLevel(c) \/ StoreInvite(c) \/ StoreAccepted(c)
              \/ Remove(c) \/ Leave(c) \/ Close(c) \/ Uninvite(c) \/ DeleteWorkspace(c)
              \/ Accounting(c)
<1> DEFINE Kept == UNCHANGED <<workspace, members, invites, accounts>>
<1>1. CASE Expire \/ UNCHANGED vars
  BY <1>1 DEF Expire, vars
<1>2. ASSUME NEW c \in Clients, NEW t, Go(c, t) \/ Open(c, t) PROVE Kept
  BY <1>2 DEF Go, Open, tables
<1>3. ASSUME NEW c \in Clients,
             \/ Arrive(c) \/ Route(c) \/ FindLevel(c) \/ CountLevel(c) \/ LimitLevel(c)
             \/ FindRemoved(c) \/ FindInvited(c) \/ FindPending(c) \/ FindUninvited(c)
      PROVE  \E t : Go(c, t) \/ Open(c, t)
  BY <1>3, Zenon DEF Arrive, Route, FindLevel, CountLevel, LimitLevel, FindRemoved,
                     FindInvited, FindPending, FindUninvited
<1>4. ASSUME NEW c \in Clients,
             \/ Accept(c) \/ FindAccepting(c) \/ LimitAccepted(c) \/ CountAccepted(c)
             \/ FindClosed(c) \/ FindChange(c) \/ FindCheckout(c)
             \/ Enter(c) \/ FindEmail(c) \/ FindConfirmed(c) \/ CheckConfirmed(c)
      PROVE  \E t : Go(c, t) \/ Open(c, t)
  BY <1>4, Zenon DEF Accept, FindAccepting, LimitAccepted, CountAccepted, FindClosed,
                     FindChange, FindCheckout, Enter, FindEmail, FindConfirmed,
                     CheckConfirmed
<1>5. ASSUME NEW c \in Clients,
             \/ StoreChange(c) \/ StoreCancel(c) \/ StartCheckout(c)
             \/ CompleteCheckout(c) \/ UpdateSubscription(c) \/ Fail(c)
      PROVE  Kept
  BY <1>5 DEF StoreChange, StoreCancel, StartCheckout, CompleteCheckout,
              UpdateSubscription, Fail, StoreSubscription, tables
<1> QED BY <1>1, <1>2, <1>3, <1>4, <1>5 DEF Next, Accounting

\* Whatever requests run beside each other, an account has an address of its own, a
\* member an account and one membership, and an invite a member who made it and an
\* address of its own.
THEOREM TablesStayConsistent == Spec => []TablesAgree
<1>1. Init => TablesAgree
  BY StartAssumption, AccountsAssumption
  DEF Init, TablesAgree, MembersOf, InvitesTo, AccountsAt, Member
<1>2. ASSUME Inv, TablesAgree, [Next]_vars PROVE TablesAgree'
  <2>1. CASE UNCHANGED <<workspace, members, invites, accounts>>
    BY <1>2, <2>1 DEF TablesAgree, MembersOf, InvitesTo, AccountsAt
  <2> QED BY <1>2, <2>1, TableSteps, StoreAgrees, DropAgrees, AccountSteps
<1> QED BY <1>1, <1>2, InitInv, NextInv, PTL DEF Spec

-------------------------------------------------------------------------------
(* One request at a time                                                   *)

\* What a request has read is so until it writes.
Current ==
  \A c \in Clients :
    LET t == tx[c]
    IN  /\ t.op \in Routes => t.me \in DOMAIN members /\ members[t.me].level = t.my
        /\ t.op \in {"level", "remove"} /\ t.stage # "route" => isAdmin(t.my)
        /\ t.op = "level" /\ t.stage \in {"count", "limit", "store"} =>
             t.id \in DOMAIN members /\ t.id # t.me
        /\ t.op = "level" /\ t.stage \in {"count", "limit", "store"} =>
             (t.id \in Owners => t.my = "OWNER")
        /\ t.op = "remove" /\ t.stage = "store" =>
             (t.id \in Owners => t.my = "OWNER" /\ t.id # t.me)
        /\ t.op = "close" => t.stage = "store" /\ MembersOf(t.acc) \cap Owners = {}

LEMMA DoneIsCurrent ==
  ASSUME Inv, NEW c, Clients = {c}, tx'[c] = NoTx
  PROVE  Current'
BY DEF Current, NoTx, Routes

LEMMA ReadsAreCurrent ==
  ASSUME Inv, Current, NEW c, Clients = {c}, [Next]_vars,
         UNCHANGED <<workspace, members, invites, accounts>>
  PROVE  Current'
<1> DEFINE t == tx[c]
<1>1. Owners' = Owners /\ \A a \in Accounts \cup {Nobody} : MembersOf(a)' = MembersOf(a)
  BY DEF Owners, MembersOf
<1>2. CASE tx' = tx
  BY <1>1, <1>2 DEF Current, Inv, TypeOK, Tx
<1>3. CASE tx'[c] = NoTx
  BY <1>3, DoneIsCurrent
<1>4. t \in Tx /\ tx \in [Clients -> Tx]
  BY DEF Inv, TypeOK
<1>5. CASE Arrive(c)
  <2>1. PICK i \in DOMAIN members, op \in Routes :
          tx'[c] = [NoTx EXCEPT !.op = op, !.stage = "route", !.me = i,
                                !.my = members[i].level]
    BY <1>4, <1>5 DEF Arrive, Open
  <2>2. /\ tx'[c].op = op /\ tx'[c].stage = "route" /\ tx'[c].me = i
        /\ tx'[c].my = members[i].level
    BY <2>1 DEF NoTx
  <2> QED BY <2>2 DEF Current, Routes, isAdmin
<1>6. CASE Route(c) \/ FindInvited(c) \/ FindPending(c) \/ FindUninvited(c)
           \/ FindChange(c) \/ FindCheckout(c)
  <2>1. /\ tx'[c].op = t.op /\ tx'[c].me = t.me /\ tx'[c].my = t.my
        /\ t.op # "close"
        /\ \/ tx'[c].stage = "find" /\ (t.op \in {"level", "remove"} => isAdmin(t.my))
           \/ t.op \notin {"level", "remove"}
    <3>1. CASE Route(c)
      <4>1. t.op # "close" /\ t.stage = "route"
        BY <3>1 DEF Route, Current
      <4>2. t.op \in {"level", "remove"} => isAdmin(t.my)
        BY <3>1 DEF Route, Admitted
      <4>3. tx'[c] = [t EXCEPT !.stage = "find", !.sub = sub]
        BY <1>4, <3>1 DEF Route, Go
      <4> QED BY <1>4, <4>1, <4>2, <4>3 DEF Tx
    <3>2. CASE FindInvited(c) \/ FindPending(c) \/ FindUninvited(c)
      <4>1. t.op \in {"invite", "uninvite"}
        BY <3>2 DEF FindInvited, FindPending, FindUninvited, At
      <4>2. tx'[c].op = t.op /\ tx'[c].me = t.me /\ tx'[c].my = t.my
        <5>1. CASE FindInvited(c)
          <6>1. PICK e \in Emails, want \in Levels :
                  tx'[c] = [t EXCEPT !.email = e, !.want = want, !.stage = "count"]
            BY <1>4, <5>1 DEF FindInvited, Go
          <6> QED BY <1>4, <6>1 DEF Tx
        <5>2. CASE FindPending(c)
          <6>1. tx'[c] = [t EXCEPT !.stage = "store"]
            BY <1>4, <5>2 DEF FindPending, Go
          <6> QED BY <1>4, <6>1 DEF Tx
        <5>3. CASE FindUninvited(c)
          <6>1. PICK i \in DOMAIN invites :
                  tx'[c] = [t EXCEPT !.id = i, !.stage = "store"]
            BY <1>4, <5>3 DEF FindUninvited, Go
          <6> QED BY <1>4, <6>1 DEF Tx
        <5> QED BY <3>2, <5>1, <5>2, <5>3
      <4> QED BY <4>1, <4>2
    <3>3. CASE FindChange(c) \/ FindCheckout(c)
      <4>1. t.op \in {"change", "checkout"}
        BY <3>3 DEF FindChange, FindCheckout, At
      <4>2. \E n, s : tx'[c] = [t EXCEPT !.seats = n, !.stage = s]
        BY <1>4, <3>3 DEF FindChange, FindCheckout, Go
      <4> QED BY <1>4, <4>1, <4>2 DEF Tx
    <3> QED BY <1>6, <3>1, <3>2, <3>3
  <2> QED BY <2>1 DEF Current, isAdmin
<1>7. CASE FindLevel(c) \/ FindRemoved(c)
  <2>1. /\ t.op \in {"level", "remove"} /\ t.stage = "find"
        /\ t.me \in DOMAIN members /\ members[t.me].level = t.my /\ isAdmin(t.my)
    BY <1>7 DEF FindLevel, FindRemoved, At, Current, Routes, isAdmin
  <2>2. PICK i \in DOMAIN members :
          /\ FindMember(c, i)
          /\ t.op = "level" => i # t.me
          /\ ~(i = t.me /\ t.my = "OWNER")
          /\ tx'[c].op = t.op /\ tx'[c].id = i /\ tx'[c].me = t.me /\ tx'[c].my = t.my
          /\ tx'[c].stage # "route"
    <3>1. CASE FindLevel(c)
      BY <1>4, <3>1 DEF FindLevel, Go, At, Tx
    <3>2. CASE FindRemoved(c)
      BY <1>4, <3>2 DEF FindRemoved, Go, At, Tx
    <3> QED BY <1>7, <3>1, <3>2
  <2>3. i \in Owners => t.my = "OWNER" /\ i # t.me
    BY <2>1, <2>2 DEF FindMember, Owners, isAdmin
  <2> QED BY <1>1, <2>1, <2>2, <2>3 DEF Current, isAdmin
<1>8. CASE CountLevel(c) \/ LimitLevel(c)
  <2>1. /\ t.op = "level" /\ t.stage \in {"count", "limit"}
        /\ tx'[c].op = t.op /\ tx'[c].id = t.id /\ tx'[c].me = t.me /\ tx'[c].my = t.my
        /\ tx'[c].stage # "route"
    <3>1. t.op = "level" /\ t.stage \in {"count", "limit"}
      BY <1>8 DEF CountLevel, LimitLevel, At
    <3>2. CASE CountLevel(c)
      <4>1. tx'[c] = [t EXCEPT !.seats = Editors, !.stage = "limit"]
        BY <1>4, <3>2 DEF CountLevel, Go
      <4> QED BY <1>4, <3>1, <4>1 DEF Tx
    <3>3. CASE LimitLevel(c)
      <4>1. tx'[c] = [t EXCEPT !.stage = "store"]
        BY <1>4, <3>3 DEF LimitLevel, Go
      <4> QED BY <1>4, <3>1, <4>1 DEF Tx
    <3> QED BY <1>8, <3>2, <3>3
  <2> QED BY <1>1, <2>1 DEF Current, isAdmin
<1>9. CASE Accept(c) \/ FindAccepting(c) \/ LimitAccepted(c) \/ CountAccepted(c)
  <2>1. tx'[c].op = "accept"
    <3>1. CASE Accept(c)
      BY <1>4, <3>1 DEF Accept, Open, NoTx
    <3>2. CASE LimitAccepted(c) \/ CountAccepted(c)
      BY <1>4, <3>2 DEF LimitAccepted, CountAccepted, Go, At, Tx
    <3>3. CASE FindAccepting(c)
      <4>1. PICK a : Go(c, [t EXCEPT !.acc = a, !.stage = "limit"])
        BY <3>3 DEF FindAccepting
      <4>2. t.op = "accept"
        BY <3>3 DEF FindAccepting, At
      <4> QED BY <1>4, <4>1, <4>2 DEF Go, Tx
    <3> QED BY <1>9, <3>1, <3>2, <3>3
  <2> QED BY <2>1 DEF Current, Routes
<1>10. CASE FindClosed(c)
  <2>1. /\ tx'[c] = [t EXCEPT !.op = "close", !.stage = "store"]
        /\ MembersOf(t.acc) \cap Owners = {}
    BY <1>4, <1>10 DEF FindClosed, Go
  <2>2. tx'[c].op = "close" /\ tx'[c].stage = "store" /\ tx'[c].acc = t.acc
    BY <1>4, <2>1 DEF Tx
  <2>3. (MembersOf(tx[c].acc) \cap Owners)' = MembersOf(t.acc) \cap Owners
    BY <1>1, <2>2 DEF MembersOf
  <2> QED BY <1>1, <2>1, <2>2, <2>3 DEF Current, Routes
<1>13. CASE Enter(c) \/ FindEmail(c) \/ FindConfirmed(c) \/ CheckConfirmed(c)
  <2>1. tx'[c].op \in {"account", "confirm"}
    <3>1. CASE Enter(c)
      <4>1. PICK a \in DOMAIN accounts :
              tx'[c] = [NoTx EXCEPT !.op = "account", !.stage = "find", !.acc = a,
                                    !.row = accounts[a]]
        BY <1>4, <3>1 DEF Enter, Open
      <4> QED BY <4>1 DEF NoTx
    <3>2. CASE FindConfirmed(c)
      <4>1. PICK a, e :
              Open(c, [NoTx EXCEPT !.op = "confirm", !.stage = "find", !.acc = a,
                                   !.row = [email |-> e, sent |-> {}]])
        BY <3>2 DEF FindConfirmed
      <4> QED BY <1>4, <4>1 DEF Open, NoTx
    <3>3. CASE FindEmail(c)
      <4>1. PICK e : Go(c, [t EXCEPT !.row = [email |-> @.email, sent |-> {e}],
                                     !.stage = "store"])
        BY <3>3 DEF FindEmail
      <4>2. t.op = "account"
        BY <3>3 DEF FindEmail, At
      <4> QED BY <1>4, <4>1, <4>2 DEF Go, Tx
    <3>4. CASE CheckConfirmed(c)
      BY <1>4, <3>4 DEF CheckConfirmed, Go, At, Tx
    <3> QED BY <1>13, <3>1, <3>2, <3>3, <3>4
  <2> QED BY <2>1 DEF Current, Routes
<1>11. CASE \/ StoreLevel(c) \/ Remove(c) \/ Leave(c) \/ StoreInvite(c) \/ Uninvite(c)
            \/ StoreAccepted(c) \/ Close(c) \/ DeleteWorkspace(c) \/ StoreChange(c)
            \/ StoreCancel(c) \/ StartCheckout(c) \/ Fail(c)
            \/ StoreVisit(c) \/ StoreEmail(c) \/ StoreConfirmed(c)
  <2>1. tx'[c] = NoTx
    BY <1>4, <1>11
    DEF StoreLevel, Remove, Leave, StoreInvite, Uninvite, StoreAccepted, Close,
        DeleteWorkspace, StoreChange, StoreCancel, StoreSubscription, StartCheckout,
        Fail, StoreVisit, StoreEmail, StoreConfirmed, StoreAccount, Done
  <2> QED BY <1>3, <2>1
<1>12. CASE \/ Expire \/ Register(c) \/ CompleteCheckout(c) \/ UpdateSubscription(c)
            \/ UNCHANGED vars
  BY <1>2, <1>12 DEF Expire, Register, CompleteCheckout, UpdateSubscription, vars
<1> QED BY <1>5, <1>6, <1>7, <1>8, <1>9, <1>10, <1>11, <1>12, <1>13 DEF Next

\* The first owner is joined by others, or stays.
LEMMA KeepsOwner ==
  ASSUME Inv, Current, AlwaysOwned, NEW c, Clients = {c}, [Next]_vars
  PROVE  AlwaysOwned' /\ Current'
<1> DEFINE t == tx[c]
<1>0. CASE UNCHANGED <<workspace, members, invites, accounts>>
  BY <1>0, ReadsAreCurrent DEF AlwaysOwned, Owners
<1>1. t \in Tx /\ tx \in [Clients -> Tx]
  BY DEF Inv, TypeOK
<1>2. (\E o \in Owners : o \in DOMAIN members' /\ members'[o] = members[o])
        => AlwaysOwned'
  BY DEF AlwaysOwned, Owners
<1>3. ASSUME \/ StoreLevel(c) \/ StoreInvite(c) \/ StoreAccepted(c)
             \/ Remove(c) \/ Leave(c) \/ Close(c) \/ Uninvite(c) \/ DeleteWorkspace(c)
      PROVE  Current'
  <2>1. tx'[c] = NoTx
    BY <1>1, <1>3 DEF StoreLevel, StoreInvite, StoreAccepted, Remove, Leave, Close,
                      Uninvite, DeleteWorkspace, Done
  <2> QED BY <2>1, DoneIsCurrent
<1>4. CASE StoreLevel(c)
  <2>1. /\ t.id \in DOMAIN members /\ t.id # t.me
        /\ t.me \in DOMAIN members /\ members[t.me].level = t.my
        /\ t.id \in Owners => t.my = "OWNER"
    <3>1. t.op = "level" /\ t.stage = "store"
      BY <1>4 DEF StoreLevel, At
    <3> QED BY <3>1 DEF Current, Routes, isAdmin
  <2>2. members' = [members EXCEPT ![t.id].level = t.want] /\ workspace' = workspace
    BY <1>4, <2>1 DEF StoreLevel
  <2>3. ASSUME t.id \in Owners PROVE AlwaysOwned'
    <3>1. t.me \in Owners /\ t.me \in DOMAIN members' /\ members'[t.me] = members[t.me]
      BY <2>1, <2>2, <2>3 DEF Owners
    <3> QED BY <1>2, <3>1
  <2>4. ASSUME t.id \notin Owners PROVE AlwaysOwned'
    <3>1. \A o \in Owners : o \in DOMAIN members' /\ members'[o] = members[o]
      BY <2>2, <2>4 DEF Owners
    <3>2. CASE Owners # {}
      BY <1>2, <3>1, <3>2
    <3>3. CASE Owners = {}
      BY <2>2, <3>3 DEF AlwaysOwned
    <3> QED BY <3>2, <3>3
  <2> QED BY <1>3, <1>4, <2>3, <2>4
<1>5. ASSUME NEW S, DeleteMembers(S), UNCHANGED workspace,
             workspace => \E o \in Owners : o \notin S
      PROVE  AlwaysOwned'
  BY <1>5 DEF AlwaysOwned, Owners, DeleteMembers
<1>6. CASE Remove(c)
  <2>1. /\ t.me \in DOMAIN members /\ members[t.me].level = t.my
        /\ t.id \in Owners => t.my = "OWNER" /\ t.id # t.me
    BY <1>6 DEF Remove, At, Current, Routes
  <2>2. workspace => \E o \in Owners : o \notin {t.id}
    BY <2>1 DEF AlwaysOwned, Owners
  <2> QED BY <1>3, <1>5, <1>6, <2>2 DEF Remove
<1>7. CASE Leave(c)
  <2>1. t.me \notin Owners
    BY <1>7 DEF Leave, At, Current, Routes, Owners
  <2>2. workspace => \E o \in Owners : o \notin {t.me}
    BY <2>1 DEF AlwaysOwned
  <2> QED BY <1>3, <1>5, <1>7, <2>2 DEF Leave
<1>8. CASE Close(c)
  <2>1. MembersOf(t.acc) \cap Owners = {}
    BY <1>8 DEF Close, At, Current
  <2>2. workspace => \E o \in Owners : o \notin MembersOf(t.acc)
    BY <2>1 DEF AlwaysOwned
  <2> QED BY <1>3, <1>5, <1>8, <2>2 DEF Close
<1>9. CASE StoreAccepted(c)
  <2>1. /\ made + 1 \notin DOMAIN members /\ workspace' = workspace
        /\ AddMember(made + 1, t.acc, t.want)
    BY <1>9 DEF StoreAccepted, Inv, TypeOK
  <2>2. \A o \in Owners : o \in DOMAIN members' /\ members'[o] = members[o]
    BY <2>1 DEF AddMember, Owners
  <2> QED BY <1>2, <1>3, <1>9, <2>1, <2>2 DEF AlwaysOwned
<1>10. CASE DeleteWorkspace(c)
  BY <1>3, <1>10 DEF DeleteWorkspace, AlwaysOwned
<1>11. CASE StoreInvite(c) \/ Uninvite(c)
  BY <1>3, <1>11 DEF StoreInvite, Uninvite, AlwaysOwned, Owners
<1>12. CASE Accounting(c)
  <2>1. UNCHANGED <<members, workspace>> /\ (tx' = tx \/ tx'[c] = NoTx)
    BY <1>1, <1>12 DEF Accounting, Register, StoreVisit, StoreEmail, StoreConfirmed,
                       StoreAccount, Done
  <2>2. \A a : MembersOf(a)' = MembersOf(a)
    BY <2>1 DEF MembersOf
  <2>3. Current'
    BY <2>1, <2>2, DoneIsCurrent DEF Current, Owners
  <2> QED BY <2>1, <2>3 DEF AlwaysOwned, Owners
<1> QED BY <1>0, <1>4, <1>6, <1>7, <1>8, <1>9, <1>10, <1>11, <1>12, TableSteps

\* While requests run one after another, a workspace that is there has an owner.
THEOREM OwnerRemains ==
  ASSUME NEW c, Clients = {c}
  PROVE  Spec => []AlwaysOwned
<1>1. Init => AlwaysOwned /\ Current
  BY StartAssumption DEF Init, AlwaysOwned, Owners, Current, NoTx, Routes
<1>2. Inv /\ Current /\ AlwaysOwned /\ [Next]_vars => AlwaysOwned' /\ Current'
  BY KeepsOwner
<1> QED BY <1>1, <1>2, InitInv, NextInv, PTL DEF Spec

-------------------------------------------------------------------------------
(* Seats and invites, one request at a time                                *)

\* What a request has found out about invites, addresses, editors and seats.
Knows(t) ==
  /\ t.op = "accept" =>
       /\ t.stage \in {"find", "limit", "count", "store"}
       /\ t.id \in DOMAIN invites /\ invites[t.id].email = t.email
       /\ t.stage # "find" => t.acc \in AccountsAt(t.email)
  /\ t.op = "invite" /\ t.stage \in {"count", "store"} => MembersAt(t.email) = {}
  /\ t.op = "account" => t.stage # "idle" /\ t.acc \in AccountsAt(t.row.email)
  /\ t.op = "level" /\ t.stage \in {"count", "limit", "store"} =>
       t.id \in DOMAIN members /\ members[t.id].level = t.level
  /\ t.op = "level" /\ t.stage = "limit" => t.seats = Editors
  /\ t.op = "level" /\ t.stage = "store" /\ isEditor(t.want) =>
       isEditor(t.level) \/ Editors + 1 <= sub.seats
  /\ t.op = "accept" /\ t.stage = "count" => t.seats = sub.seats
  /\ t.op = "accept" /\ t.stage = "store" /\ isEditor(t.want) => Editors < sub.seats
  /\ t.op = "change" /\ t.stage \in {"find", "store"} => t.sub.row = sub.row
  /\ t.op = "change" /\ t.stage = "store" => Editors <= t.seats

Informed == \A c \in Clients : Knows(tx[c])

LEMMA NoTxKnows == Knows(NoTx)
BY DEF Knows, NoTx

\* A step of the one request that changes neither members nor invites nor seats.
LEMMA StillInformed ==
  ASSUME NEW c, Clients = {c}, UNCHANGED <<members, invites, accounts>>,
         sub'.row = sub.row, sub'.seats = sub.seats, NEW u, tx'[c] = u, Knows(u)
  PROVE  Informed'
<1>1. Editors' = Editors /\ \A e : AccountsAt(e)' = AccountsAt(e) /\ MembersAt(e)' = MembersAt(e)
  BY DEF Editors, MembersOf, AccountsAt, MembersAt
<1>2. Knows(u)'
  BY <1>1 DEF Knows
<1> QED BY <1>2 DEF Informed

\* A request that is answered knows nothing.
LEMMA DoneInformed ==
  ASSUME NEW c, Clients = {c}, tx'[c] = NoTx
  PROVE  Informed'
BY DEF Informed, Knows, NoTx

LEMMA ReadsInform ==
  ASSUME Inv, Informed, NEW c, Clients = {c},
         \/ Arrive(c) \/ Route(c) \/ FindLevel(c) \/ CountLevel(c) \/ LimitLevel(c)
         \/ FindRemoved(c) \/ FindInvited(c) \/ FindPending(c) \/ FindUninvited(c)
         \/ Accept(c) \/ FindAccepting(c) \/ LimitAccepted(c) \/ CountAccepted(c)
         \/ Enter(c) \/ FindEmail(c) \/ FindConfirmed(c) \/ CheckConfirmed(c)
         \/ FindClosed(c) \/ FindChange(c) \/ FindCheckout(c)
  PROVE  Informed'
<1> DEFINE t == tx[c]
<1>0. t \in Tx /\ Knows(t) /\ tx \in [Clients -> Tx]
  BY DEF Inv, TypeOK, Informed
<1>1. ASSUME NEW u, Go(c, u) \/ Open(c, u), Knows(u) PROVE Informed'
  <2>1. tx'[c] = u /\ UNCHANGED <<members, invites, accounts, sub>>
    BY <1>0, <1>1 DEF Go, Open, tables
  <2> QED BY <1>1, <2>1, StillInformed
<1>2. CASE Arrive(c)
  <2>1. PICK i \in DOMAIN members, op \in Routes :
          Open(c, [NoTx EXCEPT !.op = op, !.stage = "route", !.me = i,
                               !.my = members[i].level])
    BY <1>2 DEF Arrive
  <2> DEFINE u == [NoTx EXCEPT !.op = op, !.stage = "route", !.me = i,
                               !.my = members[i].level]
  <2>2. Knows(u)
    BY DEF Knows, NoTx, Routes
  <2> QED BY <1>1, <2>1, <2>2
<1>3. CASE Route(c)
  <2> DEFINE u == [t EXCEPT !.stage = "find", !.sub = sub]
  <2>1. t.stage = "route" /\ Go(c, u) /\ t.op # "accept"
    BY <1>0, <1>3 DEF Route, Admitted, Knows
  <2>2. /\ u.op = t.op /\ u.stage = "find" /\ u.sub = sub
        /\ u.acc = t.acc /\ u.row = t.row
    BY <1>0 DEF Tx
  <2>3. Knows(u)
    BY <1>0, <2>1, <2>2 DEF Knows
  <2> QED BY <1>1, <2>1, <2>3
<1>4. CASE FindLevel(c)
  <2>1. PICK i \in DOMAIN members, want \in Levels :
          Go(c, [t EXCEPT !.id = i, !.acc = members[i].acc,
                          !.level = members[i].level, !.want = want,
                          !.stage = IF isEditor(want) THEN "count" ELSE "store"])
    BY <1>4 DEF FindLevel
  <2> DEFINE u == [t EXCEPT !.id = i, !.acc = members[i].acc,
                          !.level = members[i].level, !.want = want,
                          !.stage = IF isEditor(want) THEN "count" ELSE "store"]
  <2>2. /\ u.op = "level" /\ u.id = i /\ u.level = members[i].level /\ u.want = want
        /\ u.stage = IF isEditor(want) THEN "count" ELSE "store"
    BY <1>0, <1>4 DEF Tx, FindLevel, At
  <2> HIDE DEF u
  <2>3. Knows(u)
    BY <2>2 DEF Knows
  <2> QED BY <1>1, <2>1, <2>3 DEF u
<1>5. CASE CountLevel(c)
  <2> DEFINE u == [t EXCEPT !.seats = Editors, !.stage = "limit"]
  <2>1. t.op = "level" /\ t.stage = "count" /\ Go(c, u)
    BY <1>5 DEF CountLevel, At
  <2>2. /\ u.op = "level" /\ u.stage = "limit" /\ u.seats = Editors
        /\ u.id = t.id /\ u.level = t.level
    BY <1>0, <2>1 DEF Tx
  <2> HIDE DEF u
  <2>3. Knows(u)
    BY <1>0, <2>1, <2>2 DEF Knows
  <2> QED BY <1>1, <2>1, <2>3
<1>6. CASE LimitLevel(c)
  <2> DEFINE u == [t EXCEPT !.stage = "store"]
  <2>1. /\ t.op = "level" /\ t.stage = "limit" /\ Go(c, u)
        /\ isEditor(t.level) \/ t.seats + 1 <= sub.seats
    BY <1>6 DEF LimitLevel, At
  <2>2. u.op = "level" /\ u.stage = "store" /\ u.id = t.id /\ u.level = t.level
    BY <1>0, <2>1 DEF Tx
  <2> HIDE DEF u
  <2>3. Knows(u)
    BY <1>0, <2>1, <2>2 DEF Knows
  <2> QED BY <1>1, <2>1, <2>3
<1>7. CASE FindRemoved(c) \/ FindUninvited(c)
  <2>1. PICK i : Go(c, [t EXCEPT !.id = i, !.stage = "store"])
    BY <1>7 DEF FindRemoved, FindUninvited
  <2> DEFINE u == [t EXCEPT !.id = i, !.stage = "store"]
  <2>2. u.op \in {"remove", "uninvite"}
    BY <1>0, <1>7 DEF Tx, FindRemoved, FindUninvited, At
  <2> HIDE DEF u
  <2>3. Knows(u)
    BY <2>2 DEF Knows
  <2> QED BY <1>1, <2>1, <2>3 DEF u
<1>8. CASE FindInvited(c)
  <2>1. PICK e \in Emails, want \in Levels :
          /\ MembersAt(e) = {}
          /\ Go(c, [t EXCEPT !.email = e, !.want = want, !.stage = "count"])
    BY <1>8 DEF FindInvited
  <2> DEFINE u == [t EXCEPT !.email = e, !.want = want, !.stage = "count"]
  <2>2. u.op = "invite" /\ u.email = e
    BY <1>0, <1>8 DEF Tx, FindInvited, At
  <2> HIDE DEF u
  <2>3. Knows(u)
    BY <2>1, <2>2 DEF Knows
  <2> QED BY <1>1, <2>1, <2>3 DEF u
<1>9. CASE FindPending(c)
  <2> DEFINE u == [t EXCEPT !.stage = "store"]
  <2>1. t.op = "invite" /\ t.stage = "count" /\ Go(c, u)
    BY <1>9 DEF FindPending, At
  <2>2. u.op = "invite" /\ u.email = t.email
    BY <1>0, <2>1 DEF Tx
  <2> HIDE DEF u
  <2>3. Knows(u)
    BY <1>0, <2>1, <2>2 DEF Knows
  <2> QED BY <1>1, <2>1, <2>3
<1>10. CASE Accept(c)
  <2>1. PICK i \in DOMAIN invites :
          Open(c, [NoTx EXCEPT !.op = "accept", !.stage = "find", !.id = i,
                               !.email = invites[i].email, !.want = invites[i].level])
    BY <1>10 DEF Accept
  <2> DEFINE u == [NoTx EXCEPT !.op = "accept", !.stage = "find", !.id = i,
                               !.email = invites[i].email, !.want = invites[i].level]
  <2>2. u.op = "accept" /\ u.stage = "find" /\ u.id = i /\ u.email = invites[i].email
    BY DEF NoTx
  <2> HIDE DEF u
  <2>3. Knows(u)
    BY <2>2 DEF Knows
  <2> QED BY <1>1, <2>1, <2>3 DEF u
<1>11. CASE LimitAccepted(c)
  <2> DEFINE u == [t EXCEPT !.seats = sub.seats,
                     !.stage = IF isEditor(t.want) THEN "count" ELSE "store"]
  <2>1. t.op = "accept" /\ t.stage = "limit" /\ Go(c, u)
    BY <1>11 DEF LimitAccepted, At
  <2>2. /\ u.op = "accept" /\ u.seats = sub.seats /\ u.id = t.id /\ u.acc = t.acc
        /\ u.email = t.email
        /\ u.want = t.want /\ u.stage = IF isEditor(t.want) THEN "count" ELSE "store"
    BY <1>0, <2>1 DEF Tx
  <2> HIDE DEF u
  <2>3. Knows(u)
    BY <1>0, <2>1, <2>2 DEF Knows
  <2> QED BY <1>1, <2>1, <2>3
<1>12. CASE CountAccepted(c)
  <2> DEFINE u == [t EXCEPT !.stage = "store"]
  <2>1. t.op = "accept" /\ t.stage = "count" /\ Editors < t.seats /\ Go(c, u)
    BY <1>12 DEF CountAccepted, At
  <2>2. /\ u.op = "accept" /\ u.stage = "store" /\ u.id = t.id /\ u.acc = t.acc
        /\ u.email = t.email
    BY <1>0, <2>1 DEF Tx
  <2> HIDE DEF u
  <2>3. Knows(u)
    BY <1>0, <2>1, <2>2 DEF Knows
  <2> QED BY <1>1, <2>1, <2>3
<1>13. CASE FindClosed(c)
  <2> DEFINE u == [t EXCEPT !.op = "close", !.stage = "store"]
  <2>1. Go(c, u)
    BY <1>13 DEF FindClosed
  <2>2. u.op = "close"
    BY <1>0 DEF Tx
  <2> HIDE DEF u
  <2>3. Knows(u)
    BY <2>2 DEF Knows
  <2> QED BY <1>1, <2>1, <2>3
<1>14. CASE FindChange(c)
  <2>1. PICK n \in Editors .. MaxSeats : Go(c, [t EXCEPT !.seats = n, !.stage = "store"])
    BY <1>14 DEF FindChange
  <2> DEFINE u == [t EXCEPT !.seats = n, !.stage = "store"]
  <2>2. t.op = "change" /\ t.stage = "find"
    BY <1>14 DEF FindChange, At
  <2>3. u.op = "change" /\ u.seats = n /\ u.sub = t.sub
    BY <1>0, <2>2 DEF Tx
  <2>4. Editors <= n
    BY EditorsType, BoundAssumption
  <2> HIDE DEF u
  <2>5. Knows(u)
    BY <1>0, <2>2, <2>3, <2>4 DEF Knows
  <2> QED BY <1>1, <2>1, <2>5 DEF u
<1>15. CASE FindCheckout(c)
  <2>1. PICK n \in Editors .. MaxSeats : Go(c, [t EXCEPT !.seats = n, !.stage = "limit"])
    BY <1>15 DEF FindCheckout
  <2> DEFINE u == [t EXCEPT !.seats = n, !.stage = "limit"]
  <2>2. u.op = "checkout"
    BY <1>0, <1>15 DEF Tx, FindCheckout, At
  <2> HIDE DEF u
  <2>3. Knows(u)
    BY <2>2 DEF Knows
  <2> QED BY <1>1, <2>1, <2>3 DEF u
<1>16. CASE FindAccepting(c)
  <2>1. PICK a \in AccountsAt(t.email) : Go(c, [t EXCEPT !.acc = a, !.stage = "limit"])
    BY <1>16 DEF FindAccepting
  <2> DEFINE u == [t EXCEPT !.acc = a, !.stage = "limit"]
  <2>2. t.op = "accept" /\ t.stage = "find"
    BY <1>16 DEF FindAccepting, At
  <2>3. /\ u.op = "accept" /\ u.stage = "limit" /\ u.id = t.id /\ u.acc = a
        /\ u.email = t.email
    BY <1>0, <2>2 DEF Tx
  <2> HIDE DEF u
  <2>4. Knows(u)
    BY <1>0, <2>2, <2>3 DEF Knows
  <2> QED BY <1>1, <2>1, <2>4 DEF u
<1>17. CASE Enter(c)
  <2>1. PICK a \in DOMAIN accounts :
          Open(c, [NoTx EXCEPT !.op = "account", !.stage = "find", !.acc = a,
                               !.row = accounts[a]])
    BY <1>17 DEF Enter
  <2> DEFINE u == [NoTx EXCEPT !.op = "account", !.stage = "find", !.acc = a,
                               !.row = accounts[a]]
  <2>2. u.op = "account" /\ u.stage = "find" /\ u.acc = a /\ u.row = accounts[a]
    BY DEF NoTx
  <2> HIDE DEF u
  <2>3. a \in AccountsAt(accounts[a].email)
    BY DEF AccountsAt
  <2>4. Knows(u)
    BY <2>2, <2>3 DEF Knows
  <2> QED BY <1>1, <2>1, <2>4 DEF u
<1>18. CASE FindEmail(c)
  <2>1. PICK e \in Emails :
          Go(c, [t EXCEPT !.row = [email |-> @.email, sent |-> {e}], !.stage = "store"])
    BY <1>18 DEF FindEmail
  <2> DEFINE row == [email |-> t.row.email, sent |-> {e}]
             u   == [t EXCEPT !.row = row, !.stage = "store"]
  <2>2. t.op = "account" /\ row.email = t.row.email /\ Go(c, u)
    BY <1>18, <2>1 DEF FindEmail, At
  <2> HIDE DEF row
  <2>3. u.op = "account" /\ u.stage = "store" /\ u.acc = t.acc /\ u.row = row
    BY <1>0, <2>2 DEF Tx
  <2> HIDE DEF u
  <2>4. Knows(u)
    BY <1>0, <2>2, <2>3 DEF Knows
  <2> QED BY <1>1, <2>2, <2>4
<1>19. CASE FindConfirmed(c)
  <2>1. PICK a, e :
          Open(c, [NoTx EXCEPT !.op = "confirm", !.stage = "find", !.acc = a,
                               !.row = [email |-> e, sent |-> {}]])
    BY <1>19 DEF FindConfirmed
  <2> DEFINE u == [NoTx EXCEPT !.op = "confirm", !.stage = "find", !.acc = a,
                               !.row = [email |-> e, sent |-> {}]]
  <2>2. u.op = "confirm"
    BY DEF NoTx
  <2> HIDE DEF u
  <2>3. Knows(u)
    BY <2>2 DEF Knows
  <2> QED BY <1>1, <2>1, <2>3 DEF u
<1>20. CASE CheckConfirmed(c)
  <2> DEFINE u == [t EXCEPT !.stage = "store"]
  <2>1. t.op = "confirm" /\ Go(c, u)
    BY <1>20 DEF CheckConfirmed, At
  <2>2. u.op = "confirm"
    BY <1>0, <2>1 DEF Tx
  <2> HIDE DEF u
  <2>3. Knows(u)
    BY <2>2 DEF Knows
  <2> QED BY <1>1, <2>1, <2>3
<1> QED BY <1>2, <1>3, <1>4, <1>5, <1>6, <1>7, <1>8, <1>9, <1>10, <1>11, <1>12, <1>13,
        <1>14, <1>15, <1>16, <1>17, <1>18, <1>19, <1>20

LEMMA OthersInform ==
  ASSUME Inv, Informed, NEW c, Clients = {c},
         \/ Expire \/ UNCHANGED vars \/ Fail(c)
         \/ Register(c) \/ CompleteCheckout(c) \/ UpdateSubscription(c)
         \/ StoreLevel(c) \/ Remove(c) \/ Leave(c) \/ StoreInvite(c) \/ Uninvite(c)
         \/ StoreAccepted(c) \/ Close(c) \/ DeleteWorkspace(c) \/ StoreChange(c)
         \/ StoreCancel(c) \/ StartCheckout(c)
         \/ StoreVisit(c) \/ StoreEmail(c) \/ StoreConfirmed(c)
  PROVE  Informed'
<1>0. tx[c] \in Tx /\ Knows(tx[c]) /\ tx \in [Clients -> Tx] /\ sub \in Subscription
  BY DEF Inv, TypeOK, Informed
<1>1. CASE Expire \/ UNCHANGED vars
  <2>1. /\ UNCHANGED <<members, invites, accounts>> /\ tx'[c] = tx[c]
        /\ sub'.row = sub.row /\ sub'.seats = sub.seats
    BY <1>0, <1>1 DEF Expire, vars, Subscription
  <2> QED BY <1>0, <2>1, StillInformed
<1>2. CASE Register(c) \/ CompleteCheckout(c) \/ UpdateSubscription(c)
  <2>1. UNCHANGED <<members, invites, tx>> /\ tx[c].stage = "idle"
    BY <1>2 DEF Register, CompleteCheckout, UpdateSubscription
  <2>2. Knows(tx[c])'
    BY <1>0, <2>1 DEF Knows
  <2> QED BY <2>1, <2>2 DEF Informed
<1>3. CASE \/ StoreLevel(c) \/ Remove(c) \/ Leave(c) \/ StoreInvite(c) \/ Uninvite(c)
           \/ StoreAccepted(c) \/ Close(c) \/ DeleteWorkspace(c) \/ StoreChange(c)
           \/ StoreCancel(c) \/ StartCheckout(c) \/ Fail(c)
           \/ StoreVisit(c) \/ StoreEmail(c) \/ StoreConfirmed(c)
  <2>1. tx'[c] = NoTx
    BY <1>0, <1>3
    DEF StoreLevel, Remove, Leave, StoreInvite, Uninvite, StoreAccepted, Close,
        DeleteWorkspace, StoreChange, StoreCancel, StoreSubscription, StartCheckout,
        Fail, StoreVisit, StoreEmail, StoreConfirmed, StoreAccount, Done
  <2> QED BY <2>1, DoneInformed
<1> QED BY <1>1, <1>2, <1>3

LEMMA NextInforms ==
  ASSUME Inv, Informed, NEW c, Clients = {c}, [Next]_vars
  PROVE  Informed'
BY ReadsInform, OthersInform DEF Next

LEMMA InitInformed == Init => Informed
BY NoTxKnows DEF Init, Informed, Knows, NoTx

LEMMA TablesStep == Inv /\ TablesAgree /\ [Next]_vars => TablesAgree'
<1> SUFFICES ASSUME Inv, TablesAgree, [Next]_vars PROVE TablesAgree'
  OBVIOUS
<1>1. CASE UNCHANGED <<workspace, members, invites, accounts>>
  BY <1>1 DEF TablesAgree, MembersOf, InvitesTo, AccountsAt
<1> QED BY <1>1, TableSteps, StoreAgrees, DropAgrees, AccountSteps

\* Member j has the address of invite i.
Strands(j, i) == members[j].acc \in AccountsAt(invites[i].email)

LEMMA StrandedBy ==
  /\ \A i : i \in Stranded <=> i \in DOMAIN invites /\ \E j \in DOMAIN members : Strands(j, i)
  /\ \A i : i \in Stranded' <=>
              i \in DOMAIN invites' /\ \E j \in DOMAIN members' : Strands(j, i)'
BY DEF Stranded, MembersAt, MembersOf, Strands

LEMMA StaysFree ==
  ASSUME Inv, TablesAgree, Informed, NEW c, Clients = {c}, [Next]_vars,
         ~StoreConfirmed(c)
  PROVE  Stranded' \subseteq Stranded
<1> DEFINE t == tx[c]
<1>0. ASSUME DOMAIN invites' \subseteq DOMAIN invites, DOMAIN members' \subseteq DOMAIN members,
             \A i \in DOMAIN invites', j \in DOMAIN members' : Strands(j, i)' => Strands(j, i)
      PROVE  Stranded' \subseteq Stranded
  BY <1>0, StrandedBy
<1>1. CASE UNCHANGED <<members, invites, accounts>>
  BY <1>0, <1>1 DEF Strands, AccountsAt
<1>2. CASE StoreLevel(c)
  <2>1. /\ members' = [members EXCEPT ![t.id].level = t.want]
        /\ t.id \in DOMAIN members /\ UNCHANGED <<invites, accounts>>
    BY <1>2 DEF StoreLevel, At, Informed, Knows
  <2>2. /\ DOMAIN members' = DOMAIN members
        /\ \A i \in DOMAIN members : members'[i].acc = members[i].acc
    BY <2>1 DEF Inv, TypeOK, Member
  <2> QED BY <1>0, <2>1, <2>2 DEF Strands, AccountsAt
<1>3. CASE StoreInvite(c)
  <2>1. MembersAt(t.email) = {} /\ UNCHANGED <<members, accounts>>
    BY <1>3 DEF StoreInvite, At, Informed, Knows
  <2>2. \A i \in DOMAIN invites' :
          invites'[i].email = t.email \/ (i \in DOMAIN invites /\ invites'[i] = invites[i])
    BY <1>3 DEF StoreInvite
  <2>3. \A j \in DOMAIN members : members[j].acc \notin AccountsAt(t.email)
    BY <2>1 DEF MembersAt, MembersOf
  <2>4. \A e : AccountsAt(e)' = AccountsAt(e)
    BY <2>1 DEF AccountsAt
  <2> QED BY <2>1, <2>2, <2>3, <2>4, StrandedBy DEF Strands
<1>4. CASE StoreAccepted(c)
  <2>1. /\ t.id \in DOMAIN invites /\ invites[t.id].email = t.email
        /\ t.acc \in AccountsAt(t.email)
    BY <1>4 DEF StoreAccepted, At, Informed, Knows
  <2>2. /\ AddMember(made + 1, t.acc, t.want) /\ accounts' = accounts
        /\ invites' = [j \in DOMAIN invites \ {t.id} |-> invites[j]]
    BY <1>4 DEF StoreAccepted, DeleteInvite
  <2>3. \A i \in DOMAIN invites' :
          i \in DOMAIN invites /\ invites'[i] = invites[i] /\ invites[i].email # t.email
    BY <2>1, <2>2 DEF TablesAgree, InvitesTo
  <2>4. \A j \in DOMAIN members' :
          members'[j].acc = t.acc \/ (j \in DOMAIN members /\ members'[j] = members[j])
    BY <2>2 DEF AddMember
  <2>5. \A i \in DOMAIN invites' : t.acc \notin AccountsAt(invites[i].email)
    BY <2>1, <2>3 DEF AccountsAt
  <2>6. \A e : AccountsAt(e)' = AccountsAt(e)
    BY <2>2 DEF AccountsAt
  <2> QED BY <2>3, <2>4, <2>5, <2>6, StrandedBy DEF Strands
<1>5. CASE Remove(c) \/ Leave(c) \/ Close(c)
  <2>1. PICK S : DeleteMembers(S)
    BY <1>5 DEF Remove, Leave, Close
  <2>2. /\ DOMAIN members' \subseteq DOMAIN members /\ DOMAIN invites' \subseteq DOMAIN invites
        /\ \A j \in DOMAIN members' : members'[j] = members[j]
        /\ \A i \in DOMAIN invites' : invites'[i] = invites[i]
    BY <2>1 DEF DeleteMembers
  <2>3. \A e : AccountsAt(e)' \subseteq AccountsAt(e)
    BY <1>5 DEF Remove, Leave, Close, AccountsAt
  <2> QED BY <1>0, <2>2, <2>3 DEF Strands
<1>6. CASE Uninvite(c)
  <2>1. /\ DOMAIN invites' \subseteq DOMAIN invites /\ UNCHANGED <<members, accounts>>
        /\ \A i \in DOMAIN invites' : invites'[i] = invites[i]
    BY <1>6 DEF Uninvite, DeleteInvite
  <2> QED BY <1>0, <2>1 DEF Strands, AccountsAt
<1>7. CASE DeleteWorkspace(c)
  <2>1. DOMAIN members' = {} /\ DOMAIN invites' = {}
    BY <1>7 DEF DeleteWorkspace
  <2> QED BY <2>1, StrandedBy
<1>8. CASE Accounting(c)
  <2>1. UNCHANGED <<members, invites>>
    BY <1>8, AccountSteps
  <2>2. \A e : \A j \in DOMAIN members : members[j].acc \in AccountsAt(e)' =>
                                          members[j].acc \in AccountsAt(e)
    <3>1. CASE StoreVisit(c) \/ StoreEmail(c)
      <4>1. t.acc \in AccountsAt(t.row.email) /\ StoreAccount(c, t.row)
        BY <3>1 DEF StoreVisit, StoreEmail, At, Informed, Knows
      <4> QED BY <4>1 DEF StoreAccount, AccountsAt
    <3>2. CASE Register(c)
      <4>1. \A j \in DOMAIN members : members[j].acc \in used /\ members[j].acc \in DOMAIN accounts
        BY DEF TablesAgree, Inv, TypeOK
      <4>2. PICK a \in Accounts \ used, e \in Emails :
              accounts' = [b \in DOMAIN accounts \cup {a} |->
                            IF b = a THEN [email |-> e, sent |-> {e}] ELSE accounts[b]]
        BY <3>2 DEF Register
      <4> QED BY <4>1, <4>2 DEF AccountsAt
    <3> QED BY <1>8, <3>1, <3>2 DEF Accounting
  <2> QED BY <1>0, <2>1, <2>2 DEF Strands
<1> QED BY <1>1, <1>2, <1>3, <1>4, <1>5, <1>6, <1>7, <1>8, TableSteps

\* While requests run one after another, an invite is to the address of a member,
\* so that nobody can accept it, only where the member took that address later.
THEOREM AddressesStrand ==
  ASSUME NEW k, Clients = {k}
  PROVE  Spec => OnlyAddressesStrand
<1>1. Inv /\ TablesAgree /\ Informed /\ [Next]_vars =>
        [Stranded' \subseteq Stranded \/ \E c \in Clients : StoreConfirmed(c)]_vars
  BY StaysFree
<1>2. Inv /\ Informed /\ [Next]_vars => Informed'
  BY NextInforms
<1> QED BY <1>1, <1>2, InitInformed, InitInv, NextInv, TablesStayConsistent, PTL
        DEF Spec, OnlyAddressesStrand

EditorRows == {i \in DOMAIN members : isEditor(members[i].level)}

LEMMA EditorRowsFinite ==
  Inv => IsFiniteSet(EditorRows) /\ Cardinality(EditorRows) = Editors /\ Editors \in Nat
<1> SUFFICES ASSUME Inv
             PROVE  /\ IsFiniteSet(EditorRows) /\ Cardinality(EditorRows) = Editors
                    /\ Editors \in Nat
  OBVIOUS
<1>1. IsFiniteSet(1 .. made)
  BY FS_Interval DEF Inv, TypeOK
<1>2. EditorRows \subseteq 1 .. made
  BY DEF Inv, TypeOK, EditorRows
<1> QED BY <1>1, <1>2, FS_Subset, EditorsType DEF Editors, EditorRows

LEMMA EditorRowsFiniteNext ==
  Inv' => IsFiniteSet(EditorRows') /\ Cardinality(EditorRows') = Editors' /\ Editors' \in Nat
<1> SUFFICES ASSUME Inv'
             PROVE  /\ IsFiniteSet(EditorRows') /\ Cardinality(EditorRows') = Editors'
                    /\ Editors' \in Nat
  OBVIOUS
<1>1. IsFiniteSet(1 .. made')
  BY FS_Interval DEF Inv, TypeOK
<1>2. EditorRows' \subseteq 1 .. made'
  BY DEF Inv, TypeOK, EditorRows
<1>3. IsFiniteSet(EditorRows')
  BY <1>1, <1>2, FS_Subset
<1>4. Cardinality(EditorRows') = Editors'
  BY DEF Editors, EditorRows
<1> QED BY <1>3, <1>4, FS_CardinalityType

\* One more row makes at most one more editor.
LEMMA OneMoreEditor ==
  ASSUME Inv, Inv'
  PROVE  /\ Editors \in Nat /\ Editors' \in Nat
         /\ EditorRows' \subseteq EditorRows => Editors' <= Editors
         /\ \A i : EditorRows' \subseteq EditorRows \cup {i} => Editors' <= Editors + 1
<1>1. /\ IsFiniteSet(EditorRows) /\ Cardinality(EditorRows) = Editors /\ Editors \in Nat
      /\ IsFiniteSet(EditorRows') /\ Cardinality(EditorRows') = Editors' /\ Editors' \in Nat
  BY EditorRowsFinite, EditorRowsFiniteNext
<1> HIDE DEF EditorRows
<1>2. ASSUME EditorRows' \subseteq EditorRows PROVE Editors' <= Editors
  BY <1>1, <1>2, FS_Subset
<1>3. ASSUME NEW i, EditorRows' \subseteq EditorRows \cup {i}
      PROVE  Editors' <= Editors + 1
  <2>1. /\ IsFiniteSet(EditorRows \cup {i})
        /\ Cardinality(EditorRows \cup {i}) \in {Editors, Editors + 1}
    BY <1>1, FS_AddElement
  <2>2. Cardinality(EditorRows') <= Cardinality(EditorRows \cup {i})
    BY <1>3, <2>1, FS_Subset
  <2> QED BY <1>1, <2>1, <2>2
<1> QED BY <1>1, <1>2, <1>3

LEMMA SeatsForEditors ==
  ASSUME Inv, Inv', Informed, NEW c, Clients = {c}, [Next]_vars, Editors' > Editors
  PROVE  Editors' <= sub.seats
<1> DEFINE t == tx[c]
<1>0. Editors \in Nat /\ Editors' \in Nat /\ sub.seats \in Nat
  <2>1. Editors \in Nat /\ Editors' \in Nat
    BY OneMoreEditor
  <2>2. sub.seats \in Nat
    BY BoundAssumption DEF Inv, TypeOK, Subscription
  <2> QED BY <2>1, <2>2
<1>1. ~(EditorRows' \subseteq EditorRows)
  BY <1>0, OneMoreEditor
<1>2. CASE UNCHANGED members
  BY <1>1, <1>2 DEF EditorRows
<1>3. CASE StoreLevel(c)
  <2>1. /\ members' = [members EXCEPT ![t.id].level = t.want]
        /\ t.id \in DOMAIN members /\ members[t.id].level = t.level
        /\ isEditor(t.want) => isEditor(t.level) \/ Editors + 1 <= sub.seats
    BY <1>3 DEF StoreLevel, At, Informed, Knows
  <2>2. EditorRows' \subseteq EditorRows \cup {t.id}
    BY <2>1 DEF EditorRows
  <2>3. isEditor(t.want) /\ ~isEditor(t.level)
    <3>1. CASE ~isEditor(t.want)
      BY <1>1, <2>1, <3>1 DEF EditorRows, Inv, TypeOK, Member
    <3>2. CASE isEditor(t.level)
      BY <1>1, <2>1, <2>2, <3>2 DEF EditorRows
    <3> QED BY <3>1, <3>2
  <2> QED BY <1>0, <2>1, <2>2, <2>3, OneMoreEditor
<1>4. CASE StoreAccepted(c)
  <2>1. /\ AddMember(made + 1, t.acc, t.want)
        /\ isEditor(t.want) => Editors < sub.seats
    BY <1>4 DEF StoreAccepted, At, Informed, Knows
  <2>2. EditorRows' \subseteq EditorRows \cup {made + 1}
    BY <2>1 DEF EditorRows, AddMember
  <2>3. isEditor(t.want)
    BY <1>1, <2>1 DEF EditorRows, AddMember
  <2>4. Editors' <= Editors + 1
    BY <2>2, OneMoreEditor
  <2> QED BY <1>0, <2>1, <2>3, <2>4
<1>5. CASE Remove(c) \/ Leave(c) \/ Close(c) \/ DeleteWorkspace(c)
  BY <1>1, <1>5 DEF Remove, Leave, Close, DeleteMembers, DeleteWorkspace, EditorRows
<1>6. CASE StoreInvite(c) \/ Uninvite(c) \/ Accounting(c)
  BY <1>2, <1>6 DEF StoreInvite, Uninvite, Accounting, Register, StoreVisit, StoreEmail,
                    StoreConfirmed, StoreAccount
<1> QED BY <1>2, <1>3, <1>4, <1>5, <1>6, TableSteps

\* While requests run one after another, whoever becomes an editor finds a seat,
\* and a change of plan leaves a seat for every editor.
THEOREM EditorsFindSeats ==
  ASSUME NEW k, Clients = {k}
  PROVE  Spec => EditorsHaveSeats
<1> DEFINE A == /\ Editors' > Editors => Editors' <= sub.seats
                /\ \A c \in Clients : StoreChange(c) => Editors <= sub'.seats
<1>1. Inv /\ Inv' /\ Informed /\ [Next]_vars => [A]_vars
  <2> SUFFICES ASSUME Inv, Inv', Informed, [Next]_vars PROVE A
    OBVIOUS
  <2>1. Editors' > Editors => Editors' <= sub.seats
    BY SeatsForEditors
  <2>2. ASSUME NEW d \in Clients, StoreChange(d) PROVE Editors <= sub'.seats
    <3> DEFINE t == tx[d]
    <3>1. t.sub.row = sub.row /\ Editors <= t.seats
      BY <2>2 DEF StoreChange, At, Informed, Knows
    <3>2. PICK status \in {"active", "past_due"} :
            StoreSubscription(d, [t.sub EXCEPT !.seats = t.seats, !.status = status])
      BY <2>2 DEF StoreChange
    <3>3. t.sub \in Subscription
      BY DEF Inv, TypeOK, Tx
    <3>4. sub'.seats = t.seats
      BY <3>1, <3>2, <3>3 DEF StoreSubscription, Subscription
    <3> QED BY <3>1, <3>4
  <2> QED BY <2>1, <2>2
<1>2. Inv /\ Informed /\ [Next]_vars => Informed'
  BY NextInforms
<1> QED BY <1>1, <1>2, InitInformed, InitInv, NextInv, PTL DEF Spec, EditorsHaveSeats

-------------------------------------------------------------------------------
(* Requests beside each other                                              *)

\* A change of level that has found room for its row, or will need none, makes or
\* keeps the row an editor; so does an acceptance that has found room.
Claims(t) ==
  /\ t.op = "level" /\ isEditor(t.want)
  /\ \/ t.stage = "store"
     \/ t.stage = "limit" /\ (isEditor(t.level) \/ t.seats + 1 <= MaxSeats)
     \/ t.stage = "count" /\ isEditor(t.level)
Joins(t) == t.op = "accept" /\ t.stage = "store" /\ isEditor(t.want)

Levelling == {c \in Clients : Claims(tx[c])}
Joining   == {c \in Clients : Joins(tx[c])}

\* The editors there would be if every one of those requests were stored now.
Rows == EditorRows \cup {tx[c].id : c \in Levelling}
RowsFit == Cardinality(Rows) + Cardinality(Joining) <= MaxSeats + Cardinality(Clients) - 1

\* Each client adds at most one editor to those there are.
LEMMA ClaimsCount ==
  ASSUME IsFiniteSet(Clients), NEW E, IsFiniteSet(E), NEW L \in SUBSET Clients,
         NEW J \in SUBSET Clients, L \cap J = {}, NEW I, NEW g \in Surjection(L, I),
         NEW n, n = Cardinality(E)
  PROVE  /\ IsFiniteSet(E \cup I) /\ IsFiniteSet(J)
         /\ Cardinality(E \cup I) \in Nat /\ Cardinality(J) \in Nat
         /\ n \in Nat /\ n <= Cardinality(E \cup I)
         /\ Cardinality(E \cup I) + Cardinality(J) <= n + Cardinality(Clients)
<1>1. IsFiniteSet(L) /\ IsFiniteSet(J)
  BY FS_Subset
<1>2. IsFiniteSet(I) /\ Cardinality(I) <= Cardinality(L)
  BY <1>1, FS_Surjection
<1>3. /\ IsFiniteSet(E \cup I)
      /\ Cardinality(E \cup I) = n + Cardinality(I) - Cardinality(E \cap I)
  BY <1>2, FS_Union
<1>4. /\ Cardinality(L) \in Nat /\ Cardinality(J) \in Nat /\ n \in Nat
      /\ Cardinality(I) \in Nat /\ Cardinality(E \cup I) \in Nat
      /\ Cardinality(Clients) \in Nat
  BY <1>1, <1>2, <1>3, FS_CardinalityType
<1>5. IsFiniteSet(E \cap I) /\ Cardinality(E \cap I) \in Nat
  BY <1>2, FS_Subset, FS_CardinalityType
<1>6. n <= Cardinality(E \cup I)
  BY <1>3, FS_Subset
<1>7. Cardinality(L) + Cardinality(J) <= Cardinality(Clients)
  <2>1. Cardinality(L \cup J) = Cardinality(L) + Cardinality(J)
    <3>1. Cardinality(L \cup J) = Cardinality(L) + Cardinality(J) - Cardinality(L \cap J)
      BY <1>1, FS_Union
    <3>2. Cardinality(L \cap J) = 0
      BY FS_EmptySet
    <3> QED BY <1>4, <3>1, <3>2
  <2>2. Cardinality(L \cup J) <= Cardinality(Clients)
    BY FS_Subset
  <2> QED BY <2>1, <2>2
<1>8. Cardinality(E \cup I) + Cardinality(J) <= n + Cardinality(Clients)
  BY <1>2, <1>3, <1>4, <1>5, <1>7
<1> QED BY <1>1, <1>3, <1>4, <1>6, <1>8

LEMMA RowsCount ==
  ASSUME Inv, IsFiniteSet(Clients)
  PROVE  /\ IsFiniteSet(Rows) /\ IsFiniteSet(Joining) /\ Editors \in Nat
         /\ Cardinality(Rows) \in Nat /\ Cardinality(Joining) \in Nat
         /\ Editors <= Cardinality(Rows)
         /\ Cardinality(Rows) + Cardinality(Joining) <= Editors + Cardinality(Clients)
<1>1. IsFiniteSet(EditorRows) /\ Cardinality(EditorRows) = Editors
  BY EditorRowsFinite
<1>2. /\ Levelling \in SUBSET Clients /\ Joining \in SUBSET Clients
      /\ Levelling \cap Joining = {}
  BY DEF Levelling, Joining, Claims, Joins
<1> DEFINE I == {tx[c].id : c \in Levelling}
           g == [c \in Levelling |-> tx[c].id]
<1>3. g \in Surjection(Levelling, I)
  BY DEF Surjection
<1>4. Rows = EditorRows \cup I
  BY DEF Rows
<1> HIDE DEF g, I
<1> QED BY <1>1, <1>2, <1>3, <1>4, ClaimsCount

LEMMA RowsCountNext ==
  ASSUME Inv', IsFiniteSet(Clients)
  PROVE  /\ IsFiniteSet(Rows') /\ IsFiniteSet(Joining') /\ Editors' \in Nat
         /\ Cardinality(Rows') \in Nat /\ Cardinality(Joining') \in Nat
         /\ Editors' <= Cardinality(Rows')
         /\ Cardinality(Rows') + Cardinality(Joining') <= Editors' + Cardinality(Clients)
<1>1. IsFiniteSet(EditorRows') /\ Cardinality(EditorRows') = Editors'
  BY EditorRowsFiniteNext
<1>2. /\ Levelling' \in SUBSET Clients /\ Joining' \in SUBSET Clients
      /\ Levelling' \cap Joining' = {}
  BY DEF Levelling, Joining, Claims, Joins
<1> DEFINE I == {tx'[c].id : c \in Levelling'}
           g == [c \in Levelling' |-> tx'[c].id]
<1>3. g \in Surjection(Levelling', I)
  BY DEF Surjection
<1>4. Rows' = EditorRows' \cup I
  BY DEF Rows
<1> HIDE DEF g, I
<1> QED BY <1>1, <1>2, <1>3, <1>4, ClaimsCount

\* A request that claims nothing new.
LEMMA NothingNew ==
  ASSUME Inv, NEW c \in Clients, NEW u, tx' = [tx EXCEPT ![c] = u],
         EditorRows' \subseteq Rows,
         Claims(u) => u.id \in Rows, Joins(u) => Joins(tx[c])
  PROVE  Rows' \subseteq Rows /\ Joining' \subseteq Joining
<1>1. tx'[c] = u /\ \A d \in Clients \ {c} : tx'[d] = tx[d]
  BY DEF Inv, TypeOK
<1>2. Joining' \subseteq Joining
  BY <1>1 DEF Joining, Joins
<1>3. ASSUME NEW d \in Levelling' PROVE tx'[d].id \in Rows
  <2>1. d \in Clients /\ Claims(tx'[d])
    BY DEF Levelling, Claims
  <2> QED BY <1>1, <2>1 DEF Rows, Levelling
<1>4. Rows' = EditorRows' \cup {tx'[d].id : d \in Levelling'}
  BY DEF Rows
<1> QED BY <1>2, <1>3, <1>4

LEMMA NoTxClaims == ~Claims(NoTx) /\ ~Joins(NoTx)
BY DEF Claims, Joins, NoTx

\* Where the editors leave a seat free, whatever the claims are fits; where they do
\* not, no request finds room.
LEMMA ReadsClaimNothing ==
  ASSUME Inv, NEW c \in Clients, ~(Editors <= MaxSeats - 1),
         \/ Arrive(c) \/ Route(c) \/ FindLevel(c) \/ CountLevel(c) \/ LimitLevel(c)
         \/ FindRemoved(c) \/ FindInvited(c) \/ FindPending(c) \/ FindUninvited(c)
         \/ Accept(c) \/ FindAccepting(c) \/ LimitAccepted(c) \/ CountAccepted(c)
         \/ Enter(c) \/ FindEmail(c) \/ FindConfirmed(c) \/ CheckConfirmed(c)
         \/ FindClosed(c) \/ FindChange(c) \/ FindCheckout(c)
  PROVE  Rows' \subseteq Rows /\ Joining' \subseteq Joining
<1> DEFINE t == tx[c]
<1>0. /\ t \in Tx /\ Fit(t) /\ Editors \in Nat /\ MaxSeats \in Nat
      /\ sub.seats \in 0 .. MaxSeats
  BY EditorsType, BoundAssumption DEF Inv, TypeOK, RequestsFit, Fit, Subscription
<1>1. ASSUME NEW u, Go(c, u) \/ Open(c, u), Claims(u) => u.id \in Rows, Joins(u) => Joins(t)
      PROVE  Rows' \subseteq Rows /\ Joining' \subseteq Joining
  <2>1. EditorRows' \subseteq Rows
    BY <1>1 DEF Go, Open, tables, EditorRows, Rows
  <2> QED BY <1>1, <2>1, NothingNew DEF Go, Open
<1>2. ASSUME Claims(t) PROVE t.id \in Rows
  BY <1>2 DEF Rows, Levelling
<1>3. CASE Arrive(c)
  <2> PICK i \in DOMAIN members, op \in Routes :
        Open(c, [NoTx EXCEPT !.op = op, !.stage = "route", !.me = i,
                             !.my = members[i].level])
    BY <1>3 DEF Arrive
  <2> DEFINE u == [NoTx EXCEPT !.op = op, !.stage = "route", !.me = i,
                               !.my = members[i].level]
  <2>1. u.stage = "route"
    BY DEF NoTx
  <2> QED BY <1>1, <2>1 DEF Claims, Joins
<1>4. CASE Route(c) \/ FindAccepting(c)
  <2>1. PICK u : Go(c, u) /\ u.stage \in {"find", "limit"} /\ (u.stage = "limit" => u.op = "accept")
    <3>1. CASE Route(c)
      <4>1. [t EXCEPT !.stage = "find", !.sub = sub].stage = "find"
        BY <1>0 DEF Tx
      <4> QED BY <3>1, <4>1 DEF Route
    <3>2. CASE FindAccepting(c)
      <4>1. PICK a : Go(c, [t EXCEPT !.acc = a, !.stage = "limit"])
        BY <3>2 DEF FindAccepting
      <4>2. /\ [t EXCEPT !.acc = a, !.stage = "limit"].stage = "limit"
            /\ [t EXCEPT !.acc = a, !.stage = "limit"].op = "accept"
        BY <1>0, <3>2 DEF Tx, FindAccepting, At
      <4> QED BY <4>1, <4>2
    <3> QED BY <1>4, <3>1, <3>2
  <2> QED BY <1>1, <2>1 DEF Claims, Joins
<1>5. CASE FindLevel(c)
  <2> PICK i \in DOMAIN members, want \in Levels :
        Go(c, [t EXCEPT !.id = i, !.acc = members[i].acc,
                        !.level = members[i].level, !.want = want,
                        !.stage = IF isEditor(want) THEN "count" ELSE "store"])
    BY <1>5 DEF FindLevel
  <2> DEFINE u == [t EXCEPT !.id = i, !.acc = members[i].acc,
                        !.level = members[i].level, !.want = want,
                        !.stage = IF isEditor(want) THEN "count" ELSE "store"]
  <2>1. /\ u.op = "level" /\ u.id = i /\ u.level = members[i].level /\ u.want = want
        /\ u.stage = IF isEditor(want) THEN "count" ELSE "store"
    BY <1>0, <1>5 DEF Tx, FindLevel, At
  <2>2. ASSUME isEditor(members[i].level) PROVE i \in Rows
    BY <2>2 DEF Rows, EditorRows
  <2> HIDE DEF u
  <2>3. (Claims(u) => u.id \in Rows) /\ ~Joins(u)
    BY <2>1, <2>2 DEF Claims, Joins
  <2> QED BY <1>1, <2>3 DEF u
<1>6. CASE CountLevel(c)
  <2> DEFINE u == [t EXCEPT !.seats = Editors, !.stage = "limit"]
  <2>1. t.op = "level" /\ t.stage = "count" /\ Go(c, u)
    BY <1>6 DEF CountLevel, At
  <2>2. /\ u.op = "level" /\ u.stage = "limit" /\ u.seats = Editors
        /\ u.id = t.id /\ u.level = t.level /\ u.want = t.want
    BY <1>0, <2>1 DEF Tx
  <2> HIDE DEF u
  <2>3. (Claims(u) => Claims(t)) /\ ~Joins(u)
    BY <1>0, <2>1, <2>2 DEF Claims, Joins
  <2> QED BY <1>1, <1>2, <2>1, <2>2, <2>3
<1>7. CASE LimitLevel(c)
  <2> DEFINE u == [t EXCEPT !.stage = "store"]
  <2>1. /\ t.op = "level" /\ t.stage = "limit" /\ Go(c, u)
        /\ isEditor(t.level) \/ t.seats + 1 <= sub.seats
    BY <1>7 DEF LimitLevel, At
  <2>2. u.op = "level" /\ u.id = t.id /\ u.want = t.want
    BY <1>0, <2>1 DEF Tx
  <2> HIDE DEF u
  <2>3. t.seats + 1 <= sub.seats => t.seats + 1 <= MaxSeats
    BY <1>0 DEF Tx
  <2>4. (Claims(u) => Claims(t)) /\ ~Joins(u)
    BY <2>1, <2>2, <2>3 DEF Claims, Joins
  <2> QED BY <1>1, <1>2, <2>1, <2>2, <2>4
<1>free. ASSUME NEW u, Go(c, u) \/ Open(c, u),
              \/ u.stage = "find"
              \/ u.op \in {"remove", "uninvite", "invite", "account", "confirm", "close",
                           "change", "checkout"}
       PROVE  Rows' \subseteq Rows /\ Joining' \subseteq Joining
  BY <1>1, <1>free DEF Claims, Joins
<1>8. CASE FindRemoved(c) \/ FindUninvited(c) \/ FindInvited(c) \/ FindPending(c)
  <2>1. t.op \in {"remove", "uninvite", "invite"}
    BY <1>8 DEF FindRemoved, FindUninvited, FindInvited, FindPending, At
  <2>2. CASE FindRemoved(c) \/ FindUninvited(c)
    <3>1. PICK i : Go(c, [t EXCEPT !.id = i, !.stage = "store"])
      BY <2>2 DEF FindRemoved, FindUninvited
    <3>2. [t EXCEPT !.id = i, !.stage = "store"].op = t.op
      BY <1>0 DEF Tx
    <3> QED BY <1>free, <2>1, <3>1, <3>2
  <2>3. CASE FindInvited(c)
    <3>1. PICK e, w : Go(c, [t EXCEPT !.email = e, !.want = w, !.stage = "count"])
      BY <2>3 DEF FindInvited
    <3>2. [t EXCEPT !.email = e, !.want = w, !.stage = "count"].op = t.op
      BY <1>0 DEF Tx
    <3> QED BY <1>free, <2>1, <3>1, <3>2
  <2>4. CASE FindPending(c)
    <3>1. [t EXCEPT !.stage = "store"].op = t.op
      BY <1>0 DEF Tx
    <3> QED BY <1>free, <2>1, <2>4, <3>1 DEF FindPending
  <2> QED BY <1>8, <2>2, <2>3, <2>4
<1>9. CASE Accept(c) \/ Enter(c) \/ FindConfirmed(c)
  <2>1. CASE Accept(c)
    <3>1. PICK i, e, w : Open(c, [NoTx EXCEPT !.op = "accept", !.stage = "find", !.id = i,
                                              !.email = e, !.want = w])
      BY <2>1 DEF Accept
    <3>2. [NoTx EXCEPT !.op = "accept", !.stage = "find", !.id = i,
                       !.email = e, !.want = w].stage = "find"
      BY DEF NoTx
    <3> QED BY <1>free, <3>1, <3>2
  <2>2. CASE Enter(c)
    <3>1. PICK a, row : Open(c, [NoTx EXCEPT !.op = "account", !.stage = "find", !.acc = a,
                                             !.row = row])
      BY <2>2 DEF Enter
    <3>2. [NoTx EXCEPT !.op = "account", !.stage = "find", !.acc = a, !.row = row].stage
            = "find"
      BY DEF NoTx
    <3> QED BY <1>free, <3>1, <3>2
  <2>3. CASE FindConfirmed(c)
    <3>1. PICK a, row : Open(c, [NoTx EXCEPT !.op = "confirm", !.stage = "find", !.acc = a,
                                             !.row = row])
      BY <2>3 DEF FindConfirmed
    <3>2. [NoTx EXCEPT !.op = "confirm", !.stage = "find", !.acc = a, !.row = row].stage
            = "find"
      BY DEF NoTx
    <3> QED BY <1>free, <3>1, <3>2
  <2> QED BY <1>9, <2>1, <2>2, <2>3
<1>10. CASE LimitAccepted(c)
  <2> DEFINE u == [t EXCEPT !.seats = sub.seats,
                       !.stage = IF isEditor(t.want) THEN "count" ELSE "store"]
  <2>1. t.op = "accept" /\ Go(c, u)
    BY <1>10 DEF LimitAccepted, At
  <2>2. /\ u.op = "accept" /\ u.want = t.want
        /\ u.stage = IF isEditor(t.want) THEN "count" ELSE "store"
    BY <1>0, <2>1 DEF Tx
  <2> HIDE DEF u
  <2> QED BY <1>1, <2>1, <2>2 DEF Claims, Joins
<1>11. CASE CountAccepted(c)
  <2>1. Editors < t.seats /\ t.seats \in 0 .. MaxSeats
    BY <1>0, <1>11 DEF CountAccepted, At, Fit
  <2> QED BY <1>0, <2>1
<1>12. CASE FindEmail(c) \/ CheckConfirmed(c) \/ FindClosed(c) \/ FindChange(c) \/ FindCheckout(c)
  <2>1. CASE FindEmail(c)
    <3>1. PICK row : Go(c, [t EXCEPT !.row = row, !.stage = "store"])
      BY <2>1 DEF FindEmail
    <3>2. t.op = "account"
      BY <2>1 DEF FindEmail, At
    <3>3. [t EXCEPT !.row = row, !.stage = "store"].op = t.op
      BY <1>0 DEF Tx
    <3> QED BY <1>free, <3>1, <3>2, <3>3
  <2>2. CASE CheckConfirmed(c)
    <3>1. t.op = "confirm" /\ [t EXCEPT !.stage = "store"].op = t.op
      BY <1>0, <2>2 DEF CheckConfirmed, At, Tx
    <3> QED BY <1>free, <2>2, <3>1 DEF CheckConfirmed
  <2>3. CASE FindClosed(c)
    <3>1. [t EXCEPT !.op = "close", !.stage = "store"].op = "close"
      BY <1>0 DEF Tx
    <3> QED BY <1>free, <2>3, <3>1 DEF FindClosed
  <2>4. CASE FindChange(c) \/ FindCheckout(c)
    <3>1. PICK n, s : Go(c, [t EXCEPT !.seats = n, !.stage = s])
      BY <2>4 DEF FindChange, FindCheckout
    <3>2. t.op \in {"change", "checkout"}
      BY <2>4 DEF FindChange, FindCheckout, At
    <3>3. [t EXCEPT !.seats = n, !.stage = s].op = t.op
      BY <1>0 DEF Tx
    <3> QED BY <1>free, <3>1, <3>2, <3>3
  <2> QED BY <1>12, <2>1, <2>2, <2>3, <2>4
<1> QED BY <1>3, <1>4, <1>5, <1>6, <1>7, <1>8, <1>9, <1>10, <1>11, <1>12

LEMMA WritesClaimNothing ==
  ASSUME Inv, NEW c \in Clients,
         \/ StoreLevel(c) \/ Remove(c) \/ Leave(c) \/ StoreInvite(c) \/ Uninvite(c)
         \/ Close(c) \/ DeleteWorkspace(c) \/ StoreChange(c)
         \/ StoreCancel(c) \/ StartCheckout(c) \/ Fail(c)
         \/ StoreVisit(c) \/ StoreEmail(c) \/ StoreConfirmed(c)
  PROVE  Rows' \subseteq Rows /\ Joining' \subseteq Joining
<1> DEFINE t == tx[c]
<1>1. tx' = [tx EXCEPT ![c] = NoTx]
  BY DEF StoreLevel, Remove, Leave, StoreInvite, Uninvite, Close, DeleteWorkspace,
         StoreChange, StoreCancel, StoreSubscription, StartCheckout, Fail, StoreVisit,
         StoreEmail, StoreConfirmed, StoreAccount, Done
<1>2. EditorRows' \subseteq Rows
  <2>1. CASE UNCHANGED members
    BY <2>1 DEF EditorRows, Rows
  <2>2. CASE StoreLevel(c)
    <3>1. /\ t.op = "level" /\ t.stage = "store"
          /\ \A i \in DOMAIN members' \ {t.id} : i \in DOMAIN members /\ members'[i] = members[i]
      BY <2>2 DEF StoreLevel, At, AddMember
    <3>2. t.id \in DOMAIN members' => members'[t.id].level = t.want
      BY <2>2 DEF StoreLevel, AddMember, Inv, TypeOK, Member
    <3>3. isEditor(t.want) => t.id \in Rows
      BY <3>1 DEF Rows, Levelling, Claims
    <3> QED BY <3>1, <3>2, <3>3 DEF EditorRows, Rows
  <2>3. CASE Remove(c) \/ Leave(c) \/ Close(c)
    BY <2>3 DEF Remove, Leave, Close, DeleteMembers, EditorRows, Rows
  <2>4. CASE DeleteWorkspace(c)
    BY <2>4 DEF DeleteWorkspace, EditorRows
  <2>5. CASE \/ StoreInvite(c) \/ Uninvite(c) \/ StoreChange(c) \/ StoreCancel(c)
             \/ StartCheckout(c) \/ Fail(c)
             \/ StoreVisit(c) \/ StoreEmail(c) \/ StoreConfirmed(c)
    BY <2>1, <2>5
    DEF StoreInvite, Uninvite, StoreChange, StoreCancel, StoreSubscription,
        StartCheckout, Fail, tables, StoreVisit, StoreEmail, StoreConfirmed, StoreAccount
  <2> QED BY <2>2, <2>3, <2>4, <2>5
<1> QED BY <1>1, <1>2, NothingNew, NoTxClaims

\* The claim of an acceptance becomes a row.
LEMMA AcceptanceKeepsCount ==
  ASSUME Inv, NEW c \in Clients, StoreAccepted(c)
  PROVE  \/ Rows' \subseteq Rows /\ Joining' \subseteq Joining
         \/ /\ Rows' \subseteq Rows \cup {made + 1}
            /\ c \in Joining /\ Joining' \subseteq Joining \ {c}
<1> DEFINE t == tx[c]
<1>1. /\ t.op = "accept" /\ t.stage = "store" /\ AddMember(made + 1, t.acc, t.want)
      /\ tx' = [tx EXCEPT ![c] = NoTx]
  BY DEF StoreAccepted, At, Done
<1>2. EditorRows' \subseteq EditorRows \cup {made + 1}
  BY <1>1 DEF EditorRows, AddMember
<1>3. CASE ~isEditor(t.want)
  <2>1. EditorRows' \subseteq Rows
    BY <1>1, <1>3 DEF EditorRows, AddMember, Rows
  <2> QED BY <1>1, <2>1, NothingNew, NoTxClaims
<1>4. CASE isEditor(t.want)
  <2>1. tx'[c] = NoTx /\ \A d \in Clients \ {c} : tx'[d] = tx[d]
    BY <1>1 DEF Inv, TypeOK
  <2>2. c \in Joining /\ Joining' \subseteq Joining \ {c}
    BY <1>1, <1>4, <2>1, NoTxClaims DEF Joining, Joins
  <2>3. ASSUME NEW d \in Levelling' PROVE tx'[d].id \in Rows
    <3>1. d \in Clients /\ Claims(tx'[d])
      BY DEF Levelling, Claims
    <3> QED BY <2>1, <3>1, NoTxClaims DEF Rows, Levelling
  <2>4. Rows' = EditorRows' \cup {tx'[d].id : d \in Levelling'}
    BY DEF Rows
  <2>5. Rows' \subseteq Rows \cup {made + 1}
    BY <1>2, <2>3, <2>4 DEF Rows
  <2> QED BY <2>2, <2>5
<1> QED BY <1>3, <1>4

LEMMA StepsKeepCount ==
  ASSUME Inv, Inv', [Next]_vars, ~(Editors' <= MaxSeats - 1)
  PROVE  \/ Rows' \subseteq Rows /\ Joining' \subseteq Joining
         \/ \E i : \E c \in Joining : /\ Rows' \subseteq Rows \cup {i}
                                      /\ Joining' \subseteq Joining \ {c}
<1>1. CASE UNCHANGED <<members, tx>>
  BY <1>1 DEF Rows, Joining, Levelling, EditorRows, Claims, Joins
<1>2. CASE Expire \/ UNCHANGED vars
  BY <1>1, <1>2 DEF Expire, vars
<1>3. ASSUME NEW c \in Clients, Register(c) \/ CompleteCheckout(c) \/ UpdateSubscription(c)
      PROVE  UNCHANGED <<members, tx>>
  BY <1>3 DEF Register, CompleteCheckout, UpdateSubscription
<1>4. ASSUME NEW c \in Clients,
         \/ Arrive(c) \/ Route(c) \/ FindLevel(c) \/ CountLevel(c) \/ LimitLevel(c)
         \/ FindRemoved(c) \/ FindInvited(c) \/ FindPending(c) \/ FindUninvited(c)
         \/ Accept(c) \/ FindAccepting(c) \/ LimitAccepted(c) \/ CountAccepted(c)
         \/ Enter(c) \/ FindEmail(c) \/ FindConfirmed(c) \/ CheckConfirmed(c)
         \/ FindClosed(c) \/ FindChange(c) \/ FindCheckout(c)
      PROVE  Rows' \subseteq Rows /\ Joining' \subseteq Joining
  <2>1. \E u : Go(c, u) \/ Open(c, u)
    <3>1. CASE \/ Arrive(c) \/ Route(c) \/ FindLevel(c) \/ CountLevel(c) \/ LimitLevel(c)
               \/ FindRemoved(c) \/ FindInvited(c) \/ FindPending(c) \/ FindUninvited(c)
      BY <3>1, Zenon DEF Arrive, Route, FindLevel, CountLevel, LimitLevel, FindRemoved,
                         FindInvited, FindPending, FindUninvited
    <3>2. CASE \/ Accept(c) \/ FindAccepting(c) \/ LimitAccepted(c) \/ CountAccepted(c)
               \/ Enter(c) \/ FindEmail(c) \/ FindConfirmed(c) \/ CheckConfirmed(c)
               \/ FindClosed(c) \/ FindChange(c) \/ FindCheckout(c)
      BY <3>2, Zenon DEF Accept, FindAccepting, LimitAccepted, CountAccepted, FindClosed,
                         FindChange, FindCheckout, Enter, FindEmail, FindConfirmed,
                         CheckConfirmed
    <3> QED BY <1>4, <3>1, <3>2
  <2>2. Editors' = Editors
    BY <2>1 DEF Go, Open, tables, Editors
  <2> QED BY <1>4, <2>2, ReadsClaimNothing
<1> QED BY <1>1, <1>2, <1>3, <1>4, WritesClaimNothing, AcceptanceKeepsCount DEF Next

LEMMA RowsStillFit ==
  ASSUME IsFiniteSet(Clients), Inv, Inv', RowsFit, [Next]_vars
  PROVE  RowsFit'
<1>1. Cardinality(Clients) \in Nat /\ MaxSeats \in Nat
  BY FS_CardinalityType, BoundAssumption
<1>2. CASE Editors' <= MaxSeats - 1
  BY <1>1, <1>2, RowsCountNext DEF RowsFit
<1>3. ASSUME ~(Editors' <= MaxSeats - 1)
      PROVE  Cardinality(Rows') + Cardinality(Joining') <=
             Cardinality(Rows) + Cardinality(Joining)
  <2>0. /\ IsFiniteSet(Rows) /\ IsFiniteSet(Joining) /\ IsFiniteSet(Rows')
        /\ Cardinality(Rows) \in Nat /\ Cardinality(Joining) \in Nat
        /\ Cardinality(Rows') \in Nat /\ Cardinality(Joining') \in Nat
    BY RowsCount, RowsCountNext
  <2>1. CASE Rows' \subseteq Rows /\ Joining' \subseteq Joining
    <3>1. /\ Cardinality(Rows') <= Cardinality(Rows)
          /\ Cardinality(Joining') <= Cardinality(Joining)
      BY <2>0, <2>1, FS_Subset
    <3> QED BY <2>0, <3>1
  <2>2. ASSUME NEW i, NEW c \in Joining, Rows' \subseteq Rows \cup {i},
               Joining' \subseteq Joining \ {c}
        PROVE  Cardinality(Rows') + Cardinality(Joining') <=
               Cardinality(Rows) + Cardinality(Joining)
    <3>1. /\ IsFiniteSet(Rows \cup {i})
          /\ Cardinality(Rows \cup {i}) \in {Cardinality(Rows), Cardinality(Rows) + 1}
      BY <2>0, FS_AddElement
    <3>2. /\ IsFiniteSet(Joining \ {c})
          /\ Cardinality(Joining \ {c}) = Cardinality(Joining) - 1
      BY <2>0, FS_RemoveElement
    <3>3. /\ Cardinality(Rows') <= Cardinality(Rows \cup {i})
          /\ Cardinality(Joining') <= Cardinality(Joining \ {c})
      BY <2>2, <3>1, <3>2, FS_Subset
    <3> QED BY <2>0, <3>1, <3>2, <3>3
  <2> QED BY <1>3, <2>1, <2>2, StepsKeepCount
<1>4. CASE ~(Editors' <= MaxSeats - 1)
  <2>1. /\ Cardinality(Rows) \in Nat /\ Cardinality(Joining) \in Nat
        /\ Cardinality(Rows') \in Nat /\ Cardinality(Joining') \in Nat
    BY RowsCount, RowsCountNext
  <2> QED BY <1>1, <1>3, <1>4, <2>1 DEF RowsFit
<1> QED BY <1>2, <1>4

LEMMA InitRowsFit ==
  ASSUME IsFiniteSet(Clients), Clients # {}, Init, Inv
  PROVE  RowsFit
<1>1. Levelling = {} /\ Joining = {}
  BY NoTxClaims DEF Init, Levelling, Joining
<1>2. Rows = EditorRows
  BY <1>1 DEF Rows
<1>3. Editors <= StartSeats /\ Editors = Cardinality(EditorRows) /\ Editors \in Nat
  BY StartAssumption, EditorRowsFinite DEF Init, Editors
<1>4. Cardinality(Clients) \in Nat /\ Cardinality(Clients) # 0
  BY FS_CardinalityType, FS_EmptySet
<1>5. Cardinality(Joining) = 0
  BY <1>1, FS_EmptySet
<1>6. StartSeats <= MaxSeats /\ StartSeats \in Nat /\ MaxSeats \in Nat
  BY BoundAssumption
<1> QED BY <1>2, <1>3, <1>4, <1>5, <1>6 DEF RowsFit

\* However many requests run beside each other, there are never more editors than
\* the most seats that can be bought and one for every request but one.
THEOREM FewEditorsBeyond ==
  ASSUME IsFiniteSet(Clients), Clients # {}
  PROVE  Spec => []FewBeyondSeats
<1>1. Init /\ Inv => RowsFit
  BY InitRowsFit
<1>2. Inv /\ Inv' /\ RowsFit /\ [Next]_vars => RowsFit'
  BY RowsStillFit
<1>3. Inv /\ RowsFit => FewBeyondSeats
  <2> SUFFICES ASSUME Inv, RowsFit PROVE FewBeyondSeats
    OBVIOUS
  <2>1. Cardinality(Clients) \in Nat /\ MaxSeats \in Nat
    BY FS_CardinalityType, BoundAssumption
  <2> QED BY <2>1, RowsCount DEF RowsFit, FewBeyondSeats
<1> QED BY <1>1, <1>2, <1>3, InitInv, NextInv, PTL DEF Spec
===============================================================================
