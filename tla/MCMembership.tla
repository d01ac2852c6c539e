---------------------------- MODULE MCMembership ----------------------------
(***************************************************************************)
(* Instances of Membership for TLC.                                        *)
(***************************************************************************)
EXTENDS Membership, TLC

CONSTANTS a1, a2, a3, a4, a5, e1, e2, e3, e4, e5, e6, none, c1, c2

As(a, level) == [acc |-> a, level |-> level]

\* An account whose address is confirmed.
With(email) == [email |-> email, sent |-> {}]

ThreeAccounts == a1 :> With(e1) @@ a2 :> With(e2) @@ a3 :> With(e3)

\* Two more, which have both asked for an address that nobody has.
Asking(email) == [email |-> email, sent |-> {e6}]
FiveAccounts  == ThreeAccounts @@ a4 :> Asking(e4) @@ a5 :> Asking(e5)

OwnersAndViewer == <<As(a1, "OWNER"), As(a2, "OWNER"), As(a3, "VIEWER")>>
OwnerAndViewers == <<As(a1, "OWNER"), As(a2, "VIEWER"), As(a3, "VIEWER"), As(a4, "VIEWER")>>

\* The clients differ in nothing.
AnyClient == Permutations(Clients)

=============================================================================
