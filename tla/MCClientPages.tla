---------------------------- MODULE MCClientPages ----------------------------
(***************************************************************************)
(* An instance of ClientPages for TLC.                                      *)
(***************************************************************************)
EXTENDS ClientPages, TLC

CONSTANTS u1, u2, u3, u4, A, B, C, D, pA, pB, pN, i1, i2, k1, k2

\* Two members who share a workspace, each with another role, of whom one has
\* two more; a third account has none yet, and there is an account, a workspace and one of each to be made.
Tables ==
  [accounts |-> {u1, u2, u3},
   level    |-> <<u1, A>> :> "OWNER" @@ <<u2, A>> :> "ADMIN" @@ <<u1, B>> :> "VIEWER"
                @@ <<u1, C>> :> "OWNER",
   home     |-> pA :> A @@ pB :> B,
   invites  |-> i1 :> A,
   keys     |-> k1 :> u1]

Invited == i1 :> u3 @@ i2 :> u4

States == A :> "active" @@ B :> "canceled" @@ C :> "trialing" @@ D :> "trialing"

To(at, w, x) == [at |-> at, ws |-> w, arg |-> x]

\* Every page at first, and those to go to later that have something in common.
Opened ==
  {To(at, None, None) : at \in {"login", "signup", "reset", "newPassword", "contact", "verify",
                                "workspaces", "account"}}
    \cup {To(at, A, None) : at \in {"workspace", "settings", "subscription"}}
    \cup {To("settings", B, None), To("subscription", C, None)}
    \cup {To("invite", None, i1), To("link", None, pA), To("project", B, pB)}

Linked ==
  {To(at, None, None) : at \in {"index", "logout"}}
    \cup {To("workspace", A, None), To("workspace", B, None), To("project", B, pB)}

Entered == {To("settings", A, None), To("workspace", D, None)}

=============================================================================
