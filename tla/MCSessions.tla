----------------------------- MODULE MCSessions -----------------------------
(* The instances of Sessions that TLC checks. *)
EXTENDS Sessions, TLC

CONSTANTS r1, r2

\* One request begins sessions while the other ends them.
MCDoes == r1 :> {"login", "refresh", "changePassword"}
       @@ r2 :> {"refresh", "revoke", "logoutAll", "ask", "redeem"}
=============================================================================
