------------------------------- MODULE Access -------------------------------
(* The roles of auth/security.py and the dependency require_role of        *)
(* auth/dependencies.py.  Who the caller is (the token, the key, the row   *)
(* of `users`) is decided before a handler starts and is an input here.    *)
EXTENDS Naturals, Sequences

ROLE_ORDER == <<"viewer", "developer", "reviewer", "admin">>

\* list.index raises for a role that is not in the list: such a caller has
\* no role at all.
HasMinimumRole(user_role, required_role) ==
  \E i, j \in DOMAIN ROLE_ORDER :
    /\ ROLE_ORDER[i] = user_role
    /\ ROLE_ORDER[j] = required_role
    /\ i >= j
=============================================================================
