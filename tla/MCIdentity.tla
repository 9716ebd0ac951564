----------------------------- MODULE MCIdentity -----------------------------
(* Model values and symmetry for checking Identity on small instances. *)
EXTENDS Identity, TLC

CONSTANTS admin, u1, s1, c1, g1, g2, q1, q2

TwoUsers == {admin, u1}
OneSite == {s1}
OneCredential == {c1}
TwoTags == {g1, g2}
TwoRequests == {q1, q2}

Interchangeable ==
  Permutations(TwoTags) \cup Permutations(TwoRequests)

RoleUpdates == {"roles", "login"}

Failures == {"fail"}
=============================================================================
