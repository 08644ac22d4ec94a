----------------------- MODULE MCTokenIntrospection ------------------------
(* Small instances of TokenIntrospection for TLC.                          *)
EXTENDS TokenIntrospection, TLC

CONSTANTS u, i1, i2, grp, r1, r2, r3, r4, s1, s2

Listed(group, acl) == [group |-> group, acl |-> acl]

(* A resource is added, and another is closed while its group is opened.   *)
Versions ==
  LET v1 == (grp :> Listed(grp, "SECURE")) @@ (i1 :> None) @@ (i2 :> Listed(grp, None))
      v2 == (grp :> Listed(grp, "OPEN")) @@ (i1 :> Listed(grp, "SECURE")) @@ (i2 :> Listed(grp, "SECURE"))
  IN  <<v1, v2>>

OwnToken == [op |-> "access", user |-> u, item |-> i1, iid |-> i1, endpoint |-> "closed"]
OtherToken == [op |-> "access", user |-> u, item |-> i2, iid |-> i1, endpoint |-> "open"]
Overview == [op |-> "summary", user |-> u, items |-> {i1}]

Accesses ==
  (r1 :> OwnToken) @@ (r2 :> OwnToken) @@ (r3 :> OwnToken) @@ (r4 :> OtherToken)

Symmetry == Permutations({r1, r2, r3}) \cup Permutations({s1, s2})

Requests == Accesses @@ (s1 :> Overview) @@ (s2 :> Overview)
=============================================================================
