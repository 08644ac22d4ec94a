--------------------------- MODULE MCAsyncSearch ----------------------------
(* Small instances of AsyncSearch for TLC.                                 *)
EXTENDS AsyncSearch, TLC

CONSTANTS s1, s2, s3, qa, qb

(* Two users ask the same, a third one something else.                     *)
Queries == s1 :> qa @@ s2 :> qa @@ s3 :> qb

SameQuery == [s \in {s1, s2} |-> qa]

OneQuery == s1 :> qa
=============================================================================
