--------------------------- MODULE MCServerSession ---------------------------
(* A session that uses every message and one that sends simple queries, on *)
(* two rows and one table that is not loaded yet.                          *)
EXTENDS ServerSession

CONSTANTS s1, s2, r1, r2, new

TheScripts == {<<r2, new, r1>>}

TheBound == [s \in {s1, s2} |-> IF s = s1 THEN 6 ELSE 1]

=============================================================================
