----------------------------- MODULE EstateOrder -----------------------------
(* The order estates are answered in, and the first rows of it.            *)
EXTENDS Integers, FiniteSets

(* ORDER BY popularity DESC, id ... LIMIT n: the rows with fewer than n     *)
(* rows before them.                                                       *)
Before(e, f) ==
  e.popularity > f.popularity \/ (e.popularity = f.popularity /\ e.id < f.id)
Ahead(S, e) == {f \in S : Before(f, e)}
Top(S, n) == {e \in S : Cardinality(Ahead(S, e)) < n}
=============================================================================
