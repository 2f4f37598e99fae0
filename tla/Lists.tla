-------------------------------- MODULE Lists --------------------------------
(* Sets of positions in their order, and the parts of a sequence they tell:  *)
(* what lists of entries, strings and buffers of the library have in common. *)
EXTENDS Integers, FiniteSetsExt, SequencesExt

(* The number of a set that has n - 1 of the others before it.               *)
Nth(set, n) == CHOOSE i \in set : Cardinality({j \in set : j <= i}) = n
InOrder(set) == [n \in 1 .. Cardinality(set) |-> Nth(set, n)]

(* A list without its empty elements. *)
NonEmpty(ss) ==
  LET full == {i \in DOMAIN ss : ss[i] # <<>>}
  IN [n \in 1 .. Cardinality(full) |-> ss[Nth(full, n)]]

(* Where the first of some characters is, or the end.                        *)
Find(s, chars) == Min({i \in DOMAIN s : s[i] \in chars} \cup {Len(s) + 1})

(* The runs of characters between others, none of them empty.                *)
Runs(s, cuts) ==
  LET starts == {i \in DOMAIN s : s[i] \notin cuts /\ (i = 1 \/ s[i - 1] \in cuts)}
      end(i) == Max({j \in i .. Len(s) : \A k \in i .. j : s[k] \notin cuts})
  IN [n \in 1 .. Cardinality(starts) |-> SubSeq(s, Nth(starts, n), end(Nth(starts, n)))]
=============================================================================
