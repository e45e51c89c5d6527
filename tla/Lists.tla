-------------------------------- MODULE Lists --------------------------------
(* Picking and adding up the elements of a sequence.                          *)
EXTENDS Integers, Sequences, FiniteSets

\* A value that is computed where it is named (the comparison makes TLC compute it).
Computed(value) == CHOOSE v \in {value} : v = v

\* f of a value that is computed once (the comparison makes TLC compute it).
With(value, f(_)) == CHOOSE r \in {f(v) : v \in {value}} : r = r

SumOf(seq) ==
  With(seq, LAMBDA s : LET sum[i \in 0..Len(s)] == IF i = 0 THEN 0 ELSE sum[i - 1] + s[i]
                       IN sum[Len(s)])

\* The elements of a sequence at the given positions, one before the other.
InOrder(seq, positions, before(_, _)) ==
  [k \in 1..Cardinality(positions) |->
     seq[CHOOSE i \in positions : Cardinality({j \in positions : before(j, i)}) = k - 1]]
At(seq, positions) == InOrder(seq, positions, LAMBDA j, i : j < i)
=============================================================================
