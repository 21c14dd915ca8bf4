------------------------------- MODULE Facts -------------------------------
(***************************************************************************)
(* What the proofs about the table and the kernel use of finite sets,      *)
(* sequences and numbers.  The lemmas take Facts as a hypothesis, which    *)
(* the modules with the theorems discharge from the library's theorems:    *)
(* thus the library, whose statements every obligation of a module would   *)
(* carry along, is in the context of a few obligations only.               *)
(***************************************************************************)
EXTENDS Integers, Sequences, FiniteSets

FS_Empty ==
    /\ IsFiniteSet({}) /\ Cardinality({}) = 0
    /\ \A S : IsFiniteSet(S) => (Cardinality(S) = 0 <=> S = {})
FS_Nat == \A S : IsFiniteSet(S) => Cardinality(S) \in Nat
FS_One ==
    /\ \A x : IsFiniteSet({x}) /\ Cardinality({x}) = 1
    /\ \A S : IsFiniteSet(S) => (Cardinality(S) = 1 <=> \E x : S = {x})
FS_Add ==
    \A S, x : IsFiniteSet(S) =>
        /\ IsFiniteSet(S \cup {x})
        /\ Cardinality(S \cup {x}) = IF x \in S THEN Cardinality(S) ELSE Cardinality(S) + 1
FS_Remove ==
    \A S, x : IsFiniteSet(S) =>
        /\ IsFiniteSet(S \ {x})
        /\ Cardinality(S \ {x}) = IF x \in S THEN Cardinality(S) - 1 ELSE Cardinality(S)
FS_Part ==
    \A S : IsFiniteSet(S) => \A T \in SUBSET S :
        /\ IsFiniteSet(T) /\ Cardinality(T) <= Cardinality(S)
        /\ Cardinality(S) = Cardinality(T) => S = T
FS_Range ==
    \A a, b \in Int : IsFiniteSet(a..b) /\ Cardinality(a..b) = IF a > b THEN 0 ELSE b - a + 1
FS_Pairs == \A S, T : IsFiniteSet(S) /\ IsFiniteSet(T) => IsFiniteSet(S \X T)
FS_Parts == \A S : IsFiniteSet(S) => IsFiniteSet(SUBSET S)

\* A set that a finite set is mapped onto
FS_Onto ==
    \A S, T, f : IsFiniteSet(S) /\ f \in [S -> T] /\ (\A y \in T : \E x \in S : f[x] = y) =>
        /\ IsFiniteSet(T) /\ Cardinality(T) <= Cardinality(S)
        /\ Cardinality(T) = Cardinality(S) <=> \A x, y \in S : f[x] = f[y] => x = y

Seq_Len == \A S : \A s \in Seq(S) : Len(s) \in Nat /\ s \in [1..Len(s) -> S] /\ DOMAIN s = 1..Len(s)
Seq_Equal ==
    \A S : \A s, t \in Seq(S) : Len(s) = Len(t) /\ (\A i \in 1..Len(s) : s[i] = t[i]) => s = t
Seq_Append ==
    \A S : \A s \in Seq(S), e \in S :
        /\ Append(s, e) \in Seq(S) /\ Append(s, e) # <<>> /\ Len(Append(s, e)) = Len(s) + 1
        /\ \A i \in 1..Len(s) : Append(s, e)[i] = s[i]
        /\ Append(s, e)[Len(s) + 1] = e
Seq_Sub ==
    \A S, s : \A m, n \in Int : (\A i \in m..n : s[i] \in S) =>
        /\ SubSeq(s, m, n) \in Seq(S)
        /\ Len(SubSeq(s, m, n)) = IF m <= n THEN n - m + 1 ELSE 0
        /\ \A i \in 1..(n - m + 1) : SubSeq(s, m, n)[i] = s[m + i - 1]
Seq_Empty == \A S : \A s \in Seq(S) : s \o <<>> = s

Nat_Least == \A S \in SUBSET Nat : S # {} => \E n \in S : \A m \in S : n <= m

Facts ==
    /\ FS_Empty /\ FS_Nat /\ FS_One /\ FS_Add /\ FS_Remove /\ FS_Part /\ FS_Range /\ FS_Pairs
    /\ FS_Parts /\ FS_Onto
    /\ Seq_Len /\ Seq_Equal /\ Seq_Append /\ Seq_Sub /\ Seq_Empty /\ Nat_Least
=============================================================================
