---------------------------- MODULE ServiceProofs ----------------------------
(***************************************************************************)
(* Theorems about three services around a run: the streams of its events   *)
(* (EventStream), the credentials it is given (Credentials) and its        *)
(* conversation with the model (TurnLoop).  The three share no state; each *)
(* theorem is about the specification of one of them, for every value of   *)
(* its constants.                                                          *)
(***************************************************************************)
EXTENDS EventStream, Credentials, TurnLoop, Integers, FiniteSetTheorems, SequenceTheorems, TLAPS

-----------------------------------------------------------------------------
(* Sequences of numbers in their order.                                    *)

Increasing(q) == \A i, j \in DOMAIN q : i < j => q[i] < q[j]

Before(S, x) == {y \in S : y < x}
Rank(S, x) == Cardinality(Before(S, x))

\* The numbers of a finite set below one of its members are finite in number.
LEMMA BeforeFinite ==
    ASSUME NEW S, IsFiniteSet(S), S \subseteq Nat, NEW x \in S
    PROVE  /\ IsFiniteSet(Before(S, x)) /\ Rank(S, x) \in Nat
           /\ IsFiniteSet(Before(S, x) \cup {x}) /\ Cardinality(Before(S, x) \cup {x}) = Rank(S, x) + 1
<1>1. Before(S, x) \in SUBSET S /\ x \notin Before(S, x)
  BY DEF Before
<1>2. IsFiniteSet(Before(S, x))
  BY <1>1, FS_Subset
<1>3. Rank(S, x) \in Nat
  BY <1>2, FS_CardinalityType DEF Rank
<1> QED
  BY <1>1, <1>2, <1>3, FS_AddElement DEF Rank

\* The rank of a member grows with it, and stays below the size of the set.
LEMMA RankOrder ==
    ASSUME NEW S, IsFiniteSet(S), S \subseteq Nat
    PROVE  /\ \A x \in S : Rank(S, x) \in 0..(Cardinality(S) - 1)
           /\ \A x, y \in S : x < y => Rank(S, x) < Rank(S, y)
<1>0. Cardinality(S) \in Nat
  BY FS_CardinalityType
<1>1. ASSUME NEW T, IsFiniteSet(T), NEW x \in S, Before(S, x) \cup {x} \in SUBSET T
      PROVE  Rank(S, x) < Cardinality(T) /\ Rank(S, x) \in Nat
  <2>1. Cardinality(T) \in Nat /\ Cardinality(Before(S, x) \cup {x}) <= Cardinality(T)
    BY <1>1, FS_Subset, FS_CardinalityType
  <2>2. Cardinality(Before(S, x) \cup {x}) = Rank(S, x) + 1 /\ Rank(S, x) \in Nat
    BY BeforeFinite
  <2> QED
    BY <2>1, <2>2
<1>2. ASSUME NEW x \in S PROVE Rank(S, x) < Cardinality(S) /\ Rank(S, x) \in Nat
  BY <1>1 DEF Before
<1>3. ASSUME NEW x \in S, NEW y \in S, x < y PROVE Rank(S, x) < Rank(S, y)
  <2>0. x \in Nat /\ y \in Nat /\ \A z \in S : z \in Nat
    OBVIOUS
  <2>1. Before(S, x) \cup {x} \in SUBSET Before(S, y)
    <3>1. ASSUME NEW z \in Before(S, x) PROVE z \in Before(S, y)
      <4>1. z \in S /\ z < x /\ z \in Nat
        BY <2>0 DEF Before
      <4>2. z < y
        BY <1>3, <2>0, <4>1
      <4> QED
        BY <4>1, <4>2 DEF Before
    <3>2. x \in Before(S, y)
      BY <1>3 DEF Before
    <3> QED
      BY <3>1, <3>2
  <2>2. IsFiniteSet(Before(S, y))
    BY BeforeFinite
  <2> QED
    BY <1>1, <2>1, <2>2 DEF Rank
<1> QED
  BY <1>0, <1>2, <1>3

\* The order of two ranks is the order of the members.
LEMMA RankInjective ==
    ASSUME NEW S, IsFiniteSet(S), S \subseteq Nat, NEW x \in S, NEW y \in S, Rank(S, x) <= Rank(S, y)
    PROVE  x <= y
<1>1. Rank(S, x) \in Nat /\ Rank(S, y) \in Nat
  BY BeforeFinite
<1>2. x \in Nat /\ y \in Nat
  OBVIOUS
<1>3. y < x => Rank(S, y) < Rank(S, x)
  BY RankOrder
<1> QED
  BY <1>1, <1>2, <1>3

\* Every place of a finite set of numbers is taken.
LEMMA RankOnto ==
    ASSUME NEW S, IsFiniteSet(S), S \subseteq Nat
    PROVE  \A r \in 0..(Cardinality(S) - 1) : \E x \in S : Rank(S, x) = r
<1> DEFINE T == 0..(Cardinality(S) - 1)
           f == [x \in S |-> Rank(S, x)]
<1>0. Cardinality(S) \in Nat
  BY FS_CardinalityType
<1>1. IsFiniteSet(T) /\ Cardinality(T) = Cardinality(S)
  <2>1. \A n \in Nat : IsFiniteSet(0..(n - 1)) /\ Cardinality(0..(n - 1)) = n
    <3> TAKE n \in Nat
    <3>1. 0 \in Int /\ n - 1 \in Int
      OBVIOUS
    <3>2. IsFiniteSet(0..(n - 1)) /\ Cardinality(0..(n - 1)) = IF 0 > n - 1 THEN 0 ELSE (n - 1) - 0 + 1
      BY <3>1, FS_Interval
    <3> QED
      BY <3>2
  <2> QED
    BY <1>0, <2>1
<1>2. f \in [S -> T]
  BY RankOrder
<1>3. ASSUME NEW x \in S, NEW y \in S, f[x] = f[y] PROVE x = y
  <2>1. Rank(S, x) = Rank(S, y) /\ Rank(S, x) \in Nat /\ x \in Nat /\ y \in Nat
    BY <1>3, BeforeFinite
  <2>a. Rank(S, x) <= Rank(S, y) /\ Rank(S, y) <= Rank(S, x)
    BY <2>1
  <2>2. x <= y /\ y <= x
    BY <2>a, RankInjective
  <2> QED
    BY <2>1, <2>2
<1>4. f \in Injection(S, T)
  BY <1>2, <1>3 DEF Injection, IsInjective
<1> HIDE DEF f, T
<1>5. f \in Surjection(S, T)
  BY <1>1, <1>4, FS_Injection
<1>6. \A r \in T : \E x \in S : f[x] = r
  BY <1>5 DEF Surjection
<1> QED
  BY <1>6 DEF f, T

\* ORDER BY id: Ascending lists a finite set of numbers, each once, in their order.
LEMMA AscendingSeq ==
    ASSUME NEW S, IsFiniteSet(S), S \subseteq Nat
    PROVE  /\ Ascending(S) \in Seq(S) /\ Len(Ascending(S)) = Cardinality(S)
           /\ Increasing(Ascending(S)) /\ Range(Ascending(S)) = S
<1> DEFINE A == Ascending(S)
           n == Cardinality(S)
<1>0. n \in Nat
  BY FS_CardinalityType
<1>1. A = [i \in 1..n |-> CHOOSE x \in S : Rank(S, x) = i - 1]
  BY DEF Ascending, Rank, Before
<1> HIDE DEF A, n
<1>2. \A i \in 1..n : A[i] \in S /\ Rank(S, A[i]) = i - 1
  <2> TAKE i \in 1..n
  <2>1. i - 1 \in 0..(n - 1)
    BY <1>0
  <2>2. \E x \in S : Rank(S, x) = i - 1
    BY <2>1, RankOnto DEF n
  <2> QED
    BY <1>1, <2>2
<1>3. A \in [1..n -> S]
  BY <1>1, <1>2
<1>4. A \in Seq(S) /\ Len(A) = n /\ DOMAIN A = 1..n
  BY <1>0, <1>3
<1>5. Increasing(A)
  <2> SUFFICES ASSUME NEW i \in 1..n, NEW j \in 1..n, i < j PROVE A[i] < A[j]
    BY <1>4 DEF Increasing
  <2>1. A[i] \in S /\ A[j] \in S /\ Rank(S, A[i]) = i - 1 /\ Rank(S, A[j]) = j - 1
    BY <1>2
  <2>2. Rank(S, A[i]) <= Rank(S, A[j]) /\ A[i] # A[j]
    BY <1>0, <2>1
  <2>3. A[i] <= A[j]
    BY <2>1, <2>2, RankInjective
  <2>4. A[i] \in Nat /\ A[j] \in Nat
    BY <2>1
  <2> QED
    BY <2>2, <2>3, <2>4
<1>6. ASSUME NEW x \in S PROVE x \in Range(A)
  <2>1. Rank(S, x) \in 0..(n - 1)
    BY RankOrder DEF n
  <2>2. PICK r \in 1..n : r - 1 = Rank(S, x)
    <3>1. \A k \in 0..(n - 1) : k + 1 \in 1..n /\ (k + 1) - 1 = k
      BY <1>0
    <3> QED
      BY <2>1, <3>1
  <2>3. A[r] \in S /\ Rank(S, A[r]) = Rank(S, x)
    BY <1>2, <2>2
  <2>4. Rank(S, A[r]) <= Rank(S, x) /\ Rank(S, x) <= Rank(S, A[r])
    BY <2>3, <2>1
  <2>5. A[r] <= x /\ x <= A[r] /\ A[r] \in Nat /\ x \in Nat
    BY <2>3, <2>4, RankInjective
  <2>6. A[r] = x
    BY <2>5
  <2> QED
    BY <1>4, <2>2, <2>6 DEF Range
<1>7. Range(A) \subseteq S
  BY <1>2, <1>4 DEF Range
<1> QED
  BY <1>4, <1>5, <1>6, <1>7 DEF A, n

\* A finite set of numbers has a least one.
LEMMA LeastOf ==
    ASSUME NEW S, IsFiniteSet(S), S \subseteq Nat, S # {}
    PROVE  \E m \in S : \A y \in S : m <= y
<1> DEFINE A == Ascending(S)
<1>1. A \in Seq(S) /\ Increasing(A) /\ Range(A) = S
  BY AscendingSeq
<1> HIDE DEF A
<1>2. DOMAIN A = 1..Len(A) /\ Len(A) \in Nat /\ 1 \in DOMAIN A
  BY <1>1 DEF Range
<1>2a. A[1] \in S
  BY <1>1, <1>2 DEF Range
<1>3. ASSUME NEW y \in S PROVE A[1] <= y
  <2>1. PICK i \in DOMAIN A : y = A[i]
    BY <1>1 DEF Range
  <2>2. i = 1 \/ 1 < i
    BY <1>2
  <2>3. A[1] \in Nat /\ y \in Nat
    BY <1>2a
  <2> QED
    BY <1>1, <1>2, <2>1, <2>2, <2>3 DEF Increasing
<1> QED
  BY <1>2a, <1>3

\* Of two increasing sequences, one that holds what the other holds up to some
\* number is a prefix of it.
LEMMA IncreasingPrefix ==
    ASSUME NEW P \in Seq(Nat), NEW L \in Seq(Nat), Increasing(P), Increasing(L),
           Range(P) \subseteq Range(L),
           \A x \in Range(L), y \in Range(P) : x <= y => x \in Range(P)
    PROVE  IsPrefix(P, L)
<1> DEFINE Bad == {i \in 1..Len(P) : ~(i <= Len(L) /\ P[i] = L[i])}
<1>0. Len(P) \in Nat /\ Len(L) \in Nat /\ DOMAIN P = 1..Len(P) /\ DOMAIN L = 1..Len(L)
  OBVIOUS
<1>1. Bad = {}
  <2> SUFFICES ASSUME Bad # {} PROVE FALSE
    OBVIOUS
  <2>1. IsFiniteSet(Bad) /\ Bad \subseteq Nat
    <3>1. IsFiniteSet(1..Len(P)) /\ Bad \in SUBSET (1..Len(P))
      BY <1>0, FS_Interval
    <3> QED
      BY <3>1, FS_Subset
  <2>2. PICK i \in Bad : \A j \in Bad : i <= j
    BY <2>1, LeastOf
  <2>3. i \in 1..Len(P) /\ ~(i <= Len(L) /\ P[i] = L[i])
    OBVIOUS
  <2>4. \A j \in 1..(i - 1) : j \in 1..Len(P) /\ j <= Len(L) /\ P[j] = L[j]
    <3> TAKE j \in 1..(i - 1)
    <3>1. j \in 1..Len(P) /\ ~(i <= j)
      BY <1>0, <2>3
    <3> QED
      BY <2>2, <3>1
  <2> HIDE DEF Bad
  <2>5. PICK k \in 1..Len(L) : P[i] = L[k]
    BY <1>0, <2>3 DEF Range
  <2>6. P[i] \in Nat /\ \A j \in 1..Len(P) : P[j] \in Nat
    BY <1>0, <2>3
  <2>7. ~(k < i)
    <3> SUFFICES ASSUME k < i PROVE FALSE
      OBVIOUS
    <3>1. k \in 1..(i - 1)
      BY <1>0, <2>3
    <3>2. P[k] = L[k] /\ k \in 1..Len(P) /\ P[k] < P[i]
      BY <1>0, <2>3, <2>4, <3>1 DEF Increasing
    <3> QED
      BY <2>5, <2>6, <3>2
  <2>8. i \in 1..Len(L) /\ i <= k
    BY <1>0, <2>3, <2>7
  <2>9. i < k
    BY <1>0, <2>3, <2>5, <2>8
  <2>10. L[i] < P[i] /\ L[i] \in Nat
    <3>1. L[i] < L[k]
      BY <1>0, <2>8, <2>9 DEF Increasing
    <3>2. L[i] \in Nat
      BY <2>8, ElementOfSeq
    <3> QED
      BY <2>5, <3>1, <3>2
  <2>11. L[i] \in Range(L) /\ P[i] \in Range(P)
    BY <1>0, <2>3, <2>8 DEF Range
  <2>12. L[i] \in Range(P)
    BY <2>6, <2>10, <2>11
  <2>13. PICK j \in 1..Len(P) : L[i] = P[j]
    BY <1>0, <2>12 DEF Range
  <2>14. j < i
    <3>1. j = i \/ i < j \/ j < i
      BY <1>0, <2>3
    <3>2. i < j => P[i] < P[j]
      BY <1>0, <2>3 DEF Increasing
    <3> QED
      BY <2>6, <2>10, <2>13, <3>1, <3>2
  <2>15. j \in 1..(i - 1)
    BY <1>0, <2>3, <2>14
  <2>16. L[j] = L[i] /\ j \in 1..Len(L)
    BY <1>0, <2>4, <2>13, <2>15
  <2>17. L[j] < L[i]
    BY <1>0, <2>8, <2>14, <2>16 DEF Increasing
  <2> QED
    BY <2>10, <2>16, <2>17
<1>2. \A i \in 1..Len(P) : i <= Len(L) /\ P[i] = L[i]
  BY <1>1
<1> HIDE DEF Bad
<1>3. Len(P) <= Len(L)
  <2>1. Len(P) = 0 \/ Len(P) \in 1..Len(P)
    BY <1>0
  <2> QED
    BY <1>0, <1>2, <2>1
<1>4. SubSeq(P, 1, Len(P)) = SubSeq(L, 1, Len(P))
  <2>1. SubSeq(P, 1, Len(P)) = P
    BY SubSeqFull
  <2> DEFINE M == SubSeq(L, 1, Len(P))
  <2>2. \A i \in 1..Len(P) : L[i] \in Nat
    BY <1>0, <1>3
  <2>3. /\ M \in Seq(Nat) /\ Len(M) = IF 1 <= Len(P) THEN Len(P) - 1 + 1 ELSE 0
        /\ \A i \in 1..(Len(P) - 1 + 1) : M[i] = L[1 + i - 1]
    BY <1>0, <2>2, SubSeqProperties
  <2> HIDE DEF M
  <2>4. Len(M) = Len(P) /\ \A i \in 1..Len(P) : M[i] = P[i]
    BY <1>0, <1>2, <2>3
  <2>5. M = P
    BY <2>3, <2>4, SeqEqual
  <2> QED
    BY <2>1, <2>5 DEF M
<1> QED
  BY <1>3, <1>4 DEF IsPrefix

\* Larger numbers after an increasing sequence leave it increasing.
LEMMA IncreasingConcat ==
    ASSUME NEW P \in Seq(Nat), NEW Q \in Seq(Nat), Increasing(P), Increasing(Q),
           \A a \in Range(P), b \in Range(Q) : a < b
    PROVE  P \o Q \in Seq(Nat) /\ Increasing(P \o Q) /\ Range(P \o Q) = Range(P) \cup Range(Q)
<1> DEFINE R == P \o Q
<1>0. Len(P) \in Nat /\ Len(Q) \in Nat /\ DOMAIN P = 1..Len(P) /\ DOMAIN Q = 1..Len(Q)
  OBVIOUS
<1>1. /\ R \in Seq(Nat) /\ Len(R) = Len(P) + Len(Q)
      /\ \A i \in 1..(Len(P) + Len(Q)) : R[i] = IF i <= Len(P) THEN P[i] ELSE Q[i - Len(P)]
  BY ConcatProperties
<1> HIDE DEF R
<1>a. \A i \in 1..Len(P) : R[i] = P[i] /\ P[i] \in Range(P)
  <2> TAKE i \in 1..Len(P)
  <2>1. i \in 1..(Len(P) + Len(Q)) /\ i <= Len(P)
    BY <1>0
  <2>2. P[i] \in Range(P)
    BY <1>0 DEF Range
  <2> QED
    BY <1>1, <2>1, <2>2
<1>b. \A i \in 1..(Len(P) + Len(Q)) : ~(i <= Len(P)) => R[i] = Q[i - Len(P)]
  BY <1>1
<1>c. \A i \in 1..(Len(P) + Len(Q)) :
        \/ i \in 1..Len(P)
        \/ ~(i <= Len(P)) /\ i - Len(P) \in 1..Len(Q)
  BY <1>0
<1>d. \A i \in 1..(Len(P) + Len(Q)) :
        \/ i \in 1..Len(P)
        \/ R[i] = Q[i - Len(P)] /\ i - Len(P) \in 1..Len(Q) /\ Q[i - Len(P)] \in Range(Q)
  BY <1>0, <1>b, <1>c DEF Range
<1>2. DOMAIN R = 1..(Len(P) + Len(Q))
  BY <1>1
<1>3. ASSUME NEW i \in DOMAIN R, NEW j \in DOMAIN R, i < j PROVE R[i] < R[j]
  <2>0. i \in 1..(Len(P) + Len(Q)) /\ j \in 1..(Len(P) + Len(Q))
    BY <1>2
  <2>1. CASE j <= Len(P)
    <3>1. i \in 1..Len(P) /\ j \in 1..Len(P) /\ R[i] = P[i] /\ R[j] = P[j]
      BY <1>0, <1>1, <1>3, <2>0, <2>1
    <3> QED
      BY <1>0, <1>3, <3>1 DEF Increasing
  <2>2. CASE Len(P) < i
    <3>1. i - Len(P) \in 1..Len(Q) /\ j - Len(P) \in 1..Len(Q) /\ i - Len(P) < j - Len(P)
      BY <1>0, <1>3, <2>0, <2>2
    <3>2. R[i] = Q[i - Len(P)] /\ R[j] = Q[j - Len(P)]
      <4>1. i \notin 1..Len(P) /\ j \notin 1..Len(P)
        BY <1>0, <1>3, <2>0, <2>2
      <4> QED
        BY <1>d, <2>0, <4>1
    <3> QED
      BY <1>0, <3>1, <3>2 DEF Increasing
  <2>3. CASE i <= Len(P) /\ Len(P) < j
    <3>1. i \in 1..Len(P) /\ j \notin 1..Len(P)
      BY <1>0, <2>0, <2>3
    <3>2. R[i] \in Range(P) /\ R[j] \in Range(Q)
      BY <1>a, <1>d, <2>0, <3>1
    <3> QED
      BY <3>2
  <2> QED
    BY <1>0, <2>0, <2>1, <2>2, <2>3
<1>4. Range(R) \subseteq Range(P) \cup Range(Q)
  <2> SUFFICES ASSUME NEW i \in 1..(Len(P) + Len(Q)) PROVE R[i] \in Range(P) \cup Range(Q)
    BY <1>2 DEF Range
  <2> QED
    BY <1>a, <1>d
<1>5. Range(P) \subseteq Range(R)
  <2> SUFFICES ASSUME NEW i \in 1..Len(P) PROVE P[i] \in Range(R)
    BY <1>0 DEF Range
  <2>1. i \in 1..(Len(P) + Len(Q)) /\ R[i] = P[i]
    BY <1>0, <1>1
  <2> QED
    BY <1>2, <2>1 DEF Range
<1>6. Range(Q) \subseteq Range(R)
  <2> SUFFICES ASSUME NEW i \in 1..Len(Q) PROVE Q[i] \in Range(R)
    BY <1>0 DEF Range
  <2>1. i + Len(P) \in 1..(Len(P) + Len(Q)) /\ ~(i + Len(P) <= Len(P)) /\ (i + Len(P)) - Len(P) = i
    BY <1>0
  <2>2. R[i + Len(P)] = Q[i]
    BY <1>1, <2>1
  <2> QED
    BY <1>2, <2>1, <2>2 DEF Range
<1> QED
  BY <1>1, <1>3, <1>4, <1>5, <1>6 DEF Increasing, R

-----------------------------------------------------------------------------
(* The event streams.                                                      *)

IdsOf(n) == Range(tx[n].ids)
Unsettled(n) == tx[n].st \in {"open", "committing"}
Committed == {n \in Posts : tx[n].st = "committed"}

\* Ids are given out in the order of the posts, and what is committed is visible.
IdsInv ==
    /\ \A n \in Posts : IdsOf(n) \subseteq 1..(nextId - 1)
    /\ \A m, n \in Posts : m < n => \A a \in IdsOf(m), b \in IdsOf(n) : a < b
    /\ rows = UNION {IdsOf(n) : n \in Committed}
\* A post whose transaction may still commit is the one the runner is at,
\* unless it gave up waiting; what comes after it has not begun.
WaitInv ==
    /\ \A n \in Posts : tx[n].st = "none" => tx[n].ids = <<>>
    /\ \A n \in Posts : n > runner.next \/ (n = runner.next /\ runner.pc = "idle") =>
           tx[n].st = "none"
    /\ \A n \in Posts : Unsettled(n) /\ ~tx[n].cancelled =>
           n = runner.next /\ runner.pc = "posting"
    /\ ~timedOut => \A n \in Posts : Unsettled(n) => n = runner.next /\ runner.pc # "idle"
    /\ runner.pc = "posting" => runner.next \in Posts
PostInv == IdsInv /\ WaitInv

\* A stream has sent the visible events up to its cursor, in their order.
SentUpTo(x) ==
    /\ Increasing(x.sent)
    /\ Range(x.sent) = {id \in rows : id <= x.last}
    /\ x.last = 0 \/ x.last \in rows
SentInv == ~timedOut => \A s \in Streams : SentUpTo(str[s])

\* A run that is over has no runner, and a stream that listed its events then
\* has them all.
EndInv ==
    /\ status # "running" => runner.pc = "exited"
    /\ \A s \in Streams : str[s].overAtList => status # "running"
    /\ ~timedOut /\ runner.next = 6 =>
           \A s \in Streams : str[s].overAtList => Range(str[s].sent) = rows

\* Every request that has not given its place back has one.
Busy == {s \in Streams : str[s].pc # "off"}
Streaming == {s \in Streams : str[s].pc \in {"waiting", "listed"}}
CapInv ==
    /\ IsFiniteSet(Busy) /\ counter = Cardinality(Busy)
    /\ Cardinality(Streaming) <= SSEMaxConcurrent

OnlyTx(n) == tx' \in [Posts -> Transaction] /\ \A m \in Posts \ {n} : tx'[m] = tx[m]
TxStates == {"none", "open", "committing", "committed", "gone"}

\* A transaction moves to a state: nothing else of the posts changes.
LEMMA TxStep ==
    ASSUME StreamTypeOK, NEW n \in Posts, NEW s \in TxStates, tx' = [tx EXCEPT ![n].st = s]
    PROVE  OnlyTx(n) /\ tx'[n].st = s /\ tx'[n].ids = tx[n].ids /\ tx'[n].cancelled = tx[n].cancelled
BY DEF StreamTypeOK, OnlyTx, Transaction, TxStates

\* A request is given up: nothing else of the posts changes.
LEMMA TxCancel ==
    ASSUME StreamTypeOK, NEW n \in Posts, tx' = [tx EXCEPT ![n].cancelled = TRUE]
    PROVE  OnlyTx(n) /\ tx'[n].st = tx[n].st /\ tx'[n].ids = tx[n].ids /\ tx'[n].cancelled = TRUE
BY DEF StreamTypeOK, OnlyTx, Transaction

\* Appending a number adds it to the range.
LEMMA RangeAppend ==
    ASSUME NEW q \in Seq(Nat), NEW x \in Nat
    PROVE  Range(Append(q, x)) = Range(q) \cup {x}
<1> DEFINE r == Append(q, x)
<1>1. /\ r \in Seq(Nat) /\ Len(r) = Len(q) + 1
      /\ \A i \in 1..Len(q) : r[i] = q[i]
      /\ r[Len(q) + 1] = x
  BY AppendProperties
<1> HIDE DEF r
<1>2. Len(q) \in Nat /\ DOMAIN q = 1..Len(q) /\ DOMAIN r = 1..(Len(q) + 1)
  BY <1>1
<1>3. \A i : i \in 1..(Len(q) + 1) <=> i \in 1..Len(q) \/ i = Len(q) + 1
  BY <1>2
<1>4. \A y : y \in Range(r) <=> y \in Range(q) \/ y = x
  BY <1>1, <1>2, <1>3 DEF Range
<1> QED
  BY <1>4 DEF r

\* An insert adds the next id to the transaction's rows.
LEMMA TxInsert ==
    ASSUME StreamTypeOK, NEW n \in Posts, tx' = [tx EXCEPT ![n].ids = Append(@, nextId)]
    PROVE  /\ OnlyTx(n) /\ tx'[n].st = tx[n].st /\ tx'[n].cancelled = tx[n].cancelled
           /\ tx'[n].ids = Append(tx[n].ids, nextId)
           /\ IdsOf(n)' = IdsOf(n) \cup {nextId}
<1>1. tx[n] \in Transaction /\ tx[n].ids \in Seq(Nat) /\ nextId \in Nat
  BY DEF StreamTypeOK, Transaction
<1>2. Append(tx[n].ids, nextId) \in Seq(Nat)
  BY <1>1
<1>3. OnlyTx(n) /\ tx'[n].st = tx[n].st /\ tx'[n].cancelled = tx[n].cancelled
      /\ tx'[n].ids = Append(tx[n].ids, nextId)
  BY <1>1, <1>2 DEF StreamTypeOK, OnlyTx, Transaction
<1> QED
  BY <1>1, <1>3, RangeAppend DEF IdsOf

\* Only transaction n is touched.
LEMMA RunnerType ==
    ASSUME StreamTypeOK
    PROVE  runner.next \in 1..6 /\ runner.pc \in {"idle", "posting", "exited"}
BY DEF StreamTypeOK, RunnerProcess

\* A row is visible just if a committed post wrote it.
LEMMA RowsOf ==
    ASSUME rows = UNION {IdsOf(n) : n \in Committed}
    PROVE  \A id : id \in rows <=> \E n \in Posts : tx[n].st = "committed" /\ id \in IdsOf(n)
BY DEF Committed

\* What is visible is finite.
LEMMA RowsFinite ==
    ASSUME StreamTypeOK, PostInv
    PROVE  IsFiniteSet(rows) /\ rows \subseteq Nat /\ \A id \in rows : 1 <= id
<1>1. nextId \in Nat
  BY DEF StreamTypeOK
<1>2. rows \in SUBSET (1..(nextId - 1))
  BY RowsOf DEF PostInv, IdsInv
<1>3. IsFiniteSet(1..(nextId - 1))
  BY <1>1, FS_Interval
<1>4. IsFiniteSet(rows)
  BY <1>2, <1>3, FS_Subset
<1> QED
  BY <1>1, <1>2, <1>4

\* The runner's steps keep it well typed, and change what they name.
LEMMA RunnerMoves ==
    ASSUME StreamTypeOK
    PROVE  /\ \A p \in {"idle", "posting", "exited"} :
                  LET r == [runner EXCEPT !.pc = p]
                  IN  r \in RunnerProcess /\ r.pc = p /\ r.next = runner.next /\ r.result = runner.result
           /\ \A p \in {"idle"}, k \in 1..6 :
                  LET r == [runner EXCEPT !.pc = p, !.next = k]
                  IN  r \in RunnerProcess /\ r.pc = p /\ r.next = k
           /\ \A o \in Outcomes, k \in 1..6 :
                  LET r == [runner EXCEPT !.result = o, !.next = k]
                  IN  r \in RunnerProcess /\ r.pc = runner.pc /\ r.next = k /\ r.result = o
<1>1. runner \in RunnerProcess
  BY DEF StreamTypeOK
<1>2. \A p \in {"idle", "posting", "exited"} :
          LET r == [runner EXCEPT !.pc = p]
          IN  r \in RunnerProcess /\ r.pc = p /\ r.next = runner.next /\ r.result = runner.result
  BY <1>1 DEF RunnerProcess
<1>3. \A p \in {"idle"}, k \in 1..6 :
          LET r == [runner EXCEPT !.pc = p, !.next = k]
          IN  r \in RunnerProcess /\ r.pc = p /\ r.next = k
  <2> TAKE p \in {"idle"}, k \in 1..6
  <2>1. [runner EXCEPT !.pc = p] \in RunnerProcess
    BY <1>1 DEF RunnerProcess
  <2>2. [runner EXCEPT !.pc = p, !.next = k] = [[runner EXCEPT !.pc = p] EXCEPT !.next = k]
    BY <1>1
  <2> QED
    BY <2>1, <2>2 DEF RunnerProcess
<1>4. \A o \in Outcomes, k \in 1..6 :
          LET r == [runner EXCEPT !.result = o, !.next = k]
          IN  r \in RunnerProcess /\ r.pc = runner.pc /\ r.next = k /\ r.result = o
  <2> TAKE o \in Outcomes, k \in 1..6
  <2>1. [runner EXCEPT !.result = o] \in RunnerProcess /\ [runner EXCEPT !.result = o].pc = runner.pc
    BY <1>1 DEF RunnerProcess
  <2>2. [runner EXCEPT !.result = o, !.next = k] = [[runner EXCEPT !.result = o] EXCEPT !.next = k]
    BY <1>1
  <2> QED
    BY <2>1, <2>2 DEF RunnerProcess
<1> QED
  BY <1>2, <1>3, <1>4

\* A fault counts towards the bound on faults.
LEMMA FaultType ==
    ASSUME StreamTypeOK, Fault PROVE faults' \in 0..MaxFaults
BY StreamBounds DEF StreamTypeOK, Fault

StreamPcs == {"off", "rejecting", "waiting", "listed", "leaving"}
OnlyStream(s) == str' \in [Streams -> StreamRequest] /\ \A r \in Streams \ {s} : str'[r] = str[r]
\* Stream s keeps what it has sent.
Keeps(s) == str'[s].last = str[s].last /\ str'[s].sent = str[s].sent /\ str'[s].overAtList = str[s].overAtList

\* A step of one stream's handler leaves what it sent, and the other streams.
LEMMA StreamMoves ==
    ASSUME StreamTypeOK, NEW s \in Streams, NEW p \in StreamPcs, str' = [str EXCEPT ![s].pc = p]
    PROVE  OnlyStream(s) /\ str'[s].pc = p /\ Keeps(s) /\ str'[s].done = str[s].done
BY DEF StreamTypeOK, OnlyStream, Keeps, StreamRequest, StreamPcs

\* A handler that ends its stream leaves what it sent, and the other streams.
LEMMA StreamAnswers ==
    ASSUME StreamTypeOK, NEW s \in Streams, NEW p \in StreamPcs, NEW d \in BOOLEAN, Answer(s, p, d)
    PROVE  OnlyStream(s) /\ str'[s].pc = p /\ Keeps(s) /\ str'[s].done = d
<1>1. str[s] \in StreamRequest /\ str \in [Streams -> StreamRequest]
  BY DEF StreamTypeOK
<1>2. /\ [str[s] EXCEPT !.pc = p] \in StreamRequest
      /\ [[str[s] EXCEPT !.pc = p] EXCEPT !.done = d] \in StreamRequest
  BY <1>1 DEF StreamRequest, StreamPcs
<1>3. str' = [str EXCEPT ![s] = [[str[s] EXCEPT !.pc = p] EXCEPT !.done = d]]
  BY <1>1 DEF Answer
<1> QED
  BY <1>1, <1>2, <1>3 DEF OnlyStream, Keeps, StreamRequest

\* A request begins with nothing sent.
LEMMA StreamOpens ==
    ASSUME StreamTypeOK, NEW s \in Streams, NEW p \in StreamPcs, str' = [str EXCEPT ![s] = [Closed EXCEPT !.pc = p]]
    PROVE  /\ OnlyStream(s) /\ str'[s].pc = p /\ str'[s].last = 0 /\ str'[s].sent = <<>>
           /\ str'[s].overAtList = FALSE /\ str'[s].done = FALSE
<1> DEFINE r == [Closed EXCEPT !.pc = p]
<1>1. Closed \in StreamRequest
  BY DEF StreamRequest, Closed
<1>2. r \in StreamRequest /\ r.pc = p
  BY <1>1 DEF StreamRequest, StreamPcs
<1>3. r.last = 0 /\ r.sent = <<>> /\ r.overAtList = FALSE /\ r.done = FALSE
  BY DEF Closed
<1>4. OnlyStream(s) /\ str'[s] = r
  BY <1>2 DEF OnlyStream, StreamTypeOK
<1> QED
  BY <1>2, <1>3, <1>4

\* What a tick sends: the visible events after the cursor, which moves to the
\* last of them.
LEMMA StreamSends ==
    ASSUME StreamTypeOK, PostInv, NEW s \in Streams, SendEvents(s)
    PROVE  /\ OnlyStream(s) /\ str'[s].pc = "listed" /\ str'[s].done = str[s].done
           /\ str'[s].overAtList = (status # "running")
           /\ LET new == ListRunEventsSince(str[s].last) IN
              /\ new \in Seq(Nat) /\ Increasing(new) /\ Range(new) = {id \in rows : id > str[s].last}
              /\ str'[s].sent = str[s].sent \o new
              /\ str'[s].last = IF new = <<>> THEN str[s].last ELSE Last(new)
              /\ new # <<>> => Last(new) \in Range(new) /\ \A id \in Range(new) : id <= Last(new)
<1> DEFINE S == {id \in rows : id > str[s].last}
           new == ListRunEventsSince(str[s].last)
           last == IF new = <<>> THEN str[s].last ELSE Last(new)
           r == [pc |-> "listed", done |-> str[s].done, sent |-> str[s].sent \o new,
                 last |-> last, overAtList |-> status # "running"]
<1>0. str[s] \in StreamRequest
  BY DEF StreamTypeOK
<1>1. S \in SUBSET rows /\ S \subseteq Nat /\ IsFiniteSet(S)
  BY RowsFinite, FS_Subset
<1>2. new \in Seq(S) /\ Increasing(new) /\ Range(new) = S
  BY <1>1, AscendingSeq DEF ListRunEventsSince
<1>3. new \in Seq(Nat)
  BY <1>1, <1>2, SeqMonotonic
<1>4. str' = [str EXCEPT ![s] = r]
  BY DEF SendEvents, StreamTypeOK
<1> HIDE DEF new, S
<1>5. new # <<>> => Last(new) \in Range(new) /\ \A id \in Range(new) : id <= Last(new)
  <2> SUFFICES ASSUME new # <<>> PROVE Last(new) \in Range(new) /\ \A id \in Range(new) : id <= Last(new)
    OBVIOUS
  <2>1. DOMAIN new = 1..Len(new) /\ Len(new) \in Nat /\ Len(new) # 0
    BY <1>3
  <2>2. Len(new) \in DOMAIN new
    BY <2>1
  <2>3. ASSUME NEW i \in DOMAIN new PROVE new[i] <= new[Len(new)]
    <3>1. new[i] \in Nat /\ new[Len(new)] \in Nat
      BY <1>3, <2>1, <2>2
    <3>2. i = Len(new) \/ i < Len(new)
      BY <2>1
    <3> QED
      BY <1>2, <2>2, <3>1, <3>2 DEF Increasing
  <2> QED
    BY <2>2, <2>3 DEF Last, Range
<1>6. last \in Nat
  BY <1>0, <1>1, <1>2, <1>5 DEF StreamRequest
<1> HIDE DEF last
<1>7. str[s].sent \o new \in Seq(Nat)
  BY <1>0, <1>3 DEF StreamRequest
<1>8. str[s].done \in BOOLEAN /\ (status # "running") \in BOOLEAN
  BY <1>0 DEF StreamRequest
<1>9. r \in StreamRequest
  BY <1>6, <1>7, <1>8 DEF StreamRequest
<1>10. OnlyStream(s) /\ str'[s] = r
  BY <1>4, <1>9 DEF OnlyStream, StreamTypeOK
<1>11. /\ str'[s].pc = "listed" /\ str'[s].done = str[s].done /\ str'[s].overAtList = (status # "running")
       /\ str'[s].sent = str[s].sent \o new /\ str'[s].last = last
  BY <1>10
<1> HIDE DEF r
<1>12. str'[s].last = IF new = <<>> THEN str[s].last ELSE Last(new)
  BY <1>11 DEF last
<1>13. Range(new) = {id \in rows : id > str[s].last}
  BY <1>2 DEF S
<1> QED
  BY <1>2, <1>3, <1>5, <1>10, <1>11, <1>12, <1>13 DEF new

StreamTyped == StreamTypeOK /\ PostInv /\ CapInv

\* The types, the posts and the cap hold at first.
LEMMA StreamInitTyped == StreamInit => StreamTyped
<1> SUFFICES ASSUME StreamInit PROVE StreamTyped
  OBVIOUS
<1>1. NoTx \in Transaction /\ Closed \in StreamRequest /\ Idle \in RunnerProcess
  BY DEF NoTx, Transaction, Closed, StreamRequest, Idle, RunnerProcess
<1>2. StreamTypeOK
  <2>1. tx \in [Posts -> Transaction] /\ str \in [Streams -> StreamRequest]
    BY <1>1 DEF StreamInit
  <2>2. status \in Outcomes \cup {"running"} /\ runner \in RunnerProcess /\ timedOut \in BOOLEAN
    BY <1>1 DEF StreamInit
  <2>3. rows \in SUBSET Nat /\ nextId \in Nat \ {0} /\ counter \in Nat /\ opens \in 0..MaxOpens /\ faults \in 0..MaxFaults
    BY StreamBounds DEF StreamInit
  <2> QED
    BY <2>1, <2>2, <2>3 DEF StreamTypeOK
<1>3. \A n \in Posts : tx[n].st = "none" /\ tx[n].ids = <<>> /\ IdsOf(n) = {}
  BY DEF StreamInit, NoTx, IdsOf, Range
<1>4. PostInv
  BY <1>3 DEF PostInv, IdsInv, WaitInv, StreamInit, Committed, Unsettled, Idle
<1>5. Busy = {} /\ Streaming = {} /\ counter = 0
  BY DEF StreamInit, Closed, Busy, Streaming
<1>6. CapInv
  BY <1>5, FS_EmptySet, StreamBounds DEF CapInv
<1> QED
  BY <1>2, <1>4, <1>6 DEF StreamTyped

\* Each step keeps the streams of an address under the cap: the increment
\* decides, not a comparison before it.
LEMMA CapStep == StreamTypeOK /\ CapInv /\ PostInv /\ [StreamNext]_eventVars => CapInv' /\ counter' \in Nat
<1> SUFFICES ASSUME StreamTypeOK, CapInv, PostInv, [StreamNext]_eventVars PROVE CapInv' /\ counter' \in Nat
  OBVIOUS
<1> USE DEF streamVars, serverVars, others
<1>a. counter \in Nat /\ SSEMaxConcurrent \in Nat
  BY StreamBounds DEF StreamTypeOK
<1>b. CASE UNCHANGED <<str, counter>>
  BY <1>a, <1>b DEF CapInv, Busy, Streaming
<1>c. ASSUME NEW s \in Streams, OnlyStream(s), UNCHANGED counter, str[s].pc # "off", str'[s].pc # "off",
             str'[s].pc \in {"waiting", "listed"} => str[s].pc \in {"waiting", "listed"}
      PROVE  CapInv' /\ counter' \in Nat
  <2>1. Busy' = Busy
    BY <1>c DEF Busy, OnlyStream
  <2>2. Streaming' \in SUBSET Streaming /\ Streaming \in SUBSET Busy
    BY <1>c DEF Streaming, Busy, OnlyStream
  <2>3. IsFiniteSet(Streaming) /\ Cardinality(Streaming) \in Nat
    BY <2>2, FS_Subset, FS_CardinalityType DEF CapInv
  <2>4. Cardinality(Streaming') <= Cardinality(Streaming) /\ Cardinality(Streaming') \in Nat
    BY <2>2, <2>3, FS_Subset, FS_CardinalityType
  <2>5. Cardinality(Streaming') <= SSEMaxConcurrent
    BY <1>a, <2>3, <2>4 DEF CapInv
  <2> QED
    BY <1>a, <1>c, <2>1, <2>5 DEF CapInv
<1>1. CASE RunnerStep \/ TimesOut \/ FailRun \/ RunnerDies \/ OrphanSweep
  BY <1>b, <1>1 DEF RunnerStep, PostEvents, Answered, Return, PostFinalize, TimesOut, FailRun, RunnerDies, OrphanSweep
<1>2. ASSUME NEW n \in Posts, ServerStep(n) \/ Rollback(n) PROVE CapInv' /\ counter' \in Nat
  BY <1>b, <1>2 DEF ServerStep, InsertRunEvent, SendCommit, Commit, Rollback
<1>3. ASSUME NEW s \in Streams, SendEvents(s) PROVE CapInv' /\ counter' \in Nat
  BY <1>c, <1>3, StreamSends DEF SendEvents
<1>4. ASSUME NEW s \in Streams, NEW p \in {"leaving", "waiting"}, NEW d \in BOOLEAN, Answer(s, p, d),
             UNCHANGED counter, str[s].pc \in {"waiting", "listed"}
      PROVE CapInv' /\ counter' \in Nat
  BY <1>c, <1>4, StreamAnswers DEF StreamPcs
<1>5. ASSUME NEW s \in Streams, Disconnect(s) PROVE CapInv' /\ counter' \in Nat
  BY <1>c, <1>5, StreamMoves DEF Disconnect, StreamPcs
<1>6. ASSUME NEW s \in Streams, SSE(s) PROVE CapInv' /\ counter' \in Nat
  <2>1. ASSUME NEW p \in {"rejecting", "waiting"}, str[s].pc = "off", counter' = counter + 1,
               str' = [str EXCEPT ![s] = [Closed EXCEPT !.pc = p]],
               p = "waiting" => counter + 1 <= SSEMaxConcurrent
        PROVE  CapInv' /\ counter' \in Nat
    <3>1. OnlyStream(s) /\ str'[s].pc = p
      BY <2>1, StreamOpens DEF StreamPcs
    <3>2. Busy' = Busy \cup {s} /\ s \notin Busy
      BY <2>1, <3>1 DEF Busy, OnlyStream
    <3>3. IsFiniteSet(Busy') /\ counter' = Cardinality(Busy') /\ counter' \in Nat
      BY <1>a, <2>1, <3>2, FS_AddElement DEF CapInv
    <3>4. Cardinality(Streaming') <= SSEMaxConcurrent
      <4>1. CASE p = "waiting"
        <5>1. Streaming' \in SUBSET Busy'
          BY DEF Streaming, Busy
        <5>2. Cardinality(Streaming') <= Cardinality(Busy') /\ Cardinality(Streaming') \in Nat
          BY <3>3, <5>1, FS_Subset, FS_CardinalityType
        <5> QED
          BY <1>a, <2>1, <3>3, <4>1, <5>2
      <4>2. CASE p = "rejecting"
        <5>1. Streaming' = Streaming
          BY <2>1, <3>1, <4>2 DEF Streaming, OnlyStream
        <5> QED
          BY <5>1 DEF CapInv
      <4> QED
        BY <4>1, <4>2
    <3> QED
      BY <3>3, <3>4 DEF CapInv
  <2>2. CASE str[s].pc \in {"rejecting", "leaving"} /\ str' = [str EXCEPT ![s].pc = "off"] /\ counter' = counter - 1
    <3>1. OnlyStream(s) /\ str'[s].pc = "off"
      BY <2>2, StreamMoves DEF StreamPcs
    <3>2. Busy' = Busy \ {s} /\ s \in Busy /\ Streaming' = Streaming
      BY <2>2, <3>1 DEF Busy, Streaming, OnlyStream
    <3>3. IsFiniteSet(Busy') /\ counter' = Cardinality(Busy')
      BY <2>2, <3>2, FS_RemoveElement DEF CapInv
    <3>4. counter' \in Nat
      BY <3>3, FS_CardinalityType
    <3> QED
      BY <3>2, <3>3, <3>4 DEF CapInv
  <2> QED
    BY <1>a, <1>6, <2>1, <2>2 DEF SSE
<1>7. ASSUME NEW s \in Streams, GetRun(s) \/ StreamFails(s) PROVE CapInv' /\ counter' \in Nat
  <2>1. Terminal(status) \in BOOLEAN /\ (str[s].pc = "listed") \in BOOLEAN
    BY DEF Terminal
  <2>2. CASE GetRun(s)
    BY <1>4, <2>1, <2>2 DEF GetRun
  <2>3. CASE StreamFails(s)
    BY <1>4, <2>1, <2>3 DEF StreamFails
  <2> QED
    BY <1>7, <2>2, <2>3
<1>8. CASE UNCHANGED eventVars
  BY <1>b, <1>8 DEF eventVars
<1> QED
  BY <1>1, <1>2, <1>3, <1>5, <1>6, <1>7, <1>8 DEF StreamNext, StreamStep, Throttle

\* What each step of the runner makes of it.
LEMMA RunnerSteps ==
    ASSUME StreamTypeOK
    PROVE  /\ PostEvents => runner' \in RunnerProcess /\ runner'.pc = "posting" /\ runner'.next = runner.next
           /\ Answered \/ TimesOut =>
                /\ runner.next \in Posts => runner' \in RunnerProcess /\ runner'.pc = "idle" /\ runner'.next = runner.next + 1
           /\ \A o \in Outcomes : Return(o) =>
                /\ runner' \in RunnerProcess /\ runner'.pc = "idle" /\ runner'.next \in {4, 5}
                /\ runner.next <= runner'.next
           /\ FailRun => runner' \in RunnerProcess /\ runner'.pc = "idle" /\ runner'.next = 6
           /\ PostFinalize \/ RunnerDies => runner' \in RunnerProcess /\ runner'.pc = "exited" /\ runner'.next = runner.next
<1>1. PostEvents => runner' \in RunnerProcess /\ runner'.pc = "posting" /\ runner'.next = runner.next
  BY RunnerMoves DEF PostEvents
<1>2. Answered \/ TimesOut =>
        /\ runner.next \in Posts => runner' \in RunnerProcess /\ runner'.pc = "idle" /\ runner'.next = runner.next + 1
  <2> SUFFICES ASSUME Answered \/ TimesOut, runner.next \in Posts
               PROVE  runner' \in RunnerProcess /\ runner'.pc = "idle" /\ runner'.next = runner.next + 1
    OBVIOUS
  <2>1. runner.next + 1 \in 1..6
    BY DEF Posts
  <2>2. runner' = [runner EXCEPT !.pc = "idle", !.next = runner.next + 1]
    BY DEF Answered, TimesOut, StreamTypeOK, RunnerProcess
  <2> QED
    BY <2>1, <2>2, RunnerMoves
<1>3. ASSUME NEW o \in Outcomes, Return(o)
      PROVE  /\ runner' \in RunnerProcess /\ runner'.pc = "idle" /\ runner'.next \in {4, 5}
             /\ runner.next <= runner'.next
  <2>1. PICK k \in {4, 5} : k = IF o = "failed" THEN 5 ELSE 4
    OBVIOUS
  <2>2. runner' = [runner EXCEPT !.result = o, !.next = k] /\ runner.next \in {3, 4} /\ runner.pc = "idle"
    BY <1>3, <2>1 DEF Return
  <2>3. runner' \in RunnerProcess /\ runner'.pc = runner.pc /\ runner'.next = k
    <3>1. [runner EXCEPT !.result = o] \in RunnerProcess /\ [runner EXCEPT !.result = o].pc = runner.pc
      BY DEF StreamTypeOK, RunnerProcess
    <3>2. runner' = [[runner EXCEPT !.result = o] EXCEPT !.next = k] /\ k \in 1..6
      BY <2>1, <2>2
    <3> QED
      BY <3>1, <3>2 DEF RunnerProcess
  <2> QED
    BY <2>2, <2>3
<1>4. FailRun => runner' \in RunnerProcess /\ runner'.pc = "idle" /\ runner'.next = 6
  BY RunnerMoves DEF FailRun, Outcomes
<1>5. PostFinalize \/ RunnerDies => runner' \in RunnerProcess /\ runner'.pc = "exited" /\ runner'.next = runner.next
  BY RunnerMoves DEF PostFinalize, RunnerDies
<1> QED
  BY <1>1, <1>2, <1>3, <1>4, <1>5

\* A post the runner waits for has a transaction.
LEMMA Waiting ==
    ASSUME StreamTypeOK, PostInv, Answered \/ TimesOut
    PROVE  runner.next \in Posts
BY DEF Answered, TimesOut, PostInv, WaitInv

\* Each step keeps the types.
LEMMA StreamTypeStep == StreamTypeOK /\ CapInv /\ PostInv /\ [StreamNext]_eventVars => StreamTypeOK'
<1> SUFFICES ASSUME StreamTypeOK, CapInv, PostInv, [StreamNext]_eventVars PROVE StreamTypeOK'
  OBVIOUS
<1> USE DEF streamVars, serverVars, others
<1>0. counter' \in Nat
  BY CapStep
<1>1. CASE PostEvents
  <2>1. tx' \in [Posts -> Transaction]
    BY <1>1, TxStep DEF PostEvents, OnlyTx, TxStates
  <2> QED
    BY <1>1, <2>1, RunnerSteps DEF PostEvents, StreamTypeOK
<1>2. CASE Answered
  BY <1>2, RunnerSteps, Waiting DEF Answered, StreamTypeOK
<1>3. CASE TimesOut
  <2>1. tx' \in [Posts -> Transaction]
    BY <1>3, Waiting, TxCancel DEF TimesOut, OnlyTx
  <2> QED
    BY <1>3, <2>1, RunnerSteps, Waiting, FaultType DEF TimesOut, StreamTypeOK
<1>4. ASSUME NEW o \in Outcomes, Return(o) PROVE StreamTypeOK'
  BY <1>4, RunnerSteps DEF Return, StreamTypeOK
<1>5. CASE FailRun
  BY <1>5, RunnerSteps DEF FailRun, StreamTypeOK
<1>6. CASE PostFinalize
  <2>1. status' \in Outcomes \cup {"running"}
    BY <1>6 DEF PostFinalize, StreamTypeOK, RunnerProcess
  <2> QED
    BY <1>6, <2>1, RunnerSteps DEF PostFinalize, StreamTypeOK
<1>7. CASE RunnerDies
  <2>1. tx' \in [Posts -> Transaction]
    <3>1. \A n \in Posts : tx[n] \in Transaction /\ [tx[n] EXCEPT !.cancelled = TRUE] \in Transaction
      BY DEF StreamTypeOK, Transaction
    <3> QED
      BY <1>7, <3>1 DEF RunnerDies
  <2> QED
    BY <1>7, <2>1, RunnerSteps, FaultType DEF RunnerDies, StreamTypeOK
<1>8. CASE OrphanSweep
  BY <1>8 DEF OrphanSweep, StreamTypeOK, Outcomes
<1>9. ASSUME NEW n \in Posts, InsertRunEvent(n) PROVE StreamTypeOK'
  <2>1. tx' \in [Posts -> Transaction]
    BY <1>9, TxInsert DEF InsertRunEvent, OnlyTx
  <2>2. nextId' \in Nat \ {0}
    BY <1>9 DEF InsertRunEvent, StreamTypeOK
  <2> QED
    BY <1>9, <2>1, <2>2 DEF InsertRunEvent, StreamTypeOK
<1>10. ASSUME NEW n \in Posts, SendCommit(n) PROVE StreamTypeOK'
  <2>1. tx' \in [Posts -> Transaction]
    BY <1>10, TxStep DEF SendCommit, OnlyTx, TxStates
  <2> QED
    BY <1>10, <2>1 DEF SendCommit, StreamTypeOK
<1>11. ASSUME NEW n \in Posts, Commit(n) PROVE StreamTypeOK'
  <2>1. tx' \in [Posts -> Transaction]
    BY <1>11, TxStep DEF Commit, OnlyTx, TxStates
  <2>2. Range(tx[n].ids) \subseteq Nat
    BY DEF StreamTypeOK, Transaction, Range
  <2> QED
    BY <1>11, <2>1, <2>2 DEF Commit, StreamTypeOK
<1>12. ASSUME NEW n \in Posts, Rollback(n) PROVE StreamTypeOK'
  <2>1. tx' \in [Posts -> Transaction]
    BY <1>12, TxStep DEF Rollback, OnlyTx, TxStates
  <2>2. faults' \in 0..MaxFaults
    BY <1>12, FaultType DEF Rollback, StreamTypeOK
  <2> QED
    BY <1>12, <2>1, <2>2 DEF Rollback, StreamTypeOK
<1>13. ASSUME NEW s \in Streams, SendEvents(s) PROVE StreamTypeOK'
  BY <1>13, StreamSends DEF SendEvents, StreamTypeOK, OnlyStream
<1>14. ASSUME NEW s \in Streams, GetRun(s) PROVE StreamTypeOK'
  <2>1. str' \in [Streams -> StreamRequest]
    <3>1. Terminal(status) \in BOOLEAN
      BY DEF Terminal
    <3> QED
      BY <1>14, <3>1, StreamAnswers DEF GetRun, OnlyStream, StreamPcs
  <2> QED
    BY <1>14, <2>1 DEF GetRun, StreamTypeOK
<1>15. ASSUME NEW s \in Streams, StreamFails(s) PROVE StreamTypeOK'
  <2>1. str' \in [Streams -> StreamRequest]
    <3>1. (str[s].pc = "listed") \in BOOLEAN
      OBVIOUS
    <3> QED
      BY <1>15, <3>1, StreamAnswers DEF StreamFails, OnlyStream, StreamPcs
  <2> QED
    BY <1>15, <2>1, FaultType DEF StreamFails, StreamTypeOK
<1>16. ASSUME NEW s \in Streams, Disconnect(s) PROVE StreamTypeOK'
  BY <1>16, StreamMoves DEF Disconnect, StreamTypeOK, StreamPcs, OnlyStream
<1>17. ASSUME NEW s \in Streams, Throttle(s) PROVE StreamTypeOK'
  <2>1. str' \in [Streams -> StreamRequest]
    BY <1>17, StreamMoves, StreamOpens DEF Throttle, SSE, StreamPcs, OnlyStream
  <2>2. opens' \in 0..MaxOpens
    BY <1>17, StreamBounds DEF Throttle, SSE, StreamTypeOK
  <2> QED
    BY <1>0, <1>17, <2>1, <2>2 DEF Throttle, StreamTypeOK
<1>18. CASE UNCHANGED eventVars
  BY <1>18 DEF eventVars, StreamTypeOK
<1> QED
  BY <1>1, <1>2, <1>3, <1>4, <1>5, <1>6, <1>7, <1>8, <1>9, <1>10, <1>11, <1>12, <1>13, <1>14, <1>15,
     <1>16, <1>17, <1>18 DEF StreamNext, RunnerStep, ServerStep, StreamStep

\* A step that writes and commits no rows leaves the order of their ids.
LEMMA SameIds ==
    ASSUME IdsInv, UNCHANGED <<rows, nextId>>,
           \A n \in Posts : tx'[n].ids = tx[n].ids /\ (tx'[n].st = "committed" <=> tx[n].st = "committed")
    PROVE  IdsInv'
<1>1. \A n \in Posts : IdsOf(n)' = IdsOf(n)
  BY DEF IdsOf
<1>2. Committed' = Committed
  BY DEF Committed
<1>3. rows' = UNION {IdsOf(n)' : n \in Committed'}
  BY <1>1, <1>2 DEF IdsInv, Committed
<1> QED
  BY <1>1, <1>3 DEF IdsInv

\* Each step keeps the ids in the order of the posts: a post begins only after
\* the one before it has its ids.
LEMMA IdsStep == StreamTypeOK /\ PostInv /\ [StreamNext]_eventVars => IdsInv'
<1> SUFFICES ASSUME StreamTypeOK, PostInv, [StreamNext]_eventVars PROVE IdsInv'
  OBVIOUS
<1> USE DEF streamVars, serverVars, others
<1>a. IdsInv /\ WaitInv
  BY DEF PostInv
<1>b. CASE UNCHANGED <<tx, rows, nextId>>
  BY <1>a, <1>b, SameIds
<1>c. ASSUME NEW n \in Posts, OnlyTx(n), UNCHANGED <<rows, nextId>>, tx'[n].ids = tx[n].ids,
             tx[n].st # "committed", tx'[n].st # "committed"
      PROVE  IdsInv'
  BY <1>a, <1>c, SameIds DEF OnlyTx
<1>1. CASE PostEvents
  <2>1. runner.next \in Posts /\ tx[runner.next].st = "none"
    BY <1>a, <1>1 DEF PostEvents, WaitInv
  <2>2. OnlyTx(runner.next) /\ tx'[runner.next].st = "open" /\ tx'[runner.next].ids = tx[runner.next].ids
    BY <1>1, <2>1, TxStep DEF PostEvents, TxStates
  <2> QED
    BY <1>c, <1>1, <2>1, <2>2 DEF PostEvents
<1>2. CASE TimesOut
  <2>1. runner.next \in Posts /\ tx[runner.next].st # "committed"
    BY <1>2, Waiting DEF TimesOut
  <2>2. /\ OnlyTx(runner.next) /\ tx'[runner.next].st = tx[runner.next].st
        /\ tx'[runner.next].ids = tx[runner.next].ids
    BY <1>2, <2>1, TxCancel DEF TimesOut
  <2> QED
    BY <1>c, <1>2, <2>1, <2>2 DEF TimesOut
<1>3. CASE RunnerDies
  <2>1. \A n \in Posts : tx'[n].ids = tx[n].ids /\ tx'[n].st = tx[n].st
    <3>1. \A n \in Posts : tx[n] \in Transaction
      BY DEF StreamTypeOK
    <3> QED
      BY <1>3, <3>1 DEF RunnerDies, Transaction
  <2> QED
    BY <1>a, <1>3, <2>1, SameIds DEF RunnerDies
<1>4. ASSUME NEW n \in Posts, InsertRunEvent(n) PROVE IdsInv'
  <2>1. OnlyTx(n) /\ tx'[n].st = tx[n].st /\ IdsOf(n)' = IdsOf(n) \cup {nextId}
    BY <1>4, TxInsert DEF InsertRunEvent
  <2>2. \A m \in Posts \ {n} : IdsOf(m)' = IdsOf(m) /\ tx'[m] = tx[m]
    BY <2>1 DEF OnlyTx, IdsOf
  <2>3. nextId \in Nat \ {0} /\ nextId' = nextId + 1
    BY <1>4 DEF InsertRunEvent, StreamTypeOK
  <2>4. \A m \in Posts : IdsOf(m)' \subseteq 1..(nextId' - 1)
    BY <1>a, <2>1, <2>2, <2>3 DEF IdsInv
  <2>5. n = runner.next
    BY <1>a, <1>4 DEF InsertRunEvent, WaitInv, Unsettled
  <2>6. \A m \in Posts : n < m => IdsOf(m) = {}
    <3> SUFFICES ASSUME NEW m \in Posts, n < m PROVE IdsOf(m) = {}
      OBVIOUS
    <3>1. m > runner.next
      BY <2>5 DEF Posts
    <3>2. tx[m].ids = <<>>
      BY <1>a, <3>1 DEF WaitInv
    <3> QED
      BY <3>2 DEF IdsOf, Range
  <2>7. ASSUME NEW m \in Posts, NEW k \in Posts, m < k, NEW a \in IdsOf(m)', NEW b \in IdsOf(k)' PROVE a < b
    <3>1. CASE m = n
      BY <2>2, <2>6, <2>7, <3>1 DEF Posts
    <3>2. CASE m # n /\ b \in IdsOf(k)
      BY <1>a, <2>2, <2>7, <3>2 DEF IdsInv
    <3>3. CASE m # n /\ b = nextId
      BY <1>a, <2>2, <2>3, <3>3 DEF IdsInv
    <3> QED
      BY <2>1, <2>2, <3>1, <3>2, <3>3
  <2>8. rows' = UNION {IdsOf(m)' : m \in Committed'}
    <3>1. Committed' = Committed /\ n \notin Committed /\ Committed \subseteq Posts
      BY <1>4, <2>1, <2>2 DEF Committed, InsertRunEvent
    <3>2. \A m \in Committed : IdsOf(m)' = IdsOf(m)
      BY <2>2, <3>1
    <3> QED
      BY <1>a, <1>4, <3>1, <3>2 DEF IdsInv, InsertRunEvent
  <2> QED
    BY <2>4, <2>7, <2>8 DEF IdsInv
<1>5. ASSUME NEW n \in Posts, SendCommit(n) PROVE IdsInv'
  <2>1. OnlyTx(n) /\ tx'[n].ids = tx[n].ids /\ tx'[n].st = "committing" /\ tx[n].st = "open"
    BY <1>5, TxStep DEF SendCommit, TxStates
  <2> QED
    BY <1>c, <1>5, <2>1 DEF SendCommit
<1>6. ASSUME NEW n \in Posts, Commit(n) PROVE IdsInv'
  <2>1. OnlyTx(n) /\ tx'[n].ids = tx[n].ids /\ tx'[n].st = "committed" /\ tx[n].st = "committing"
    BY <1>6, TxStep DEF Commit, TxStates
  <2>2. \A m \in Posts : IdsOf(m)' = IdsOf(m)
    BY <2>1 DEF OnlyTx, IdsOf
  <2>3. Committed' = Committed \cup {n}
    BY <2>1 DEF Committed, OnlyTx
  <2>4. rows' = rows \cup IdsOf(n) /\ UNCHANGED nextId
    BY <1>6 DEF Commit, IdsOf
  <2>5. rows' = UNION {IdsOf(m)' : m \in Committed'}
    <3>1. \A id : id \in rows <=> \E m \in Committed : id \in IdsOf(m)
      BY <1>a DEF IdsInv
    <3>2. \A id : id \in rows' <=> \E m \in Committed' : id \in IdsOf(m)'
      BY <2>2, <2>3, <2>4, <3>1 DEF Committed
    <3> QED
      BY <3>2
  <2> QED
    BY <1>a, <2>2, <2>4, <2>5 DEF IdsInv
<1>7. ASSUME NEW n \in Posts, Rollback(n) PROVE IdsInv'
  <2>1. OnlyTx(n) /\ tx'[n].ids = tx[n].ids /\ tx'[n].st = "gone" /\ tx[n].st # "committed"
    BY <1>7, TxStep DEF Rollback, TxStates
  <2> QED
    BY <1>c, <1>7, <2>1 DEF Rollback
<1>8. CASE Answered \/ FailRun \/ PostFinalize \/ OrphanSweep \/ \E o \in Outcomes : Return(o)
  BY <1>b, <1>8 DEF Answered, FailRun, PostFinalize, OrphanSweep, Return
<1>9. ASSUME NEW s \in Streams, StreamStep(s) \/ Throttle(s) \/ StreamFails(s) \/ Disconnect(s) PROVE IdsInv'
  BY <1>b, <1>9 DEF StreamStep, SendEvents, GetRun, Throttle, StreamFails, Disconnect
<1>10. CASE UNCHANGED eventVars
  BY <1>b, <1>10 DEF eventVars
<1> QED
  BY <1>1, <1>2, <1>3, <1>4, <1>5, <1>6, <1>7, <1>8, <1>9, <1>10 DEF StreamNext, RunnerStep, ServerStep

\* Each step keeps the runner at the post whose transaction may still commit.
LEMMA WaitStep == StreamTypeOK /\ WaitInv /\ PostInv /\ [StreamNext]_eventVars => WaitInv'
<1> SUFFICES ASSUME StreamTypeOK, WaitInv, PostInv, [StreamNext]_eventVars PROVE WaitInv'
  OBVIOUS
<1> USE DEF streamVars, serverVars, others
<1>a. runner.next \in 1..6
  BY RunnerType
<1>b. CASE UNCHANGED <<tx, runner, timedOut>>
  BY <1>b DEF WaitInv, Unsettled
<1>1. CASE PostEvents
  <2>1. runner.next \in Posts /\ runner.pc = "idle"
    BY <1>1 DEF PostEvents
  <2>2. OnlyTx(runner.next) /\ tx'[runner.next].st = "open"
    BY <1>1, <2>1, TxStep DEF PostEvents, TxStates
  <2>3. runner'.pc = "posting" /\ runner'.next = runner.next /\ timedOut' = timedOut
    BY <1>1, RunnerSteps DEF PostEvents
  <2> QED
    BY <1>a, <2>1, <2>2, <2>3 DEF WaitInv, OnlyTx, Unsettled, Posts
<1>2. CASE Answered
  <2>1. runner.next \in Posts /\ runner'.pc = "idle" /\ runner'.next = runner.next + 1
    BY <1>2, Waiting, RunnerSteps
  <2> QED
    BY <1>2, <2>1 DEF Answered, WaitInv, Unsettled, Posts
<1>3. CASE TimesOut
  <2>1. runner.next \in Posts /\ runner'.pc = "idle" /\ runner'.next = runner.next + 1
    BY <1>3, Waiting, RunnerSteps
  <2>2. /\ OnlyTx(runner.next) /\ tx'[runner.next].st = tx[runner.next].st
        /\ tx'[runner.next].ids = tx[runner.next].ids /\ tx'[runner.next].cancelled = TRUE
    BY <1>3, <2>1, TxCancel DEF TimesOut
  <2> QED
    BY <1>3, <2>1, <2>2 DEF TimesOut, OnlyTx, WaitInv, Unsettled, Posts
<1>4. ASSUME NEW o \in Outcomes, Return(o) PROVE WaitInv'
  <2>1. runner.pc = "idle" /\ runner'.pc = "idle" /\ runner'.next \in {4, 5} /\ runner.next <= runner'.next
    BY <1>4, RunnerSteps DEF Return
  <2> QED
    BY <1>4, <1>a, <2>1 DEF Return, WaitInv, Unsettled, Posts
<1>5. CASE FailRun
  <2>1. runner.pc = "idle" /\ runner'.pc = "idle" /\ runner'.next = 6
    BY <1>5, RunnerSteps DEF FailRun
  <2> QED
    BY <1>5, <1>a, <2>1 DEF FailRun, WaitInv, Unsettled, Posts
<1>6. CASE PostFinalize
  <2>1. runner.pc = "idle" /\ runner'.pc = "exited" /\ runner'.next = runner.next
    BY <1>6, RunnerSteps DEF PostFinalize
  <2> QED
    BY <1>6, <2>1 DEF PostFinalize, WaitInv, Unsettled
<1>7. CASE RunnerDies
  <2>1. runner'.pc = "exited" /\ runner'.next = runner.next
    BY <1>7, RunnerSteps
  <2>2. \A n \in Posts : tx'[n].ids = tx[n].ids /\ tx'[n].st = tx[n].st /\ (Unsettled(n) => tx'[n].cancelled = TRUE)
    <3>1. \A n \in Posts : tx[n] \in Transaction
      BY DEF StreamTypeOK
    <3> QED
      BY <1>7, <3>1 DEF RunnerDies, Transaction, Unsettled
  <2> QED
    BY <1>7, <2>1, <2>2 DEF RunnerDies, WaitInv, Unsettled
<1>8. ASSUME NEW n \in Posts, InsertRunEvent(n) PROVE WaitInv'
  <2>1. OnlyTx(n) /\ tx'[n].st = "open" /\ tx'[n].cancelled = tx[n].cancelled /\ tx[n].st = "open"
    BY <1>8, TxInsert DEF InsertRunEvent
  <2> QED
    BY <1>8, <2>1 DEF InsertRunEvent, OnlyTx, WaitInv, Unsettled
<1>9. ASSUME NEW n \in Posts, SendCommit(n) PROVE WaitInv'
  <2>1. OnlyTx(n) /\ tx'[n].st = "committing" /\ tx'[n].cancelled = tx[n].cancelled /\ tx[n].st = "open"
    BY <1>9, TxStep DEF SendCommit, TxStates
  <2> QED
    BY <1>9, <2>1 DEF SendCommit, OnlyTx, WaitInv, Unsettled
<1>10. ASSUME NEW n \in Posts, Commit(n) \/ Rollback(n) PROVE WaitInv'
  <2>1. OnlyTx(n) /\ tx'[n].st \in {"committed", "gone"} /\ tx[n].st # "none"
    BY <1>10, TxStep DEF Commit, Rollback, TxStates
  <2> QED
    BY <1>10, <2>1 DEF Commit, Rollback, OnlyTx, WaitInv, Unsettled
<1>11. CASE OrphanSweep
  BY <1>b, <1>11 DEF OrphanSweep
<1>12. ASSUME NEW s \in Streams, StreamStep(s) \/ Throttle(s) \/ StreamFails(s) \/ Disconnect(s) PROVE WaitInv'
  BY <1>b, <1>12 DEF StreamStep, SendEvents, GetRun, Throttle, StreamFails, Disconnect
<1>13. CASE UNCHANGED eventVars
  BY <1>b, <1>13 DEF eventVars
<1> QED
  BY <1>1, <1>2, <1>3, <1>4, <1>5, <1>6, <1>7, <1>8, <1>9, <1>10, <1>11, <1>12, <1>13
  DEF StreamNext, RunnerStep, ServerStep

\* What commits in time comes after everything that is visible.
LEMMA CommitsAtTheEnd ==
    ASSUME StreamTypeOK, PostInv, ~timedOut, NEW n \in Posts, Commit(n), NEW id \in rows, NEW new \in IdsOf(n)
    PROVE  id < new
<1>1. n = runner.next /\ tx[n].st = "committing" /\ runner.pc # "idle"
  BY DEF PostInv, WaitInv, Commit, Unsettled
<1>2. PICK m \in Posts : tx[m].st = "committed" /\ id \in IdsOf(m)
  BY RowsOf DEF PostInv, IdsInv
<1>3. m < n
  <2>1. ~(m > runner.next) /\ m # n
    BY <1>1, <1>2 DEF PostInv, WaitInv
  <2> QED
    BY <1>1, <2>1 DEF Posts
<1> QED
  BY <1>2, <1>3 DEF PostInv, IdsInv

\* sendEvents: after it the stream has the visible rows, in their order.
LEMMA SendUpTo ==
    ASSUME StreamTypeOK, PostInv, NEW s \in Streams, SendEvents(s), SentUpTo(str[s])
    PROVE  SentUpTo(str[s])' /\ Range(str'[s].sent) = rows
<1> DEFINE new == ListRunEventsSince(str[s].last)
<1>1. /\ new \in Seq(Nat) /\ Increasing(new) /\ Range(new) = {id \in rows : id > str[s].last}
      /\ str'[s].sent = str[s].sent \o new
      /\ str'[s].last = IF new = <<>> THEN str[s].last ELSE Last(new)
      /\ new # <<>> => Last(new) \in Range(new) /\ \A id \in Range(new) : id <= Last(new)
  BY StreamSends
<1> HIDE DEF new
<1>2. str[s].sent \in Seq(Nat) /\ str[s].last \in Nat /\ rows \subseteq Nat
  BY RowsFinite DEF StreamTypeOK, StreamRequest
<1>3. rows' = rows
  BY DEF SendEvents, others, serverVars
<1>4. \A a \in Range(str[s].sent), b \in Range(new) : a < b
  <2> SUFFICES ASSUME NEW a \in rows, NEW b \in rows, a <= str[s].last, b > str[s].last PROVE a < b
    BY <1>1 DEF SentUpTo
  <2>1. a \in Nat /\ b \in Nat
    BY <1>2
  <2> QED
    BY <1>2, <2>1
<1>5. /\ Increasing(str'[s].sent) /\ Range(str'[s].sent) = Range(str[s].sent) \cup Range(new)
  BY <1>1, <1>2, <1>4, IncreasingConcat DEF SentUpTo
<1>6. \A id \in rows : id <= str[s].last \/ id > str[s].last
  BY <1>2
<1>7. Range(str'[s].sent) = rows
  BY <1>1, <1>5, <1>6 DEF SentUpTo
<1>8. \A id \in rows : id <= str'[s].last
  <2>1. CASE new = <<>>
    <3>1. Range(new) = {}
      BY <2>1 DEF Range
    <3> QED
      BY <1>1, <1>6, <2>1, <3>1
  <2>2. CASE new # <<>>
    <3> SUFFICES ASSUME NEW id \in rows, id <= str[s].last PROVE id <= Last(new)
      BY <1>1, <1>6, <2>2
    <3>1. Last(new) \in Nat /\ id \in Nat /\ Last(new) > str[s].last
      BY <1>1, <1>2, <2>2
    <3> QED
      BY <1>2, <3>1
  <2> QED
    BY <2>1, <2>2
<1>9. str'[s].last = 0 \/ str'[s].last \in rows
  BY <1>1 DEF SentUpTo
<1>10. Range(str'[s].sent) = {id \in rows : id <= str'[s].last}
  BY <1>7, <1>8
<1> QED
  BY <1>3, <1>5, <1>7, <1>9, <1>10 DEF SentUpTo

\* Each step keeps what a stream sent equal to the rows up to its cursor: no row
\* becomes visible behind the cursor unless the runner gave a post up.
LEMMA SentStep == StreamTypeOK /\ PostInv /\ SentInv /\ [StreamNext]_eventVars => SentInv'
<1> SUFFICES ASSUME StreamTypeOK, PostInv, SentInv, [StreamNext]_eventVars PROVE SentInv'
  OBVIOUS
<1> USE DEF streamVars, serverVars, others
<1>b. CASE UNCHANGED <<rows, str, timedOut>>
  BY <1>b DEF SentInv, SentUpTo
<1>c. ASSUME NEW s \in Streams, OnlyStream(s), UNCHANGED <<rows, timedOut>>,
             SentUpTo(str[s]) => SentUpTo(str[s])'
      PROVE  SentInv'
  <2>1. \A r \in Streams \ {s} : SentUpTo(str[r]) => SentUpTo(str[r])'
    BY <1>c DEF OnlyStream, SentUpTo
  <2> QED
    BY <1>c, <2>1 DEF SentInv
<1>d. ASSUME NEW s \in Streams, OnlyStream(s), Keeps(s), UNCHANGED <<rows, timedOut>> PROVE SentInv'
  BY <1>c, <1>d DEF Keeps, SentUpTo
<1>1. CASE TimesOut
  BY <1>1 DEF TimesOut, SentInv
<1>2. ASSUME NEW n \in Posts, Commit(n) PROVE SentInv'
  <2> SUFFICES ASSUME ~timedOut, NEW s \in Streams PROVE SentUpTo(str[s])'
    BY <1>2 DEF Commit, SentInv
  <2>1. SentUpTo(str[s]) /\ str' = str /\ rows' = rows \cup IdsOf(n)
    BY <1>2 DEF SentInv, Commit, IdsOf
  <2>2. str[s].last \in Nat /\ IdsOf(n) \subseteq Nat \ {0}
    BY DEF StreamTypeOK, StreamRequest, PostInv, IdsInv
  <2>3. ASSUME NEW new \in IdsOf(n) PROVE ~(new <= str[s].last)
    <3>1. CASE str[s].last = 0
      BY <2>2, <3>1
    <3>2. CASE str[s].last \in rows
      <4>1. str[s].last < new
        BY <1>2, <3>2, CommitsAtTheEnd
      <4> QED
        BY <2>2, <4>1
    <3> QED
      BY <2>1, <3>1, <3>2 DEF SentUpTo
  <2> QED
    BY <2>1, <2>3 DEF SentUpTo
<1>3. ASSUME NEW s \in Streams, SendEvents(s) PROVE SentInv'
  BY <1>c, <1>3, StreamSends, SendUpTo DEF SendEvents
<1>4. ASSUME NEW s \in Streams, GetRun(s) PROVE SentInv'
  <2>1. Terminal(status) \in BOOLEAN
    BY DEF Terminal
  <2>2. OnlyStream(s) /\ Keeps(s)
    BY <1>4, <2>1, StreamAnswers DEF GetRun, StreamPcs
  <2> QED
    BY <1>d, <1>4, <2>2 DEF GetRun
<1>5. ASSUME NEW s \in Streams, StreamFails(s) PROVE SentInv'
  <2>1. (str[s].pc = "listed") \in BOOLEAN
    OBVIOUS
  <2>2. OnlyStream(s) /\ Keeps(s)
    BY <1>5, <2>1, StreamAnswers DEF StreamFails, StreamPcs
  <2> QED
    BY <1>d, <1>5, <2>2 DEF StreamFails
<1>6. ASSUME NEW s \in Streams, Disconnect(s) PROVE SentInv'
  BY <1>d, <1>6, StreamMoves DEF Disconnect, StreamPcs
<1>7. ASSUME NEW s \in Streams, Throttle(s) PROVE SentInv'
  <2>1. UNCHANGED <<rows, timedOut>>
    BY <1>7 DEF Throttle
  <2>2. CASE str' = [str EXCEPT ![s].pc = "off"]
    BY <1>d, <2>1, <2>2, StreamMoves DEF StreamPcs
  <2>3. ASSUME NEW p \in {"rejecting", "waiting"}, str' = [str EXCEPT ![s] = [Closed EXCEPT !.pc = p]] PROVE SentInv'
    <3>1. OnlyStream(s) /\ str'[s].last = 0 /\ str'[s].sent = <<>>
      BY <2>3, StreamOpens DEF StreamPcs
    <3>2. Increasing(<<>>) /\ Range(<<>>) = {}
      BY DEF Increasing, Range
    <3>3. {id \in rows : id <= 0} = {}
      BY RowsFinite
    <3> QED
      BY <1>c, <2>1, <3>1, <3>2, <3>3 DEF SentUpTo
  <2> QED
    BY <1>7, <2>2, <2>3 DEF Throttle, SSE
<1>8. CASE \/ PostEvents \/ Answered \/ FailRun \/ PostFinalize \/ OrphanSweep \/ RunnerDies
           \/ \E o \in Outcomes : Return(o)
  BY <1>b, <1>8 DEF PostEvents, Answered, FailRun, PostFinalize, OrphanSweep, Return, RunnerDies
<1>9. ASSUME NEW n \in Posts, InsertRunEvent(n) \/ SendCommit(n) \/ Rollback(n) PROVE SentInv'
  BY <1>b, <1>9 DEF InsertRunEvent, SendCommit, Rollback
<1>10. CASE UNCHANGED eventVars
  BY <1>b, <1>10 DEF eventVars
<1> QED
  BY <1>1, <1>2, <1>3, <1>4, <1>5, <1>6, <1>7, <1>8, <1>9, <1>10 DEF StreamNext, RunnerStep, ServerStep, StreamStep

\* Each step keeps a stream that listed the rows of an ended run complete.
LEMMA EndStep == StreamTypeOK /\ PostInv /\ SentInv /\ EndInv /\ [StreamNext]_eventVars => EndInv'
<1> SUFFICES ASSUME StreamTypeOK, PostInv, SentInv, EndInv, [StreamNext]_eventVars PROVE EndInv'
  OBVIOUS
<1> USE DEF streamVars, serverVars, others
<1>b. CASE UNCHANGED <<status, runner, rows, str, timedOut>>
  BY <1>b DEF EndInv
<1>c. ASSUME NEW s \in Streams, OnlyStream(s), UNCHANGED <<status, runner, rows, timedOut>>,
             \/ Keeps(s) \/ ~str'[s].overAtList
             \/ /\ str'[s].overAtList => status # "running"
                /\ ~timedOut => Range(str'[s].sent) = rows
      PROVE  EndInv'
  BY <1>c DEF OnlyStream, Keeps, EndInv
<1>d. ASSUME runner.pc # "exited", UNCHANGED str, status' # "running" => runner'.pc = "exited",
             UNCHANGED status \/ runner'.pc = "exited"
      PROVE  EndInv'
  <2>1. \A s \in Streams : ~str[s].overAtList
    BY <1>d DEF EndInv
  <2> QED
    BY <1>d, <2>1 DEF EndInv
<1>1. CASE PostEvents
  BY <1>d, <1>1 DEF PostEvents, EndInv
<1>2. CASE Answered
  BY <1>d, <1>2 DEF Answered, EndInv
<1>3. CASE TimesOut
  BY <1>d, <1>3 DEF TimesOut, EndInv
<1>4. ASSUME NEW o \in Outcomes, Return(o) PROVE EndInv'
  BY <1>d, <1>4 DEF Return, EndInv
<1>5. CASE FailRun
  BY <1>d, <1>5 DEF FailRun, EndInv
<1>6. CASE PostFinalize
  <2>1. runner'.pc = "exited"
    BY <1>6, RunnerSteps
  <2> QED
    BY <1>d, <1>6, <2>1 DEF PostFinalize
<1>7. CASE RunnerDies
  <2>1. runner'.pc = "exited"
    BY <1>7, RunnerSteps
  <2> QED
    BY <1>d, <1>7, <2>1 DEF RunnerDies
<1>8. CASE OrphanSweep
  BY <1>8 DEF OrphanSweep, EndInv
<1>9. ASSUME NEW n \in Posts, Commit(n) PROVE EndInv'
  <2>1. ~timedOut => n = runner.next
    BY <1>9 DEF Commit, PostInv, WaitInv, Unsettled
  <2>2. ~(~timedOut /\ runner.next = 6)
    BY <2>1 DEF Posts
  <2> QED
    BY <1>9, <2>2 DEF Commit, EndInv
<1>10. ASSUME NEW n \in Posts, InsertRunEvent(n) \/ SendCommit(n) \/ Rollback(n) PROVE EndInv'
  BY <1>b, <1>10 DEF InsertRunEvent, SendCommit, Rollback
<1>11. ASSUME NEW s \in Streams, SendEvents(s) PROVE EndInv'
  <2>1. OnlyStream(s) /\ str'[s].overAtList = (status # "running")
    BY <1>11, StreamSends
  <2>2. ~timedOut => Range(str'[s].sent) = rows
    BY <1>11, SendUpTo DEF SentInv
  <2> QED
    BY <1>c, <1>11, <2>1, <2>2 DEF SendEvents
<1>12. ASSUME NEW s \in Streams, GetRun(s) PROVE EndInv'
  <2>1. Terminal(status) \in BOOLEAN
    BY DEF Terminal
  <2>2. OnlyStream(s) /\ Keeps(s)
    BY <1>12, <2>1, StreamAnswers DEF GetRun, StreamPcs
  <2> QED
    BY <1>c, <1>12, <2>2 DEF GetRun
<1>13. ASSUME NEW s \in Streams, StreamFails(s) PROVE EndInv'
  <2>1. (str[s].pc = "listed") \in BOOLEAN
    OBVIOUS
  <2>2. OnlyStream(s) /\ Keeps(s)
    BY <1>13, <2>1, StreamAnswers DEF StreamFails, StreamPcs
  <2> QED
    BY <1>c, <1>13, <2>2 DEF StreamFails
<1>14. ASSUME NEW s \in Streams, Disconnect(s) PROVE EndInv'
  BY <1>c, <1>14, StreamMoves DEF Disconnect, StreamPcs
<1>15. ASSUME NEW s \in Streams, Throttle(s) PROVE EndInv'
  <2>1. UNCHANGED <<status, runner, rows, timedOut>>
    BY <1>15 DEF Throttle
  <2>2. CASE str' = [str EXCEPT ![s].pc = "off"]
    BY <1>c, <2>1, <2>2, StreamMoves DEF StreamPcs
  <2>3. ASSUME NEW p \in {"rejecting", "waiting"}, str' = [str EXCEPT ![s] = [Closed EXCEPT !.pc = p]] PROVE EndInv'
    <3>1. OnlyStream(s) /\ str'[s].overAtList = FALSE
      BY <2>3, StreamOpens DEF StreamPcs
    <3> QED
      BY <1>c, <2>1, <3>1
  <2> QED
    BY <1>15, <2>2, <2>3 DEF Throttle, SSE
<1>16. CASE UNCHANGED eventVars
  BY <1>b, <1>16 DEF eventVars
<1> QED
  BY <1>1, <1>2, <1>3, <1>4, <1>5, <1>6, <1>7, <1>8, <1>9, <1>10, <1>11, <1>12, <1>13, <1>14, <1>15, <1>16
  DEF StreamNext, RunnerStep, ServerStep, StreamStep

\* The list endpoint shows the visible events, each once, in the order of ids.
LEMMA ListIsOrdered ==
    ASSUME StreamTypeOK, PostInv
    PROVE  ListRunEvents \in Seq(Nat) /\ Increasing(ListRunEvents) /\ Range(ListRunEvents) = rows
<1>1. ASSUME NEW n \in Posts
      PROVE  /\ Listed(n) \in Seq(Nat) /\ Increasing(Listed(n))
             /\ Range(Listed(n)) = rows \cap IdsOf(n)
  <2> DEFINE S == rows \cap IdsOf(n)
  <2>1. S \in SUBSET rows /\ S \subseteq Nat /\ IsFiniteSet(S)
    BY RowsFinite, FS_Subset
  <2>2. Listed(n) = Ascending(S)
    BY DEF Listed, IdsOf
  <2> HIDE DEF S
  <2>3. Listed(n) \in Seq(S) /\ Increasing(Listed(n)) /\ Range(Listed(n)) = S
    BY <2>1, <2>2, AscendingSeq
  <2>4. Listed(n) \in Seq(Nat)
    BY <2>1, <2>3, SeqMonotonic
  <2> QED
    BY <2>3, <2>4 DEF S
<1>2. ASSUME NEW m \in Posts, NEW n \in Posts, m < n
      PROVE  \A a \in Range(Listed(m)), b \in Range(Listed(n)) : a < b
  BY <1>1, <1>2 DEF PostInv, IdsInv
<1> DEFINE C2 == Listed(1) \o Listed(2)
           C3 == C2 \o Listed(3)
           C4 == C3 \o Listed(4)
           C5 == C4 \o Listed(5)
<1>p. 1 \in Posts /\ 2 \in Posts /\ 3 \in Posts /\ 4 \in Posts /\ 5 \in Posts
  BY DEF Posts
<1>s2. \A a \in Range(Listed(1)), b \in Range(Listed(2)) : a < b
  BY <1>2, <1>p
<1>s3. \A m \in {1, 2} : \A a \in Range(Listed(m)), b \in Range(Listed(3)) : a < b
  BY <1>2, <1>p
<1>s4. \A m \in {1, 2, 3} : \A a \in Range(Listed(m)), b \in Range(Listed(4)) : a < b
  BY <1>2, <1>p
<1>s5. \A m \in {1, 2, 3, 4} : \A a \in Range(Listed(m)), b \in Range(Listed(5)) : a < b
  BY <1>2, <1>p
<1>3. C2 \in Seq(Nat) /\ Increasing(C2) /\ Range(C2) = Range(Listed(1)) \cup Range(Listed(2))
  BY <1>1, <1>s2, <1>p, IncreasingConcat
<1> HIDE DEF C2
<1>4. C3 \in Seq(Nat) /\ Increasing(C3) /\ Range(C3) = Range(C2) \cup Range(Listed(3))
  <2>1. \A a \in Range(C2), b \in Range(Listed(3)) : a < b
    BY <1>s3, <1>3
  <2> QED
    BY <1>1, <1>3, <1>p, <2>1, IncreasingConcat
<1> HIDE DEF C3
<1>5. C4 \in Seq(Nat) /\ Increasing(C4) /\ Range(C4) = Range(C3) \cup Range(Listed(4))
  <2>1. \A a \in Range(C3), b \in Range(Listed(4)) : a < b
    BY <1>s4, <1>3, <1>4
  <2> QED
    BY <1>1, <1>4, <1>p, <2>1, IncreasingConcat
<1> HIDE DEF C4
<1>6. C5 \in Seq(Nat) /\ Increasing(C5) /\ Range(C5) = Range(C4) \cup Range(Listed(5))
  <2>1. \A a \in Range(C4), b \in Range(Listed(5)) : a < b
    BY <1>s5, <1>3, <1>4, <1>5
  <2> QED
    BY <1>1, <1>5, <1>p, <2>1, IncreasingConcat
<1> HIDE DEF C5
<1>7. \A id : id \in Range(C5) <=> \E n \in Posts : id \in Range(Listed(n))
  BY <1>3, <1>4, <1>5, <1>6 DEF Posts
<1>8. Range(C5) = rows
  <2>1. \A id \in rows : \E n \in Posts : id \in IdsOf(n)
    BY RowsOf DEF PostInv, IdsInv
  <2> QED
    BY <1>1, <1>7, <2>1
<1>9. ListRunEvents = C5
  BY DEF ListRunEvents, C2, C3, C4, C5
<1> QED
  BY <1>6, <1>8, <1>9

\* Nothing is sent at first, and no run has ended.
LEMMA StreamInitSent == StreamInit => SentInv /\ EndInv
<1> SUFFICES ASSUME StreamInit PROVE SentInv /\ EndInv
  OBVIOUS
<1>1. \A s \in Streams : str[s].last = 0 /\ str[s].sent = <<>> /\ ~str[s].overAtList
  BY DEF StreamInit, Closed
<1>2. Increasing(<<>>) /\ Range(<<>>) = {} /\ rows = {} /\ status = "running"
  BY DEF Increasing, Range, StreamInit
<1> QED
  BY <1>1, <1>2 DEF SentInv, SentUpTo, EndInv

StreamInv == StreamTyped /\ SentInv /\ EndInv

\* The inductive invariant of the event streams is kept by every step.
LEMMA StreamInductive == StreamInv /\ [StreamNext]_eventVars => StreamInv'
BY CapStep, StreamTypeStep, IdsStep, WaitStep, SentStep, EndStep DEF StreamInv, StreamTyped, PostInv

\* The inductive invariant of the event streams holds always.
LEMMA StreamInvAlways == StreamSpec => []StreamInv
<1>1. StreamInit => StreamInv
  BY StreamInitTyped, StreamInitSent DEF StreamInv
<1> QED
  BY <1>1, StreamInductive, PTL DEF StreamSpec

\* What eventsHandler.stream has sent a client is a prefix of what the list
\* endpoint shows, for any number of streams and destinations, however posts,
\* commits, polls and reconnections interleave, unless the runner gave up on a
\* post whose transaction may still commit.
THEOREM StreamsArePrefixes == StreamSpec => []StreamIsPrefix
<1>1. StreamInv => StreamIsPrefix
  <2> SUFFICES ASSUME StreamInv, ~timedOut, NEW s \in Streams PROVE IsPrefix(str[s].sent, ListRunEvents)
    BY DEF StreamIsPrefix
  <2>1. StreamTypeOK /\ PostInv /\ SentUpTo(str[s])
    BY DEF StreamInv, StreamTyped, SentInv
  <2>2. str[s].sent \in Seq(Nat) /\ str[s].last \in Nat /\ rows \subseteq Nat
    BY <2>1 DEF StreamTypeOK, StreamRequest
  <2>3. ListRunEvents \in Seq(Nat) /\ Increasing(ListRunEvents) /\ Range(ListRunEvents) = rows
    BY <2>1, ListIsOrdered
  <2>4. Increasing(str[s].sent) /\ Range(str[s].sent) \subseteq Range(ListRunEvents)
    BY <2>1, <2>3 DEF SentUpTo
  <2>5. ASSUME NEW x \in rows, NEW y \in Range(str[s].sent), x <= y PROVE x \in Range(str[s].sent)
    <3>1. x \in Nat /\ y \in Nat /\ y <= str[s].last
      BY <2>1, <2>2 DEF SentUpTo
    <3>2. x <= str[s].last
      BY <2>2, <2>5, <3>1
    <3> QED
      BY <2>1, <3>2 DEF SentUpTo
  <2> QED
    BY <2>2, <2>3, <2>4, <2>5, IncreasingPrefix
<1> QED
  BY <1>1, StreamInvAlways, PTL

\* A stream that says done, and whose last list was read when the run was over,
\* has sent every event, if the runner came to the end of its posts without
\* giving one up: a runner finalizes only after its posts have returned.
THEOREM LateStreamsAreComplete == StreamSpec => []LateStreamIsComplete
<1>1. StreamInv => LateStreamIsComplete
  BY DEF StreamInv, EndInv, LateStreamIsComplete
<1> QED
  BY <1>1, StreamInvAlways, PTL

\* The limiter's SSE lets never more than SSEMaxConcurrent requests of an address
\* stream, and its counter is zero when none is open, whichever way the others
\* ended: each gives its place back once.
THEOREM TheCapHolds == StreamSpec => []CapHolds
<1>1. StreamInv => CapHolds
  <2> SUFFICES ASSUME StreamInv PROVE CapHolds
    OBVIOUS
  <2>1. CapInv
    BY DEF StreamInv, StreamTyped
  <2>2. ASSUME \A s \in Streams : str[s].pc = "off" PROVE counter = 0
    <3>1. Busy = {}
      BY <2>2 DEF Busy
    <3> QED
      BY <2>1, <3>1, FS_EmptySet DEF CapInv
  <2> QED
    BY <2>1, <2>2 DEF CapHolds, CapInv, Streaming
<1> QED
  BY <1>1, StreamInvAlways, PTL

-----------------------------------------------------------------------------
(* The credentials.                                                        *)

\* What a request holds at each of its steps.
RequestShape(r) ==
    /\ r.pc \in {"expiry", "putToken", "putExpiry", "store"} => r.tok \in Nat
    /\ r.pc \in {"fetch", "store"} => r.exp \in Nat
    /\ r.pc = "store1" => r.tok \in {OAuth, Empty}
    /\ r.pc \in {"lookup", "ask", "store1", "store2"} => r.code \in Codes
ShapeInv ==
    /\ \A q \in Slots : RequestShape(req[q])
    /\ cli.pc \in {"off", "request"} => cli.attempt < MaxAttempts
    /\ cli.pc \in {"poll", "store"} => cli.code \in Codes

\* The cache never believes more of a token than GitHub said.
EntryInv ==
    /\ entry.exp = 0 \/ entry.exp <= entry.tok
    /\ served.kind = "installation" => now < served.exp /\ served.exp <= served.tok

\* While no two requests for the IDE token overlap, the stored expiry is never
\* later than that of the stored token, and the one request under way knows
\* the token that is stored or holds a newer one.
InIde(q) == req[q].pc \in IdeSteps
IdeStep(r) ==
    /\ r.pc = "expiry" => r.tok = Get("ide-token")
    /\ r.pc = "putToken" => Get("ide-expiry") <= r.tok
    /\ r.pc = "putExpiry" => r.tok = Get("ide-token")
    /\ r.pc \in {"putToken", "putExpiry"} => r.tok <= now + Life
IdeInv ==
    ~overlapped =>
        /\ \A p, q \in Slots : InIde(p) /\ InIde(q) => p = q
        /\ Get("ide-expiry") # None => Get("ide-expiry") <= Get("ide-token")
        /\ Get("ide-expiry") <= now + Life
        /\ \A q \in Slots : IdeStep(req[q])
        /\ CachedTokenIsFresh

\* Unless GitHub answered nothing, only OAuth tokens are stored, and a poll
\* that has stored one finds it there until the operator deletes it.
ConnectInv ==
    ~odd =>
        /\ Get("access-token") # Empty
        /\ \A q \in Slots : req[q].pc = "store1" => req[q].tok = OAuth
        /\ ~deleted => \A q \in Slots : req[q].pc = "store2" => Get("access-token") = OAuth
        /\ ConnectedIsStored

\* A slot without a request is well typed.
LEMMA OffType == Off \in TokenRequests /\ RequestShape(Off) /\ Off.pc = "off"
BY DEF Off, TokenRequests, RequestShape, None, IdeSteps

\* Only request q is touched.
OnlyRequest(q) == req' \in [Slots -> TokenRequests] /\ \A p \in Slots \ {q} : req'[p] = req[p]

\* A request moves on: what it holds, and the other requests, are unchanged.
LEMMA GotoStep ==
    ASSUME CredentialTypeOK, NEW q \in Slots, NEW s, Goto(q, s),
           s \in IdeSteps \cup {"cache", "fetch", "store", "lookup", "ask", "store1", "store2"}
    PROVE  /\ OnlyRequest(q) /\ req'[q].pc = s
           /\ req'[q].tok = req[q].tok /\ req'[q].exp = req[q].exp /\ req'[q].code = req[q].code
BY DEF CredentialTypeOK, Goto, OnlyRequest, TokenRequests

\* A request that is answered frees its slot, and leaves the others.
LEMMA RespondStep ==
    ASSUME CredentialTypeOK, NEW q \in Slots, Respond(q)
    PROVE  OnlyRequest(q) /\ req'[q] = Off
BY OffType DEF CredentialTypeOK, Respond, OnlyRequest

\* A request is accepted in a free slot.
LEMMA AcceptStep ==
    ASSUME CredentialTypeOK, NEW q \in Slots, NEW s, NEW d \in Codes \cup {"none"}, Accept(q, s, d),
           s \in {"token", "cache", "lookup"}
    PROVE  /\ OnlyRequest(q) /\ req[q].pc = "off" /\ req'[q].pc = s /\ req'[q].code = d
           /\ requests' \in 0..MaxRequests
<1> DEFINE r == [pc |-> s, tok |-> None, exp |-> None, code |-> d]
<1>2. r \in TokenRequests
  BY DEF TokenRequests, None, IdeSteps
<1>3. req' = [req EXCEPT ![q] = r] /\ req[q].pc = "off"
  BY DEF Accept
<1>4. OnlyRequest(q) /\ req'[q] = r
  BY <1>2, <1>3 DEF CredentialTypeOK, OnlyRequest
<1>5. requests' \in 0..MaxRequests
  BY TimesAssumption DEF Accept, Spend, CredentialTypeOK
<1> QED
  BY <1>3, <1>4, <1>5

RequestSteps == IdeSteps \cup {"cache", "fetch", "store", "lookup", "ask", "store1", "store2"}

\* A request takes a token up: nothing else of the requests changes.
LEMMA TokenStep ==
    ASSUME CredentialTypeOK, NEW q \in Slots, NEW s \in RequestSteps, NEW v \in Int,
           Obtain(q, s, v)
    PROVE  /\ OnlyRequest(q) /\ req'[q].pc = s
           /\ req'[q].tok = v /\ req'[q].exp = req[q].exp /\ req'[q].code = req[q].code
<1>1. req[q] \in TokenRequests /\ req \in [Slots -> TokenRequests]
  BY DEF CredentialTypeOK
<1>2. /\ [req[q] EXCEPT !.pc = s] \in TokenRequests
      /\ [[req[q] EXCEPT !.pc = s] EXCEPT !.tok = v] \in TokenRequests
  BY <1>1 DEF TokenRequests, RequestSteps
<1>3. req' = [req EXCEPT ![q] = [[req[q] EXCEPT !.pc = s] EXCEPT !.tok = v]]
  BY <1>1 DEF Obtain
<1> QED
  BY <1>1, <1>2, <1>3 DEF OnlyRequest, TokenRequests

\* A request takes an expiry up: nothing else of the requests changes.
LEMMA ExpiryStep ==
    ASSUME CredentialTypeOK, NEW q \in Slots, NEW s \in RequestSteps, NEW v \in Int, Await(q, s, v)
    PROVE  /\ OnlyRequest(q) /\ req'[q].pc = s
           /\ req'[q].exp = v /\ req'[q].tok = req[q].tok /\ req'[q].code = req[q].code
<1>1. req[q] \in TokenRequests /\ req \in [Slots -> TokenRequests]
  BY DEF CredentialTypeOK
<1>2. /\ [req[q] EXCEPT !.pc = s] \in TokenRequests
      /\ [[req[q] EXCEPT !.pc = s] EXCEPT !.exp = v] \in TokenRequests
  BY <1>1 DEF TokenRequests, RequestSteps
<1>3. req' = [req EXCEPT ![q] = [[req[q] EXCEPT !.pc = s] EXCEPT !.exp = v]]
  BY <1>1 DEF Await
<1> QED
  BY <1>1, <1>2, <1>3 DEF OnlyRequest, TokenRequests

\* A step that leaves one request well shaped leaves them all so.
LEMMA RequestTyped ==
    ASSUME ShapeInv, NEW q \in Slots, OnlyRequest(q), RequestShape(req'[q]), UNCHANGED cli
    PROVE  ShapeInv'
BY DEF ShapeInv, OnlyRequest, RequestShape

\* Failures and requests count towards their bounds.
LEMMA FailureType ==
    ASSUME CredentialTypeOK
    PROVE  /\ Failure => failures' \in 0..MaxFailures
           /\ Spend => requests' \in 0..MaxRequests
BY TimesAssumption DEF CredentialTypeOK, Failure, Spend

CliStates == [pc : {"off", "request", "poll", "store", "over"}, attempt : 0..MaxAttempts,
              code : Codes \cup {"none"}, deadline : Nat]
CredentialTyped == CredentialTypeOK /\ ShapeInv

\* The types hold at first.
LEMMA CredentialInitTyped == CredentialInit => CredentialTyped
<1> SUFFICES ASSUME CredentialInit PROVE CredentialTyped
  OBVIOUS
<1>1. req \in [Slots -> TokenRequests] /\ \A q \in Slots : RequestShape(req[q])
  BY OffType DEF CredentialInit
<1>2. secret \in [SecretNames -> Int] /\ secret["access-token"] \in {None, Empty, OAuth}
      /\ secret["ide-token"] \in Times /\ secret["ide-expiry"] \in Times
  BY DEF CredentialInit, SecretNames, Times, None, Empty, OAuth
<1>3. served \in [kind : {"none", "ide", "installation"}, tok : Int, exp : Int]
  BY DEF CredentialInit, None
<1>4. entry \in [tok : Times, exp : Nat]
  BY DEF CredentialInit, NoEntry, Times
<1>5. cli \in [pc : {"off", "request", "poll", "store", "over"}, attempt : 0..MaxAttempts,
                code : Codes \cup {"none"}, deadline : Nat] /\ cli.pc = "off" /\ cli.attempt < MaxAttempts
  BY DEF CredentialInit, CliOff, MaxAttempts
<1>6. flows \in [Codes -> Times] /\ timers \in SUBSET Codes
      /\ code \in [Codes -> {"unused", "pending", "approved", "refused", "spent"}]
  BY DEF CredentialInit, Times
<1>7. now \in 0..MaxClock /\ requests \in 0..MaxRequests /\ failures \in 0..MaxFailures
  BY TimesAssumption DEF CredentialInit
<1>8. {revoked, overlapped, connected, deleted, odd} \subseteq BOOLEAN
  BY DEF CredentialInit
<1> QED
  BY <1>1, <1>2, <1>3, <1>4, <1>5, <1>6, <1>7, <1>8 DEF CredentialTyped, CredentialTypeOK, ShapeInv

\* Each step keeps the types, and what a request holds at its step.
LEMMA CredentialNextTyped == CredentialTyped /\ [CredentialNext]_credentialVars => CredentialTyped'
<1> SUFFICES ASSUME CredentialTyped, [CredentialNext]_credentialVars PROVE CredentialTyped'
  OBVIOUS
<1> USE DEF flowVars, history, elsewhere, notFlows, restOfWorld
<1>a. CredentialTypeOK /\ ShapeInv
  BY DEF CredentialTyped
<1>1. CASE Tick
  BY <1>a, <1>1, TimesAssumption DEF Tick, NotServed, None, CredentialTyped, CredentialTypeOK, ShapeInv, RequestShape
<1>2. CASE OperatorWrites
  <2>1. /\ secret' \in [SecretNames -> Int] /\ secret'["access-token"] \in {None, Empty, OAuth}
        /\ secret'["ide-token"] = secret["ide-token"] /\ secret'["ide-expiry"] = secret["ide-expiry"]
    BY <1>a, <1>2 DEF OperatorWrites, Put, UpsertSecret, DeleteSecret, SecretNames, OAuth, None, CredentialTypeOK
  <2>2. requests' \in 0..MaxRequests /\ {revoked', deleted'} \subseteq BOOLEAN
    BY <1>a, <1>2, FailureType DEF OperatorWrites, CredentialTypeOK
  <2>3. UNCHANGED <<now, entry, req, flowVars, failures, served, overlapped, connected, odd>>
    BY <1>2 DEF OperatorWrites
  <2> QED
    BY <1>a, <2>1, <2>2, <2>3 DEF CredentialTyped, CredentialTypeOK, ShapeInv, RequestShape
<1>3. CASE Revoke
  BY <1>a, <1>3, FailureType DEF Revoke, CredentialTyped, CredentialTypeOK, ShapeInv, RequestShape
<1>4. CASE Restart
  <2>1. ShapeInv' /\ req' \in [Slots -> TokenRequests]
    BY <1>a, <1>4, OffType DEF Restart, ShapeInv
  <2>2. entry' \in [tok : Times, exp : Nat] /\ flows' \in [Codes -> Times] /\ timers' \in SUBSET Codes
    BY <1>4 DEF Restart, NoEntry, Times
  <2> QED
    BY <1>a, <1>4, <2>1, <2>2, FailureType DEF Restart, CredentialTyped, CredentialTypeOK
<1>5. CASE RunConnect
  <2>1. [cli EXCEPT !.pc = "request"] \in CliStates
    BY <1>a DEF CredentialTypeOK, CliStates
  <2>2. cli' = [[cli EXCEPT !.pc = "request"] EXCEPT !.deadline = now + FlowLife]
    BY <1>5 DEF RunConnect
  <2>3. now + FlowLife \in Nat /\ cli.attempt < MaxAttempts
    BY <1>a, <1>5, TimesAssumption DEF CredentialTypeOK, RunConnect, ShapeInv
  <2>4. cli' \in CliStates /\ cli'.pc = "request" /\ cli'.attempt = cli.attempt
    BY <1>a, <2>1, <2>2, <2>3 DEF CliStates, CredentialTypeOK
  <2> QED
    BY <1>a, <1>5, <2>3, <2>4, FailureType DEF RunConnect, CredentialTyped, CredentialTypeOK, ShapeInv, RequestShape, CliStates
<1>6. CASE RequestDeviceCode
  <2>1. /\ cli' \in CliStates
        /\ cli'.pc \in {"off", "request"} => cli'.attempt < MaxAttempts
        /\ cli'.pc \in {"poll", "store"} => cli'.code \in Codes
    <3>1. cli \in CliStates /\ cli.attempt \in 0..(MaxAttempts - 1)
      <4>1. cli \in CliStates /\ cli.attempt < MaxAttempts
        BY <1>a, <1>6 DEF CredentialTypeOK, ShapeInv, RequestDeviceCode, CliStates
      <4>2. cli.attempt \in 0..MaxAttempts
        BY <4>1 DEF CliStates
      <4> QED
        BY <4>1, <4>2 DEF MaxAttempts
    <3>2. ASSUME NEW d \in Codes, cli' = [cli EXCEPT !.pc = "poll", !.code = d]
          PROVE  cli' \in CliStates /\ cli'.pc = "poll" /\ cli'.code = d
      <4>1. [cli EXCEPT !.pc = "poll"] \in CliStates
        BY <3>1 DEF CliStates
      <4>2. cli' = [[cli EXCEPT !.pc = "poll"] EXCEPT !.code = d]
        BY <3>2
      <4> QED
        BY <4>1, <4>2 DEF CliStates
    <3>3. ASSUME NEW s \in {"request", "over"}, cli' = [cli EXCEPT !.attempt = @ + 1, !.pc = s]
          PROVE  cli' \in CliStates /\ cli'.pc = s /\ cli'.attempt = cli.attempt + 1
      <4>1. [cli EXCEPT !.attempt = cli.attempt + 1] \in CliStates
        BY <3>1 DEF CliStates, MaxAttempts
      <4>2. cli' = [[cli EXCEPT !.attempt = cli.attempt + 1] EXCEPT !.pc = s]
        BY <3>3, <3>1 DEF CliStates
      <4> QED
        BY <4>1, <4>2, <3>1 DEF CliStates
    <3>4. CASE Done("over")
      BY <3>1, <3>4 DEF Done, CliStates
    <3> QED
      BY <1>6, <3>1, <3>2, <3>3, <3>4 DEF RequestDeviceCode, MaxAttempts
  <2>2. code' \in [Codes -> {"unused", "pending", "approved", "refused", "spent"}]
    BY <1>a, <1>6 DEF RequestDeviceCode, CredentialTypeOK
  <2>3. failures' \in 0..MaxFailures /\ UNCHANGED <<restOfWorld, secret, revoked, history>>
    BY <1>a, <1>6, FailureType DEF RequestDeviceCode, CredentialTypeOK
  <2> QED
    BY <1>a, <2>1, <2>2, <2>3 DEF CredentialTyped, CredentialTypeOK, ShapeInv, RequestShape, CliStates
<1>7. CASE PollForToken
  BY <1>a, <1>7, FailureType DEF PollForToken, Done, CredentialTyped, CredentialTypeOK, ShapeInv, RequestShape
<1>8. CASE CliTimesOut
  BY <1>a, <1>8 DEF CliTimesOut, Done, CredentialTyped, CredentialTypeOK, ShapeInv, RequestShape
<1>9. CASE StoreCopilotTokensProd
  <2>1. secret' \in [SecretNames -> Int] /\ secret'["access-token"] \in {None, Empty, OAuth}
        /\ secret'["ide-token"] = secret["ide-token"] /\ secret'["ide-expiry"] = secret["ide-expiry"]
    BY <1>a, <1>9 DEF StoreCopilotTokensProd, Put, UpsertSecret, SecretNames, OAuth, CredentialTypeOK
  <2>2. cli' = [cli EXCEPT !.pc = "over"]
    BY <1>9 DEF StoreCopilotTokensProd, Done
  <2>3. failures' \in 0..MaxFailures /\ {revoked', connected'} \subseteq BOOLEAN
    BY <1>a, <1>9, FailureType DEF StoreCopilotTokensProd, CredentialTypeOK
  <2>4. UNCHANGED <<restOfWorld, code, served, overlapped, deleted, odd>>
    BY <1>9 DEF StoreCopilotTokensProd
  <2> QED
    BY <1>a, <2>1, <2>2, <2>3, <2>4 DEF CredentialTyped, CredentialTypeOK, ShapeInv, RequestShape
<1>10. ASSUME NEW d \in Codes, StartFlow(d) PROVE CredentialTyped'
  BY <1>a, <1>10, FailureType, TimesAssumption DEF StartFlow, Arm, CredentialTyped, CredentialTypeOK, ShapeInv, RequestShape, Times
<1>11. ASSUME NEW d \in Codes, Evict(d) PROVE CredentialTyped'
  BY <1>a, <1>11 DEF Evict, Forget, CredentialTyped, CredentialTypeOK, ShapeInv, RequestShape, Times
<1>12. ASSUME NEW d \in Codes, UserDecides(d) PROVE CredentialTyped'
  BY <1>a, <1>12 DEF UserDecides, CredentialTyped, CredentialTypeOK, ShapeInv, RequestShape
<1>13. CASE UNCHANGED credentialVars
  BY <1>a, <1>13 DEF credentialVars, CredentialTyped, CredentialTypeOK, ShapeInv, RequestShape
<1>14. ASSUME NEW q \in Slots, AskIDEToken(q) PROVE CredentialTyped'
  <2>1. OnlyRequest(q) /\ req'[q].pc = "token" /\ requests' \in 0..MaxRequests
    BY <1>a, <1>14, AcceptStep DEF AskIDEToken
  <2>2. RequestShape(req'[q]) /\ UNCHANGED cli
    BY <1>14, <2>1 DEF RequestShape, AskIDEToken
  <2>3. overlapped' \in BOOLEAN
    BY <1>14 DEF AskIDEToken
  <2> QED
    BY <1>a, <1>14, <2>1, <2>2, <2>3, RequestTyped DEF AskIDEToken, OnlyRequest, CredentialTyped, CredentialTypeOK
<1>15. ASSUME NEW q \in Slots, AskInstallationToken(q) PROVE CredentialTyped'
  <2>1. OnlyRequest(q) /\ req'[q].pc = "cache" /\ requests' \in 0..MaxRequests
    BY <1>a, <1>15, AcceptStep DEF AskInstallationToken
  <2>2. RequestShape(req'[q]) /\ UNCHANGED cli
    BY <1>15, <2>1 DEF RequestShape, AskInstallationToken
  <2> QED
    BY <1>a, <1>15, <2>1, <2>2, RequestTyped DEF AskInstallationToken, OnlyRequest, CredentialTyped, CredentialTypeOK
<1>16. ASSUME NEW q \in Slots, NEW d \in Codes, AskPoll(q, d) PROVE CredentialTyped'
  <2>1. OnlyRequest(q) /\ req'[q].pc = "lookup" /\ req'[q].code = d /\ requests' \in 0..MaxRequests
    BY <1>a, <1>16, AcceptStep DEF AskPoll
  <2>2. RequestShape(req'[q]) /\ UNCHANGED cli
    BY <1>16, <2>1 DEF RequestShape, AskPoll
  <2> QED
    BY <1>a, <1>16, <2>1, <2>2, RequestTyped DEF AskPoll, OnlyRequest, CredentialTyped, CredentialTypeOK
<1>17. ASSUME NEW q \in Slots, ReadToken(q) PROVE CredentialTyped'
  <2>1. OnlyRequest(q) /\ RequestShape(req'[q]) /\ UNCHANGED cli
    BY <1>a, <1>17 DEF ReadToken, Get, OnlyRequest, RequestShape, CredentialTypeOK, TokenRequests, IdeSteps, Times, SecretNames
  <2> QED
    BY <1>a, <1>17, <2>1, RequestTyped DEF ReadToken, OnlyRequest, CredentialTyped, CredentialTypeOK
<1>18. ASSUME NEW q \in Slots, ReadExpiry(q) PROVE CredentialTyped'
  <2>1. OnlyRequest(q) /\ RequestShape(req'[q]) /\ UNCHANGED cli
    <3>1. CASE Goto(q, "oauth")
      BY <1>a, <1>18, <3>1, GotoStep DEF ReadExpiry, RequestShape, IdeSteps
    <3>2. CASE Respond(q)
      BY <1>a, <1>18, <3>2, RespondStep, OffType DEF ReadExpiry
    <3> QED
      BY <1>18, <3>1, <3>2 DEF ReadExpiry
  <2>2. served' \in [kind : {"none", "ide", "installation"}, tok : Int, exp : Int]
    BY <1>a, <1>18 DEF ReadExpiry, CredentialTypeOK, Get, SecretNames, TokenRequests
  <2> QED
    BY <1>a, <1>18, <2>1, <2>2, RequestTyped DEF ReadExpiry, OnlyRequest, CredentialTyped, CredentialTypeOK
<1>19. ASSUME NEW q \in Slots, ReadOAuthToken(q) PROVE CredentialTyped'
  <2>1. OnlyRequest(q) /\ RequestShape(req'[q]) /\ UNCHANGED cli
    <3>1. CASE Goto(q, "mint")
      BY <1>a, <1>19, <3>1, GotoStep DEF ReadOAuthToken, RequestShape, IdeSteps
    <3>2. CASE Respond(q)
      BY <1>a, <1>19, <3>2, RespondStep, OffType DEF ReadOAuthToken
    <3> QED
      BY <1>19, <3>1, <3>2 DEF ReadOAuthToken
  <2> QED
    BY <1>a, <1>19, <2>1, RequestTyped DEF ReadOAuthToken, OnlyRequest, CredentialTyped, CredentialTypeOK
<1>20. ASSUME NEW q \in Slots, MintIDEToken(q) PROVE CredentialTyped'
  <2>1. OnlyRequest(q) /\ RequestShape(req'[q]) /\ UNCHANGED cli
    <3>a. now + Life \in Nat
      BY <1>a, TimesAssumption DEF CredentialTypeOK
    <3>1. CASE Obtain(q, "putToken", now + Life)
      BY <1>a, <1>20, <3>1, <3>a, TokenStep DEF MintIDEToken, RequestShape, RequestSteps, IdeSteps
    <3>2. CASE Respond(q)
      BY <1>a, <1>20, <3>2, RespondStep, OffType DEF MintIDEToken
    <3> QED
      BY <1>20, <3>1, <3>2 DEF MintIDEToken
  <2>2. failures' \in 0..MaxFailures
    BY <1>a, <1>20, FailureType DEF MintIDEToken, CredentialTypeOK
  <2> QED
    BY <1>a, <1>20, <2>1, <2>2, RequestTyped DEF MintIDEToken, OnlyRequest, CredentialTyped, CredentialTypeOK
<1>21. ASSUME NEW q \in Slots, CacheToken(q) PROVE CredentialTyped'
  <2>1. OnlyRequest(q) /\ RequestShape(req'[q]) /\ UNCHANGED cli
    <3>1. CASE req[q].pc = "putToken" /\ Goto(q, "putExpiry")
      BY <1>a, <1>21, <3>1, GotoStep DEF CacheToken, RequestShape, ShapeInv, IdeSteps
    <3>2. CASE Respond(q)
      BY <1>a, <1>21, <3>2, RespondStep, OffType DEF CacheToken
    <3> QED
      BY <1>21, <3>1, <3>2 DEF CacheToken, WriteCachedIDEToken
  <2>2. failures' \in 0..MaxFailures
    BY <1>a, <1>21, FailureType DEF CacheToken, CredentialTypeOK
  <2>3. /\ secret' \in [SecretNames -> Int] /\ secret'["access-token"] = secret["access-token"]
        /\ secret'["ide-token"] \in Times /\ secret'["ide-expiry"] \in Times
    <3>1. CASE secret' = secret
      BY <1>a, <3>1 DEF CredentialTypeOK
    <3>2. CASE req[q].pc \in {"putToken", "putExpiry"} /\ \E n \in {"ide-token", "ide-expiry"} : Put(n, req[q].tok)
      <4>1. req[q].tok \in Nat
        BY <1>a, <3>2 DEF ShapeInv, RequestShape
      <4> QED
        BY <1>a, <3>2, <4>1 DEF CredentialTypeOK, Put, UpsertSecret, SecretNames, Times
    <3> QED
      BY <1>21, <3>1, <3>2 DEF CacheToken, WriteCachedIDEToken
  <2> QED
    BY <1>a, <1>21, <2>1, <2>2, <2>3, RequestTyped DEF CacheToken, OnlyRequest, CredentialTyped, CredentialTypeOK
<1>22. ASSUME NEW q \in Slots, ReadCache(q) PROVE CredentialTyped'
  <2>1. OnlyRequest(q) /\ RequestShape(req'[q]) /\ UNCHANGED cli
    <3>a. now + TokenTTL \in Nat
      BY <1>a, TimesAssumption DEF CredentialTypeOK
    <3>1. CASE Await(q, "fetch", now + TokenTTL)
      BY <1>a, <1>22, <3>1, <3>a, ExpiryStep DEF ReadCache, RequestShape, RequestSteps
    <3>2. CASE Respond(q)
      BY <1>a, <1>22, <3>2, RespondStep, OffType DEF ReadCache
    <3> QED
      BY <1>22, <3>1, <3>2 DEF ReadCache
  <2>2. served' \in [kind : {"none", "ide", "installation"}, tok : Int, exp : Int]
    BY <1>a, <1>22 DEF ReadCache, CredentialTypeOK, Times, None
  <2> QED
    BY <1>a, <1>22, <2>1, <2>2, RequestTyped DEF ReadCache, OnlyRequest, CredentialTyped, CredentialTypeOK
<1>23. ASSUME NEW q \in Slots, Fetch(q) PROVE CredentialTyped'
  <2>1. OnlyRequest(q) /\ RequestShape(req'[q]) /\ UNCHANGED cli
    <3>1. ASSUME NEW life \in InstallLives, Obtain(q, "store", now + life)
          PROVE  OnlyRequest(q) /\ RequestShape(req'[q])
      <4>1. req[q].exp \in Nat
        BY <1>a, <1>23 DEF Fetch, ShapeInv, RequestShape
      <4>2. now + life \in Nat
        BY <1>a, TimesAssumption DEF CredentialTypeOK
      <4> QED
        BY <1>a, <1>23, <3>1, <4>1, <4>2, TokenStep DEF Fetch, RequestShape, RequestSteps, IdeSteps
    <3>2. CASE Respond(q)
      BY <1>a, <1>23, <3>2, RespondStep, OffType DEF Fetch
    <3> QED
      BY <1>23, <3>1, <3>2 DEF Fetch
  <2>2. failures' \in 0..MaxFailures
    BY <1>a, <1>23, FailureType DEF Fetch, CredentialTypeOK
  <2> QED
    BY <1>a, <1>23, <2>1, <2>2, RequestTyped DEF Fetch, OnlyRequest, CredentialTyped, CredentialTypeOK
<1>24. ASSUME NEW q \in Slots, StoreEntry(q) PROVE CredentialTyped'
  <2>1. OnlyRequest(q) /\ RequestShape(req'[q]) /\ UNCHANGED cli
    BY <1>a, <1>24, RespondStep, OffType DEF StoreEntry
  <2>2. entry' \in [tok : Times, exp : Nat]
    <3>1. req[q].tok \in Nat /\ req[q].exp \in Nat
      BY <1>a, <1>24 DEF StoreEntry, ShapeInv, RequestShape
    <3> QED
      BY <1>24, <3>1 DEF StoreEntry, EntryFor, Minimum, Times
  <2> QED
    BY <1>a, <1>24, <2>1, <2>2, RequestTyped DEF StoreEntry, OnlyRequest, CredentialTyped, CredentialTypeOK
<1>25. ASSUME NEW q \in Slots, Lookup(q) PROVE CredentialTyped'
  <2>1. OnlyRequest(q) /\ RequestShape(req'[q]) /\ UNCHANGED cli
    <3>1. CASE Goto(q, "ask")
      BY <1>a, <1>25, <3>1, GotoStep DEF Lookup, RequestShape, ShapeInv, IdeSteps
    <3>2. CASE Respond(q)
      BY <1>a, <1>25, <3>2, RespondStep, OffType DEF Lookup
    <3> QED
      BY <1>25, <3>1, <3>2 DEF Lookup
  <2>2. flows' \in [Codes -> Times]
    BY <1>a, <1>25 DEF Lookup, Forget, CredentialTypeOK, Times
  <2> QED
    BY <1>a, <1>25, <2>1, <2>2, RequestTyped DEF Lookup, OnlyRequest, CredentialTyped, CredentialTypeOK
<1>26. ASSUME NEW q \in Slots, AskGitHub(q) PROVE CredentialTyped'
  <2>1. OnlyRequest(q) /\ RequestShape(req'[q]) /\ UNCHANGED cli
    <3>1. CASE Obtain(q, "store1", OAuth)
      <4>1. req[q].code \in Codes
        BY <1>a, <1>26 DEF AskGitHub, ShapeInv, RequestShape
      <4>2. OAuth \in Int
        BY DEF OAuth
      <4> QED
        BY <1>a, <1>26, <3>1, <4>1, <4>2, TokenStep DEF AskGitHub, RequestShape, RequestSteps, IdeSteps
    <3>2. CASE Respond(q)
      BY <1>a, <1>26, <3>2, RespondStep, OffType DEF AskGitHub
    <3> QED
      BY <1>26, <3>1, <3>2 DEF AskGitHub
  <2>2. flows' \in [Codes -> Times] /\ code' \in [Codes -> {"unused", "pending", "approved", "refused", "spent"}]
    BY <1>a, <1>26 DEF AskGitHub, Forget, CredentialTypeOK, Times
  <2> QED
    BY <1>a, <1>26, <2>1, <2>2, RequestTyped DEF AskGitHub, OnlyRequest, CredentialTyped, CredentialTypeOK
<1>27. ASSUME NEW q \in Slots, PollFails(q) PROVE CredentialTyped'
  <2>1. OnlyRequest(q) /\ RequestShape(req'[q]) /\ UNCHANGED cli
    <3>1. CASE Obtain(q, "store1", Empty)
      <4>1. req[q].code \in Codes
        BY <1>a, <1>27 DEF PollFails, ShapeInv, RequestShape
      <4>2. Empty \in Int
        BY DEF Empty
      <4> QED
        BY <1>a, <1>27, <3>1, <4>1, <4>2, TokenStep DEF PollFails, RequestShape, RequestSteps, IdeSteps
    <3>2. CASE Respond(q)
      BY <1>a, <1>27, <3>2, RespondStep, OffType DEF PollFails
    <3> QED
      BY <1>27, <3>1, <3>2 DEF PollFails
  <2>2. code' \in [Codes -> {"unused", "pending", "approved", "refused", "spent"}]
    BY <1>a, <1>27 DEF PollFails, CredentialTypeOK
  <2>3. odd' \in BOOLEAN /\ failures' \in 0..MaxFailures
    BY <1>a, <1>27, FailureType DEF PollFails, CredentialTypeOK
  <2> QED
    BY <1>a, <1>27, <2>1, <2>2, <2>3, RequestTyped DEF PollFails, OnlyRequest, CredentialTyped, CredentialTypeOK
<1>28. ASSUME NEW q \in Slots, StoreTokens(q) PROVE CredentialTyped'
  <2>1. OnlyRequest(q) /\ RequestShape(req'[q]) /\ UNCHANGED cli
    <3>1. CASE req[q].pc = "store1" /\ Goto(q, "store2")
      BY <1>a, <1>28, <3>1, GotoStep DEF StoreTokens, RequestShape, ShapeInv, IdeSteps
    <3>2. CASE Respond(q)
      BY <1>a, <1>28, <3>2, RespondStep, OffType DEF StoreTokens
    <3> QED
      BY <1>28, <3>1, <3>2 DEF StoreTokens, PutFails
  <2>2. /\ secret' \in [SecretNames -> Int] /\ secret'["access-token"] \in {None, Empty, OAuth}
        /\ secret'["ide-token"] = secret["ide-token"] /\ secret'["ide-expiry"] = secret["ide-expiry"]
    <3>1. CASE secret' = secret
      BY <1>a, <3>1 DEF CredentialTypeOK
    <3>2. CASE req[q].pc = "store1" /\ Put("access-token", req[q].tok)
      <4>1. req[q].tok \in {OAuth, Empty}
        BY <1>a, <3>2 DEF ShapeInv, RequestShape
      <4> QED
        BY <1>a, <3>2, <4>1 DEF CredentialTypeOK, Put, UpsertSecret, SecretNames, OAuth, Empty
    <3> QED
      BY <1>28, <3>1, <3>2 DEF StoreTokens
  <2>3. flows' \in [Codes -> Times] /\ failures' \in 0..MaxFailures /\ {revoked', connected'} \subseteq BOOLEAN
    BY <1>a, <1>28, FailureType DEF StoreTokens, Forget, CredentialTypeOK, Times
  <2> QED
    BY <1>a, <1>28, <2>1, <2>2, <2>3, RequestTyped DEF StoreTokens, OnlyRequest, CredentialTyped, CredentialTypeOK
<1> QED
  BY <1>1, <1>2, <1>3, <1>4, <1>5, <1>6, <1>7, <1>8, <1>9, <1>10, <1>11, <1>12, <1>13, <1>14, <1>15, <1>16,
     <1>17, <1>18, <1>19, <1>20, <1>21, <1>22, <1>23, <1>24, <1>25, <1>26, <1>27, <1>28
  DEF CredentialNext, CliStep, RequestStep

\* InstallationCache: no step makes the cache believe more than GitHub said.
LEMMA EntryStep == CredentialTyped /\ EntryInv /\ [CredentialNext]_credentialVars => EntryInv'
<1> SUFFICES ASSUME CredentialTyped, EntryInv, [CredentialNext]_credentialVars PROVE EntryInv'
  OBVIOUS
<1> USE DEF flowVars, history, elsewhere, notFlows, restOfWorld
<1>a. CredentialTypeOK /\ ShapeInv
  BY DEF CredentialTyped
<1>1. CASE Tick
  BY <1>1 DEF Tick, NotServed, EntryInv
<1>2. CASE Restart
  BY <1>2 DEF Restart, NoEntry, EntryInv
<1>3. ASSUME NEW q \in Slots, ReadExpiry(q) PROVE EntryInv'
  BY <1>3 DEF ReadExpiry, EntryInv
<1>4. ASSUME NEW q \in Slots, ReadCache(q) PROVE EntryInv'
  BY <1>a, <1>4 DEF ReadCache, EntryInv, CredentialTypeOK
<1>5. ASSUME NEW q \in Slots, StoreEntry(q) PROVE EntryInv'
  <2>1. req[q].tok \in Nat /\ req[q].exp \in Nat
    BY <1>a, <1>5 DEF StoreEntry, ShapeInv, RequestShape
  <2> QED
    BY <1>5, <2>1 DEF StoreEntry, EntryFor, Minimum, EntryInv
<1>6. CASE UNCHANGED <<now, entry, served>>
  BY <1>6 DEF EntryInv
<1>7. CASE \/ OperatorWrites \/ Revoke \/ RunConnect \/ CliStep
           \/ \E d \in Codes : StartFlow(d) \/ Evict(d) \/ UserDecides(d)
  BY <1>6, <1>7 DEF OperatorWrites, Revoke, RunConnect, CliStep, RequestDeviceCode, PollForToken, CliTimesOut,
     StoreCopilotTokensProd, StartFlow, Evict, UserDecides
<1>8. ASSUME NEW q \in Slots,
             \/ AskIDEToken(q) \/ AskInstallationToken(q) \/ PollFails(q) \/ \E d \in Codes : AskPoll(q, d)
             \/ ReadToken(q) \/ ReadOAuthToken(q) \/ MintIDEToken(q) \/ CacheToken(q) \/ Fetch(q)
             \/ Lookup(q) \/ AskGitHub(q) \/ StoreTokens(q)
      PROVE  EntryInv'
  BY <1>6, <1>8 DEF AskIDEToken, AskInstallationToken, PollFails, AskPoll, ReadToken, ReadOAuthToken, MintIDEToken,
     CacheToken, Fetch, Lookup, AskGitHub, StoreTokens
<1>9. CASE UNCHANGED credentialVars
  BY <1>6, <1>9 DEF credentialVars
<1> QED
  BY <1>1, <1>2, <1>3, <1>4, <1>5, <1>7, <1>8, <1>9 DEF CredentialNext, RequestStep

\* A step beside the IDE token leaves what is known of it.
LEMMA IdeQuiet ==
    ASSUME IdeInv, UNCHANGED <<now, overlapped>>,
           UNCHANGED <<Get("ide-token"), Get("ide-expiry")>>,
           served' = served \/ served'.kind # "ide",
           \A p \in Slots : \/ req'[p] = req[p]
                            \/ /\ InIde(p)' => InIde(p)
                               /\ req'[p].pc \notin {"expiry", "putToken", "putExpiry"}
    PROVE  IdeInv'
<1> SUFFICES ASSUME ~overlapped PROVE IdeInv'
  BY DEF IdeInv
<1>1. \A p \in Slots : InIde(p)' => InIde(p)
  BY DEF InIde
<1>2. \A p \in Slots : IdeStep(req[p])'
  BY DEF IdeInv, IdeStep
<1>3. CachedTokenIsFresh'
  BY DEF IdeInv, CachedTokenIsFresh
<1> QED
  BY <1>1, <1>2, <1>3 DEF IdeInv

\* ResolveCopilotToken: while the requests for an IDE token take turns, each step keeps
\* the stored expiry no later than that of the stored token; the token is
\* written before the expiry.
LEMMA IdeNext == CredentialTyped /\ IdeInv /\ [CredentialNext]_credentialVars => IdeInv'
<1> SUFFICES ASSUME CredentialTyped, IdeInv, [CredentialNext]_credentialVars PROVE IdeInv'
  OBVIOUS
<1> USE DEF flowVars, history, elsewhere, notFlows, restOfWorld
<1>a. CredentialTypeOK /\ ShapeInv
  BY DEF CredentialTyped
<1>b. ASSUME NEW q \in Slots, UNCHANGED <<now, overlapped, secret>>, served' = served \/ served'.kind # "ide",
             OnlyRequest(q), InIde(q)' => InIde(q), req'[q].pc \notin {"expiry", "putToken", "putExpiry"}
      PROVE  IdeInv'
  <2>1. UNCHANGED <<Get("ide-token"), Get("ide-expiry")>>
    BY <1>b DEF Get
  <2>2. \A p \in Slots : \/ req'[p] = req[p]
                         \/ /\ InIde(p)' => InIde(p)
                            /\ req'[p].pc \notin {"expiry", "putToken", "putExpiry"}
    BY <1>b DEF OnlyRequest
  <2> QED
    BY <1>b, <2>1, <2>2, IdeQuiet
<1>c. ASSUME NEW q \in Slots, Respond(q), UNCHANGED <<now, overlapped, secret>>, served' = served \/ served'.kind # "ide"
      PROVE  IdeInv'
  <2>1. OnlyRequest(q) /\ req'[q].pc = "off"
    BY <1>a, <1>c, RespondStep, OffType
  <2> QED
    BY <1>b, <1>c, <2>1 DEF InIde, IdeSteps
<1>1. CASE Tick
  <2> SUFFICES ASSUME ~overlapped PROVE IdeInv'
    BY <1>1 DEF Tick, IdeInv
  <2>1. now \in Nat /\ Get("ide-expiry") \in Int /\ Life \in Nat /\ \A q \in Slots : req[q].tok \in Int
    BY <1>a, TimesAssumption DEF CredentialTypeOK, Get, SecretNames, TokenRequests
  <2>2. \A q \in Slots : IdeStep(req[q])'
    BY <1>1, <2>1 DEF Tick, IdeInv, IdeStep, Get
  <2>3. CachedTokenIsFresh' /\ UNCHANGED <<overlapped, Get("ide-expiry"), Get("ide-token"), req>>
    BY <1>1 DEF Tick, NotServed, CachedTokenIsFresh, Get
  <2> QED
    BY <1>1, <2>1, <2>2, <2>3 DEF Tick, IdeInv, InIde
<1>2. CASE Restart
  <2>1. \A p \in Slots : req'[p].pc = "off"
    BY <1>2, OffType DEF Restart
  <2> QED
    BY <1>2, <2>1, IdeQuiet DEF Restart, Get, InIde, IdeSteps
<1>3. CASE OperatorWrites
  <2>1. UNCHANGED <<Get("ide-token"), Get("ide-expiry"), now, overlapped, req, served>>
    BY <1>a, <1>3 DEF OperatorWrites, Put, UpsertSecret, DeleteSecret, Get, CredentialTypeOK, SecretNames
  <2> QED
    BY <2>1, IdeQuiet
<1>4. CASE StoreCopilotTokensProd
  <2>1. UNCHANGED <<Get("ide-token"), Get("ide-expiry"), now, overlapped, req, served>>
    BY <1>a, <1>4 DEF StoreCopilotTokensProd, Put, UpsertSecret, Get, CredentialTypeOK, SecretNames
  <2> QED
    BY <2>1, IdeQuiet
<1>5. CASE UNCHANGED <<now, overlapped, secret, req, served>>
  BY <1>5, IdeQuiet DEF Get
<1>6. CASE \/ Revoke \/ RunConnect \/ RequestDeviceCode \/ PollForToken \/ CliTimesOut
           \/ \E d \in Codes : StartFlow(d) \/ Evict(d) \/ UserDecides(d)
  BY <1>5, <1>6 DEF Revoke, RunConnect, RequestDeviceCode, PollForToken, CliTimesOut, StartFlow, Evict, UserDecides
<1>7. CASE UNCHANGED credentialVars
  BY <1>5, <1>7 DEF credentialVars
<1>8. ASSUME NEW q \in Slots, AskIDEToken(q) PROVE IdeInv'
  <2>1. OnlyRequest(q) /\ req[q].pc = "off" /\ req'[q].pc = "token"
    BY <1>a, <1>8, AcceptStep DEF AskIDEToken
  <2> SUFFICES ASSUME ~overlapped' PROVE IdeInv'
    BY DEF IdeInv
  <2>2. ~overlapped /\ \A p \in Slots \ {q} : ~InIde(p)
    BY <1>8 DEF AskIDEToken, InIde
  <2>3. \A p, r \in Slots : InIde(p)' /\ InIde(r)' => p = r
    BY <2>1, <2>2 DEF OnlyRequest, InIde
  <2>4. UNCHANGED <<Get("ide-expiry"), Get("ide-token"), now, served>>
    BY <1>8 DEF AskIDEToken, Get
  <2>5. \A p \in Slots : IdeStep(req[p])'
    BY <2>1, <2>2, <2>4 DEF IdeInv, IdeStep, OnlyRequest
  <2>6. CachedTokenIsFresh'
    BY <2>2, <2>4 DEF CachedTokenIsFresh, IdeInv
  <2> QED
    BY <2>2, <2>3, <2>4, <2>5, <2>6 DEF IdeInv
<1>9. ASSUME NEW q \in Slots, AskInstallationToken(q) PROVE IdeInv'
  BY <1>a, <1>b, <1>9, AcceptStep DEF AskInstallationToken, InIde, IdeSteps
<1>10. ASSUME NEW q \in Slots, NEW d \in Codes, AskPoll(q, d) PROVE IdeInv'
  BY <1>a, <1>b, <1>10, AcceptStep DEF AskPoll, InIde, IdeSteps
<1>11. ASSUME NEW q \in Slots, ReadToken(q) PROVE IdeInv'
  <2> DEFINE s == IF Get("ide-token") = None THEN "oauth" ELSE "expiry"
  <2>1. /\ OnlyRequest(q) /\ req'[q].pc = s /\ req'[q].tok = Get("ide-token")
    BY <1>a, <1>11 DEF ReadToken, Get, OnlyRequest, CredentialTypeOK, TokenRequests, IdeSteps, SecretNames
  <2> SUFFICES ASSUME ~overlapped PROVE IdeInv'
    BY <1>11 DEF ReadToken, IdeInv
  <2>2. UNCHANGED <<Get("ide-expiry"), Get("ide-token"), now, served, overlapped>> /\ InIde(q)
    BY <1>11 DEF ReadToken, Get, InIde, IdeSteps
  <2>3. \A p, r \in Slots : InIde(p)' /\ InIde(r)' => p = r
    BY <2>1, <2>2 DEF OnlyRequest, InIde, IdeInv
  <2>5. \A p \in Slots : IdeStep(req[p])'
    BY <2>1, <2>2 DEF IdeInv, IdeStep, OnlyRequest
  <2>6. CachedTokenIsFresh'
    BY <2>2 DEF CachedTokenIsFresh, IdeInv
  <2> QED
    BY <2>2, <2>3, <2>5, <2>6 DEF IdeInv
<1>12. ASSUME NEW q \in Slots, ReadExpiry(q) PROVE IdeInv'
  <2>1. CASE Goto(q, "oauth") /\ UNCHANGED served
    <3>1. OnlyRequest(q) /\ req'[q].pc = "oauth"
      BY <1>a, <2>1, GotoStep DEF IdeSteps
    <3> QED
      BY <1>b, <1>12, <2>1, <3>1 DEF ReadExpiry, InIde, IdeSteps
  <2>2. CASE /\ ~Stale(Get("ide-expiry")) /\ Respond(q)
             /\ served' = [kind |-> "ide", tok |-> req[q].tok, exp |-> Get("ide-expiry")]
    <3> SUFFICES ASSUME ~overlapped PROVE IdeInv'
      BY <1>12 DEF ReadExpiry, IdeInv
    <3>1. OnlyRequest(q) /\ req'[q].pc = "off"
      BY <1>a, <2>2, RespondStep, OffType
    <3>2. req[q].tok = Get("ide-token") /\ Get("ide-expiry") <= Get("ide-token")
      BY <1>12, <2>2 DEF ReadExpiry, IdeInv, IdeStep, Stale
    <3>3. UNCHANGED <<Get("ide-expiry"), Get("ide-token"), now, overlapped>>
      BY <1>12 DEF ReadExpiry, Get
    <3>4. CachedTokenIsFresh'
      <4>1. Get("ide-expiry") \in Int /\ Get("ide-token") \in Int /\ now \in Int /\ Margin \in Int
        BY <1>a, TimesAssumption DEF CredentialTypeOK, Get, SecretNames
      <4> QED
        BY <2>2, <3>2, <3>3, <4>1 DEF CachedTokenIsFresh, Stale
    <3>5. \A p, r \in Slots : InIde(p)' /\ InIde(r)' => p = r
      BY <3>1 DEF OnlyRequest, InIde, IdeInv, IdeSteps
    <3>6. \A p \in Slots : IdeStep(req[p])'
      BY <3>1, <3>3 DEF IdeInv, IdeStep, OnlyRequest
    <3> QED
      BY <3>3, <3>4, <3>5, <3>6 DEF IdeInv
  <2> QED
    BY <1>12, <2>1, <2>2 DEF ReadExpiry
<1>13. ASSUME NEW q \in Slots, ReadOAuthToken(q) PROVE IdeInv'
  <2>1. CASE Goto(q, "mint")
    <3>1. OnlyRequest(q) /\ req'[q].pc = "mint"
      BY <1>a, <2>1, GotoStep DEF IdeSteps
    <3> QED
      BY <1>b, <1>13, <3>1 DEF ReadOAuthToken, InIde, IdeSteps
  <2>2. CASE Respond(q)
    BY <1>c, <1>13, <2>2 DEF ReadOAuthToken
  <2> QED
    BY <1>13, <2>1, <2>2 DEF ReadOAuthToken
<1>14. ASSUME NEW q \in Slots, MintIDEToken(q) PROVE IdeInv'
  <2>1. CASE Respond(q)
    BY <1>c, <1>14, <2>1 DEF MintIDEToken
  <2>2. CASE Obtain(q, "putToken", now + Life)
    <3>a. now + Life \in Nat
      BY <1>a, TimesAssumption DEF CredentialTypeOK
    <3>1. OnlyRequest(q) /\ req'[q].pc = "putToken" /\ req'[q].tok = now + Life
      BY <1>a, <2>2, <3>a, TokenStep DEF RequestSteps, IdeSteps
    <3> SUFFICES ASSUME ~overlapped PROVE IdeInv'
      BY <1>14 DEF MintIDEToken, IdeInv
    <3>2. UNCHANGED <<Get("ide-expiry"), Get("ide-token"), now, served, overlapped>> /\ InIde(q)
      BY <1>14 DEF MintIDEToken, Get, InIde, IdeSteps
    <3>3. \A p, r \in Slots : InIde(p)' /\ InIde(r)' => p = r
      BY <3>1, <3>2 DEF OnlyRequest, InIde, IdeInv
    <3>5. \A p \in Slots : IdeStep(req[p])'
      BY <3>1, <3>2, <3>a DEF IdeInv, IdeStep, OnlyRequest
    <3>6. CachedTokenIsFresh'
      BY <3>2 DEF CachedTokenIsFresh, IdeInv
    <3> QED
      BY <3>2, <3>3, <3>5, <3>6 DEF IdeInv
  <2> QED
    BY <1>14, <2>1, <2>2 DEF MintIDEToken
<1>15. ASSUME NEW q \in Slots, CacheToken(q) PROVE IdeInv'
  <2>1. CASE Respond(q) /\ UNCHANGED secret
    BY <1>c, <1>15, <2>1 DEF CacheToken
  <2>2. CASE WriteCachedIDEToken(q)
    <3> SUFFICES ASSUME ~overlapped PROVE IdeInv'
      BY <1>15 DEF CacheToken, IdeInv
    <3>1. UNCHANGED <<now, served, overlapped>> /\ InIde(q) /\ req[q].tok \in Nat
      BY <1>a, <1>15, <2>2 DEF CacheToken, WriteCachedIDEToken, InIde, IdeSteps, ShapeInv, RequestShape
    <3>2. \A p \in Slots \ {q} : ~InIde(p)
      BY <3>1 DEF IdeInv
    <3>3. IdeStep(req[q])
      BY DEF IdeInv
    <3>4. CachedTokenIsFresh'
      BY <3>1 DEF CachedTokenIsFresh, IdeInv
    <3>5. CASE req[q].pc = "putToken" /\ Put("ide-token", req[q].tok) /\ Goto(q, "putExpiry")
      <4>1. OnlyRequest(q) /\ req'[q].pc = "putExpiry" /\ req'[q].tok = req[q].tok
        BY <1>a, <3>5, GotoStep DEF IdeSteps
      <4>2. Get("ide-token")' = req[q].tok /\ UNCHANGED Get("ide-expiry")
        BY <1>a, <3>5 DEF Put, UpsertSecret, Get, CredentialTypeOK, SecretNames
      <4>3. \A p, r \in Slots : InIde(p)' /\ InIde(r)' => p = r
        BY <4>1, <3>2 DEF OnlyRequest, InIde
      <4>4. \A p \in Slots : IdeStep(req[p])'
        BY <3>1, <3>2, <3>3, <3>5, <4>1, <4>2 DEF OnlyRequest, InIde, IdeStep, IdeSteps
      <4> QED
        BY <3>1, <3>3, <3>4, <3>5, <4>2, <4>3, <4>4 DEF IdeInv, IdeStep
    <3>6. CASE req[q].pc = "putExpiry" /\ Put("ide-expiry", req[q].tok) /\ Respond(q)
      <4>1. OnlyRequest(q) /\ req'[q].pc = "off"
        BY <1>a, <3>6, RespondStep, OffType
      <4>2. Get("ide-expiry")' = req[q].tok /\ UNCHANGED Get("ide-token")
        BY <1>a, <3>6 DEF Put, UpsertSecret, Get, CredentialTypeOK, SecretNames
      <4>3. \A p, r \in Slots : InIde(p)' /\ InIde(r)' => p = r
        BY <4>1, <3>2 DEF OnlyRequest, InIde
      <4>4. \A p \in Slots : IdeStep(req[p])'
        BY <3>2, <4>1 DEF OnlyRequest, InIde, IdeStep, IdeSteps
      <4> QED
        BY <3>1, <3>3, <3>4, <3>6, <4>2, <4>3, <4>4 DEF IdeInv, IdeStep
    <3> QED
      BY <2>2, <3>5, <3>6 DEF WriteCachedIDEToken
  <2> QED
    BY <1>15, <2>1, <2>2 DEF CacheToken
<1>16. ASSUME NEW q \in Slots, ReadCache(q) PROVE IdeInv'
  <2>1. CASE Await(q, "fetch", now + TokenTTL) /\ UNCHANGED served
    <3>a. now + TokenTTL \in Nat
      BY <1>a, TimesAssumption DEF CredentialTypeOK
    <3>1. OnlyRequest(q) /\ req'[q].pc = "fetch"
      BY <1>a, <2>1, <3>a, ExpiryStep DEF RequestSteps, IdeSteps
    <3> QED
      BY <1>b, <1>16, <2>1, <3>1 DEF ReadCache, InIde, IdeSteps
  <2>2. CASE Respond(q) /\ served'.kind = "installation"
    BY <1>c, <1>16, <2>2 DEF ReadCache
  <2> QED
    BY <1>16, <2>1, <2>2 DEF ReadCache
<1>17. ASSUME NEW q \in Slots, Fetch(q) PROVE IdeInv'
  <2>1. CASE Respond(q)
    BY <1>c, <1>17, <2>1 DEF Fetch
  <2>2. ASSUME NEW life \in InstallLives, Obtain(q, "store", now + life) PROVE IdeInv'
    <3>a. now + life \in Nat
      BY <1>a, TimesAssumption DEF CredentialTypeOK
    <3>1. OnlyRequest(q) /\ req'[q].pc = "store"
      BY <1>a, <2>2, <3>a, TokenStep DEF RequestSteps, IdeSteps
    <3> QED
      BY <1>b, <1>17, <3>1 DEF Fetch, InIde, IdeSteps
  <2> QED
    BY <1>17, <2>1, <2>2 DEF Fetch
<1>18. ASSUME NEW q \in Slots, StoreEntry(q) PROVE IdeInv'
  BY <1>c, <1>18 DEF StoreEntry
<1>19. ASSUME NEW q \in Slots, Lookup(q) PROVE IdeInv'
  <2>1. CASE Goto(q, "ask")
    <3>1. OnlyRequest(q) /\ req'[q].pc = "ask"
      BY <1>a, <2>1, GotoStep
    <3> QED
      BY <1>b, <1>19, <3>1 DEF Lookup, InIde, IdeSteps
  <2>2. CASE Respond(q)
    BY <1>c, <1>19, <2>2 DEF Lookup
  <2> QED
    BY <1>19, <2>1, <2>2 DEF Lookup
<1>20. ASSUME NEW q \in Slots, AskGitHub(q) \/ PollFails(q) PROVE IdeInv'
  <2>1. ASSUME NEW v \in {OAuth, Empty}, Obtain(q, "store1", v) PROVE IdeInv'
    <3>a. v \in Int
      BY DEF OAuth, Empty
    <3>1. OnlyRequest(q) /\ req'[q].pc = "store1"
      BY <1>a, <2>1, <3>a, TokenStep DEF RequestSteps
    <3> QED
      BY <1>b, <1>20, <3>1 DEF AskGitHub, PollFails, InIde, IdeSteps
  <2>2. CASE Respond(q)
    BY <1>c, <1>20, <2>2 DEF AskGitHub, PollFails
  <2> QED
    BY <1>20, <2>1, <2>2 DEF AskGitHub, PollFails
<1>21. ASSUME NEW q \in Slots, StoreTokens(q) PROVE IdeInv'
  <2>1. CASE Respond(q) /\ UNCHANGED secret
    BY <1>c, <1>21, <2>1 DEF StoreTokens
  <2>2. CASE Put("access-token", req[q].tok) /\ Goto(q, "store2")
    <3>1. OnlyRequest(q) /\ req'[q].pc = "store2"
      BY <1>a, <2>2, GotoStep
    <3>2. UNCHANGED <<Get("ide-token"), Get("ide-expiry"), now, overlapped, served>>
      BY <1>a, <1>21, <2>2 DEF StoreTokens, Put, UpsertSecret, Get, CredentialTypeOK, SecretNames
    <3> QED
      BY <3>1, <3>2, IdeQuiet DEF OnlyRequest, InIde, IdeSteps
  <2> QED
    BY <1>21, <2>1, <2>2 DEF StoreTokens, PutFails
<1> QED
  BY <1>1, <1>2, <1>3, <1>4, <1>6, <1>7, <1>8, <1>9, <1>10, <1>11, <1>12, <1>13, <1>14, <1>15, <1>16,
     <1>17, <1>18, <1>19, <1>20, <1>21 DEF CredentialNext, CliStep, RequestStep

\* A step beside the access token leaves what is known of it.
LEMMA ConnectQuiet ==
    ASSUME ConnectInv, UNCHANGED <<odd, deleted, connected, Get("access-token")>>,
           \A p \in Slots : req'[p] = req[p] \/ req'[p].pc \notin {"store1", "store2"}
    PROVE  ConnectInv'
<1> SUFFICES ASSUME ~odd PROVE ConnectInv'
  BY DEF ConnectInv
<1>1. ConnectedIsStored'
  BY DEF ConnectInv, ConnectedIsStored
<1>2. \A q \in Slots : req'[q].pc = "store1" => req'[q].tok = OAuth
  BY DEF ConnectInv
<1>3. ~deleted => \A q \in Slots : req'[q].pc = "store2" => Get("access-token")' = OAuth
  BY DEF ConnectInv
<1> QED
  BY <1>1, <1>2, <1>3 DEF ConnectInv

\* Each step of the device flow keeps a connected account's token stored.
LEMMA ConnectNext == CredentialTyped /\ ConnectInv /\ [CredentialNext]_credentialVars => ConnectInv'
<1> SUFFICES ASSUME CredentialTyped, ConnectInv, [CredentialNext]_credentialVars PROVE ConnectInv'
  OBVIOUS
<1> USE DEF flowVars, history, elsewhere, notFlows, restOfWorld
<1>a. CredentialTypeOK /\ ShapeInv
  BY DEF CredentialTyped
<1>o. OAuth # Empty /\ None # Empty
  BY DEF OAuth, Empty, None
<1>b. ASSUME NEW q \in Slots, UNCHANGED <<odd, deleted, connected, secret>>, OnlyRequest(q),
             req'[q].pc \notin {"store1", "store2"}
      PROVE  ConnectInv'
  BY <1>b, ConnectQuiet DEF OnlyRequest, Get
<1>c. ASSUME NEW q \in Slots, Respond(q), UNCHANGED <<odd, deleted, connected, secret>> PROVE ConnectInv'
  BY <1>a, <1>b, <1>c, RespondStep, OffType
<1>1. CASE OperatorWrites
  <2> SUFFICES ASSUME ~odd PROVE ConnectInv'
    BY <1>1 DEF OperatorWrites, ConnectInv
  <2>1. CASE Put("access-token", OAuth) /\ UNCHANGED deleted
    <3>1. Get("access-token")' = OAuth
      BY <1>a, <2>1 DEF Put, UpsertSecret, Get, CredentialTypeOK, SecretNames
    <3> QED
      BY <1>1, <1>o, <3>1 DEF OperatorWrites, ConnectInv, ConnectedIsStored
  <2>2. CASE DeleteSecret("access-token") /\ deleted' = TRUE
    <3>1. Get("access-token")' = None
      BY <1>a, <2>2 DEF DeleteSecret, Get, CredentialTypeOK, SecretNames
    <3> QED
      BY <1>1, <1>o, <2>2, <3>1 DEF OperatorWrites, ConnectInv, ConnectedIsStored
  <2> QED
    BY <1>1, <2>1, <2>2 DEF OperatorWrites
<1>2. CASE Restart
  <2>1. \A p \in Slots : req'[p].pc = "off"
    BY <1>2, OffType DEF Restart
  <2> QED
    BY <1>2, <2>1, ConnectQuiet DEF Restart, Get
<1>3. CASE StoreCopilotTokensProd
  <2>1. CASE Put("access-token", OAuth)
    <3> SUFFICES ASSUME ~odd PROVE ConnectInv'
      BY <1>3 DEF StoreCopilotTokensProd, ConnectInv
    <3>1. Get("access-token")' = OAuth
      BY <1>a, <2>1 DEF Put, UpsertSecret, Get, CredentialTypeOK, SecretNames
    <3> QED
      BY <1>3, <1>o, <3>1 DEF StoreCopilotTokensProd, ConnectInv, ConnectedIsStored
  <2>2. CASE UNCHANGED <<secret, connected>>
    BY <1>3, <2>2, ConnectQuiet DEF StoreCopilotTokensProd, Get
  <2> QED
    BY <1>3, <2>1, <2>2 DEF StoreCopilotTokensProd
<1>4. CASE UNCHANGED <<odd, deleted, connected, secret, req>>
  BY <1>4, ConnectQuiet DEF Get
<1>5. CASE \/ Tick \/ Revoke \/ RunConnect \/ RequestDeviceCode \/ PollForToken \/ CliTimesOut
           \/ \E d \in Codes : StartFlow(d) \/ Evict(d) \/ UserDecides(d)
  BY <1>4, <1>5 DEF Tick, Revoke, RunConnect, RequestDeviceCode, PollForToken, CliTimesOut, StartFlow, Evict, UserDecides
<1>6. CASE UNCHANGED credentialVars
  BY <1>4, <1>6 DEF credentialVars
<1>7. ASSUME NEW q \in Slots, AskIDEToken(q) PROVE ConnectInv'
  BY <1>a, <1>b, <1>7, AcceptStep DEF AskIDEToken
<1>8. ASSUME NEW q \in Slots, AskInstallationToken(q) PROVE ConnectInv'
  BY <1>a, <1>b, <1>8, AcceptStep DEF AskInstallationToken
<1>9. ASSUME NEW q \in Slots, NEW d \in Codes, AskPoll(q, d) PROVE ConnectInv'
  BY <1>a, <1>b, <1>9, AcceptStep DEF AskPoll
<1>10. ASSUME NEW q \in Slots, ReadToken(q) PROVE ConnectInv'
  <2>1. OnlyRequest(q) /\ req'[q].pc \in {"oauth", "expiry"}
    BY <1>a, <1>10 DEF ReadToken, Get, OnlyRequest, CredentialTypeOK, TokenRequests, IdeSteps, SecretNames
  <2> QED
    BY <1>b, <1>10, <2>1 DEF ReadToken
<1>11. ASSUME NEW q \in Slots, ReadExpiry(q) \/ ReadOAuthToken(q) \/ Lookup(q) PROVE ConnectInv'
  <2>1. UNCHANGED <<odd, deleted, connected, secret>>
    BY <1>11 DEF ReadExpiry, ReadOAuthToken, Lookup
  <2>2. ASSUME NEW s \in {"oauth", "mint", "ask"}, Goto(q, s) PROVE ConnectInv'
    BY <1>a, <1>b, <2>1, <2>2, GotoStep DEF IdeSteps
  <2>3. CASE Respond(q)
    BY <1>c, <2>1, <2>3
  <2> QED
    BY <1>11, <2>2, <2>3 DEF ReadExpiry, ReadOAuthToken, Lookup
<1>12. ASSUME NEW q \in Slots, MintIDEToken(q) \/ Fetch(q) PROVE ConnectInv'
  <2>1. UNCHANGED <<odd, deleted, connected, secret>>
    BY <1>12 DEF MintIDEToken, Fetch
  <2>2. ASSUME NEW s \in {"putToken", "store"}, NEW v \in Nat, Obtain(q, s, v) PROVE ConnectInv'
    BY <1>a, <1>b, <2>1, <2>2, TokenStep DEF RequestSteps, IdeSteps
  <2>3. CASE Respond(q)
    BY <1>c, <2>1, <2>3
  <2>4. now + Life \in Nat /\ \A life \in InstallLives : now + life \in Nat
    BY <1>a, TimesAssumption DEF CredentialTypeOK
  <2> QED
    BY <1>12, <2>2, <2>3, <2>4 DEF MintIDEToken, Fetch
<1>13. ASSUME NEW q \in Slots, CacheToken(q) PROVE ConnectInv'
  <2>1. UNCHANGED <<odd, deleted, connected, Get("access-token")>>
    BY <1>a, <1>13 DEF CacheToken, WriteCachedIDEToken, Put, UpsertSecret, Get, CredentialTypeOK, SecretNames
  <2>2. OnlyRequest(q) /\ req'[q].pc \in {"putExpiry", "off"}
    BY <1>a, <1>13, GotoStep, RespondStep, OffType DEF CacheToken, WriteCachedIDEToken, IdeSteps
  <2> QED
    BY <2>1, <2>2, ConnectQuiet DEF OnlyRequest
<1>14. ASSUME NEW q \in Slots, ReadCache(q) PROVE ConnectInv'
  <2>1. CASE Await(q, "fetch", now + TokenTTL)
    <3>a. now + TokenTTL \in Nat
      BY <1>a, TimesAssumption DEF CredentialTypeOK
    <3>1. OnlyRequest(q) /\ req'[q].pc = "fetch"
      BY <1>a, <2>1, <3>a, ExpiryStep DEF RequestSteps, IdeSteps
    <3> QED
      BY <1>b, <1>14, <3>1 DEF ReadCache
  <2>2. CASE Respond(q)
    BY <1>c, <1>14, <2>2 DEF ReadCache
  <2> QED
    BY <1>14, <2>1, <2>2 DEF ReadCache
<1>15. ASSUME NEW q \in Slots, StoreEntry(q) PROVE ConnectInv'
  BY <1>c, <1>15 DEF StoreEntry
<1>16. ASSUME NEW q \in Slots, AskGitHub(q) PROVE ConnectInv'
  <2>1. CASE Respond(q)
    BY <1>c, <1>16, <2>1 DEF AskGitHub
  <2>2. CASE Obtain(q, "store1", OAuth)
    <3>a. OAuth \in Int
      BY DEF OAuth
    <3>1. OnlyRequest(q) /\ req'[q].pc = "store1" /\ req'[q].tok = OAuth
      BY <1>a, <2>2, <3>a, TokenStep DEF RequestSteps, IdeSteps
    <3> QED
      BY <1>16, <3>1 DEF AskGitHub, ConnectInv, ConnectedIsStored, OnlyRequest, Get
  <2> QED
    BY <1>16, <2>1, <2>2 DEF AskGitHub
<1>17. ASSUME NEW q \in Slots, PollFails(q) PROVE ConnectInv'
  <2>1. CASE Respond(q) /\ UNCHANGED odd
    BY <1>c, <1>17, <2>1 DEF PollFails
  <2>2. CASE odd' = TRUE
    BY <2>2 DEF ConnectInv
  <2> QED
    BY <1>17, <2>1, <2>2 DEF PollFails
<1>18. ASSUME NEW q \in Slots, StoreTokens(q) PROVE ConnectInv'
  <2>1. CASE Respond(q) /\ UNCHANGED <<secret, connected>>
    BY <1>c, <1>18, <2>1 DEF StoreTokens
  <2> SUFFICES ASSUME ~odd PROVE ConnectInv'
    BY <1>18 DEF StoreTokens, ConnectInv
  <2>2. CASE req[q].pc = "store1" /\ Put("access-token", req[q].tok) /\ Goto(q, "store2") /\ UNCHANGED connected
    <3>1. OnlyRequest(q) /\ req'[q].pc = "store2"
      BY <1>a, <2>2, GotoStep
    <3>2. Get("access-token")' = OAuth
      BY <1>a, <2>2 DEF Put, UpsertSecret, Get, CredentialTypeOK, SecretNames, ConnectInv
    <3> QED
      BY <1>18, <1>o, <3>1, <3>2 DEF StoreTokens, ConnectInv, ConnectedIsStored, OnlyRequest
  <2>3. CASE req[q].pc = "store2" /\ Respond(q) /\ connected' = TRUE /\ UNCHANGED secret
    <3>1. OnlyRequest(q) /\ req'[q].pc = "off"
      BY <1>a, <2>3, RespondStep, OffType
    <3>2. UNCHANGED <<Get("access-token"), odd, deleted>>
      BY <1>18, <2>3 DEF StoreTokens, Get
    <3>3. ~deleted => Get("access-token") = OAuth
      BY <2>3 DEF ConnectInv
    <3> QED
      BY <3>1, <3>2, <3>3 DEF ConnectInv, ConnectedIsStored, OnlyRequest
  <2> QED
    BY <1>18, <2>1, <2>2, <2>3 DEF StoreTokens, PutFails
<1> QED
  BY <1>1, <1>2, <1>3, <1>5, <1>6, <1>7, <1>8, <1>9, <1>10, <1>11, <1>12, <1>13, <1>14, <1>15, <1>16,
     <1>17, <1>18 DEF CredentialNext, CliStep, RequestStep

\* The invariants of the credentials hold at first.
LEMMA CredentialInitInv == CredentialInit => EntryInv /\ IdeInv /\ ConnectInv
<1> SUFFICES ASSUME CredentialInit PROVE EntryInv /\ IdeInv /\ ConnectInv
  OBVIOUS
<1>1. \A q \in Slots : req[q].pc = "off"
  BY OffType DEF CredentialInit
<1>2. Get("ide-expiry") = None /\ Get("access-token") \in {None, OAuth} /\ now = 0
  BY DEF CredentialInit, Get
<1>3. None # Empty /\ OAuth # Empty /\ None <= now + Life
  BY <1>2, TimesAssumption DEF None, Empty, OAuth
<1>4. served.kind = "none" /\ connected = FALSE
  BY DEF CredentialInit
<1>5. EntryInv
  BY <1>4 DEF CredentialInit, EntryInv, NoEntry
<1>6. IdeInv
  BY <1>1, <1>2, <1>3, <1>4 DEF IdeInv, InIde, IdeSteps, IdeStep, CachedTokenIsFresh
<1>7. ConnectInv
  BY <1>1, <1>2, <1>3, <1>4 DEF ConnectInv, ConnectedIsStored
<1> QED
  BY <1>5, <1>6, <1>7

\* Every variable of Credentials keeps its type.
THEOREM CredentialsAreTyped == CredentialSpec => []CredentialTypeOK
<1>1. CredentialTyped => CredentialTypeOK
  BY DEF CredentialTyped
<1> QED
  BY <1>1, CredentialInitTyped, CredentialNextTyped, PTL DEF CredentialSpec

\* The installation token a request is given (InstallationCache.Token) has not
\* expired, for every lifetime GitHub grants and every TTL of the cache,
\* whatever requests overlap and fail.
THEOREM InstallationTokensAreFresh == CredentialSpec => []InstallationTokenIsFresh
<1>1. CredentialTyped /\ EntryInv => InstallationTokenIsFresh
  BY DEF CredentialTyped, CredentialTypeOK, EntryInv, InstallationTokenIsFresh
<1> QED
  BY <1>1, CredentialInitTyped, CredentialNextTyped, CredentialInitInv, EntryStep, PTL DEF CredentialSpec

\* The IDE token ResolveCopilotToken gives a request from the cache has more than
\* the margin left, and the expiry beside it is not later than the truth, for any
\* number of requests, failed writes and restarts between the two secrets, as
\* long as no two requests for it were in flight at once.
THEOREM CachedTokensAreFresh == CredentialSpec => []CachedTokenIsFresh
<1>1. IdeInv => CachedTokenIsFresh
  BY DEF IdeInv, CachedTokenIsFresh
<1> QED
  BY <1>1, CredentialInitTyped, CredentialNextTyped, CredentialInitInv, IdeNext, PTL DEF CredentialSpec

\* Once the page's poll or connect-copilot has reported success, an OAuth token
\* is stored until the operator deletes it, for any number of flows, restarts and
\* failed writes, unless GitHub answered a poll with an empty success.
THEOREM ConnectionsAreStored == CredentialSpec => []ConnectedIsStored
<1>1. ConnectInv => ConnectedIsStored
  BY DEF ConnectInv, ConnectedIsStored
<1> QED
  BY <1>1, CredentialInitTyped, CredentialNextTyped, CredentialInitInv, ConnectNext, PTL DEF CredentialSpec

-----------------------------------------------------------------------------
(* The conversations.                                                      *)

\* What the provider has put together, with the call it is at, is what came.
AccInv ==
    pc = "stream" =>
        IF wire.open
        THEN /\ conv.provider = "anthropic"
             /\ acc.cur.id # <<>> /\ wire.calls = Append(acc.done, acc.cur)
        ELSE acc.cur = NoCall /\ wire.calls = acc.done
UsesInv == AccInv /\ CallsAsSent

CallingInv == pc = "calling" => conv.who = "chat" /\ call <= Len(uses)

\* The first n calls of message k of h are answered by the n messages after it.
AnsweredUpTo(h, k, n) ==
    \A i \in DOMAIN h[k].uses : i <= n => k + i <= Len(h) /\ h[k + i].answers = h[k].uses[i]
AllAnswered(h) == \A k \in DOMAIN h : AnsweredUpTo(h, k, Len(h[k].uses))
\* What message k of h answers was asked before it.
Asked(h, k) == h[k].answers # <<>> => \E i \in 1..(k - 1) : i \in DOMAIN h[k - i].uses
AllAsked(h) == \A k \in DOMAIN h : Asked(h, k)
PlainMessages == {User, Assistant(<<>>)}

\* The message whose calls are being made.
Asking == Len(msgs) - (call - 1)
PendingInv ==
    /\ Asking \in DOMAIN msgs /\ msgs[Asking].uses = Ids(uses)
    /\ call <= Len(uses) + 1 /\ AnsweredUpTo(msgs, Asking, call - 1)
    /\ \A k \in DOMAIN msgs \ {Asking} : AnsweredUpTo(msgs, k, Len(msgs[k].uses))
HistoryInv ==
    /\ pc \in {"turn", "stream"} => AllAnswered(msgs)
    /\ pc # "over" => AllAsked(msgs)
    /\ pc \in {"tools", "calling"} => PendingInv
    /\ pc = "tools" /\ conv.who = "run" => call = 1
    /\ conv.who = "plain" => pc \in {"start", "turn", "over"} /\ msgs \in Seq({User})
    /\ HistoryWellFormed

Wires == [calls : Seq(ToolCalls), open : BOOLEAN, text : BOOLEAN]
Accs == [cur : ToolCalls, done : Seq(ToolCalls), text : BOOLEAN]

\* The empty turn is well typed.
LEMMA NoneTypes == NoCall \in ToolCalls /\ NoWire \in Wires /\ NoAcc \in Accs
<1>1. NoCall \in ToolCalls
  BY DEF NoCall, ToolCalls, CallIds
<1> QED
  BY <1>1 DEF NoWire, Wires, NoAcc, Accs

\* The id of a new call is an id, and not the empty one.
LEMMA NewIdType ==
    ASSUME TurnTypeOK
    PROVE  /\ NewId \in CallIds /\ NewId # <<>>
           /\ [id |-> NewId, input |-> <<>>] \in ToolCalls
<1>1. turn \in Nat /\ Len(wire.calls) + 1 \in Nat
  <2>1. turn \in 0..MaxTurns /\ wire.calls \in Seq(ToolCalls)
    BY DEF TurnTypeOK
  <2> QED
    BY <2>1, LoopBounds
<1>2. ASSUME NEW a \in Nat, NEW b \in Nat PROVE <<a, b>> \in Seq(Nat) /\ <<a, b>> # <<>>
  OBVIOUS
<1>3. NewId \in CallIds /\ NewId # <<>>
  BY <1>1, <1>2 DEF NewId, CallIds
<1> QED
  BY <1>3 DEF ToolCalls

\* One more piece of a call's input leaves a call.
LEMMA PieceType ==
    ASSUME TurnTypeOK, NEW k \in 1..Len(wire.calls)
    PROVE  /\ wire.calls[k] \in ToolCalls /\ Piece(k) \in CallIds \X Nat
           /\ Append(wire.calls[k].input, Piece(k)) \in Seq(CallIds \X Nat)
           /\ [wire.calls[k] EXCEPT !.input = Append(@, Piece(k))] \in ToolCalls
<1>1. wire.calls \in Seq(ToolCalls)
  BY DEF TurnTypeOK
<1>2. wire.calls[k] \in ToolCalls
  BY <1>1
<1>3. wire.calls[k].id \in CallIds /\ wire.calls[k].input \in Seq(CallIds \X Nat)
  BY <1>2 DEF ToolCalls
<1>4. Piece(k) \in CallIds \X Nat
  BY <1>3 DEF Piece
<1>5. Append(wire.calls[k].input, Piece(k)) \in Seq(CallIds \X Nat)
  BY <1>3, <1>4
<1> QED
  BY <1>2, <1>4, <1>5 DEF ToolCalls

\* flushToolUse: the call in progress, if any, joins those that are complete.
LEMMA FlushType ==
    ASSUME NEW a \in Accs
    PROVE  /\ FlushToolUse(a) \in Accs
           /\ a.cur.id = <<>> => FlushToolUse(a) = a
           /\ a.cur.id # <<>> => FlushToolUse(a).done = Append(a.done, a.cur) /\ FlushToolUse(a).cur = NoCall
<1>1. CASE a.cur.id = <<>>
  BY <1>1 DEF FlushToolUse
<1>2. CASE a.cur.id # <<>>
  <2>1. a.done \in Seq(ToolCalls) /\ a.cur \in ToolCalls
    BY DEF Accs
  <2>2. Append(a.done, a.cur) \in Seq(ToolCalls)
    BY <2>1
  <2>3. [a EXCEPT !.done = Append(a.done, a.cur)] \in Accs
    BY <2>2 DEF Accs
  <2>4. FlushToolUse(a) = [[a EXCEPT !.done = Append(a.done, a.cur)] EXCEPT !.cur = NoCall]
    BY <1>2 DEF FlushToolUse, Accs
  <2> QED
    BY <1>2, <2>2, <2>3, <2>4, NoneTypes DEF Accs
<1> QED
  BY <1>1, <1>2

\* A step of the stream leaves what was put together equal to what came.
Progress == wire' \in Wires /\ acc' \in Accs /\ AccInv' /\ pc = "stream" /\ UNCHANGED streaming

\* The parts of a turn in progress are well typed.
LEMMA WireTypes ==
    ASSUME TurnTypeOK
    PROVE  /\ wire \in Wires /\ acc \in Accs /\ wire.calls \in Seq(ToolCalls) /\ acc.done \in Seq(ToolCalls)
           /\ acc.cur \in ToolCalls
BY DEF TurnTypeOK, Wires, Accs

\* content_block_start: a call that begins is the one in progress.
LEMMA BlockStartStep == ASSUME TurnTypeOK, AccInv, BlockStart PROVE Progress
<1> DEFINE new == [id |-> NewId, input |-> <<>>]
<1>1. pc = "stream" /\ UNCHANGED streaming /\ conv.provider = "anthropic" /\ ~wire.open
  BY DEF BlockStart
<1>2. acc.cur = NoCall /\ wire.calls = acc.done
  BY <1>1 DEF AccInv
<1>3. acc.cur.id = <<>> /\ FlushToolUse(acc) = acc
  BY <1>2, WireTypes, FlushType DEF NoCall
<1>4. new \in ToolCalls /\ new.id # <<>>
  BY NewIdType
<1>5. CASE /\ wire' = [wire EXCEPT !.calls = Append(@, new), !.open = TRUE]
           /\ acc' = [FlushToolUse(acc) EXCEPT !.cur = new]
  <2> HIDE DEF new
  <2>1. Append(wire.calls, new) \in Seq(ToolCalls)
    BY <1>4, WireTypes
  <2>2. [wire EXCEPT !.calls = Append(wire.calls, new)] \in Wires
    BY <2>1, WireTypes DEF Wires
  <2>3. wire' = [[wire EXCEPT !.calls = Append(wire.calls, new)] EXCEPT !.open = TRUE]
    BY <1>5, WireTypes DEF Wires
  <2>4. wire' \in Wires /\ wire'.calls = Append(wire.calls, new) /\ wire'.open = TRUE
    BY <2>2, <2>3 DEF Wires
  <2>5. acc' \in Accs /\ acc'.cur = new /\ acc'.done = acc.done
    BY <1>3, <1>4, <1>5, WireTypes DEF Accs
  <2> QED
    BY <1>1, <1>2, <1>4, <2>4, <2>5 DEF Progress, AccInv, streaming
<1>6. CASE wire' = [wire EXCEPT !.text = TRUE] /\ acc' = [FlushToolUse(acc) EXCEPT !.text = TRUE]
  <2>1. wire' \in Wires /\ wire'.calls = wire.calls /\ wire'.open = wire.open
    BY <1>6, WireTypes DEF Wires
  <2>2. acc' \in Accs /\ acc'.cur = acc.cur /\ acc'.done = acc.done
    BY <1>3, <1>6, WireTypes DEF Accs
  <2> QED
    BY <1>1, <1>2, <2>1, <2>2 DEF Progress, AccInv, streaming
<1> QED
  BY <1>5, <1>6 DEF BlockStart

\* input_json_delta: a piece goes to the call in progress, which is the last one.
LEMMA InputStep == ASSUME TurnTypeOK, AccInv, InputJSONDelta PROVE Progress
<1> DEFINE k == Len(wire.calls)
           d == [acc.cur EXCEPT !.input = Append(@, Piece(k))]
<1>1. pc = "stream" /\ UNCHANGED streaming /\ conv.provider = "anthropic" /\ wire.open
  BY DEF InputJSONDelta
<1>2. acc.cur.id # <<>> /\ wire.calls = Append(acc.done, acc.cur)
  BY <1>1 DEF AccInv
<1>3. k = Len(acc.done) + 1 /\ wire.calls[k] = acc.cur /\ k \in 1..Len(wire.calls)
  BY <1>2, WireTypes, AppendProperties
<1>4. d \in ToolCalls /\ d.id = acc.cur.id
  BY <1>3, PieceType DEF ToolCalls
<1>5. acc' = [acc EXCEPT !.cur = d]
  BY WireTypes DEF InputJSONDelta, Accs
<1>6. acc' \in Accs /\ acc'.cur = d /\ acc'.done = acc.done
  BY <1>4, <1>5, WireTypes DEF Accs
<1>7. wire' = [wire EXCEPT !.calls = [wire.calls EXCEPT ![k] = d]]
  BY <1>3, WireTypes DEF InputJSONDelta, Wires
<1> HIDE DEF d, k
<1>8. [wire.calls EXCEPT ![k] = d] = Append(acc.done, d)
  <2> DEFINE L == [wire.calls EXCEPT ![k] = d]
             R == Append(acc.done, d)
  <2>1. /\ L \in Seq(ToolCalls) /\ Len(L) = Len(wire.calls)
        /\ \A j \in 1..Len(wire.calls) : L[j] = IF j = k THEN d ELSE wire.calls[j]
    BY <1>3, <1>4, WireTypes, ExceptSeq
  <2>2. /\ R \in Seq(ToolCalls) /\ Len(R) = k /\ R[k] = d
        /\ \A j \in 1..Len(acc.done) : R[j] = acc.done[j] /\ wire.calls[j] = acc.done[j]
    BY <1>2, <1>3, <1>4, WireTypes, AppendProperties
  <2>3. Len(wire.calls) = k /\ Len(acc.done) \in Nat
    BY WireTypes DEF k
  <2> HIDE DEF L, R
  <2>4. \A j \in 1..k : L[j] = R[j]
    BY <1>3, <2>1, <2>2, <2>3
  <2>5. L = R
    BY <2>1, <2>2, <2>3, <2>4, SeqEqual
  <2> QED
    BY <2>5 DEF L, R
<1>9. Append(acc.done, d) \in Seq(ToolCalls)
  BY <1>4, WireTypes
<1>10. wire' \in Wires /\ wire'.calls = Append(acc.done, d) /\ wire'.open = wire.open
  BY <1>7, <1>8, <1>9, WireTypes DEF Wires
<1> QED
  BY <1>1, <1>2, <1>4, <1>6, <1>10 DEF Progress, AccInv, streaming

\* content_block_stop: the call in progress is complete.
LEMMA BlockStopStep == ASSUME TurnTypeOK, AccInv, BlockStop PROVE Progress
<1>1. pc = "stream" /\ UNCHANGED streaming /\ wire.open
  BY DEF BlockStop
<1>2. acc.cur.id # <<>> /\ wire.calls = Append(acc.done, acc.cur)
  BY <1>1 DEF AccInv
<1>3. acc' \in Accs /\ acc'.cur = NoCall /\ acc'.done = Append(acc.done, acc.cur)
  BY <1>2, WireTypes, FlushType DEF BlockStop
<1>4. wire' \in Wires /\ wire'.calls = wire.calls /\ wire'.open = FALSE
  BY WireTypes DEF BlockStop, Wires
<1> QED
  BY <1>1, <1>2, <1>3, <1>4 DEF Progress, AccInv, streaming

\* A delta by index: the call of that index takes the piece.
LEMMA ToolCallDeltaStep == ASSUME TurnTypeOK, AccInv, ToolCallDelta PROVE Progress
<1>1. pc = "stream" /\ UNCHANGED streaming /\ conv.provider = "openai"
  BY DEF ToolCallDelta
<1>2. ~wire.open /\ acc.cur = NoCall /\ wire.calls = acc.done
  BY <1>1 DEF AccInv
<1>3. ASSUME NEW q \in Seq(ToolCalls), wire' = [wire EXCEPT !.calls = q], acc' = [acc EXCEPT !.done = q]
      PROVE  Progress
  <2>1. wire' \in Wires /\ wire'.calls = q /\ wire'.open = wire.open
    BY <1>3, WireTypes DEF Wires
  <2>2. acc' \in Accs /\ acc'.cur = acc.cur /\ acc'.done = q
    BY <1>3, WireTypes DEF Accs
  <2> QED
    BY <1>1, <1>2, <2>1, <2>2 DEF Progress, AccInv, streaming
<1>4. ASSUME NEW k \in 1..Len(wire.calls),
             wire' = [wire EXCEPT !.calls[k].input = Append(@, Piece(k))],
             acc' = Accumulate(acc, k, wire.calls[k], <<Piece(k)>>)
      PROVE  Progress
  <2> DEFINE d == [wire.calls[k] EXCEPT !.input = Append(@, Piece(k))]
             q == [wire.calls EXCEPT ![k] = d]
  <2>1. wire.calls[k] \in ToolCalls /\ d \in ToolCalls /\ Piece(k) \in CallIds \X Nat
    BY PieceType
  <2>2. q \in Seq(ToolCalls)
    BY <2>1, WireTypes, ExceptSeq
  <2>3. wire' = [wire EXCEPT !.calls = q]
    BY <1>4, WireTypes DEF Wires
  <2>4. wire.calls[k].input \in Seq(CallIds \X Nat)
    BY <2>1 DEF ToolCalls
  <2>5. Append(wire.calls[k].input, Piece(k)) = wire.calls[k].input \o <<Piece(k)>>
    BY <2>1, <2>4, AppendIsConcat
  <2>6. ~(k > Len(acc.done))
    BY <1>2, WireTypes
  <2>7. acc' = [acc EXCEPT !.done = [acc.done EXCEPT ![k] = [acc.done[k] EXCEPT !.input = @ \o <<Piece(k)>>]]]
    BY <1>4, <2>6, WireTypes DEF Accumulate, Accs
  <2>8. acc' = [acc EXCEPT !.done = q]
    BY <1>2, <2>5, <2>7, <2>1 DEF ToolCalls
  <2> QED
    BY <1>3, <2>2, <2>3, <2>8
<1>5. CASE /\ wire' = [wire EXCEPT !.calls = Append(@, [id |-> NewId, input |-> <<>>])]
           /\ acc' = Accumulate(acc, Len(wire.calls) + 1, [id |-> NewId, input |-> <<>>], <<>>)
  <2> DEFINE new == [id |-> NewId, input |-> <<>>]
  <2>1. new \in ToolCalls /\ [new EXCEPT !.input = <<>>] = new
    BY NewIdType
  <2>2. Append(wire.calls, new) \in Seq(ToolCalls)
    BY <2>1, WireTypes
  <2>3. Len(wire.calls) + 1 > Len(acc.done)
    BY <1>2, WireTypes
  <2>4. acc' = [acc EXCEPT !.done = Append(acc.done, new)]
    BY <1>5, <2>1, <2>3, WireTypes DEF Accumulate, Accs
  <2>5. wire' = [wire EXCEPT !.calls = Append(wire.calls, new)]
    BY <1>5, WireTypes DEF Wires
  <2> QED
    BY <1>2, <1>3, <2>2, <2>4, <2>5
<1>6. CASE wire' = [wire EXCEPT !.text = TRUE] /\ acc' = [acc EXCEPT !.text = TRUE]
  <2>1. wire' \in Wires /\ wire'.calls = wire.calls /\ wire'.open = wire.open
    BY <1>6, WireTypes DEF Wires
  <2>2. acc' \in Accs /\ acc'.cur = acc.cur /\ acc'.done = acc.done
    BY <1>6, WireTypes DEF Accs
  <2> QED
    BY <1>1, <1>2, <2>1, <2>2 DEF Progress, AccInv, streaming
<1> QED
  BY <1>4, <1>5, <1>6 DEF ToolCallDelta

\* The messages of a conversation are well typed.
LEMMA MessageTypes ==
    /\ User \in Messages /\ User.uses = <<>> /\ User.answers = <<>>
    /\ \A u \in Seq(CallIds) : Assistant(u) \in Messages /\ Assistant(u).uses = u /\ Assistant(u).answers = <<>>
    /\ \A id \in CallIds : Tool(id) \in Messages /\ Tool(id).uses = <<>> /\ Tool(id).answers = id
    /\ PlainMessages \in SUBSET Messages /\ \A m \in PlainMessages : m.uses = <<>> /\ m.answers = <<>>
<1>1. <<>> \in CallIds /\ <<>> \in Seq(CallIds)
  BY DEF CallIds
<1>2. User \in Messages /\ User.uses = <<>> /\ User.answers = <<>>
  BY <1>1 DEF User, Messages
<1>3. \A u \in Seq(CallIds) : Assistant(u) \in Messages /\ Assistant(u).uses = u /\ Assistant(u).answers = <<>>
  BY <1>1 DEF Assistant, Messages
<1>4. \A id \in CallIds : Tool(id) \in Messages /\ Tool(id).uses = <<>> /\ Tool(id).answers = id
  BY <1>1 DEF Tool, Messages
<1> QED
  BY <1>1, <1>2, <1>3, <1>4 DEF PlainMessages

\* A turn's calls have as many ids, in their order.
LEMMA IdsType ==
    ASSUME NEW calls \in Seq(ToolCalls)
    PROVE  /\ Ids(calls) \in Seq(CallIds) /\ Len(Ids(calls)) = Len(calls)
           /\ DOMAIN Ids(calls) = 1..Len(calls)
           /\ \A i \in 1..Len(calls) : Ids(calls)[i] = calls[i].id /\ calls[i].id \in CallIds
<1>1. Len(calls) \in Nat /\ DOMAIN calls = 1..Len(calls)
  OBVIOUS
<1>2. \A i \in 1..Len(calls) : calls[i].id \in CallIds
  <2> TAKE i \in 1..Len(calls)
  <2>1. calls[i] \in ToolCalls
    BY <1>1
  <2> QED
    BY <2>1 DEF ToolCalls
<1>3. Ids(calls) \in [1..Len(calls) -> CallIds] /\ \A i \in 1..Len(calls) : Ids(calls)[i] = calls[i].id
  BY <1>1, <1>2 DEF Ids
<1> QED
  BY <1>1, <1>2, <1>3

\* Trimming a history keeps its kind of messages.
LEMMA TrimType ==
    ASSUME NEW S, NEW h \in Seq(S)
    PROVE  Trim(h) \in Seq(S)
<1>1. CASE Len(h) > MaxHistory
  <2>1. Len(h) - MaxHistory + 1 \in Int /\ Len(h) \in Int /\ \A i \in (Len(h) - MaxHistory + 1)..Len(h) : i \in 1..Len(h)
    BY <1>1, LoopBounds
  <2>2. \A i \in (Len(h) - MaxHistory + 1)..Len(h) : h[i] \in S
    BY <2>1
  <2> QED
    BY <1>1, <2>1, <2>2, SubSeqProperties DEF Trim
<1> QED
  BY <1>1 DEF Trim

\* Passing the user's messages on keeps their kind.
LEMMA UserMessagesType ==
    ASSUME NEW S, NEW h \in Seq(S)
    PROVE  UserMessages(h) \in Seq(S)
<1> DEFINE T == {k \in DOMAIN h : h[k].role = "user"}
           at == Ascending(T)
<1>1. Len(h) \in Nat /\ DOMAIN h = 1..Len(h)
  OBVIOUS
<1>2. IsFiniteSet(T) /\ T \subseteq Nat
  <2>1. IsFiniteSet(1..Len(h)) /\ T \in SUBSET (1..Len(h))
    BY <1>1, FS_Interval
  <2> QED
    BY <2>1, FS_Subset
<1>3. at \in Seq(T)
  <2> HIDE DEF T
  <2> QED
    BY <1>2, AscendingSeq
<1>4. \A k \in T : h[k] \in S
  BY <1>1
<1>5. UserMessages(h) = [i \in DOMAIN at |-> h[at[i]]]
  BY DEF UserMessages
<1> HIDE DEF T, at
<1>6. Len(at) \in Nat /\ DOMAIN at = 1..Len(at) /\ \A i \in 1..Len(at) : h[at[i]] \in S
  BY <1>3, <1>4
<1>7. UserMessages(h) \in [1..Len(at) -> S]
  BY <1>5, <1>6
<1> QED
  BY <1>6, <1>7

\* The conversion for a provider keeps the calls and the answers of each message.
LEMMA RequestType ==
    ASSUME NEW h \in Seq(Messages)
    PROVE  /\ Request(h) \in Seq(Messages) /\ Len(Request(h)) = Len(h)
           /\ \A k \in 1..Len(h) : Request(h)[k].uses = h[k].uses /\ Request(h)[k].answers = h[k].answers
<1>1. Len(h) \in Nat /\ DOMAIN h = 1..Len(h)
  OBVIOUS
<1>2. CASE conv.provider = "anthropic"
  <2> DEFINE m(k) == IF h[k].role = "tool" THEN [h[k] EXCEPT !.role = "user"] ELSE h[k]
  <2>1. \A k \in 1..Len(h) : m(k) \in Messages /\ m(k).uses = h[k].uses /\ m(k).answers = h[k].answers
    <3> TAKE k \in 1..Len(h)
    <3>1. h[k] \in Messages
      OBVIOUS
    <3> QED
      BY <3>1 DEF Messages
  <2>2. Request(h) = [k \in 1..Len(h) |-> m(k)]
    BY <1>1, <1>2 DEF Request, AnthropicMessages
  <2> HIDE DEF m
  <2>3. Request(h) \in [1..Len(h) -> Messages] /\ \A k \in 1..Len(h) : Request(h)[k] = m(k)
    BY <2>1, <2>2
  <2> QED
    BY <1>1, <2>1, <2>3
<1>3. CASE conv.provider # "anthropic"
  BY <1>1, <1>3 DEF Request, OpenAIMessages
<1> QED
  BY <1>2, <1>3

\* A conversation begins without calls, a run's with the body of the skill.
LEMMA BeginStep ==
    ASSUME TurnTypeOK, Begin
    PROVE  msgs' \in Seq(PlainMessages) /\ (conv.who # "chat" => msgs' \in Seq({User}))
<1> DEFINE f(n) == [k \in 1..n |-> IF (n - k) % 2 = 0 THEN User ELSE Assistant(<<>>)]
<1>1. PICK n \in (IF conv.who = "chat" THEN {1, MaxHistory + 1} ELSE {1}) : msgs' = Trim(f(n))
  BY DEF Begin
<1>2. n \in Nat
  BY LoopBounds
<1>3. f(n) \in Seq(PlainMessages)
  <2>1. f(n) \in [1..n -> PlainMessages]
    BY DEF PlainMessages
  <2> HIDE DEF f
  <2> QED
    BY <1>2, <2>1
<1>4. conv.who # "chat" => f(n) \in Seq({User})
  <2> SUFFICES ASSUME conv.who # "chat" PROVE f(n) \in Seq({User})
    OBVIOUS
  <2>1. n = 1
    BY <1>1
  <2>2. \A k \in 1..1 : (1 - k) % 2 = 0
    BY SMT
  <2>3. f(1) \in [1..1 -> {User}]
    BY <2>2
  <2>4. f(1) \in Seq({User})
    BY <2>3
  <2> QED
    BY <2>1, <2>4
<1> HIDE DEF f
<1> QED
  BY <1>1, <1>3, <1>4, TrimType

\* What the types say of the numbers and the sequences of the loop.
LEMMA TurnFacts ==
    ASSUME TurnTypeOK
    PROVE  /\ turn \in Nat /\ turn <= MaxTurns /\ call \in Nat /\ call >= 1
           /\ uses \in Seq(ToolCalls) /\ Len(uses) \in Nat /\ DOMAIN uses = 1..Len(uses)
           /\ msgs \in Seq(Messages) /\ Len(msgs) \in Nat /\ DOMAIN msgs = 1..Len(msgs)
<1>1. turn \in 0..MaxTurns /\ call \in Nat \ {0} /\ uses \in Seq(ToolCalls) /\ msgs \in Seq(Messages)
  BY DEF TurnTypeOK
<1>2. turn \in Nat /\ turn <= MaxTurns /\ call \in Nat /\ call >= 1
  BY <1>1, LoopBounds
<1> QED
  BY <1>1, <1>2

\* The results of a run's calls.
CallResults == [k \in DOMAIN uses |-> Tool(uses[k].id)]

\* A run's results answer the calls one by one.
LEMMA ResultsType ==
    ASSUME TurnTypeOK
    PROVE  /\ CallResults \in Seq(Messages) /\ Len(CallResults) = Len(uses)
           /\ \A k \in 1..Len(uses) : CallResults[k].uses = <<>> /\ CallResults[k].answers = Ids(uses)[k]
<1>1. uses \in Seq(ToolCalls) /\ Len(uses) \in Nat /\ DOMAIN uses = 1..Len(uses)
  BY TurnFacts
<1>2. \A k \in 1..Len(uses) : /\ Tool(uses[k].id) \in Messages /\ Tool(uses[k].id).uses = <<>>
                              /\ Tool(uses[k].id).answers = Ids(uses)[k]
  BY <1>1, IdsType, MessageTypes
<1>3. CallResults \in [1..Len(uses) -> Messages] /\ \A k \in 1..Len(uses) : CallResults[k] = Tool(uses[k].id)
  BY <1>1, <1>2 DEF CallResults
<1> QED
  BY <1>1, <1>2, <1>3

\* Every step keeps the types.
LEMMA TurnTypeStep ==
    ASSUME TurnTypeOK, AccInv, CallingInv, [TurnNext]_turnVars
    PROVE  TurnTypeOK'
<1>1. CASE Begin
  <2>1. msgs' \in Seq(Messages)
    BY <1>1, BeginStep, MessageTypes, SeqMonotonic
  <2> QED
    BY <1>1, <2>1 DEF Begin, TurnTypeOK
<1>2. CASE Refused
  BY <1>2 DEF Refused, Over, TurnTypeOK
<1>3. CASE Chat
  <2>1. sent' \in Seq(Messages)
    BY <1>3, UserMessagesType, TurnFacts DEF Chat
  <2>2. turn' \in 0..MaxTurns
    <3>1. turn' = 1
      BY <1>3 DEF Chat
    <3> QED
      BY <3>1, LoopBounds
  <2> QED
    BY <1>3, <2>1, <2>2 DEF Chat, Over, TurnTypeOK
<1>4. CASE ChatTurn
  <2>1. sent' \in Seq(Messages)
    BY <1>4, RequestType, TurnFacts DEF ChatTurn
  <2>2. turn' \in 0..MaxTurns
    <3>1. turn' = turn + 1 /\ turn < MaxTurns
      BY <1>4 DEF ChatTurn
    <3> QED
      BY <3>1, LoopBounds, TurnFacts
  <2>3. wire' \in Wires /\ acc' \in Accs
    BY <1>4, NoneTypes DEF ChatTurn
  <2> QED
    BY <1>4, <2>1, <2>2, <2>3 DEF ChatTurn, Wires, Accs, TurnTypeOK
<1>5. CASE OutOfTurns
  BY <1>5 DEF OutOfTurns, Over, TurnTypeOK
<1>6. CASE BlockStart \/ InputJSONDelta \/ BlockStop \/ ToolCallDelta
  <2>1. Progress
    BY <1>6, BlockStartStep, InputStep, BlockStopStep, ToolCallDeltaStep
  <2> QED
    BY <2>1 DEF Progress, Wires, Accs, streaming, TurnTypeOK
<1>7. CASE TurnEnds
  <2> DEFINE calls == FlushToolUse(acc).done
  <2>1. calls \in Seq(ToolCalls)
    BY WireTypes, FlushType DEF Accs
  <2>2. uses' = calls /\ call' = 1 /\ msgs' = Append(msgs, Assistant(Ids(calls)))
    BY <1>7 DEF TurnEnds
  <2>2a. /\ UNCHANGED <<conv, sent, turn, wire, acc>>
         /\ \/ pc' = "over" /\ end' = "answer"
            \/ pc' = "tools" /\ end' = end
    BY <1>7 DEF TurnEnds, Over
  <2> HIDE DEF calls
  <2>3. Assistant(Ids(calls)) \in Messages
    BY <2>1, IdsType, MessageTypes
  <2>4. msgs' \in Seq(Messages)
    BY <2>2, <2>3, TurnFacts, AppendProperties
  <2>5. call' \in Nat \ {0} /\ uses' \in Seq(ToolCalls)
    BY <2>1, <2>2
  <2> QED
    BY <2>2a, <2>4, <2>5 DEF TurnTypeOK
<1>8. CASE TurnFails
  BY <1>8 DEF TurnFails, Over, TurnTypeOK
<1>9. CASE ToolStart
  BY <1>9 DEF ToolStart, TurnTypeOK
<1>10. CASE ToolEnd
  <2>1. call \in 1..Len(uses)
    BY <1>10, TurnFacts DEF ToolEnd, CallingInv
  <2>2. Tool(uses[call].id) \in Messages
    <3>1. uses[call].id \in CallIds
      BY <2>1, TurnFacts, IdsType
    <3> QED
      BY <3>1, MessageTypes
  <2>3. msgs' = Append(msgs, Tool(uses[call].id))
    BY <1>10 DEF ToolEnd, Report
  <2>4. msgs' \in Seq(Messages)
    BY <2>2, <2>3, TurnFacts, AppendProperties
  <2>5. call' \in Nat \ {0}
    <3>1. call' = call + 1
      BY <1>10 DEF ToolEnd
    <3> QED
      BY <3>1, TurnFacts
  <2> QED
    BY <1>10, <2>4, <2>5 DEF ToolEnd, TurnTypeOK
<1>11. CASE ToolsDone
  BY <1>11 DEF ToolsDone, TurnTypeOK
<1>12. CASE DispatchAll
  <2>1. [k \in DOMAIN uses |-> Tool(uses[k].id)] \in Seq(Messages)
    BY ResultsType DEF CallResults
  <2>2. msgs' \in Seq(Messages)
    <3>1. \/ msgs' = msgs \o [k \in DOMAIN uses |-> Tool(uses[k].id)]
          \/ msgs' = msgs
      BY <1>12 DEF DispatchAll
    <3> QED
      BY <2>1, <3>1, TurnFacts, ConcatProperties
  <2> QED
    BY <1>12, <2>2 DEF DispatchAll, Over, TurnTypeOK
<1>13. CASE UNCHANGED turnVars
  BY <1>13 DEF turnVars, TurnTypeOK
<1> QED
  BY <1>1, <1>2, <1>3, <1>4, <1>5, <1>6, <1>7, <1>8, <1>9, <1>10, <1>11, <1>12, <1>13 DEF TurnNext

\* At the end of a stream nothing is left to put together.
LEMMA TurnEndsStep ==
    ASSUME TurnTypeOK, AccInv, TurnEnds
    PROVE  uses' = wire.calls /\ wire' = wire /\ acc' = acc /\ call' = 1
           /\ msgs' = Append(msgs, Assistant(Ids(wire.calls)))
           /\ (pc' = "over" \/ pc' = "tools") /\ UNCHANGED <<conv, sent>>
<1>1. acc.cur = NoCall /\ wire.calls = acc.done
  BY DEF TurnEnds, AccInv
<1>2. FlushToolUse(acc) = acc
  BY <1>1, WireTypes, FlushType DEF NoCall
<1> QED
  BY <1>1, <1>2 DEF TurnEnds, Over

\* Each step keeps what the provider put together equal to what came.
LEMMA UsesStep ==
    ASSUME TurnTypeOK, UsesInv, [TurnNext]_turnVars
    PROVE  UsesInv'
<1> USE DEF UsesInv, AccInv, CallsAsSent
<1>1. CASE Begin
  BY <1>1 DEF Begin
<1>2. CASE Refused
  BY <1>2 DEF Refused, Over
<1>3. CASE Chat
  BY <1>3 DEF Chat, Over
<1>4. CASE ChatTurn
  BY <1>4 DEF ChatTurn, NoWire, NoAcc
<1>5. CASE OutOfTurns
  BY <1>5 DEF OutOfTurns, Over
<1>6. CASE BlockStart \/ InputJSONDelta \/ BlockStop \/ ToolCallDelta
  <2>1. Progress
    BY <1>6, BlockStartStep, InputStep, BlockStopStep, ToolCallDeltaStep
  <2> QED
    BY <2>1 DEF Progress, streaming
<1>7. CASE TurnEnds
  BY <1>7, TurnEndsStep
<1>8. CASE TurnFails
  BY <1>8 DEF TurnFails, Over
<1>9. CASE ToolStart
  BY <1>9 DEF ToolStart
<1>10. CASE ToolEnd
  BY <1>10 DEF ToolEnd
<1>11. CASE ToolsDone
  BY <1>11 DEF ToolsDone
<1>12. CASE DispatchAll
  BY <1>12 DEF DispatchAll, Over
<1>13. CASE UNCHANGED turnVars
  BY <1>13 DEF turnVars
<1> QED
  BY <1>1, <1>2, <1>3, <1>4, <1>5, <1>6, <1>7, <1>8, <1>9, <1>10, <1>11, <1>12, <1>13 DEF TurnNext

\* Each step keeps a call that is being made one of the turn's.
LEMMA CallingStep ==
    ASSUME TurnTypeOK, CallingInv, [TurnNext]_turnVars
    PROVE  CallingInv'
BY DEF CallingInv, TurnTypeOK, TurnNext, Begin, Refused, Chat, ChatTurn, OutOfTurns, BlockStart, InputJSONDelta,
       BlockStop, ToolCallDelta, TurnEnds, TurnFails, ToolStart, ToolEnd, ToolsDone, DispatchAll, Over, streaming, turnVars

\* A longer history keeps what was answered and asked.
Continues(h, g) == Len(h) <= Len(g) /\ \A i \in 1..Len(h) : g[i] = h[i]

\* A call that is answered stays so in a longer history.
LEMMA ContinuedAnswers ==
    ASSUME NEW h \in Seq(Messages), NEW g \in Seq(Messages), Continues(h, g), NEW k \in 1..Len(h), NEW n,
           AnsweredUpTo(h, k, n)
    PROVE  AnsweredUpTo(g, k, n)
<1>1. Len(h) \in Nat /\ Len(g) \in Nat /\ g[k] = h[k] /\ h[k] \in Messages /\ Len(h) <= Len(g)
  BY DEF Continues
<1>2. h[k].uses \in Seq(CallIds)
  BY <1>1 DEF Messages
<1>3. ASSUME NEW i \in DOMAIN h[k].uses, i <= n PROVE k + i <= Len(g) /\ g[k + i].answers = h[k].uses[i]
  <2>1. i \in Nat /\ i >= 1
    BY <1>2
  <2>2. k + i <= Len(h) /\ h[k + i].answers = h[k].uses[i]
    BY <1>3 DEF AnsweredUpTo
  <2>3. k + i \in 1..Len(h) /\ k + i <= Len(g)
    BY <1>1, <2>1, <2>2
  <2> QED
    BY <2>2, <2>3 DEF Continues
<1> QED
  BY <1>1, <1>3 DEF AnsweredUpTo

\* A result that was asked for stays so in a longer history.
LEMMA ContinuedAsked ==
    ASSUME NEW h \in Seq(Messages), NEW g \in Seq(Messages), Continues(h, g), NEW k \in 1..Len(h), Asked(h, k)
    PROVE  Asked(g, k)
<1>1. Len(h) \in Nat /\ g[k] = h[k]
  BY DEF Continues
<1>2. ASSUME NEW i \in 1..(k - 1) PROVE g[k - i] = h[k - i]
  <2>1. k - i \in 1..Len(h)
    BY <1>1
  <2> QED
    BY <2>1 DEF Continues
<1> QED
  BY <1>1, <1>2 DEF Asked

\* A message appended makes a longer history.
LEMMA ContinuedAppend ==
    ASSUME NEW h \in Seq(Messages), NEW m \in Messages
    PROVE  /\ Append(h, m) \in Seq(Messages) /\ Continues(h, Append(h, m)) /\ Len(Append(h, m)) = Len(h) + 1
           /\ Append(h, m)[Len(h) + 1] = m
BY AppendProperties DEF Continues

\* Results appended together make a longer history.
LEMMA ContinuedConcat ==
    ASSUME NEW h \in Seq(Messages), NEW t \in Seq(Messages)
    PROVE  /\ h \o t \in Seq(Messages) /\ Continues(h, h \o t) /\ Len(h \o t) = Len(h) + Len(t)
           /\ \A i \in 1..Len(t) : (h \o t)[Len(h) + i] = t[i]
<1> DEFINE g == h \o t
<1>0. Len(h) \in Nat /\ Len(t) \in Nat
  OBVIOUS
<1>1. /\ g \in Seq(Messages) /\ Len(g) = Len(h) + Len(t)
      /\ \A i \in 1..(Len(h) + Len(t)) : g[i] = IF i <= Len(h) THEN h[i] ELSE t[i - Len(h)]
  BY ConcatProperties
<1> HIDE DEF g
<1>2. \A i \in 1..Len(h) : g[i] = h[i]
  BY <1>0, <1>1
<1>3. ASSUME NEW i \in 1..Len(t) PROVE g[Len(h) + i] = t[i]
  <2>1. Len(h) + i \in 1..(Len(h) + Len(t)) /\ ~(Len(h) + i <= Len(h)) /\ (Len(h) + i) - Len(h) = i
    BY <1>0
  <2> QED
    BY <1>1, <2>1
<1>4. Continues(h, g)
  BY <1>0, <1>1, <1>2 DEF Continues
<1> QED
  BY <1>1, <1>3, <1>4 DEF g

\* A history without calls is well formed.
LEMMA NothingAsked ==
    ASSUME NEW h \in Seq(PlainMessages)
    PROVE  AllAnswered(h) /\ AllAsked(h)
<1>1. \A k \in DOMAIN h : h[k].uses = <<>> /\ h[k].answers = <<>>
  <2> TAKE k \in DOMAIN h
  <2>1. h[k] \in PlainMessages
    OBVIOUS
  <2> QED
    BY <2>1, MessageTypes
<1> QED
  BY <1>1 DEF AllAnswered, AllAsked, AnsweredUpTo, Asked

\* Begin keeps the history well formed.
LEMMA BeginHistory == ASSUME TurnTypeOK, HistoryInv, Begin PROVE HistoryInv'
<1>1. msgs' \in Seq(PlainMessages) /\ (conv.who # "chat" => msgs' \in Seq({User}))
  BY BeginStep
<1>2. AllAnswered(msgs') /\ AllAsked(msgs')
  BY <1>1, NothingAsked
<1>3. HistoryWellFormed'
  BY DEF HistoryInv, HistoryWellFormed, Begin
<1> QED
  BY <1>1, <1>2, <1>3 DEF HistoryInv, Begin

\* A call without tools sends no calls and no answers.
LEMMA ChatHistory == ASSUME TurnTypeOK, HistoryInv, Chat PROVE HistoryInv'
<1>1. pc' = "over" /\ conv.who = "plain" /\ msgs \in Seq({User}) /\ UNCHANGED <<conv, msgs>> /\ sent' = UserMessages(msgs)
  BY DEF Chat, Over, HistoryInv
<1>2. sent' \in Seq({User})
  BY <1>1, UserMessagesType
<1>3. \A k \in DOMAIN sent' : sent'[k] = User
  BY <1>2
<1>4. HistoryWellFormed'
  BY <1>3, MessageTypes DEF HistoryWellFormed
<1> QED
  BY <1>1, <1>4 DEF HistoryInv

\* The request converted from a history whose calls are all answered is well
\* formed.
LEMMA RequestIsWellFormed ==
    ASSUME TurnTypeOK, AllAnswered(msgs), AllAsked(msgs), sent' = Request(msgs)
    PROVE  HistoryWellFormed'
<1>1. /\ sent' \in Seq(Messages) /\ Len(sent') = Len(msgs)
      /\ \A k \in 1..Len(msgs) : sent'[k].uses = msgs[k].uses /\ sent'[k].answers = msgs[k].answers
  BY TurnFacts, RequestType
<1>2. DOMAIN sent' = 1..Len(msgs) /\ DOMAIN msgs = 1..Len(msgs) /\ Len(msgs) \in Nat
  BY <1>1, TurnFacts
<1>3. ASSUME NEW k \in DOMAIN sent', NEW i \in DOMAIN sent'[k].uses
      PROVE  k + i <= Len(sent') /\ sent'[k + i].answers = sent'[k].uses[i]
  <2>1. k \in 1..Len(msgs) /\ i \in DOMAIN msgs[k].uses /\ msgs[k] \in Messages
    BY <1>1, <1>2, <1>3, TurnFacts
  <2>2. msgs[k].uses \in Seq(CallIds)
    BY <2>1 DEF Messages
  <2>3. i <= Len(msgs[k].uses) /\ i \in Nat /\ i >= 1
    BY <2>1, <2>2
  <2>4. k + i <= Len(msgs) /\ msgs[k + i].answers = msgs[k].uses[i]
    BY <1>2, <2>1, <2>3 DEF AllAnswered, AnsweredUpTo
  <2>5. k + i \in 1..Len(msgs)
    BY <1>2, <2>1, <2>3, <2>4
  <2> QED
    BY <1>1, <2>1, <2>4, <2>5
<1>4. ASSUME NEW k \in DOMAIN sent', sent'[k].answers # <<>>
      PROVE  \E i \in 1..(k - 1) : i \in DOMAIN sent'[k - i].uses
  <2>1. k \in 1..Len(msgs) /\ msgs[k].answers # <<>>
    BY <1>1, <1>2, <1>4
  <2>2. PICK i \in 1..(k - 1) : i \in DOMAIN msgs[k - i].uses
    BY <1>2, <2>1 DEF AllAsked, Asked
  <2>3. k - i \in 1..Len(msgs)
    BY <1>2, <2>1
  <2> QED
    BY <1>1, <2>2, <2>3
<1> QED
  BY <1>3, <1>4 DEF HistoryWellFormed

\* ChatTurn sends a well-formed request: all calls before it were answered.
LEMMA ChatTurnHistory == ASSUME TurnTypeOK, HistoryInv, ChatTurn PROVE HistoryInv'
<1>1. pc = "turn" /\ pc' = "stream" /\ conv.who # "plain" /\ UNCHANGED <<conv, msgs>> /\ sent' = Request(msgs)
  BY DEF ChatTurn
<1>2. AllAnswered(msgs) /\ AllAsked(msgs)
  BY <1>1 DEF HistoryInv
<1>3. HistoryWellFormed'
  BY <1>1, <1>2, RequestIsWellFormed
<1> QED
  BY <1>1, <1>2, <1>3 DEF HistoryInv

\* One more message after a history in which all was asked.
LEMMA AskedAfterAppend ==
    ASSUME NEW h \in Seq(Messages), NEW m \in Messages, AllAsked(h), Asked(Append(h, m), Len(h) + 1)
    PROVE  AllAsked(Append(h, m))
<1> DEFINE g == Append(h, m)
<1>1. g \in Seq(Messages) /\ Continues(h, g) /\ Len(g) = Len(h) + 1
  BY ContinuedAppend
<1>2. Len(h) \in Nat /\ DOMAIN h = 1..Len(h)
  OBVIOUS
<1>3. Asked(g, Len(h) + 1)
  OBVIOUS
<1> HIDE DEF g
<1>4. DOMAIN g = 1..(Len(h) + 1)
  BY <1>1
<1>5. \A k \in 1..Len(h) : Asked(g, k)
  BY <1>1, <1>2, ContinuedAsked DEF AllAsked
<1>6. \A k \in DOMAIN g : k \in 1..Len(h) \/ k = Len(h) + 1
  BY <1>2, <1>4
<1>7. AllAsked(g)
  BY <1>3, <1>5, <1>6 DEF AllAsked
<1> QED
  BY <1>7 DEF g

\* The assistant's message of a turn leaves its calls to be answered.
LEMMA TurnEndsHistory == ASSUME TurnTypeOK, AccInv, HistoryInv, TurnEnds PROVE HistoryInv'
<1> DEFINE m == Assistant(Ids(wire.calls))
           g == Append(msgs, m)
<1>1. /\ uses' = wire.calls /\ call' = 1 /\ msgs' = g
      /\ (pc' = "over" \/ pc' = "tools") /\ UNCHANGED <<conv, sent>>
  BY TurnEndsStep
<1>2. pc = "stream" /\ conv.who # "plain"
  BY DEF TurnEnds, HistoryInv
<1>3. HistoryWellFormed'
  BY <1>1 DEF HistoryInv, HistoryWellFormed
<1>4. AllAnswered(msgs) /\ AllAsked(msgs)
  BY <1>2 DEF HistoryInv
<1>5. wire.calls \in Seq(ToolCalls) /\ msgs \in Seq(Messages) /\ Len(msgs) \in Nat /\ DOMAIN msgs = 1..Len(msgs)
  BY WireTypes, TurnFacts
<1>6. m \in Messages /\ m.uses = Ids(wire.calls) /\ m.answers = <<>>
  BY <1>5, IdsType, MessageTypes
<1> HIDE DEF m
<1>7. /\ g \in Seq(Messages) /\ Continues(msgs, g) /\ Len(g) = Len(msgs) + 1 /\ g[Len(msgs) + 1] = m
  BY <1>5, <1>6, ContinuedAppend
<1>8. AllAsked(g)
  <2>1. Asked(g, Len(msgs) + 1)
    BY <1>6, <1>7 DEF Asked
  <2> QED
    BY <1>4, <1>5, <1>6, <2>1, AskedAfterAppend
<1> HIDE DEF g
<1>9. PendingInv'
  <2>1. Asking' = Len(msgs) + 1 /\ Asking' \in DOMAIN g
    <3>1. Len(msgs') = Len(msgs) + 1 /\ call' = 1
      BY <1>1, <1>7
    <3>2. Asking' = Len(msgs') - (call' - 1)
      BY DEF Asking
    <3> QED
      BY <1>5, <1>7, <3>1, <3>2
  <2>2. g[Asking'].uses = Ids(uses') /\ DOMAIN g[Asking'].uses = 1..Len(wire.calls)
    BY <1>1, <1>5, <1>6, <1>7, <2>1, IdsType
  <2>3. call' <= Len(uses') + 1
    BY <1>1, <1>5
  <2>4. AnsweredUpTo(g, Asking', call' - 1)
    BY <1>1, <2>2 DEF AnsweredUpTo
  <2>5. \A k \in DOMAIN g \ {Asking'} : AnsweredUpTo(g, k, Len(g[k].uses))
    <3> TAKE k \in DOMAIN g \ {Asking'}
    <3>1. k \in 1..Len(msgs)
      BY <1>5, <1>7, <2>1
    <3>2. g[k] = msgs[k] /\ AnsweredUpTo(msgs, k, Len(msgs[k].uses))
      BY <1>4, <1>5, <1>7, <3>1 DEF AllAnswered, Continues
    <3> QED
      BY <1>5, <1>7, <3>1, <3>2, ContinuedAnswers
  <2> QED
    BY <1>1, <2>1, <2>2, <2>3, <2>4, <2>5 DEF PendingInv
<1> QED
  BY <1>1, <1>2, <1>3, <1>8, <1>9 DEF HistoryInv

\* Chat: the result of one call, or its error, answers that call.
LEMMA ToolEndHistory == ASSUME TurnTypeOK, CallingInv, HistoryInv, ToolEnd PROVE HistoryInv'
<1> DEFINE m == Tool(uses[call].id)
           g == Append(msgs, m)
<1>1. /\ pc = "calling" /\ pc' = "tools" /\ call' = call + 1 /\ msgs' = g /\ UNCHANGED <<conv, sent, uses>>
  BY DEF ToolEnd, Report
<1>2. conv.who = "chat" /\ call <= Len(uses) /\ PendingInv /\ AllAsked(msgs)
  BY <1>1 DEF CallingInv, HistoryInv
<1>3. HistoryWellFormed'
  BY <1>1 DEF HistoryInv, HistoryWellFormed
<1>4. /\ uses \in Seq(ToolCalls) /\ Len(uses) \in Nat /\ call \in 1..Len(uses)
      /\ msgs \in Seq(Messages) /\ Len(msgs) \in Nat /\ DOMAIN msgs = 1..Len(msgs)
  BY <1>2, TurnFacts
<1>5. /\ DOMAIN Ids(uses) = 1..Len(uses) /\ Ids(uses)[call] = uses[call].id /\ uses[call].id \in CallIds
      /\ Len(Ids(uses)) = Len(uses)
  BY <1>4, IdsType
<1>6. m \in Messages /\ m.uses = <<>> /\ m.answers = Ids(uses)[call]
  BY <1>5, MessageTypes
<1> HIDE DEF m
<1>7. /\ g \in Seq(Messages) /\ Continues(msgs, g) /\ Len(g) = Len(msgs) + 1 /\ g[Len(msgs) + 1] = m
  BY <1>4, <1>6, ContinuedAppend
<1>8. /\ Asking = Len(msgs) - (call - 1) /\ Asking \in 1..Len(msgs) /\ msgs[Asking].uses = Ids(uses)
      /\ AnsweredUpTo(msgs, Asking, call - 1)
      /\ \A k \in DOMAIN msgs \ {Asking} : AnsweredUpTo(msgs, k, Len(msgs[k].uses))
  BY <1>2, <1>4 DEF PendingInv, Asking
<1>9. g[Asking] = msgs[Asking]
  BY <1>7, <1>8 DEF Continues
<1>10. AllAsked(g)
  <2>1. call \in 1..((Len(msgs) + 1) - 1) /\ (Len(msgs) + 1) - call = Asking
    BY <1>4, <1>8
  <2>2. call \in DOMAIN g[(Len(msgs) + 1) - call].uses
    BY <1>4, <1>5, <1>8, <1>9, <2>1
  <2>3. Asked(g, Len(msgs) + 1)
    BY <2>1, <2>2 DEF Asked
  <2> QED
    BY <1>2, <1>4, <1>6, <2>3, AskedAfterAppend
<1> HIDE DEF g
<1>11. PendingInv'
  <2>1. Asking' = Asking
    <3>1. Len(msgs') = Len(msgs) + 1 /\ call' = call + 1
      BY <1>1, <1>7
    <3>2. Asking' = Len(msgs') - (call' - 1)
      BY DEF Asking
    <3> QED
      BY <1>4, <1>8, <3>1, <3>2
  <2>2. Asking \in DOMAIN g /\ g[Asking].uses = Ids(uses)
    BY <1>4, <1>7, <1>8, <1>9
  <2>3. call' <= Len(uses) + 1
    BY <1>1, <1>4
  <2>4. AnsweredUpTo(g, Asking, call' - 1)
    <3>1. AnsweredUpTo(g, Asking, call - 1)
      BY <1>4, <1>7, <1>8, ContinuedAnswers
    <3>2. Asking + call = Len(msgs) + 1 /\ g[Asking + call].answers = Ids(uses)[call]
      BY <1>4, <1>6, <1>7, <1>8
    <3>3. ASSUME NEW i \in DOMAIN g[Asking].uses, i <= call' - 1
          PROVE  Asking + i <= Len(g) /\ g[Asking + i].answers = g[Asking].uses[i]
      <4>1. i \in 1..Len(uses) /\ (i <= call - 1 \/ i = call)
        BY <1>1, <1>4, <1>5, <2>2, <3>3
      <4>2. CASE i <= call - 1
        BY <3>1, <4>2 DEF AnsweredUpTo
      <4>3. CASE i = call
        BY <1>7, <1>4, <2>2, <3>2, <4>3
      <4> QED
        BY <4>1, <4>2, <4>3
    <3> QED
      BY <3>3 DEF AnsweredUpTo
  <2>5. \A k \in DOMAIN g \ {Asking} : AnsweredUpTo(g, k, Len(g[k].uses))
    <3> TAKE k \in DOMAIN g \ {Asking}
    <3>1. k \in 1..Len(msgs) \/ k = Len(msgs) + 1
      BY <1>4, <1>7
    <3>2. CASE k \in 1..Len(msgs)
      <4>1. g[k] = msgs[k] /\ AnsweredUpTo(msgs, k, Len(msgs[k].uses))
        BY <1>4, <1>7, <1>8, <3>2 DEF Continues
      <4> QED
        BY <1>4, <1>7, <3>2, <4>1, ContinuedAnswers
    <3>3. CASE k = Len(msgs) + 1
      BY <1>6, <1>7, <3>3 DEF AnsweredUpTo
    <3> QED
      BY <3>1, <3>2, <3>3
  <2> QED
    BY <1>1, <2>1, <2>2, <2>3, <2>4, <2>5 DEF PendingInv
<1> QED
  BY <1>1, <1>2, <1>3, <1>10, <1>11 DEF HistoryInv

\* Chat: after the last call all are answered.
LEMMA ToolsDoneHistory == ASSUME TurnTypeOK, HistoryInv, ToolsDone PROVE HistoryInv'
<1>1. pc = "tools" /\ pc' = "turn" /\ conv.who = "chat" /\ call > Len(uses) /\ UNCHANGED <<conv, sent, msgs, uses, call>>
  BY DEF ToolsDone
<1>2. PendingInv /\ AllAsked(msgs)
  BY <1>1 DEF HistoryInv
<1>3. HistoryWellFormed'
  BY <1>1 DEF HistoryInv, HistoryWellFormed
<1>4. uses \in Seq(ToolCalls) /\ Len(uses) \in Nat /\ call \in Nat
  BY TurnFacts
<1>5. call - 1 = Len(uses) /\ Len(Ids(uses)) = Len(uses)
  BY <1>1, <1>2, <1>4, IdsType DEF PendingInv
<1>6. AllAnswered(msgs)
  <2> SUFFICES ASSUME NEW k \in DOMAIN msgs PROVE AnsweredUpTo(msgs, k, Len(msgs[k].uses))
    BY DEF AllAnswered
  <2>1. CASE k = Asking
    BY <1>2, <1>5, <2>1 DEF PendingInv
  <2>2. CASE k # Asking
    BY <1>2, <2>2 DEF PendingInv
  <2> QED
    BY <2>1, <2>2
<1> QED
  BY <1>1, <1>2, <1>3, <1>6 DEF HistoryInv

\* A run: the results appended together answer all calls.
LEMMA DispatchAllHistory == ASSUME TurnTypeOK, HistoryInv, DispatchAll PROVE HistoryInv'
<1> DEFINE g == msgs \o CallResults
           n == Len(msgs)
<1>1. pc = "tools" /\ conv.who = "run" /\ UNCHANGED <<conv, sent, uses, call>>
  BY DEF DispatchAll
<1>2. call = 1 /\ PendingInv /\ AllAsked(msgs)
  BY <1>1 DEF HistoryInv
<1>3. HistoryWellFormed'
  BY <1>1 DEF HistoryInv, HistoryWellFormed
<1>4. CASE pc' = "over"
  BY <1>1, <1>3, <1>4 DEF HistoryInv
<1>5. CASE msgs' = g /\ pc' = "turn"
  <2>1. /\ uses \in Seq(ToolCalls) /\ Len(uses) \in Nat
        /\ msgs \in Seq(Messages) /\ n \in Nat /\ DOMAIN msgs = 1..n
    BY TurnFacts
  <2>2. /\ CallResults \in Seq(Messages) /\ Len(CallResults) = Len(uses)
        /\ \A k \in 1..Len(uses) : CallResults[k].uses = <<>> /\ CallResults[k].answers = Ids(uses)[k]
    BY ResultsType
  <2>3. DOMAIN Ids(uses) = 1..Len(uses)
    BY <2>1, IdsType
  <2>4. /\ g \in Seq(Messages) /\ Continues(msgs, g) /\ Len(g) = n + Len(uses)
        /\ \A i \in 1..Len(uses) : g[n + i] = CallResults[i]
    <3>1. Len(g) = Len(msgs) + Len(CallResults) /\ \A i \in 1..Len(CallResults) : g[n + i] = CallResults[i]
      BY <2>1, <2>2, ContinuedConcat
    <3>2. g \in Seq(Messages) /\ Continues(msgs, g)
      BY <2>1, <2>2, ContinuedConcat
    <3> QED
      BY <2>2, <3>1, <3>2
  <2>5. /\ Asking = n /\ n \in 1..n /\ msgs[n].uses = Ids(uses)
        /\ \A k \in DOMAIN msgs \ {n} : AnsweredUpTo(msgs, k, Len(msgs[k].uses))
    BY <1>2, <2>1 DEF PendingInv, Asking
  <2> HIDE DEF g, n
  <2>6. DOMAIN g = 1..(n + Len(uses)) /\ g[n] = msgs[n]
    BY <2>4, <2>5 DEF Continues, n
  <2>7. \A k \in 1..n : Asked(g, k)
    BY <1>2, <2>1, <2>4, ContinuedAsked DEF AllAsked, n
  <2>8. \A k \in 1..n : k # n => AnsweredUpTo(g, k, Len(g[k].uses))
    <3> TAKE k \in 1..n
    <3> HAVE k # n
    <3>1. g[k] = msgs[k] /\ AnsweredUpTo(msgs, k, Len(msgs[k].uses))
      BY <2>1, <2>4, <2>5 DEF Continues, n
    <3> QED
      BY <2>1, <2>4, <3>1, ContinuedAnswers DEF n
  <2>9. AnsweredUpTo(g, n, Len(g[n].uses))
    <3> SUFFICES ASSUME NEW i \in DOMAIN g[n].uses PROVE n + i <= Len(g) /\ g[n + i].answers = g[n].uses[i]
      BY DEF AnsweredUpTo
    <3>1. i \in 1..Len(uses) /\ g[n].uses = Ids(uses)
      BY <2>3, <2>5, <2>6
    <3> QED
      BY <2>1, <2>2, <2>4, <3>1
  <2>10. ASSUME NEW k \in 1..(n + Len(uses)), k \notin 1..n
         PROVE  Asked(g, k) /\ AnsweredUpTo(g, k, Len(g[k].uses))
    <3>1. k - n \in 1..Len(uses) /\ n + (k - n) = k /\ k - n \in 1..(k - 1) /\ k - (k - n) = n
      BY <2>1, <2>5, <2>10
    <3>2. g[k] = CallResults[k - n] /\ g[k].uses = <<>>
      BY <2>2, <2>4, <3>1
    <3>3. k - n \in DOMAIN g[k - (k - n)].uses
      BY <2>3, <2>5, <2>6, <3>1
    <3> QED
      BY <3>1, <3>2, <3>3 DEF Asked, AnsweredUpTo
  <2>11. AllAsked(g) /\ AllAnswered(g)
    BY <2>6, <2>7, <2>8, <2>9, <2>10 DEF AllAsked, AllAnswered
  <2> QED
    BY <1>1, <1>3, <1>5, <2>11 DEF HistoryInv
<1> QED
  BY <1>4, <1>5 DEF DispatchAll, Over, CallResults

\* Every step keeps the histories well formed.
LEMMA HistoryStep ==
    ASSUME TurnTypeOK, UsesInv, CallingInv, HistoryInv, [TurnNext]_turnVars
    PROVE  HistoryInv'
<1>0. AccInv
  BY DEF UsesInv
<1>1. CASE Begin
  BY <1>1, BeginHistory
<1>2. CASE Chat
  BY <1>2, ChatHistory
<1>3. CASE ChatTurn
  BY <1>3, ChatTurnHistory
<1>4. CASE TurnEnds
  BY <1>0, <1>4, TurnEndsHistory
<1>5. CASE ToolEnd
  BY <1>5, ToolEndHistory
<1>6. CASE ToolsDone
  BY <1>6, ToolsDoneHistory
<1>7. CASE DispatchAll
  BY <1>7, DispatchAllHistory
<1>8. CASE Refused \/ OutOfTurns \/ TurnFails
  BY <1>8 DEF Refused, OutOfTurns, TurnFails, Over, HistoryInv, HistoryWellFormed
<1>9. CASE ToolStart
  BY <1>9 DEF ToolStart, HistoryInv, HistoryWellFormed, PendingInv, Asking
<1>10. CASE BlockStart \/ InputJSONDelta \/ BlockStop \/ ToolCallDelta \/ UNCHANGED turnVars
  <2>1. UNCHANGED streaming
    BY <1>10 DEF BlockStart, InputJSONDelta, BlockStop, ToolCallDelta, turnVars, streaming
  <2> QED
    BY <2>1 DEF streaming, HistoryInv, HistoryWellFormed, PendingInv, Asking
<1> QED
  BY <1>1, <1>2, <1>3, <1>4, <1>5, <1>6, <1>7, <1>8, <1>9, <1>10 DEF TurnNext

TurnInv == TurnTypeOK /\ UsesInv /\ CallingInv /\ HistoryInv

\* The inductive invariant of a conversation holds at first.
LEMMA TurnInvInit == TurnInit => TurnInv
<1> SUFFICES ASSUME TurnInit PROVE TurnInv
  OBVIOUS
<1>1. TurnTypeOK
  <2>1. turn \in 0..MaxTurns /\ call \in Nat \ {0}
    BY LoopBounds DEF TurnInit
  <2> QED
    BY <2>1, NoneTypes DEF TurnInit, TurnTypeOK, Wires, Accs
<1>2. UsesInv /\ CallingInv
  BY DEF TurnInit, UsesInv, AccInv, CallsAsSent, CallingInv
<1>3. HistoryInv
  <2>1. msgs = <<>> /\ sent = <<>> /\ pc = "start"
    BY DEF TurnInit
  <2>2. AllAsked(msgs) /\ HistoryWellFormed /\ msgs \in Seq({User})
    BY <2>1 DEF AllAsked, HistoryWellFormed
  <2> QED
    BY <2>1, <2>2 DEF HistoryInv
<1> QED
  BY <1>1, <1>2, <1>3 DEF TurnInv

\* The inductive invariant of a conversation is kept by every step.
LEMMA TurnInvStep == TurnInv /\ [TurnNext]_turnVars => TurnInv'
BY TurnTypeStep, UsesStep, CallingStep, HistoryStep DEF TurnInv, UsesInv

\* The calls a provider returns (anthropic.go, openai.go) are the calls the model
\* made, in their order and each with its own pieces in their order, for every
\* number of calls and pieces and every interleaving of deltas by index.
THEOREM CallsArriveAsSent == TurnSpec => []CallsAsSent
<1>1. TurnInv => CallsAsSent
  BY DEF TurnInv, UsesInv
<1> QED
  BY <1>1, TurnInvInit, TurnInvStep, PTL DEF TurnSpec

\* The request of every turn, chat's and a run's, for either provider, answers
\* each call of each assistant message by one result right after it, in their
\* order, and has no other result: for every history, number of turns and calls,
\* whatever tools fail.
THEOREM HistoriesAreWellFormed == TurnSpec => []HistoryWellFormed
<1>1. TurnInv => HistoryWellFormed
  BY DEF TurnInv, HistoryInv
<1> QED
  BY <1>1, TurnInvInit, TurnInvStep, PTL DEF TurnSpec
=============================================================================
