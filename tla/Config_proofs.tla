----------------------------- MODULE Config_proofs -----------------------------
(* What the conversion of a limit to the pool's width does, for every width.  *)
EXTENDS Config, FiniteSetTheorems, TLAPS

\* 2^n counts the sets of n things, so that it is positive ...
LEMMA PowerOfTwo ==
  ASSUME NEW n \in Nat
  PROVE  2^n \in Nat \ {0}
<1>1. IsFiniteSet(1..n) /\ Cardinality(1..n) = n
  BY FS_Interval
<1>2. IsFiniteSet(SUBSET (1..n)) /\ Cardinality(SUBSET (1..n)) = 2^n
  BY <1>1, FS_SUBSET
<1>3. SUBSET (1..n) # {}
  OBVIOUS
<1> QED
  BY <1>2, <1>3, FS_CardinalityType, FS_EmptySet

\* ... and twice as many sets can be made of one thing more.
LEMMA TwiceTheHalf ==
  ASSUME NEW n \in Nat
  PROVE  2^(n+1) = 2^n + 2^n
<1> DEFINE Without == SUBSET (1..n)
           With == {T \cup {n+1} : T \in Without}
<1>1. IsFiniteSet(1..n) /\ Cardinality(1..n) = n /\ IsFiniteSet(1..n+1) /\ Cardinality(1..n+1) = n+1
  BY FS_Interval
<1>2. IsFiniteSet(Without) /\ Cardinality(Without) = 2^n /\ Cardinality(SUBSET (1..n+1)) = 2^(n+1)
  BY <1>1, FS_SUBSET
<1>3. IsFiniteSet(With) /\ Cardinality(With) = Cardinality(Without)
  <2>1. [T \in Without |-> T \cup {n+1}] \in Bijection(Without, With)
    <3> DEFINE f == [T \in Without |-> T \cup {n+1}]
    <3>1. f \in Surjection(Without, With)
      BY DEF Surjection
    <3>2. \A S, T \in Without : f[S] = f[T] => S = T
      <4> SUFFICES ASSUME NEW S \in Without, NEW T \in Without, f[S] = f[T] PROVE S = T
        OBVIOUS
      <4>1. S \cup {n+1} = T \cup {n+1}
        OBVIOUS
      <4>2. n+1 \notin S /\ n+1 \notin T
        OBVIOUS
      <4> QED
        BY <4>1, <4>2
    <3> QED
      BY <3>1, <3>2 DEF Bijection, Injection, IsInjective, Surjection
  <2> QED
    BY <1>2, <2>1, FS_Bijection DEF ExistsBijection
<1>4. SUBSET (1..n+1) = Without \cup With
  <2>1. ASSUME NEW S \in SUBSET (1..n+1) PROVE S \in Without \cup With
    <3>1. CASE n+1 \in S
      <4>1. S \ {n+1} \in Without
        OBVIOUS
      <4>2. S = (S \ {n+1}) \cup {n+1}
        BY <3>1
      <4> QED
        BY <4>1, <4>2
    <3>2. CASE n+1 \notin S
      <4>1. S \in Without
        BY <3>2
      <4> QED
        BY <4>1
    <3> QED
      BY <3>1, <3>2
  <2>2. ASSUME NEW S \in Without \cup With PROVE S \in SUBSET (1..n+1)
    OBVIOUS
  <2> QED
    BY <2>1, <2>2
<1>5. Without \cap With = {}
  OBVIOUS
<1>6. Cardinality(Without \cup With) = Cardinality(Without) + Cardinality(With)
  <2>1. Cardinality(Without \cup With) = Cardinality(Without) + Cardinality(With) - Cardinality(Without \cap With)
    BY <1>2, <1>3, FS_Union
  <2>2. Cardinality(Without \cap With) = 0
    BY <1>5, FS_EmptySet
  <2>3. Cardinality(Without) \in Nat /\ Cardinality(With) \in Nat
    BY <1>2, <1>3, FS_CardinalityType
  <2> HIDE DEF Without, With
  <2> QED
    BY <2>1, <2>2, <2>3
<1> QED
  BY <1>2, <1>3, <1>4, <1>6

-------------------------------------------------------------------------------
\* The two halves of the range of a width.
LEMMA Halves == 2^(IntWidth - 1) \in Nat \ {0} /\ 2^IntWidth = 2 * 2^(IntWidth - 1)
<1>1. IntWidth - 1 \in Nat /\ IntWidth = (IntWidth - 1) + 1
  BY ConfigAssumption
<1>2. 2^((IntWidth - 1) + 1) = 2^(IntWidth - 1) + 2^(IntWidth - 1)
  BY <1>1, TwiceTheHalf
<1> QED
  BY <1>1, <1>2, PowerOfTwo

\* Whatever the number, the conversion yields one of the width.
LEMMA int32Type ==
  ASSUME NEW x \in Int
  PROVE  int32(x) \in Int32
<1> DEFINE half == 2^(IntWidth - 1)
<1>1. half \in Nat \ {0} /\ 2^IntWidth = 2 * half
  BY Halves
<1>2. x % (2 * half) \in 0..(2 * half - 1)
  BY <1>1
<1> QED
  BY <1>1, <1>2 DEF int32, Int32

\* A positive limit that is cut is cut to less, never to more.
LEMMA int32CutsDown ==
  ASSUME NEW x \in Nat
  PROVE  int32(x) <= x
<1> DEFINE half == 2^(IntWidth - 1)
<1>1. half \in Nat \ {0} /\ 2^IntWidth = 2 * half
  BY Halves
<1>2. 2 * half \in Nat \ {0} /\ x % (2 * half) \in Nat
  BY <1>1
<1>3. x % (2 * half) <= x
  BY <1>2
<1> QED
  BY <1>1, <1>2, <1>3 DEF int32

\* A limit that fits is kept.
LEMMA int32KeepsWhatFits ==
  ASSUME NEW x \in Int32
  PROVE  int32(x) = x
<1> DEFINE half == 2^(IntWidth - 1)
<1>1. half \in Nat \ {0} /\ 2^IntWidth = 2 * half
  BY Halves
<1>2. x \in -half..(half - 1)
  BY DEF Int32
<1>3. CASE x >= 0
  <2>1. x % (2 * half) = x
    BY <1>1, <1>2, <1>3
  <2> QED
    BY <1>1, <1>2, <2>1 DEF int32
<1>4. CASE x < 0
  <2>1. x % (2 * half) = x + 2 * half
    BY <1>1, <1>2, <1>4
  <2> QED
    BY <1>1, <1>2, <1>4, <2>1 DEF int32
<1> QED
  BY <1>2, <1>3, <1>4

\* The pool that NewPool accepts: its limit is of its width, positive, and no
\* higher than the one the file sets.
LEMMA AcceptedPool ==
  ASSUME NEW s \in Settings, PoolError(s) = "nil"
  PROVE  LET limit == BuildPoolConfig(s).MaxConns
         IN  /\ limit \in Int32 /\ limit >= 1
             /\ s.max_open_conns > 0 => limit <= s.max_open_conns
<1> DEFINE limit == BuildPoolConfig(s).MaxConns
<1>1. s.max_open_conns \in Int
  BY DEF Settings
<1>2. limit = IF s.max_open_conns > 0 THEN int32(s.max_open_conns) ELSE DefaultMaxConns
  BY DEF PoolError, BuildPoolConfig
<1>3. DefaultMaxConns \in Int32
  BY ConfigAssumption, Halves DEF Int32
<1>4. limit \in Int32
  BY <1>1, <1>2, <1>3, int32Type
<1>5. limit >= 1
  <2>1. ~(limit < 1)
    BY <1>4 DEF PoolError, BuildPoolConfig
  <2>2. limit \in Int
    BY <1>4, Halves DEF Int32
  <2> HIDE DEF limit
  <2> QED
    BY <2>1, <2>2
<1>6. s.max_open_conns > 0 => limit <= s.max_open_conns
  BY <1>1, <1>2, int32CutsDown
<1> QED
  BY <1>4, <1>5, <1>6
===============================================================================
