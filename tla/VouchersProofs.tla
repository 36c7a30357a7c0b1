--------------------------- MODULE VouchersProofs --------------------------
(***************************************************************************)
(* Proofs about the receipts, reconciliations and vouchers of a customer.  *)
(***************************************************************************)
EXTENDS Vouchers, FiniteSetTheorems, SequenceTheorems, TLAPS

-----------------------------------------------------------------------------
(* Induction                                                               *)

LEMMA NatInduct ==
    ASSUME NEW K, 0 \in K, \A n \in Nat : n \in K => n + 1 \in K
    PROVE  Nat \subseteq K
<1> SUFFICES ASSUME ~(Nat \subseteq K) PROVE FALSE
  OBVIOUS
<1> DEFINE R == OpToRel(<, Nat)
           T == {n \in Nat : n \notin K}
<1>1. T \in SUBSET Nat /\ T # {}
  OBVIOUS
<1>2. PICK g \in T : \A y \in T : ~(<<y, g>> \in R)
  BY <1>1, WFMin, NatLessThanWellFounded
<1>3. g # 0 /\ g \in Nat
  OBVIOUS
<1>4. g - 1 \in Nat /\ g - 1 < g /\ g - 1 + 1 = g
  BY <1>3
<1>5. g - 1 \notin T
  BY <1>2, <1>3, <1>4 DEF OpToRel
<1> QED BY <1>4, <1>5

LEMMA UpTo ==
    ASSUME NEW N \in Nat, NEW K, 0 \in K, \A n \in 1..N : n - 1 \in K => n \in K
    PROVE  \A n \in 0..N : n \in K
<1> DEFINE L == {n \in Nat : n <= N => n \in K}
<1>1. 0 \in L
  OBVIOUS
<1>2. ASSUME NEW n \in Nat, n \in L PROVE n + 1 \in L
  <2> SUFFICES ASSUME n + 1 <= N PROVE n + 1 \in K
    OBVIOUS
  <2>1. n \in K /\ n + 1 \in 1..N /\ (n + 1) - 1 = n
    BY <1>2
  <2> QED BY <2>1
<1>3. Nat \subseteq L
  <2> HIDE DEF L
  <2> QED BY <1>1, <1>2, NatInduct
<1> QED BY <1>3

LEMMA SetInduct ==
    ASSUME NEW S, IsFiniteSet(S), NEW C, {} \in C,
           \A T \in SUBSET S : T \in C => \A x \in S \ T : T \cup {x} \in C
    PROVE  S \in C
<1> DEFINE K == {n \in Nat : \A T \in SUBSET S : Cardinality(T) = n => T \in C}
<1>1. 0 \in K
  <2> SUFFICES ASSUME NEW T \in SUBSET S, Cardinality(T) = 0 PROVE T \in C
    OBVIOUS
  <2>1. T = {}
    BY FS_Subset, FS_EmptySet
  <2> QED BY <2>1
<1>2. ASSUME NEW n \in Nat, n \in K PROVE n + 1 \in K
  <2> SUFFICES ASSUME NEW T \in SUBSET S, Cardinality(T) = n + 1 PROVE T \in C
    OBVIOUS
  <2>1. IsFiniteSet(T)
    BY FS_Subset
  <2>2. T # {}
    <3>1. n + 1 # 0
      OBVIOUS
    <3> QED BY <3>1, FS_EmptySet
  <2>3. PICK x \in T : TRUE
    BY <2>2
  <2>4. Cardinality(T \ {x}) = n
    <3>1. Cardinality(T \ {x}) = Cardinality(T) - 1
      BY <2>1, FS_RemoveElement
    <3> QED BY <3>1
  <2>5. T \ {x} \in C /\ T \ {x} \in SUBSET S
    BY <1>2, <2>4
  <2>6. (T \ {x}) \cup {x} = T /\ x \in S \ (T \ {x})
    OBVIOUS
  <2> QED BY <2>5, <2>6
<1>3. Nat \subseteq K
  <2> HIDE DEF K
  <2> QED BY <1>1, <1>2, NatInduct
<1>4. Cardinality(S) \in Nat
  BY FS_CardinalityType
<1> QED BY <1>3, <1>4

-----------------------------------------------------------------------------
(* Sequences                                                               *)

LEMMA SeqFacts ==
    ASSUME NEW Q, NEW s \in Seq(Q)
    PROVE  /\ DOMAIN s = 1..Len(s) /\ Len(s) \in Nat /\ IsFiniteSet(DOMAIN s)
           /\ \A k \in DOMAIN s : s[k] \in Q
<1>1. DOMAIN s = 1..Len(s) /\ Len(s) \in Nat /\ \A k \in DOMAIN s : s[k] \in Q
  OBVIOUS
<1> QED BY <1>1, FS_Interval

LEMMA AppendFacts ==
    ASSUME NEW Q, NEW s \in Seq(Q), NEW e \in Q
    PROVE  /\ Append(s, e) \in Seq(Q) /\ Len(Append(s, e)) = Len(s) + 1
           /\ DOMAIN Append(s, e) = 1..(Len(s) + 1)
           /\ \A k \in 1..Len(s) : Append(s, e)[k] = s[k]
           /\ Append(s, e)[Len(s) + 1] = e
OBVIOUS

LEMMA ConcatFacts ==
    ASSUME NEW Q, NEW s \in Seq(Q), NEW t \in Seq(Q)
    PROVE  /\ s \o t \in Seq(Q) /\ Len(s \o t) = Len(s) + Len(t)
           /\ DOMAIN (s \o t) = 1..(Len(s) + Len(t))
           /\ \A k \in 1..Len(s) : (s \o t)[k] = s[k]
           /\ \A k \in 1..Len(t) : (s \o t)[Len(s) + k] = t[k]
OBVIOUS

-----------------------------------------------------------------------------
(* Sums                                                                    *)

Pick(s) == CHOOSE x \in s : TRUE
SumsTo(f, D, g) == g = [s \in D |-> IF s = {} THEN 0 ELSE f[Pick(s)] + g[s \ {Pick(s)}]]

LEMMA SumUnfolds ==
    ASSUME NEW f, NEW S
    PROVE  SumOver(f, S) = (CHOOSE g : SumsTo(f, SUBSET S, g))[S]
BY DEF SumOver, MapThenSumSet, MapThenFoldSet, SumsTo, Pick

LEMMA SumsExist ==
    ASSUME NEW f, NEW S, IsFiniteSet(S)
    PROVE  \E g : SumsTo(f, SUBSET S, g)
<1> DEFINE Sub(n) == {s \in SUBSET S : Cardinality(s) <= n}
           K == {n \in Nat : \E g : SumsTo(f, Sub(n), g)}
<1>0. \A s \in SUBSET S : IsFiniteSet(s) /\ Cardinality(s) \in Nat
  BY FS_Subset, FS_CardinalityType
<1>1. 0 \in K
  <2> DEFINE g == [s \in Sub(0) |-> 0]
  <2>1. \A s \in Sub(0) : s = {}
    BY <1>0, FS_EmptySet
  <2>2. g = [s \in Sub(0) |-> IF s = {} THEN 0 ELSE f[Pick(s)] + g[s \ {Pick(s)}]]
    BY <2>1
  <2>3. SumsTo(f, Sub(0), g)
    BY <2>2 DEF SumsTo
  <2> QED BY <2>3
<1>2. ASSUME NEW n \in Nat, n \in K PROVE n + 1 \in K
  <2>1. PICK g : SumsTo(f, Sub(n), g)
    BY <1>2
  <2> DEFINE h == [s \in Sub(n + 1) |-> IF s = {} THEN 0 ELSE f[Pick(s)] + g[s \ {Pick(s)}]]
  <2>2. ASSUME NEW s \in Sub(n + 1), s # {}
        PROVE  s \ {Pick(s)} \in Sub(n)
    <3>1. Pick(s) \in s
      BY <2>2 DEF Pick
    <3>2. Cardinality(s \ {Pick(s)}) = Cardinality(s) - 1
      BY <1>0, <3>1, FS_RemoveElement
    <3>3. Cardinality(s) \in Nat /\ Cardinality(s) <= n + 1
      BY <1>0
    <3>4. Cardinality(s \ {Pick(s)}) <= n
      BY <3>2, <3>3
    <3> QED BY <3>4
  <2>3. ASSUME NEW s \in Sub(n) PROVE s \in Sub(n + 1) /\ h[s] = g[s]
    <3>1. Cardinality(s) \in Nat /\ Cardinality(s) <= n
      BY <1>0
    <3>2. s \in Sub(n + 1)
      BY <3>1
    <3>3. g[s] = IF s = {} THEN 0 ELSE f[Pick(s)] + g[s \ {Pick(s)}]
      BY <2>1 DEF SumsTo
    <3> QED BY <3>2, <3>3
  <2>4. h = [s \in Sub(n + 1) |-> IF s = {} THEN 0 ELSE f[Pick(s)] + h[s \ {Pick(s)}]]
    <3>1. \A s \in Sub(n + 1) : s # {} => h[s \ {Pick(s)}] = g[s \ {Pick(s)}]
      BY <2>2, <2>3
    <3> DEFINE D == Sub(n + 1)
               A(s) == IF s = {} THEN 0 ELSE f[Pick(s)] + g[s \ {Pick(s)}]
               B(s) == IF s = {} THEN 0 ELSE f[Pick(s)] + h[s \ {Pick(s)}]
    <3>2. \A s \in D : A(s) = B(s)
      BY <3>1
    <3>3. h = [s \in D |-> A(s)]
      OBVIOUS
    <3>4. [s \in D |-> A(s)] = [s \in D |-> B(s)]
      <4> HIDE DEF D, A, B
      <4> QED BY <3>2
    <3>5. h = [s \in D |-> B(s)]
      <4> HIDE DEF D, A, B, h
      <4> QED BY <3>3, <3>4
    <3> HIDE DEF h
    <3> QED BY <3>5
  <2>5. SumsTo(f, Sub(n + 1), h)
    BY <2>4 DEF SumsTo
  <2>6. \E x : SumsTo(f, Sub(n + 1), x)
    <3> HIDE DEF h, Sub
    <3> QED BY <2>5
  <2> QED BY <2>6
<1>3. Nat \subseteq K
  <2> HIDE DEF K
  <2> QED BY <1>1, <1>2, NatInduct
<1>4. Cardinality(S) \in Nat /\ Cardinality(S) \in K
  BY <1>3, FS_CardinalityType
<1>5. PICK g : SumsTo(f, Sub(Cardinality(S)), g)
  BY <1>4
<1>6. Sub(Cardinality(S)) = SUBSET S
  BY FS_Subset
<1> QED BY <1>5, <1>6

LEMMA SumsAgree ==
    ASSUME NEW f, NEW S, IsFiniteSet(S), NEW T \in SUBSET S, NEW g, NEW h,
           SumsTo(f, SUBSET S, g), SumsTo(f, SUBSET T, h)
    PROVE  g[T] = h[T]
<1> DEFINE K == {n \in Nat : \A s \in SUBSET T : Cardinality(s) = n => g[s] = h[s]}
<1>0. \A s \in SUBSET T : IsFiniteSet(s) /\ Cardinality(s) \in Nat
  BY FS_Subset, FS_CardinalityType
<1>1. ASSUME NEW s \in SUBSET T
      PROVE  /\ g[s] = IF s = {} THEN 0 ELSE f[Pick(s)] + g[s \ {Pick(s)}]
             /\ h[s] = IF s = {} THEN 0 ELSE f[Pick(s)] + h[s \ {Pick(s)}]
  BY DEF SumsTo
<1>2. 0 \in K
  BY <1>0, <1>1, FS_EmptySet
<1>3. ASSUME NEW n \in Nat, n \in K PROVE n + 1 \in K
  <2> SUFFICES ASSUME NEW s \in SUBSET T, Cardinality(s) = n + 1 PROVE g[s] = h[s]
    OBVIOUS
  <2>1. s # {}
    BY FS_EmptySet
  <2>2. Pick(s) \in s
    BY <2>1 DEF Pick
  <2>3. Cardinality(s \ {Pick(s)}) = n
    <3>1. Cardinality(s \ {Pick(s)}) = Cardinality(s) - 1
      BY <1>0, <2>2, FS_RemoveElement
    <3> QED BY <3>1
  <2>4. g[s \ {Pick(s)}] = h[s \ {Pick(s)}]
    BY <1>3, <2>3
  <2> QED BY <1>1, <2>1, <2>4
<1>4. Nat \subseteq K
  <2> HIDE DEF K
  <2> QED BY <1>2, <1>3, NatInduct
<1> QED BY <1>0, <1>4

LEMMA SumEmpty ==
    ASSUME NEW f
    PROVE  SumOver(f, {}) = 0
<1> DEFINE g == CHOOSE h : SumsTo(f, SUBSET {}, h)
<1>1. SumsTo(f, SUBSET {}, g)
  BY SumsExist, FS_EmptySet
<1>2. g[{}] = 0
  BY <1>1 DEF SumsTo
<1> QED BY <1>2, SumUnfolds

LEMMA SumStep ==
    ASSUME NEW f, NEW S, IsFiniteSet(S), S # {}
    PROVE  Pick(S) \in S /\ SumOver(f, S) = f[Pick(S)] + SumOver(f, S \ {Pick(S)})
<1> DEFINE T == S \ {Pick(S)}
           g == CHOOSE x : SumsTo(f, SUBSET S, x)
           h == CHOOSE x : SumsTo(f, SUBSET T, x)
<1>1. Pick(S) \in S
  BY DEF Pick
<1>2. IsFiniteSet(T)
  BY FS_RemoveElement
<1>3. SumsTo(f, SUBSET S, g)
  BY SumsExist
<1>4. SumsTo(f, SUBSET T, h)
  BY <1>2, SumsExist
<1>5. SumOver(f, S) = g[S] /\ SumOver(f, T) = h[T]
  BY SumUnfolds
<1>6. g[S] = f[Pick(S)] + g[T]
  BY <1>3 DEF SumsTo
<1>7. g[T] = h[T]
  <2> HIDE DEF g, h
  <2>1. T \in SUBSET S
    OBVIOUS
  <2> HIDE DEF T
  <2> QED BY <1>3, <1>4, <2>1, SumsAgree
<1> QED BY <1>1, <1>5, <1>6, <1>7

\* Whole numbers add up to a whole number, in any order.
Whole(f, S) == \A x \in S : f[x] \in Int

LEMMA SumWhole ==
    ASSUME NEW f, NEW S, IsFiniteSet(S), Whole(f, S)
    PROVE  SumOver(f, S) \in Int
<1> DEFINE K == {n \in Nat : \A T \in SUBSET S : Cardinality(T) = n => SumOver(f, T) \in Int}
<1>0. \A T \in SUBSET S : IsFiniteSet(T) /\ Cardinality(T) \in Nat
  BY FS_Subset, FS_CardinalityType
<1>1. 0 \in K
  BY <1>0, FS_EmptySet, SumEmpty
<1>2. ASSUME NEW n \in Nat, n \in K PROVE n + 1 \in K
  <2> SUFFICES ASSUME NEW T \in SUBSET S, Cardinality(T) = n + 1 PROVE SumOver(f, T) \in Int
    OBVIOUS
  <2>1. T # {} /\ IsFiniteSet(T)
    BY <1>0, FS_EmptySet
  <2>2. Pick(T) \in T /\ SumOver(f, T) = f[Pick(T)] + SumOver(f, T \ {Pick(T)})
    BY <2>1, SumStep
  <2>3. Cardinality(T \ {Pick(T)}) = n
    <3>1. Cardinality(T \ {Pick(T)}) = Cardinality(T) - 1
      BY <2>1, <2>2, FS_RemoveElement
    <3> QED BY <3>1
  <2>4. SumOver(f, T \ {Pick(T)}) \in Int /\ f[Pick(T)] \in Int
    BY <1>2, <2>2, <2>3 DEF Whole
  <2> QED BY <2>2, <2>4
<1>3. Nat \subseteq K
  <2> HIDE DEF K
  <2> QED BY <1>1, <1>2, NatInduct
<1> QED BY <1>0, <1>3

LEMMA SumRemove ==
    ASSUME NEW f, NEW S, IsFiniteSet(S), Whole(f, S), NEW x \in S
    PROVE  SumOver(f, S) = f[x] + SumOver(f, S \ {x})
<1> DEFINE P(T) == \A y \in T : SumOver(f, T) = f[y] + SumOver(f, T \ {y})
           K == {n \in Nat : \A T \in SUBSET S : Cardinality(T) = n => P(T)}
<1>0. \A T \in SUBSET S : IsFiniteSet(T) /\ Cardinality(T) \in Nat
  BY FS_Subset, FS_CardinalityType
<1>1. 0 \in K
  BY <1>0, FS_EmptySet
<1>2. ASSUME NEW n \in Nat, n \in K PROVE n + 1 \in K
  <2> SUFFICES ASSUME NEW T \in SUBSET S, Cardinality(T) = n + 1, NEW y \in T
               PROVE  SumOver(f, T) = f[y] + SumOver(f, T \ {y})
    OBVIOUS
  <2> DEFINE p == Pick(T)
  <2>1. T # {} /\ IsFiniteSet(T)
    BY <1>0
  <2>2. p \in T /\ SumOver(f, T) = f[p] + SumOver(f, T \ {p})
    BY <2>1, SumStep
  <2> HIDE DEF p
  <2>3. CASE y = p
    BY <2>2, <2>3
  <2>4. CASE y # p
    <3>1. \A z \in T : Cardinality(T \ {z}) = n
      <4>1. \A z \in T : Cardinality(T \ {z}) = Cardinality(T) - 1
        BY <2>1, FS_RemoveElement
      <4> QED BY <4>1
    <3>2. P(T \ {p}) /\ P(T \ {y})
      BY <1>2, <2>2, <3>1
    <3>3. y \in T \ {p} /\ p \in T \ {y} /\ (T \ {p}) \ {y} = (T \ {y}) \ {p}
      BY <2>2, <2>4
    <3>4. /\ SumOver(f, T \ {p}) = f[y] + SumOver(f, (T \ {p}) \ {y})
          /\ SumOver(f, T \ {y}) = f[p] + SumOver(f, (T \ {p}) \ {y})
      BY <3>2, <3>3
    <3>5. f[y] \in Int /\ f[p] \in Int /\ SumOver(f, (T \ {p}) \ {y}) \in Int
      <4>1. IsFiniteSet((T \ {p}) \ {y}) /\ Whole(f, (T \ {p}) \ {y})
        BY <1>0 DEF Whole
      <4> QED BY <4>1, <2>2, SumWhole DEF Whole
    <3> QED BY <2>2, <3>4, <3>5
  <2> QED BY <2>3, <2>4
<1>3. Nat \subseteq K
  <2> HIDE DEF K
  <2> QED BY <1>1, <1>2, NatInduct
<1>4. P(S)
  BY <1>0, <1>3
<1> QED BY <1>4

LEMMA SumAdd ==
    ASSUME NEW f, NEW S, IsFiniteSet(S), NEW x, x \notin S, Whole(f, S), f[x] \in Int
    PROVE  SumOver(f, S \cup {x}) = f[x] + SumOver(f, S)
<1>1. IsFiniteSet(S \cup {x})
  BY FS_AddElement
<1>2. (S \cup {x}) \ {x} = S /\ x \in S \cup {x} /\ Whole(f, S \cup {x})
  BY DEF Whole
<1> QED BY <1>1, <1>2, SumRemove

LEMMA SumSame ==
    ASSUME NEW f, NEW g, NEW S, IsFiniteSet(S), Whole(f, S), \A x \in S : f[x] = g[x]
    PROVE  SumOver(f, S) = SumOver(g, S)
<1> DEFINE C == {T \in SUBSET S : SumOver(f, T) = SumOver(g, T)}
<1>1. {} \in C
  BY SumEmpty
<1>2. ASSUME NEW T \in SUBSET S, T \in C, NEW x \in S \ T PROVE T \cup {x} \in C
  <2>1. IsFiniteSet(T) /\ Whole(f, T) /\ Whole(g, T) /\ f[x] = g[x] /\ f[x] \in Int
    BY FS_Subset DEF Whole
  <2>2. /\ SumOver(f, T \cup {x}) = f[x] + SumOver(f, T)
        /\ SumOver(g, T \cup {x}) = g[x] + SumOver(g, T)
    BY <2>1, SumAdd
  <2> QED BY <1>2, <2>1, <2>2
<1>3. S \in C
  <2> HIDE DEF C
  <2> QED BY <1>1, <1>2, SetInduct
<1> QED BY <1>3

LEMMA SumUnion ==
    ASSUME NEW f, NEW S, NEW T, IsFiniteSet(S), IsFiniteSet(T), S \cap T = {},
           Whole(f, S), Whole(f, T)
    PROVE  SumOver(f, S \cup T) = SumOver(f, S) + SumOver(f, T)
<1> DEFINE C == {U \in SUBSET T : SumOver(f, S \cup U) = SumOver(f, S) + SumOver(f, U)}
<1>1. {} \in C
  <2>1. SumOver(f, S) \in Int
    BY SumWhole
  <2>2. S \cup {} = S
    OBVIOUS
  <2> QED BY <2>1, <2>2, SumEmpty
<1>2. ASSUME NEW U \in SUBSET T, U \in C, NEW x \in T \ U PROVE U \cup {x} \in C
  <2>1. IsFiniteSet(U) /\ Whole(f, U) /\ f[x] \in Int
    BY FS_Subset DEF Whole
  <2>2. IsFiniteSet(S \cup U) /\ Whole(f, S \cup U) /\ x \notin S \cup U
    BY <2>1, FS_Union DEF Whole
  <2>3. S \cup (U \cup {x}) = (S \cup U) \cup {x}
    OBVIOUS
  <2>4. /\ SumOver(f, U \cup {x}) = f[x] + SumOver(f, U)
        /\ SumOver(f, S \cup (U \cup {x})) = f[x] + SumOver(f, S \cup U)
    <3>1. SumOver(f, U \cup {x}) = f[x] + SumOver(f, U)
      BY <2>1, SumAdd
    <3>2. SumOver(f, (S \cup U) \cup {x}) = f[x] + SumOver(f, S \cup U)
      BY <2>1, <2>2, SumAdd
    <3> QED BY <2>3, <3>1, <3>2
  <2>5. SumOver(f, S) \in Int /\ SumOver(f, U) \in Int
    BY <2>1, SumWhole
  <2> QED BY <1>2, <2>1, <2>4, <2>5
<1>3. T \in C
  <2> HIDE DEF C
  <2> QED BY <1>1, <1>2, SetInduct
<1> QED BY <1>3

\* A sum by the values of h.
LEMMA SumParts ==
    ASSUME NEW f, NEW S, IsFiniteSet(S), Whole(f, S), NEW J, IsFiniteSet(J), NEW h,
           \A x \in S : h[x] \in J
    PROVE  /\ SumOver(f, S) = SumOver([j \in J |-> SumOver(f, {x \in S : h[x] = j})], J)
           /\ Whole([j \in J |-> SumOver(f, {x \in S : h[x] = j})], J)
<1> DEFINE F == [j \in J |-> SumOver(f, {x \in S : h[x] = j})]
           On(L) == {x \in S : h[x] \in L}
           C == {L \in SUBSET J : SumOver(f, On(L)) = SumOver(F, L)}
<1>0. \A T \in SUBSET S : IsFiniteSet(T) /\ Whole(f, T) /\ SumOver(f, T) \in Int
  <2>1. \A T \in SUBSET S : IsFiniteSet(T) /\ Whole(f, T)
    BY FS_Subset DEF Whole
  <2> QED BY <2>1, SumWhole
<1>1. Whole(F, J)
  BY <1>0 DEF Whole
<1>2. {} \in C
  <2>1. On({}) = {}
    OBVIOUS
  <2> QED BY <2>1, SumEmpty
<1>3. ASSUME NEW L \in SUBSET J, L \in C, NEW j \in J \ L PROVE L \cup {j} \in C
  <2> DEFINE A == {x \in S : h[x] = j}
  <2>1. On(L \cup {j}) = On(L) \cup A /\ On(L) \cap A = {} /\ A \in SUBSET S /\ On(L) \in SUBSET S
    OBVIOUS
  <2>2. SumOver(f, On(L \cup {j})) = SumOver(f, On(L)) + SumOver(f, A)
    <3> HIDE DEF On, A
    <3> QED BY <1>0, <2>1, SumUnion
  <2>3. SumOver(F, L \cup {j}) = F[j] + SumOver(F, L)
    <3>1. IsFiniteSet(L) /\ Whole(F, L) /\ F[j] \in Int
      BY <1>1, FS_Subset DEF Whole
    <3> HIDE DEF F
    <3> QED BY <3>1, SumAdd
  <2>4. SumOver(f, On(L)) \in Int /\ SumOver(f, A) \in Int /\ F[j] = SumOver(f, A)
    BY <1>0, <2>1
  <2>5. SumOver(f, On(L)) = SumOver(F, L)
    BY <1>3
  <2> HIDE DEF F, On, A
  <2>6. SumOver(f, On(L \cup {j})) = SumOver(F, L \cup {j})
    BY <2>2, <2>3, <2>4, <2>5
  <2> QED BY <2>6
<1>4. J \in C
  <2> HIDE DEF C
  <2> QED BY <1>2, <1>3, SetInduct
<1>5. On(J) = S
  OBVIOUS
<1> QED BY <1>1, <1>4, <1>5

LEMMA SumZero ==
    ASSUME NEW f, NEW S, IsFiniteSet(S), \A x \in S : f[x] = 0
    PROVE  SumOver(f, S) = 0
<1> DEFINE C == {T \in SUBSET S : SumOver(f, T) = 0}
<1>1. {} \in C
  BY SumEmpty
<1>2. ASSUME NEW T \in SUBSET S, T \in C, NEW x \in S \ T PROVE T \cup {x} \in C
  <2>1. IsFiniteSet(T) /\ Whole(f, T) /\ f[x] \in Int
    BY FS_Subset DEF Whole
  <2>2. SumOver(f, T \cup {x}) = f[x] + SumOver(f, T)
    BY <2>1, SumAdd
  <2> QED BY <1>2, <2>2
<1>3. S \in C
  <2> HIDE DEF C
  <2> QED BY <1>1, <1>2, SetInduct
<1> QED BY <1>3

\* The sum of the elements m + 1 .. m + k of a function.
LEMMA SumShift ==
    ASSUME NEW f, NEW g, NEW m \in Nat, NEW k \in Nat, Whole(f, 1..k),
           \A i \in 1..k : g[m + i] = f[i]
    PROVE  SumOver(g, (m + 1)..(m + k)) = SumOver(f, 1..k)
<1> DEFINE K == {n \in Nat : n <= k => SumOver(g, (m + 1)..(m + n)) = SumOver(f, 1..n)}
<1>1. 0 \in K
  <2>1. (m + 1)..(m + 0) = {} /\ 1..0 = {}
    OBVIOUS
  <2> QED BY <2>1, SumEmpty
<1>2. ASSUME NEW n \in 1..k, n - 1 \in K PROVE n \in K
  <2>1. /\ 1..n = (1..(n - 1)) \cup {n} /\ n \notin 1..(n - 1)
        /\ (m + 1)..(m + n) = ((m + 1)..(m + (n - 1))) \cup {m + n}
        /\ m + n \notin (m + 1)..(m + (n - 1))
    OBVIOUS
  <2>2. IsFiniteSet(1..(n - 1)) /\ IsFiniteSet((m + 1)..(m + (n - 1)))
    BY FS_Interval
  <2>3. Whole(f, 1..(n - 1)) /\ f[n] \in Int /\ g[m + n] = f[n]
    BY DEF Whole
  <2>4. Whole(g, (m + 1)..(m + (n - 1)))
    <3> SUFFICES ASSUME NEW x \in (m + 1)..(m + (n - 1)) PROVE g[x] \in Int
      BY DEF Whole
    <3>1. x - m \in 1..k /\ m + (x - m) = x
      OBVIOUS
    <3> QED BY <3>1 DEF Whole
  <2> DEFINE A == 1..(n - 1)
             B == (m + 1)..(m + (n - 1))
  <2>5. SumOver(f, 1..n) = f[n] + SumOver(f, A)
    <3>1. /\ 1..n = A \cup {n} /\ n \notin A /\ IsFiniteSet(A) /\ Whole(f, A) /\ f[n] \in Int
      BY <2>1, <2>2, <2>3
    <3> HIDE DEF A
    <3>2. SumOver(f, A \cup {n}) = f[n] + SumOver(f, A)
      BY <3>1, SumAdd
    <3> QED BY <3>1, <3>2
  <2>6. SumOver(g, (m + 1)..(m + n)) = g[m + n] + SumOver(g, B)
    <3>1. /\ (m + 1)..(m + n) = B \cup {m + n} /\ m + n \notin B /\ IsFiniteSet(B)
          /\ Whole(g, B) /\ g[m + n] \in Int
      BY <2>1, <2>2, <2>3, <2>4
    <3> HIDE DEF B
    <3>2. SumOver(g, B \cup {m + n}) = g[m + n] + SumOver(g, B)
      BY <3>1, SumAdd
    <3> QED BY <3>1, <3>2
  <2>7. SumOver(g, (m + 1)..(m + (n - 1))) = SumOver(f, 1..(n - 1))
    BY <1>2
  <2> QED BY <2>3, <2>5, <2>6, <2>7
<1>3. \A n \in 0..k : n \in K
  <2> HIDE DEF K
  <2> QED BY <1>1, <1>2, UpTo
<1>4. k \in K
  BY <1>3
<1> QED BY <1>4

\* What is at least 0 adds up to at least 0.
LEMMA SumPositive ==
    ASSUME NEW f, NEW S, IsFiniteSet(S), \A x \in S : f[x] \in Nat
    PROVE  SumOver(f, S) \in Nat
<1> DEFINE C == {T \in SUBSET S : SumOver(f, T) \in Nat}
<1>1. {} \in C
  BY SumEmpty
<1>2. ASSUME NEW T \in SUBSET S, T \in C, NEW x \in S \ T PROVE T \cup {x} \in C
  <2>1. IsFiniteSet(T) /\ Whole(f, T) /\ f[x] \in Nat
    BY FS_Subset DEF Whole
  <2>2. SumOver(f, T \cup {x}) = f[x] + SumOver(f, T)
    BY <2>1, SumAdd
  <2> QED BY <1>2, <2>1, <2>2
<1>3. S \in C
  <2> HIDE DEF C
  <2> QED BY <1>1, <1>2, SetInduct
<1> QED BY <1>3

-----------------------------------------------------------------------------
(* Move lines and their reconciliation                                     *)

Documents == Receipts \cup {"invoice", "voucher"}
MoveLine == [debit : Nat, credit : Nat, rec : Nat, full : BOOLEAN, of : Documents,
             type : {"receivable", "payable"}, partner : Partners, due : Int]
Book == Seq(MoveLine)

\* Two states of a line that differ at most in its reconciliation.
Alike(x, y) ==
    /\ x.debit = y.debit /\ x.credit = y.credit /\ x.of = y.of
    /\ x.type = y.type /\ x.partner = y.partner /\ x.due = y.due

LEMMA BookLines ==
    ASSUME NEW book \in Book
    PROVE  /\ DOMAIN book = 1..Len(book) /\ Len(book) \in Nat
           /\ \A m \in DOMAIN book : book[m] \in MoveLine
           /\ IsFiniteSet(DOMAIN book) /\ \A S \in SUBSET DOMAIN book : IsFiniteSet(S)
<1> DEFINE M == MoveLine
<1>1. book \in Seq(M)
  BY DEF Book
<1> HIDE DEF M
<1>2. DOMAIN book = 1..Len(book) /\ Len(book) \in Nat /\ \A m \in DOMAIN book : book[m] \in M
  BY <1>1
<1>3. IsFiniteSet(DOMAIN book)
  BY <1>2, FS_Interval
<1> QED BY <1>2, <1>3, FS_Subset DEF M

LEMMA TotalWhole ==
    ASSUME NEW book \in Book, NEW S \in SUBSET DOMAIN book
    PROVE  /\ IsFiniteSet(S) /\ Whole(Signed(book), S) /\ Total(book, S) \in Int
           /\ \A m \in DOMAIN book : Signed(book)[m] = book[m].debit - book[m].credit
<1>1. IsFiniteSet(S)
  BY BookLines
<1>2. \A m \in DOMAIN book : book[m].debit \in Nat /\ book[m].credit \in Nat
  BY BookLines DEF MoveLine
<1>3. \A m \in DOMAIN book : Signed(book)[m] = book[m].debit - book[m].credit
  BY DEF Signed
<1>4. Whole(Signed(book), S)
  BY <1>2, <1>3 DEF Whole
<1> QED BY <1>1, <1>3, <1>4, SumWhole DEF Total

\* The number of a new reconciliation
NewRec(book) == 1 + Max({0} \cup {book[m].rec : m \in DOMAIN book})

LEMMA NewRecIsNew ==
    ASSUME NEW book \in Book
    PROVE  /\ NewRec(book) \in Nat /\ NewRec(book) # 0
           /\ \A m \in DOMAIN book : book[m].rec < NewRec(book)
<1> DEFINE R(n) == {0} \cup {book[m].rec : m \in 1..n}
           HasMax(T) == \E x \in T : \A y \in T : x >= y
           K == {n \in Nat : n <= Len(book) => HasMax(R(n))}
<1>0. /\ DOMAIN book = 1..Len(book) /\ Len(book) \in Nat
      /\ \A m \in DOMAIN book : book[m].rec \in Nat
  BY BookLines DEF MoveLine
<1>1. 0 \in K
  OBVIOUS
<1>2. ASSUME NEW n \in 1..Len(book), n - 1 \in K PROVE n \in K
  <2>1. PICK x \in R(n - 1) : \A y \in R(n - 1) : x >= y
    BY <1>0, <1>2
  <2>2. R(n) = R(n - 1) \cup {book[n].rec}
    <3>1. 1..n = (1..(n - 1)) \cup {n}
      BY <1>0
    <3> QED BY <3>1
  <2>3. \A y \in R(n) : y \in Nat
    BY <1>0
  <2>4. HasMax(R(n))
    <3>1. CASE x >= book[n].rec
      BY <2>1, <2>2, <3>1
    <3>2. CASE ~(x >= book[n].rec)
      <4>1. book[n].rec \in R(n) /\ x \in R(n)
        BY <2>2
      <4>2. ASSUME NEW y \in R(n) PROVE book[n].rec >= y
        <5>1. y \in Nat /\ x \in Nat /\ book[n].rec \in Nat
          BY <2>3, <4>1
        <5>2. y = book[n].rec \/ y \in R(n - 1)
          BY <2>2
        <5>3. y \in R(n - 1) => x >= y
          BY <2>1
        <5> HIDE DEF R
        <5> QED BY <3>2, <5>1, <5>2, <5>3
      <4> QED BY <4>1, <4>2
    <3> QED BY <3>1, <3>2
  <2> QED BY <2>4
<1>3. \A n \in 0..Len(book) : n \in K
  <2> HIDE DEF K
  <2> QED BY <1>0, <1>1, <1>2, UpTo
<1>4. HasMax(R(Len(book)))
  <2>1. Len(book) \in 0..Len(book) /\ Len(book) <= Len(book)
    BY <1>0
  <2>2. Len(book) \in K
    <3> HIDE DEF K
    <3> QED BY <1>3, <2>1
  <2> HIDE DEF R, HasMax
  <2> QED BY <2>1, <2>2
<1> DEFINE T == R(Len(book))
<1>5. T = {0} \cup {book[m].rec : m \in DOMAIN book} /\ T \subseteq Nat
  BY <1>0
<1>6. NewRec(book) = 1 + (CHOOSE x \in T : \A y \in T : x >= y)
  BY <1>5 DEF NewRec, Max
<1>7. PICK z \in T : NewRec(book) = 1 + z /\ \A y \in T : z >= y
  <2> HIDE DEF T
  <2> QED BY <1>4, <1>6 DEF T
<1>8. z \in Nat /\ \A m \in DOMAIN book : book[m].rec \in T /\ book[m].rec \in Nat
  BY <1>0, <1>5
<1> HIDE DEF T
<1> QED BY <1>7, <1>8

\* The lines of a pair and those reconciled with them
Members(book, p) == Group(book, p[1]) \cup Group(book, p[2])

LEMMA PairFacts ==
    ASSUME NEW book \in Book, NEW p \in (DOMAIN book) \X (DOMAIN book)
    PROVE  LET c == Pair(book, p)
           IN /\ c \in Book /\ DOMAIN c = DOMAIN book /\ Len(c) = Len(book)
              /\ Members(book, p) \subseteq DOMAIN book
              /\ \A m \in DOMAIN book :
                    /\ Alike(book[m], c[m])
                    /\ m \in Members(book, p) =>
                          /\ c[m].rec = NewRec(book)
                          /\ c[m].full = (Total(book, Members(book, p)) = 0)
                    /\ m \notin Members(book, p) => c[m] = book[m]
<1> DEFINE c == Pair(book, p)
           M == Members(book, p)
<1>1. c = [m \in DOMAIN book |->
             IF m \in M
             THEN [book[m] EXCEPT !.rec = NewRec(book), !.full = (Total(book, M) = 0)]
             ELSE book[m]]
  BY DEF Pair, Members, NewRec
<1>2. M \subseteq DOMAIN book
  BY DEF Members, Group
<1> HIDE DEF c, M
<1>3. ASSUME NEW m \in DOMAIN book
      PROVE  /\ c[m] \in MoveLine /\ Alike(book[m], c[m])
             /\ m \in M => c[m].rec = NewRec(book) /\ c[m].full = (Total(book, M) = 0)
             /\ m \notin M => c[m] = book[m]
  <2>1. book[m] \in MoveLine /\ NewRec(book) \in Nat
    BY BookLines, NewRecIsNew
  <2>2. CASE m \in M
    <3> DEFINE z == Total(book, M) = 0
    <3>1. z \in BOOLEAN
      OBVIOUS
    <3>2. c[m] = [book[m] EXCEPT !.rec = NewRec(book), !.full = z]
      BY <1>1, <2>2
    <3> HIDE DEF z
    <3>3. /\ c[m] \in MoveLine /\ Alike(book[m], c[m])
          /\ c[m].rec = NewRec(book) /\ c[m].full = z
      BY <2>1, <3>1, <3>2 DEF MoveLine, Alike
    <3> QED BY <2>2, <3>3 DEF z
  <2>3. CASE m \notin M
    BY <1>1, <2>1, <2>3 DEF Alike
  <2> QED BY <2>2, <2>3
<1>4. DOMAIN c = DOMAIN book
  BY <1>1
<1>5. DOMAIN book = 1..Len(book) /\ Len(book) \in Nat
  BY BookLines
<1>6. c \in Book /\ Len(c) = Len(book)
  <2> DEFINE L == MoveLine
  <2>1. c = [m \in 1..Len(book) |-> c[m]] /\ \A m \in 1..Len(book) : c[m] \in L
    BY <1>1, <1>3, <1>5
  <2> HIDE DEF L
  <2>2. c \in Seq(L)
    BY <1>5, <2>1
  <2>3. Len(c) = Len(book)
    BY <1>4, <1>5, <2>2
  <2> QED BY <2>2, <2>3 DEF Book, L
<1> QED BY <1>2, <1>3, <1>4, <1>6 DEF c, M

LEMMA BooksUnfold ==
    ASSUME NEW book, NEW pairs, Len(pairs) \in Nat
    PROVE  /\ Books(book, pairs)[0] = book
           /\ \A n \in 1..Len(pairs) :
                 Books(book, pairs)[n] = Pair(Books(book, pairs)[n - 1], pairs[n])
<1> DEFINE N == Len(pairs)
           Is(n, g) == g = [m \in 0..n |-> IF m = 0 THEN book ELSE Pair(g[m - 1], pairs[m])]
           K == {n \in Nat : \E g : Is(n, g)}
<1>1. 0 \in K
  <2> DEFINE g == [m \in 0..0 |-> book]
  <2>1. Is(0, g)
    OBVIOUS
  <2> QED BY <2>1
<1>2. ASSUME NEW n \in 1..N, n - 1 \in K PROVE n \in K
  <2>1. PICK g : Is(n - 1, g)
    BY <1>2
  <2> DEFINE h == [m \in 0..n |-> IF m = 0 THEN book ELSE Pair(g[m - 1], pairs[m])]
  <2>2. \A m \in 0..(n - 1) : h[m] = g[m]
    BY <2>1
  <2>3. \A m \in 1..n : m - 1 \in 0..(n - 1)
    OBVIOUS
  <2> DEFINE A(m) == IF m = 0 THEN book ELSE Pair(g[m - 1], pairs[m])
             B(m) == IF m = 0 THEN book ELSE Pair(h[m - 1], pairs[m])
  <2>4. \A m \in 0..n : A(m) = B(m)
    <3>1. \A m \in 1..n : h[m - 1] = g[m - 1]
      BY <2>2, <2>3
    <3> HIDE DEF h
    <3> QED BY <3>1
  <2>5. h = [m \in 0..n |-> A(m)]
    OBVIOUS
  <2>6. h = [m \in 0..n |-> B(m)]
    <3> HIDE DEF h, A, B
    <3> QED BY <2>4, <2>5
  <2>7. \E x : Is(n, x)
    <3> HIDE DEF h
    <3>1. Is(n, h)
      BY <2>6
    <3> QED BY <3>1
  <2> QED BY <2>7
<1>3. \A n \in 0..N : n \in K
  <2> HIDE DEF K
  <2> QED BY <1>1, <1>2, UpTo
<1>4. \E g : Is(N, g)
  BY <1>3
<1>5. Books(book, pairs) = CHOOSE g : Is(N, g)
  BY DEF Books
<1>6. Is(N, Books(book, pairs))
  <2> HIDE DEF Is
  <2> QED BY <1>4, <1>5
<1> DEFINE b == Books(book, pairs)
<1>7. b = [m \in 0..N |-> IF m = 0 THEN book ELSE Pair(b[m - 1], pairs[m])]
  BY <1>6
<1> HIDE DEF b
<1>8. b[0] = book /\ \A n \in 1..N : b[n] = Pair(b[n - 1], pairs[n])
  BY <1>7
<1> QED BY <1>8 DEF b

LEMMA BooksFacts ==
    ASSUME NEW book \in Book, NEW pairs \in Seq((DOMAIN book) \X (DOMAIN book))
    PROVE  \A n \in 0..Len(pairs) :
              LET c == Books(book, pairs)[n]
              IN /\ c \in Book /\ DOMAIN c = DOMAIN book /\ Len(c) = Len(book)
                 /\ \A m \in DOMAIN book : Alike(book[m], c[m])
<1> DEFINE D == DOMAIN book
           c(n) == Books(book, pairs)[n]
           Good(x) == /\ x \in Book /\ DOMAIN x = D /\ Len(x) = Len(book)
                      /\ \A m \in D : Alike(book[m], x[m])
           K == {n \in Nat : Good(c(n))}
<1>0. Len(pairs) \in Nat /\ \A n \in 1..Len(pairs) : pairs[n] \in D \X D
  <2> DEFINE Q == D \X D
  <2>1. pairs \in Seq(Q)
    OBVIOUS
  <2> HIDE DEF Q
  <2>2. Len(pairs) \in Nat /\ \A n \in 1..Len(pairs) : pairs[n] \in Q
    BY <2>1
  <2> QED BY <2>2 DEF Q
<1>1. 0 \in K
  <2>1. c(0) = book
    BY <1>0, BooksUnfold
  <2> QED BY <2>1 DEF Alike
<1>2. ASSUME NEW n \in 1..Len(pairs), n - 1 \in K PROVE n \in K
  <2>1. Good(c(n - 1)) /\ pairs[n] \in D \X D
    BY <1>0, <1>2
  <2>2. c(n) = Pair(c(n - 1), pairs[n])
    BY <1>0, BooksUnfold
  <2> DEFINE x == c(n - 1)
             y == c(n)
  <2> HIDE DEF x, y, D
  <2>3. x \in Book /\ pairs[n] \in (DOMAIN x) \X (DOMAIN x) /\ DOMAIN x = D /\ Len(x) = Len(book)
    BY <2>1 DEF x
  <2>4. y = Pair(x, pairs[n])
    BY <2>2 DEF x, y
  <2>5. /\ y \in Book /\ DOMAIN y = D /\ Len(y) = Len(book)
        /\ \A m \in D : Alike(x[m], y[m])
    BY <2>3, <2>4, PairFacts
  <2>6. \A m \in D : Alike(book[m], x[m])
    BY <2>1 DEF x
  <2>7. Good(y)
    BY <2>5, <2>6 DEF Alike
  <2>8. n \in Nat
    OBVIOUS
  <2> QED BY <2>7, <2>8 DEF y
<1>3. \A n \in 0..Len(pairs) : n \in K
  <2> HIDE DEF K
  <2> QED BY <1>0, <1>1, <1>2, UpTo
<1> QED BY <1>3

\* Reconciliation does not change what a set of lines adds up to.
LEMMA AlikeTotal ==
    ASSUME NEW b \in Book, NEW c \in Book, DOMAIN c = DOMAIN b, NEW S \in SUBSET DOMAIN b,
           \A m \in S : Alike(b[m], c[m])
    PROVE  Total(c, S) = Total(b, S)
<1>1. IsFiniteSet(S) /\ Whole(Signed(b), S)
  BY TotalWhole
<1>2. \A m \in S : Signed(b)[m] = Signed(c)[m]
  BY TotalWhole DEF Alike
<1> QED BY <1>1, <1>2, SumSame DEF Total

-----------------------------------------------------------------------------
(* The loop that applies a payment to the debts                            *)

\* A part of a payment: a debt and an amount
Shares(wants) == (1..Len(wants)) \X (Nat \ {0})
Loop(wants) == [i : Nat, rest : Nat, left : Nat, parts : Seq(Shares(wants))]
LoopState(wants, at) ==
    /\ at \in Loop(wants)
    /\ at.i \in 1..(Len(wants) + 1)
    /\ at.i <= Len(wants) => at.left <= wants[at.i]

Paid(parts) == [k \in DOMAIN parts |-> parts[k][2]]
PaidAll(parts) == SumOver(Paid(parts), DOMAIN parts)
PaidTo(parts, j) == SumOver(Paid(parts), {k \in DOMAIN parts : parts[k][1] = j})

\* How much of the debts has been covered when the loop is at a debt
Covered(wants, at, j) ==
    IF j < at.i THEN wants[j] ELSE IF j = at.i THEN wants[j] - at.left ELSE 0

\* From one state of the loop to a later one, what is taken of the payment is
\* what the parts hold, and what is covered.
LoopStep(wants, at, to) ==
    /\ LoopState(wants, to) /\ at.i <= to.i
    /\ PaidAll(to.parts) + to.rest = PaidAll(at.parts) + at.rest
    /\ \A j \in 1..Len(wants) :
          PaidTo(to.parts, j) - Covered(wants, to, j) = PaidTo(at.parts, j) - Covered(wants, at, j)

LEMMA PartsFacts ==
    ASSUME NEW wants \in Seq(Nat), NEW parts \in Seq(Shares(wants))
    PROVE  /\ DOMAIN parts = 1..Len(parts) /\ Len(parts) \in Nat /\ Len(wants) \in Nat
           /\ IsFiniteSet(DOMAIN parts) /\ Whole(Paid(parts), DOMAIN parts)
           /\ \A k \in DOMAIN parts : /\ parts[k][1] \in 1..Len(wants) /\ parts[k][2] \in Nat \ {0}
                                      /\ parts[k] = <<parts[k][1], parts[k][2]>>
                                      /\ Paid(parts)[k] = parts[k][2]
           /\ PaidAll(parts) \in Int /\ \A j : PaidTo(parts, j) \in Int
<1> DEFINE Q == Shares(wants)
<1>1. DOMAIN parts = 1..Len(parts) /\ Len(parts) \in Nat /\ \A k \in DOMAIN parts : parts[k] \in Q
  BY SeqFacts
<1>2. \A k \in DOMAIN parts : /\ parts[k][1] \in 1..Len(wants) /\ parts[k][2] \in Nat \ {0}
                              /\ parts[k] = <<parts[k][1], parts[k][2]>>
                              /\ Paid(parts)[k] = parts[k][2]
  BY <1>1 DEF Shares, Paid
<1>3. IsFiniteSet(DOMAIN parts)
  BY <1>1, FS_Interval
<1>4. Whole(Paid(parts), DOMAIN parts)
  BY <1>2 DEF Whole
<1>5. ASSUME NEW S \in SUBSET DOMAIN parts PROVE SumOver(Paid(parts), S) \in Int
  <2>1. IsFiniteSet(S) /\ Whole(Paid(parts), S)
    BY <1>3, <1>4, FS_Subset DEF Whole
  <2> QED BY <2>1, SumWhole
<1>6. Len(wants) \in Nat
  OBVIOUS
<1> QED BY <1>1, <1>2, <1>3, <1>4, <1>5, <1>6 DEF PaidAll, PaidTo

LEMMA PaidAppend ==
    ASSUME NEW wants \in Seq(Nat), NEW parts \in Seq(Shares(wants)), NEW s \in Shares(wants)
    PROVE  LET new == Append(parts, s)
           IN /\ new \in Seq(Shares(wants))
              /\ PaidAll(new) = PaidAll(parts) + s[2]
              /\ \A j : PaidTo(new, j) = PaidTo(parts, j) + (IF j = s[1] THEN s[2] ELSE 0)
<1> DEFINE Q == Shares(wants)
           new == Append(parts, s)
           N == Len(parts) + 1
           D == DOMAIN parts
<1>1. /\ new \in Seq(Q) /\ DOMAIN new = 1..N /\ D = 1..Len(parts) /\ Len(parts) \in Nat
      /\ \A k \in D : new[k] = parts[k]
      /\ new[N] = s
  <2>1. parts \in Seq(Q) /\ s \in Q
    OBVIOUS
  <2> HIDE DEF Q
  <2> QED BY <2>1, SeqFacts, AppendFacts
<1>2. DOMAIN new = D \cup {N} /\ N \notin D
  BY <1>1
<1>3. IsFiniteSet(D) /\ Whole(Paid(parts), D)
  BY PartsFacts
<1>4. s[2] \in Int
  BY DEF Shares
<1>5. Paid(new)[N] = s[2] /\ \A k \in D : Paid(new)[k] = Paid(parts)[k]
  BY <1>1, <1>2 DEF Paid
<1>6. ASSUME NEW S \in SUBSET D
      PROVE  /\ SumOver(Paid(new), S) = SumOver(Paid(parts), S)
             /\ SumOver(Paid(new), S \cup {N}) = SumOver(Paid(parts), S) + s[2]
  <2>1. IsFiniteSet(S) /\ Whole(Paid(parts), S) /\ N \notin S
    BY <1>2, <1>3, FS_Subset DEF Whole
  <2>2. Whole(Paid(new), S) /\ Paid(new)[N] \in Int
    BY <1>4, <1>5, <2>1 DEF Whole
  <2>3. SumOver(Paid(new), S) = SumOver(Paid(parts), S)
    BY <1>5, <2>1, SumSame
  <2> HIDE DEF N, new
  <2>4. SumOver(Paid(new), S \cup {N}) = Paid(new)[N] + SumOver(Paid(new), S)
    BY <2>1, <2>2, SumAdd
  <2>5. SumOver(Paid(new), S) \in Int
    BY <2>1, <2>2, SumWhole
  <2> QED BY <1>4, <1>5, <2>3, <2>4, <2>5
<1>7. PaidAll(new) = PaidAll(parts) + s[2]
  BY <1>2, <1>6 DEF PaidAll
<1>8. ASSUME NEW j PROVE PaidTo(new, j) = PaidTo(parts, j) + (IF j = s[1] THEN s[2] ELSE 0)
  <2> DEFINE S == {k \in D : parts[k][1] = j}
             T == {k \in DOMAIN new : new[k][1] = j}
  <2>1. T = IF j = s[1] THEN S \cup {N} ELSE S
    <3>1. \A k \in D : new[k][1] = parts[k][1]
      BY <1>1
    <3>2. new[N][1] = s[1]
      BY <1>1
    <3> HIDE DEF new, N, D
    <3> QED BY <1>2, <3>1, <3>2
  <2>2. PaidTo(new, j) = SumOver(Paid(new), T) /\ PaidTo(parts, j) = SumOver(Paid(parts), S)
    BY DEF PaidTo
  <2>3. S \in SUBSET D /\ SumOver(Paid(parts), S) \in Int
    BY <2>2, PartsFacts
  <2> HIDE DEF S, T, new, N, D
  <2>4. CASE j = s[1]
    <3>1. SumOver(Paid(new), T) = SumOver(Paid(parts), S) + s[2]
      BY <1>6, <2>1, <2>3, <2>4
    <3> QED BY <2>2, <2>4, <3>1
  <2>5. CASE j # s[1]
    <3>1. SumOver(Paid(new), T) = SumOver(Paid(parts), S)
      BY <1>6, <2>1, <2>3, <2>5
    <3> QED BY <2>2, <2>3, <2>5, <3>1
  <2> QED BY <2>4, <2>5
<1> QED BY <1>1, <1>7, <1>8

LEMMA TurnFacts ==
    ASSUME NEW wants \in Seq(Nat), NEW at, LoopState(wants, at),
           at.rest > 0, at.i <= Len(wants)
    PROVE  /\ LoopStep(wants, at, Turn(wants, at))
           /\ Turn(wants, at).rest = 0 \/ Turn(wants, at).i = at.i + 1
<1> DEFINE x == Lesser(at.rest, at.left)
           next == at.left = x \/ x = 0
           i == IF next THEN at.i + 1 ELSE at.i
           left == IF i = at.i THEN at.left - x ELSE IF i <= Len(wants) THEN wants[i] ELSE 0
           parts == IF x # 0 THEN Append(at.parts, <<at.i, x>>) ELSE at.parts
           to == Turn(wants, at)
<1>0. /\ at.i \in 1..Len(wants) /\ Len(wants) \in Nat /\ at.rest \in Nat /\ at.left \in Nat
      /\ at.left <= wants[at.i] /\ at.parts \in Seq(Shares(wants))
      /\ \A j \in 1..Len(wants) : wants[j] \in Nat
  BY DEF LoopState, Loop
<1>1. to = [i |-> i, rest |-> at.rest - x, left |-> left, parts |-> parts]
  BY DEF Turn, Give
<1>2. x \in Nat /\ x <= at.rest /\ x <= at.left /\ (next <=> x = at.left) /\ (~next => x = at.rest)
  BY <1>0 DEF Lesser
<1>3. /\ parts \in Seq(Shares(wants)) /\ PaidAll(parts) = PaidAll(at.parts) + x
      /\ \A j : PaidTo(parts, j) = PaidTo(at.parts, j) + (IF j = at.i THEN x ELSE 0)
  <2>1. PaidAll(at.parts) \in Int /\ \A j : PaidTo(at.parts, j) \in Int
    BY <1>0, PartsFacts
  <2>2. CASE x # 0
    <3> DEFINE s == <<at.i, x>>
    <3>1. s \in Shares(wants) /\ s[1] = at.i /\ s[2] = x
      BY <1>0, <1>2, <2>2 DEF Shares
    <3>2. parts = Append(at.parts, s)
      BY <2>2
    <3> HIDE DEF s, x, parts
    <3> DEFINE y == at.parts
    <3>3. y \in Seq(Shares(wants))
      BY <1>0
    <3> HIDE DEF y
    <3>4. /\ Append(y, s) \in Seq(Shares(wants))
          /\ PaidAll(Append(y, s)) = PaidAll(y) + s[2]
          /\ \A j : PaidTo(Append(y, s), j) = PaidTo(y, j) + (IF j = s[1] THEN s[2] ELSE 0)
      BY <3>1, <3>3, PaidAppend
    <3>5. parts = Append(y, s)
      BY <3>2 DEF y
    <3> QED BY <3>1, <3>4, <3>5 DEF y
  <2>3. CASE x = 0
    <3>1. parts = at.parts
      BY <2>3
    <3> HIDE DEF x, parts
    <3> QED BY <1>0, <2>1, <2>3, <3>1
  <2> QED BY <2>2, <2>3
<1> HIDE DEF x, parts
<1>4. i \in Nat /\ i \in 1..(Len(wants) + 1) /\ at.i <= i /\ left \in Nat
      /\ (i <= Len(wants) => left <= wants[i])
  <2>1. CASE next
    <3>1. i = at.i + 1 /\ left = IF i <= Len(wants) THEN wants[i] ELSE 0
      BY <1>0, <2>1
    <3>2. at.i \in Nat /\ at.i >= 1 /\ at.i <= Len(wants) /\ Len(wants) \in Nat
      BY <1>0
    <3> HIDE DEF i, left, next
    <3>3. i \in 1..(Len(wants) + 1) /\ at.i <= i /\ i \in Nat /\ (i <= Len(wants) => i \in 1..Len(wants))
      BY <3>1, <3>2
    <3>4. (i <= Len(wants) => left = wants[i] /\ wants[i] \in Nat) /\ (~(i <= Len(wants)) => left = 0)
      BY <1>0, <3>1, <3>3
    <3>5. \A z \in Nat : z <= z
      OBVIOUS
    <3> QED BY <3>3, <3>4, <3>5
  <2>2. CASE ~next
    <3>1. i = at.i /\ left = at.left - x
      BY <2>2
    <3> HIDE DEF i, left, x, next
    <3> DEFINE n == at.i
               h == at.left
               N == Len(wants)
               w == wants[i]
    <3>2. /\ i = n /\ n \in 1..N /\ N \in Nat /\ h \in Nat /\ w \in Nat /\ h <= w
          /\ x \in Nat /\ x <= h /\ left = h - x
      BY <1>0, <1>2, <3>1
    <3> HIDE DEF n, h, N, w
    <3>3. i \in Nat /\ i \in 1..(N + 1) /\ n <= i /\ left \in Nat /\ left <= w
      BY <3>2
    <3> QED BY <3>3 DEF n, N, w
  <2> QED BY <2>1, <2>2
<1>5. to.i = i /\ to.left = left /\ to.rest = at.rest - x /\ to.parts = parts
  BY <1>1
<1>6. LoopState(wants, to)
  <2>1. to \in Loop(wants)
    <3>1. at.rest - x \in Nat
      BY <1>0, <1>2
    <3> HIDE DEF to, i, left
    <3> QED BY <1>1, <1>3, <1>4, <3>1 DEF Loop
  <2> HIDE DEF to, i, left
  <2> QED BY <1>4, <1>5, <2>1 DEF LoopState
<1>7. ASSUME NEW j \in 1..Len(wants)
      PROVE  Covered(wants, to, j) = Covered(wants, at, j) + (IF j = at.i THEN x ELSE 0)
  <2>1. CASE next
    <3>1. i = at.i + 1 /\ left = IF i <= Len(wants) THEN wants[i] ELSE 0
      BY <1>0, <2>1
    <3>2. x = at.left
      BY <1>2, <2>1
    <3> HIDE DEF i, left, to, next
    <3> DEFINE w == wants[j]
               h == at.left
               n == at.i
               N == Len(wants)
    <3>3. /\ w \in Nat /\ h \in Nat /\ n \in Nat /\ x = h /\ to.i = n + 1 /\ N \in Nat /\ j \in 1..N
          /\ to.left = IF n + 1 <= N THEN wants[n + 1] ELSE 0
      BY <1>0, <1>5, <3>1, <3>2
    <3>4. j = n + 1 => to.left = w
      BY <3>3
    <3>5. /\ Covered(wants, at, j) = IF j < n THEN w ELSE IF j = n THEN w - h ELSE 0
          /\ Covered(wants, to, j) = IF j < n + 1 THEN w ELSE IF j = n + 1 THEN w - to.left ELSE 0
      BY <3>3 DEF Covered
    <3>6. Covered(wants, to, j) = IF j < n + 1 THEN w ELSE 0
      BY <3>3, <3>4, <3>5
    <3> HIDE DEF w, h, n, N, x
    <3>7. (IF j < n + 1 THEN w ELSE 0)
             = (IF j < n THEN w ELSE IF j = n THEN w - h ELSE 0) + (IF j = n THEN x ELSE 0)
      <4>1. CASE j < n
        BY <3>3, <4>1
      <4>2. CASE j = n
        BY <3>3, <4>2
      <4>3. CASE j > n
        BY <3>3, <4>3
      <4> QED BY <3>3, <4>1, <4>2, <4>3
    <3>8. Covered(wants, to, j) = Covered(wants, at, j) + (IF j = n THEN x ELSE 0)
      BY <3>5, <3>6, <3>7
    <3> QED BY <3>8 DEF n
  <2>2. CASE ~next
    <3>1. i = at.i /\ left = at.left - x
      BY <2>2
    <3> HIDE DEF i, left, to, next
    <3> DEFINE w == wants[j]
               h == at.left
               n == at.i
    <3>2. w \in Nat /\ h \in Nat /\ n \in Nat /\ x \in Nat /\ to.i = n /\ to.left = h - x
      BY <1>0, <1>2, <1>5, <3>1
    <3>3. /\ Covered(wants, at, j) = IF j < n THEN w ELSE IF j = n THEN w - h ELSE 0
          /\ Covered(wants, to, j) = IF j < n THEN w ELSE IF j = n THEN w - (h - x) ELSE 0
      BY <3>2 DEF Covered
    <3> HIDE DEF w, h, n, x
    <3>4. (IF j < n THEN w ELSE IF j = n THEN w - (h - x) ELSE 0)
             = (IF j < n THEN w ELSE IF j = n THEN w - h ELSE 0) + (IF j = n THEN x ELSE 0)
      BY <3>2
    <3>5. Covered(wants, to, j) = Covered(wants, at, j) + (IF j = n THEN x ELSE 0)
      BY <3>3, <3>4
    <3> QED BY <3>5 DEF n
  <2> QED BY <2>1, <2>2
<1>8. \A j \in 1..Len(wants) : Covered(wants, at, j) \in Int /\ PaidTo(at.parts, j) \in Int
  <2>1. \A j : PaidTo(at.parts, j) \in Int
    BY <1>0, PartsFacts
  <2>2. \A j \in 1..Len(wants) : Covered(wants, at, j) \in Int
    <3>1. at.i \in Nat /\ at.left \in Int /\ \A j \in 1..Len(wants) : wants[j] \in Int
      BY <1>0
    <3> QED BY <3>1 DEF Covered
  <2> QED BY <2>1, <2>2
<1>9. to.rest = 0 \/ to.i = at.i + 1
  <2>1. next => i = at.i + 1
    OBVIOUS
  <2> HIDE DEF i, left, to
  <2> QED BY <1>0, <1>2, <1>5, <2>1
<1>10. PaidAll(to.parts) + to.rest = PaidAll(at.parts) + at.rest
  <2>1. PaidAll(at.parts) \in Int
    BY <1>0, PartsFacts
  <2> HIDE DEF i, left, to
  <2> QED BY <1>0, <1>2, <1>3, <1>5, <2>1
<1>11. ASSUME NEW j \in 1..Len(wants)
       PROVE  PaidTo(to.parts, j) - Covered(wants, to, j)
                = PaidTo(at.parts, j) - Covered(wants, at, j)
  <2>1. PaidTo(to.parts, j) = PaidTo(at.parts, j) + (IF j = at.i THEN x ELSE 0)
    <3> HIDE DEF i, left, to
    <3> QED BY <1>3, <1>5
  <2> HIDE DEF to
  <2> QED BY <1>2, <1>7, <1>8, <2>1
<1> HIDE DEF to
<1>12. LoopStep(wants, at, to)
  <2>1. at.i <= to.i
    <3> HIDE DEF i, left
    <3> QED BY <1>4, <1>5
  <2> QED BY <1>6, <1>10, <1>11, <2>1 DEF LoopStep
<1> QED BY <1>9, <1>12 DEF to

Paying(at, amount) == [at EXCEPT !.rest = amount]
LoopNext(wants, s) == IF s.rest <= 0 \/ s.i > Len(wants) THEN s ELSE Turn(wants, s)

LEMMA TurnsUnfold ==
    ASSUME NEW wants \in Seq(Nat), NEW at, NEW amount
    PROVE  /\ Turns(wants, at, amount)[0] = Paying(at, amount)
           /\ \A n \in 1..(Len(wants) + 1) :
                 Turns(wants, at, amount)[n] = LoopNext(wants, Turns(wants, at, amount)[n - 1])
<1> DEFINE N == Len(wants) + 1
           First == Paying(at, amount)
           Is(n, g) == g = [m \in 0..n |-> IF m = 0 THEN First ELSE LoopNext(wants, g[m - 1])]
           K == {n \in Nat : \E g : Is(n, g)}
<1>0. N \in Nat
  OBVIOUS
<1>1. 0 \in K
  <2> DEFINE g == [m \in 0..0 |-> First]
  <2>1. Is(0, g)
    OBVIOUS
  <2> HIDE DEF g
  <2>2. \E x : Is(0, x)
    BY <2>1
  <2> QED BY <2>2
<1>2. ASSUME NEW n \in 1..N, n - 1 \in K PROVE n \in K
  <2>1. PICK g : Is(n - 1, g)
    BY <1>2
  <2> HIDE DEF First
  <2> DEFINE h == [m \in 0..n |-> IF m = 0 THEN First ELSE LoopNext(wants, g[m - 1])]
  <2>2. \A m \in 0..(n - 1) : h[m] = g[m]
    BY <1>0, <2>1
  <2>3. \A m \in 1..n : m - 1 \in 0..(n - 1)
    BY <1>0
  <2> DEFINE A(m) == IF m = 0 THEN First ELSE LoopNext(wants, g[m - 1])
             B(m) == IF m = 0 THEN First ELSE LoopNext(wants, h[m - 1])
  <2>4. \A m \in 0..n : A(m) = B(m)
    <3>1. \A m \in 1..n : h[m - 1] = g[m - 1]
      BY <2>2, <2>3
    <3> HIDE DEF h
    <3> QED BY <1>0, <3>1
  <2>5. h = [m \in 0..n |-> A(m)]
    OBVIOUS
  <2>6. h = [m \in 0..n |-> B(m)]
    <3> HIDE DEF h, A, B
    <3> QED BY <2>4, <2>5
  <2>7. \E x : Is(n, x)
    <3> HIDE DEF h
    <3>1. Is(n, h)
      BY <2>6
    <3> QED BY <3>1
  <2>8. n \in Nat
    BY <1>0
  <2> QED BY <2>7, <2>8
<1>3. \A n \in 0..N : n \in K
  <2> HIDE DEF K, N
  <2> QED BY <1>0, <1>1, <1>2, UpTo
<1>4. \E g : Is(N, g)
  <2>1. N \in K
    <3> HIDE DEF K
    <3> QED BY <1>0, <1>3
  <2> HIDE DEF N, Is
  <2> QED BY <2>1
<1> DEFINE b == Turns(wants, at, amount)
<1>5. b = CHOOSE g : Is(N, g)
  BY DEF Turns, LoopNext, Paying
<1>6. Is(N, b)
  <2> HIDE DEF Is, b, N
  <2> QED BY <1>4, <1>5
<1> HIDE DEF First, b
<1>7. b = [m \in 0..N |-> IF m = 0 THEN First ELSE LoopNext(wants, b[m - 1])]
  BY <1>6
<1>8. b[0] = First /\ \A n \in 1..N : b[n] = LoopNext(wants, b[n - 1])
  BY <1>0, <1>7
<1> QED BY <1>8 DEF b, First

\* What is covered is at most what is wanted, and at the end all of it.
LEMMA CoveredFacts ==
    ASSUME NEW wants \in Seq(Nat), NEW at, LoopState(wants, at), NEW j \in 1..Len(wants)
    PROVE  /\ Covered(wants, at, j) \in Nat /\ Covered(wants, at, j) <= wants[j]
           /\ at.i > Len(wants) => Covered(wants, at, j) = wants[j]
<1>1. /\ Len(wants) \in Nat /\ at.i \in Nat /\ at.left \in Nat /\ wants[j] \in Nat /\ j \in Nat
      /\ (at.i <= Len(wants) => at.left <= wants[at.i])
  BY DEF LoopState, Loop
<1>2. j <= Len(wants)
  OBVIOUS
<1> QED BY <1>1, <1>2 DEF Covered

LEMMA LoopStepTwice ==
    ASSUME NEW wants \in Seq(Nat), NEW a, NEW b, NEW c, LoopState(wants, a),
           LoopStep(wants, a, b), LoopStep(wants, b, c)
    PROVE  LoopStep(wants, a, c)
<1>0. /\ LoopState(wants, b) /\ LoopState(wants, c)
      /\ a.parts \in Seq(Shares(wants)) /\ b.parts \in Seq(Shares(wants))
      /\ c.parts \in Seq(Shares(wants))
      /\ a.i \in Nat /\ b.i \in Nat /\ c.i \in Nat
      /\ a.rest \in Nat /\ b.rest \in Nat /\ c.rest \in Nat
      /\ a.left \in Nat /\ b.left \in Nat /\ c.left \in Nat
  BY DEF LoopStep, LoopState, Loop
<1>1. /\ PaidAll(a.parts) \in Int /\ PaidAll(b.parts) \in Int /\ PaidAll(c.parts) \in Int
      /\ \A j : /\ PaidTo(a.parts, j) \in Int /\ PaidTo(b.parts, j) \in Int
                /\ PaidTo(c.parts, j) \in Int
  BY <1>0, PartsFacts
<1>2. \A x \in Nat : x \in Int
  OBVIOUS
<1>3. \A j \in 1..Len(wants) :
         /\ Covered(wants, a, j) \in Int /\ Covered(wants, b, j) \in Int
         /\ Covered(wants, c, j) \in Int
  BY <1>0, <1>2, CoveredFacts
<1>4. a.i <= c.i
  BY <1>0 DEF LoopStep
<1>5. PaidAll(c.parts) + c.rest = PaidAll(a.parts) + a.rest
  BY <1>0, <1>1 DEF LoopStep
<1>6. ASSUME NEW j \in 1..Len(wants)
      PROVE  PaidTo(c.parts, j) - Covered(wants, c, j) = PaidTo(a.parts, j) - Covered(wants, a, j)
  <2>1. /\ PaidTo(c.parts, j) - Covered(wants, c, j) = PaidTo(b.parts, j) - Covered(wants, b, j)
        /\ PaidTo(b.parts, j) - Covered(wants, b, j) = PaidTo(a.parts, j) - Covered(wants, a, j)
    BY DEF LoopStep
  <2> QED BY <2>1
<1> QED BY <1>0, <1>4, <1>5, <1>6 DEF LoopStep

\* A payment is taken up to what is not covered, and what is left of it means
\* that all is covered.
LEMMA PourFacts ==
    ASSUME NEW wants \in Seq(Nat), NEW at, LoopState(wants, at), NEW amount \in Nat
    PROVE  LET to == Pour(wants, at, amount)
           IN /\ LoopStep(wants, Paying(at, amount), to)
              /\ to.rest > 0 => to.i > Len(wants)
<1> DEFINE first == Paying(at, amount)
           s(n) == Turns(wants, at, amount)[n]
           W == Len(wants)
           Good(n, x) == /\ LoopStep(wants, first, x)
                         /\ x.rest = 0 \/ x.i > W \/ x.i >= n + 1
           K == {n \in Nat : Good(n, s(n))}
<1>0. W \in Nat /\ W + 1 \in Nat
  OBVIOUS
<1>9. s(0) = first /\ \A n \in 1..(W + 1) : s(n) = LoopNext(wants, s(n - 1))
  BY TurnsUnfold
<1>1. /\ LoopState(wants, first) /\ first.rest = amount /\ first.i = at.i
      /\ first.parts = at.parts /\ first.left = at.left
  <2>1. at \in Loop(wants)
    BY DEF LoopState
  <2>2. /\ first \in Loop(wants) /\ first.rest = amount /\ first.i = at.i
        /\ first.parts = at.parts /\ first.left = at.left
    BY <2>1 DEF Loop, Paying
  <2> HIDE DEF first
  <2> QED BY <2>2 DEF LoopState
<1>2. LoopStep(wants, first, first)
  <2>1. first.i \in Nat
    BY <1>1 DEF LoopState, Loop
  <2> HIDE DEF first
  <2> QED BY <1>1, <2>1 DEF LoopStep
<1>3. 0 \in K
  <2>1. s(0) = first
    BY <1>9
  <2>2. first.i >= 0 + 1
    <3> HIDE DEF first
    <3> QED BY <1>1 DEF LoopState
  <2> QED BY <1>2, <2>1, <2>2
<1>4. ASSUME NEW n \in 1..(W + 1), n - 1 \in K PROVE n \in K
  <2> DEFINE x == s(n - 1)
             y == s(n)
  <2>1. Good(n - 1, x)
    BY <1>4
  <2>2. y = IF x.rest <= 0 \/ x.i > Len(wants) THEN x ELSE Turn(wants, x)
    <3>1. y = LoopNext(wants, x)
      BY <1>9
    <3> HIDE DEF x, y
    <3> QED BY <3>1 DEF LoopNext
  <2>3. n \in Nat
    BY <1>0
  <2> HIDE DEF s, x, y, first
  <2>4. x.rest \in Nat /\ x.i \in Nat /\ LoopState(wants, x)
    BY <2>1 DEF LoopStep, LoopState, Loop
  <2>5. CASE x.rest <= 0 \/ x.i > W
    <3>1. y = x
      BY <2>2, <2>5
    <3> QED BY <2>1, <2>3, <2>4, <2>5, <3>1 DEF x, y
  <2>6. CASE ~(x.rest <= 0 \/ x.i > W)
    <3>1. y = Turn(wants, x) /\ x.rest > 0 /\ x.i <= Len(wants)
      BY <1>0, <2>2, <2>4, <2>6
    <3>2. LoopStep(wants, x, y) /\ (y.rest = 0 \/ y.i = x.i + 1)
      BY <2>4, <3>1, TurnFacts
    <3>3. LoopStep(wants, first, y)
      BY <1>1, <2>1, <3>2, LoopStepTwice
    <3>4. y.rest = 0 \/ y.i >= n + 1
      <4>1. x.i >= n - 1 + 1
        BY <2>1, <2>4, <2>6
      <4> QED BY <2>3, <2>4, <3>2, <4>1
    <3> QED BY <2>3, <3>3, <3>4 DEF y
  <2> QED BY <2>5, <2>6
<1>5. \A n \in 0..(W + 1) : n \in K
  <2> HIDE DEF K, W
  <2> QED BY <1>0, <1>3, <1>4, UpTo
<1> DEFINE to == Pour(wants, at, amount)
<1>6. Good(W + 1, to)
  <2>1. W + 1 \in K
    <3> HIDE DEF K
    <3> QED BY <1>0, <1>5
  <2> QED BY <2>1 DEF Pour
<1> HIDE DEF to, first
<1>7. to.rest \in Nat /\ to.i \in Nat
  BY <1>6 DEF LoopStep, LoopState, Loop
<1>8. to.rest > 0 => to.i > W
  BY <1>0, <1>6, <1>7
<1> QED BY <1>6, <1>8 DEF to, first

LEMMA BeginFacts ==
    ASSUME NEW wants \in Seq(Nat)
    PROVE  /\ LoopState(wants, Begin(wants)) /\ Begin(wants).parts = <<>>
           /\ \A j \in 1..Len(wants) : Covered(wants, Begin(wants), j) = 0
<1>1. Len(wants) \in Nat /\ \A j \in 1..Len(wants) : wants[j] \in Nat
  OBVIOUS
<1>2. wants = <<>> <=> Len(wants) = 0
  OBVIOUS
<1> DEFINE left == IF wants = <<>> THEN 0 ELSE wants[1]
           b == Begin(wants)
<1>3. left \in Nat /\ (1 <= Len(wants) => left = wants[1])
  BY <1>1, <1>2
<1>4. /\ b = [i |-> 1, rest |-> 0, parts |-> <<>>, left |-> left]
      /\ b.i = 1 /\ b.left = left /\ b.parts = <<>>
  BY DEF Begin
<1>5. <<>> \in Seq(Shares(wants))
  OBVIOUS
<1> HIDE DEF left, b
<1>6. b \in Loop(wants)
  BY <1>3, <1>4, <1>5 DEF Loop
<1>7. LoopState(wants, b)
  BY <1>1, <1>3, <1>4, <1>6 DEF LoopState
<1>8. \A j \in 1..Len(wants) : Covered(wants, b, j) = 0
  <2> SUFFICES ASSUME NEW j \in 1..Len(wants) PROVE Covered(wants, b, j) = 0
    OBVIOUS
  <2>1. ~(j < b.i) /\ (j = b.i => b.left = wants[j])
    BY <1>1, <1>3, <1>4
  <2>2. wants[j] - wants[j] = 0
    BY <1>1
  <2> QED BY <2>1, <2>2 DEF Covered
<1> QED BY <1>4, <1>7, <1>8 DEF b

LEMMA NothingPaid == PaidAll(<<>>) = 0 /\ \A j : PaidTo(<<>>, j) = 0
<1>1. DOMAIN <<>> = {}
  OBVIOUS
<1>2. \A j : {k \in DOMAIN <<>> : <<>>[k][1] = j} = {}
  BY <1>1
<1> QED BY <1>1, <1>2, SumEmpty DEF PaidAll, PaidTo

\* What all the debts were given is what has been paid.
LEMMA PaidByDebt ==
    ASSUME NEW wants \in Seq(Nat), NEW parts \in Seq(Shares(wants))
    PROVE  PaidAll(parts) = SumOver([j \in 1..Len(wants) |-> PaidTo(parts, j)], 1..Len(wants))
<1> DEFINE J == 1..Len(wants)
           D == DOMAIN parts
           h == [k \in D |-> parts[k][1]]
           F == [j \in J |-> SumOver(Paid(parts), {x \in D : h[x] = j})]
           G == [j \in J |-> PaidTo(parts, j)]
<1>1. IsFiniteSet(D) /\ Whole(Paid(parts), D) /\ \A x \in D : h[x] \in J
  BY PartsFacts
<1>2. IsFiniteSet(J)
  BY FS_Interval
<1>3. SumOver(Paid(parts), D) = SumOver(F, J)
  <2> HIDE DEF J, D, h
  <2> QED BY <1>1, <1>2, SumParts
<1>4. F = G
  <2>1. \A j \in J : {x \in D : h[x] = j} = {k \in D : parts[k][1] = j}
    OBVIOUS
  <2> HIDE DEF h, J
  <2> QED BY <2>1 DEF PaidTo
<1> QED BY <1>3, <1>4 DEF PaidAll

-----------------------------------------------------------------------------
(* Sorted lines, and the credit that is offered to them                    *)

\* The elements of S, each once
Enumerates(s, S) ==
    /\ s \in Seq(S) /\ Len(s) = Cardinality(S)
    /\ \A i \in DOMAIN s, j \in DOMAIN s : s[i] = s[j] => i = j
    /\ \A x \in S : \E i \in DOMAIN s : s[i] = x

\* S in the order of B
InOrder(S, B) ==
    [i \in 1..Cardinality(S) |-> CHOOSE x \in S : Cardinality({y \in S : <<y, x>> \in B}) = i - 1]

LEMMA OrderEnumerates ==
    ASSUME NEW S, IsFiniteSet(S), NEW B,
           \A x \in S : <<x, x>> \notin B,
           \A x \in S, y \in S : x # y => <<x, y>> \in B \/ <<y, x>> \in B,
           \A x \in S, y \in S, z \in S : <<x, y>> \in B /\ <<y, z>> \in B => <<x, z>> \in B
    PROVE  Enumerates(InOrder(S, B), S)
<1> DEFINE Under(x) == {y \in S : <<y, x>> \in B}
           N == Cardinality(S)
           f == [x \in S |-> Cardinality(Under(x)) + 1]
<1>0. N \in Nat /\ \A T \in SUBSET S : IsFiniteSet(T) /\ Cardinality(T) \in Nat
  BY FS_Subset, FS_CardinalityType
<1>1. ASSUME NEW x \in S PROVE f[x] \in 1..N
  <2>1. Under(x) \in SUBSET (S \ {x})
    OBVIOUS
  <2>2. IsFiniteSet(S \ {x}) /\ Cardinality(S \ {x}) = N - 1
    BY FS_RemoveElement
  <2>3. Cardinality(Under(x)) <= N - 1
    <3> HIDE DEF Under, N
    <3> QED BY <2>1, <2>2, FS_Subset
  <2>4. Cardinality(Under(x)) \in Nat
    BY <1>0
  <2> QED BY <1>0, <2>3, <2>4
<1>2. ASSUME NEW x \in S, NEW y \in S, <<x, y>> \in B PROVE f[x] # f[y]
  <2>1. Under(x) \in SUBSET Under(y) /\ x \in Under(y) /\ x \notin Under(x)
    BY <1>2
  <2>2. IsFiniteSet(Under(y)) /\ Cardinality(Under(x)) \in Nat /\ Cardinality(Under(y)) \in Nat
    BY <1>0
  <2>3. Cardinality(Under(x)) # Cardinality(Under(y))
    <3> HIDE DEF Under
    <3> QED BY <2>1, <2>2, FS_Subset
  <2> QED BY <2>2, <2>3
<1>3. \A x \in S, y \in S : f[x] = f[y] => x = y
  BY <1>2
<1>4. f \in Injection(S, 1..N)
  <2>1. f \in [S -> 1..N]
    BY <1>1
  <2> HIDE DEF f, N
  <2> QED BY <1>3, <2>1 DEF Injection, IsInjective
<1>5. f \in Surjection(S, 1..N)
  <2>1. IsFiniteSet(1..N) /\ Cardinality(1..N) = N
    BY <1>0, FS_Interval
  <2> HIDE DEF f, N
  <2> QED BY <1>4, <2>1, FS_Injection DEF N
<1>6. \A i \in 1..N : \E x \in S : f[x] = i
  <2> HIDE DEF f, N
  <2> QED BY <1>5 DEF Surjection
<1> DEFINE s == InOrder(S, B)
<1>7. s = [i \in 1..N |-> CHOOSE x \in S : Cardinality(Under(x)) = i - 1]
  BY DEF InOrder
<1>8. ASSUME NEW i \in 1..N PROVE s[i] \in S /\ f[s[i]] = i
  <2>1. PICK x \in S : f[x] = i
    BY <1>6
  <2>2. Cardinality(Under(x)) = i - 1
    <3>1. Under(x) \in SUBSET S /\ f[x] = Cardinality(Under(x)) + 1
      OBVIOUS
    <3>2. Cardinality(Under(x)) \in Nat
      BY <1>0, <3>1
    <3> HIDE DEF Under, f
    <3> QED BY <1>0, <2>1, <3>1, <3>2
  <2> DEFINE z == CHOOSE w \in S : Cardinality(Under(w)) = i - 1
  <2>3. z \in S /\ Cardinality(Under(z)) = i - 1
    <3> HIDE DEF Under
    <3> QED BY <2>2, Zenon
  <2>4. s[i] = z
    <3> HIDE DEF s
    <3> QED BY <1>7
  <2> HIDE DEF z
  <2>5. f[z] = i - 1 + 1
    BY <2>3
  <2>6. i - 1 + 1 = i
    BY <1>0
  <2> HIDE DEF s, f
  <2> QED BY <2>3, <2>4, <2>5, <2>6
<1> HIDE DEF s, f
<1>9. DOMAIN s = 1..N
  BY <1>7
<1>10. s \in Seq(S) /\ Len(s) = N
  <2>1. s = [i \in 1..N |-> s[i]]
    <3> DEFINE e(i) == CHOOSE x \in S : Cardinality(Under(x)) = i - 1
    <3>1. s = [i \in 1..N |-> e(i)]
      BY <1>7
    <3> HIDE DEF e
    <3> QED BY <3>1
  <2>2. s \in Seq(S)
    <3> HIDE DEF N
    <3> QED BY <1>0, <1>8, <2>1
  <2> QED BY <1>0, <1>9, <2>2
<1>11. \A i \in DOMAIN s, j \in DOMAIN s : s[i] = s[j] => i = j
  BY <1>8, <1>9
<1>12. ASSUME NEW x \in S PROVE \E i \in DOMAIN s : s[i] = x
  <2>1. s[f[x]] = x /\ f[x] \in 1..N
    <3>1. f[x] \in 1..N
      BY <1>1
    <3>2. s[f[x]] \in S /\ f[s[f[x]]] = f[x]
      BY <1>8, <3>1
    <3> QED BY <1>3, <3>1, <3>2
  <2> QED BY <1>9, <2>1
<1> QED BY <1>10, <1>11, <1>12 DEF Enumerates, s

ByKey(s, S, key) ==
    s = [i \in 1..Cardinality(S) |->
           CHOOSE x \in S :
              Cardinality({y \in S : key[y] < key[x] \/ (key[y] = key[x] /\ y > x)}) = i - 1]

LEMMA Sorted ==
    ASSUME NEW S \in SUBSET Int, IsFiniteSet(S), NEW key, \A x \in S : key[x] \in Int,
           NEW s, ByKey(s, S, key)
    PROVE  Enumerates(s, S)
<1> DEFINE B == {q \in S \X S : key[q[1]] < key[q[2]] \/ (key[q[1]] = key[q[2]] /\ q[1] > q[2])}
<1>1. \A x \in S, y \in S : <<x, y>> \in B <=> key[x] < key[y] \/ (key[x] = key[y] /\ x > y)
  OBVIOUS
<1>2. s = InOrder(S, B)
  <2> DEFINE U(x) == {y \in S : key[y] < key[x] \/ (key[y] = key[x] /\ y > x)}
             V(x) == {y \in S : <<y, x>> \in B}
  <2>1. \A x \in S : U(x) = V(x)
    BY <1>1
  <2> DEFINE A(i) == CHOOSE x \in S : Cardinality(U(x)) = i - 1
             C(i) == CHOOSE x \in S : Cardinality(V(x)) = i - 1
  <2>2. \A i : A(i) = C(i)
    <3> HIDE DEF U, V
    <3> QED BY <2>1
  <2>3. s = [i \in 1..Cardinality(S) |-> A(i)] /\ InOrder(S, B) = [i \in 1..Cardinality(S) |-> C(i)]
    BY DEF InOrder, ByKey
  <2> HIDE DEF A, C
  <2> QED BY <2>2, <2>3
<1>3. \A x \in S : <<x, x>> \notin B
  <2> SUFFICES ASSUME NEW x \in S PROVE ~(key[x] < key[x] \/ (key[x] = key[x] /\ x > x))
    BY <1>1
  <2>1. x \in Int /\ key[x] \in Int
    OBVIOUS
  <2> QED BY <2>1
<1>4. \A x \in S, y \in S : x # y => <<x, y>> \in B \/ <<y, x>> \in B
  <2> SUFFICES ASSUME NEW x \in S, NEW y \in S, x # y
               PROVE  \/ key[x] < key[y] \/ (key[x] = key[y] /\ x > y)
                      \/ key[y] < key[x] \/ (key[y] = key[x] /\ y > x)
    BY <1>1
  <2>1. x \in Int /\ y \in Int /\ key[x] \in Int /\ key[y] \in Int
    OBVIOUS
  <2> QED BY <2>1
<1>5. \A x \in S, y \in S, z \in S : <<x, y>> \in B /\ <<y, z>> \in B => <<x, z>> \in B
  <2> SUFFICES ASSUME NEW x \in S, NEW y \in S, NEW z \in S,
                      key[x] < key[y] \/ (key[x] = key[y] /\ x > y),
                      key[y] < key[z] \/ (key[y] = key[z] /\ y > z)
               PROVE  key[x] < key[z] \/ (key[x] = key[z] /\ x > z)
    BY <1>1
  <2>1. /\ x \in Int /\ y \in Int /\ z \in Int
        /\ key[x] \in Int /\ key[y] \in Int /\ key[z] \in Int
    OBVIOUS
  <2> QED BY <2>1
<1>6. Enumerates(InOrder(S, B), S)
  <2> HIDE DEF B
  <2> QED BY <1>3, <1>4, <1>5, OrderEnumerates
<1> HIDE DEF B
<1> QED BY <1>2, <1>6

LEMMA SortedPlain ==
    ASSUME NEW S \in SUBSET Int, IsFiniteSet(S)
    PROVE  Enumerates(SortedBy(S, LAMBDA x : x), S)
<1> DEFINE key == [x \in S |-> x]
           s == SortedBy(S, LAMBDA x : x)
           U(x) == {y \in S : y < x \/ (y = x /\ y > x)}
           V(x) == {y \in S : key[y] < key[x] \/ (key[y] = key[x] /\ y > x)}
           A(i) == CHOOSE x \in S : Cardinality(U(x)) = i - 1
           C(i) == CHOOSE x \in S : Cardinality(V(x)) = i - 1
<1>1. s = [i \in 1..Cardinality(S) |-> A(i)]
  BY DEF SortedBy
<1>2. \A x \in S : U(x) = V(x)
  OBVIOUS
<1>3. \A i : A(i) = C(i)
  <2> HIDE DEF U, V
  <2> QED BY <1>2
<1>4. s = [i \in 1..Cardinality(S) |-> C(i)]
  <2> HIDE DEF A, C, s
  <2> QED BY <1>1, <1>3
<1>5. \A x \in S : key[x] \in Int
  OBVIOUS
<1>6. Enumerates(s, S)
  <2> HIDE DEF key, s, A, U
  <2>1. ByKey(s, S, key)
    BY <1>4 DEF ByKey
  <2> HIDE DEF V, C
  <2> QED BY <1>5, <2>1, Sorted
<1> QED BY <1>6

\* The debts asked for up to a debt, after those before
AskedAfter(debts, n, before) ==
    IF debts[n].amount = 0 THEN before ELSE Append(before, debts[n])

LEMMA AskedUnfolds ==
    ASSUME NEW Q, NEW debts \in Seq(Q)
    PROVE  /\ Asked(debts)[0] = <<>>
           /\ \A n \in 1..Len(debts) : Asked(debts)[n] = AskedAfter(debts, n, Asked(debts)[n - 1])
<1> DEFINE N == Len(debts)
           First == <<>>
           Is(n, g) == g = [m \in 0..n |-> IF m = 0 THEN First ELSE AskedAfter(debts, m, g[m - 1])]
           K == {n \in Nat : \E g : Is(n, g)}
<1>0. N \in Nat
  OBVIOUS
<1>1. 0 \in K
  <2> DEFINE g == [m \in 0..0 |-> First]
  <2>1. Is(0, g)
    OBVIOUS
  <2> HIDE DEF g
  <2>2. \E x : Is(0, x)
    BY <2>1
  <2> QED BY <2>2
<1>2. ASSUME NEW n \in 1..N, n - 1 \in K PROVE n \in K
  <2>1. PICK g : Is(n - 1, g)
    BY <1>2
  <2> HIDE DEF First
  <2> DEFINE h == [m \in 0..n |-> IF m = 0 THEN First ELSE AskedAfter(debts, m, g[m - 1])]
  <2>2. \A m \in 0..(n - 1) : h[m] = g[m]
    BY <1>0, <2>1
  <2>3. \A m \in 1..n : m - 1 \in 0..(n - 1)
    BY <1>0
  <2> DEFINE A(m) == IF m = 0 THEN First ELSE AskedAfter(debts, m, g[m - 1])
             B(m) == IF m = 0 THEN First ELSE AskedAfter(debts, m, h[m - 1])
  <2>4. \A m \in 0..n : A(m) = B(m)
    <3>1. \A m \in 1..n : h[m - 1] = g[m - 1]
      BY <2>2, <2>3
    <3> HIDE DEF h
    <3> QED BY <1>0, <3>1
  <2>5. h = [m \in 0..n |-> A(m)]
    OBVIOUS
  <2>6. h = [m \in 0..n |-> B(m)]
    <3> HIDE DEF h, A, B
    <3> QED BY <2>4, <2>5
  <2>7. \E x : Is(n, x)
    <3> HIDE DEF h
    <3>1. Is(n, h)
      BY <2>6
    <3> QED BY <3>1
  <2>8. n \in Nat
    BY <1>0
  <2> QED BY <2>7, <2>8
<1>3. \A n \in 0..N : n \in K
  <2> HIDE DEF K, N
  <2> QED BY <1>0, <1>1, <1>2, UpTo
<1>4. \E g : Is(N, g)
  <2>1. N \in K
    <3> HIDE DEF K
    <3> QED BY <1>0, <1>3
  <2> HIDE DEF N, Is
  <2> QED BY <2>1
<1> DEFINE b == Asked(debts)
<1>5. b = CHOOSE g : Is(N, g)
  BY DEF Asked, AskedAfter
<1>6. Is(N, b)
  <2> HIDE DEF Is, b, N
  <2> QED BY <1>4, <1>5
<1> HIDE DEF First, b
<1>7. b = [m \in 0..N |-> IF m = 0 THEN First ELSE AskedAfter(debts, m, b[m - 1])]
  BY <1>6
<1>8. b[0] = First /\ \A n \in 1..N : b[n] = AskedAfter(debts, n, b[n - 1])
  BY <1>0, <1>7
<1> QED BY <1>8 DEF b, First

\* Some of the first n debts, each once
SomeOf(debts, n, due) ==
    \E f \in [DOMAIN due -> 1..n] :
       /\ \A i \in DOMAIN due : due[i] = debts[f[i]] /\ due[i].amount # 0
       /\ \A i \in DOMAIN due, j \in DOMAIN due : f[i] = f[j] => i = j

LEMMA SomeAfter ==
    ASSUME NEW Q, NEW debts \in Seq(Q), NEW n \in 1..Len(debts), NEW due \in Seq(Q),
           SomeOf(debts, n - 1, due)
    PROVE  LET next == AskedAfter(debts, n, due)
           IN next \in Seq(Q) /\ SomeOf(debts, n, next)
<1> DEFINE m == Len(due)
           N == Len(debts)
           next == Append(due, debts[n])
<1>0. /\ DOMAIN due = 1..m /\ m \in Nat /\ N \in Nat /\ n \in Int /\ n \in 1..N
      /\ DOMAIN debts = 1..N /\ debts[n] \in Q
  BY SeqFacts
<1> HIDE DEF m, N
<1>1. PICK f \in [DOMAIN due -> 1..(n - 1)] :
         /\ \A i \in DOMAIN due : due[i] = debts[f[i]] /\ due[i].amount # 0
         /\ \A i \in DOMAIN due, j \in DOMAIN due : f[i] = f[j] => i = j
  BY DEF SomeOf
<1>2. \A i \in 1..m : f[i] \in 1..n /\ f[i] < n
  BY <1>0, <1>1
<1>3. CASE debts[n].amount = 0
  <2>1. f \in [DOMAIN due -> 1..n]
    BY <1>0, <1>2
  <2>2. SomeOf(debts, n, due)
    BY <1>1, <2>1 DEF SomeOf
  <2>3. AskedAfter(debts, n, due) = due
    BY <1>3 DEF AskedAfter
  <2> QED BY <2>2, <2>3
<1>4. CASE debts[n].amount # 0
  <2> DEFINE g == [i \in 1..(m + 1) |-> IF i = m + 1 THEN n ELSE f[i]]
  <2>1. /\ next \in Seq(Q) /\ DOMAIN next = 1..(m + 1) /\ next[m + 1] = debts[n]
        /\ \A i \in 1..m : next[i] = due[i]
    BY <1>0, AppendFacts DEF m
  <2> HIDE DEF next
  <2>2. \A i \in 1..(m + 1) : i = m + 1 \/ i \in 1..m
    BY <1>0
  <2>3. /\ g[m + 1] = n /\ \A i \in 1..m : g[i] = f[i] /\ i # m + 1
        /\ DOMAIN g = 1..(m + 1) /\ m + 1 \in 1..(m + 1)
    BY <1>0
  <2>4. \A i \in 1..(m + 1) : g[i] \in 1..n
    BY <1>0, <1>2, <2>2, <2>3
  <2>5. g \in [1..(m + 1) -> 1..n]
    BY <2>4
  <2> HIDE DEF g
  <2>6. \A i \in 1..(m + 1) : next[i] = debts[g[i]] /\ next[i].amount # 0
    BY <1>0, <1>1, <1>4, <2>1, <2>2, <2>3
  <2>7. \A i \in 1..(m + 1), j \in 1..(m + 1) : g[i] = g[j] => i = j
    <3> SUFFICES ASSUME NEW i \in 1..(m + 1), NEW j \in 1..(m + 1), g[i] = g[j] PROVE i = j
      OBVIOUS
    <3>1. \A k \in 1..m : g[k] # g[m + 1]
      <4> SUFFICES ASSUME NEW k \in 1..m PROVE g[k] # n
        BY <2>3
      <4>1. g[k] = f[k] /\ f[k] < n
        BY <1>2, <2>3
      <4>2. f[k] \in 1..n
        BY <1>2
      <4> QED BY <4>1, <4>2
    <3>2. CASE i = m + 1 \/ j = m + 1
      <4>1. CASE i = m + 1 /\ j \in 1..m
        BY <3>1, <4>1
      <4>2. CASE i \in 1..m /\ j = m + 1
        BY <3>1, <4>2
      <4> QED BY <2>2, <3>2, <4>1, <4>2
    <3>3. CASE i \in 1..m /\ j \in 1..m
      <4>1. f[i] = f[j]
        BY <2>3, <3>3
      <4>2. i \in DOMAIN due /\ j \in DOMAIN due
        BY <1>0, <3>3
      <4> QED BY <1>1, <4>1, <4>2
    <3> QED BY <2>2, <3>2, <3>3
  <2>8. SomeOf(debts, n, next)
    <3> DEFINE D == DOMAIN next
    <3>1. D = 1..(m + 1)
      BY <2>1
    <3> HIDE DEF D
    <3>2. /\ g \in [D -> 1..n]
          /\ \A i \in D : next[i] = debts[g[i]] /\ next[i].amount # 0
          /\ \A i \in D, j \in D : g[i] = g[j] => i = j
      BY <2>5, <2>6, <2>7, <3>1
    <3>3. \E e \in [D -> 1..n] :
             /\ \A i \in D : next[i] = debts[e[i]] /\ next[i].amount # 0
             /\ \A i \in D, j \in D : e[i] = e[j] => i = j
      BY <3>2
    <3> QED BY <3>3 DEF SomeOf, D
  <2> QED BY <1>4, <2>1, <2>8 DEF AskedAfter, next
<1> QED BY <1>3, <1>4

\* The debts of a draft to which some amount is applied, in their order
LEMMA ApplicableFacts ==
    ASSUME NEW Q, NEW debts \in Seq(Q)
    PROVE  LET due == Applicable(debts)
           IN /\ due \in Seq(Q)
              /\ \E f : /\ \A i \in DOMAIN due : /\ f[i] \in DOMAIN debts
                                                 /\ due[i] = debts[f[i]] /\ due[i].amount # 0
                        /\ \A i \in DOMAIN due, j \in DOMAIN due : f[i] = f[j] => i = j
<1> DEFINE N == Len(debts)
           b == Asked(debts)
           K == {n \in Nat : b[n] \in Seq(Q) /\ SomeOf(debts, n, b[n])}
           none == <<>>
<1>1. N \in Nat /\ DOMAIN debts = 1..N
  BY SeqFacts
<1>2. b[0] = none /\ \A n \in 1..N : b[n] = AskedAfter(debts, n, b[n - 1])
  BY AskedUnfolds
<1> HIDE DEF b
<1>3. 0 \in K
  <2>1. none \in Seq(Q) /\ DOMAIN none = {}
    OBVIOUS
  <2> DEFINE f == [i \in {} |-> 0]
  <2>2. f \in [{} -> 1..0]
    OBVIOUS
  <2> HIDE DEF none, f
  <2>3. SomeOf(debts, 0, none)
    BY <2>1, <2>2 DEF SomeOf
  <2> QED BY <1>2, <2>1, <2>3
<1>4. ASSUME NEW n \in 1..N, n - 1 \in K PROVE n \in K
  <2>1. b[n - 1] \in Seq(Q) /\ SomeOf(debts, n - 1, b[n - 1])
    BY <1>4
  <2>2. AskedAfter(debts, n, b[n - 1]) \in Seq(Q) /\ SomeOf(debts, n, AskedAfter(debts, n, b[n - 1]))
    BY <2>1, SomeAfter
  <2>3. n \in Nat
    BY <1>1
  <2> QED BY <1>2, <2>2, <2>3
<1>5. N \in K
  <2>1. \A n \in 0..N : n \in K
    <3> HIDE DEF K, N
    <3> QED BY <1>1, <1>3, <1>4, UpTo
  <2> HIDE DEF K, N
  <2> QED BY <1>1, <2>1
<1>6. b[N] = Applicable(debts)
  BY DEF Applicable, b
<1> DEFINE due == Applicable(debts)
<1>7. due \in Seq(Q) /\ SomeOf(debts, N, due)
  BY <1>5, <1>6
<1> HIDE DEF due, N
<1> QED BY <1>1, <1>7 DEF SomeOf, due

\* What is left of a credit after a debt
Leaves(debts, i, before) == before - Lesser(debts[i].unrec, before)

LEMMA LeftForUnfolds ==
    ASSUME NEW Q, NEW debts \in Seq(Q), NEW credit
    PROVE  /\ LeftFor(debts, credit)[0] = credit
           /\ \A n \in 1..Len(debts) : LeftFor(debts, credit)[n] = Leaves(debts, n, LeftFor(debts, credit)[n - 1])
<1> DEFINE N == Len(debts)
           First == credit
           Is(n, g) == g = [m \in 0..n |-> IF m = 0 THEN First ELSE Leaves(debts, m, g[m - 1])]
           K == {n \in Nat : \E g : Is(n, g)}
<1>0. N \in Nat
  OBVIOUS
<1>1. 0 \in K
  <2> DEFINE g == [m \in 0..0 |-> First]
  <2>1. Is(0, g)
    OBVIOUS
  <2> HIDE DEF g
  <2>2. \E x : Is(0, x)
    BY <2>1
  <2> QED BY <2>2
<1>2. ASSUME NEW n \in 1..N, n - 1 \in K PROVE n \in K
  <2>1. PICK g : Is(n - 1, g)
    BY <1>2
  <2> HIDE DEF First
  <2> DEFINE h == [m \in 0..n |-> IF m = 0 THEN First ELSE Leaves(debts, m, g[m - 1])]
  <2>2. \A m \in 0..(n - 1) : h[m] = g[m]
    BY <1>0, <2>1
  <2>3. \A m \in 1..n : m - 1 \in 0..(n - 1)
    BY <1>0
  <2> DEFINE A(m) == IF m = 0 THEN First ELSE Leaves(debts, m, g[m - 1])
             B(m) == IF m = 0 THEN First ELSE Leaves(debts, m, h[m - 1])
  <2>4. \A m \in 0..n : A(m) = B(m)
    <3>1. \A m \in 1..n : h[m - 1] = g[m - 1]
      BY <2>2, <2>3
    <3> HIDE DEF h
    <3> QED BY <1>0, <3>1
  <2>5. h = [m \in 0..n |-> A(m)]
    OBVIOUS
  <2>6. h = [m \in 0..n |-> B(m)]
    <3> HIDE DEF h, A, B
    <3> QED BY <2>4, <2>5
  <2>7. \E x : Is(n, x)
    <3> HIDE DEF h
    <3>1. Is(n, h)
      BY <2>6
    <3> QED BY <3>1
  <2>8. n \in Nat
    BY <1>0
  <2> QED BY <2>7, <2>8
<1>3. \A n \in 0..N : n \in K
  <2> HIDE DEF K, N
  <2> QED BY <1>0, <1>1, <1>2, UpTo
<1>4. \E g : Is(N, g)
  <2>1. N \in K
    <3> HIDE DEF K
    <3> QED BY <1>0, <1>3
  <2> HIDE DEF N, Is
  <2> QED BY <2>1
<1> DEFINE b == LeftFor(debts, credit)
<1>5. b = CHOOSE g : Is(N, g)
  BY DEF LeftFor, Leaves
<1>6. Is(N, b)
  <2> HIDE DEF Is, b, N
  <2> QED BY <1>4, <1>5
<1> HIDE DEF First, b
<1>7. b = [m \in 0..N |-> IF m = 0 THEN First ELSE Leaves(debts, m, b[m - 1])]
  BY <1>6
<1>8. b[0] = First /\ \A n \in 1..N : b[n] = Leaves(debts, n, b[n - 1])
  BY <1>0, <1>7
<1> QED BY <1>8 DEF b, First

DebtLine == [line : Nat, unrec : Nat, amount : Nat]

LEMMA LesserFacts ==
    ASSUME NEW x \in Nat, NEW y \in Nat
    PROVE  Lesser(x, y) \in Nat /\ Lesser(x, y) <= x /\ Lesser(x, y) <= y
BY DEF Lesser

LEMMA AllocateFacts ==
    ASSUME NEW debts \in Seq(DebtLine), NEW credit \in Nat
    PROVE  LET offered == Allocate(debts, credit)
           IN /\ offered \in Seq(DebtLine) /\ DOMAIN offered = DOMAIN debts
              /\ \A i \in DOMAIN debts : /\ offered[i].line = debts[i].line
                                         /\ offered[i].unrec = debts[i].unrec
                                         /\ offered[i].amount <= debts[i].unrec
<1> DEFINE left == LeftFor(debts, credit)
           N == Len(debts)
           K == {i \in Nat : left[i] \in Nat}
           r == Allocate(debts, credit)
<1>0. DOMAIN debts = 1..N /\ N \in Nat /\ \A i \in DOMAIN debts : debts[i] \in DebtLine
  BY SeqFacts
<1>1. left[0] = credit /\ \A i \in 1..N : left[i] = Leaves(debts, i, left[i - 1])
  <2> DEFINE Q == DebtLine
  <2>1. debts \in Seq(Q)
    OBVIOUS
  <2> HIDE DEF Q
  <2> QED BY <2>1, LeftForUnfolds
<1>2. \A i \in 1..N : debts[i].unrec \in Nat
  BY <1>0 DEF DebtLine
<1>3. \A i \in 0..N : i \in K
  <2>1. 0 \in K
    BY <1>1
  <2>2. ASSUME NEW i \in 1..N, i - 1 \in K PROVE i \in K
    <3> DEFINE x == left[i - 1]
               y == left[i]
               u == debts[i].unrec
    <3>1. y = x - Lesser(u, x)
      BY <1>1 DEF Leaves
    <3>2. x \in Nat /\ u \in Nat
      BY <1>2, <2>2
    <3> HIDE DEF x, y, u
    <3>3. Lesser(u, x) \in Nat /\ Lesser(u, x) <= x
      BY <3>2, LesserFacts
    <3>4. y \in Nat
      BY <3>1, <3>2, <3>3
    <3>5. i \in Nat
      BY <1>0
    <3> QED BY <3>4, <3>5 DEF y
  <2> HIDE DEF K, N
  <2> QED BY <1>0, <2>1, <2>2, UpTo
<1>4. \A i \in 1..N : i - 1 \in 0..N
  BY <1>0
<1>5. \A i \in 1..N : left[i - 1] \in Nat
  BY <1>3, <1>4
<1>6. r = [i \in DOMAIN debts |-> [debts[i] EXCEPT !.amount = Lesser(debts[i].unrec, left[i - 1])]]
  BY DEF Allocate
<1> HIDE DEF left, r
<1>7. ASSUME NEW i \in DOMAIN debts
      PROVE  /\ r[i] \in DebtLine /\ r[i].line = debts[i].line
             /\ r[i].unrec = debts[i].unrec /\ r[i].amount <= debts[i].unrec
  <2> DEFINE a == Lesser(debts[i].unrec, left[i - 1])
  <2>1. a \in Nat /\ a <= debts[i].unrec
    BY <1>0, <1>2, <1>5, LesserFacts
  <2>2. r[i] = [debts[i] EXCEPT !.amount = a]
    BY <1>6
  <2> HIDE DEF a
  <2>3. debts[i] \in DebtLine
    BY <1>0
  <2> QED BY <2>1, <2>2, <2>3 DEF DebtLine
<1>8. DOMAIN r = DOMAIN debts
  BY <1>6
<1>9. r \in Seq(DebtLine)
  <2> DEFINE Q == DebtLine
  <2>1. r = [i \in 1..N |-> r[i]] /\ \A i \in 1..N : r[i] \in Q
    BY <1>0, <1>6, <1>7, <1>8
  <2> HIDE DEF Q
  <2>2. r \in Seq(Q)
    BY <1>0, <2>1
  <2> QED BY <2>2 DEF Q
<1> QED BY <1>7, <1>8, <1>9 DEF r

LEMMA ResidualFacts ==
    ASSUME NEW book \in Book, NEW l \in DOMAIN book
    PROVE  /\ Group(book, l) \in SUBSET DOMAIN book /\ l \in Group(book, l)
           /\ Residual(book, l) \in Nat
           /\ Residual(book, l) = Abs(Total(book, Group(book, l)))
<1>1. Group(book, l) \in SUBSET DOMAIN book /\ l \in Group(book, l)
  BY DEF Group
<1>2. Total(book, Group(book, l)) \in Int
  BY <1>1, TotalWhole
<1> QED BY <1>1, <1>2 DEF Residual, Abs

LEMMA OfferFacts ==
    ASSUME ledger \in Book, NEW S \in SUBSET DOMAIN ledger, NEW lines, Enumerates(lines, S),
           NEW credit \in Nat
    PROVE  LET debts == Offer(lines, credit)
           IN /\ debts \in Seq(DebtLine) /\ DOMAIN debts = DOMAIN lines
              /\ \A i \in DOMAIN debts : /\ debts[i].line = lines[i] /\ debts[i].line \in S
                                         /\ debts[i].amount <= debts[i].unrec
              /\ \A i \in DOMAIN debts, j \in DOMAIN debts :
                    debts[i].line = debts[j].line => i = j
<1> DEFINE d == [i \in DOMAIN lines |-> [line |-> lines[i], unrec |-> Residual(ledger, lines[i]),
                                         amount |-> 0]]
           debts == Offer(lines, credit)
<1>1. /\ DOMAIN lines = 1..Len(lines) /\ Len(lines) \in Nat /\ \A i \in DOMAIN lines : lines[i] \in S
      /\ \A i \in DOMAIN lines, j \in DOMAIN lines : lines[i] = lines[j] => i = j
  BY SeqFacts DEF Enumerates
<1>2. \A l \in S : l \in DOMAIN ledger /\ l \in Nat /\ Residual(ledger, l) \in Nat
  <2>1. \A l \in S : l \in DOMAIN ledger /\ l \in Nat
    BY BookLines
  <2> QED BY <2>1, ResidualFacts
<1>3. \A i \in DOMAIN lines : d[i] \in DebtLine /\ d[i].line = lines[i]
  BY <1>1, <1>2 DEF DebtLine
<1>4. d \in Seq(DebtLine) /\ DOMAIN d = DOMAIN lines
  <2> DEFINE Q == DebtLine
  <2>1. d = [i \in 1..Len(lines) |-> d[i]] /\ \A i \in 1..Len(lines) : d[i] \in Q
    BY <1>1, <1>3
  <2>2. DOMAIN d = DOMAIN lines
    OBVIOUS
  <2> HIDE DEF Q, d
  <2>3. d \in Seq(Q)
    BY <1>1, <2>1
  <2> QED BY <2>2, <2>3 DEF Q
<1>5. debts = Allocate(d, credit)
  BY DEF Offer
<1> HIDE DEF d, debts
<1>6. /\ debts \in Seq(DebtLine) /\ DOMAIN debts = DOMAIN d
      /\ \A i \in DOMAIN d : /\ debts[i].line = d[i].line
                             /\ debts[i].unrec = d[i].unrec
                             /\ debts[i].amount <= d[i].unrec
  BY <1>4, <1>5, AllocateFacts
<1>7. \A i \in DOMAIN debts : /\ debts[i].line = lines[i] /\ debts[i].line \in S
                              /\ debts[i].amount <= debts[i].unrec
  BY <1>1, <1>3, <1>4, <1>6
<1>8. \A i \in DOMAIN debts, j \in DOMAIN debts : debts[i].line = debts[j].line => i = j
  BY <1>1, <1>4, <1>6, <1>7
<1> QED BY <1>4, <1>6, <1>7, <1>8 DEF debts

-----------------------------------------------------------------------------
(* What the documents hold                                                 *)

\* A line of the ledger is a debit or a credit, and the lines of a receipt
\* are receivables of the customer.
Ledger(book) ==
    /\ book \in Book
    /\ \A l \in DOMAIN book :
          /\ book[l].debit = 0 \/ book[l].credit = 0
          /\ book[l].of \in Receipts =>
                book[l].type = "receivable" /\ book[l].partner = Customer

OwnLine(book, l) ==
    l \in DOMAIN book /\ book[l].type = "receivable" /\ book[l].partner = Customer

\* The debts of a draft are different lines of the customer.
DebtLines(book, debts) ==
    /\ debts \in Seq(DebtLine)
    /\ \A i \in DOMAIN debts : /\ OwnLine(book, debts[i].line) /\ book[debts[i].line].debit > 0
                               /\ debts[i].amount <= debts[i].unrec
    /\ \A i \in DOMAIN debts, j \in DOMAIN debts : debts[i].line = debts[j].line => i = j

\* So are the credits of a reconciliation.
CreditLine == [line : Nat, original : Nat, amount : Nat]
UsedCredits(book, uacs) ==
    /\ uacs \in Seq(CreditLine)
    /\ \A i \in DOMAIN uacs : /\ OwnLine(book, uacs[i].line) /\ book[uacs[i].line].credit > 0
                              /\ uacs[i].original > 0 /\ uacs[i].amount <= uacs[i].original
    /\ \A i \in DOMAIN uacs, j \in DOMAIN uacs : uacs[i].line = uacs[j].line => i = j

\* The lines of a voucher are different lines of its account.
AccountOf(type) == IF type = "receipt" THEN "receivable" ELSE "payable"
AssignedLine == [line : Nat, type : {"dr", "cr"}, unrec : Nat, amount : Nat]
OfAccount(book, type, l) ==
    l \in DOMAIN book /\ book[l].type = AccountOf(type) /\ book[l].partner \in ChildOf[Customer]
VoucherLineOK(book, type, x) ==
    /\ x \in AssignedLine /\ OfAccount(book, type, x.line) /\ x.amount <= x.unrec
    /\ x.type = "dr" <=> book[x.line].credit > 0
AssignedLines(book, type, lines) ==
    /\ lines \in Seq(AssignedLine)
    /\ \A i \in DOMAIN lines : VoucherLineOK(book, type, lines[i])
    /\ \A i \in DOMAIN lines, j \in DOMAIN lines : lines[i].line = lines[j].line => i = j

Payment == [cash : Nat, bt : Nat, qm : Nat]
ReceiptRecord == [state : {"none", "draft", "posted", "cancel", "deleted"}, paid : Payment,
                  lines : SUBSET Nat, owed : Int, debts : Seq(DebtLine)]
ReconcileRecord == [state : {"none", "draft", "posted"}, uacs : Seq(CreditLine),
                    debts : Seq(DebtLine)]
VoucherRecord == [state : {"none", "draft", "posted"}, type : {"receipt", "payment"},
                  amount : Nat, lines : Seq(AssignedLine)]

ReceiptsType == receipt \in [Receipts -> ReceiptRecord]
                /\ \A r \in Receipts : DebtLines(ledger, receipt[r].debts)
ReconcilesType == recon \in [Reconciles -> ReconcileRecord]
                  /\ \A k \in Reconciles : /\ UsedCredits(ledger, recon[k].uacs)
                                           /\ DebtLines(ledger, recon[k].debts)
VouchersType == voucher \in [VoucherIds -> VoucherRecord]
                /\ \A v \in VoucherIds : AssignedLines(ledger, voucher[v].type, voucher[v].lines)
VouchersTypeOK ==
    /\ Ledger(ledger) /\ ReceiptsType /\ ReconcilesType /\ VouchersType
    /\ changes \in Nat /\ clean \in BOOLEAN

\* A later ledger: lines are added, and a line keeps all but its
\* reconciliation and a part of its credit.
Grows(b, c) ==
    /\ DOMAIN b \subseteq DOMAIN c
    /\ \A l \in DOMAIN b :
          /\ c[l].of = b[l].of /\ c[l].type = b[l].type /\ c[l].partner = b[l].partner
          /\ c[l].due = b[l].due /\ c[l].debit = b[l].debit
          /\ c[l].credit > 0 <=> b[l].credit > 0

LEMMA GrowsKeeps ==
    ASSUME NEW b, NEW c, Grows(b, c)
    PROVE  /\ \A debts : DebtLines(b, debts) => DebtLines(c, debts)
           /\ \A uacs : UsedCredits(b, uacs) => UsedCredits(c, uacs)
           /\ \A type, lines : AssignedLines(b, type, lines) => AssignedLines(c, type, lines)
<1>1. \A debts : DebtLines(b, debts) => DebtLines(c, debts)
  BY DEF Grows, DebtLines, OwnLine
<1>2. \A uacs : UsedCredits(b, uacs) => UsedCredits(c, uacs)
  BY DEF Grows, UsedCredits, OwnLine
<1>3. \A type, lines : AssignedLines(b, type, lines) => AssignedLines(c, type, lines)
  BY DEF Grows, AssignedLines, VoucherLineOK, OfAccount
<1> QED BY <1>1, <1>2, <1>3

\* Drafts, and what is kept of posted documents, stay as they are.
LEMMA DocumentsKeep ==
    ASSUME VouchersTypeOK, Grows(ledger, ledger')
    PROVE  /\ receipt' \in [Receipts -> ReceiptRecord]
              /\ (\A r \in Receipts : receipt'[r].debts = receipt[r].debts) => ReceiptsType'
           /\ recon' \in [Reconciles -> ReconcileRecord]
              /\ (\A k \in Reconciles : recon'[k].debts = recon[k].debts
                                        /\ recon'[k].uacs = recon[k].uacs) => ReconcilesType'
           /\ voucher' \in [VoucherIds -> VoucherRecord]
              /\ (\A v \in VoucherIds : voucher'[v].lines = voucher[v].lines
                                        /\ voucher'[v].type = voucher[v].type) => VouchersType'
BY GrowsKeeps DEF VouchersTypeOK, ReceiptsType, ReconcilesType, VouchersType

-----------------------------------------------------------------------------
(* What a posting does to the ledger                                       *)

LEMMA NewLines ==
    ASSUME NEW of \in Documents, NEW amount \in Nat
    PROVE  \A x \in {LineOf(0, amount, of), LineOf(amount, 0, of)} :
              /\ x \in MoveLine
              /\ x.debit = 0 \/ x.credit = 0
              /\ x.of = of /\ x.type = "receivable" /\ x.partner = Customer
              /\ x.rec = 0 /\ x.due = 0
<1>1. Customer \in Partners
  BY ReceiptsAssumption
<1>2. ASSUME NEW debit \in Nat, NEW credit \in Nat
      PROVE  LET x == LineOf(debit, credit, of)
             IN /\ x \in MoveLine /\ x.debit = debit /\ x.credit = credit
                /\ x.of = of /\ x.type = "receivable" /\ x.partner = Customer
                /\ x.rec = 0 /\ x.due = 0
  BY <1>1 DEF LineOf, MoveLine
<1> QED BY <1>2

\* book with some lines more
Extended(book, extra) ==
    /\ extra \in Seq(MoveLine)
    /\ \A k \in DOMAIN extra : /\ extra[k].debit = 0 \/ extra[k].credit = 0
                               /\ extra[k].of \in Receipts =>
                                     extra[k].type = "receivable" /\ extra[k].partner = Customer

\* c is book with the lines of extra, and some of them are reconciled.
PostedOn(book, extra, c) ==
    /\ Ledger(c) /\ Grows(book, c) /\ Len(c) = Len(book) + Len(extra)
    /\ DOMAIN c = 1..Len(c) /\ DOMAIN book = 1..Len(book)
    /\ \A m \in DOMAIN book : Alike(book[m], c[m])
    /\ \A k \in 1..Len(extra) : Alike(extra[k], c[Len(book) + k])

LEMMA ExtendedFacts ==
    ASSUME NEW book, Ledger(book), NEW extra, Extended(book, extra)
    PROVE  /\ PostedOn(book, extra, book \o extra)
           /\ \A m \in DOMAIN book : (book \o extra)[m] = book[m]
           /\ \A k \in 1..Len(extra) : (book \o extra)[Len(book) + k] = extra[k]
<1> DEFINE Q == MoveLine
           c == book \o extra
<1>1. book \in Seq(Q) /\ extra \in Seq(Q)
  BY DEF Ledger, Book, Extended
<1>2. /\ c \in Seq(Q) /\ Len(c) = Len(book) + Len(extra) /\ DOMAIN c = 1..(Len(book) + Len(extra))
      /\ \A k \in 1..Len(book) : c[k] = book[k]
      /\ \A k \in 1..Len(extra) : c[Len(book) + k] = extra[k]
  <2> HIDE DEF Q
  <2> QED BY <1>1, ConcatFacts
<1>3. /\ DOMAIN book = 1..Len(book) /\ DOMAIN extra = 1..Len(extra)
      /\ Len(book) \in Nat /\ Len(extra) \in Nat
  <2> HIDE DEF Q
  <2> QED BY <1>1, SeqFacts
<1> HIDE DEF c
<1>4. DOMAIN book \subseteq DOMAIN c
  BY <1>2, <1>3
<1>5. Grows(book, c)
  BY <1>2, <1>3, <1>4 DEF Grows
<1>6. Ledger(c)
  <2> SUFFICES ASSUME NEW l \in DOMAIN c
               PROVE  /\ c[l].debit = 0 \/ c[l].credit = 0
                      /\ c[l].of \in Receipts => c[l].type = "receivable" /\ c[l].partner = Customer
    BY <1>2 DEF Ledger, Book
  <2>1. CASE l \in DOMAIN book
    <3>1. c[l] = book[l]
      BY <1>2, <1>3, <2>1
    <3> QED BY <2>1, <3>1 DEF Ledger
  <2>2. CASE l \notin DOMAIN book
    <3>1. l - Len(book) \in 1..Len(extra) /\ Len(book) + (l - Len(book)) = l
      BY <1>2, <1>3, <2>2
    <3>2. c[l] = extra[l - Len(book)]
      BY <1>2, <3>1
    <3> QED BY <1>3, <3>1, <3>2 DEF Extended
  <2> QED BY <2>1, <2>2
<1>7. PostedOn(book, extra, c)
  BY <1>2, <1>3, <1>5, <1>6 DEF PostedOn, Alike
<1> QED BY <1>2, <1>3, <1>7 DEF c

\* Reconciling pairs does not change that.
LEMMA BooksPosted ==
    ASSUME NEW book, Ledger(book), NEW extra, Extended(book, extra),
           NEW pairs \in Seq((DOMAIN (book \o extra)) \X (DOMAIN (book \o extra)))
    PROVE  \A n \in 0..Len(pairs) : PostedOn(book, extra, Books(book \o extra, pairs)[n])
<1> DEFINE b == book \o extra
           c(n) == Books(b, pairs)[n]
<1>1. PostedOn(book, extra, b)
  BY ExtendedFacts
<1>2. b \in Book
  BY <1>1 DEF PostedOn, Ledger
<1> SUFFICES ASSUME NEW n \in 0..Len(pairs) PROVE PostedOn(book, extra, c(n))
  OBVIOUS
<1> DEFINE x == c(n)
<1>3. /\ x \in Book /\ DOMAIN x = DOMAIN b /\ Len(x) = Len(b)
      /\ \A m \in DOMAIN b : Alike(b[m], x[m])
  <2>1. pairs \in Seq((DOMAIN b) \X (DOMAIN b))
    OBVIOUS
  <2> HIDE DEF b
  <2> QED BY <1>2, <2>1, BooksFacts
<1> HIDE DEF x, b, c
<1>4. Ledger(x)
  <2>1. Ledger(b)
    BY <1>1 DEF PostedOn
  <2> QED BY <1>3, <2>1 DEF Ledger, Alike
<1>5. Grows(book, x)
  BY <1>1, <1>3 DEF PostedOn, Grows, Alike
<1>6. \A m \in DOMAIN book : Alike(book[m], x[m])
  BY <1>1, <1>3, <1>5 DEF PostedOn, Alike, Grows
<1>7. \A k \in 1..Len(extra) : Len(book) + k \in DOMAIN b
  <2>1. Len(book) \in Nat /\ Len(extra) \in Nat
    BY SeqFacts DEF Ledger, Book, Extended
  <2>2. DOMAIN b = 1..Len(b) /\ Len(b) = Len(book) + Len(extra)
    BY <1>1 DEF PostedOn
  <2> QED BY <2>1, <2>2
<1>8. ASSUME NEW k \in 1..Len(extra) PROVE Alike(extra[k], x[Len(book) + k])
  <2>1. Alike(extra[k], b[Len(book) + k]) /\ Alike(b[Len(book) + k], x[Len(book) + k])
    BY <1>1, <1>3, <1>7 DEF PostedOn
  <2> QED BY <2>1 DEF Alike
<1> QED BY <1>1, <1>3, <1>4, <1>5, <1>6, <1>8 DEF PostedOn, x, c, b

\* What is added to a set of lines is what the new lines of it come to.
NewOf(book, c) == (DOMAIN c) \ (DOMAIN book)

LEMMA PostedTotal ==
    ASSUME NEW book, Ledger(book), NEW extra, Extended(book, extra), NEW c, PostedOn(book, extra, c),
           NEW S \in SUBSET DOMAIN c
    PROVE  /\ Total(c, S) = Total(book, S \cap DOMAIN book) + Total(c, S \cap NewOf(book, c))
           /\ Total(book, S \cap DOMAIN book) \in Int /\ Total(c, S \cap NewOf(book, c)) \in Int
<1> DEFINE A == S \cap DOMAIN book
           B == S \cap NewOf(book, c)
<1>1. A \cap B = {} /\ A \cup B = S /\ A \in SUBSET DOMAIN book
      /\ A \in SUBSET DOMAIN c /\ B \in SUBSET DOMAIN c
  BY DEF NewOf
<1>2. book \in Book /\ c \in Book /\ \A m \in DOMAIN book : Alike(book[m], c[m])
  BY DEF Ledger, PostedOn
<1> HIDE DEF A, B
<1>3. /\ IsFiniteSet(A) /\ Whole(Signed(c), A) /\ IsFiniteSet(B) /\ Whole(Signed(c), B)
      /\ Total(c, B) \in Int
  BY <1>1, <1>2, TotalWhole
<1>4. Total(c, S) = Total(c, A) + Total(c, B)
  <2>1. SumOver(Signed(c), A \cup B) = SumOver(Signed(c), A) + SumOver(Signed(c), B)
    BY <1>1, <1>3, SumUnion
  <2> QED BY <1>1, <2>1 DEF Total
<1>5. Total(c, A) = Total(book, A)
  <2>1. \A m \in DOMAIN book : Signed(book)[m] = book[m].debit - book[m].credit
    BY <1>2, TotalWhole
  <2>2. \A m \in DOMAIN c : Signed(c)[m] = c[m].debit - c[m].credit
    BY <1>2, TotalWhole
  <2>3. \A m \in A : Signed(c)[m] = Signed(book)[m]
    BY <1>1, <1>2, <2>1, <2>2 DEF Alike
  <2> QED BY <1>3, <2>3, SumSame DEF Total
<1>6. Total(book, A) \in Int
  BY <1>1, <1>2, TotalWhole
<1> QED BY <1>3, <1>4, <1>5, <1>6 DEF A, B

\* The new lines add up to what was added.
LEMMA NewTotal ==
    ASSUME NEW book, Ledger(book), NEW extra, Extended(book, extra), NEW c, PostedOn(book, extra, c)
    PROVE  Total(c, NewOf(book, c)) = SumOver(Signed(extra), 1..Len(extra))
<1>1. /\ Len(book) \in Nat /\ Len(extra) \in Nat /\ DOMAIN extra = 1..Len(extra)
      /\ DOMAIN book = 1..Len(book) /\ DOMAIN c = 1..Len(c) /\ Len(c) = Len(book) + Len(extra)
  BY SeqFacts DEF Ledger, Book, Extended, PostedOn
<1>2. NewOf(book, c) = (Len(book) + 1)..(Len(book) + Len(extra))
  BY <1>1 DEF NewOf
<1>3. extra \in Book /\ c \in Book
  BY DEF Extended, Book, PostedOn, Ledger
<1>4. Whole(Signed(extra), 1..Len(extra))
  BY <1>1, <1>3, TotalWhole
<1>5. \A k \in 1..Len(extra) : Signed(c)[Len(book) + k] = Signed(extra)[k]
  <2> SUFFICES ASSUME NEW k \in 1..Len(extra) PROVE Signed(c)[Len(book) + k] = Signed(extra)[k]
    OBVIOUS
  <2>1. Len(book) + k \in DOMAIN c
    BY <1>1
  <2>2. Alike(extra[k], c[Len(book) + k])
    BY DEF PostedOn
  <2> QED BY <1>1, <1>3, <2>1, <2>2, TotalWhole DEF Alike
<1> QED BY <1>1, <1>2, <1>4, <1>5, SumShift DEF Total

LEMMA SumNegative ==
    ASSUME NEW f, NEW g, NEW S, IsFiniteSet(S), Whole(f, S), \A x \in S : g[x] = -f[x]
    PROVE  SumOver(g, S) = -SumOver(f, S)
<1> DEFINE C == {T \in SUBSET S : SumOver(g, T) = -SumOver(f, T)}
<1>1. {} \in C
  BY SumEmpty
<1>2. ASSUME NEW T \in SUBSET S, T \in C, NEW x \in S \ T PROVE T \cup {x} \in C
  <2>1. IsFiniteSet(T) /\ Whole(f, T) /\ f[x] \in Int
    BY FS_Subset DEF Whole
  <2>2. Whole(g, T) /\ g[x] \in Int
    BY <2>1 DEF Whole
  <2>3. SumOver(f, T \cup {x}) = f[x] + SumOver(f, T)
    BY <2>1, SumAdd
  <2>4. SumOver(g, T \cup {x}) = g[x] + SumOver(g, T)
    BY <2>1, <2>2, SumAdd
  <2>5. SumOver(f, T) \in Int
    BY <2>1, SumWhole
  <2> QED BY <1>2, <2>1, <2>3, <2>4, <2>5
<1>3. S \in C
  <2> HIDE DEF C
  <2> QED BY <1>1, <1>2, SetInduct
<1> QED BY <1>3

LEMMA SumOne ==
    ASSUME NEW f, NEW x, f[x] \in Int
    PROVE  SumOver(f, {x}) = f[x]
<1>1. SumOver(f, {} \cup {x}) = f[x] + SumOver(f, {})
  BY FS_EmptySet, SumAdd DEF Whole
<1>2. {} \cup {x} = {x}
  OBVIOUS
<1> QED BY <1>1, <1>2, SumEmpty

LEMMA ConcatTotal ==
    ASSUME NEW s \in Book, NEW t \in Book
    PROVE  SumOver(Signed(s \o t), 1..Len(s \o t))
             = SumOver(Signed(s), 1..Len(s)) + SumOver(Signed(t), 1..Len(t))
<1> DEFINE c == s \o t
           A == 1..Len(s)
           B == (Len(s) + 1)..(Len(s) + Len(t))
           Q == MoveLine
<1>1. /\ c \in Seq(Q) /\ Len(c) = Len(s) + Len(t) /\ DOMAIN c = 1..(Len(s) + Len(t))
      /\ \A k \in 1..Len(s) : c[k] = s[k]
      /\ \A k \in 1..Len(t) : c[Len(s) + k] = t[k]
  <2>1. s \in Seq(Q) /\ t \in Seq(Q)
    BY DEF Book
  <2> HIDE DEF Q
  <2> QED BY <2>1, ConcatFacts
<1>2. /\ DOMAIN s = 1..Len(s) /\ DOMAIN t = 1..Len(t) /\ Len(s) \in Nat /\ Len(t) \in Nat
      /\ c \in Book
  BY <1>1, BookLines DEF Book
<1> HIDE DEF c
<1>3. A \cap B = {} /\ A \cup B = 1..Len(c) /\ A \in SUBSET DOMAIN c /\ B \in SUBSET DOMAIN c
  BY <1>1, <1>2
<1>4. /\ IsFiniteSet(A) /\ Whole(Signed(c), A) /\ IsFiniteSet(B) /\ Whole(Signed(c), B)
      /\ Whole(Signed(s), A) /\ Whole(Signed(t), 1..Len(t))
  <2> HIDE DEF A, B
  <2>1. IsFiniteSet(A) /\ Whole(Signed(c), A) /\ IsFiniteSet(B) /\ Whole(Signed(c), B)
    BY <1>2, <1>3, TotalWhole
  <2> QED BY <1>2, <2>1, TotalWhole DEF A
<1>5. SumOver(Signed(c), A \cup B) = SumOver(Signed(c), A) + SumOver(Signed(c), B)
  <2> HIDE DEF A, B
  <2> QED BY <1>3, <1>4, SumUnion
<1>6. SumOver(Signed(c), A) = SumOver(Signed(s), A)
  <2>1. \A k \in A : Signed(s)[k] = Signed(c)[k]
    BY <1>1, <1>2, <1>3 DEF Signed
  <2> HIDE DEF A
  <2> QED BY <1>4, <2>1, SumSame
<1>7. SumOver(Signed(c), B) = SumOver(Signed(t), 1..Len(t))
  <2>1. \A k \in 1..Len(t) : Signed(c)[Len(s) + k] = Signed(t)[k]
    BY <1>1, <1>2 DEF Signed
  <2> DEFINE f == Signed(t)
             g == Signed(c)
             m == Len(s)
             k == Len(t)
  <2>2. m \in Nat /\ k \in Nat /\ Whole(f, 1..k) /\ \A i \in 1..k : g[m + i] = f[i]
    BY <1>2, <1>4, <2>1
  <2> HIDE DEF f, g, m, k
  <2>3. SumOver(g, (m + 1)..(m + k)) = SumOver(f, 1..k)
    BY <2>2, SumShift
  <2> QED BY <2>3 DEF f, g, m, k
<1>8. SumOver(Signed(c), 1..Len(c)) = SumOver(Signed(c), A \cup B)
  <2> HIDE DEF A, B
  <2> QED BY <1>3
<1>9. SumOver(Signed(c), 1..Len(c)) = SumOver(Signed(s), 1..Len(s)) + SumOver(Signed(t), 1..Len(t))
  <2> HIDE DEF A, B
  <2>1. SumOver(Signed(c), 1..Len(c)) = SumOver(Signed(s), A) + SumOver(Signed(t), 1..Len(t))
    BY <1>5, <1>6, <1>7, <1>8
  <2> QED BY <2>1 DEF A
<1> QED BY <1>9 DEF c

-----------------------------------------------------------------------------
(* A receipt is posted                                                     *)

LEMMA WantsFacts ==
    ASSUME NEW debts \in Seq(DebtLine)
    PROVE  /\ Wants(debts) \in Seq(Nat) /\ Len(Wants(debts)) = Len(debts)
           /\ DOMAIN Wants(debts) = DOMAIN debts /\ DOMAIN debts = 1..Len(debts)
           /\ Len(debts) \in Nat
           /\ \A i \in DOMAIN debts : /\ Wants(debts)[i] \in Nat
                                      /\ Wants(debts)[i] <= debts[i].unrec
                                      /\ Wants(debts)[i] <= debts[i].amount
<1>1. DOMAIN debts = 1..Len(debts) /\ Len(debts) \in Nat /\ \A i \in DOMAIN debts : debts[i] \in DebtLine
  BY SeqFacts
<1> DEFINE w == Wants(debts)
<1>2. w = [i \in DOMAIN debts |-> Lesser(debts[i].unrec, debts[i].amount)]
  BY DEF Wants
<1> HIDE DEF w
<1>3. \A i \in DOMAIN debts : w[i] \in Nat /\ w[i] <= debts[i].unrec /\ w[i] <= debts[i].amount
  <2>1. \A i \in DOMAIN debts : debts[i].unrec \in Nat /\ debts[i].amount \in Nat
    BY <1>1 DEF DebtLine
  <2> QED BY <1>2, <2>1, LesserFacts
<1>4. w \in Seq(Nat) /\ DOMAIN w = DOMAIN debts /\ Len(w) = Len(debts)
  <2>1. DOMAIN w = DOMAIN debts
    BY <1>2
  <2>2. w = [i \in 1..Len(debts) |-> w[i]]
    BY <1>1, <1>2
  <2>3. w \in Seq(Nat)
    BY <1>1, <1>3, <2>2
  <2> QED BY <1>1, <2>1, <2>3
<1> QED BY <1>1, <1>3, <1>4 DEF w

\* The three payments of a receipt are applied in full, as far as there are
\* debts.
PaymentsApplied(due, d) ==
    LET w == Wants(due)
        cash == CashApplied(due, d)
        bt == TransfersApplied(due, d)
        qm == QuickMovesApplied(due, d)
    IN /\ LoopState(w, cash) /\ LoopState(w, bt) /\ LoopState(w, qm)
       /\ PaidAll(qm.parts) + cash.rest + bt.rest + qm.rest = Sum3(d.paid)
       /\ \A j \in 1..Len(w) : PaidTo(qm.parts, j) = Covered(w, qm, j)
       /\ cash.rest > 0 \/ bt.rest > 0 \/ qm.rest > 0 => qm.i > Len(w)

LEMMA PayingFacts ==
    ASSUME NEW w \in Seq(Nat), NEW at, LoopState(w, at), NEW amount \in Nat
    PROVE  /\ LoopState(w, Paying(at, amount)) /\ Paying(at, amount).rest = amount
           /\ Paying(at, amount).i = at.i /\ Paying(at, amount).parts = at.parts
           /\ \A j : Covered(w, Paying(at, amount), j) = Covered(w, at, j)
<1>1. /\ Paying(at, amount) \in Loop(w) /\ Paying(at, amount).rest = amount
      /\ Paying(at, amount).i = at.i /\ Paying(at, amount).parts = at.parts
      /\ Paying(at, amount).left = at.left
  BY DEF LoopState, Loop, Paying
<1> QED BY <1>1 DEF LoopState, Covered

Applies(w, at, amount, to) ==
    /\ LoopState(w, to) /\ at.i <= to.i /\ to.i \in Nat /\ to.rest \in Nat
    /\ PaidAll(to.parts) + to.rest = PaidAll(at.parts) + amount
    /\ \A j \in 1..Len(w) :
          PaidTo(to.parts, j) - Covered(w, to, j) = PaidTo(at.parts, j) - Covered(w, at, j)
    /\ to.rest > 0 => to.i > Len(w)

LEMMA PaymentIsApplied ==
    ASSUME NEW w \in Seq(Nat), NEW at, LoopState(w, at), NEW amount \in Nat
    PROVE  Applies(w, at, amount, Pour(w, at, amount))
<1> DEFINE to == Pour(w, at, amount)
<1>1. LoopStep(w, Paying(at, amount), to) /\ (to.rest > 0 => to.i > Len(w))
  BY PourFacts
<1>2. /\ Paying(at, amount).rest = amount
      /\ Paying(at, amount).i = at.i /\ Paying(at, amount).parts = at.parts
      /\ \A j : Covered(w, Paying(at, amount), j) = Covered(w, at, j)
  BY PayingFacts
<1>3. LoopState(w, to) /\ to.i \in Nat /\ to.rest \in Nat
  BY <1>1 DEF LoopStep, LoopState, Loop
<1> HIDE DEF to
<1>4. Applies(w, at, amount, to)
  BY <1>1, <1>2, <1>3 DEF LoopStep, Applies
<1> QED BY <1>4 DEF to

LEMMA AllPaymentsApplied ==
    ASSUME NEW due \in Seq(DebtLine), NEW d, d.paid \in Payment
    PROVE  PaymentsApplied(due, d)
<1> DEFINE w == Wants(due)
           a == Begin(w)
           c == CashApplied(due, d)
           b == TransfersApplied(due, d)
           q == QuickMovesApplied(due, d)
<1>1. w \in Seq(Nat)
  BY WantsFacts
<1>2. d.paid.cash \in Nat /\ d.paid.bt \in Nat /\ d.paid.qm \in Nat
  BY DEF Payment
<1>3. /\ c = Pour(w, a, d.paid.cash) /\ b = Pour(w, c, d.paid.bt) /\ q = Pour(w, b, d.paid.qm)
  BY DEF CashApplied, TransfersApplied, QuickMovesApplied
<1>4. /\ LoopState(w, a) /\ a.parts = <<>>
      /\ \A j \in 1..Len(w) : Covered(w, a, j) = 0
  <2> HIDE DEF w
  <2> QED BY <1>1, BeginFacts
<1>5. PaidAll(a.parts) = 0 /\ \A j : PaidTo(a.parts, j) = 0
  BY <1>4, NothingPaid
<1> DEFINE m == d.paid.cash
           n == d.paid.bt
           k == d.paid.qm
<1>0. /\ m \in Nat /\ n \in Nat /\ k \in Nat
      /\ c = Pour(w, a, m) /\ b = Pour(w, c, n) /\ q = Pour(w, b, k)
  BY <1>2, <1>3
<1> HIDE DEF w, a, c, b, q, m, n, k
<1>6. Applies(w, a, m, c) /\ LoopState(w, c)
  <2>1. Applies(w, a, m, Pour(w, a, m))
    BY <1>0, <1>1, <1>4, PaymentIsApplied
  <2> QED BY <1>0, <2>1 DEF Applies
<1>7. Applies(w, c, n, b) /\ LoopState(w, b)
  <2>1. Applies(w, c, n, Pour(w, c, n))
    BY <1>0, <1>1, <1>6, PaymentIsApplied
  <2> QED BY <1>0, <2>1 DEF Applies
<1>8. Applies(w, b, k, q) /\ LoopState(w, q)
  <2>1. Applies(w, b, k, Pour(w, b, k))
    BY <1>0, <1>1, <1>7, PaymentIsApplied
  <2> QED BY <1>0, <2>1 DEF Applies
<1>9. \A x \in {c, b, q} :
         PaidAll(x.parts) \in Int /\ \A j \in 1..Len(w) : PaidTo(x.parts, j) \in Int
                                                          /\ Covered(w, x, j) \in Int
  <2> SUFFICES ASSUME NEW x \in {c, b, q}
               PROVE  PaidAll(x.parts) \in Int
                      /\ \A j \in 1..Len(w) : PaidTo(x.parts, j) \in Int /\ Covered(w, x, j) \in Int
    OBVIOUS
  <2>1. LoopState(w, x)
    BY <1>6, <1>7, <1>8
  <2>2. x.parts \in Seq(Shares(w))
    BY <2>1 DEF LoopState, Loop
  <2>3. PaidAll(x.parts) \in Int /\ \A j : PaidTo(x.parts, j) \in Int
    BY <1>1, <2>2, PartsFacts
  <2>4. \A z \in Nat : z \in Int
    OBVIOUS
  <2>5. \A j \in 1..Len(w) : Covered(w, x, j) \in Int
    BY <1>1, <2>1, <2>4, CoveredFacts
  <2> QED BY <2>3, <2>5
<1>10. PaidAll(q.parts) + c.rest + b.rest + q.rest = Sum3(d.paid)
  <2>1. /\ PaidAll(c.parts) + c.rest = 0 + m
        /\ PaidAll(b.parts) + b.rest = PaidAll(c.parts) + n
        /\ PaidAll(q.parts) + q.rest = PaidAll(b.parts) + k
        /\ c.rest \in Nat /\ b.rest \in Nat /\ q.rest \in Nat
    BY <1>5, <1>6, <1>7, <1>8 DEF Applies
  <2>2. Sum3(d.paid) = m + n + k /\ m \in Nat /\ n \in Nat /\ k \in Nat
    BY <1>2 DEF Sum3, m, n, k
  <2>3. PaidAll(c.parts) \in Int /\ PaidAll(b.parts) \in Int /\ PaidAll(q.parts) \in Int
    BY <1>9
  <2> DEFINE pc == PaidAll(c.parts)
             pb == PaidAll(b.parts)
             pq == PaidAll(q.parts)
             rc == c.rest
             rb == b.rest
             rq == q.rest
  <2>4. /\ pc \in Int /\ pb \in Int /\ pq \in Int /\ rc \in Nat /\ rb \in Nat /\ rq \in Nat
        /\ pc + rc = 0 + m /\ pb + rb = pc + n /\ pq + rq = pb + k
    BY <2>1, <2>3
  <2> HIDE DEF pc, pb, pq, rc, rb, rq
  <2>5. pq + rc + rb + rq = m + n + k
    BY <2>2, <2>4
  <2> QED BY <2>2, <2>5 DEF pq, rc, rb, rq
<1>11. ASSUME NEW j \in 1..Len(w) PROVE PaidTo(q.parts, j) = Covered(w, q, j)
  <2>1. /\ PaidTo(c.parts, j) - Covered(w, c, j) = PaidTo(a.parts, j) - Covered(w, a, j)
        /\ PaidTo(b.parts, j) - Covered(w, b, j) = PaidTo(c.parts, j) - Covered(w, c, j)
        /\ PaidTo(q.parts, j) - Covered(w, q, j) = PaidTo(b.parts, j) - Covered(w, b, j)
    BY <1>6, <1>7, <1>8 DEF Applies
  <2>2. PaidTo(a.parts, j) = 0 /\ Covered(w, a, j) = 0
    BY <1>4, <1>5
  <2> DEFINE pc == PaidTo(c.parts, j)
             pb == PaidTo(b.parts, j)
             pq == PaidTo(q.parts, j)
             vc == Covered(w, c, j)
             vb == Covered(w, b, j)
             vq == Covered(w, q, j)
  <2>3. /\ pc \in Int /\ pb \in Int /\ pq \in Int
        /\ vc \in Int /\ vb \in Int /\ vq \in Int
    BY <1>9
  <2>4. pc - vc = 0 /\ pb - vb = pc - vc /\ pq - vq = pb - vb
    BY <2>1, <2>2
  <2> HIDE DEF pc, pb, pq, vc, vb, vq
  <2>5. pq = vq
    BY <2>3, <2>4
  <2> QED BY <2>5 DEF pq, vq
<1>12. c.rest > 0 \/ b.rest > 0 \/ q.rest > 0 => q.i > Len(w)
  <2>1. Len(w) \in Nat
    BY <1>1
  <2>2. /\ c.i \in Nat /\ b.i \in Nat /\ q.i \in Nat /\ c.i <= b.i /\ b.i <= q.i
        /\ (c.rest > 0 => c.i > Len(w)) /\ (b.rest > 0 => b.i > Len(w))
        /\ (q.rest > 0 => q.i > Len(w))
    BY <1>6, <1>7, <1>8 DEF Applies
  <2> QED BY <2>1, <2>2
<1> QED BY <1>6, <1>7, <1>8, <1>10, <1>11, <1>12 DEF PaymentsApplied, w, c, b, q

\* What new lines come to
Worth(extra) == SumOver(Signed(extra), 1..Len(extra))

\* Credits of the customer that belong to the receipt r
CreditsOf(extra, r) ==
    /\ extra \in Seq(MoveLine)
    /\ \A k \in DOMAIN extra :
          /\ extra[k].debit = 0 /\ extra[k].of = r /\ extra[k].rec = 0 /\ extra[k].due = 0
          /\ extra[k].type = "receivable" /\ extra[k].partner = Customer

LEMMA WorthFacts ==
    ASSUME NEW extra \in Seq(MoveLine)
    PROVE  /\ DOMAIN extra = 1..Len(extra) /\ Len(extra) \in Nat /\ IsFiniteSet(DOMAIN extra)
           /\ Whole(Signed(extra), 1..Len(extra)) /\ Worth(extra) \in Int
<1>1. extra \in Book /\ DOMAIN extra \in SUBSET DOMAIN extra
  BY DEF Book
<1>2. DOMAIN extra = 1..Len(extra) /\ Len(extra) \in Nat /\ IsFiniteSet(DOMAIN extra)
  BY <1>1, BookLines
<1>3. Whole(Signed(extra), DOMAIN extra) /\ Total(extra, DOMAIN extra) \in Int
  BY <1>1, TotalWhole
<1> QED BY <1>2, <1>3 DEF Total, Worth

\* The elements of c are those of s and t.
MadeOf(c, s, t) ==
    \A k \in DOMAIN c : \/ \E j \in DOMAIN s : c[k] = s[j]
                        \/ \E j \in DOMAIN t : c[k] = t[j]

LEMMA ConcatParts ==
    ASSUME NEW Q, NEW s \in Seq(Q), NEW t \in Seq(Q)
    PROVE  MadeOf(s \o t, s, t)
<1>3. DOMAIN s = 1..Len(s) /\ DOMAIN t = 1..Len(t) /\ Len(s) \in Nat /\ Len(t) \in Nat
  BY SeqFacts
<1>4. /\ DOMAIN (s \o t) = 1..(Len(s) + Len(t))
      /\ \A k \in 1..Len(s) : (s \o t)[k] = s[k]
      /\ \A k \in 1..Len(t) : (s \o t)[Len(s) + k] = t[k]
  BY ConcatFacts
<1>5. ASSUME NEW k \in DOMAIN (s \o t)
      PROVE  \/ k \in DOMAIN s /\ (s \o t)[k] = s[k]
             \/ k - Len(s) \in DOMAIN t /\ (s \o t)[k] = t[k - Len(s)]
  <2>1. CASE k <= Len(s)
    BY <1>3, <1>4, <2>1
  <2>2. CASE k > Len(s)
    <3> DEFINE j == k - Len(s)
    <3>1. j \in 1..Len(t) /\ k = Len(s) + j
      BY <1>3, <1>4, <2>2
    <3> HIDE DEF j
    <3>2. (s \o t)[k] = t[j] /\ j \in DOMAIN t
      BY <1>3, <1>4, <3>1
    <3> QED BY <3>2 DEF j
  <2> QED BY <1>3, <1>4, <2>1, <2>2
<1> QED BY <1>5 DEF MadeOf

LEMMA ConcatElements ==
    ASSUME NEW s \in Seq(MoveLine), NEW t \in Seq(MoveLine)
    PROVE  LET c == s \o t
           IN /\ c \in Seq(MoveLine) /\ Worth(c) = Worth(s) + Worth(t) /\ Len(c) = Len(s) + Len(t)
              /\ \A k \in 1..Len(s) : c[k] = s[k]
              /\ MadeOf(c, s, t)
<1> DEFINE Q == MoveLine
<1>1. s \in Seq(Q) /\ t \in Seq(Q)
  OBVIOUS
<1>2. Worth(s \o t) = Worth(s) + Worth(t)
  BY <1>1, ConcatTotal DEF Worth, Book
<1> HIDE DEF Q
<1>3. /\ s \o t \in Seq(Q) /\ Len(s \o t) = Len(s) + Len(t)
      /\ \A k \in 1..Len(s) : (s \o t)[k] = s[k]
      /\ MadeOf(s \o t, s, t)
  BY <1>1, ConcatFacts, ConcatParts
<1> QED BY <1>2, <1>3 DEF Q

LEMMA CreditsJoin ==
    ASSUME NEW r, NEW s, NEW t, CreditsOf(s, r), CreditsOf(t, r)
    PROVE  CreditsOf(s \o t, r) /\ Worth(s \o t) = Worth(s) + Worth(t)
<1> DEFINE c == s \o t
<1>1. s \in Seq(MoveLine) /\ t \in Seq(MoveLine)
  BY DEF CreditsOf
<1>2. /\ c \in Seq(MoveLine) /\ Worth(c) = Worth(s) + Worth(t)
      /\ MadeOf(c, s, t)
  BY <1>1, ConcatElements
<1> HIDE DEF c
<1>3. CreditsOf(c, r)
  BY <1>2 DEF CreditsOf, MadeOf
<1> QED BY <1>2, <1>3 DEF c

LEMMA CreditOfFacts ==
    ASSUME NEW r \in Receipts, NEW rest \in Nat
    PROVE  CreditsOf(CreditOf(rest, r), r) /\ Worth(CreditOf(rest, r)) = -rest
<1> DEFINE x == LineOf(0, rest, r)
           s == CreditOf(rest, r)
<1>1. /\ x \in MoveLine /\ x.debit = 0 /\ x.of = r /\ x.type = "receivable"
      /\ x.partner = Customer /\ x.rec = 0 /\ x.due = 0 /\ x.credit = rest
  <2>1. r \in Documents
    BY DEF Documents
  <2> QED BY <2>1, NewLines DEF LineOf
<1>2. CASE rest > 0
  <2>1. s = <<x>>
    BY <1>2 DEF CreditOf
  <2> HIDE DEF x, s
  <2>2. s \in Seq(MoveLine) /\ DOMAIN s = {1} /\ s[1] = x /\ Len(s) = 1 /\ 1..1 = {1}
    BY <1>1, <2>1
  <2>3. CreditsOf(s, r)
    BY <1>1, <2>2 DEF CreditsOf
  <2>4. Signed(s)[1] = -rest
    BY <1>1, <2>2 DEF Signed
  <2>5. SumOver(Signed(s), {1}) = Signed(s)[1]
    <3>1. Signed(s)[1] \in Int
      BY <2>4
    <3> QED BY <3>1, SumOne
  <2> QED BY <2>2, <2>3, <2>4, <2>5 DEF Worth, s
<1>3. CASE ~(rest > 0)
  <2>1. s = <<>> /\ rest = 0
    BY <1>3 DEF CreditOf
  <2> HIDE DEF x, s
  <2>2. CreditsOf(s, r) /\ 1..Len(s) = {}
    BY <2>1 DEF CreditsOf
  <2>3. Worth(s) = 0
    BY <2>2, SumEmpty DEF Worth
  <2> QED BY <2>1, <2>2, <2>3 DEF s
<1> QED BY <1>2, <1>3

\* The lines of the parts of a payment
PartLines(parts, r) == [i \in DOMAIN parts |-> LineOf(0, parts[i][2], r)]

LEMMA PartLinesFacts ==
    ASSUME NEW r \in Receipts, NEW w \in Seq(Nat), NEW parts \in Seq(Shares(w))
    PROVE  /\ CreditsOf(PartLines(parts, r), r) /\ Worth(PartLines(parts, r)) = -PaidAll(parts)
           /\ Len(PartLines(parts, r)) = Len(parts)
<1> DEFINE s == PartLines(parts, r)
<1>1. /\ DOMAIN parts = 1..Len(parts) /\ Len(parts) \in Nat
      /\ IsFiniteSet(DOMAIN parts) /\ Whole(Paid(parts), DOMAIN parts)
      /\ \A k \in DOMAIN parts : parts[k][2] \in Nat /\ Paid(parts)[k] = parts[k][2]
  BY PartsFacts
<1>2. ASSUME NEW k \in DOMAIN parts
      PROVE  /\ s[k] \in MoveLine /\ s[k].debit = 0 /\ s[k].of = r /\ s[k].type = "receivable"
             /\ s[k].partner = Customer /\ s[k].rec = 0 /\ s[k].due = 0
             /\ s[k].credit = parts[k][2]
  <2>1. r \in Documents /\ parts[k][2] \in Nat
    BY <1>1 DEF Documents
  <2>2. s[k] = LineOf(0, parts[k][2], r)
    BY DEF PartLines
  <2> DEFINE a == parts[k][2]
             y == s[k]
  <2>3. a \in Nat /\ y = LineOf(0, a, r)
    BY <2>1, <2>2
  <2> HIDE DEF a, y
  <2>4. /\ y \in MoveLine /\ y.debit = 0 /\ y.of = r /\ y.type = "receivable"
        /\ y.partner = Customer /\ y.rec = 0 /\ y.due = 0 /\ y.credit = a
    BY <2>1, <2>3, NewLines DEF LineOf
  <2> QED BY <2>4 DEF a, y
<1>3. DOMAIN s = DOMAIN parts
  BY DEF PartLines
<1>4. s = [k \in DOMAIN parts |-> s[k]]
  BY DEF PartLines
<1> HIDE DEF s
<1>5. s \in Seq(MoveLine) /\ Len(s) = Len(parts)
  BY <1>1, <1>2, <1>3, <1>4
<1>6. CreditsOf(s, r)
  BY <1>2, <1>3, <1>5 DEF CreditsOf
<1>7. \A k \in DOMAIN parts : Signed(s)[k] = -Paid(parts)[k]
  BY <1>1, <1>2, <1>3 DEF Signed
<1>8. SumOver(Signed(s), DOMAIN parts) = -PaidAll(parts)
  <2> DEFINE f == Paid(parts)
             g == Signed(s)
             S == DOMAIN parts
  <2>1. IsFiniteSet(S) /\ Whole(f, S) /\ \A x \in S : g[x] = -f[x]
    BY <1>1, <1>7
  <2> HIDE DEF f, g, S
  <2>2. SumOver(g, S) = -SumOver(f, S)
    BY <2>1, SumNegative
  <2> QED BY <2>2 DEF f, g, S, PaidAll
<1>9. Worth(s) = -PaidAll(parts)
  BY <1>1, <1>5, <1>8 DEF Worth
<1> QED BY <1>5, <1>6, <1>9 DEF s

\* The lines of a receipt, and the pairs that are reconciled
ReceiptLines(due, d, r) == PartLines(QuickMovesApplied(due, d).parts, r) \o CreditLines(due, d, r)
ReceiptPairs(book, due, d) ==
    LET parts == QuickMovesApplied(due, d).parts
    IN [i \in DOMAIN parts |-> <<due[parts[i][1]].line, Len(book) + i>>]

LEMMA ReceiptLinesFacts ==
    ASSUME NEW due \in Seq(DebtLine), NEW d, d.paid \in Payment, NEW r \in Receipts
    PROVE  /\ CreditsOf(ReceiptLines(due, d, r), r)
           /\ Worth(ReceiptLines(due, d, r)) = -(Sum3(d.paid) - QuickMovesApplied(due, d).rest)
           /\ Sum3(d.paid) - QuickMovesApplied(due, d).rest \in Int
           /\ CreditsOf(PartLines(QuickMovesApplied(due, d).parts, r), r)
           /\ CreditsOf(CreditLines(due, d, r), r)
           /\ Len(PartLines(QuickMovesApplied(due, d).parts, r)) = Len(QuickMovesApplied(due, d).parts)
<1> DEFINE w == Wants(due)
           c == CashApplied(due, d)
           b == TransfersApplied(due, d)
           q == QuickMovesApplied(due, d)
           P == PartLines(q.parts, r)
           C == CreditOf(c.rest, r)
           B == CreditOf(b.rest, r)
<1>1. /\ w \in Seq(Nat) /\ LoopState(w, c) /\ LoopState(w, b) /\ LoopState(w, q)
      /\ PaidAll(q.parts) + c.rest + b.rest + q.rest = Sum3(d.paid)
  <2>1. PaymentsApplied(due, d)
    BY AllPaymentsApplied
  <2> QED BY <2>1, WantsFacts DEF PaymentsApplied
<1>2. Sum3(d.paid) \in Int
  BY DEF Sum3, Payment
<1>3. /\ CreditLines(due, d, r) = C \o B
      /\ ReceiptLines(due, d, r) = P \o CreditLines(due, d, r)
  BY DEF ReceiptLines, CreditLines
<1> HIDE DEF w, c, b, q
<1>4. /\ c.rest \in Nat /\ b.rest \in Nat /\ q.rest \in Nat /\ q.parts \in Seq(Shares(w))
  BY <1>1 DEF LoopState, Loop
<1>5. CreditsOf(P, r) /\ Worth(P) = -PaidAll(q.parts) /\ Len(P) = Len(q.parts)
  BY <1>1, <1>4, PartLinesFacts
<1>6. /\ CreditsOf(C, r) /\ Worth(C) = -c.rest
      /\ CreditsOf(B, r) /\ Worth(B) = -b.rest
  BY <1>4, CreditOfFacts
<1> HIDE DEF P, C, B
<1>7. CreditsOf(C \o B, r) /\ Worth(C \o B) = Worth(C) + Worth(B)
  BY <1>6, CreditsJoin
<1>8. CreditsOf(P \o (C \o B), r) /\ Worth(P \o (C \o B)) = Worth(P) + Worth(C \o B)
  <2> DEFINE t == C \o B
  <2>1. CreditsOf(t, r)
    BY <1>7
  <2> HIDE DEF t
  <2>2. CreditsOf(P \o t, r) /\ Worth(P \o t) = Worth(P) + Worth(t)
    BY <1>5, <2>1, CreditsJoin
  <2> QED BY <2>2 DEF t
<1>9. PaidAll(q.parts) \in Int
  BY <1>1, <1>4, PartsFacts
<1>10. Worth(P \o (C \o B)) = -(Sum3(d.paid) - q.rest)
  <2> DEFINE a == PaidAll(q.parts)
             x == c.rest
             y == b.rest
             z == q.rest
  <2>1. /\ a \in Int /\ x \in Nat /\ y \in Nat /\ z \in Nat /\ Sum3(d.paid) = a + x + y + z
        /\ Worth(P \o (C \o B)) = (-a) + ((-x) + (-y))
    BY <1>1, <1>4, <1>5, <1>6, <1>7, <1>8, <1>9
  <2> HIDE DEF a, x, y, z
  <2>2. Worth(P \o (C \o B)) = -(Sum3(d.paid) - z)
    BY <2>1
  <2> QED BY <2>2 DEF z
<1>11. Sum3(d.paid) - q.rest \in Int
  BY <1>2, <1>4
<1>12. /\ CreditsOf(ReceiptLines(due, d, r), r)
       /\ Worth(ReceiptLines(due, d, r)) = -(Sum3(d.paid) - q.rest)
       /\ CreditsOf(CreditLines(due, d, r), r)
  BY <1>3, <1>7, <1>8, <1>10
<1> QED BY <1>5, <1>11, <1>12 DEF P, q

LEMMA ApplicableDebts ==
    ASSUME NEW book, NEW debts, DebtLines(book, debts)
    PROVE  DebtLines(book, Applicable(debts)) /\ Applicable(debts) \in Seq(DebtLine)
<1> DEFINE due == Applicable(debts)
<1>1. debts \in Seq(DebtLine)
  BY DEF DebtLines
<1>2. /\ due \in Seq(DebtLine)
      /\ \E f : /\ \A i \in DOMAIN due : f[i] \in DOMAIN debts /\ due[i] = debts[f[i]]
                /\ \A i \in DOMAIN due, j \in DOMAIN due : f[i] = f[j] => i = j
  BY <1>1, ApplicableFacts
<1> HIDE DEF due
<1>3. PICK f : /\ \A i \in DOMAIN due : f[i] \in DOMAIN debts /\ due[i] = debts[f[i]]
               /\ \A i \in DOMAIN due, j \in DOMAIN due : f[i] = f[j] => i = j
  BY <1>2
<1>4. DebtLines(book, due)
  <2>1. \A i \in DOMAIN due : /\ OwnLine(book, due[i].line) /\ book[due[i].line].debit > 0
                             /\ due[i].amount <= due[i].unrec
    <3> SUFFICES ASSUME NEW i \in DOMAIN due
                 PROVE  /\ OwnLine(book, due[i].line) /\ book[due[i].line].debit > 0
                        /\ due[i].amount <= due[i].unrec
      OBVIOUS
    <3>1. f[i] \in DOMAIN debts /\ due[i] = debts[f[i]]
      BY <1>3
    <3> QED BY <3>1 DEF DebtLines
  <2>2. \A i \in DOMAIN due, j \in DOMAIN due : due[i].line = due[j].line => i = j
    <3> SUFFICES ASSUME NEW i \in DOMAIN due, NEW j \in DOMAIN due, due[i].line = due[j].line
                 PROVE  i = j
      OBVIOUS
    <3>1. /\ f[i] \in DOMAIN debts /\ due[i] = debts[f[i]]
          /\ f[j] \in DOMAIN debts /\ due[j] = debts[f[j]]
      BY <1>3
    <3>2. f[i] = f[j]
      BY <3>1 DEF DebtLines
    <3> QED BY <1>3, <3>2
  <2> QED BY <1>2, <2>1, <2>2 DEF DebtLines
<1> QED BY <1>2, <1>4 DEF due

LEMMA CreditsExtend ==
    ASSUME NEW book, NEW r \in Receipts, NEW extra, CreditsOf(extra, r)
    PROVE  Extended(book, extra)
BY DEF CreditsOf, Extended

\* A pair: a debt of the document and a line the posting adds
LEMMA ReceiptPairsFacts ==
    ASSUME NEW book, Ledger(book), NEW due, DebtLines(book, due), NEW d, d.paid \in Payment,
           NEW r \in Receipts
    PROVE  LET c == book \o ReceiptLines(due, d, r)
               pairs == ReceiptPairs(book, due, d)
               parts == QuickMovesApplied(due, d).parts
           IN /\ pairs \in Seq((DOMAIN c) \X (DOMAIN c)) /\ Len(pairs) = Len(parts)
              /\ \A i \in DOMAIN pairs : /\ i \in DOMAIN parts /\ parts[i][1] \in DOMAIN due
                                         /\ pairs[i][1] = due[parts[i][1]].line
                                         /\ pairs[i][1] \in DOMAIN book
                                         /\ pairs[i][2] = Len(book) + i
<1> DEFINE w == Wants(due)
           q == QuickMovesApplied(due, d)
           parts == q.parts
           P == PartLines(parts, r)
           C == CreditLines(due, d, r)
           extra == ReceiptLines(due, d, r)
           pairs == ReceiptPairs(book, due, d)
<1>0. due \in Seq(DebtLine) /\ book \in Book
  BY DEF DebtLines, Ledger
<1>1. w \in Seq(Nat) /\ Len(w) = Len(due) /\ DOMAIN due = 1..Len(due) /\ LoopState(w, q)
  <2>1. PaymentsApplied(due, d)
    BY <1>0, AllPaymentsApplied
  <2> QED BY <1>0, <2>1, WantsFacts DEF PaymentsApplied
<1>2. /\ extra = P \o C /\ CreditsOf(extra, r) /\ CreditsOf(P, r) /\ CreditsOf(C, r)
      /\ Len(P) = Len(parts)
  <2>1. extra = P \o C
    BY DEF ReceiptLines
  <2>2. CreditsOf(extra, r) /\ CreditsOf(P, r) /\ CreditsOf(C, r) /\ Len(P) = Len(parts)
    BY <1>0, ReceiptLinesFacts
  <2> QED BY <2>1, <2>2
<1>3. pairs = [i \in DOMAIN parts |-> <<due[parts[i][1]].line, Len(book) + i>>]
  BY DEF ReceiptPairs
<1> HIDE DEF w, q, P, C, extra, pairs
<1>4. parts \in Seq(Shares(w))
  BY <1>1 DEF LoopState, Loop
<1> HIDE DEF parts
<1>5. /\ DOMAIN parts = 1..Len(parts) /\ Len(parts) \in Nat
      /\ \A k \in DOMAIN parts : parts[k][1] \in 1..Len(w)
  BY <1>1, <1>4, PartsFacts
<1>6. /\ DOMAIN book = 1..Len(book) /\ Len(book) \in Nat
  BY <1>0, BookLines
<1>7. Len(extra) \in Nat /\ Len(extra) >= Len(parts)
  <2>1. P \in Seq(MoveLine) /\ C \in Seq(MoveLine)
    BY <1>2 DEF CreditsOf
  <2> QED BY <1>2, <2>1
<1>8. DOMAIN (book \o extra) = 1..(Len(book) + Len(extra))
  <2> DEFINE Q == MoveLine
  <2>1. book \in Seq(Q) /\ extra \in Seq(Q)
    BY <1>0, <1>2 DEF CreditsOf, Book
  <2> HIDE DEF Q
  <2> QED BY <2>1, ConcatFacts
<1> DEFINE D == DOMAIN (book \o extra)
<1>9. ASSUME NEW i \in DOMAIN parts
      PROVE  /\ parts[i][1] \in DOMAIN due /\ pairs[i][1] = due[parts[i][1]].line
             /\ pairs[i][1] \in DOMAIN book /\ pairs[i][2] = Len(book) + i
             /\ pairs[i] \in D \X D
  <2>1. parts[i][1] \in DOMAIN due
    BY <1>1, <1>5
  <2>2. due[parts[i][1]].line \in DOMAIN book
    BY <2>1 DEF DebtLines, OwnLine
  <2>3. pairs[i] = <<due[parts[i][1]].line, Len(book) + i>>
    BY <1>3
  <2>4. Len(book) + i \in D /\ DOMAIN book \subseteq D
    BY <1>5, <1>6, <1>7, <1>8
  <2> QED BY <2>1, <2>2, <2>3, <2>4
<1>10. DOMAIN pairs = 1..Len(parts) /\ pairs = [i \in 1..Len(parts) |-> pairs[i]]
  BY <1>3, <1>5
<1> HIDE DEF D
<1>11. pairs \in Seq(D \X D) /\ Len(pairs) = Len(parts)
  BY <1>5, <1>9, <1>10
<1> QED BY <1>5, <1>9, <1>10, <1>11 DEF D, extra, pairs, parts, q

\* action_post of a receipt: credits are added that come to what is taken of
\* the payments.
LEMMA ReceiptPosted ==
    ASSUME VouchersTypeOK, NEW r \in Receipts, ActionPost(r)
    PROVE  LET due == Applicable(receipt[r].debts)
               extra == ReceiptLines(due, receipt[r], r)
               pairs == ReceiptPairs(ledger, due, receipt[r])
           IN /\ DebtLines(ledger, due) /\ CreditsOf(extra, r) /\ Worth(extra) \in Int
              /\ Worth(extra) = -receipt'[r].owed
              /\ PostedOn(ledger, extra, ledger')
              /\ ledger' = Books(ledger \o extra, pairs)[Len(pairs)]
              /\ receipt[r] \in ReceiptRecord
              /\ receipt'[r].lines = (Len(ledger) + 1)..Len(ledger')
<1> DEFINE d == receipt[r]
           due == Applicable(d.debts)
           extra == ReceiptLines(due, d, r)
           pairs == ReceiptPairs(ledger, due, d)
           q == QuickMovesApplied(due, d)
<1>1. /\ Ledger(ledger) /\ receipt \in [Receipts -> ReceiptRecord] /\ DebtLines(ledger, d.debts)
  BY DEF VouchersTypeOK, ReceiptsType
<1>2. d \in ReceiptRecord /\ d.paid \in Payment
  BY <1>1 DEF ReceiptRecord
<1>3. DebtLines(ledger, due)
  BY <1>1, ApplicableDebts
<1>4. /\ ledger' = Books(ledger \o extra, pairs)[Len(pairs)]
      /\ receipt' = [receipt EXCEPT ![r].state = "posted",
                                    ![r].lines = (Len(ledger) + 1)..Len(ledger'),
                                    ![r].owed = Sum3(d.paid) - q.rest]
  BY DEF ActionPost, ReceiptLines, ReceiptPairs, PartLines
<1>5. receipt'[r].owed = Sum3(d.paid) - q.rest /\ receipt'[r].lines = (Len(ledger) + 1)..Len(ledger')
  BY <1>1, <1>4 DEF ReceiptRecord
<1> HIDE DEF d, due, q
<1>6. /\ CreditsOf(extra, r) /\ Worth(extra) = -(Sum3(d.paid) - q.rest)
  <2>1. due \in Seq(DebtLine)
    BY <1>3 DEF DebtLines
  <2> QED BY <1>2, <2>1, ReceiptLinesFacts DEF q
<1>7. pairs \in Seq((DOMAIN (ledger \o extra)) \X (DOMAIN (ledger \o extra)))
  BY <1>1, <1>2, <1>3, ReceiptPairsFacts
<1> HIDE DEF extra, pairs
<1>8. Extended(ledger, extra)
  BY <1>6, CreditsExtend
<1>9. PostedOn(ledger, extra, ledger')
  <2>1. Len(pairs) \in 0..Len(pairs)
    BY <1>7
  <2> DEFINE B == Books(ledger \o extra, pairs)
  <2>2. \A n \in 0..Len(pairs) : PostedOn(ledger, extra, B[n])
    BY <1>1, <1>7, <1>8, BooksPosted
  <2>3. ledger' = B[Len(pairs)]
    BY <1>4
  <2> HIDE DEF B
  <2> QED BY <2>1, <2>2, <2>3
<1>10. Worth(extra) \in Int
  BY <1>6, WorthFacts DEF CreditsOf
<1> QED BY <1>2, <1>3, <1>4, <1>5, <1>6, <1>9, <1>10 DEF d, due, extra, pairs

-----------------------------------------------------------------------------
(* A receipt is cancelled                                                  *)

\* A sum over a set is the sum over a sequence that enumerates it.
LEMMA SumEnumerated ==
    ASSUME NEW S, IsFiniteSet(S), NEW s, Enumerates(s, S), NEW f, Whole(f, S),
           NEW g, \A i \in DOMAIN s : g[i] = f[s[i]]
    PROVE  /\ SumOver(g, DOMAIN s) = SumOver(f, S)
           /\ IsFiniteSet(DOMAIN s) /\ Whole(g, DOMAIN s)
<1>1. /\ s \in Seq(S) /\ \A i \in DOMAIN s, j \in DOMAIN s : s[i] = s[j] => i = j
      /\ \A x \in S : \E i \in DOMAIN s : s[i] = x
  BY DEF Enumerates
<1>2. IsFiniteSet(DOMAIN s) /\ \A i \in DOMAIN s : s[i] \in S
  BY <1>1, SeqFacts
<1>3. Whole(g, DOMAIN s)
  BY <1>2 DEF Whole
<1> DEFINE D == DOMAIN s
           G == [x \in S |-> SumOver(g, {i \in D : s[i] = x})]
<1>4. SumOver(g, D) = SumOver(G, S) /\ Whole(G, S)
  <2> HIDE DEF D
  <2> QED BY <1>2, <1>3, SumParts DEF D
<1>5. ASSUME NEW x \in S PROVE G[x] = f[x]
  <2>1. PICK k \in D : s[k] = x
    BY <1>1
  <2>2. {i \in D : s[i] = x} = {k}
    BY <1>1, <2>1
  <2>3. g[k] = f[x] /\ g[k] \in Int
    BY <1>2, <1>3, <2>1 DEF Whole
  <2>4. SumOver(g, {k}) = g[k]
    BY <2>3, SumOne
  <2>5. G[x] = SumOver(g, {i \in D : s[i] = x})
    OBVIOUS
  <2> QED BY <2>2, <2>3, <2>4, <2>5
<1> HIDE DEF G
<1>6. SumOver(G, S) = SumOver(f, S)
  BY <1>4, <1>5, SumSame
<1> QED BY <1>2, <1>3, <1>4, <1>6

LEMMA FreedFacts ==
    ASSUME NEW book, Ledger(book), NEW S
    PROVE  LET free == Freed(book, S)
           IN /\ Ledger(free) /\ DOMAIN free = DOMAIN book /\ Len(free) = Len(book)
              /\ \A m \in DOMAIN book : Alike(book[m], free[m])
              /\ \A m \in DOMAIN book : \/ free[m] = book[m]
                                        \/ free[m].rec = 0 /\ free[m].full = FALSE
              /\ \A m \in DOMAIN book \cap S : free[m].rec = 0
              /\ \A m \in DOMAIN book :
                    \/ /\ \E l \in S : book[l].rec # 0 /\ book[m].rec = book[l].rec
                       /\ free[m].rec = 0 /\ free[m].full = FALSE
                    \/ /\ ~\E l \in S : book[l].rec # 0 /\ book[m].rec = book[l].rec
                       /\ free[m] = book[m]
<1> DEFINE free == Freed(book, S)
           Loses(m) == \E l \in S : book[l].rec # 0 /\ book[m].rec = book[l].rec
<1>1. book \in Book /\ DOMAIN book = 1..Len(book) /\ Len(book) \in Nat
  BY BookLines DEF Ledger
<1>2. DOMAIN free = DOMAIN book
  BY DEF Freed
<1>3. ASSUME NEW m \in DOMAIN book
      PROVE  /\ Alike(book[m], free[m]) /\ free[m] \in MoveLine
             /\ \/ Loses(m) /\ free[m].rec = 0 /\ free[m].full = FALSE
                \/ ~Loses(m) /\ free[m] = book[m]
  <2> DEFINE x == book[m]
             y == free[m]
  <2>0. x \in MoveLine
    BY <1>1, BookLines
  <2>1. CASE Loses(m)
    <3>1. y = [x EXCEPT !.rec = 0, !.full = FALSE]
      BY <2>1 DEF Freed
    <3> HIDE DEF x, y
    <3>2. Alike(x, y) /\ y \in MoveLine /\ y.rec = 0 /\ y.full = FALSE
      BY <2>0, <3>1 DEF Alike, MoveLine
    <3> QED BY <2>1, <3>2 DEF x, y
  <2>2. CASE ~Loses(m)
    <3>1. y = x
      BY <2>2 DEF Freed
    <3> HIDE DEF x, y
    <3>2. Alike(x, y) /\ y \in MoveLine
      BY <2>0, <3>1 DEF Alike
    <3> QED BY <2>2, <3>1, <3>2 DEF x, y
  <2> QED BY <2>1, <2>2
<1>4. free = [m \in 1..Len(book) |-> free[m]]
  BY <1>1, <1>2 DEF Freed
<1>5. \A m \in DOMAIN book \cap S : free[m].rec = 0
  <2> SUFFICES ASSUME NEW m \in DOMAIN book \cap S PROVE free[m].rec = 0
    OBVIOUS
  <2> HIDE DEF free
  <2>1. ~Loses(m) => book[m].rec = 0
    OBVIOUS
  <2> QED BY <1>3, <2>1
<1> HIDE DEF free, Loses
<1>6. free \in Book /\ Len(free) = Len(book)
  <2> DEFINE Q == MoveLine
  <2>1. \A m \in 1..Len(book) : free[m] \in Q
    BY <1>1, <1>3
  <2> HIDE DEF Q
  <2>2. free \in Seq(Q) /\ Len(free) = Len(book)
    BY <1>1, <1>4, <2>1
  <2> QED BY <2>2 DEF Q, Book
<1>7. Ledger(free)
  BY <1>2, <1>3, <1>6 DEF Ledger, Alike
<1>8. \A m \in DOMAIN book : \/ free[m] = book[m]
                             \/ free[m].rec = 0 /\ free[m].full = FALSE
  BY <1>3
<1>9. \A m \in DOMAIN book : Alike(book[m], free[m])
  BY <1>3
<1>10. \A m \in DOMAIN book : \/ Loses(m) /\ free[m].rec = 0 /\ free[m].full = FALSE
                              \/ ~Loses(m) /\ free[m] = book[m]
  BY <1>3
<1> QED BY <1>2, <1>5, <1>6, <1>7, <1>8, <1>9, <1>10 DEF free, Loses

\* A line with its sides exchanged
Counter(l) == [l EXCEPT !.debit = l.credit, !.credit = l.debit]
CounterLines(book, S) ==
    [i \in 1..Cardinality(S) |-> Counter(Freed(book, S)[SortedBy(S, LAMBDA x : x)[i]])]

LEMMA CounterFacts ==
    ASSUME NEW l \in MoveLine
    PROVE  /\ Counter(l) \in MoveLine /\ Counter(l).debit = l.credit /\ Counter(l).credit = l.debit
           /\ Counter(l).of = l.of /\ Counter(l).type = l.type /\ Counter(l).partner = l.partner
           /\ Counter(l).rec = l.rec /\ Counter(l).full = l.full /\ Counter(l).due = l.due
BY DEF Counter, MoveLine

\* account_move.revert adds what the lines come to on the other side.
LEMMA Reverted ==
    ASSUME NEW book, Ledger(book), NEW S \in SUBSET DOMAIN book
    PROVE  LET extra == CounterLines(book, S)
           IN /\ Revert(book, S) = Freed(book, S) \o extra
              /\ Extended(book, extra) /\ Extended(Freed(book, S), extra)
              /\ PostedOn(book, extra, Revert(book, S))
              /\ Worth(extra) = -Total(book, S)
              /\ Len(extra) = Cardinality(S)
              /\ \A k \in DOMAIN extra :
                    /\ extra[k].rec = 0
                    /\ \E l \in S : /\ extra[k].of = book[l].of /\ extra[k].type = book[l].type
                                    /\ extra[k].partner = book[l].partner
                                    /\ extra[k].due = book[l].due
<1> DEFINE free == Freed(book, S)
           s == SortedBy(S, LAMBDA x : x)
           extra == CounterLines(book, S)
<1>1. /\ book \in Book /\ DOMAIN book = 1..Len(book) /\ Len(book) \in Nat /\ IsFiniteSet(S)
      /\ S \in SUBSET Int
  <2>1. book \in Book
    BY DEF Ledger
  <2>2. DOMAIN book = 1..Len(book) /\ Len(book) \in Nat /\ IsFiniteSet(S)
    BY <2>1, BookLines
  <2> QED BY <2>1, <2>2
<1>2. Enumerates(s, S)
  BY <1>1, SortedPlain
<1>3. Revert(book, S) = free \o extra
  BY DEF Revert, CounterLines, Counter
<1>4. /\ Ledger(free) /\ DOMAIN free = DOMAIN book /\ Len(free) = Len(book)
      /\ \A m \in DOMAIN book : Alike(book[m], free[m])
      /\ \A m \in DOMAIN book \cap S : free[m].rec = 0
  BY FreedFacts
<1>5. extra = [i \in 1..Cardinality(S) |-> Counter(free[s[i]])]
  BY DEF CounterLines
<1> HIDE DEF free, s, extra
<1>6. /\ DOMAIN s = 1..Cardinality(S) /\ Cardinality(S) \in Nat /\ \A i \in DOMAIN s : s[i] \in S
  BY <1>2, SeqFacts DEF Enumerates
<1>7. free \in Book /\ \A m \in DOMAIN book : free[m] \in MoveLine
  BY <1>4, BookLines DEF Ledger
<1>8. ASSUME NEW i \in 1..Cardinality(S)
      PROVE  /\ s[i] \in S /\ s[i] \in DOMAIN book /\ extra[i] \in MoveLine
             /\ extra[i].debit = free[s[i]].credit /\ extra[i].credit = free[s[i]].debit
             /\ extra[i].of = book[s[i]].of /\ extra[i].type = book[s[i]].type
             /\ extra[i].partner = book[s[i]].partner /\ extra[i].due = book[s[i]].due
             /\ extra[i].rec = 0
  <2>1. s[i] \in S /\ s[i] \in DOMAIN book /\ free[s[i]] \in MoveLine
    BY <1>6, <1>7
  <2>2. extra[i] = Counter(free[s[i]])
    BY <1>5
  <2>3. Alike(book[s[i]], free[s[i]]) /\ free[s[i]].rec = 0
    BY <1>4, <2>1
  <2> DEFINE y == free[s[i]]
             x == book[s[i]]
             z == extra[i]
  <2>4. y \in MoveLine /\ z = Counter(y) /\ Alike(x, y) /\ y.rec = 0
    BY <2>1, <2>2, <2>3
  <2> HIDE DEF x, y, z
  <2>5. /\ z \in MoveLine /\ z.debit = y.credit /\ z.credit = y.debit /\ z.of = x.of /\ z.type = x.type
        /\ z.partner = x.partner /\ z.due = x.due /\ z.rec = 0
    BY <2>4, CounterFacts DEF Alike
  <2> QED BY <2>1, <2>5 DEF x, y, z
<1>9. extra \in Seq(MoveLine) /\ Len(extra) = Cardinality(S) /\ DOMAIN extra = 1..Cardinality(S)
  <2>1. extra = [i \in 1..Cardinality(S) |-> extra[i]]
    BY <1>5
  <2> QED BY <1>6, <1>8, <2>1
<1>10. Extended(book, extra) /\ Extended(free, extra)
  <2> SUFFICES ASSUME NEW k \in 1..Cardinality(S)
               PROVE  /\ extra[k].debit = 0 \/ extra[k].credit = 0
                      /\ extra[k].of \in Receipts => extra[k].type = "receivable"
                                                     /\ extra[k].partner = Customer
    BY <1>9 DEF Extended
  <2>1. /\ s[k] \in DOMAIN book /\ s[k] \in DOMAIN free
        /\ extra[k].debit = free[s[k]].credit /\ extra[k].credit = free[s[k]].debit
        /\ extra[k].of = book[s[k]].of /\ extra[k].type = book[s[k]].type
        /\ extra[k].partner = book[s[k]].partner
    BY <1>4, <1>8
  <2>2. free[s[k]].debit = 0 \/ free[s[k]].credit = 0
    BY <1>4, <2>1 DEF Ledger
  <2>3. book[s[k]].of \in Receipts => book[s[k]].type = "receivable" /\ book[s[k]].partner = Customer
    BY <2>1 DEF Ledger
  <2> QED BY <2>1, <2>2, <2>3
<1>11. PostedOn(free, extra, free \o extra)
  BY <1>4, <1>10, ExtendedFacts
<1>12. PostedOn(book, extra, free \o extra)
  <2> DEFINE c == free \o extra
  <2>1. PostedOn(free, extra, c)
    BY <1>11
  <2> HIDE DEF c
  <2>2. \A m \in DOMAIN book : Alike(book[m], c[m])
    BY <1>4, <2>1 DEF PostedOn, Alike
  <2>3. Grows(book, c)
    BY <1>4, <2>1, <2>2 DEF PostedOn, Alike, Grows
  <2>4. PostedOn(book, extra, c)
    BY <1>4, <2>1, <2>2, <2>3 DEF PostedOn
  <2> QED BY <2>4 DEF c
<1>13. Worth(extra) = -Total(book, S)
  <2> DEFINE f == Signed(book)
             g == [i \in DOMAIN s |-> f[s[i]]]
             h == Signed(extra)
             D == DOMAIN s
  <2>1. Whole(f, S) /\ \A m \in DOMAIN book : f[m] = book[m].debit - book[m].credit
    BY <1>1, TotalWhole
  <2>2. SumOver(g, D) = SumOver(f, S) /\ IsFiniteSet(D) /\ Whole(g, D)
    <3> HIDE DEF f
    <3>0. \A i \in DOMAIN s : g[i] = f[s[i]]
      OBVIOUS
    <3> HIDE DEF g
    <3> QED BY <1>1, <1>2, <2>1, <3>0, SumEnumerated
  <2>3. ASSUME NEW i \in D PROVE h[i] = -g[i]
    <3>1. /\ s[i] \in DOMAIN book /\ extra[i].debit = free[s[i]].credit
          /\ extra[i].credit = free[s[i]].debit
      BY <1>6, <1>8
    <3>2. h[i] = extra[i].debit - extra[i].credit
      BY <1>6, <1>9 DEF Signed
    <3>3. g[i] = book[s[i]].debit - book[s[i]].credit
      BY <2>1, <3>1
    <3>4. /\ free[s[i]].credit = book[s[i]].credit /\ free[s[i]].debit = book[s[i]].debit
          /\ book[s[i]].credit \in Nat /\ book[s[i]].debit \in Nat
      BY <1>1, <1>4, <3>1, BookLines DEF Alike, MoveLine
    <3> DEFINE a == book[s[i]].debit
               b == book[s[i]].credit
    <3>5. h[i] = b - a /\ g[i] = a - b /\ a \in Nat /\ b \in Nat
      BY <3>1, <3>2, <3>3, <3>4
    <3> HIDE DEF a, b
    <3> QED BY <3>5
  <2> HIDE DEF f, g, h, D
  <2>4. SumOver(h, D) = -SumOver(g, D)
    BY <2>2, <2>3, SumNegative
  <2>5. Worth(extra) = SumOver(h, D)
    BY <1>6, <1>9 DEF Worth, h, D
  <2> QED BY <2>2, <2>4, <2>5 DEF Total, f
<1>14. \A k \in DOMAIN extra :
          /\ extra[k].rec = 0
          /\ \E l \in S : /\ extra[k].of = book[l].of /\ extra[k].type = book[l].type
                          /\ extra[k].partner = book[l].partner
                          /\ extra[k].due = book[l].due
  BY <1>8, <1>9
<1> QED BY <1>3, <1>9, <1>10, <1>12, <1>13, <1>14 DEF free, extra

-----------------------------------------------------------------------------
(* A voucher: the lines that are assigned to it                            *)

\* The lines of a voucher are the first of moves, in their order.
ListsMoves(type, lines, moves) ==
    /\ lines \in Seq(AssignedLine) /\ Len(lines) <= Len(moves)
    /\ \A i \in DOMAIN lines :
          VoucherLineOK(ledger, type, lines[i]) /\ lines[i].line = moves[i]

LEMMA MoveIdsFacts ==
    ASSUME Ledger(ledger), NEW type
    PROVE  LET moves == MoveIds(type)
           IN /\ moves \in Seq(DOMAIN ledger)
              /\ \A i \in DOMAIN moves : OfAccount(ledger, type, moves[i]) /\ ~ledger[moves[i]].full
              /\ \A i \in DOMAIN moves, j \in DOMAIN moves : moves[i] = moves[j] => i = j
<1> DEFINE account == IF type = "receipt" THEN "receivable" ELSE "payable"
           Used(l) == /\ ledger[l].rec # 0
                      /\ IF type = "receipt" THEN ledger[l].credit > 0 ELSE ledger[l].debit > 0
           S == {l \in OpenLines(ledger, Customer, account) : ~Used(l)}
           moves == MoveIds(type)
<1>1. moves = SortedBy(S, LAMBDA x : x)
  BY DEF MoveIds
<1>2. S \in SUBSET DOMAIN ledger /\ \A l \in S : OfAccount(ledger, type, l) /\ ~ledger[l].full
  BY DEF OpenLines, OfAccount, AccountOf
<1> HIDE DEF S, moves
<1>3. S \in SUBSET Int /\ IsFiniteSet(S)
  BY <1>2, BookLines DEF Ledger
<1>4. Enumerates(moves, S)
  BY <1>1, <1>3, SortedPlain
<1>5. moves \in Seq(S) /\ \A i \in DOMAIN moves, j \in DOMAIN moves : moves[i] = moves[j] => i = j
  BY <1>4 DEF Enumerates
<1>6. \A i \in DOMAIN moves : moves[i] \in S
  BY <1>5, SeqFacts
<1>7. moves \in Seq(DOMAIN ledger)
  <2> DEFINE Q == DOMAIN ledger
  <2>1. \A i \in 1..Len(moves) : moves[i] \in Q
    BY <1>2, <1>5, <1>6
  <2>2. moves = [i \in 1..Len(moves) |-> moves[i]] /\ Len(moves) \in Nat
    BY <1>5
  <2> HIDE DEF Q
  <2>3. moves \in Seq(Q)
    BY <2>1, <2>2
  <2> QED BY <2>3 DEF Q
<1> QED BY <1>2, <1>5, <1>6, <1>7 DEF moves

\* One more line is listed.
LEMMA LineAssigned ==
    ASSUME Ledger(ledger), NEW type, NEW moves \in Seq(DOMAIN ledger),
           \A i \in DOMAIN moves : OfAccount(ledger, type, moves[i]),
           NEW lines, ListsMoves(type, lines, moves), NEW n \in 1..Len(moves), Len(lines) = n - 1,
           NEW left \in Nat
    PROVE  LET part == Lesser(Residual(ledger, moves[n]), left)
               new == Append(lines, VoucherLine(moves[n], part))
           IN /\ left - part \in Nat /\ ListsMoves(type, new, moves) /\ Len(new) = n
              /\ new \in Seq(AssignedLine)
<1> DEFINE l == moves[n]
           res == Residual(ledger, l)
           part == Lesser(res, left)
           x == VoucherLine(l, part)
           new == Append(lines, x)
<1>1. n \in DOMAIN moves /\ l \in DOMAIN ledger /\ OfAccount(ledger, type, l) /\ Len(moves) \in Nat
  BY SeqFacts
<1>2. res \in Nat /\ l \in Nat
  <2>1. ledger \in Book
    BY DEF Ledger
  <2> QED BY <1>1, <2>1, ResidualFacts, BookLines
<1>3. x = [line |-> l, type |-> IF ledger[l].credit > 0 THEN "dr" ELSE "cr", unrec |-> res,
           amount |-> part]
  BY DEF VoucherLine
<1> HIDE DEF l, res
<1>4. part \in Nat /\ part <= res /\ part <= left
  BY <1>2, LesserFacts
<1> HIDE DEF part
<1>5. x \in AssignedLine /\ VoucherLineOK(ledger, type, x) /\ x.line = l
  <2> HIDE DEF x
  <2>1. x \in AssignedLine /\ x.line = l /\ x.amount <= x.unrec
    BY <1>2, <1>3, <1>4 DEF AssignedLine
  <2>2. x.type = "dr" <=> ledger[x.line].credit > 0
    BY <1>3
  <2> QED BY <1>1, <2>1, <2>2 DEF VoucherLineOK
<1> HIDE DEF x
<1>6. lines \in Seq(AssignedLine)
  BY DEF ListsMoves
<1>7. /\ new \in Seq(AssignedLine) /\ Len(new) = Len(lines) + 1
      /\ DOMAIN new = 1..(Len(lines) + 1) /\ DOMAIN lines = 1..Len(lines) /\ Len(lines) \in Nat
      /\ \A k \in 1..Len(lines) : new[k] = lines[k]
      /\ new[Len(lines) + 1] = x
  <2> DEFINE Q == AssignedLine
  <2>1. lines \in Seq(Q) /\ x \in Q
    BY <1>5, <1>6
  <2> HIDE DEF Q
  <2>2. /\ new \in Seq(Q) /\ Len(new) = Len(lines) + 1
        /\ DOMAIN new = 1..(Len(lines) + 1) /\ DOMAIN lines = 1..Len(lines) /\ Len(lines) \in Nat
        /\ \A k \in 1..Len(lines) : new[k] = lines[k]
        /\ new[Len(lines) + 1] = x
    BY <2>1, AppendFacts, SeqFacts
  <2> QED BY <2>2 DEF Q
<1>8. Len(new) = n /\ DOMAIN new = 1..n /\ new[n] = x /\ \A k \in 1..(n - 1) : new[k] = lines[k]
  BY <1>1, <1>7
<1> HIDE DEF new
<1>9. ListsMoves(type, new, moves)
  <2>1. ASSUME NEW i \in DOMAIN new
        PROVE  VoucherLineOK(ledger, type, new[i]) /\ new[i].line = moves[i]
    <3>1. CASE i = n
      BY <1>5, <1>8, <3>1 DEF l
    <3>2. CASE i # n
      <4>1. i \in 1..(n - 1) /\ i \in DOMAIN lines
        BY <1>1, <1>7, <1>8, <3>2
      <4> QED BY <1>8, <4>1 DEF ListsMoves
    <3> QED BY <3>1, <3>2
  <2> QED BY <1>1, <1>7, <1>8, <2>1 DEF ListsMoves
<1>10. left - part \in Nat
  BY <1>4
<1> QED BY <1>7, <1>8, <1>9, <1>10 DEF new, x, l, part, res

ComputedFirst(debit, credit) == [debit |-> debit, credit |-> credit, lines |-> <<>>]

LEMMA ComputedUnfolds ==
    ASSUME NEW Q, NEW moves \in Seq(Q), NEW debit, NEW credit
    PROVE  /\ Computed(moves, debit, credit)[0] = ComputedFirst(debit, credit)
           /\ \A n \in 1..Len(moves) : Computed(moves, debit, credit)[n] = ComputeNext(Computed(moves, debit, credit)[n - 1], moves[n])
<1> DEFINE N == Len(moves)
           First == ComputedFirst(debit, credit)
           Is(n, g) == g = [m \in 0..n |-> IF m = 0 THEN First ELSE ComputeNext(g[m - 1], moves[m])]
           K == {n \in Nat : \E g : Is(n, g)}
<1>0. N \in Nat
  OBVIOUS
<1>1. 0 \in K
  <2> DEFINE g == [m \in 0..0 |-> First]
  <2>1. Is(0, g)
    OBVIOUS
  <2> HIDE DEF g
  <2>2. \E x : Is(0, x)
    BY <2>1
  <2> QED BY <2>2
<1>2. ASSUME NEW n \in 1..N, n - 1 \in K PROVE n \in K
  <2>1. PICK g : Is(n - 1, g)
    BY <1>2
  <2> HIDE DEF First
  <2> DEFINE h == [m \in 0..n |-> IF m = 0 THEN First ELSE ComputeNext(g[m - 1], moves[m])]
  <2>2. \A m \in 0..(n - 1) : h[m] = g[m]
    BY <1>0, <2>1
  <2>3. \A m \in 1..n : m - 1 \in 0..(n - 1)
    BY <1>0
  <2> DEFINE A(m) == IF m = 0 THEN First ELSE ComputeNext(g[m - 1], moves[m])
             B(m) == IF m = 0 THEN First ELSE ComputeNext(h[m - 1], moves[m])
  <2>4. \A m \in 0..n : A(m) = B(m)
    <3>1. \A m \in 1..n : h[m - 1] = g[m - 1]
      BY <2>2, <2>3
    <3> HIDE DEF h
    <3> QED BY <1>0, <3>1
  <2>5. h = [m \in 0..n |-> A(m)]
    OBVIOUS
  <2>6. h = [m \in 0..n |-> B(m)]
    <3> HIDE DEF h, A, B
    <3> QED BY <2>4, <2>5
  <2>7. \E x : Is(n, x)
    <3> HIDE DEF h
    <3>1. Is(n, h)
      BY <2>6
    <3> QED BY <3>1
  <2>8. n \in Nat
    BY <1>0
  <2> QED BY <2>7, <2>8
<1>3. \A n \in 0..N : n \in K
  <2> HIDE DEF K, N
  <2> QED BY <1>0, <1>1, <1>2, UpTo
<1>4. \E g : Is(N, g)
  <2>1. N \in K
    <3> HIDE DEF K
    <3> QED BY <1>0, <1>3
  <2> HIDE DEF N, Is
  <2> QED BY <2>1
<1> DEFINE b == Computed(moves, debit, credit)
<1>5. b = CHOOSE g : Is(N, g)
  BY DEF Computed, ComputedFirst
<1>6. Is(N, b)
  <2> HIDE DEF Is, b, N
  <2> QED BY <1>4, <1>5
<1> HIDE DEF First, b
<1>7. b = [m \in 0..N |-> IF m = 0 THEN First ELSE ComputeNext(b[m - 1], moves[m])]
  BY <1>6
<1>8. b[0] = First /\ \A n \in 1..N : b[n] = ComputeNext(b[n - 1], moves[n])
  BY <1>0, <1>7
<1> QED BY <1>8 DEF b, First

\* The state of the loop over the lines of a voucher, after n of them
ComputedTo(done, type, moves, n) ==
    /\ done \in [debit : Nat, credit : Nat, lines : Seq(AssignedLine)]
    /\ ListsMoves(type, done.lines, moves) /\ Len(done.lines) = n

LEMMA ComputedNext ==
    ASSUME Ledger(ledger), NEW type, NEW moves \in Seq(DOMAIN ledger),
           \A i \in DOMAIN moves : OfAccount(ledger, type, moves[i]),
           NEW n \in 1..Len(moves), NEW done, ComputedTo(done, type, moves, n - 1)
    PROVE  ComputedTo(ComputeNext(done, moves[n]), type, moves, n)
<1> DEFINE l == moves[n]
           left == IF ledger[l].credit > 0 THEN done.debit ELSE done.credit
           part == Lesser(Residual(ledger, l), left)
           lines == done.lines
           new == Append(lines, VoucherLine(l, part))
           to == ComputeNext(done, l)
<1>1. left \in Nat /\ done \in [debit : Nat, credit : Nat, lines : Seq(AssignedLine)]
      /\ ListsMoves(type, lines, moves) /\ Len(lines) = n - 1
  BY DEF ComputedTo
<1>2. to = IF ledger[l].credit > 0
           THEN [done EXCEPT !.debit = @ - part, !.lines = new]
           ELSE [done EXCEPT !.credit = @ - part, !.lines = new]
  BY DEF ComputeNext
<1>3. ledger[l].credit > 0 => left = done.debit
  OBVIOUS
<1>4. ~(ledger[l].credit > 0) => left = done.credit
  OBVIOUS
<1> HIDE DEF left, lines
<1>5. left - part \in Nat /\ ListsMoves(type, new, moves) /\ Len(new) = n /\ new \in Seq(AssignedLine)
  BY <1>1, LineAssigned
<1> HIDE DEF l, part, new, to
<1>6. CASE ledger[l].credit > 0
  <2>1. to = [done EXCEPT !.debit = @ - part, !.lines = new] /\ done.debit - part \in Nat
    BY <1>2, <1>3, <1>5, <1>6
  <2>2. to \in [debit : Nat, credit : Nat, lines : Seq(AssignedLine)] /\ to.lines = new
    BY <1>1, <1>5, <2>1
  <2>3. ComputedTo(to, type, moves, n)
    BY <1>5, <2>2 DEF ComputedTo
  <2> QED BY <2>3 DEF to, l
<1>7. CASE ~(ledger[l].credit > 0)
  <2>1. to = [done EXCEPT !.credit = @ - part, !.lines = new] /\ done.credit - part \in Nat
    BY <1>2, <1>4, <1>5, <1>7
  <2>2. to \in [debit : Nat, credit : Nat, lines : Seq(AssignedLine)] /\ to.lines = new
    BY <1>1, <1>5, <2>1
  <2>3. ComputedTo(to, type, moves, n)
    BY <1>5, <2>2 DEF ComputedTo
  <2> QED BY <2>3 DEF to, l
<1> QED BY <1>6, <1>7

LEMMA ComputeFacts ==
    ASSUME Ledger(ledger), NEW type, NEW moves \in Seq(DOMAIN ledger),
           \A i \in DOMAIN moves : OfAccount(ledger, type, moves[i]),
           NEW debit \in Nat, NEW credit \in Nat
    PROVE  ListsMoves(type, Compute(moves, debit, credit), moves)
<1> DEFINE f == Computed(moves, debit, credit)
           N == Len(moves)
           K == {n \in 0..N : ComputedTo(f[n], type, moves, n)}
<1>1. /\ f[0] = [debit |-> debit, credit |-> credit, lines |-> <<>>]
      /\ \A n \in 1..N : f[n] = ComputeNext(f[n - 1], moves[n])
  BY ComputedUnfolds DEF ComputedFirst
<1>2. N \in Nat
  OBVIOUS
<1> HIDE DEF f
<1>3. 0 \in K
  <2>1. f[0] \in [debit : Nat, credit : Nat, lines : Seq(AssignedLine)] /\ f[0].lines = <<>>
    BY <1>1
  <2>2. ListsMoves(type, <<>>, moves) /\ Len(<<>>) = 0
    BY <1>2 DEF ListsMoves
  <2> QED BY <1>2, <2>1, <2>2 DEF ComputedTo
<1>4. ASSUME NEW n \in 1..N, n - 1 \in K PROVE n \in K
  <2> DEFINE done == f[n - 1]
  <2>1. ComputedTo(done, type, moves, n - 1)
    BY <1>4
  <2>2. f[n] = ComputeNext(done, moves[n])
    BY <1>1
  <2> HIDE DEF done
  <2>3. ComputedTo(f[n], type, moves, n)
    BY <2>1, <2>2, ComputedNext
  <2> QED BY <1>2, <2>3
<1>5. N \in K
  <2> HIDE DEF K, N
  <2>1. \A n \in 0..N : n \in K
    BY <1>2, <1>3, <1>4, UpTo
  <2> QED BY <1>2, <2>1
<1>6. ListsMoves(type, f[N].lines, moves)
  BY <1>5 DEF ComputedTo
<1> QED BY <1>6 DEF Compute, f

AssignedFirst(amount) == [left |-> amount, lines |-> <<>>]

LEMMA AssignedUnfolds ==
    ASSUME NEW Q, NEW moves \in Seq(Q), NEW amount
    PROVE  /\ Assigned(moves, amount)[0] = AssignedFirst(amount)
           /\ \A n \in 1..Len(moves) : Assigned(moves, amount)[n] = AssignNext(Assigned(moves, amount)[n - 1], moves[n])
<1> DEFINE N == Len(moves)
           First == AssignedFirst(amount)
           Is(n, g) == g = [m \in 0..n |-> IF m = 0 THEN First ELSE AssignNext(g[m - 1], moves[m])]
           K == {n \in Nat : \E g : Is(n, g)}
<1>0. N \in Nat
  OBVIOUS
<1>1. 0 \in K
  <2> DEFINE g == [m \in 0..0 |-> First]
  <2>1. Is(0, g)
    OBVIOUS
  <2> HIDE DEF g
  <2>2. \E x : Is(0, x)
    BY <2>1
  <2> QED BY <2>2
<1>2. ASSUME NEW n \in 1..N, n - 1 \in K PROVE n \in K
  <2>1. PICK g : Is(n - 1, g)
    BY <1>2
  <2> HIDE DEF First
  <2> DEFINE h == [m \in 0..n |-> IF m = 0 THEN First ELSE AssignNext(g[m - 1], moves[m])]
  <2>2. \A m \in 0..(n - 1) : h[m] = g[m]
    BY <1>0, <2>1
  <2>3. \A m \in 1..n : m - 1 \in 0..(n - 1)
    BY <1>0
  <2> DEFINE A(m) == IF m = 0 THEN First ELSE AssignNext(g[m - 1], moves[m])
             B(m) == IF m = 0 THEN First ELSE AssignNext(h[m - 1], moves[m])
  <2>4. \A m \in 0..n : A(m) = B(m)
    <3>1. \A m \in 1..n : h[m - 1] = g[m - 1]
      BY <2>2, <2>3
    <3> HIDE DEF h
    <3> QED BY <1>0, <3>1
  <2>5. h = [m \in 0..n |-> A(m)]
    OBVIOUS
  <2>6. h = [m \in 0..n |-> B(m)]
    <3> HIDE DEF h, A, B
    <3> QED BY <2>4, <2>5
  <2>7. \E x : Is(n, x)
    <3> HIDE DEF h
    <3>1. Is(n, h)
      BY <2>6
    <3> QED BY <3>1
  <2>8. n \in Nat
    BY <1>0
  <2> QED BY <2>7, <2>8
<1>3. \A n \in 0..N : n \in K
  <2> HIDE DEF K, N
  <2> QED BY <1>0, <1>1, <1>2, UpTo
<1>4. \E g : Is(N, g)
  <2>1. N \in K
    <3> HIDE DEF K
    <3> QED BY <1>0, <1>3
  <2> HIDE DEF N, Is
  <2> QED BY <2>1
<1> DEFINE b == Assigned(moves, amount)
<1>5. b = CHOOSE g : Is(N, g)
  BY DEF Assigned, AssignedFirst
<1>6. Is(N, b)
  <2> HIDE DEF Is, b, N
  <2> QED BY <1>4, <1>5
<1> HIDE DEF First, b
<1>7. b = [m \in 0..N |-> IF m = 0 THEN First ELSE AssignNext(b[m - 1], moves[m])]
  BY <1>6
<1>8. b[0] = First /\ \A n \in 1..N : b[n] = AssignNext(b[n - 1], moves[n])
  BY <1>0, <1>7
<1> QED BY <1>8 DEF b, First

AssignedTo(done, type, moves, n) ==
    /\ done \in [left : Nat, lines : Seq(AssignedLine)]
    /\ ListsMoves(type, done.lines, moves) /\ (Len(done.lines) = n \/ done.left = 0)

LEMMA AssignedNext ==
    ASSUME Ledger(ledger), NEW type, NEW moves \in Seq(DOMAIN ledger),
           \A i \in DOMAIN moves : OfAccount(ledger, type, moves[i]),
           NEW n \in 1..Len(moves), NEW done, AssignedTo(done, type, moves, n - 1)
    PROVE  AssignedTo(AssignNext(done, moves[n]), type, moves, n)
<1> DEFINE l == moves[n]
           left == done.left
           part == Lesser(Residual(ledger, l), left)
           lines == done.lines
           new == Append(lines, VoucherLine(l, part))
           to == AssignNext(done, l)
<1>1. left \in Nat /\ lines \in Seq(AssignedLine) /\ ListsMoves(type, lines, moves)
      /\ (Len(lines) = n - 1 \/ left = 0)
  BY DEF AssignedTo
<1>2. CASE left = 0
  <2>1. to = done
    BY <1>2 DEF AssignNext
  <2> QED BY <1>2, <2>1 DEF AssignedTo
<1>3. CASE left # 0
  <2>1. to = [left |-> left - part, lines |-> new]
    BY <1>3 DEF AssignNext
  <2>2. Len(lines) = n - 1
    BY <1>1, <1>3
  <2> HIDE DEF left, lines
  <2>3. left - part \in Nat /\ ListsMoves(type, new, moves) /\ Len(new) = n /\ new \in Seq(AssignedLine)
    BY <1>1, <2>2, LineAssigned
  <2> HIDE DEF l, part, new, to
  <2>4. AssignedTo(to, type, moves, n)
    BY <2>1, <2>3 DEF AssignedTo
  <2> QED BY <2>4 DEF to, l
<1> QED BY <1>2, <1>3

LEMMA AutoAssignFacts ==
    ASSUME Ledger(ledger), NEW type, NEW moves \in Seq(DOMAIN ledger),
           \A i \in DOMAIN moves : OfAccount(ledger, type, moves[i]), NEW amount \in Nat
    PROVE  ListsMoves(type, AutoAssign(moves, amount), moves)
<1> DEFINE f == Assigned(moves, amount)
           N == Len(moves)
           K == {n \in 0..N : AssignedTo(f[n], type, moves, n)}
<1>1. /\ f[0] = [left |-> amount, lines |-> <<>>]
      /\ \A n \in 1..N : f[n] = AssignNext(f[n - 1], moves[n])
  BY AssignedUnfolds DEF AssignedFirst
<1>2. N \in Nat
  OBVIOUS
<1> HIDE DEF f
<1>3. 0 \in K
  <2>1. f[0] \in [left : Nat, lines : Seq(AssignedLine)] /\ f[0].lines = <<>>
    BY <1>1
  <2>2. ListsMoves(type, <<>>, moves) /\ Len(<<>>) = 0
    BY <1>2 DEF ListsMoves
  <2> QED BY <1>2, <2>1, <2>2 DEF AssignedTo
<1>4. ASSUME NEW n \in 1..N, n - 1 \in K PROVE n \in K
  <2> DEFINE done == f[n - 1]
  <2>1. AssignedTo(done, type, moves, n - 1)
    BY <1>4
  <2>2. f[n] = AssignNext(done, moves[n])
    BY <1>1
  <2> HIDE DEF done
  <2>3. AssignedTo(f[n], type, moves, n)
    BY <2>1, <2>2, AssignedNext
  <2> QED BY <1>2, <2>3
<1>5. N \in K
  <2> HIDE DEF K, N
  <2>1. \A n \in 0..N : n \in K
    BY <1>2, <1>3, <1>4, UpTo
  <2> QED BY <1>2, <2>1
<1>6. ListsMoves(type, f[N].lines, moves)
  BY <1>5 DEF AssignedTo
<1> QED BY <1>6 DEF AutoAssign, f

-----------------------------------------------------------------------------
(* A voucher is posted                                                     *)

LEMMA SumMinus ==
    ASSUME NEW f, NEW g, NEW h, NEW S, IsFiniteSet(S), Whole(f, S), Whole(g, S),
           \A x \in S : h[x] = f[x] - g[x]
    PROVE  SumOver(h, S) = SumOver(f, S) - SumOver(g, S)
<1> DEFINE C == {T \in SUBSET S : SumOver(h, T) = SumOver(f, T) - SumOver(g, T)}
<1>1. {} \in C
  BY SumEmpty
<1>2. ASSUME NEW T \in SUBSET S, T \in C, NEW x \in S \ T PROVE T \cup {x} \in C
  <2>1. /\ IsFiniteSet(T) /\ Whole(f, T) /\ f[x] \in Int /\ Whole(g, T) /\ g[x] \in Int
        /\ h[x] = f[x] - g[x]
    BY FS_Subset DEF Whole
  <2>2. Whole(h, T) /\ h[x] \in Int
    BY <2>1 DEF Whole
  <2>3. SumOver(f, T \cup {x}) = f[x] + SumOver(f, T)
    BY <2>1, SumAdd
  <2>4. SumOver(g, T \cup {x}) = g[x] + SumOver(g, T)
    BY <2>1, SumAdd
  <2>5. SumOver(h, T \cup {x}) = h[x] + SumOver(h, T)
    BY <2>1, <2>2, SumAdd
  <2>6. SumOver(f, T) \in Int /\ SumOver(g, T) \in Int
    BY <2>1, SumWhole
  <2> QED BY <1>2, <2>1, <2>3, <2>4, <2>5, <2>6
<1>3. S \in C
  <2> HIDE DEF C
  <2> QED BY <1>1, <1>2, SetInduct
<1> QED BY <1>3

\* Lines of the customer that a voucher writes
MovesOf(extra, account) ==
    /\ extra \in Seq(MoveLine)
    /\ \A k \in DOMAIN extra :
          /\ extra[k].debit = 0 \/ extra[k].credit = 0
          /\ extra[k].of = "voucher" /\ extra[k].rec = 0 /\ extra[k].due = 0
          /\ extra[k].type = account /\ extra[k].partner = Customer

LEMMA MovesJoin ==
    ASSUME NEW account, NEW s, NEW t, MovesOf(s, account), MovesOf(t, account)
    PROVE  MovesOf(s \o t, account) /\ Worth(s \o t) = Worth(s) + Worth(t)
<1> DEFINE c == s \o t
<1>1. s \in Seq(MoveLine) /\ t \in Seq(MoveLine)
  BY DEF MovesOf
<1>2. /\ c \in Seq(MoveLine) /\ Worth(c) = Worth(s) + Worth(t)
      /\ MadeOf(c, s, t)
  BY <1>1, ConcatElements
<1> HIDE DEF c
<1>3. MovesOf(c, account)
  BY <1>2 DEF MovesOf, MadeOf
<1> QED BY <1>2, <1>3 DEF c

\* A line of account_voucher
MoveOf(account, debit, credit) == [LineOf(debit, credit, "voucher") EXCEPT !.type = account]

IsMove(x, account, debit, credit) ==
    /\ x \in MoveLine /\ x.debit = debit /\ x.credit = credit /\ x.of = "voucher"
    /\ x.rec = 0 /\ x.due = 0 /\ x.type = account /\ x.partner = Customer /\ x.full = FALSE

LEMMA MoveOfFacts ==
    ASSUME NEW account \in {"receivable", "payable"}, NEW debit \in Nat, NEW credit \in Nat
    PROVE  IsMove(MoveOf(account, debit, credit), account, debit, credit)
<1> DEFINE x == MoveOf(account, debit, credit)
<1>1. Customer \in Partners /\ "voucher" \in Documents
  BY ReceiptsAssumption DEF Documents
<1> DEFINE y == LineOf(debit, credit, "voucher")
<1>2. /\ y \in MoveLine /\ y.debit = debit /\ y.credit = credit /\ y.of = "voucher"
      /\ y.rec = 0 /\ y.due = 0 /\ y.partner = Customer /\ y.full = FALSE
  BY <1>1 DEF LineOf, MoveLine
<1>3. x = [y EXCEPT !.type = account]
  BY DEF MoveOf
<1> HIDE DEF x, y
<1>4. IsMove(x, account, debit, credit)
  BY <1>2, <1>3 DEF IsMove, MoveLine
<1> QED BY <1>4 DEF x

LEMMA OneMove ==
    ASSUME NEW account \in {"receivable", "payable"}, NEW debit \in Nat, NEW credit \in Nat,
           debit = 0 \/ credit = 0
    PROVE  LET s == <<MoveOf(account, debit, credit)>>
           IN MovesOf(s, account) /\ Worth(s) = debit - credit
<1> DEFINE x == MoveOf(account, debit, credit)
           s == <<x>>
<1>1. /\ x \in MoveLine /\ x.debit = debit /\ x.credit = credit /\ x.of = "voucher"
      /\ x.rec = 0 /\ x.due = 0 /\ x.type = account /\ x.partner = Customer
  <2>1. IsMove(x, account, debit, credit)
    BY MoveOfFacts
  <2> HIDE DEF x
  <2> QED BY <2>1 DEF IsMove
<1> HIDE DEF x
<1>2. s \in Seq(MoveLine) /\ DOMAIN s = {1} /\ s[1] = x /\ Len(s) = 1 /\ 1..1 = {1}
  BY <1>1
<1> HIDE DEF s
<1>3. MovesOf(s, account)
  BY <1>1, <1>2 DEF MovesOf
<1>4. Signed(s)[1] = debit - credit
  BY <1>1, <1>2 DEF Signed
<1>5. SumOver(Signed(s), {1}) = Signed(s)[1]
  <2>1. Signed(s)[1] \in Int
    BY <1>4
  <2> QED BY <2>1, SumOne
<1> QED BY <1>2, <1>3, <1>4, <1>5 DEF Worth, s, x

\* The amounts of the lines of a type
AmountsOf(lines, type) == [i \in DOMAIN lines |-> IF lines[i].type = type THEN lines[i].amount ELSE 0]

LEMMA AmountsFacts ==
    ASSUME NEW lines \in Seq(AssignedLine), NEW type
    PROVE  /\ DOMAIN lines = 1..Len(lines) /\ Len(lines) \in Nat /\ IsFiniteSet(DOMAIN lines)
           /\ Whole(AmountsOf(lines, type), DOMAIN lines)
           /\ AmountOf(lines, type) = SumOver(AmountsOf(lines, type), DOMAIN lines)
           /\ AmountOf(lines, type) \in Nat
           /\ \A i \in DOMAIN lines : /\ lines[i] \in AssignedLine
                                      /\ AmountsOf(lines, type)[i] \in Nat
<1>1. DOMAIN lines = 1..Len(lines) /\ Len(lines) \in Nat /\ IsFiniteSet(DOMAIN lines)
  BY SeqFacts
<1>2. \A i \in DOMAIN lines : lines[i] \in AssignedLine
  BY <1>1
<1>3. \A i \in DOMAIN lines : lines[i].amount \in Nat
  BY <1>2 DEF AssignedLine
<1>4. \A i \in DOMAIN lines : AmountsOf(lines, type)[i] \in Nat
  BY <1>3 DEF AmountsOf
<1>5. AmountOf(lines, type) = SumOver(AmountsOf(lines, type), DOMAIN lines)
  BY DEF AmountOf, SumOf, AmountsOf
<1> DEFINE f == AmountsOf(lines, type)
           D == DOMAIN lines
<1>6. SumOver(f, D) \in Nat
  <2>1. IsFiniteSet(D) /\ \A x \in D : f[x] \in Nat
    BY <1>1, <1>4
  <2> HIDE DEF f, D
  <2> QED BY <2>1, SumPositive
<1>7. Whole(f, D)
  BY <1>4 DEF Whole
<1> QED BY <1>1, <1>2, <1>4, <1>5, <1>6, <1>7

\* The lines for those of a voucher
LinesOf(account, lines) ==
    [i \in DOMAIN lines |-> IF lines[i].type = "dr" THEN MoveOf(account, lines[i].amount, 0)
                            ELSE MoveOf(account, 0, lines[i].amount)]

LEMMA LinesOfFacts ==
    ASSUME NEW account \in {"receivable", "payable"}, NEW lines \in Seq(AssignedLine)
    PROVE  LET s == LinesOf(account, lines)
           IN /\ MovesOf(s, account) /\ Len(s) = Len(lines)
              /\ Worth(s) = AmountOf(lines, "dr") - AmountOf(lines, "cr")
              /\ \A i \in DOMAIN lines :
                    /\ lines[i].type = "dr" => s[i].debit = lines[i].amount /\ s[i].credit = 0
                    /\ lines[i].type = "cr" => s[i].credit = lines[i].amount /\ s[i].debit = 0
<1> DEFINE s == LinesOf(account, lines)
           f == AmountsOf(lines, "dr")
           g == AmountsOf(lines, "cr")
<1>1. /\ DOMAIN lines = 1..Len(lines) /\ Len(lines) \in Nat /\ IsFiniteSet(DOMAIN lines)
      /\ Whole(f, DOMAIN lines) /\ Whole(g, DOMAIN lines)
      /\ AmountOf(lines, "dr") = SumOver(f, DOMAIN lines)
      /\ AmountOf(lines, "cr") = SumOver(g, DOMAIN lines)
      /\ \A i \in DOMAIN lines : lines[i] \in AssignedLine
  BY AmountsFacts
<1>2. ASSUME NEW i \in DOMAIN lines
      PROVE  /\ s[i] \in MoveLine
             /\ s[i].debit = 0 \/ s[i].credit = 0
             /\ s[i].of = "voucher" /\ s[i].rec = 0 /\ s[i].due = 0
             /\ s[i].type = account /\ s[i].partner = Customer
             /\ s[i].debit - s[i].credit = f[i] - g[i]
             /\ lines[i].type = "dr" => s[i].debit = lines[i].amount /\ s[i].credit = 0
             /\ lines[i].type = "cr" => s[i].credit = lines[i].amount /\ s[i].debit = 0
  <2> DEFINE a == lines[i].amount
             y == s[i]
  <2>1. a \in Nat /\ lines[i].type \in {"dr", "cr"}
    BY <1>1 DEF AssignedLine
  <2>2. CASE lines[i].type = "dr"
    <3>1. y = MoveOf(account, a, 0) /\ f[i] = a /\ g[i] = 0
      BY <2>2 DEF LinesOf, AmountsOf
    <3> HIDE DEF a, y
    <3>2. /\ y \in MoveLine /\ y.debit = a /\ y.credit = 0 /\ y.of = "voucher"
          /\ y.rec = 0 /\ y.due = 0 /\ y.type = account /\ y.partner = Customer
      <4>1. IsMove(y, account, a, 0)
        BY <2>1, <3>1, MoveOfFacts
      <4> QED BY <4>1 DEF IsMove
    <3> QED BY <2>2, <3>1, <3>2 DEF a, y
  <2>3. CASE lines[i].type = "cr"
    <3>1. y = MoveOf(account, 0, a) /\ f[i] = 0 /\ g[i] = a
      BY <2>3 DEF LinesOf, AmountsOf
    <3> HIDE DEF a, y
    <3>2. /\ y \in MoveLine /\ y.debit = 0 /\ y.credit = a /\ y.of = "voucher"
          /\ y.rec = 0 /\ y.due = 0 /\ y.type = account /\ y.partner = Customer
      <4>1. IsMove(y, account, 0, a)
        BY <2>1, <3>1, MoveOfFacts
      <4> QED BY <4>1 DEF IsMove
    <3>3. y.debit - y.credit = f[i] - g[i]
      BY <2>1, <3>1, <3>2
    <3> QED BY <2>3, <3>1, <3>2, <3>3 DEF a, y
  <2> QED BY <2>1, <2>2, <2>3
<1>3. DOMAIN s = DOMAIN lines /\ s = [i \in 1..Len(lines) |-> s[i]]
  BY <1>1 DEF LinesOf
<1> HIDE DEF s, f, g
<1>4. s \in Seq(MoveLine) /\ Len(s) = Len(lines)
  <2> DEFINE Q == MoveLine
  <2>1. \A i \in 1..Len(lines) : s[i] \in Q
    BY <1>1, <1>2
  <2> HIDE DEF Q
  <2>2. s \in Seq(Q) /\ Len(s) = Len(lines)
    BY <1>1, <1>3, <2>1
  <2> QED BY <2>2 DEF Q
<1>5. MovesOf(s, account)
  BY <1>2, <1>3, <1>4 DEF MovesOf
<1>6. \A i \in DOMAIN lines : Signed(s)[i] = f[i] - g[i]
  BY <1>2, <1>3 DEF Signed
<1> DEFINE h == Signed(s)
           D == DOMAIN lines
<1>7. SumOver(h, D) = SumOver(f, D) - SumOver(g, D)
  <2>1. IsFiniteSet(D) /\ Whole(f, D) /\ Whole(g, D) /\ \A x \in D : h[x] = f[x] - g[x]
    BY <1>1, <1>6
  <2> HIDE DEF h, D
  <2> QED BY <2>1, SumMinus
<1>8. Worth(s) = AmountOf(lines, "dr") - AmountOf(lines, "cr")
  BY <1>1, <1>4, <1>7 DEF Worth
<1> QED BY <1>2, <1>4, <1>5, <1>8 DEF s

\* What a voucher writes comes to its amount.
LEMMA MovesFacts ==
    ASSUME NEW v \in VoucherRecord, NEW lines \in Seq(AssignedLine)
    PROVE  LET s == Moves(v, lines)
           IN /\ MovesOf(s, AccountOf(v.type)) /\ Len(s) >= Len(lines)
              /\ Worth(s) = (IF v.type = "receipt" THEN -v.amount ELSE v.amount)
              /\ \A i \in 1..Len(lines) : s[i] = LinesOf(AccountOf(v.type), lines)[i]
<1> DEFINE account == AccountOf(v.type)
           A == LinesOf(account, lines)
           paid == IF v.type = "receipt" THEN v.amount ELSE -v.amount
           dr == AmountOf(lines, "dr")
           cr == AmountOf(lines, "cr")
           rest == paid + dr - cr
           T == IF rest > 0 THEN <<MoveOf(account, 0, rest)>>
                ELSE IF rest < 0 THEN <<MoveOf(account, -rest, 0)>> ELSE <<>>
           s == Moves(v, lines)
<1>1. v.amount \in Nat /\ v.type \in {"receipt", "payment"}
  BY DEF VoucherRecord
<1>2. account \in {"receivable", "payable"} /\ paid \in Int
  BY <1>1 DEF AccountOf
<1>3. dr \in Nat /\ cr \in Nat
  BY AmountsFacts
<1>4. s = A \o T
  BY DEF Moves, LinesOf, MoveOf, AccountOf
<1> HIDE DEF account, paid, dr, cr
<1>5. rest \in Int
  BY <1>2, <1>3
<1>6. MovesOf(A, account) /\ Len(A) = Len(lines) /\ Worth(A) = dr - cr
  BY <1>2, LinesOfFacts DEF dr, cr
<1>7. MovesOf(T, account) /\ Worth(T) = -rest
  <2> HIDE DEF rest
  <2>1. CASE rest > 0
    <3>1. T = <<MoveOf(account, 0, rest)>> /\ rest \in Nat
      BY <1>5, <2>1
    <3>2. MovesOf(T, account) /\ Worth(T) = 0 - rest
      <4> HIDE DEF T
      <4> QED BY <1>2, <3>1, OneMove
    <3> QED BY <1>5, <3>2
  <2>2. CASE rest < 0
    <3> DEFINE x == -rest
    <3>1. T = <<MoveOf(account, x, 0)>> /\ x \in Nat
      BY <1>5, <2>2
    <3>2. MovesOf(T, account) /\ Worth(T) = x - 0
      <4> HIDE DEF T, x
      <4> QED BY <1>2, <3>1, OneMove
    <3> QED BY <1>5, <3>2
  <2>3. CASE rest = 0
    <3>1. T = <<>>
      BY <2>3
    <3> HIDE DEF T
    <3>2. MovesOf(T, account) /\ 1..Len(T) = {}
      BY <3>1 DEF MovesOf
    <3>3. Worth(T) = 0
      BY <3>2, SumEmpty DEF Worth
    <3>4. Worth(T) = -rest
      <4>1. \A x \in Int : x <= 0 /\ x >= 0 => 0 = -x
        OBVIOUS
      <4>2. rest <= 0 /\ rest >= 0
        BY <2>3
      <4> QED BY <1>5, <3>3, <4>1, <4>2
    <3> QED BY <3>2, <3>4
  <2> QED BY <1>5, <2>1, <2>2, <2>3
<1> HIDE DEF A, T, s
<1>8. MovesOf(s, account) /\ Worth(s) = Worth(A) + Worth(T)
  BY <1>4, <1>6, <1>7, MovesJoin
<1>9. Len(s) >= Len(lines) /\ \A i \in 1..Len(lines) : s[i] = A[i]
  <2>1. A \in Seq(MoveLine) /\ T \in Seq(MoveLine)
    BY <1>6, <1>7 DEF MovesOf
  <2>2. Len(s) = Len(A) + Len(T) /\ \A k \in 1..Len(A) : s[k] = A[k]
    BY <1>4, <2>1, ConcatElements
  <2> QED BY <1>6, <2>1, <2>2
<1>10. Worth(s) = -paid
  BY <1>2, <1>3, <1>6, <1>7, <1>8
<1>11. -paid = IF v.type = "receipt" THEN -v.amount ELSE v.amount
  BY <1>1 DEF paid
<1> QED BY <1>8, <1>9, <1>10, <1>11 DEF s, A, account

\* Lines of a voucher of this type, not all different
VoucherLines(type, lines) ==
    lines \in Seq(AssignedLine) /\ \A i \in DOMAIN lines : VoucherLineOK(ledger, type, lines[i])

\* The lines a voucher is posted with
AllLines(d) ==
    LET paid == IF d.type = "receipt" THEN "cr" ELSE "dr"
    IN IF \E i \in DOMAIN d.lines : d.lines[i].type = paid THEN d.lines
       ELSE d.lines \o AutoAssign(MoveIds(d.type), d.amount)
PostedLines(d) == Applicable(AllLines(d))
VoucherPairs(book, lines) == [i \in DOMAIN lines |-> <<Len(book) + i, lines[i].line>>]

LEMMA PostedLinesFacts ==
    ASSUME Ledger(ledger), NEW d \in VoucherRecord, AssignedLines(ledger, d.type, d.lines)
    PROVE  VoucherLines(d.type, PostedLines(d))
<1> DEFINE type == d.type
           auto == AutoAssign(MoveIds(type), d.amount)
           both == d.lines \o auto
           all == AllLines(d)
<1>1. d.lines \in Seq(AssignedLine) /\ VoucherLines(type, d.lines)
  BY DEF AssignedLines, VoucherLines
<1>2. auto \in Seq(AssignedLine) /\ VoucherLines(type, auto)
  <2> DEFINE moves == MoveIds(type)
  <2>1. moves \in Seq(DOMAIN ledger) /\ \A i \in DOMAIN moves : OfAccount(ledger, type, moves[i])
    BY MoveIdsFacts
  <2>2. d.amount \in Nat
    BY DEF VoucherRecord
  <2> HIDE DEF moves
  <2>3. ListsMoves(type, AutoAssign(moves, d.amount), moves)
    BY <2>1, <2>2, AutoAssignFacts
  <2> QED BY <2>3 DEF ListsMoves, VoucherLines, moves
<1>3. VoucherLines(type, both)
  <2> DEFINE Q == AssignedLine
             s == d.lines
  <2>1. s \in Seq(Q) /\ auto \in Seq(Q)
    BY <1>1, <1>2
  <2> HIDE DEF Q, auto, s
  <2>2. both = s \o auto
    BY DEF s
  <2> HIDE DEF both
  <2>3. both \in Seq(Q) /\ MadeOf(both, s, auto)
    BY <2>1, <2>2, ConcatFacts, ConcatParts
  <2>4. \A k \in DOMAIN both : VoucherLineOK(ledger, type, both[k])
    BY <1>1, <1>2, <2>3 DEF VoucherLines, MadeOf, s
  <2> QED BY <2>3, <2>4 DEF VoucherLines, Q
<1>4. VoucherLines(type, all)
  <2>1. all = d.lines \/ all = both
    BY DEF AllLines
  <2> HIDE DEF all, both
  <2> QED BY <1>1, <1>3, <2>1
<1> DEFINE lines == Applicable(all)
<1>5. lines = PostedLines(d)
  BY DEF PostedLines
<1> HIDE DEF all
<1>6. /\ lines \in Seq(AssignedLine)
      /\ \E f : \A i \in DOMAIN lines : f[i] \in DOMAIN all /\ lines[i] = all[f[i]]
  <2>1. all \in Seq(AssignedLine)
    BY <1>4 DEF VoucherLines
  <2> QED BY <2>1, ApplicableFacts
<1> HIDE DEF lines
<1>7. \A i \in DOMAIN lines : VoucherLineOK(ledger, type, lines[i])
  <2> SUFFICES ASSUME NEW i \in DOMAIN lines PROVE VoucherLineOK(ledger, type, lines[i])
    OBVIOUS
  <2>1. PICK f : f[i] \in DOMAIN all /\ lines[i] = all[f[i]]
    BY <1>6
  <2> QED BY <1>4, <2>1 DEF VoucherLines
<1>8. VoucherLines(type, lines)
  BY <1>6, <1>7 DEF VoucherLines
<1> QED BY <1>5, <1>8

LEMMA MovesExtend ==
    ASSUME NEW book, NEW extra, NEW account, MovesOf(extra, account)
    PROVE  Extended(book, extra)
<1>1. "voucher" \notin Receipts
  BY ReceiptsAssumption
<1> QED BY <1>1 DEF MovesOf, Extended

LEMMA VoucherPairsFacts ==
    ASSUME Ledger(ledger), NEW type, NEW lines, VoucherLines(type, lines),
           NEW extra \in Seq(MoveLine), Len(extra) >= Len(lines)
    PROVE  LET c == ledger \o extra
               pairs == VoucherPairs(ledger, lines)
           IN /\ pairs \in Seq((DOMAIN c) \X (DOMAIN c)) /\ Len(pairs) = Len(lines)
              /\ \A i \in DOMAIN pairs : /\ i \in DOMAIN lines /\ pairs[i][1] = Len(ledger) + i
                                         /\ pairs[i][2] = lines[i].line
                                         /\ pairs[i][2] \in DOMAIN ledger
<1> DEFINE c == ledger \o extra
           pairs == VoucherPairs(ledger, lines)
           D == DOMAIN c
<1>1. /\ lines \in Seq(AssignedLine) /\ DOMAIN lines = 1..Len(lines) /\ Len(lines) \in Nat
      /\ Len(extra) \in Nat
  BY SeqFacts DEF VoucherLines
<1>2. DOMAIN ledger = 1..Len(ledger) /\ Len(ledger) \in Nat
  BY BookLines DEF Ledger
<1>3. D = 1..(Len(ledger) + Len(extra))
  <2> DEFINE Q == MoveLine
  <2>1. ledger \in Seq(Q) /\ extra \in Seq(Q)
    BY DEF Ledger, Book
  <2> HIDE DEF Q
  <2> QED BY <2>1, ConcatFacts
<1> HIDE DEF D
<1>4. ASSUME NEW i \in DOMAIN lines
      PROVE  /\ pairs[i][1] = Len(ledger) + i /\ pairs[i][2] = lines[i].line
             /\ pairs[i][2] \in DOMAIN ledger /\ pairs[i] \in D \X D
  <2>1. pairs[i] = <<Len(ledger) + i, lines[i].line>>
    BY DEF VoucherPairs
  <2>2. lines[i].line \in DOMAIN ledger
    BY DEF VoucherLines, VoucherLineOK, OfAccount
  <2>3. Len(ledger) + i \in D /\ DOMAIN ledger \subseteq D
    BY <1>1, <1>2, <1>3
  <2> HIDE DEF pairs
  <2> QED BY <2>1, <2>2, <2>3
<1>5. DOMAIN pairs = 1..Len(lines) /\ pairs = [i \in 1..Len(lines) |-> pairs[i]]
  BY <1>1 DEF VoucherPairs
<1> HIDE DEF pairs
<1>6. pairs \in Seq(D \X D) /\ Len(pairs) = Len(lines)
  BY <1>1, <1>4, <1>5
<1> QED BY <1>1, <1>4, <1>5, <1>6 DEF D, c, pairs

\* action_move_line_create adds lines that come to the amount.
LEMMA VoucherPosted ==
    ASSUME VouchersTypeOK, NEW v \in VoucherIds, ActionMoveLineCreate(v)
    PROVE  LET d == voucher[v]
               lines == PostedLines(d)
               extra == Moves(d, lines)
               pairs == VoucherPairs(ledger, lines)
           IN /\ VoucherLines(d.type, lines) /\ d \in VoucherRecord
              /\ MovesOf(extra, AccountOf(d.type)) /\ Len(extra) >= Len(lines)
              /\ Worth(extra) = (IF d.type = "receipt" THEN -d.amount ELSE d.amount)
              /\ PostedOn(ledger, extra, ledger')
              /\ ledger' = Books(ledger \o extra, pairs)[Len(pairs)]
<1> DEFINE d == voucher[v]
           lines == PostedLines(d)
           extra == Moves(d, lines)
           pairs == VoucherPairs(ledger, lines)
<1>1. Ledger(ledger) /\ d \in VoucherRecord /\ AssignedLines(ledger, d.type, d.lines)
  BY DEF VouchersTypeOK, VouchersType
<1>2. ledger' = Books(ledger \o extra, pairs)[Len(pairs)]
  BY DEF ActionMoveLineCreate, PostedLines, AllLines, VoucherPairs
<1> HIDE DEF d
<1>3. VoucherLines(d.type, lines) /\ lines \in Seq(AssignedLine)
  <2>1. VoucherLines(d.type, lines)
    BY <1>1, PostedLinesFacts
  <2> HIDE DEF lines
  <2> QED BY <2>1 DEF VoucherLines
<1> HIDE DEF lines
<1>4. /\ MovesOf(extra, AccountOf(d.type)) /\ Len(extra) >= Len(lines)
      /\ Worth(extra) = (IF d.type = "receipt" THEN -d.amount ELSE d.amount)
  BY <1>1, <1>3, MovesFacts
<1> HIDE DEF extra
<1>5. pairs \in Seq((DOMAIN (ledger \o extra)) \X (DOMAIN (ledger \o extra)))
  <2>1. extra \in Seq(MoveLine)
    BY <1>4 DEF MovesOf
  <2> QED BY <1>1, <1>3, <1>4, <2>1, VoucherPairsFacts
<1> HIDE DEF pairs
<1>6. Extended(ledger, extra)
  BY <1>4, MovesExtend
<1>7. PostedOn(ledger, extra, ledger')
  <2>1. Len(pairs) \in 0..Len(pairs)
    BY <1>5
  <2> DEFINE B == Books(ledger \o extra, pairs)
  <2>2. \A n \in 0..Len(pairs) : PostedOn(ledger, extra, B[n])
    BY <1>1, <1>5, <1>6, BooksPosted
  <2>3. ledger' = B[Len(pairs)]
    BY <1>2
  <2> HIDE DEF B
  <2> QED BY <2>1, <2>2, <2>3
<1> QED BY <1>1, <1>2, <1>3, <1>4, <1>7 DEF d, lines, extra, pairs

-----------------------------------------------------------------------------
(* A credit is cut in parts                                                *)

\* What a line is of, which stays as it is when a part of it is cut off.
Attributes(x) == <<x.type, x.partner, x.of>>
ClassOf(book, A) == {l \in DOMAIN book : Attributes(book[l]) \in A}
SameTotals(b, c) == \A A : Total(c, ClassOf(c, A)) = Total(b, ClassOf(b, A))

\* The number of lines that are added, what is left on the credit, and the lines
LeftOf(u, rest) == u.original - u.amount + rest
CutCount(u, parts, rest) ==
    IF LeftOf(u, rest) > 0 \/ parts = <<>> THEN Len(parts) ELSE Len(parts) - 1
Kept(book, u, parts, rest) ==
    IF CutCount(u, parts, rest) < Len(parts) THEN Last(parts)
    ELSE IF parts # <<>> THEN LeftOf(u, rest) ELSE book[u.line].credit
CutLines(book, u, parts, rest) ==
    [i \in 1..CutCount(u, parts, rest) |-> CutOff(book[u.line], parts[i])]
KeptBook(book, u, parts, rest) == [book EXCEPT ![u.line].credit = Kept(book, u, parts, rest)]

\* A credit that can be cut in these parts
Divisible(book, u, parts, rest) ==
    /\ Ledger(book) /\ u \in CreditLine /\ OwnLine(book, u.line) /\ book[u.line].credit > 0
    /\ u.original > 0 /\ u.amount <= u.original
    /\ parts \in Seq(Nat \ {0}) /\ rest \in Nat
    /\ SumOver(parts, 1..Len(parts)) + rest = u.amount

LEMMA KeptFacts ==
    ASSUME NEW book, NEW u, NEW parts, NEW rest, Divisible(book, u, parts, rest)
    PROVE  LET n == CutCount(u, parts, rest)
               old == Kept(book, u, parts, rest)
           IN /\ n \in Nat /\ Len(parts) \in Nat /\ DOMAIN parts = 1..Len(parts)
              /\ n = Len(parts) \/ (n + 1 = Len(parts) /\ old = parts[n + 1])
              /\ old \in Nat /\ old > 0
              /\ SumOver(parts, 1..n) \in Int /\ Whole(parts, 1..n)
              /\ book[u.line].credit = u.original => old + SumOver(parts, 1..n) = u.original
<1> DEFINE left == LeftOf(u, rest)
           N == Len(parts)
           n == CutCount(u, parts, rest)
           old == Kept(book, u, parts, rest)
           credit == book[u.line].credit
<1>1. /\ parts \in Seq(Nat \ {0}) /\ rest \in Nat /\ SumOver(parts, 1..N) + rest = u.amount
      /\ u.amount <= u.original /\ u.original \in Nat /\ u.amount \in Nat /\ u.original > 0
      /\ credit > 0
  BY DEF Divisible, CreditLine
<1>2. credit \in Nat
  BY BookLines DEF Divisible, Ledger, OwnLine, MoveLine
<1>3. DOMAIN parts = 1..N /\ N \in Nat /\ \A i \in 1..N : parts[i] \in Nat \ {0}
  BY <1>1
<1>4. left \in Nat /\ left = u.original - u.amount + rest
  BY <1>1 DEF LeftOf
<1>5. n = (IF left > 0 \/ parts = <<>> THEN N ELSE N - 1)
  BY DEF CutCount
<1>6. old = (IF n < N THEN Last(parts) ELSE IF parts # <<>> THEN left ELSE credit)
  BY DEF Kept
<1>7. SumOver(parts, 1..N) \in Int
  <2> DEFINE D == 1..N
  <2>1. IsFiniteSet(D) /\ Whole(parts, D)
    BY <1>3, FS_Interval DEF Whole
  <2> HIDE DEF D
  <2>2. SumOver(parts, D) \in Int
    BY <2>1, SumWhole
  <2> QED BY <2>2 DEF D
<1>8. Last(parts) = parts[N]
  BY DEF Last
<1>9. parts = <<>> <=> N = 0
  BY <1>1
<1> HIDE DEF left, n, old, credit
<1>10. CASE left > 0 \/ N = 0
  <2>1. n = N /\ old = (IF N # 0 THEN left ELSE credit)
    <3>1. n = N
      BY <1>5, <1>9, <1>10
    <3>2. ~(n < N)
      BY <1>3, <3>1
    <3>3. N # 0 <=> parts # <<>>
      BY <1>9
    <3> QED BY <1>6, <3>1, <3>2, <3>3
  <2>2. old \in Nat /\ old > 0
    BY <1>1, <1>2, <1>4, <1>10, <2>1
  <2>3. Whole(parts, 1..n)
    BY <1>3, <2>1 DEF Whole
  <2>4. credit = u.original => old + SumOver(parts, 1..n) = u.original
    <3>1. CASE N # 0
      BY <1>1, <1>4, <1>7, <2>1, <3>1
    <3>2. CASE N = 0
      <4>1. 1..n = {} /\ SumOver(parts, 1..n) = 0
        BY <2>1, <3>2, SumEmpty
      <4> QED BY <1>2, <2>1, <3>2, <4>1
    <3> QED BY <3>1, <3>2
  <2> QED BY <1>3, <1>7, <2>1, <2>2, <2>3, <2>4 DEF n, old, credit
<1>11. CASE ~(left > 0 \/ N = 0)
  <2>1. n = N - 1 /\ old = parts[N] /\ left = 0 /\ n \in Nat /\ N = n + 1
    BY <1>3, <1>4, <1>5, <1>6, <1>8, <1>9, <1>11
  <2>2. old \in Nat /\ old > 0
    BY <1>3, <2>1
  <2> DEFINE D == 1..n
  <2>3. Whole(parts, D) /\ IsFiniteSet(D) /\ N \notin D /\ 1..N = D \cup {N} /\ parts[N] \in Int
    <3>1. IsFiniteSet(D)
      BY <2>1, FS_Interval
    <3>2. N \notin D /\ 1..N = D \cup {N} /\ N \in 1..N
      BY <2>1
    <3>3. \A i \in 1..N : parts[i] \in Int
      BY <1>3
    <3> QED BY <3>1, <3>2, <3>3 DEF Whole
  <2> HIDE DEF D
  <2>4. SumOver(parts, D \cup {N}) = parts[N] + SumOver(parts, D) /\ SumOver(parts, D) \in Int
    BY <2>3, SumAdd, SumWhole
  <2>5. SumOver(parts, 1..N) = old + SumOver(parts, D)
    BY <2>1, <2>3, <2>4
  <2>6. old + SumOver(parts, D) = u.original
    <3>1. old + SumOver(parts, D) + rest = u.amount
      BY <1>1, <2>5
    <3> DEFINE x == SumOver(parts, D)
               a == u.amount
               o == u.original
    <3>2. /\ old + x + rest = a /\ 0 = o - a + rest /\ a \in Nat /\ o \in Nat /\ rest \in Nat
          /\ x \in Int /\ old \in Nat
      BY <1>1, <1>4, <2>1, <2>2, <2>4, <3>1
    <3> HIDE DEF x, a, o
    <3>3. old + x = o
      BY <3>2
    <3> QED BY <3>3 DEF x, o
  <2>7. n = N \/ (n + 1 = N /\ old = parts[n + 1])
    BY <2>1
  <2> QED BY <1>3, <2>1, <2>2, <2>3, <2>4, <2>6, <2>7 DEF n, old, credit, D
<1> QED BY <1>10, <1>11

\* The line itself, and the lines that are cut off
LEMMA CutFacts ==
    ASSUME NEW x \in MoveLine, NEW part \in Nat
    PROVE  /\ CutOff(x, part) \in MoveLine /\ CutOff(x, part).credit = part
           /\ CutOff(x, part).debit = x.debit /\ CutOff(x, part).rec = 0
           /\ CutOff(x, part).full = FALSE
           /\ CutOff(x, part).of = x.of /\ CutOff(x, part).type = x.type
           /\ CutOff(x, part).partner = x.partner /\ CutOff(x, part).due = x.due
           /\ Attributes(CutOff(x, part)) = Attributes(x)
BY DEF CutOff, MoveLine, Attributes

\* A line whose credit is another
WithCredit(x, credit) == [x EXCEPT !.credit = credit]

LEMMA WithCreditFacts ==
    ASSUME NEW x \in MoveLine, NEW credit \in Nat
    PROVE  LET y == WithCredit(x, credit)
           IN /\ y \in MoveLine /\ y.credit = credit /\ y.debit = x.debit /\ y.rec = x.rec
              /\ y.full = x.full /\ y.of = x.of /\ y.type = x.type /\ y.partner = x.partner
              /\ y.due = x.due /\ Attributes(y) = Attributes(x)
BY DEF WithCredit, MoveLine, Attributes

\* c is the book with a credit cut: the lines that are not that credit stay as
\* they are, and the new ones are parts of it.
CutBook(book, u, c) ==
    /\ Ledger(c) /\ Grows(book, c) /\ Len(book) <= Len(c)
    /\ DOMAIN c = 1..Len(c) /\ DOMAIN book = 1..Len(book)
    /\ \A l \in DOMAIN book : /\ l # u.line => c[l] = book[l]
                              /\ c[l].rec = book[l].rec /\ c[l].full = book[l].full
    /\ \A l \in (DOMAIN c) \ (DOMAIN book) :
          c[l].rec = 0 /\ c[l].full = FALSE /\ OwnLine(c, l) /\ c[l].credit > 0

SplitBook(book, u, parts, rest) == KeptBook(book, u, parts, rest) \o CutLines(book, u, parts, rest)

LEMMA SplitBookFacts ==
    ASSUME NEW book, NEW u, NEW parts, NEW rest, Divisible(book, u, parts, rest)
    PROVE  LET c == SplitBook(book, u, parts, rest)
               n == CutCount(u, parts, rest)
           IN /\ CutBook(book, u, c) /\ Len(c) = Len(book) + n
              /\ c[u.line] = WithCredit(book[u.line], Kept(book, u, parts, rest))
              /\ \A i \in 1..n : c[Len(book) + i] = CutOff(book[u.line], parts[i])
<1> DEFINE n == CutCount(u, parts, rest)
           old == Kept(book, u, parts, rest)
           x == book[u.line]
           b == KeptBook(book, u, parts, rest)
           new == CutLines(book, u, parts, rest)
           c == SplitBook(book, u, parts, rest)
           y == WithCredit(x, old)
<1>1. /\ Ledger(book) /\ book \in Book /\ u.line \in DOMAIN book /\ x.type = "receivable"
      /\ x.partner = Customer /\ x.credit > 0
  BY DEF Divisible, OwnLine, Ledger
<1>2. /\ DOMAIN book = 1..Len(book) /\ Len(book) \in Nat
      /\ \A l \in DOMAIN book : book[l] \in MoveLine /\ (book[l].debit = 0 \/ book[l].credit = 0)
  BY <1>1, BookLines DEF Ledger
<1>3. /\ n \in Nat /\ Len(parts) \in Nat /\ DOMAIN parts = 1..Len(parts) /\ n <= Len(parts)
      /\ old \in Nat /\ old > 0
  BY KeptFacts
<1>4. \A i \in 1..n : parts[i] \in Nat /\ parts[i] > 0
  <2>1. parts \in Seq(Nat \ {0})
    BY DEF Divisible
  <2> QED BY <1>3, <2>1
<1>5. c = b \o new /\ new = [i \in 1..n |-> CutOff(x, parts[i])]
  BY DEF SplitBook, CutLines
<1>6. DOMAIN b = DOMAIN book /\ b[u.line] = y /\ \A l \in DOMAIN book : l # u.line => b[l] = book[l]
  BY <1>1 DEF KeptBook, WithCredit
<1>7. b = [l \in 1..Len(book) |-> b[l]]
  BY <1>2 DEF KeptBook
<1> HIDE DEF n, old, b, new, c, x
<1>8. x \in MoveLine /\ x.debit = 0
  BY <1>1, <1>2 DEF x, MoveLine
<1>9. /\ y \in MoveLine /\ y.credit = old /\ y.debit = x.debit /\ y.rec = x.rec
      /\ y.full = x.full /\ y.of = x.of /\ y.type = x.type /\ y.partner = x.partner
      /\ y.due = x.due
  BY <1>3, <1>8, WithCreditFacts
<1> HIDE DEF y
<1>10. b \in Book /\ Len(b) = Len(book)
  <2> DEFINE Q == MoveLine
  <2>1. \A l \in 1..Len(book) : b[l] \in Q
    BY <1>2, <1>6, <1>9
  <2> HIDE DEF Q
  <2>2. b \in Seq(Q) /\ Len(b) = Len(book)
    BY <1>2, <1>7, <2>1
  <2> QED BY <2>2 DEF Q, Book
<1>11. \A i \in 1..n : /\ new[i] \in MoveLine /\ new[i].credit = parts[i] /\ new[i].debit = 0
                       /\ new[i].rec = 0 /\ new[i].full = FALSE
                       /\ new[i].of = x.of /\ new[i].type = x.type /\ new[i].partner = x.partner
  <2> SUFFICES ASSUME NEW i \in 1..n
               PROVE  /\ new[i] \in MoveLine /\ new[i].credit = parts[i] /\ new[i].debit = 0
                      /\ new[i].rec = 0 /\ new[i].full = FALSE
                      /\ new[i].of = x.of /\ new[i].type = x.type /\ new[i].partner = x.partner
    OBVIOUS
  <2>1. new[i] = CutOff(x, parts[i])
    BY <1>5
  <2> DEFINE part == parts[i]
             z == new[i]
  <2>2. part \in Nat /\ z = CutOff(x, part)
    BY <1>4, <2>1
  <2> HIDE DEF part, z
  <2>3. /\ z \in MoveLine /\ z.credit = part /\ z.debit = x.debit /\ z.rec = 0 /\ z.full = FALSE
        /\ z.of = x.of /\ z.type = x.type /\ z.partner = x.partner
    BY <1>8, <2>2, CutFacts
  <2> QED BY <1>8, <2>3 DEF part, z
<1>12. new \in Seq(MoveLine) /\ Len(new) = n
  <2> DEFINE Q == MoveLine
  <2>1. \A i \in 1..n : new[i] \in Q
    BY <1>11
  <2> HIDE DEF Q
  <2>2. new = [i \in 1..n |-> new[i]]
    BY <1>5
  <2>3. new \in Seq(Q) /\ Len(new) = n
    BY <1>3, <2>1, <2>2
  <2> QED BY <2>3 DEF Q
<1>13. /\ c \in Book /\ Len(c) = Len(book) + n /\ DOMAIN c = 1..(Len(book) + n)
       /\ \A l \in 1..Len(book) : c[l] = b[l]
       /\ \A i \in 1..n : c[Len(book) + i] = new[i]
  <2> DEFINE Q == MoveLine
  <2>1. b \in Seq(Q) /\ new \in Seq(Q)
    BY <1>10, <1>12 DEF Book
  <2> HIDE DEF Q
  <2>2. /\ c \in Seq(Q) /\ Len(c) = Len(b) + Len(new) /\ DOMAIN c = 1..(Len(b) + Len(new))
        /\ \A l \in 1..Len(b) : c[l] = b[l]
        /\ \A i \in 1..Len(new) : c[Len(b) + i] = new[i]
    <3> DEFINE e == b \o new
    <3>1. /\ e \in Seq(Q) /\ Len(e) = Len(b) + Len(new) /\ DOMAIN e = 1..(Len(b) + Len(new))
          /\ \A l \in 1..Len(b) : e[l] = b[l]
          /\ \A i \in 1..Len(new) : e[Len(b) + i] = new[i]
      BY <2>1, ConcatFacts
    <3>2. c = e
      BY <1>5
    <3> HIDE DEF e
    <3> QED BY <3>1, <3>2
  <2> QED BY <1>10, <1>12, <2>2 DEF Q, Book
<1>14. ASSUME NEW l \in DOMAIN book
       PROVE  /\ l # u.line => c[l] = book[l]
              /\ c[l].rec = book[l].rec /\ c[l].full = book[l].full
              /\ c[l].of = book[l].of /\ c[l].type = book[l].type
              /\ c[l].partner = book[l].partner /\ c[l].due = book[l].due
              /\ c[l].debit = book[l].debit
              /\ c[l].credit > 0 <=> book[l].credit > 0
              /\ c[l].debit = 0 \/ c[l].credit = 0
  <2>1. c[l] = b[l]
    BY <1>2, <1>13
  <2>2. CASE l = u.line
    <3>1. c[l] = y /\ book[l] = x
      BY <1>6, <2>1, <2>2 DEF x
    <3> QED BY <1>1, <1>3, <1>8, <1>9, <2>2, <3>1 DEF x
  <2>3. CASE l # u.line
    BY <1>2, <1>6, <2>1, <2>3
  <2> QED BY <2>2, <2>3
<1>15. ASSUME NEW l \in (DOMAIN c) \ (DOMAIN book)
       PROVE  /\ c[l].rec = 0 /\ c[l].full = FALSE /\ OwnLine(c, l) /\ c[l].credit > 0
              /\ c[l].debit = 0
  <2> DEFINE i == l - Len(book)
  <2>1. i \in 1..n /\ l = Len(book) + i
    BY <1>2, <1>3, <1>13
  <2> HIDE DEF i
  <2>2. c[l] = new[i]
    BY <1>13, <2>1
  <2>3. parts[i] > 0
    BY <1>4, <2>1
  <2> QED BY <1>1, <1>11, <2>1, <2>2, <2>3 DEF OwnLine, x
<1>16. Ledger(c)
  <2> SUFFICES ASSUME NEW l \in DOMAIN c
               PROVE  /\ c[l].debit = 0 \/ c[l].credit = 0
                      /\ c[l].of \in Receipts => c[l].type = "receivable" /\ c[l].partner = Customer
    BY <1>13 DEF Ledger
  <2>1. CASE l \in DOMAIN book
    BY <1>1, <1>14, <2>1 DEF Ledger
  <2>2. CASE l \notin DOMAIN book
    BY <1>15, <2>2 DEF OwnLine
  <2> QED BY <2>1, <2>2
<1>17. DOMAIN book \subseteq DOMAIN c /\ Len(book) <= Len(c) /\ DOMAIN c = 1..Len(c)
  BY <1>2, <1>3, <1>13
<1>18. Grows(book, c)
  BY <1>14, <1>17 DEF Grows
<1>19. CutBook(book, u, c)
  BY <1>2, <1>14, <1>15, <1>16, <1>17, <1>18 DEF CutBook
<1>20. c[u.line] = y /\ \A i \in 1..n : c[Len(book) + i] = CutOff(x, parts[i])
  BY <1>1, <1>2, <1>5, <1>6, <1>13
<1> QED BY <1>13, <1>19, <1>20 DEF c, n, x, y, old

\* Cutting a credit that is as it was copied does not change what lines of any
\* kind add up to.
LEMMA SplitTotals ==
    ASSUME NEW book, NEW u, NEW parts, NEW rest, Divisible(book, u, parts, rest),
           book[u.line].credit = u.original
    PROVE  SameTotals(book, SplitBook(book, u, parts, rest))
<1> DEFINE n == CutCount(u, parts, rest)
           old == Kept(book, u, parts, rest)
           x == book[u.line]
           c == SplitBook(book, u, parts, rest)
           f == Signed(book)
           g == Signed(c)
           m == Len(book)
           s == SumOver(parts, 1..n)
<1>1. /\ book \in Book /\ u.line \in DOMAIN book /\ x.credit > 0 /\ x.credit = u.original
      /\ x.debit = 0 \/ x.credit = 0
  BY DEF Divisible, OwnLine, Ledger
<1>2. /\ n \in Nat /\ old \in Nat /\ s \in Int /\ Whole(parts, 1..n) /\ old + s = u.original
      /\ \A i \in 1..n : parts[i] \in Nat
  <2>1. /\ n \in Nat /\ Len(parts) \in Nat /\ DOMAIN parts = 1..Len(parts)
        /\ n = Len(parts) \/ n + 1 = Len(parts)
        /\ old \in Nat /\ s \in Int /\ Whole(parts, 1..n) /\ old + s = u.original
    BY <1>1, KeptFacts
  <2>2. parts \in Seq(Nat \ {0})
    BY DEF Divisible
  <2> HIDE DEF n
  <2>3. \A i \in 1..n : parts[i] \in Nat
    <3>1. \A i \in 1..n : i \in 1..Len(parts)
      <4>1. \A a \in Nat, b \in Nat : a = b \/ a + 1 = b => \A i \in 1..a : i \in 1..b
        OBVIOUS
      <4>2. n \in Nat /\ Len(parts) \in Nat /\ (n = Len(parts) \/ n + 1 = Len(parts))
        BY <2>1
      <4> QED BY <4>1, <4>2
    <3>2. \A i \in 1..Len(parts) : parts[i] \in Nat
      BY <2>2
    <3> QED BY <3>1, <3>2
  <2> QED BY <2>1, <2>3
<1>3. /\ CutBook(book, u, c) /\ Len(c) = m + n /\ c[u.line] = WithCredit(x, old)
      /\ \A i \in 1..n : c[m + i] = CutOff(x, parts[i])
  BY SplitBookFacts
<1> HIDE DEF n, old, c
<1>4. /\ c \in Book /\ DOMAIN c = 1..(m + n) /\ DOMAIN book = 1..m /\ m \in Nat
      /\ \A l \in DOMAIN book : book[l] \in MoveLine
      /\ \A l \in DOMAIN book : l # u.line => c[l] = book[l]
  BY <1>1, <1>3, BookLines DEF CutBook, Ledger
<1>5. x \in MoveLine /\ x.debit = 0
  BY <1>1, <1>4 DEF MoveLine
<1>6. /\ Attributes(c[u.line]) = Attributes(x) /\ c[u.line].credit = old /\ c[u.line].debit = 0
  <2> DEFINE y == c[u.line]
  <2>1. y = WithCredit(x, old)
    BY <1>3
  <2> HIDE DEF x, y
  <2>2. Attributes(y) = Attributes(x) /\ y.credit = old /\ y.debit = 0
    BY <1>2, <1>5, <2>1, WithCreditFacts
  <2> QED BY <2>2 DEF y
<1>7. ASSUME NEW i \in 1..n
      PROVE  /\ Attributes(c[m + i]) = Attributes(x)
             /\ c[m + i].credit = parts[i] /\ c[m + i].debit = 0
  <2> DEFINE part == parts[i]
             z == c[m + i]
  <2>1. part \in Nat /\ z = CutOff(x, part)
    BY <1>2, <1>3
  <2> HIDE DEF part, z, x
  <2>2. Attributes(z) = Attributes(x) /\ z.credit = part /\ z.debit = 0
    BY <1>5, <2>1, CutFacts
  <2> QED BY <2>2 DEF part, z, x
<1>8. \A l \in DOMAIN book : Attributes(c[l]) = Attributes(book[l])
  BY <1>4, <1>6
<1> SUFFICES ASSUME NEW A PROVE Total(c, ClassOf(c, A)) = Total(book, ClassOf(book, A))
  BY DEF SameTotals, c
<1> DEFINE C == ClassOf(book, A)
           D == ClassOf(c, A)
           N == (m + 1)..(m + n)
<1>9. C \in SUBSET DOMAIN book /\ D \in SUBSET DOMAIN c /\ N \in SUBSET DOMAIN c
      /\ DOMAIN book \subseteq DOMAIN c
  BY <1>2, <1>4 DEF ClassOf
<1>10. /\ IsFiniteSet(C) /\ Whole(f, C) /\ IsFiniteSet(D) /\ Whole(g, D) /\ Whole(g, C)
       /\ IsFiniteSet(N) /\ Whole(g, N)
       /\ \A l \in DOMAIN book : f[l] = book[l].debit - book[l].credit
       /\ \A l \in DOMAIN c : g[l] = c[l].debit - c[l].credit
  <2> HIDE DEF C, D, N, f, g
  <2>1. \A S \in SUBSET DOMAIN c : IsFiniteSet(S) /\ Whole(g, S)
    BY <1>4, TotalWhole DEF g
  <2>2. IsFiniteSet(C) /\ Whole(f, C)
    BY <1>1, <1>9, TotalWhole DEF f
  <2>3. C \in SUBSET DOMAIN c
    BY <1>9
  <2>4. \A l \in DOMAIN book : f[l] = book[l].debit - book[l].credit
    BY DEF f, Signed
  <2>5. \A l \in DOMAIN c : g[l] = c[l].debit - c[l].credit
    BY DEF g, Signed
  <2> QED BY <1>9, <2>1, <2>2, <2>3, <2>4, <2>5
<1>11. \A l \in DOMAIN book : l # u.line => f[l] = g[l]
  BY <1>4, <1>9, <1>10
<1>12. CASE Attributes(x) \notin A
  <2>1. C = D
    <3>1. \A l \in DOMAIN c : l \in C <=> l \in D
      <4> SUFFICES ASSUME NEW l \in DOMAIN c PROVE l \in C <=> l \in D
        OBVIOUS
      <4>1. CASE l \in DOMAIN book
        BY <1>8, <1>9, <4>1 DEF ClassOf
      <4>2. CASE l \notin DOMAIN book
        <5> DEFINE i == l - m
        <5>1. i \in 1..n /\ l = m + i
          BY <1>2, <1>4, <4>2
        <5> HIDE DEF i
        <5>2. Attributes(c[l]) \notin A
          BY <1>7, <1>12, <5>1
        <5> QED BY <4>2, <5>2 DEF ClassOf
      <4> QED BY <4>1, <4>2
    <3> QED BY <1>9, <3>1
  <2>2. \A l \in C : f[l] = g[l]
    <3>1. u.line \notin C
      BY <1>12 DEF ClassOf
    <3> QED BY <1>9, <1>11, <3>1
  <2> HIDE DEF C, D, f, g
  <2>3. SumOver(f, C) = SumOver(g, C)
    BY <1>10, <2>2, SumSame
  <2> QED BY <2>1, <2>3 DEF Total, C, D, f, g
<1>13. CASE Attributes(x) \in A
  <2>1. D = C \cup N /\ C \cap N = {} /\ u.line \in C
    <3>1. u.line \in C
      BY <1>1, <1>13 DEF ClassOf
    <3>2. C \cap N = {}
      BY <1>2, <1>4, <1>9
    <3>3. \A l \in DOMAIN c : l \in D <=> l \in C \cup N
      <4> SUFFICES ASSUME NEW l \in DOMAIN c PROVE l \in D <=> l \in C \cup N
        OBVIOUS
      <4>1. CASE l \in DOMAIN book
        <5>1. l \notin N
          BY <1>2, <1>4, <4>1
        <5> QED BY <1>8, <1>9, <4>1, <5>1 DEF ClassOf
      <4>2. CASE l \notin DOMAIN book
        <5> DEFINE i == l - m
        <5>1. i \in 1..n /\ l = m + i /\ l \in N
          BY <1>2, <1>4, <4>2
        <5> HIDE DEF i
        <5>2. Attributes(c[l]) \in A
          BY <1>7, <1>13, <5>1
        <5> QED BY <5>1, <5>2 DEF ClassOf
      <4> QED BY <4>1, <4>2
    <3>4. D \subseteq DOMAIN c /\ C \cup N \subseteq DOMAIN c
      BY <1>9
    <3> HIDE DEF C, D, N
    <3>5. D = C \cup N
      BY <3>3, <3>4
    <3> QED BY <3>1, <3>2, <3>5
  <2> DEFINE E == C \ {u.line}
  <2>2. SumOver(f, C) = f[u.line] + SumOver(f, E) /\ SumOver(g, C) = g[u.line] + SumOver(g, E)
    <3> HIDE DEF C, f, g
    <3> QED BY <1>10, <2>1, SumRemove
  <2>3. IsFiniteSet(E) /\ Whole(f, E) /\ \A l \in E : f[l] = g[l]
    <3>1. IsFiniteSet(E)
      <4> HIDE DEF C
      <4> QED BY <1>10, FS_Subset
    <3>2. Whole(f, E)
      BY <1>10 DEF Whole
    <3>3. \A l \in E : f[l] = g[l]
      BY <1>9, <1>11
    <3> QED BY <3>1, <3>2, <3>3
  <2>4. SumOver(f, E) = SumOver(g, E) /\ SumOver(f, E) \in Int
    <3> HIDE DEF E, f, g
    <3> QED BY <2>3, SumSame, SumWhole
  <2>5. f[u.line] = -u.original /\ g[u.line] = -old
    BY <1>1, <1>2, <1>5, <1>6, <1>9, <1>10
  <2>6. SumOver(g, N) = -s
    <3> DEFINE h == [i \in 1..n |-> -parts[i]]
    <3>1. \A i \in 1..n : g[m + i] = h[i] /\ h[i] = -parts[i] /\ h[i] \in Int
      <4> SUFFICES ASSUME NEW i \in 1..n
                   PROVE  g[m + i] = h[i] /\ h[i] = -parts[i] /\ h[i] \in Int
        OBVIOUS
      <4>1. m + i \in DOMAIN c
        BY <1>2, <1>4
      <4>2. g[m + i] = 0 - parts[i]
        BY <1>7, <1>10, <4>1
      <4>3. parts[i] \in Nat
        BY <1>2
      <4> QED BY <4>2, <4>3
    <3> HIDE DEF h, g, m
    <3>2. Whole(h, 1..n)
      BY <3>1 DEF Whole
    <3>3. SumOver(g, N) = SumOver(h, 1..n)
      <4>1. SumOver(g, (m + 1)..(m + n)) = SumOver(h, 1..n)
        BY <1>2, <1>4, <3>1, <3>2, SumShift
      <4> QED BY <4>1
    <3>4. SumOver(h, 1..n) = -s
      <4> DEFINE K == 1..n
      <4>1. IsFiniteSet(K) /\ Whole(parts, K) /\ \A i \in K : h[i] = -parts[i]
        BY <1>2, <3>1, FS_Interval
      <4> HIDE DEF K
      <4>2. SumOver(h, K) = -SumOver(parts, K)
        BY <4>1, SumNegative
      <4> QED BY <4>2 DEF K
    <3> QED BY <3>3, <3>4
  <2>7. SumOver(g, C \cup N) = SumOver(g, C) + SumOver(g, N)
    <3> HIDE DEF C, N, g
    <3> QED BY <1>10, <2>1, SumUnion
  <2> DEFINE e == SumOver(f, E)
             o == u.original
  <2>8. SumOver(g, C \cup N) = ((-old) + e) + (-s) /\ SumOver(f, C) = (-o) + e /\ e \in Int
        /\ old + s = o /\ old \in Nat /\ s \in Int
    BY <1>2, <2>2, <2>4, <2>5, <2>6, <2>7
  <2> HIDE DEF e, o, s, C, N, f, g, D
  <2>9. SumOver(g, C \cup N) = SumOver(f, C)
    BY <2>8
  <2>10. SumOver(g, D) = SumOver(f, C)
    BY <2>1, <2>9
  <2> QED BY <2>10 DEF Total, C, D, f, g
<1> QED BY <1>12, <1>13

LEMMA SplitFacts ==
    ASSUME NEW book, NEW u, NEW parts, NEW rest, Divisible(book, u, parts, rest)
    PROVE  LET cut == Split(book, u, parts, rest)
               c == SplitBook(book, u, parts, rest)
           IN /\ cut.book = c /\ DOMAIN cut.lines = DOMAIN parts
              /\ \A i \in DOMAIN parts :
                    /\ OwnLine(c, cut.lines[i]) /\ c[cut.lines[i]].credit = parts[i]
                    /\ cut.lines[i] = u.line \/ cut.lines[i] \notin DOMAIN book
              /\ \A i \in DOMAIN parts, j \in DOMAIN parts : cut.lines[i] = cut.lines[j] => i = j
<1> DEFINE n == CutCount(u, parts, rest)
           old == Kept(book, u, parts, rest)
           x == book[u.line]
           c == SplitBook(book, u, parts, rest)
           cut == Split(book, u, parts, rest)
           s == cut.lines
           m == Len(book)
<1>1. cut.book = c
  BY DEF Split, SplitBook, CutLines, KeptBook, Kept, CutCount, LeftOf
<1>2. s = [i \in DOMAIN parts |-> IF i <= n THEN m + i ELSE u.line]
  BY DEF Split, CutCount, LeftOf
<1>3. /\ n \in Nat /\ Len(parts) \in Nat /\ DOMAIN parts = 1..Len(parts)
      /\ n = Len(parts) \/ (n + 1 = Len(parts) /\ old = parts[n + 1])
      /\ old \in Nat
  BY KeptFacts
<1>4. /\ CutBook(book, u, c) /\ Len(c) = m + n /\ c[u.line] = WithCredit(x, old)
      /\ \A i \in 1..n : c[m + i] = CutOff(x, parts[i])
  BY SplitBookFacts
<1>5. OwnLine(book, u.line) /\ book \in Book /\ parts \in Seq(Nat \ {0})
  BY DEF Divisible, Ledger
<1> DEFINE D == DOMAIN parts
           K == Len(parts)
<1> HIDE DEF n, old, c, cut, D, K
<1>0. /\ n \in Nat /\ K \in Nat /\ D = 1..K /\ old \in Nat
      /\ n = K \/ (n + 1 = K /\ old = parts[n + 1])
      /\ \A i \in D : parts[i] \in Nat /\ i \in Nat /\ i >= 1 /\ i <= K
  <2>1. \A i \in DOMAIN parts : parts[i] \in Nat
    BY <1>5
  <2>2. /\ n \in Nat /\ K \in Nat /\ D = 1..K /\ old \in Nat
        /\ n = K \/ (n + 1 = K /\ old = parts[n + 1])
    BY <1>3 DEF D, K
  <2>3. \A i \in 1..K : i \in Nat /\ i >= 1 /\ i <= K
    BY <2>2
  <2>4. \A i \in D : parts[i] \in Nat
    BY <2>1 DEF D
  <2> QED BY <2>2, <2>3, <2>4
<1>6. DOMAIN book = 1..m /\ m \in Nat /\ u.line \in 1..m /\ x \in MoveLine /\ DOMAIN c = 1..(m + n)
  BY <1>4, <1>5, BookLines DEF CutBook, OwnLine
<1> HIDE DEF s
<1> HIDE DEF m
<1>7. ASSUME NEW i \in D
      PROVE  /\ OwnLine(c, s[i]) /\ c[s[i]].credit = parts[i]
             /\ s[i] = u.line \/ s[i] \notin DOMAIN book
             /\ i <= n => s[i] = m + i
             /\ ~(i <= n) => s[i] = u.line /\ i = n + 1
  <2>0. parts[i] \in Nat /\ i \in Nat /\ i >= 1
    BY <1>0
  <2>1. CASE i <= n
    <3>1. s[i] = m + i /\ i \in 1..n
      BY <1>0, <1>2, <2>0, <2>1 DEF D
    <3>2. s[i] \in DOMAIN c /\ s[i] \notin DOMAIN book
      <4>1. s[i] \in Int /\ s[i] = m + i /\ m \in Nat /\ i \in Nat /\ i >= 1 /\ i <= n /\ n \in Nat
        BY <1>0, <1>6, <2>0, <2>1, <3>1
      <4>2. DOMAIN c = 1..(m + n) /\ DOMAIN book = 1..m
        BY <1>6
      <4> DEFINE e == s[i]
      <4>3. e \in 1..(m + n) /\ e \notin 1..m
        <5> HIDE DEF e
        <5>1. e = m + i
          BY <4>1 DEF e
        <5> QED BY <4>1, <5>1
      <4> QED BY <4>2, <4>3
    <3>3. OwnLine(c, s[i])
      BY <1>4, <3>2 DEF CutBook
    <3>4. c[s[i]].credit = parts[i]
      <4> DEFINE z == c[s[i]]
                 part == parts[i]
      <4>1. z = CutOff(x, part) /\ part \in Nat
        BY <1>4, <2>0, <3>1
      <4> HIDE DEF z, part, x
      <4>2. z.credit = part
        BY <1>6, <4>1, CutFacts
      <4> QED BY <4>2 DEF z, part
    <3> QED BY <2>1, <3>1, <3>2, <3>3, <3>4
  <2>2. CASE ~(i <= n)
    <3>1. s[i] = u.line
      BY <1>2, <2>2 DEF D
    <3>2. i = n + 1 /\ old = parts[i]
      <4>1. i = n + 1
        BY <1>0, <2>0, <2>2
      <4>2. n + 1 = K
        BY <1>0, <2>0, <2>2
      <4>3. old = parts[n + 1]
        BY <1>0, <4>2
      <4> QED BY <4>1, <4>3
    <3>3. OwnLine(c, u.line)
      BY <1>4, <1>5 DEF CutBook, Grows, OwnLine
    <3>4. c[s[i]].credit = parts[i]
      <4> DEFINE z == c[s[i]]
      <4>1. z = WithCredit(x, old)
        BY <1>4, <3>1
      <4> HIDE DEF z, x
      <4>2. z.credit = old
        BY <1>3, <1>6, <4>1, WithCreditFacts
      <4> QED BY <3>2, <4>2 DEF z
    <3> QED BY <2>2, <3>1, <3>2, <3>3, <3>4
  <2> QED BY <2>1, <2>2
<1>8. ASSUME NEW i \in D, NEW j \in D, s[i] = s[j] PROVE i = j
  <2>0. i \in Nat /\ j \in Nat /\ i >= 1 /\ j >= 1 /\ m \in Nat /\ u.line \in 1..m
    BY <1>0, <1>6
  <2>1. CASE i <= n /\ j <= n
    <3>1. m + i = m + j
      BY <1>7, <1>8, <2>1
    <3> QED BY <2>0, <3>1
  <2>2. CASE ~(i <= n) /\ ~(j <= n)
    <3>1. i = n + 1 /\ j = n + 1
      BY <1>7, <2>2
    <3> QED BY <3>1
  <2>3. CASE i <= n /\ ~(j <= n)
    <3>1. s[i] = m + i /\ s[j] = u.line
      BY <1>7, <2>3
    <3>2. m + i = u.line
      BY <1>8, <3>1
    <3>3. m + i > m /\ u.line <= m
      BY <2>0
    <3> QED BY <2>0, <3>2, <3>3
  <2>4. CASE ~(i <= n) /\ j <= n
    <3>1. s[j] = m + j /\ s[i] = u.line
      BY <1>7, <2>4
    <3>2. m + j = u.line
      BY <1>8, <3>1
    <3>3. m + j > m /\ u.line <= m
      BY <2>0
    <3> QED BY <2>0, <3>2, <3>3
  <2> QED BY <2>1, <2>2, <2>3, <2>4
<1>9. DOMAIN s = DOMAIN parts
  BY <1>2
<1> QED BY <1>1, <1>7, <1>8, <1>9 DEF s, c, cut, D

-----------------------------------------------------------------------------
(* A reconciliation is posted                                              *)

\* The sum over a sequence that goes on
GoesOn(f, g, h, m, k) ==
    /\ Whole(f, 1..(m + k))
    /\ \A i \in 1..m : f[i] = g[i]
    /\ \A i \in 1..k : f[m + i] = h[i]
SumGoesOn(f, g, h, m, k) == SumOver(f, 1..(m + k)) = SumOver(g, 1..m) + SumOver(h, 1..k)

LEMMA SumAppended ==
    ASSUME NEW f, NEW g, NEW h, NEW m \in Nat, NEW k \in Nat, GoesOn(f, g, h, m, k)
    PROVE  SumGoesOn(f, g, h, m, k)
<1>0. /\ Whole(f, 1..(m + k))
      /\ \A i \in 1..m : f[i] = g[i]
      /\ \A i \in 1..k : f[m + i] = h[i]
  BY DEF GoesOn
<1> DEFINE A == 1..m
           B == (m + 1)..(m + k)
<1>1. /\ A \cap B = {} /\ A \cup B = 1..(m + k) /\ IsFiniteSet(A) /\ IsFiniteSet(B)
      /\ Whole(f, A) /\ Whole(f, B)
  <2>1. A \cap B = {} /\ A \cup B = 1..(m + k)
    OBVIOUS
  <2>2. IsFiniteSet(A) /\ IsFiniteSet(B)
    BY FS_Interval
  <2>3. Whole(f, A) /\ Whole(f, B)
    <3>1. \A i \in A \cup B : f[i] \in Int
      BY <1>0, <2>1 DEF Whole
    <3> HIDE DEF A, B
    <3> QED BY <3>1 DEF Whole
  <2> QED BY <2>1, <2>2, <2>3
<1>2. SumOver(f, A \cup B) = SumOver(f, A) + SumOver(f, B)
  <2> HIDE DEF A, B
  <2> QED BY <1>1, SumUnion
<1>3. SumOver(f, A) = SumOver(g, A)
  <2>1. \A i \in A : f[i] = g[i]
    BY <1>0
  <2> HIDE DEF A
  <2> QED BY <1>1, <2>1, SumSame
<1>4. SumOver(f, B) = SumOver(h, 1..k)
  <2>1. Whole(h, 1..k)
    <3>1. \A i \in 1..k : m + i \in 1..(m + k)
      OBVIOUS
    <3> QED BY <1>0, <3>1 DEF Whole
  <2>2. \A i \in 1..k : f[m + i] = h[i]
    BY <1>0
  <2> QED BY <2>1, <2>2, SumShift
<1>5. SumOver(f, 1..(m + k)) = SumOver(f, A \cup B)
  <2> HIDE DEF A, B
  <2> QED BY <1>1
<1>6. SumOver(f, 1..(m + k)) = SumOver(g, A) + SumOver(h, 1..k)
  <2> HIDE DEF A, B
  <2> QED BY <1>2, <1>3, <1>4, <1>5
<1> QED BY <1>6 DEF SumGoesOn, A

\* The sum over a part of a set
LEMMA SumFilter ==
    ASSUME NEW f, NEW g, NEW S, IsFiniteSet(S), NEW T \in SUBSET S, Whole(f, T),
           \A x \in T : g[x] = f[x], \A x \in S \ T : g[x] = 0
    PROVE  SumOver(g, S) = SumOver(f, T)
<1> DEFINE U == S \ T
<1>1. /\ IsFiniteSet(T) /\ IsFiniteSet(U) /\ T \cap U = {} /\ T \cup U = S
      /\ Whole(g, T) /\ Whole(g, U)
  <2>1. IsFiniteSet(T) /\ IsFiniteSet(U)
    BY FS_Subset
  <2> QED BY <2>1 DEF Whole
<1>2. SumOver(g, T \cup U) = SumOver(g, T) + SumOver(g, U)
  <2> HIDE DEF U
  <2> QED BY <1>1, SumUnion
<1>3. SumOver(g, T) = SumOver(f, T) /\ SumOver(f, T) \in Int
  BY <1>1, SumSame, SumWhole
<1>4. SumOver(g, U) = 0
  <2>1. \A x \in U : g[x] = 0
    OBVIOUS
  <2> HIDE DEF U
  <2> QED BY <1>1, <2>1, SumZero
<1>5. SumOver(g, S) = SumOver(f, T) + 0
  <2> HIDE DEF U
  <2>1. SumOver(g, T \cup U) = SumOver(f, T) + 0
    BY <1>2, <1>3, <1>4
  <2> QED BY <1>1, <2>1
<1>6. \A a \in Int : a + 0 = a
  OBVIOUS
<1> QED BY <1>3, <1>5, <1>6

LEMMA GrowsTwice ==
    ASSUME NEW a, NEW b, NEW c, Grows(a, b), Grows(b, c)
    PROVE  Grows(a, c)
BY DEF Grows

\* What is given to a line by the pairs of credits and debts
GivenBy(c, pairs, l) == [k \in 1..Len(pairs) |-> IF pairs[k][2] = l THEN c[pairs[k][1]].credit ELSE 0]
GivenTo(c, pairs, l) == SumOver(GivenBy(c, pairs, l), 1..Len(pairs))

\* Pairs of a credit and a debt, no credit twice
CreditPairs(c, pairs, due) ==
    /\ pairs \in Seq((DOMAIN c) \X (DOMAIN c))
    /\ \A k \in DOMAIN pairs : /\ OwnLine(c, pairs[k][1]) /\ c[pairs[k][1]].credit > 0
                               /\ \E j \in DOMAIN due : pairs[k][2] = due[j].line
    /\ \A k \in DOMAIN pairs, j \in DOMAIN pairs : pairs[k][1] = pairs[j][1] => k = j

\* The ledger after i of the credits are cut
AppliedBook(book, uacs, i, c) ==
    /\ Ledger(c) /\ Grows(book, c) /\ Len(book) <= Len(c)
    /\ DOMAIN c = 1..Len(c) /\ DOMAIN book = 1..Len(book)
    /\ \A l \in DOMAIN book : /\ (\A j \in 1..i : uacs[j].line # l) => c[l] = book[l]
                              /\ c[l].rec = book[l].rec /\ c[l].full = book[l].full
    /\ \A l \in (DOMAIN c) \ (DOMAIN book) :
          c[l].rec = 0 /\ c[l].full = FALSE /\ OwnLine(c, l) /\ c[l].credit > 0

\* The credits are as they were copied.
CreditsKept(book, uacs) == \A j \in DOMAIN uacs : book[uacs[j].line].credit = uacs[j].original

\* The state of the loop over the credits after i of them
AppliedTo(done, uacs, due, book, i) ==
    /\ LoopState(Wants(due), done.at)
    /\ AppliedBook(book, uacs, i, done.book)
    /\ CreditPairs(done.book, done.pairs, due)
    /\ \A k \in DOMAIN done.pairs :
          done.pairs[k][1] \in DOMAIN book => \E j \in 1..i : done.pairs[k][1] = uacs[j].line
    /\ \A j \in DOMAIN due :
          GivenTo(done.book, done.pairs, due[j].line) = Covered(Wants(due), done.at, j)
    /\ CreditsKept(book, uacs) => SameTotals(book, done.book)


AppliedFirst(due, book) == [at |-> Begin(Wants(due)), book |-> book, pairs |-> <<>>]

LEMMA AppliedUnfolds ==
    ASSUME NEW Q, NEW uacs \in Seq(Q), NEW due, NEW book
    PROVE  /\ Applied(uacs, due, book)[0] = AppliedFirst(due, book)
           /\ \A n \in 1..Len(uacs) : Applied(uacs, due, book)[n] = ApplyCredit(due, Applied(uacs, due, book)[n - 1], uacs[n])
<1> DEFINE N == Len(uacs)
           First == AppliedFirst(due, book)
           Is(n, g) == g = [m \in 0..n |-> IF m = 0 THEN First ELSE ApplyCredit(due, g[m - 1], uacs[m])]
           K == {n \in Nat : \E g : Is(n, g)}
<1>0. N \in Nat
  OBVIOUS
<1>1. 0 \in K
  <2> DEFINE g == [m \in 0..0 |-> First]
  <2>1. Is(0, g)
    OBVIOUS
  <2> HIDE DEF g
  <2>2. \E x : Is(0, x)
    BY <2>1
  <2> QED BY <2>2
<1>2. ASSUME NEW n \in 1..N, n - 1 \in K PROVE n \in K
  <2>1. PICK g : Is(n - 1, g)
    BY <1>2
  <2> HIDE DEF First
  <2> DEFINE h == [m \in 0..n |-> IF m = 0 THEN First ELSE ApplyCredit(due, g[m - 1], uacs[m])]
  <2>2. \A m \in 0..(n - 1) : h[m] = g[m]
    BY <1>0, <2>1
  <2>3. \A m \in 1..n : m - 1 \in 0..(n - 1)
    BY <1>0
  <2> DEFINE A(m) == IF m = 0 THEN First ELSE ApplyCredit(due, g[m - 1], uacs[m])
             B(m) == IF m = 0 THEN First ELSE ApplyCredit(due, h[m - 1], uacs[m])
  <2>4. \A m \in 0..n : A(m) = B(m)
    <3>1. \A m \in 1..n : h[m - 1] = g[m - 1]
      BY <2>2, <2>3
    <3> HIDE DEF h
    <3> QED BY <1>0, <3>1
  <2>5. h = [m \in 0..n |-> A(m)]
    OBVIOUS
  <2>6. h = [m \in 0..n |-> B(m)]
    <3> HIDE DEF h, A, B
    <3> QED BY <2>4, <2>5
  <2>7. \E x : Is(n, x)
    <3> HIDE DEF h
    <3>1. Is(n, h)
      BY <2>6
    <3> QED BY <3>1
  <2>8. n \in Nat
    BY <1>0
  <2> QED BY <2>7, <2>8
<1>3. \A n \in 0..N : n \in K
  <2> HIDE DEF K, N
  <2> QED BY <1>0, <1>1, <1>2, UpTo
<1>4. \E g : Is(N, g)
  <2>1. N \in K
    <3> HIDE DEF K
    <3> QED BY <1>0, <1>3
  <2> HIDE DEF N, Is
  <2> QED BY <2>1
<1> DEFINE b == Applied(uacs, due, book)
<1>5. b = CHOOSE g : Is(N, g)
  BY DEF Applied, AppliedFirst
<1>6. Is(N, b)
  <2> HIDE DEF Is, b, N
  <2> QED BY <1>4, <1>5
<1> HIDE DEF First, b
<1>7. b = [m \in 0..N |-> IF m = 0 THEN First ELSE ApplyCredit(due, b[m - 1], uacs[m])]
  BY <1>6
<1>8. b[0] = First /\ \A n \in 1..N : b[n] = ApplyCredit(due, b[n - 1], uacs[n])
  BY <1>0, <1>7
<1> QED BY <1>8 DEF b, First

\* The parts of a credit: what is poured over the debts, how the credit is cut,
\* and the pairs
Restart(at) == [at EXCEPT !.parts = <<>>]
PourCredit(due, done, u) == Pour(Wants(due), Restart(done.at), u.amount)
PartsOf(due, done, u) == PourCredit(due, done, u).parts
RestOf(due, done, u) == PourCredit(due, done, u).rest
CutCredit(due, done, u) == Split(done.book, u, Paid(PartsOf(due, done, u)), RestOf(due, done, u))
NewBook(due, done, u) == SplitBook(done.book, u, Paid(PartsOf(due, done, u)), RestOf(due, done, u))
PairsOf(lines, parts, due) == [i \in DOMAIN parts |-> <<lines[i], due[parts[i][1]].line>>]

LEMMA ApplyCreditIs ==
    ASSUME NEW due, NEW done, NEW u
    PROVE  LET to == ApplyCredit(due, done, u)
           IN /\ to.at = PourCredit(due, done, u) /\ to.book = CutCredit(due, done, u).book
              /\ to.pairs = done.pairs \o PairsOf(CutCredit(due, done, u).lines, PartsOf(due, done, u), due)
BY DEF ApplyCredit, PourCredit, CutCredit, PairsOf, PartsOf, RestOf, Restart, Paid

LEMMA RestartFacts ==
    ASSUME NEW w \in Seq(Nat), NEW at, LoopState(w, at)
    PROVE  /\ LoopState(w, Restart(at)) /\ Restart(at).parts = <<>>
           /\ \A j : Covered(w, Restart(at), j) = Covered(w, at, j)
<1> DEFINE b == Restart(at)
<1>1. /\ b \in Loop(w) /\ b.parts = <<>> /\ b.i = at.i /\ b.rest = at.rest /\ b.left = at.left
  <2> DEFINE Q == Seq(Shares(w))
             none == <<>>
  <2>1. none \in Q
    OBVIOUS
  <2>2. at \in [i : Nat, rest : Nat, left : Nat, parts : Q]
    BY DEF LoopState, Loop
  <2>3. b = [at EXCEPT !.parts = none]
    BY DEF Restart
  <2> HIDE DEF Q, none, b
  <2>4. /\ b \in [i : Nat, rest : Nat, left : Nat, parts : Q] /\ b.parts = none
        /\ b.i = at.i /\ b.rest = at.rest /\ b.left = at.left
    BY <2>1, <2>2, <2>3
  <2> QED BY <2>4 DEF Q, none, Loop
<1> HIDE DEF b
<1>2. LoopState(w, b) /\ \A j : Covered(w, b, j) = Covered(w, at, j)
  BY <1>1 DEF LoopState, Covered
<1> QED BY <1>1, <1>2 DEF b

\* What the parts of a credit come to
CreditPoured(w, at, to, amount) ==
    /\ LoopState(w, to) /\ to.rest \in Nat
    /\ PaidAll(to.parts) + to.rest = amount
    /\ \A j \in 1..Len(w) : PaidTo(to.parts, j) = Covered(w, to, j) - Covered(w, at, j)

LEMMA CreditIsPoured ==
    ASSUME NEW due \in Seq(DebtLine), NEW done, LoopState(Wants(due), done.at),
           NEW u, u.amount \in Nat
    PROVE  CreditPoured(Wants(due), done.at, PourCredit(due, done, u), u.amount)
<1> DEFINE w == Wants(due)
           b == Restart(done.at)
           to == PourCredit(due, done, u)
           amount == u.amount
<1>1. w \in Seq(Nat) /\ amount \in Nat /\ Len(w) \in Nat
  BY WantsFacts
<1>2. LoopState(w, b) /\ b.parts = <<>> /\ \A j : Covered(w, b, j) = Covered(w, done.at, j)
  <2> HIDE DEF w, b
  <2> QED BY <1>1, RestartFacts DEF b, w
<1>3. Applies(w, b, amount, to)
  <2>1. to = Pour(w, b, amount)
    BY DEF PourCredit
  <2> HIDE DEF w, b, to, amount
  <2> QED BY <1>1, <1>2, <2>1, PaymentIsApplied
<1> HIDE DEF w, b, to, amount
<1>4. LoopState(w, to) /\ to.rest \in Nat /\ PaidAll(to.parts) + to.rest = amount
  <2>1. LoopState(w, to) /\ to.rest \in Nat /\ PaidAll(to.parts) + to.rest = 0 + amount
    BY <1>2, <1>3, NothingPaid DEF Applies
  <2> QED BY <1>1, <2>1
<1>5. ASSUME NEW j \in 1..Len(w)
      PROVE  PaidTo(to.parts, j) = Covered(w, to, j) - Covered(w, done.at, j)
  <2> DEFINE p == PaidTo(to.parts, j)
             c == Covered(w, to, j)
             d == Covered(w, done.at, j)
  <2>1. p - c = 0 - d
    BY <1>2, <1>3, NothingPaid DEF Applies
  <2>2. c \in Int /\ d \in Int
    <3>1. c \in Nat
      BY <1>1, <1>4, CoveredFacts
    <3>2. d \in Nat
      BY <1>1, CoveredFacts DEF w
    <3> QED BY <3>1, <3>2
  <2>3. p \in Int
    <3>1. to.parts \in Seq(Shares(w))
      BY <1>4 DEF LoopState, Loop
    <3> DEFINE s == to.parts
    <3> HIDE DEF s
    <3>2. PaidTo(s, j) \in Int
      BY <1>1, <3>1, PartsFacts DEF s
    <3> QED BY <3>2 DEF s
  <2> HIDE DEF p, c, d
  <2>4. p = c - d
    BY <2>1, <2>2, <2>3
  <2> QED BY <2>4 DEF p, c, d
<1>6. CreditPoured(w, done.at, to, amount)
  BY <1>4, <1>5 DEF CreditPoured
<1> QED BY <1>6 DEF w, to, amount

\* A document's credits and debts are those of a ledger.
Reconciling(book, uacs, due) ==
    /\ Ledger(book) /\ UsedCredits(book, uacs) /\ DebtLines(book, due)

\* A credit that is not cut yet can be.
LEMMA CreditDivisible ==
    ASSUME NEW book, NEW uacs, NEW due, Reconciling(book, uacs, due),
           NEW n \in 1..Len(uacs), NEW done, AppliedTo(done, uacs, due, book, n - 1)
    PROVE  LET u == uacs[n]
           IN /\ CreditPoured(Wants(due), done.at, PourCredit(due, done, u), u.amount)
              /\ Divisible(done.book, u, Paid(PartsOf(due, done, u)), RestOf(due, done, u))
              /\ done.book[u.line] = book[u.line] /\ u.line \in DOMAIN book /\ u \in CreditLine
<1> DEFINE u == uacs[n]
           w == Wants(due)
           to == PourCredit(due, done, u)
           parts == PartsOf(due, done, u)
           rest == RestOf(due, done, u)
           s == Paid(parts)
           c == done.book
<1>1. /\ Len(uacs) \in Nat /\ DOMAIN uacs = 1..Len(uacs) /\ \A j \in 1..n : j \in DOMAIN uacs
      /\ u \in CreditLine /\ OwnLine(book, u.line) /\ book[u.line].credit > 0
      /\ u.original > 0 /\ u.amount <= u.original /\ n \in DOMAIN uacs
  <2>1. /\ Len(uacs) \in Nat /\ DOMAIN uacs = 1..Len(uacs) /\ \A k \in DOMAIN uacs : uacs[k] \in CreditLine
    <3>1. uacs \in Seq(CreditLine)
      BY DEF Reconciling, UsedCredits
    <3> QED BY <3>1, SeqFacts
  <2>2. \A j \in 1..n : j \in 1..Len(uacs)
    <3> DEFINE N == Len(uacs)
    <3>1. N \in Nat
      BY <2>1
    <3> HIDE DEF N
    <3>2. n \in 1..N
      BY DEF N
    <3>3. \A j \in 1..n : j \in 1..N
      BY <3>1, <3>2
    <3> QED BY <3>3 DEF N
  <2>3. n \in DOMAIN uacs
    BY <2>1
  <2>4. /\ OwnLine(book, u.line) /\ book[u.line].credit > 0
        /\ u.original > 0 /\ u.amount <= u.original
    BY <2>3 DEF Reconciling, UsedCredits
  <2> QED BY <2>1, <2>2, <2>3, <2>4
<1>2. u.amount \in Nat /\ u.original \in Nat
  BY <1>1 DEF CreditLine
<1>3. LoopState(w, done.at) /\ AppliedBook(book, uacs, n - 1, c)
  BY DEF AppliedTo
<1>4. due \in Seq(DebtLine) /\ w \in Seq(Nat)
  <2>1. due \in Seq(DebtLine)
    BY DEF Reconciling, DebtLines
  <2> QED BY <2>1, WantsFacts
<1>5. CreditPoured(w, done.at, to, u.amount)
  <2> HIDE DEF u
  <2> QED BY <1>2, <1>3, <1>4, CreditIsPoured DEF w
<1>6. parts = to.parts /\ rest = to.rest
  BY DEF PartsOf, RestOf
<1>7. parts \in Seq(Shares(w)) /\ rest \in Nat /\ PaidAll(parts) + rest = u.amount
  BY <1>5, <1>6 DEF CreditPoured, LoopState, Loop
<1>8. s \in Seq(Nat \ {0}) /\ Len(s) = Len(parts) /\ PaidAll(parts) = SumOver(s, 1..Len(s))
  <2> HIDE DEF parts, w
  <2>1. /\ DOMAIN parts = 1..Len(parts) /\ Len(parts) \in Nat
        /\ \A k \in DOMAIN parts : parts[k][2] \in Nat \ {0}
    BY <1>4, <1>7, PartsFacts
  <2>2. s = [k \in 1..Len(parts) |-> parts[k][2]]
    BY <2>1 DEF Paid
  <2> HIDE DEF s
  <2>3. s \in Seq(Nat \ {0}) /\ Len(s) = Len(parts) /\ DOMAIN s = 1..Len(s)
    BY <2>1, <2>2
  <2>4. DOMAIN parts = 1..Len(s)
    BY <2>1, <2>3
  <2> QED BY <2>3, <2>4 DEF PaidAll, s
<1>9. c[u.line] = book[u.line] /\ u.line \in DOMAIN book /\ u.line \in DOMAIN c
  <2>1. \A j \in 1..(n - 1) : uacs[j].line # u.line
    <3> SUFFICES ASSUME NEW j \in 1..(n - 1), uacs[j].line = u.line PROVE FALSE
      OBVIOUS
    <3>1. n \in Nat /\ n >= 1
      BY <1>1
    <3>2. j \in 1..n /\ j # n
      BY <3>1
    <3>3. j \in DOMAIN uacs
      BY <1>1, <3>2
    <3> QED BY <1>1, <3>2, <3>3 DEF Reconciling, UsedCredits
  <2> QED BY <1>1, <1>3, <2>1 DEF AppliedBook, OwnLine, Grows
<1>10. OwnLine(c, u.line) /\ c[u.line].credit > 0 /\ Ledger(c)
  BY <1>1, <1>3, <1>9 DEF OwnLine, AppliedBook
<1>11. SumOver(s, 1..Len(s)) + rest = u.amount
  BY <1>7, <1>8
<1> HIDE DEF u, s, c, rest
<1>12. Divisible(c, u, s, rest)
  BY <1>1, <1>7, <1>8, <1>10, <1>11 DEF Divisible
<1> QED BY <1>1, <1>5, <1>9, <1>12 DEF u, s, c, rest, parts, to, w

\* The ledger after one more credit is cut
LEMMA CreditCut ==
    ASSUME NEW book, NEW uacs, NEW due, Reconciling(book, uacs, due),
           NEW n \in 1..Len(uacs), NEW done, AppliedTo(done, uacs, due, book, n - 1)
    PROVE  LET c == NewBook(due, done, uacs[n])
           IN /\ CutBook(done.book, uacs[n], c)
              /\ AppliedBook(book, uacs, n, c)
              /\ CreditsKept(book, uacs) => SameTotals(book, c)
<1> DEFINE u == uacs[n]
           s == Paid(PartsOf(due, done, u))
           rest == RestOf(due, done, u)
           b == done.book
           c == NewBook(due, done, u)
<1>1. Divisible(b, u, s, rest) /\ b[u.line] = book[u.line] /\ u.line \in DOMAIN book
  BY CreditDivisible
<1>2. c = SplitBook(b, u, s, rest)
  BY DEF NewBook
<1>3. CutBook(b, u, c)
  <2> HIDE DEF b, u, s, rest, c
  <2> QED BY <1>1, <1>2, SplitBookFacts
<1>4. AppliedBook(book, uacs, n - 1, b) /\ (CreditsKept(book, uacs) => SameTotals(book, b))
  BY DEF AppliedTo
<1>5. \A l : (\A j \in 1..n : uacs[j].line # l)
             => l # u.line /\ \A j \in 1..(n - 1) : uacs[j].line # l
  <2> DEFINE N == Len(uacs)
  <2>1. N \in Nat
    <3>1. uacs \in Seq(CreditLine)
      BY DEF Reconciling, UsedCredits
    <3> QED BY <3>1, SeqFacts
  <2>2. n \in 1..N
    OBVIOUS
  <2> HIDE DEF N
  <2>3. n \in 1..n /\ \A j \in 1..(n - 1) : j \in 1..n
    BY <2>1, <2>2
  <2> QED BY <2>3
<1>6. AppliedBook(book, uacs, n, c)
  <2> HIDE DEF b, c
  <2>1. /\ Ledger(c) /\ Grows(b, c) /\ Len(b) <= Len(c)
        /\ DOMAIN c = 1..Len(c) /\ DOMAIN b = 1..Len(b)
    BY <1>3 DEF CutBook
  <2>2. Grows(book, b) /\ Len(book) <= Len(b) /\ DOMAIN book = 1..Len(book) /\ Ledger(b)
    BY <1>4 DEF AppliedBook
  <2>3. Grows(book, c)
    BY <2>1, <2>2, GrowsTwice
  <2>4. Len(book) <= Len(c)
    <3>1. Ledger(book)
      BY DEF Reconciling
    <3>2. Len(book) \in Nat /\ Len(b) \in Nat /\ Len(c) \in Nat
      BY <2>1, <2>2, <3>1, BookLines DEF Ledger
    <3> QED BY <2>1, <2>2, <3>2
  <2>5. DOMAIN book \subseteq DOMAIN b /\ DOMAIN b \subseteq DOMAIN c
    BY <2>1, <2>2 DEF Grows
  <2>6. ASSUME NEW l \in DOMAIN book
        PROVE  /\ (\A j \in 1..n : uacs[j].line # l) => c[l] = book[l]
               /\ c[l].rec = book[l].rec /\ c[l].full = book[l].full
    <3>1. l \in DOMAIN b
      BY <2>5
    <3> HIDE DEF u
    <3> QED BY <1>3, <1>4, <1>5, <3>1 DEF CutBook, AppliedBook
  <2>7. ASSUME NEW l \in (DOMAIN c) \ (DOMAIN book)
        PROVE  c[l].rec = 0 /\ c[l].full = FALSE /\ OwnLine(c, l) /\ c[l].credit > 0
    <3>1. CASE l \in DOMAIN b
      <4>1. l # u.line
        BY <1>1
      <4>2. c[l] = b[l]
        BY <1>3, <3>1, <4>1 DEF CutBook
      <4>3. b[l].rec = 0 /\ b[l].full = FALSE /\ OwnLine(b, l) /\ b[l].credit > 0
        BY <1>4, <3>1 DEF AppliedBook
      <4> QED BY <4>2, <4>3 DEF OwnLine
    <3>2. CASE l \notin DOMAIN b
      BY <1>3, <3>2 DEF CutBook
    <3> QED BY <3>1, <3>2
  <2> QED BY <2>1, <2>2, <2>3, <2>4, <2>6, <2>7 DEF AppliedBook
<1>7. ASSUME CreditsKept(book, uacs) PROVE SameTotals(book, c)
  <2>1. SameTotals(book, b)
    BY <1>4, <1>7
  <2>2. b[u.line].credit = u.original
    <3>1. n \in DOMAIN uacs
      <4>1. uacs \in Seq(CreditLine)
        BY DEF Reconciling, UsedCredits
      <4> QED BY <4>1, SeqFacts
    <3>2. book[u.line].credit = u.original
      BY <1>7, <3>1 DEF CreditsKept
    <3> QED BY <1>1, <3>2
  <2>3. SameTotals(b, c)
    <3> HIDE DEF b, u, s, rest, c
    <3>1. SameTotals(b, SplitBook(b, u, s, rest))
      BY <1>1, <2>2, SplitTotals
    <3> QED BY <1>2, <3>1
  <2> HIDE DEF b, c
  <2> QED BY <2>1, <2>3 DEF SameTotals
<1> QED BY <1>3, <1>6, <1>7 DEF b, u, c

\* What is given by pairs and by pairs
JoinsPairs(b, c, pairs, new) ==
    /\ b \in Book /\ c \in Book
    /\ \A k \in DOMAIN pairs : /\ pairs[k][1] \in DOMAIN b
                               /\ c[pairs[k][1]].credit = b[pairs[k][1]].credit
    /\ \A k \in DOMAIN new : new[k][1] \in DOMAIN c
GivenBoth(b, c, pairs, new, l) ==
    /\ GivenTo(c, pairs \o new, l) = GivenTo(b, pairs, l) + GivenTo(c, new, l)
    /\ GivenTo(b, pairs, l) \in Int /\ GivenTo(c, new, l) \in Int

LEMMA GivenJoin ==
    ASSUME NEW b, NEW c, NEW Q, NEW pairs \in Seq(Q), NEW new \in Seq(Q),
           JoinsPairs(b, c, pairs, new), NEW l
    PROVE  GivenBoth(b, c, pairs, new, l)
<1>0. /\ b \in Book /\ c \in Book
      /\ \A k \in DOMAIN pairs : /\ pairs[k][1] \in DOMAIN b
                                 /\ c[pairs[k][1]].credit = b[pairs[k][1]].credit
      /\ \A k \in DOMAIN new : new[k][1] \in DOMAIN c
  BY DEF JoinsPairs
<1> DEFINE all == pairs \o new
           m == Len(pairs)
           k == Len(new)
           f == GivenBy(c, all, l)
           g == GivenBy(b, pairs, l)
           h == GivenBy(c, new, l)
<1>1. /\ Len(all) = m + k /\ m \in Nat /\ k \in Nat
      /\ DOMAIN pairs = 1..m /\ DOMAIN new = 1..k
      /\ \A i \in 1..m : all[i] = pairs[i]
      /\ \A i \in 1..k : all[m + i] = new[i]
  BY ConcatFacts, SeqFacts
<1>2. /\ \A x \in DOMAIN b : b[x].credit \in Nat
      /\ \A x \in DOMAIN c : c[x].credit \in Nat
  BY <1>0, BookLines DEF MoveLine
<1>3. /\ f = [i \in 1..(m + k) |-> IF all[i][2] = l THEN c[all[i][1]].credit ELSE 0]
      /\ g = [i \in 1..m |-> IF pairs[i][2] = l THEN b[pairs[i][1]].credit ELSE 0]
      /\ h = [i \in 1..k |-> IF new[i][2] = l THEN c[new[i][1]].credit ELSE 0]
  BY <1>1 DEF GivenBy
<1> HIDE DEF all, m, k, f, g, h
<1>4. \A i \in 1..m : f[i] = g[i] /\ f[i] \in Nat
  <2> SUFFICES ASSUME NEW i \in 1..m PROVE f[i] = g[i] /\ f[i] \in Nat
    OBVIOUS
  <2>1. i \in 1..(m + k) /\ all[i] = pairs[i] /\ i \in DOMAIN pairs
    BY <1>1
  <2>2. c[pairs[i][1]].credit = b[pairs[i][1]].credit /\ b[pairs[i][1]].credit \in Nat
    BY <1>0, <1>2, <2>1
  <2> QED BY <1>3, <2>1, <2>2
<1>5. \A i \in 1..k : f[m + i] = h[i] /\ h[i] \in Nat
  <2> SUFFICES ASSUME NEW i \in 1..k PROVE f[m + i] = h[i] /\ h[i] \in Nat
    OBVIOUS
  <2>1. m + i \in 1..(m + k) /\ all[m + i] = new[i] /\ i \in DOMAIN new
    BY <1>1
  <2>2. c[new[i][1]].credit \in Nat
    BY <1>0, <1>2, <2>1
  <2> QED BY <1>3, <2>1, <2>2
<1>6. Whole(f, 1..(m + k))
  <2> SUFFICES ASSUME NEW i \in 1..(m + k) PROVE f[i] \in Int
    BY DEF Whole
  <2>1. CASE i \in 1..m
    BY <1>4, <2>1
  <2>2. CASE i \notin 1..m
    <3> DEFINE j == i - m
    <3>1. j \in 1..k /\ i = m + j
      BY <1>1, <2>2
    <3> HIDE DEF j
    <3> QED BY <1>5, <3>1
  <2> QED BY <2>1, <2>2
<1>7. SumOver(f, 1..(m + k)) = SumOver(g, 1..m) + SumOver(h, 1..k)
  <2>1. m \in Nat /\ k \in Nat
    BY <1>1
  <2>2. GoesOn(f, g, h, m, k)
    BY <1>4, <1>5, <1>6 DEF GoesOn
  <2>3. SumGoesOn(f, g, h, m, k)
    BY <2>1, <2>2, SumAppended
  <2> QED BY <2>3 DEF SumGoesOn
<1>8. SumOver(g, 1..m) \in Int /\ SumOver(h, 1..k) \in Int
  <2>1. Whole(g, 1..m) /\ Whole(h, 1..k)
    BY <1>4, <1>5 DEF Whole
  <2>2. IsFiniteSet(1..m) /\ IsFiniteSet(1..k)
    BY <1>1, FS_Interval
  <2> DEFINE M == 1..m
             K == 1..k
  <2> HIDE DEF M, K
  <2>3. SumOver(g, M) \in Int /\ SumOver(h, K) \in Int
    BY <2>1, <2>2, SumWhole DEF M, K
  <2> QED BY <2>3 DEF M, K
<1> QED BY <1>1, <1>7, <1>8 DEF GivenBoth, GivenTo, all, m, k, f, g, h

\* The pairs of a credit give a debt what the parts of the credit pay.
LEMMA GivenByParts ==
    ASSUME NEW book, NEW due, DebtLines(book, due), NEW parts \in Seq(Shares(Wants(due))),
           NEW c, NEW lines, \A i \in DOMAIN parts : c[lines[i]].credit = parts[i][2],
           NEW j \in DOMAIN due
    PROVE  GivenTo(c, PairsOf(lines, parts, due), due[j].line) = PaidTo(parts, j)
<1> DEFINE w == Wants(due)
           l == due[j].line
           pairs == PairsOf(lines, parts, due)
           D == DOMAIN parts
           T == {k \in D : parts[k][1] = j}
           f == Paid(parts)
           g == GivenBy(c, pairs, l)
<1>1. w \in Seq(Nat) /\ Len(w) = Len(due) /\ DOMAIN due = 1..Len(due)
  BY WantsFacts DEF DebtLines
<1>2. /\ D = 1..Len(parts) /\ Len(parts) \in Nat /\ IsFiniteSet(D)
      /\ \A k \in D : /\ parts[k][1] \in DOMAIN due /\ parts[k][2] \in Nat
                      /\ f[k] = parts[k][2]
  <2> HIDE DEF w
  <2>1. /\ DOMAIN parts = 1..Len(parts) /\ Len(parts) \in Nat /\ IsFiniteSet(DOMAIN parts)
        /\ \A k \in DOMAIN parts : /\ parts[k][1] \in 1..Len(w) /\ parts[k][2] \in Nat \ {0}
                                   /\ Paid(parts)[k] = parts[k][2]
    BY <1>1, PartsFacts DEF w
  <2>2. 1..Len(w) = DOMAIN due
    BY <1>1
  <2> QED BY <2>1, <2>2
<1>3. pairs = [i \in D |-> <<lines[i], due[parts[i][1]].line>>]
  BY DEF PairsOf
<1>4. DOMAIN pairs = D /\ Len(pairs) = Len(parts)
  <2> DEFINE N == Len(parts)
  <2>1. N \in Nat /\ D = 1..N
    BY <1>2
  <2> HIDE DEF N, D
  <2>2. DOMAIN pairs = 1..N
    BY <1>3, <2>1
  <2> HIDE DEF pairs
  <2>3. Len(pairs) = N
    BY <2>1, <2>2
  <2> QED BY <2>1, <2>2, <2>3 DEF N
<1>5. \A k \in D : g[k] = (IF pairs[k][2] = l THEN c[pairs[k][1]].credit ELSE 0)
  <2>1. g = [k \in 1..Len(parts) |-> IF pairs[k][2] = l THEN c[pairs[k][1]].credit ELSE 0]
    BY <1>4 DEF GivenBy
  <2> HIDE DEF g, pairs
  <2> QED BY <1>2, <2>1
<1>6. \A k \in D : pairs[k][1] = lines[k] /\ pairs[k][2] = due[parts[k][1]].line
  BY <1>3
<1> HIDE DEF pairs, g, f
<1>7. \A k \in D : pairs[k][2] = l <=> k \in T
  <2> SUFFICES ASSUME NEW k \in D PROVE pairs[k][2] = l <=> parts[k][1] = j
    OBVIOUS
  <2>1. parts[k][1] \in DOMAIN due
    BY <1>2
  <2>2. due[parts[k][1]].line = due[j].line => parts[k][1] = j
    BY <2>1 DEF DebtLines
  <2> QED BY <1>6, <2>2
<1>8. \A k \in T : g[k] = f[k] /\ f[k] \in Int
  BY <1>2, <1>5, <1>6, <1>7
<1>9. \A k \in D \ T : g[k] = 0
  BY <1>5, <1>7
<1>10. SumOver(g, D) = SumOver(f, T)
  <2>1. T \in SUBSET D /\ Whole(f, T) /\ IsFiniteSet(D)
    BY <1>2, <1>8 DEF Whole
  <2> HIDE DEF D, T
  <2> QED BY <1>8, <1>9, <2>1, SumFilter
<1>11. D = 1..Len(pairs)
  BY <1>2, <1>4
<1> QED BY <1>10, <1>11 DEF GivenTo, PaidTo, g, f, pairs, l

\* The pairs after one more credit
NewPairs(due, done, u) == done.pairs \o PairsOf(CutCredit(due, done, u).lines, PartsOf(due, done, u), due)

PairsAdded(due, done, u) ==
    LET c == NewBook(due, done, u)
        new == PairsOf(CutCredit(due, done, u).lines, PartsOf(due, done, u), due)
        parts == PartsOf(due, done, u)
    IN /\ new \in Seq((DOMAIN c) \X (DOMAIN c)) /\ DOMAIN new = DOMAIN parts
       /\ \A k \in DOMAIN new : /\ OwnLine(c, new[k][1]) /\ c[new[k][1]].credit > 0
                                /\ \E j \in DOMAIN due : new[k][2] = due[j].line
                                /\ new[k][1] = u.line \/ new[k][1] \notin DOMAIN done.book
       /\ \A k \in DOMAIN new, j \in DOMAIN new : new[k][1] = new[j][1] => k = j
       /\ \A j \in DOMAIN due : GivenTo(c, new, due[j].line) = PaidTo(parts, j)

LEMMA CreditPaired ==
    ASSUME NEW book, NEW uacs, NEW due, Reconciling(book, uacs, due),
           NEW n \in 1..Len(uacs), NEW done, AppliedTo(done, uacs, due, book, n - 1)
    PROVE  PairsAdded(due, done, uacs[n])
<1> DEFINE u == uacs[n]
           w == Wants(due)
           parts == PartsOf(due, done, u)
           s == Paid(parts)
           rest == RestOf(due, done, u)
           b == done.book
           c == NewBook(due, done, u)
           lines == CutCredit(due, done, u).lines
           new == PairsOf(lines, parts, due)
<1>1. Divisible(b, u, s, rest) /\ CreditPoured(w, done.at, PourCredit(due, done, u), u.amount)
  BY CreditDivisible
<1>2. /\ DOMAIN lines = DOMAIN s
      /\ \A i \in DOMAIN s : /\ OwnLine(c, lines[i]) /\ c[lines[i]].credit = s[i]
                             /\ lines[i] = u.line \/ lines[i] \notin DOMAIN b
      /\ \A i \in DOMAIN s, j \in DOMAIN s : lines[i] = lines[j] => i = j
  <2> DEFINE cut == Split(b, u, s, rest)
             sb == SplitBook(b, u, s, rest)
  <2>1. c = sb /\ lines = cut.lines
    BY DEF NewBook, CutCredit
  <2>2. /\ DOMAIN cut.lines = DOMAIN s
        /\ \A i \in DOMAIN s : /\ OwnLine(sb, cut.lines[i]) /\ sb[cut.lines[i]].credit = s[i]
                               /\ cut.lines[i] = u.line \/ cut.lines[i] \notin DOMAIN b
        /\ \A i \in DOMAIN s, j \in DOMAIN s : cut.lines[i] = cut.lines[j] => i = j
    <3> HIDE DEF b, u, s, rest
    <3> QED BY <1>1, SplitFacts
  <2> HIDE DEF c, lines, cut, sb, b, s, u
  <2> QED BY <2>1, <2>2
<1>3. w \in Seq(Nat) /\ Len(w) = Len(due) /\ DOMAIN due = 1..Len(due) /\ DebtLines(book, due)
  BY WantsFacts DEF Reconciling, DebtLines
<1>4. parts \in Seq(Shares(w))
  BY <1>1 DEF CreditPoured, LoopState, Loop, PartsOf
<1>5. /\ DOMAIN parts = 1..Len(parts) /\ Len(parts) \in Nat /\ DOMAIN s = DOMAIN parts
      /\ \A k \in DOMAIN parts : /\ parts[k][1] \in DOMAIN due /\ parts[k][2] \in Nat
                                 /\ parts[k][2] > 0 /\ s[k] = parts[k][2]
  <2> HIDE DEF w, parts
  <2>1. /\ DOMAIN parts = 1..Len(parts) /\ Len(parts) \in Nat
        /\ \A k \in DOMAIN parts : /\ parts[k][1] \in 1..Len(w) /\ parts[k][2] \in Nat \ {0}
                                   /\ Paid(parts)[k] = parts[k][2]
    BY <1>3, <1>4, PartsFacts
  <2>2. 1..Len(w) = DOMAIN due
    BY <1>3
  <2>3. DOMAIN s = DOMAIN parts
    BY DEF Paid
  <2>4. \A x \in Nat \ {0} : x \in Nat /\ x > 0
    OBVIOUS
  <2> QED BY <2>1, <2>2, <2>3, <2>4
<1>6. CutBook(b, u, c) /\ AppliedBook(book, uacs, n, c)
  BY CreditCut
<1>7. DOMAIN new = DOMAIN parts
      /\ \A k \in DOMAIN parts : /\ new[k] = <<lines[k], due[parts[k][1]].line>>
                                 /\ new[k][1] = lines[k] /\ new[k][2] = due[parts[k][1]].line
  <2> HIDE DEF lines, parts
  <2> QED BY DEF PairsOf
<1> HIDE DEF u, w, parts, s, rest, b, c, lines, new
<1>8. \A k \in DOMAIN parts : lines[k] \in DOMAIN c /\ due[parts[k][1]].line \in DOMAIN c
  <2>1. \A j \in DOMAIN due : due[j].line \in DOMAIN book
    BY <1>3 DEF DebtLines, OwnLine
  <2>2. DOMAIN book \subseteq DOMAIN c
    BY <1>6 DEF AppliedBook, Grows
  <2> QED BY <1>2, <1>5, <2>1, <2>2 DEF OwnLine
<1>9. new \in Seq((DOMAIN c) \X (DOMAIN c))
  <2> DEFINE Q == (DOMAIN c) \X (DOMAIN c)
             N == Len(parts)
  <2>1. N \in Nat /\ DOMAIN parts = 1..N
    BY <1>5
  <2>2. \A k \in 1..N : new[k] \in Q
    <3>1. \A x \in DOMAIN c, y \in DOMAIN c : <<x, y>> \in Q
      OBVIOUS
    <3> HIDE DEF Q, N
    <3> SUFFICES ASSUME NEW k \in 1..N PROVE new[k] \in Q
      OBVIOUS
    <3>2. new[k] = <<lines[k], due[parts[k][1]].line>>
      BY <1>7, <2>1
    <3>3. <<lines[k], due[parts[k][1]].line>> \in Q
      BY <1>8, <2>1, <3>1
    <3> QED BY <3>2, <3>3
  <2>3. new = [k \in 1..N |-> new[k]]
    <3>1. new = [k \in DOMAIN parts |-> new[k]]
      BY <1>7 DEF new, PairsOf
    <3> QED BY <2>1, <3>1
  <2> HIDE DEF Q, N
  <2>4. new \in Seq(Q)
    BY <2>1, <2>2, <2>3
  <2> QED BY <2>4 DEF Q
<1>10. \A k \in DOMAIN new : /\ OwnLine(c, new[k][1]) /\ c[new[k][1]].credit > 0
                             /\ \E j \in DOMAIN due : new[k][2] = due[j].line
                             /\ new[k][1] = u.line \/ new[k][1] \notin DOMAIN b
  BY <1>2, <1>5, <1>7
<1>11. \A k \in DOMAIN new, j \in DOMAIN new : new[k][1] = new[j][1] => k = j
  BY <1>2, <1>5, <1>7
<1>12. ASSUME NEW j \in DOMAIN due PROVE GivenTo(c, new, due[j].line) = PaidTo(parts, j)
  <2>1. \A i \in DOMAIN parts : c[lines[i]].credit = parts[i][2]
    BY <1>2, <1>5
  <2>2. parts \in Seq(Shares(Wants(due)))
    BY <1>4 DEF w
  <2>3. GivenTo(c, PairsOf(lines, parts, due), due[j].line) = PaidTo(parts, j)
    BY <1>3, <2>1, <2>2, GivenByParts
  <2> QED BY <2>3 DEF new
<1> QED BY <1>7, <1>9, <1>10, <1>11, <1>12 DEF PairsAdded, new, c, parts, lines, u, b

LEMMA CreditApplied ==
    ASSUME NEW book, NEW uacs, NEW due, Reconciling(book, uacs, due),
           NEW n \in 1..Len(uacs), NEW done, AppliedTo(done, uacs, due, book, n - 1)
    PROVE  AppliedTo(ApplyCredit(due, done, uacs[n]), uacs, due, book, n)
<1> DEFINE u == uacs[n]
           w == Wants(due)
           to == ApplyCredit(due, done, u)
           b == done.book
           c == NewBook(due, done, u)
           old == done.pairs
           new == PairsOf(CutCredit(due, done, u).lines, PartsOf(due, done, u), due)
           parts == PartsOf(due, done, u)
           at == PourCredit(due, done, u)
           all == old \o new
           C == (DOMAIN c) \X (DOMAIN c)
<1>1. /\ CreditPoured(w, done.at, at, u.amount) /\ parts = at.parts
      /\ u.line \in DOMAIN book
  BY CreditDivisible DEF PartsOf
<1>2. /\ CutBook(b, u, c) /\ AppliedBook(book, uacs, n, c)
      /\ CreditsKept(book, uacs) => SameTotals(book, c)
  BY CreditCut
<1>3. /\ new \in Seq(C) /\ DOMAIN new = DOMAIN parts
      /\ \A k \in DOMAIN new : /\ OwnLine(c, new[k][1]) /\ c[new[k][1]].credit > 0
                               /\ \E j \in DOMAIN due : new[k][2] = due[j].line
                               /\ new[k][1] = u.line \/ new[k][1] \notin DOMAIN b
      /\ \A k \in DOMAIN new, j \in DOMAIN new : new[k][1] = new[j][1] => k = j
      /\ \A j \in DOMAIN due : GivenTo(c, new, due[j].line) = PaidTo(parts, j)
  <2>1. PairsAdded(due, done, u)
    <3> HIDE DEF u
    <3> QED BY CreditPaired DEF u
  <2> QED BY <2>1 DEF PairsAdded
<1>4. /\ to.at = at /\ to.pairs = all /\ to.book = c
  <2>1. to.at = at /\ to.pairs = all /\ to.book = CutCredit(due, done, u).book
    <3> HIDE DEF u
    <3> QED BY ApplyCreditIs
  <2>2. CutCredit(due, done, u).book = c
    <3> DEFINE s == Paid(PartsOf(due, done, u))
               rest == RestOf(due, done, u)
    <3>1. Divisible(b, u, s, rest)
      BY CreditDivisible
    <3>2. Split(b, u, s, rest).book = SplitBook(b, u, s, rest)
      <4> HIDE DEF b, u, s, rest
      <4> QED BY <3>1, SplitFacts
    <3> HIDE DEF s, rest, u
    <3> QED BY <3>2 DEF CutCredit, NewBook, s, rest
  <2> QED BY <2>1, <2>2
<1>5. /\ LoopState(w, done.at) /\ AppliedBook(book, uacs, n - 1, b)
      /\ CreditPairs(b, old, due)
      /\ \A k \in DOMAIN old : old[k][1] \in DOMAIN book => \E j \in 1..(n - 1) : old[k][1] = uacs[j].line
      /\ \A j \in DOMAIN due : GivenTo(b, old, due[j].line) = Covered(w, done.at, j)
  BY DEF AppliedTo
<1>6. /\ Len(uacs) \in Nat /\ DOMAIN uacs = 1..Len(uacs)
      /\ n \in 1..n /\ \A j \in 1..(n - 1) : j \in 1..n /\ j # n /\ j \in DOMAIN uacs
      /\ n \in DOMAIN uacs
  <2> DEFINE N == Len(uacs)
  <2>1. DOMAIN uacs = 1..N /\ N \in Nat
    <3>1. uacs \in Seq(CreditLine)
      BY DEF Reconciling, UsedCredits
    <3> QED BY <3>1, SeqFacts
  <2>2. n \in 1..N
    OBVIOUS
  <2> HIDE DEF N
  <2>3. n \in 1..n /\ \A j \in 1..(n - 1) : j \in 1..n /\ j # n /\ j \in 1..N
    BY <2>1, <2>2
  <2> QED BY <2>1, <2>2, <2>3 DEF N
<1>7. \A j \in 1..(n - 1) : uacs[j].line # u.line
  BY <1>6 DEF Reconciling, UsedCredits
<1>8. /\ w \in Seq(Nat) /\ Len(w) = Len(due) /\ DOMAIN due = 1..Len(due)
      /\ \A j \in DOMAIN due : j \in 1..Len(w)
  BY WantsFacts DEF Reconciling, DebtLines
<1> HIDE DEF u, w, to, b, c, old, new, parts, at, all
<1>9. b \in Book /\ c \in Book /\ DOMAIN b \subseteq DOMAIN c /\ DOMAIN book \subseteq DOMAIN b
  BY <1>2, <1>5 DEF AppliedBook, CutBook, Ledger, Grows
<1>10. \A k \in DOMAIN old : /\ old[k][1] # u.line /\ old[k][1] \in DOMAIN b
                             /\ c[old[k][1]] = b[old[k][1]]
  <2> SUFFICES ASSUME NEW k \in DOMAIN old
               PROVE  /\ old[k][1] # u.line /\ old[k][1] \in DOMAIN b
                      /\ c[old[k][1]] = b[old[k][1]]
    OBVIOUS
  <2>1. old[k][1] \in DOMAIN b
    BY <1>5 DEF CreditPairs, OwnLine
  <2>2. old[k][1] # u.line
    BY <1>1, <1>5, <1>7
  <2> QED BY <1>2, <2>1, <2>2 DEF CutBook
<1>11. old \in Seq(C)
  <2> DEFINE B == (DOMAIN b) \X (DOMAIN b)
  <2>1. old \in Seq(B)
    BY <1>5 DEF CreditPairs
  <2>2. \A x \in B : x \in C
    BY <1>9
  <2> HIDE DEF B, C
  <2>3. DOMAIN old = 1..Len(old) /\ Len(old) \in Nat /\ \A k \in DOMAIN old : old[k] \in B
    BY <2>1, SeqFacts
  <2>4. \A k \in 1..Len(old) : old[k] \in C
    BY <2>2, <2>3
  <2>5. old = [k \in 1..Len(old) |-> old[k]]
    BY <2>1
  <2> QED BY <2>3, <2>4, <2>5
<1> HIDE DEF C
<1>12. /\ all \in Seq(C) /\ Len(all) = Len(old) + Len(new) /\ DOMAIN all = 1..(Len(old) + Len(new))
       /\ Len(old) \in Nat /\ Len(new) \in Nat /\ DOMAIN old = 1..Len(old) /\ DOMAIN new = 1..Len(new)
       /\ \A k \in 1..Len(old) : all[k] = old[k]
       /\ \A k \in 1..Len(new) : all[Len(old) + k] = new[k]
  <2>1. /\ Len(old) \in Nat /\ DOMAIN old = 1..Len(old)
    BY <1>11, SeqFacts
  <2>2. /\ Len(new) \in Nat /\ DOMAIN new = 1..Len(new)
    BY <1>3, SeqFacts
  <2> QED BY <1>3, <1>11, <2>1, <2>2, ConcatFacts DEF all
<1> DEFINE m == Len(old)
           N == Len(new)
<1>13. /\ m \in Nat /\ N \in Nat /\ DOMAIN old = 1..m /\ DOMAIN new = 1..N /\ DOMAIN all = 1..(m + N)
       /\ \A k \in 1..m : all[k] = old[k]
       /\ \A k \in 1..N : all[m + k] = new[k]
  BY <1>12
<1> HIDE DEF m, N
<1>14. ASSUME NEW k \in DOMAIN all
       PROVE  \/ k \in DOMAIN old /\ all[k] = old[k]
              \/ \E i \in DOMAIN new : k = m + i /\ all[k] = new[i]
  <2>1. CASE k \in 1..m
    BY <1>13, <2>1
  <2>2. CASE k \notin 1..m
    <3> DEFINE i == k - m
    <3>1. i \in 1..N /\ k = m + i
      BY <1>13, <2>2
    <3> HIDE DEF i
    <3>2. all[k] = new[i] /\ i \in DOMAIN new
      BY <1>13, <3>1
    <3> QED BY <3>1, <3>2
  <2> QED BY <2>1, <2>2
<1>15. ASSUME NEW k \in DOMAIN all
       PROVE  /\ OwnLine(c, all[k][1]) /\ c[all[k][1]].credit > 0
              /\ \E j \in DOMAIN due : all[k][2] = due[j].line
              /\ all[k][1] \in DOMAIN book => \E j \in 1..n : all[k][1] = uacs[j].line
  <2>1. CASE k \in DOMAIN old /\ all[k] = old[k]
    <3>1. OwnLine(b, old[k][1]) /\ b[old[k][1]].credit > 0
          /\ \E j \in DOMAIN due : old[k][2] = due[j].line
      BY <1>5, <2>1 DEF CreditPairs
    <3>2. OwnLine(c, old[k][1]) /\ c[old[k][1]].credit > 0
      BY <1>9, <1>10, <2>1, <3>1 DEF OwnLine
    <3>3. old[k][1] \in DOMAIN book => \E j \in 1..n : old[k][1] = uacs[j].line
      BY <1>5, <1>6, <2>1
    <3> QED BY <2>1, <3>1, <3>2, <3>3
  <2>2. CASE \E i \in DOMAIN new : k = m + i /\ all[k] = new[i]
    <3> PICK i \in DOMAIN new : all[k] = new[i]
      BY <2>2
    <3>1. new[i][1] \in DOMAIN book => new[i][1] = u.line
      BY <1>3, <1>9
    <3>2. new[i][1] \in DOMAIN book => \E j \in 1..n : new[i][1] = uacs[j].line
      BY <1>6, <3>1 DEF u
    <3> QED BY <1>3, <3>2
  <2> QED BY <1>14, <2>1, <2>2
<1>16. ASSUME NEW k \in DOMAIN all, NEW j \in DOMAIN all, all[k][1] = all[j][1] PROVE k = j
  <2>1. ASSUME NEW x \in DOMAIN old, NEW y \in DOMAIN new PROVE old[x][1] # new[y][1]
    BY <1>3, <1>10
  <2>2. CASE k \in DOMAIN old /\ all[k] = old[k]
    <3>1. CASE j \in DOMAIN old /\ all[j] = old[j]
      BY <1>5, <1>16, <2>2, <3>1 DEF CreditPairs
    <3>2. CASE \E i \in DOMAIN new : j = m + i /\ all[j] = new[i]
      BY <1>16, <2>1, <2>2, <3>2
    <3> QED BY <1>14, <3>1, <3>2
  <2>3. CASE \E i \in DOMAIN new : k = m + i /\ all[k] = new[i]
    <3>1. CASE j \in DOMAIN old /\ all[j] = old[j]
      BY <1>16, <2>1, <2>3, <3>1
    <3>2. CASE \E i \in DOMAIN new : j = m + i /\ all[j] = new[i]
      <4> PICK x \in DOMAIN new : k = m + x /\ all[k] = new[x]
        BY <2>3
      <4> PICK y \in DOMAIN new : j = m + y /\ all[j] = new[y]
        BY <3>2
      <4>1. x = y
        BY <1>3, <1>16
      <4> QED BY <4>1
    <3> QED BY <1>14, <3>1, <3>2
  <2> QED BY <1>14, <2>2, <2>3
<1>17. CreditPairs(c, all, due)
  BY <1>12, <1>15, <1>16 DEF CreditPairs, C
<1>18. ASSUME NEW j \in DOMAIN due PROVE GivenTo(c, all, due[j].line) = Covered(w, at, j)
  <2> DEFINE l == due[j].line
             x == GivenTo(b, old, l)
             y == GivenTo(c, new, l)
             p == Covered(w, done.at, j)
             q == Covered(w, at, j)
  <2>1. \A k \in DOMAIN old : old[k][1] \in DOMAIN b /\ c[old[k][1]].credit = b[old[k][1]].credit
    BY <1>10
  <2>2. \A k \in DOMAIN new : new[k][1] \in DOMAIN c
    BY <1>3 DEF OwnLine
  <2>3. GivenTo(c, all, l) = x + y
    <3>1. new \in Seq(C)
      BY <1>3
    <3> HIDE DEF l
    <3>2. GivenTo(c, old \o new, l) = GivenTo(b, old, l) + GivenTo(c, new, l)
      <4>1. JoinsPairs(b, c, old, new)
        BY <1>9, <2>1, <2>2 DEF JoinsPairs
      <4>2. GivenBoth(b, c, old, new, l)
        BY <1>11, <3>1, <4>1, GivenJoin
      <4> QED BY <4>2 DEF GivenBoth
    <3> QED BY <3>2 DEF all
  <2>4. x = p
    BY <1>5
  <2>5. y = q - p
    <3>1. y = PaidTo(parts, j)
      BY <1>3
    <3>2. PaidTo(at.parts, j) = Covered(w, at, j) - Covered(w, done.at, j)
      BY <1>1, <1>8 DEF CreditPoured
    <3> QED BY <1>1, <3>1, <3>2
  <2>6. p \in Int /\ q \in Int
    <3>1. j \in 1..Len(w) /\ LoopState(w, at)
      BY <1>1, <1>8 DEF CreditPoured
    <3>2. p \in Nat
      BY <1>5, <1>8, <3>1, CoveredFacts
    <3>3. q \in Nat
      BY <1>8, <3>1, CoveredFacts
    <3> QED BY <3>2, <3>3
  <2> HIDE DEF x, y, p, q
  <2>7. x + y = q
    BY <2>4, <2>5, <2>6
  <2> QED BY <2>3, <2>7 DEF q
<1>19. LoopState(w, at)
  BY <1>1 DEF CreditPoured
<1>20. AppliedTo(to, uacs, due, book, n)
  BY <1>2, <1>4, <1>15, <1>17, <1>18, <1>19 DEF AppliedTo, w
<1> QED BY <1>20 DEF to, u

\* All the credits of a reconciliation are applied.
LEMMA AllApplied ==
    ASSUME NEW book, NEW uacs, NEW due, Reconciling(book, uacs, due)
    PROVE  AppliedTo(Apply(uacs, due, book), uacs, due, book, Len(uacs))
<1> DEFINE N == Len(uacs)
           a == Applied(uacs, due, book)
           K == {n \in 0..N : AppliedTo(a[n], uacs, due, book, n)}
           first == AppliedFirst(due, book)
           w == Wants(due)
<1>1. uacs \in Seq(CreditLine) /\ due \in Seq(DebtLine) /\ Ledger(book) /\ DebtLines(book, due)
  BY DEF Reconciling, UsedCredits, DebtLines
<1>2. N \in Nat
  BY <1>1, SeqFacts
<1>3. a[0] = first /\ \A n \in 1..N : a[n] = ApplyCredit(due, a[n - 1], uacs[n])
  BY <1>1, AppliedUnfolds
<1>4. w \in Seq(Nat) /\ DOMAIN due = 1..Len(due) /\ Len(w) = Len(due)
  BY <1>1, WantsFacts
<1>5. first.at = Begin(w) /\ first.book = book /\ first.pairs = <<>>
  BY DEF AppliedFirst
<1>6. AppliedTo(first, uacs, due, book, 0)
  <2> HIDE DEF first, w
  <2>1. LoopState(w, first.at) /\ \A j \in 1..Len(w) : Covered(w, first.at, j) = 0
    BY <1>4, <1>5, BeginFacts
  <2>2. AppliedBook(book, uacs, 0, book)
    <3>1. DOMAIN book = 1..Len(book) /\ Len(book) \in Nat
      BY <1>1, BookLines DEF Ledger
    <3>2. Len(book) <= Len(book) /\ Grows(book, book)
      BY <3>1 DEF Grows
    <3> QED BY <1>1, <3>1, <3>2 DEF AppliedBook
  <2>3. CreditPairs(book, <<>>, due)
    BY DEF CreditPairs
  <2>4. \A l : GivenTo(book, <<>>, l) = 0
    <3> TAKE l
    <3> DEFINE f == GivenBy(book, <<>>, l)
    <3>1. Len(<<>>) = 0 /\ 1..0 = {}
      OBVIOUS
    <3>2. SumOver(f, {}) = 0
      BY SumEmpty
    <3> HIDE DEF f
    <3>3. SumOver(f, 1..Len(<<>>)) = 0
      BY <3>1, <3>2
    <3> QED BY <3>3 DEF GivenTo, f
  <2>5. \A j \in DOMAIN due : Covered(w, first.at, j) = 0
    BY <1>4, <2>1
  <2>6. SameTotals(book, book) /\ DOMAIN <<>> = {}
    BY DEF SameTotals
  <2> QED BY <1>5, <2>1, <2>2, <2>3, <2>4, <2>5, <2>6 DEF AppliedTo, w
<1>7. 0 \in K
  BY <1>2, <1>3, <1>6
<1>8. ASSUME NEW n \in 1..N, n - 1 \in K PROVE n \in K
  <2> HIDE DEF a
  <2> DEFINE done == a[n - 1]
  <2>1. AppliedTo(done, uacs, due, book, n - 1) /\ a[n] = ApplyCredit(due, done, uacs[n])
    BY <1>3, <1>8
  <2> HIDE DEF done
  <2>2. AppliedTo(ApplyCredit(due, done, uacs[n]), uacs, due, book, n)
    BY <2>1, CreditApplied
  <2>3. n \in 0..N
    BY <1>2
  <2> HIDE DEF N
  <2> QED BY <2>1, <2>2, <2>3
<1>9. \A n \in 0..N : n \in K
  <2> HIDE DEF K, N
  <2> QED BY <1>2, <1>7, <1>8, UpTo
<1>10. AppliedTo(a[N], uacs, due, book, N)
  <2>1. N \in 0..N
    BY <1>2
  <2>2. N \in K
    BY <1>9, <2>1
  <2> HIDE DEF a, N
  <2> QED BY <2>2
<1> QED BY <1>10 DEF Apply, N, a

\* action_post of a reconciliation: credits are cut, and reconciled in pairs.
ReconcileWrites(uacs, due, done) ==
    /\ Reconciling(ledger, uacs, due) /\ AppliedTo(done, uacs, due, ledger, Len(uacs))
    /\ ledger' = Books(done.book, done.pairs)[Len(done.pairs)]
    /\ Ledger(ledger') /\ Grows(ledger, ledger')
    /\ DOMAIN ledger' = DOMAIN done.book
    /\ \A l \in DOMAIN ledger' : Alike(done.book[l], ledger'[l])
    /\ CreditsKept(ledger, uacs) => SameTotals(ledger, ledger')

\* Reconciliation leaves the lines of a kind and what they come to.
LEMMA AlikeClass ==
    ASSUME NEW b \in Book, NEW c \in Book, DOMAIN c = DOMAIN b,
           \A m \in DOMAIN b : Alike(b[m], c[m])
    PROVE  SameTotals(b, c) /\ Grows(b, c) /\ (Ledger(b) => Ledger(c))
<1>1. ASSUME NEW A PROVE Total(c, ClassOf(c, A)) = Total(b, ClassOf(b, A))
  <2> DEFINE S == ClassOf(b, A)
  <2>1. ClassOf(c, A) = S
    <3>1. \A m \in DOMAIN b : Attributes(b[m]) = Attributes(c[m])
      BY DEF Alike, Attributes
    <3> QED BY <3>1 DEF ClassOf
  <2>2. S \in SUBSET DOMAIN b
    BY DEF ClassOf
  <2> HIDE DEF S
  <2>3. Total(c, S) = Total(b, S)
    BY <2>2, AlikeTotal
  <2> QED BY <2>1, <2>3 DEF S
<1>2. Grows(b, c)
  BY DEF Grows, Alike
<1>3. Ledger(b) => Ledger(c)
  BY DEF Ledger, Alike
<1> QED BY <1>1, <1>2, <1>3 DEF SameTotals

LEMMA ReconcilePosted ==
    ASSUME VouchersTypeOK, NEW k \in Reconciles, PostReconcile(k)
    PROVE  ReconcileWrites(recon[k].uacs, Applicable(recon[k].debts),
                           Apply(recon[k].uacs, Applicable(recon[k].debts), ledger))
<1> DEFINE uacs == recon[k].uacs
           due == Applicable(recon[k].debts)
           done == Apply(uacs, due, ledger)
           b == done.book
           pairs == done.pairs
           c == ledger'
<1>1. Reconciling(ledger, uacs, due)
  <2>1. Ledger(ledger) /\ UsedCredits(ledger, uacs) /\ DebtLines(ledger, recon[k].debts)
    BY DEF VouchersTypeOK, ReconcilesType
  <2>2. DebtLines(ledger, due)
    BY <2>1, ApplicableDebts
  <2> QED BY <2>1, <2>2 DEF Reconciling
<1>2. AppliedTo(done, uacs, due, ledger, Len(uacs))
  <2> HIDE DEF uacs, due
  <2> QED BY <1>1, AllApplied
<1>3. c = Books(b, pairs)[Len(pairs)]
  BY DEF PostReconcile
<1> HIDE DEF uacs, due, done, b, pairs, c
<1>4. /\ AppliedBook(ledger, uacs, Len(uacs), b) /\ CreditPairs(b, pairs, due)
      /\ CreditsKept(ledger, uacs) => SameTotals(ledger, b)
  BY <1>2 DEF AppliedTo, b, pairs
<1>5. /\ b \in Book /\ Ledger(b) /\ Grows(ledger, b) /\ pairs \in Seq((DOMAIN b) \X (DOMAIN b))
      /\ Len(pairs) \in 0..Len(pairs)
  <2>1. pairs \in Seq((DOMAIN b) \X (DOMAIN b))
    BY <1>4 DEF CreditPairs
  <2>2. Len(pairs) \in Nat
    BY <2>1, SeqFacts
  <2>3. Len(pairs) \in 0..Len(pairs)
    <3> DEFINE n == Len(pairs)
    <3>1. n \in Nat
      BY <2>2
    <3> HIDE DEF n
    <3>2. n \in 0..n
      BY <3>1
    <3> QED BY <3>2 DEF n
  <2> QED BY <1>4, <2>1, <2>3 DEF AppliedBook, Ledger
<1>6. c \in Book /\ DOMAIN c = DOMAIN b /\ \A m \in DOMAIN b : Alike(b[m], c[m])
  <2> DEFINE n == Len(pairs)
             e == Books(b, pairs)[n]
  <2>1. n \in 0..Len(pairs)
    BY <1>5
  <2> HIDE DEF n
  <2>2. e \in Book /\ DOMAIN e = DOMAIN b /\ \A m \in DOMAIN b : Alike(b[m], e[m])
    BY <1>5, <2>1, BooksFacts
  <2>3. c = e
    BY <1>3 DEF n
  <2> HIDE DEF e
  <2> QED BY <2>2, <2>3
<1>7. SameTotals(b, c) /\ Grows(b, c) /\ Ledger(c)
  BY <1>5, <1>6, AlikeClass
<1>8. Grows(ledger, c)
  BY <1>5, <1>7, GrowsTwice
<1>9. CreditsKept(ledger, uacs) => SameTotals(ledger, c)
  BY <1>4, <1>7 DEF SameTotals
<1> QED BY <1>1, <1>2, <1>3, <1>6, <1>7, <1>8, <1>9 DEF ReconcileWrites, uacs, due, done, b, pairs, c

-----------------------------------------------------------------------------
(* Types                                                                   *)

\* The debts by the day they fall due, and by date

LEMMA SortedDue ==
    ASSUME NEW S \in SUBSET Int, IsFiniteSet(S), \A x \in S : ledger[x].due \in Int
    PROVE  Enumerates(SortedBy(S, LAMBDA l : ledger[l].due), S)
<1> DEFINE key == [x \in S |-> ledger[x].due]
           s == SortedBy(S, LAMBDA l : ledger[l].due)
           U(x) == {y \in S : ledger[y].due < ledger[x].due \/ (ledger[y].due = ledger[x].due /\ y > x)}
           V(x) == {y \in S : key[y] < key[x] \/ (key[y] = key[x] /\ y > x)}
           A(i) == CHOOSE x \in S : Cardinality(U(x)) = i - 1
           C(i) == CHOOSE x \in S : Cardinality(V(x)) = i - 1
<1>1. s = [i \in 1..Cardinality(S) |-> A(i)]
  BY DEF SortedBy
<1>2. \A x \in S : U(x) = V(x)
  OBVIOUS
<1>3. \A i : A(i) = C(i)
  <2> HIDE DEF U, V
  <2> QED BY <1>2
<1>4. s = [i \in 1..Cardinality(S) |-> C(i)]
  <2> HIDE DEF A, C, s
  <2> QED BY <1>1, <1>3
<1>5. \A x \in S : key[x] \in Int
  OBVIOUS
<1>6. Enumerates(s, S)
  <2> HIDE DEF key, s, A, U
  <2>1. ByKey(s, S, key)
    BY <1>4 DEF ByKey
  <2> HIDE DEF V, C
  <2> QED BY <1>5, <2>1, Sorted
<1> QED BY <1>6

LEMMA SortedDate ==
    ASSUME NEW S \in SUBSET Int, IsFiniteSet(S), \A x \in S : DateOf(x) \in Int
    PROVE  Enumerates(SortedBy(S, DateOf), S)
<1> DEFINE key == [x \in S |-> DateOf(x)]
           s == SortedBy(S, DateOf)
           U(x) == {y \in S : DateOf(y) < DateOf(x) \/ (DateOf(y) = DateOf(x) /\ y > x)}
           V(x) == {y \in S : key[y] < key[x] \/ (key[y] = key[x] /\ y > x)}
           A(i) == CHOOSE x \in S : Cardinality(U(x)) = i - 1
           C(i) == CHOOSE x \in S : Cardinality(V(x)) = i - 1
<1>1. s = [i \in 1..Cardinality(S) |-> A(i)]
  BY DEF SortedBy
<1>2. \A x \in S : U(x) = V(x)
  OBVIOUS
<1>3. \A i : A(i) = C(i)
  <2> HIDE DEF U, V
  <2> QED BY <1>2
<1>4. s = [i \in 1..Cardinality(S) |-> C(i)]
  <2> HIDE DEF A, C, s
  <2> QED BY <1>1, <1>3
<1>5. \A x \in S : key[x] \in Int
  OBVIOUS
<1>6. Enumerates(s, S)
  <2> HIDE DEF key, s, A, U
  <2>1. ByKey(s, S, key)
    BY <1>4 DEF ByKey
  <2> HIDE DEF V, C
  <2> QED BY <1>5, <2>1, Sorted
<1> QED BY <1>6

\* Drafts are kept when lines are added, and the others are what they are.
LEMMA ReceiptsKept ==
    ASSUME VouchersTypeOK, Grows(ledger, ledger'), NEW r \in Receipts, NEW d \in ReceiptRecord,
           receipt' = [receipt EXCEPT ![r] = d], DebtLines(ledger', d.debts)
    PROVE  ReceiptsType'
<1>1. \A q \in Receipts : DebtLines(ledger', receipt[q].debts)
  BY GrowsKeeps DEF VouchersTypeOK, ReceiptsType
<1>2. receipt \in [Receipts -> ReceiptRecord]
  BY DEF VouchersTypeOK, ReceiptsType
<1>3. receipt' \in [Receipts -> ReceiptRecord]
      /\ \A q \in Receipts : receipt'[q] = IF q = r THEN d ELSE receipt[q]
  BY <1>2
<1>4. \A q \in Receipts : DebtLines(ledger', receipt'[q].debts)
  BY <1>1, <1>3
<1> QED BY <1>3, <1>4 DEF ReceiptsType

LEMMA ReconcilesKept ==
    ASSUME VouchersTypeOK, Grows(ledger, ledger'), NEW k \in Reconciles, NEW d \in ReconcileRecord,
           recon' = [recon EXCEPT ![k] = d], DebtLines(ledger', d.debts),
           UsedCredits(ledger', d.uacs)
    PROVE  ReconcilesType'
<1>1. \A q \in Reconciles : DebtLines(ledger', recon[q].debts) /\ UsedCredits(ledger', recon[q].uacs)
  BY GrowsKeeps DEF VouchersTypeOK, ReconcilesType
<1>2. recon \in [Reconciles -> ReconcileRecord]
  BY DEF VouchersTypeOK, ReconcilesType
<1>3. recon' \in [Reconciles -> ReconcileRecord]
      /\ \A q \in Reconciles : recon'[q] = IF q = k THEN d ELSE recon[q]
  BY <1>2
<1>4. \A q \in Reconciles : DebtLines(ledger', recon'[q].debts) /\ UsedCredits(ledger', recon'[q].uacs)
  BY <1>1, <1>3
<1> QED BY <1>3, <1>4 DEF ReconcilesType

LEMMA VouchersKept ==
    ASSUME VouchersTypeOK, Grows(ledger, ledger'), NEW v \in VoucherIds, NEW d \in VoucherRecord,
           voucher' = [voucher EXCEPT ![v] = d], AssignedLines(ledger', d.type, d.lines)
    PROVE  VouchersType'
<1>1. \A q \in VoucherIds : AssignedLines(ledger', voucher[q].type, voucher[q].lines)
  BY GrowsKeeps DEF VouchersTypeOK, VouchersType
<1>2. voucher \in [VoucherIds -> VoucherRecord]
  BY DEF VouchersTypeOK, VouchersType
<1>3. voucher' \in [VoucherIds -> VoucherRecord]
      /\ \A q \in VoucherIds : voucher'[q] = IF q = v THEN d ELSE voucher[q]
  BY <1>2
<1>4. \A q \in VoucherIds : AssignedLines(ledger', voucher'[q].type, voucher'[q].lines)
  BY <1>1, <1>3
<1> QED BY <1>3, <1>4 DEF VouchersType

\* What an action leaves alone keeps its type.
LEMMA OthersKept ==
    ASSUME VouchersTypeOK, Grows(ledger, ledger')
    PROVE  /\ UNCHANGED receipt => ReceiptsType'
           /\ UNCHANGED recon => ReconcilesType'
           /\ UNCHANGED voucher => VouchersType'
<1>1. ASSUME UNCHANGED receipt PROVE ReceiptsType'
  BY <1>1, GrowsKeeps DEF VouchersTypeOK, ReceiptsType
<1>2. ASSUME UNCHANGED recon PROVE ReconcilesType'
  BY <1>2, GrowsKeeps DEF VouchersTypeOK, ReconcilesType
<1>3. ASSUME UNCHANGED voucher PROVE VouchersType'
  BY <1>3, GrowsKeeps DEF VouchersTypeOK, VouchersType
<1> QED BY <1>1, <1>2, <1>3

LEMMA SameGrows ==
    ASSUME UNCHANGED ledger
    PROVE  Grows(ledger, ledger') /\ (Ledger(ledger) => Ledger(ledger'))
BY DEF Grows

LEMMA PaymentFacts ==
    ASSUME NEW paid \in Payment
    PROVE  Sum3(paid) \in Nat
BY DEF Payment, Sum3

LEMMA NewReceiptType ==
    ASSUME VouchersTypeOK, NEW r \in Receipts, NEW paid \in Payments, NewReceipt(r, paid),
           UNCHANGED voucher
    PROVE  VouchersTypeOK'
<1> DEFINE S == {l \in OpenDebts(ledger) : Residual(ledger, l) # 0}
           lines == SortedBy(S, LAMBDA l : ledger[l].due)
           debts == Offer(lines, Sum3(paid))
           d == [state |-> "draft", paid |-> paid, lines |-> {}, owed |-> 0, debts |-> debts]
<1>1. Ledger(ledger) /\ ledger \in Book /\ paid \in Payment /\ Sum3(paid) \in Nat
  <2>1. paid \in Payment
    BY ReceiptsAssumption DEF Payment
  <2> QED BY <2>1, PaymentFacts DEF VouchersTypeOK, Ledger
<1>2. S \in SUBSET DOMAIN ledger
      /\ \A l \in S : OwnLine(ledger, l) /\ ledger[l].debit > 0 /\ ledger[l].due \in Int
  <2>1. \A l \in DOMAIN ledger : ledger[l] \in MoveLine
    BY <1>1, BookLines
  <2>2. \A l \in DOMAIN ledger : ledger[l].due \in Int
    BY <2>1 DEF MoveLine
  <2> QED BY <2>2 DEF OpenDebts, Lines, OwnLine
<1> HIDE DEF S
<1>3. S \in SUBSET Int /\ IsFiniteSet(S)
  BY <1>1, <1>2, BookLines
<1>4. Enumerates(lines, S)
  BY <1>2, <1>3, SortedDue
<1>5. receipt' = [receipt EXCEPT ![r] = d] /\ UNCHANGED <<ledger, recon, changes, clean>>
  BY DEF NewReceipt, S
<1> HIDE DEF lines
<1>6. /\ debts \in Seq(DebtLine)
      /\ \A i \in DOMAIN debts : debts[i].line \in S /\ debts[i].amount <= debts[i].unrec
      /\ \A i \in DOMAIN debts, j \in DOMAIN debts : debts[i].line = debts[j].line => i = j
  BY <1>1, <1>2, <1>4, OfferFacts
<1> HIDE DEF debts
<1>7. DebtLines(ledger', debts)
  <2>1. DebtLines(ledger, debts)
    BY <1>2, <1>6 DEF DebtLines
  <2> QED BY <1>5, <2>1
<1>8. d \in ReceiptRecord /\ d.debts = debts
  BY <1>1, <1>6 DEF ReceiptRecord
<1> HIDE DEF d
<1>9. Grows(ledger, ledger') /\ Ledger(ledger')
  BY <1>1, <1>5, SameGrows
<1>10. ReceiptsType'
  BY <1>5, <1>7, <1>8, <1>9, ReceiptsKept
<1>11. ReconcilesType' /\ VouchersType'
  BY <1>5, <1>9, OthersKept
<1> QED BY <1>5, <1>9, <1>10, <1>11 DEF VouchersTypeOK

\* The record of a receipt, and the record with another field
LEMMA ReceiptRecordOf ==
    ASSUME VouchersTypeOK, NEW r \in Receipts
    PROVE  /\ receipt[r] \in ReceiptRecord /\ DebtLines(ledger, receipt[r].debts)
           /\ receipt \in [Receipts -> ReceiptRecord]
           /\ receipt[r].paid \in Payment /\ receipt[r].debts \in Seq(DebtLine)
           /\ receipt[r].owed \in Int
<1>1. receipt \in [Receipts -> ReceiptRecord] /\ DebtLines(ledger, receipt[r].debts)
  BY DEF VouchersTypeOK, ReceiptsType
<1> DEFINE d == receipt[r]
<1>2. d \in ReceiptRecord
  BY <1>1
<1> HIDE DEF d
<1>3. d.paid \in Payment /\ d.debts \in Seq(DebtLine) /\ d.owed \in Int
  BY <1>2 DEF ReceiptRecord
<1> QED BY <1>1, <1>2, <1>3 DEF d

LEMMA EditsType ==
    ASSUME VouchersTypeOK, NEW r \in Receipts, UNCHANGED voucher,
           (\E cash \in Amounts : EditCash(r, cash)) \/ Unlink(r)
    PROVE  VouchersTypeOK' /\ UNCHANGED ledger
<1>1. Ledger(ledger) /\ changes \in Nat /\ clean \in BOOLEAN
  BY DEF VouchersTypeOK
<1>2. UNCHANGED <<ledger, recon, clean>> /\ changes' = changes + 1
  BY DEF EditCash, Unlink, Edit
<1>3. Grows(ledger, ledger') /\ Ledger(ledger')
  BY <1>1, <1>2, SameGrows
<1>4. ReconcilesType' /\ VouchersType'
  BY <1>2, <1>3, OthersKept
<1>5. ReceiptsType'
  <2>0. receipt[r] \in ReceiptRecord /\ DebtLines(ledger, receipt[r].debts)
        /\ receipt \in [Receipts -> ReceiptRecord]
    BY ReceiptRecordOf
  <2>1. CASE \E cash \in Amounts : EditCash(r, cash)
    <3> PICK cash \in Amounts : EditCash(r, cash)
      BY <2>1
    <3> DEFINE d == [receipt[r] EXCEPT !.paid.cash = cash]
    <3>1. receipt' = [receipt EXCEPT ![r] = d]
      BY <2>0 DEF EditCash
    <3>2. cash \in Nat
      BY ReceiptsAssumption
    <3> DEFINE x == receipt[r]
               y == [x.paid EXCEPT !.cash = cash]
    <3>3. y \in Payment
      <4>1. x.paid \in Payment
        BY <2>0, ReceiptRecordOf
      <4> HIDE DEF x
      <4> QED BY <3>2, <4>1 DEF Payment
    <3>4. d = [x EXCEPT !.paid = y]
      OBVIOUS
    <3> HIDE DEF d, x, y
    <3>5. d \in ReceiptRecord /\ d.debts = x.debts
      BY <2>0, <3>3, <3>4 DEF ReceiptRecord, x
    <3>6. DebtLines(ledger', d.debts)
      BY <1>2, <2>0, <3>5 DEF x
    <3> QED BY <1>3, <3>1, <3>5, <3>6, ReceiptsKept
  <2>2. CASE Unlink(r)
    <3> DEFINE x == receipt[r]
               d == [x EXCEPT !.state = "deleted"]
    <3>1. receipt' = [receipt EXCEPT ![r] = d]
      BY <2>0, <2>2 DEF Unlink
    <3> HIDE DEF d, x
    <3>2. d \in ReceiptRecord /\ d.debts = x.debts
      BY <2>0 DEF ReceiptRecord, x, d
    <3>3. DebtLines(ledger', d.debts)
      BY <1>2, <2>0, <3>2 DEF x
    <3> QED BY <1>3, <3>1, <3>2, <3>3, ReceiptsKept
  <2> QED BY <2>1, <2>2
<1> QED BY <1>1, <1>2, <1>3, <1>4, <1>5 DEF VouchersTypeOK

LEMMA ReassignType ==
    ASSUME VouchersTypeOK, NEW r \in Receipts, ActionReasignCredit(r), UNCHANGED voucher
    PROVE  VouchersTypeOK'
<1> DEFINE x == receipt[r]
           credit == Sum3(x.paid)
           debts == Allocate(x.debts, credit)
           d == [x EXCEPT !.debts = debts]
<1>1. Ledger(ledger) /\ changes \in Nat /\ clean \in BOOLEAN
  BY DEF VouchersTypeOK
<1>2. /\ x \in ReceiptRecord /\ DebtLines(ledger, x.debts) /\ credit \in Nat
      /\ x.debts \in Seq(DebtLine) /\ receipt \in [Receipts -> ReceiptRecord]
  BY ReceiptRecordOf, PaymentFacts
<1>3. receipt' = [receipt EXCEPT ![r] = d] /\ UNCHANGED <<ledger, recon, changes, clean>>
  BY <1>2 DEF ActionReasignCredit
<1>4. Grows(ledger, ledger') /\ Ledger(ledger')
  BY <1>1, <1>3, SameGrows
<1> DEFINE old == x.debts
<1>5. /\ debts \in Seq(DebtLine) /\ DOMAIN debts = DOMAIN old
      /\ \A i \in DOMAIN old : /\ debts[i].line = old[i].line
                               /\ debts[i].unrec = old[i].unrec
                               /\ debts[i].amount <= old[i].unrec
  <2>1. old \in Seq(DebtLine) /\ debts = Allocate(old, credit)
    BY <1>2
  <2> HIDE DEF x, credit, old, debts
  <2> QED BY <1>2, <2>1, AllocateFacts
<1> HIDE DEF debts, d, old, credit
<1>6. DebtLines(ledger, debts)
  <2>1. DebtLines(ledger, old)
    BY <1>2 DEF old
  <2> QED BY <1>5, <2>1 DEF DebtLines
<1>7. d \in ReceiptRecord /\ d.debts = debts
  <2> HIDE DEF x
  <2> QED BY <1>2, <1>5 DEF ReceiptRecord, d
<1>8. ReceiptsType'
  <2>1. DebtLines(ledger', d.debts)
    BY <1>3, <1>6, <1>7
  <2> QED BY <1>3, <1>4, <1>7, <2>1, ReceiptsKept
<1>9. ReconcilesType' /\ VouchersType'
  BY <1>3, <1>4, OthersKept
<1> QED BY <1>1, <1>3, <1>4, <1>8, <1>9 DEF VouchersTypeOK

LEMMA ActionPostType ==
    ASSUME VouchersTypeOK, NEW r \in Receipts, ActionPost(r), UNCHANGED voucher
    PROVE  VouchersTypeOK'
<1> DEFINE x == receipt[r]
           lines == (Len(ledger) + 1)..Len(ledger')
           owed == Sum3(x.paid) - QuickMovesApplied(Applicable(x.debts), x).rest
           d == [x EXCEPT !.state = "posted", !.lines = lines, !.owed = owed]
           extra == ReceiptLines(Applicable(x.debts), x, r)
<1>1. /\ x \in ReceiptRecord /\ DebtLines(ledger, x.debts) /\ receipt \in [Receipts -> ReceiptRecord]
  BY ReceiptRecordOf
<1>2. /\ PostedOn(ledger, extra, ledger') /\ Worth(extra) \in Int /\ Worth(extra) = -receipt'[r].owed
  BY ReceiptPosted
<1>3. /\ receipt' = [receipt EXCEPT ![r] = d] /\ UNCHANGED <<recon, changes>>
      /\ clean' \in BOOLEAN /\ changes \in Nat /\ clean \in BOOLEAN
  BY <1>1 DEF ActionPost, VouchersTypeOK
<1>4. Grows(ledger, ledger') /\ Ledger(ledger') /\ Len(ledger') \in Int /\ Len(ledger) \in Nat
  <2>1. Grows(ledger, ledger') /\ Ledger(ledger') /\ Ledger(ledger)
    BY <1>2 DEF PostedOn, VouchersTypeOK
  <2>2. Len(ledger') \in Nat /\ Len(ledger) \in Nat
    BY <2>1, BookLines DEF Ledger
  <2> QED BY <2>1, <2>2
<1>5. lines \in SUBSET Nat
  <2> DEFINE a == Len(ledger)
             b == Len(ledger')
  <2>1. a \in Nat /\ b \in Int
    BY <1>4
  <2> HIDE DEF a, b
  <2>2. (a + 1)..b \in SUBSET Nat
    BY <2>1
  <2> QED BY <2>2 DEF a, b
<1>6. owed \in Int
  <2>1. Applicable(x.debts) \in Seq(DebtLine) /\ x.paid \in Payment
    BY <1>1, ApplicableDebts, ReceiptRecordOf
  <2> DEFINE due == Applicable(x.debts)
  <2> HIDE DEF x, due
  <2>2. due \in Seq(DebtLine)
    BY <2>1 DEF due
  <2>3. Sum3(x.paid) - QuickMovesApplied(due, x).rest \in Int
    BY <2>1, <2>2, ReceiptLinesFacts
  <2> QED BY <2>3 DEF due
<1> HIDE DEF lines, owed, extra, d
<1>7. d \in ReceiptRecord /\ d.debts = x.debts
  <2> HIDE DEF x
  <2> QED BY <1>1, <1>5, <1>6 DEF ReceiptRecord, d
<1>8. ReceiptsType'
  <2>1. DebtLines(ledger', d.debts)
    BY <1>1, <1>4, <1>7, GrowsKeeps
  <2> QED BY <1>3, <1>4, <1>7, <2>1, ReceiptsKept
<1>9. ReconcilesType' /\ VouchersType'
  BY <1>3, <1>4, OthersKept
<1> QED BY <1>3, <1>4, <1>8, <1>9 DEF VouchersTypeOK

\* cancel_receipt: a posted one is reverted.
LEMMA CancelWrites ==
    ASSUME VouchersTypeOK, NEW r \in Receipts, CancelReceipt(r)
    PROVE  /\ Grows(ledger, ledger') /\ Ledger(ledger')
           /\ receipt[r].state # "posted" => ledger' = ledger
           /\ receipt[r].state = "posted" =>
                 LET S == MoveLines(r)
                     extra == CounterLines(ledger, S)
                 IN /\ ledger' = Revert(ledger, S) /\ S \in SUBSET DOMAIN ledger
                    /\ Extended(ledger, extra) /\ PostedOn(ledger, extra, ledger')
                    /\ Worth(extra) = -Total(ledger, S)
<1>1. Ledger(ledger)
  BY DEF VouchersTypeOK
<1>2. CASE receipt[r].state = "posted"
  <2> DEFINE S == MoveLines(r)
             extra == CounterLines(ledger, S)
  <2>1. ledger' = Revert(ledger, S)
    BY <1>2 DEF CancelReceipt
  <2>2. S \in SUBSET DOMAIN ledger
    BY DEF MoveLines
  <2> HIDE DEF S
  <2>3. Extended(ledger, extra) /\ PostedOn(ledger, extra, Revert(ledger, S))
        /\ Worth(extra) = -Total(ledger, S)
    BY <1>1, <2>2, Reverted
  <2> HIDE DEF extra
  <2>4. PostedOn(ledger, extra, ledger')
    BY <2>1, <2>3
  <2>5. Grows(ledger, ledger') /\ Ledger(ledger')
    BY <2>4 DEF PostedOn
  <2> QED BY <1>2, <2>1, <2>2, <2>3, <2>4, <2>5 DEF S, extra
<1>3. CASE receipt[r].state # "posted"
  <2>1. ledger' = ledger
    BY <1>3 DEF CancelReceipt
  <2> QED BY <1>1, <1>3, <2>1, SameGrows
<1> QED BY <1>2, <1>3

LEMMA CancelType ==
    ASSUME VouchersTypeOK, NEW r \in Receipts, CancelReceipt(r), UNCHANGED voucher
    PROVE  VouchersTypeOK'
<1> DEFINE x == receipt[r]
           d == [x EXCEPT !.state = "cancel"]
<1>1. /\ x \in ReceiptRecord /\ DebtLines(ledger, x.debts) /\ receipt \in [Receipts -> ReceiptRecord]
  BY ReceiptRecordOf
<1>2. Grows(ledger, ledger') /\ Ledger(ledger')
  BY CancelWrites
<1>3. /\ receipt' = [receipt EXCEPT ![r] = d] /\ UNCHANGED <<recon, clean>>
      /\ changes' = changes + 1 /\ changes \in Nat /\ clean \in BOOLEAN
  BY <1>1 DEF CancelReceipt, Edit, VouchersTypeOK
<1> HIDE DEF x, d
<1>4. d \in ReceiptRecord /\ d.debts = x.debts
  BY <1>1 DEF ReceiptRecord, d
<1>5. ReceiptsType'
  <2>1. DebtLines(ledger', d.debts)
    BY <1>1, <1>2, <1>4, GrowsKeeps
  <2> QED BY <1>2, <1>3, <1>4, <2>1, ReceiptsKept
<1>6. ReconcilesType' /\ VouchersType'
  BY <1>2, <1>3, OthersKept
<1> QED BY <1>2, <1>3, <1>5, <1>6 DEF VouchersTypeOK

LEMMA ReconcileRecordOf ==
    ASSUME VouchersTypeOK, NEW k \in Reconciles
    PROVE  /\ recon[k] \in ReconcileRecord /\ DebtLines(ledger, recon[k].debts)
           /\ UsedCredits(ledger, recon[k].uacs) /\ recon \in [Reconciles -> ReconcileRecord]
BY DEF VouchersTypeOK, ReconcilesType

\* Credits come to what is not a debt.
LEMMA CreditsTotal ==
    ASSUME NEW book \in Book, NEW S \in SUBSET DOMAIN book, \A l \in S : book[l].debit = 0
    PROVE  -Total(book, S) \in Nat
<1> DEFINE f == Signed(book)
           g == [l \in S |-> book[l].credit]
<1>1. IsFiniteSet(S) /\ \A l \in S : book[l].credit \in Nat /\ book[l].debit = 0
  BY BookLines DEF MoveLine
<1>2. \A l \in S : f[l] = -g[l] /\ g[l] \in Nat
  BY <1>1 DEF Signed
<1> HIDE DEF f, g
<1>3. Whole(g, S) /\ SumOver(g, S) \in Nat
  BY <1>1, <1>2, SumPositive DEF Whole
<1>4. SumOver(f, S) = -SumOver(g, S)
  BY <1>1, <1>2, <1>3, SumNegative
<1> DEFINE x == SumOver(g, S)
<1>5. SumOver(f, S) = -x /\ x \in Nat
  BY <1>3, <1>4
<1> HIDE DEF x
<1>6. -SumOver(f, S) \in Nat
  BY <1>5
<1> QED BY <1>6 DEF Total, f

LEMMA NewReconcileType ==
    ASSUME VouchersTypeOK, NEW k \in Reconciles, NewReconcile(k), UNCHANGED voucher
    PROVE  VouchersTypeOK'
<1> DEFINE S == {l \in Lines(ledger) : ledger[l].credit > 0 /\ ledger[l].rec = 0}
           lines == SortedBy(S, DateOf)
           uacs == [i \in DOMAIN lines |-> [line |-> lines[i], original |-> ledger[lines[i]].credit,
                                            amount |-> ledger[lines[i]].credit]]
           O == OpenDebts(ledger)
           open == SortedBy(O, DateOf)
           debts == Offer(open, -Total(ledger, S))
           d == [state |-> "draft", uacs |-> uacs, debts |-> debts]
<1>1. /\ Ledger(ledger) /\ ledger \in Book /\ Len(ledger) \in Nat /\ DOMAIN ledger = 1..Len(ledger)
      /\ \A l \in DOMAIN ledger : ledger[l] \in MoveLine
  BY BookLines DEF VouchersTypeOK, Ledger
<1>2. \A l \in DOMAIN ledger : ledger[l].credit \in Nat /\ ledger[l].debit \in Nat /\ l \in Nat
  BY <1>1 DEF MoveLine
<1>3. /\ S \in SUBSET DOMAIN ledger
      /\ \A l \in S : OwnLine(ledger, l) /\ ledger[l].credit > 0 /\ ledger[l].debit = 0
  BY <1>1, <1>2 DEF Lines, OwnLine, Ledger
<1>4. O \in SUBSET DOMAIN ledger /\ \A l \in O : OwnLine(ledger, l) /\ ledger[l].debit > 0
  BY DEF OpenDebts, Lines, OwnLine
<1>5. recon' = [recon EXCEPT ![k] = d] /\ UNCHANGED <<ledger, receipt, changes, clean>>
  BY DEF NewReconcile
<1> HIDE DEF S, O
<1>6. \A l \in DOMAIN ledger : DateOf(l) \in Int
  <2>1. Len(Debts) \in Nat
    BY ReceiptsAssumption
  <2> QED BY <1>2, <2>1 DEF DateOf
<1>7. Enumerates(lines, S) /\ Enumerates(open, O)
  <2>1. S \in SUBSET Int /\ IsFiniteSet(S) /\ \A l \in S : DateOf(l) \in Int
    BY <1>1, <1>2, <1>3, <1>6, BookLines
  <2>2. O \in SUBSET Int /\ IsFiniteSet(O) /\ \A l \in O : DateOf(l) \in Int
    BY <1>1, <1>2, <1>4, <1>6, BookLines
  <2>3. Enumerates(lines, S)
    BY <2>1, SortedDate
  <2>4. Enumerates(open, O)
    BY <2>2, SortedDate
  <2> QED BY <2>3, <2>4
<1>8. -Total(ledger, S) \in Nat
  BY <1>1, <1>3, CreditsTotal
<1> HIDE DEF lines, open
<1>9. /\ debts \in Seq(DebtLine)
      /\ \A i \in DOMAIN debts : debts[i].line \in O /\ debts[i].amount <= debts[i].unrec
      /\ \A i \in DOMAIN debts, j \in DOMAIN debts : debts[i].line = debts[j].line => i = j
  BY <1>1, <1>4, <1>7, <1>8, OfferFacts
<1>10. DebtLines(ledger, debts)
  <2> HIDE DEF debts
  <2> QED BY <1>4, <1>9 DEF DebtLines
<1>11. /\ DOMAIN lines = 1..Len(lines) /\ Len(lines) \in Nat /\ \A i \in DOMAIN lines : lines[i] \in S
       /\ \A i \in DOMAIN lines, j \in DOMAIN lines : lines[i] = lines[j] => i = j
  <2>1. lines \in Seq(S) /\ \A i \in DOMAIN lines, j \in DOMAIN lines : lines[i] = lines[j] => i = j
    BY <1>7 DEF Enumerates
  <2> QED BY <2>1, SeqFacts
<1>12. UsedCredits(ledger, uacs)
  <2>1. ASSUME NEW i \in DOMAIN lines
        PROVE  /\ uacs[i] \in CreditLine /\ uacs[i].line = lines[i] /\ uacs[i].original > 0
               /\ uacs[i].amount <= uacs[i].original
    <3> DEFINE l == lines[i]
               c == ledger[l].credit
    <3>1. l \in Nat /\ c \in Nat /\ c > 0 /\ uacs[i] = [line |-> l, original |-> c, amount |-> c]
      BY <1>2, <1>3, <1>11
    <3> HIDE DEF l, c, uacs
    <3>2. uacs[i] \in CreditLine /\ uacs[i].line = l /\ uacs[i].original = c /\ uacs[i].amount = c
      BY <3>1 DEF CreditLine
    <3> QED BY <3>1, <3>2 DEF l
  <2>2. DOMAIN uacs = DOMAIN lines
    OBVIOUS
  <2>3. uacs \in Seq(CreditLine)
    <3> DEFINE N == Len(lines)
    <3>1. uacs = [i \in 1..N |-> uacs[i]]
      BY <1>11
    <3>2. \A i \in 1..N : uacs[i] \in CreditLine
      BY <1>11, <2>1
    <3>3. N \in Nat
      BY <1>11
    <3> HIDE DEF uacs, N
    <3> QED BY <3>1, <3>2, <3>3
  <2> HIDE DEF uacs
  <2> QED BY <1>3, <1>11, <2>1, <2>2, <2>3 DEF UsedCredits
<1> HIDE DEF uacs, debts
<1>13. d \in ReconcileRecord /\ d.uacs = uacs /\ d.debts = debts
  <2>1. uacs \in Seq(CreditLine)
    BY <1>12 DEF UsedCredits
  <2> QED BY <1>9, <2>1 DEF ReconcileRecord
<1> HIDE DEF d
<1>14. Grows(ledger, ledger') /\ Ledger(ledger')
  BY <1>1, <1>5, SameGrows
<1>15. ReconcilesType'
  <2>1. DebtLines(ledger', d.debts) /\ UsedCredits(ledger', d.uacs)
    BY <1>5, <1>10, <1>12, <1>13
  <2> QED BY <1>5, <1>13, <1>14, <2>1, ReconcilesKept
<1>16. ReceiptsType' /\ VouchersType'
  BY <1>5, <1>14, OthersKept
<1> QED BY <1>5, <1>14, <1>15, <1>16 DEF VouchersTypeOK

LEMMA EditCreditType ==
    ASSUME VouchersTypeOK, NEW k \in Reconciles, NEW i \in 1..Len(recon[k].uacs),
           NEW amount \in Amounts, EditCredit(k, i, amount), UNCHANGED voucher
    PROVE  VouchersTypeOK'
<1> DEFINE x == recon[k]
           old == x.uacs
           u == [old[i] EXCEPT !.amount = amount]
           uacs == [old EXCEPT ![i] = u]
           d == [x EXCEPT !.uacs = uacs]
<1>1. /\ Ledger(ledger) /\ x \in ReconcileRecord /\ DebtLines(ledger, x.debts)
      /\ UsedCredits(ledger, old) /\ recon \in [Reconciles -> ReconcileRecord]
  BY ReconcileRecordOf DEF VouchersTypeOK
<1>2. amount \in Nat /\ amount < old[i].amount /\ i \in DOMAIN old
  BY ReceiptsAssumption DEF EditCredit
<1>3. /\ UNCHANGED <<ledger, receipt, clean>> /\ changes' = changes + 1 /\ changes \in Nat
      /\ recon' = [recon EXCEPT ![k] = d] /\ clean \in BOOLEAN
  BY <1>1 DEF EditCredit, Edit, VouchersTypeOK
<1> HIDE DEF x
<1>4. /\ old \in Seq(CreditLine) /\ old[i] \in CreditLine /\ DOMAIN old = 1..Len(old)
      /\ Len(old) \in Nat /\ \A j \in DOMAIN old : old[j] \in CreditLine
  BY <1>1, <1>2, SeqFacts DEF UsedCredits
<1> HIDE DEF old
<1>5. u \in CreditLine /\ u.line = old[i].line /\ u.original = old[i].original /\ u.amount = amount
  <2> DEFINE y == old[i]
  <2>1. y \in CreditLine
    BY <1>4
  <2> HIDE DEF y
  <2>2. LET z == [y EXCEPT !.amount = amount]
        IN z \in CreditLine /\ z.line = y.line /\ z.original = y.original /\ z.amount = amount
    BY <1>2, <2>1 DEF CreditLine
  <2> QED BY <2>2 DEF y
<1> HIDE DEF u
<1>6. /\ uacs \in Seq(CreditLine) /\ DOMAIN uacs = DOMAIN old
      /\ \A j \in DOMAIN old : uacs[j] = IF j = i THEN u ELSE old[j]
  <2>1. DOMAIN uacs = DOMAIN old /\ \A j \in DOMAIN old : uacs[j] = IF j = i THEN u ELSE old[j]
    OBVIOUS
  <2>2. uacs = [j \in 1..Len(old) |-> uacs[j]]
    BY <1>4
  <2> HIDE DEF uacs
  <2>3. uacs \in Seq(CreditLine)
    BY <1>4, <1>5, <2>1, <2>2
  <2> QED BY <2>1, <2>3
<1> HIDE DEF uacs
<1>7. UsedCredits(ledger, uacs)
  <2>1. \A j \in DOMAIN old : /\ uacs[j].line = old[j].line /\ uacs[j].original = old[j].original
                              /\ uacs[j].amount <= uacs[j].original
    <3> TAKE j \in DOMAIN old
    <3>1. CASE j = i
      <4> DEFINE a == old[i].amount
                 o == old[i].original
      <4>1. a \in Nat /\ o \in Nat /\ amount < a /\ a <= o
        BY <1>1, <1>2, <1>4 DEF UsedCredits, CreditLine
      <4> HIDE DEF a, o
      <4>2. amount <= o
        BY <1>2, <4>1
      <4> QED BY <1>5, <1>6, <3>1, <4>2 DEF o
    <3>2. CASE j # i
      BY <1>1, <1>6, <3>2 DEF UsedCredits
    <3> QED BY <3>1, <3>2
  <2> QED BY <1>1, <1>6, <2>1 DEF UsedCredits
<1>8. d \in ReconcileRecord /\ d.uacs = uacs /\ d.debts = x.debts
  BY <1>1, <1>6 DEF ReconcileRecord
<1> HIDE DEF d
<1>9. Grows(ledger, ledger') /\ Ledger(ledger')
  BY <1>1, <1>3, SameGrows
<1>10. ReconcilesType'
  <2>1. DebtLines(ledger', d.debts) /\ UsedCredits(ledger', d.uacs)
    BY <1>1, <1>3, <1>7, <1>8
  <2> QED BY <1>3, <1>8, <1>9, <2>1, ReconcilesKept
<1>11. ReceiptsType' /\ VouchersType'
  BY <1>3, <1>9, OthersKept
<1> QED BY <1>3, <1>9, <1>10, <1>11 DEF VouchersTypeOK

LEMMA PostReconcileType ==
    ASSUME VouchersTypeOK, NEW k \in Reconciles, PostReconcile(k), UNCHANGED voucher
    PROVE  VouchersTypeOK'
<1> DEFINE x == recon[k]
           d == [x EXCEPT !.state = "posted"]
<1>1. /\ x \in ReconcileRecord /\ DebtLines(ledger, x.debts)
      /\ UsedCredits(ledger, x.uacs) /\ recon \in [Reconciles -> ReconcileRecord]
  BY ReconcileRecordOf
<1>2. Grows(ledger, ledger') /\ Ledger(ledger')
  BY ReconcilePosted DEF ReconcileWrites
<1>3. /\ UNCHANGED receipt /\ changes' \in Nat /\ clean' \in BOOLEAN
      /\ recon' = [recon EXCEPT ![k] = d]
  <2>1. changes \in Nat /\ clean \in BOOLEAN
    BY DEF VouchersTypeOK
  <2>2. UNCHANGED receipt /\ (UNCHANGED changes \/ changes' = changes + 1)
    BY Zenon DEF PostReconcile, Edit
  <2>3. recon' = [recon EXCEPT ![k].state = "posted"]
    BY Zenon DEF PostReconcile
  <2>4. recon' = [recon EXCEPT ![k] = d]
    BY <1>1, <2>3
  <2>5. clean' \in BOOLEAN
    <3>1. clean' = (/\ clean /\ UpToDate(Applicable(x.debts))
                    /\ \A i \in DOMAIN x.uacs :
                          /\ ledger[x.uacs[i].line].credit = x.uacs[i].original
                          /\ ledger[x.uacs[i].line].rec = 0)
      BY Zenon DEF PostReconcile
    <3> QED BY <3>1
  <2> QED BY <2>1, <2>2, <2>4, <2>5
<1> HIDE DEF x, d
<1>4. d \in ReconcileRecord /\ d.uacs = x.uacs /\ d.debts = x.debts
  BY <1>1 DEF ReconcileRecord, d
<1>5. ReconcilesType'
  <2>1. DebtLines(ledger', d.debts) /\ UsedCredits(ledger', d.uacs)
    BY <1>1, <1>2, <1>4, GrowsKeeps
  <2> QED BY <1>2, <1>3, <1>4, <2>1, ReconcilesKept
<1>6. ReceiptsType' /\ VouchersType'
  BY <1>2, <1>3, OthersKept
<1> QED BY <1>2, <1>3, <1>5, <1>6 DEF VouchersTypeOK

LEMMA VoucherRecordOf ==
    ASSUME VouchersTypeOK, NEW v \in VoucherIds
    PROVE  /\ voucher[v] \in VoucherRecord /\ voucher \in [VoucherIds -> VoucherRecord]
           /\ AssignedLines(ledger, voucher[v].type, voucher[v].lines)
           /\ voucher[v].amount \in Nat
<1>1. /\ voucher[v] \in VoucherRecord /\ voucher \in [VoucherIds -> VoucherRecord]
      /\ AssignedLines(ledger, voucher[v].type, voucher[v].lines)
  BY DEF VouchersTypeOK, VouchersType
<1>2. voucher[v].amount \in Nat
  BY <1>1 DEF VoucherRecord
<1> QED BY <1>1, <1>2

LEMMA NewVoucherType ==
    ASSUME VouchersTypeOK, NEW v \in VoucherIds, NEW type \in {"receipt", "payment"},
           NEW amount \in Amounts \ {0}, NewVoucher(v, type, amount)
    PROVE  VouchersTypeOK'
<1> DEFINE d == [state |-> "draft", type |-> type, amount |-> amount, lines |-> <<>>]
<1>1. voucher' = [voucher EXCEPT ![v] = d] /\ UNCHANGED <<ledger, receipt, recon, changes, clean>>
  BY DEF NewVoucher, vars
<1>2. d \in VoucherRecord /\ d.lines = <<>> /\ d.type = type
  <2>1. amount \in Nat
    BY ReceiptsAssumption
  <2> DEFINE none == <<>>
             Q == Seq(AssignedLine)
  <2>2. none \in Q
    OBVIOUS
  <2> HIDE DEF none, Q
  <2>3. LET x == [state |-> "draft", type |-> type, amount |-> amount, lines |-> none]
        IN /\ x \in [state : {"none", "draft", "posted"}, type : {"receipt", "payment"},
                     amount : Nat, lines : Q]
           /\ x.lines = none /\ x.type = type
    BY <2>1, <2>2
  <2> QED BY <2>3 DEF none, Q, VoucherRecord
<1> HIDE DEF d
<1>3. Ledger(ledger)
  BY DEF VouchersTypeOK
<1>4. Grows(ledger, ledger') /\ Ledger(ledger')
  BY <1>1, <1>3, SameGrows
<1>5. AssignedLines(ledger', d.type, d.lines)
  BY <1>2 DEF AssignedLines
<1>6. VouchersType'
  BY <1>1, <1>2, <1>4, <1>5, VouchersKept
<1>7. ReceiptsType' /\ ReconcilesType'
  BY <1>1, <1>4, OthersKept
<1> QED BY <1>1, <1>4, <1>6, <1>7 DEF VouchersTypeOK

\* The debits and credits of the lines a voucher looks at
LEMMA FiguresSum ==
    ASSUME ledger \in Book, NEW moves \in Seq(DOMAIN ledger)
    PROVE  /\ SumOf([i \in DOMAIN moves |-> ledger[moves[i]].debit]) \in Nat
           /\ SumOf([i \in DOMAIN moves |-> ledger[moves[i]].credit]) \in Nat
<1>1. /\ IsFiniteSet(DOMAIN moves)
      /\ \A i \in DOMAIN moves : ledger[moves[i]].debit \in Nat /\ ledger[moves[i]].credit \in Nat
  <2>1. \A l \in DOMAIN ledger : ledger[l].debit \in Nat /\ ledger[l].credit \in Nat
    BY BookLines DEF MoveLine
  <2>2. IsFiniteSet(DOMAIN moves) /\ \A i \in DOMAIN moves : moves[i] \in DOMAIN ledger
    BY SeqFacts
  <2> QED BY <2>1, <2>2
<1> DEFINE f == [i \in DOMAIN moves |-> ledger[moves[i]].debit]
           g == [i \in DOMAIN moves |-> ledger[moves[i]].credit]
           D == DOMAIN moves
<1>2. DOMAIN f = D /\ DOMAIN g = D /\ \A i \in D : f[i] \in Nat /\ g[i] \in Nat
  BY <1>1
<1> HIDE DEF f, g, D
<1>3. IsFiniteSet(D)
  BY <1>1 DEF D
<1>4. SumOver(f, D) \in Nat /\ SumOver(g, D) \in Nat
  BY <1>2, <1>3, SumPositive
<1>5. SumOf(f) \in Nat /\ SumOf(g) \in Nat
  BY <1>2, <1>4 DEF SumOf
<1> QED BY <1>5 DEF f, g

LEMMA ComputeDebtsType ==
    ASSUME VouchersTypeOK, NEW v \in VoucherIds, ActionComputeDebts(v)
    PROVE  VouchersTypeOK'
<1> DEFINE x == voucher[v]
           moves == MoveIds(x.type)
           amount(type) == IF x.type = type THEN x.amount ELSE 0
           debit == SumOf([i \in DOMAIN moves |-> ledger[moves[i]].debit])
           credit == SumOf([i \in DOMAIN moves |-> ledger[moves[i]].credit])
           lines == Compute(moves, amount("payment") + debit, amount("receipt") + credit)
           d == [x EXCEPT !.lines = lines]
<1>1. /\ voucher' = [voucher EXCEPT ![v].lines = lines]
      /\ UNCHANGED <<ledger, receipt, recon, changes, clean>>
  BY DEF ActionComputeDebts, vars
<1>2. /\ x \in VoucherRecord /\ voucher \in [VoucherIds -> VoucherRecord] /\ x.amount \in Nat
  BY VoucherRecordOf
<1>3. Ledger(ledger) /\ ledger \in Book
  BY DEF VouchersTypeOK, Ledger
<1> HIDE DEF x
<1>4. /\ moves \in Seq(DOMAIN ledger)
      /\ \A i \in DOMAIN moves : OfAccount(ledger, x.type, moves[i])
      /\ \A i \in DOMAIN moves, j \in DOMAIN moves : moves[i] = moves[j] => i = j
  BY <1>3, MoveIdsFacts
<1> HIDE DEF moves
<1>5. debit \in Nat /\ credit \in Nat
  BY <1>3, <1>4, FiguresSum
<1> HIDE DEF debit, credit
<1> DEFINE a == amount("payment") + debit
           b == amount("receipt") + credit
<1>6. a \in Nat /\ b \in Nat
  BY <1>2, <1>5
<1>7. ListsMoves(x.type, lines, moves)
  <2> HIDE DEF a, b
  <2>1. ListsMoves(x.type, Compute(moves, a, b), moves)
    BY <1>3, <1>4, <1>6, ComputeFacts
  <2> QED BY <2>1 DEF a, b
<1> HIDE DEF lines, a, b, amount
<1>8. AssignedLines(ledger, x.type, lines)
  <2>1. /\ lines \in Seq(AssignedLine) /\ Len(lines) <= Len(moves)
        /\ \A i \in DOMAIN lines : VoucherLineOK(ledger, x.type, lines[i]) /\ lines[i].line = moves[i]
    BY <1>7 DEF ListsMoves
  <2>2. \A i \in DOMAIN lines : i \in DOMAIN moves
    <3>1. /\ DOMAIN lines = 1..Len(lines) /\ Len(lines) \in Nat
          /\ DOMAIN moves = 1..Len(moves) /\ Len(moves) \in Nat
      BY <1>4, <2>1, SeqFacts
    <3> DEFINE m == Len(lines)
               n == Len(moves)
    <3>2. m \in Nat /\ n \in Nat /\ m <= n
      BY <2>1, <3>1
    <3> HIDE DEF m, n
    <3>3. \A i \in 1..m : i \in 1..n
      BY <3>2
    <3> QED BY <3>1, <3>3 DEF m, n
  <2>3. \A i \in DOMAIN lines, j \in DOMAIN lines : lines[i].line = lines[j].line => i = j
    BY <1>4, <2>1, <2>2
  <2> QED BY <2>1, <2>3 DEF AssignedLines
<1>9. voucher' = [voucher EXCEPT ![v] = d]
  BY <1>1, <1>2 DEF x
<1>10. d \in VoucherRecord /\ d.lines = lines /\ d.type = x.type
  BY <1>2, <1>8 DEF VoucherRecord, AssignedLines
<1> HIDE DEF d
<1>11. Grows(ledger, ledger') /\ Ledger(ledger')
  BY <1>1, <1>3, SameGrows
<1>12. VouchersType'
  <2>1. AssignedLines(ledger', d.type, d.lines)
    BY <1>1, <1>8, <1>10
  <2> QED BY <1>9, <1>10, <1>11, <2>1, VouchersKept
<1>13. ReceiptsType' /\ ReconcilesType'
  BY <1>1, <1>11, OthersKept
<1> QED BY <1>1, <1>11, <1>12, <1>13 DEF VouchersTypeOK

LEMMA MoveLineCreateType ==
    ASSUME VouchersTypeOK, NEW v \in VoucherIds, ActionMoveLineCreate(v)
    PROVE  VouchersTypeOK'
<1> DEFINE x == voucher[v]
           d == [x EXCEPT !.state = "posted"]
<1>1. /\ voucher' = [voucher EXCEPT ![v].state = "posted"]
      /\ UNCHANGED <<receipt, recon, changes>> /\ clean' \in BOOLEAN /\ changes \in Nat
  BY DEF ActionMoveLineCreate, VouchersTypeOK
<1>2. /\ x \in VoucherRecord /\ voucher \in [VoucherIds -> VoucherRecord]
      /\ AssignedLines(ledger, x.type, x.lines)
  BY VoucherRecordOf
<1>3. Grows(ledger, ledger') /\ Ledger(ledger')
  BY VoucherPosted DEF PostedOn
<1>4. voucher' = [voucher EXCEPT ![v] = d]
  BY <1>1, <1>2
<1> HIDE DEF x, d
<1>5. d \in VoucherRecord /\ d.lines = x.lines /\ d.type = x.type
  BY <1>2 DEF VoucherRecord, d
<1>6. VouchersType'
  <2>1. AssignedLines(ledger', d.type, d.lines)
    BY <1>2, <1>3, <1>5, GrowsKeeps
  <2> QED BY <1>3, <1>4, <1>5, <2>1, VouchersKept
<1>7. ReceiptsType' /\ ReconcilesType'
  BY <1>1, <1>3, OthersKept
<1> QED BY <1>1, <1>3, <1>6, <1>7 DEF VouchersTypeOK

\* The ledger with the invoices and bills
FirstLine(d) ==
    LET amounts == IF d.type = "receivable" THEN <<d.amount, 0>> ELSE <<0, d.amount>>
    IN [LineOf(amounts[1], amounts[2], "invoice") EXCEPT
          !.type = d.type, !.partner = d.partner, !.due = d.due]

LEMMA FirstLines ==
    ASSUME Init
    PROVE  /\ ledger \in Book /\ DOMAIN ledger = DOMAIN Debts /\ Ledger(ledger)
           /\ DOMAIN Debts = 1..Len(Debts) /\ Len(Debts) \in Nat
           /\ \A l \in DOMAIN Debts :
                 /\ Debts[l].type \in {"receivable", "payable"} /\ Debts[l].amount \in Nat
                 /\ ledger[l].type = Debts[l].type /\ ledger[l].partner = Debts[l].partner
                 /\ ledger[l].of = "invoice" /\ ledger[l].rec = 0 /\ ledger[l].full = FALSE
                 /\ ledger[l].debit - ledger[l].credit
                    = (IF Debts[l].type = "receivable" THEN Debts[l].amount ELSE -Debts[l].amount)
<1> DEFINE DebtType == [type : {"receivable", "payable"}, partner : Partners, due : Int, amount : Nat]
<1>1. /\ DOMAIN Debts = 1..Len(Debts) /\ Len(Debts) \in Nat
      /\ \A l \in DOMAIN Debts : Debts[l] \in DebtType
  <2>1. Debts \in Seq(DebtType)
    BY ReceiptsAssumption
  <2> HIDE DEF DebtType
  <2> QED BY <2>1, SeqFacts
<1>2. ledger = [l \in DOMAIN Debts |-> FirstLine(Debts[l])]
  BY DEF Init, FirstLine
<1>3. ASSUME NEW d \in DebtType
      PROVE  LET x == FirstLine(d)
             IN /\ x \in MoveLine
                /\ x.debit = 0 \/ x.credit = 0
                /\ x.type = d.type /\ x.partner = d.partner /\ x.of = "invoice"
                /\ x.rec = 0 /\ x.full = FALSE
                /\ d.type \in {"receivable", "payable"} /\ d.amount \in Nat
                /\ x.debit - x.credit = (IF d.type = "receivable" THEN d.amount ELSE -d.amount)
  <2>0. /\ d.type \in {"receivable", "payable"} /\ d.partner \in Partners
        /\ d.due \in Int /\ d.amount \in Nat /\ Customer \in Partners /\ "invoice" \in Documents
    BY ReceiptsAssumption DEF Documents
  <2> DEFINE y == LineOf(IF d.type = "receivable" THEN d.amount ELSE 0,
                         IF d.type = "receivable" THEN 0 ELSE d.amount, "invoice")
             x == FirstLine(d)
  <2>1. x = [y EXCEPT !.type = d.type, !.partner = d.partner, !.due = d.due]
    <3>1. CASE d.type = "receivable"
      BY <3>1 DEF FirstLine
    <3>2. CASE d.type # "receivable"
      BY <3>2 DEF FirstLine
    <3> QED BY <3>1, <3>2
  <2>2. /\ y \in MoveLine /\ y.of = "invoice" /\ y.rec = 0 /\ y.full = FALSE
        /\ y.debit = (IF d.type = "receivable" THEN d.amount ELSE 0)
        /\ y.credit = (IF d.type = "receivable" THEN 0 ELSE d.amount)
    <3> DEFINE a == IF d.type = "receivable" THEN d.amount ELSE 0
               b == IF d.type = "receivable" THEN 0 ELSE d.amount
    <3>1. a \in Nat /\ b \in Nat
      BY <2>0
    <3> HIDE DEF a, b
    <3>2. LET z == LineOf(a, b, "invoice")
          IN /\ z \in MoveLine /\ z.of = "invoice" /\ z.rec = 0 /\ z.full = FALSE
             /\ z.debit = a /\ z.credit = b
      BY <2>0, <3>1 DEF LineOf, MoveLine
    <3> QED BY <3>2 DEF a, b
  <2> HIDE DEF x, y
  <2>3. /\ x \in MoveLine /\ x.of = "invoice" /\ x.rec = 0 /\ x.full = FALSE
        /\ x.debit = y.debit /\ x.credit = y.credit
        /\ x.type = d.type /\ x.partner = d.partner
    BY <2>0, <2>1, <2>2 DEF MoveLine
  <2>4. /\ x.debit = 0 \/ x.credit = 0
        /\ x.debit - x.credit = (IF d.type = "receivable" THEN d.amount ELSE -d.amount)
    BY <2>0, <2>2, <2>3
  <2> QED BY <2>0, <2>3, <2>4 DEF x
<1> HIDE DEF DebtType
<1>4. \A l \in DOMAIN Debts :
        LET d == Debts[l]
            x == ledger[l]
        IN /\ x \in MoveLine
           /\ x.debit = 0 \/ x.credit = 0
           /\ x.type = d.type /\ x.partner = d.partner /\ x.of = "invoice"
           /\ x.rec = 0 /\ x.full = FALSE
           /\ d.type \in {"receivable", "payable"} /\ d.amount \in Nat
           /\ x.debit - x.credit = (IF d.type = "receivable" THEN d.amount ELSE -d.amount)
  <2> TAKE l \in DOMAIN Debts
  <2>1. Debts[l] \in DebtType /\ ledger[l] = FirstLine(Debts[l])
    BY <1>1, <1>2
  <2> QED BY <1>3, <2>1
<1>5. ledger \in Book /\ DOMAIN ledger = DOMAIN Debts
  <2> DEFINE N == Len(Debts)
  <2>1. ledger = [l \in 1..N |-> ledger[l]] /\ DOMAIN ledger = 1..N
    BY <1>1, <1>2
  <2>3. N \in Nat /\ DOMAIN Debts = 1..N
    BY <1>1
  <2> HIDE DEF N
  <2>2. \A l \in 1..N : ledger[l] \in MoveLine
    <3>1. \A l \in DOMAIN Debts : ledger[l] \in MoveLine
      <4> TAKE l \in DOMAIN Debts
      <4> DEFINE d == Debts[l]
                 x == ledger[l]
      <4>1. d \in DebtType /\ x = FirstLine(d)
        BY <1>1, <1>2
      <4> HIDE DEF d, x
      <4>2. FirstLine(d) \in MoveLine
        BY <1>3, <4>1
      <4> QED BY <4>1, <4>2 DEF x
    <3> QED BY <2>3, <3>1
  <2>4. ledger \in Seq(MoveLine)
    BY <2>1, <2>2, <2>3
  <2> QED BY <1>1, <2>1, <2>4 DEF Book, N
<1>6. Ledger(ledger)
  <2>1. "invoice" \notin Receipts
    BY ReceiptsAssumption
  <2> QED BY <1>4, <1>5, <2>1 DEF Ledger
<1> QED BY <1>1, <1>4, <1>5, <1>6

LEMMA VouchersInitType ==
    ASSUME VoucherInit
    PROVE  VouchersTypeOK
<1>1. Ledger(ledger)
  <2>1. Init
    BY DEF VoucherInit
  <2> QED BY <2>1, FirstLines
<1> DEFINE none == <<>>
           nothing == {}
<1>2. ReceiptsType
  <2> DEFINE paid == [cash |-> 0, bt |-> 0, qm |-> 0]
             d == [state |-> "none", paid |-> paid, lines |-> nothing, owed |-> 0, debts |-> none]
  <2>1. none \in Seq(DebtLine) /\ nothing \in SUBSET Nat /\ paid \in Payment /\ DebtLines(ledger, none)
    BY DEF Payment, DebtLines
  <2>2. receipt = [r \in Receipts |-> d]
    BY DEF VoucherInit, Init
  <2> HIDE DEF paid, none, nothing
  <2>3. d \in ReceiptRecord /\ d.debts = none
    BY <2>1 DEF ReceiptRecord
  <2> HIDE DEF d
  <2> QED BY <2>1, <2>2, <2>3 DEF ReceiptsType
<1>3. ReconcilesType
  <2> DEFINE d == [state |-> "none", uacs |-> none, debts |-> none]
  <2>1. /\ none \in Seq(DebtLine) /\ none \in Seq(CreditLine) /\ DebtLines(ledger, none)
        /\ UsedCredits(ledger, none)
    BY DEF DebtLines, UsedCredits
  <2>2. recon = [k \in Reconciles |-> d]
    BY DEF VoucherInit, Init
  <2> HIDE DEF none
  <2>3. d \in ReconcileRecord /\ d.debts = none /\ d.uacs = none
    BY <2>1 DEF ReconcileRecord
  <2> HIDE DEF d
  <2> QED BY <2>1, <2>2, <2>3 DEF ReconcilesType
<1>4. VouchersType
  <2> DEFINE d == [state |-> "none", type |-> "receipt", amount |-> 0, lines |-> none]
  <2>1. none \in Seq(AssignedLine) /\ AssignedLines(ledger, "receipt", none)
    BY DEF AssignedLines
  <2>2. voucher = [v \in VoucherIds |-> d]
    BY DEF VoucherInit
  <2> HIDE DEF none
  <2>3. d \in VoucherRecord /\ d.lines = none /\ d.type = "receipt"
    BY <2>1 DEF VoucherRecord
  <2> HIDE DEF d
  <2> QED BY <2>1, <2>2, <2>3 DEF VouchersType
<1>5. changes \in Nat /\ clean \in BOOLEAN
  BY DEF VoucherInit, Init
<1> QED BY <1>1, <1>2, <1>3, <1>4, <1>5 DEF VouchersTypeOK

LEMMA VouchersTypeNext ==
    ASSUME VouchersTypeOK, [VoucherNext]_vvars
    PROVE  VouchersTypeOK'
<1>1. CASE UNCHANGED vvars
  <2>1. UNCHANGED <<ledger, receipt, recon, changes, clean, voucher>>
    BY <1>1 DEF vvars, vars
  <2>2. Ledger(ledger)
    BY DEF VouchersTypeOK
  <2>3. Grows(ledger, ledger') /\ Ledger(ledger')
    BY <2>1, <2>2, SameGrows
  <2>4. ReceiptsType' /\ ReconcilesType' /\ VouchersType'
    BY <2>1, <2>3, OthersKept
  <2> QED BY <2>1, <2>3, <2>4 DEF VouchersTypeOK
<1>2. ASSUME NEW r \in Receipts, UNCHANGED voucher,
             \/ \E paid \in Payments : NewReceipt(r, paid)
             \/ \E cash \in Amounts : EditCash(r, cash)
             \/ ActionReasignCredit(r) \/ ActionPost(r) \/ CancelReceipt(r) \/ Unlink(r)
      PROVE  VouchersTypeOK'
  BY <1>2, NewReceiptType, EditsType, ReassignType, ActionPostType, CancelType
<1>3. ASSUME NEW k \in Reconciles, UNCHANGED voucher,
             \/ NewReconcile(k) \/ PostReconcile(k)
             \/ \E i \in 1..Len(recon[k].uacs), a \in Amounts : EditCredit(k, i, a)
      PROVE  VouchersTypeOK'
  BY <1>3, NewReconcileType, PostReconcileType, EditCreditType
<1>4. ASSUME NEW v \in VoucherIds,
             \/ \E type \in {"receipt", "payment"}, a \in Amounts \ {0} : NewVoucher(v, type, a)
             \/ ActionComputeDebts(v) \/ ActionMoveLineCreate(v)
      PROVE  VouchersTypeOK'
  BY <1>4, NewVoucherType, ComputeDebtsType, MoveLineCreateType
<1> QED BY <1>1, <1>2, <1>3, <1>4 DEF VoucherNext, Next

\* What the documents hold: the debts of a receipt and of a reconciliation are
\* different open invoices of the customer, the credits of a reconciliation
\* different credits, and the lines of a voucher different lines of its account,
\* also after the ledger went on (the one2many lines of the documents).
THEOREM VouchersTyped == VoucherSpec => []VouchersTypeOK
<1>1. VoucherInit => VouchersTypeOK
  BY VouchersInitType
<1>2. VouchersTypeOK /\ [VoucherNext]_vvars => VouchersTypeOK'
  BY VouchersTypeNext
<1> QED BY <1>1, <1>2, PTL DEF VoucherSpec

-----------------------------------------------------------------------------
(* The balance follows the documents.                                      *)

\* The lines of an account, and those of a document
TypeClass(type) == {type} \X Partners \X Documents
OfClass(r) == {"receivable", "payable"} \X Partners \X {r}
TypeTotal(book, type) == Total(book, ClassOf(book, TypeClass(type)))
OfTotal(book, r) == Total(book, ClassOf(book, OfClass(r)))

LEMMA Classes ==
    ASSUME NEW book \in Book
    PROVE  /\ \A type : ClassOf(book, TypeClass(type)) = {l \in DOMAIN book : book[l].type = type}
           /\ \A r : ClassOf(book, OfClass(r)) = {l \in DOMAIN book : book[l].of = r}
<1>1. ASSUME NEW l \in DOMAIN book
      PROVE  /\ book[l].type \in {"receivable", "payable"} /\ book[l].partner \in Partners
             /\ book[l].of \in Documents
  <2> DEFINE x == book[l]
  <2>1. x \in MoveLine
    BY BookLines
  <2> HIDE DEF x
  <2>2. x.type \in {"receivable", "payable"} /\ x.partner \in Partners /\ x.of \in Documents
    BY <2>1 DEF MoveLine
  <2> QED BY <2>2 DEF x
<1>2. ASSUME NEW l \in DOMAIN book
      PROVE  /\ \A type : Attributes(book[l]) \in TypeClass(type) <=> book[l].type = type
             /\ \A r : Attributes(book[l]) \in OfClass(r) <=> book[l].of = r
  <2> DEFINE t == book[l].type
             p == book[l].partner
             o == book[l].of
  <2>1. /\ t \in {"receivable", "payable"} /\ p \in Partners /\ o \in Documents
        /\ Attributes(book[l]) = <<t, p, o>>
    BY <1>1 DEF Attributes
  <2> HIDE DEF t, p, o
  <2>2. \A type : <<t, p, o>> \in TypeClass(type) <=> t = type
    BY <2>1 DEF TypeClass
  <2>3. \A r : <<t, p, o>> \in OfClass(r) <=> o = r
    BY <2>1 DEF OfClass
  <2> QED BY <2>1, <2>2, <2>3 DEF t, o
<1> QED BY <1>2 DEF ClassOf

\* What a posting adds to a kind of lines
LEMMA PostedClass ==
    ASSUME NEW book, Ledger(book), NEW extra, Extended(book, extra), NEW c, PostedOn(book, extra, c),
           NEW A
    PROVE  /\ (\A k \in DOMAIN extra : Attributes(extra[k]) \in A)
              => Total(c, ClassOf(c, A)) = Total(book, ClassOf(book, A)) + Worth(extra)
           /\ (\A k \in DOMAIN extra : Attributes(extra[k]) \notin A)
              => Total(c, ClassOf(c, A)) = Total(book, ClassOf(book, A))
<1> DEFINE S == ClassOf(c, A)
           m == Len(book)
           n == Len(extra)
           t == Total(book, ClassOf(book, A))
<1>1. /\ Len(c) = m + n /\ DOMAIN c = 1..(m + n) /\ DOMAIN book = 1..m /\ DOMAIN extra = 1..n
      /\ m \in Nat /\ n \in Nat /\ c \in Book
      /\ \A l \in DOMAIN book : Alike(book[l], c[l])
      /\ \A k \in 1..n : Alike(extra[k], c[m + k])
  <2>1. DOMAIN extra = 1..n /\ n \in Nat
    BY SeqFacts DEF Extended
  <2>2. m \in Nat
    BY BookLines DEF Ledger
  <2>3. Len(c) = m + n /\ DOMAIN c = 1..Len(c)
    BY DEF PostedOn
  <2>4. DOMAIN c = 1..(m + n)
    BY <2>3
  <2> QED BY <2>1, <2>2, <2>3, <2>4 DEF PostedOn, Ledger
<1>2. \A l \in DOMAIN book : Attributes(book[l]) = Attributes(c[l])
  BY <1>1 DEF Alike, Attributes
<1>3. \A k \in 1..n : Attributes(extra[k]) = Attributes(c[m + k])
  BY <1>1 DEF Alike, Attributes
<1> HIDE DEF m, n
<1>4. S \in SUBSET DOMAIN c /\ S \cap DOMAIN book = ClassOf(book, A) /\ DOMAIN book \subseteq DOMAIN c
  <2>1. DOMAIN book \subseteq DOMAIN c
    BY <1>1
  <2> QED BY <1>2, <2>1 DEF ClassOf
<1>5. \A l \in NewOf(book, c) : \E k \in 1..n : l = m + k
  <2> TAKE l \in NewOf(book, c)
  <2> DEFINE k == l - m
  <2>1. l \in DOMAIN c /\ l \notin DOMAIN book
    BY DEF NewOf
  <2>2. k \in 1..n /\ l = m + k
    BY <1>1, <2>1
  <2> HIDE DEF k
  <2> QED BY <2>2
<1> HIDE DEF S
<1>6. /\ Total(c, S) = t + Total(c, S \cap NewOf(book, c)) /\ t \in Int
  BY <1>4, PostedTotal
<1>7. ASSUME \A k \in DOMAIN extra : Attributes(extra[k]) \in A
      PROVE  Total(c, S) = t + Worth(extra)
  <2>1. \A k \in 1..n : Attributes(c[m + k]) \in A
    BY <1>1, <1>3, <1>7
  <2>2. NewOf(book, c) \subseteq S
    BY <1>5, <2>1 DEF S, ClassOf, NewOf
  <2>3. S \cap NewOf(book, c) = NewOf(book, c)
    BY <2>2
  <2>4. Total(c, NewOf(book, c)) = Worth(extra)
    BY NewTotal DEF Worth
  <2> QED BY <1>6, <2>3, <2>4
<1>8. ASSUME \A k \in DOMAIN extra : Attributes(extra[k]) \notin A
      PROVE  Total(c, S) = t
  <2>1. \A k \in 1..n : Attributes(c[m + k]) \notin A
    BY <1>1, <1>3, <1>8
  <2>2. S \cap NewOf(book, c) = {}
    BY <1>5, <2>1 DEF S, ClassOf
  <2>3. Total(c, {}) = 0
    BY SumEmpty DEF Total
  <2>4. Total(c, S) = t + 0
    BY <1>6, <2>2, <2>3
  <2> HIDE DEF t
  <2>5. t + 0 = t
    BY <1>6
  <2> QED BY <2>4, <2>5
<1> QED BY <1>7, <1>8 DEF S, t

\* One value of a sum changes.
LEMMA SumChange ==
    ASSUME NEW S, IsFiniteSet(S), NEW f, NEW g, Whole(f, S), Whole(g, S), NEW x \in S,
           \A y \in S : y # x => g[y] = f[y]
    PROVE  /\ SumOver(g, S) = SumOver(f, S) - f[x] + g[x]
           /\ SumOver(f, S) \in Int /\ SumOver(g, S) \in Int
<1> DEFINE T == S \ {x}
           a == SumOver(f, T)
<1>1. SumOver(f, S) = f[x] + SumOver(f, T) /\ SumOver(g, S) = g[x] + SumOver(g, T)
  BY SumRemove
<1>2. IsFiniteSet(T) /\ Whole(f, T) /\ \A y \in T : f[y] = g[y]
  <2>1. IsFiniteSet(T)
    BY FS_Subset
  <2> QED BY <2>1 DEF Whole
<1> HIDE DEF T
<1>3. SumOver(f, T) = SumOver(g, T) /\ a \in Int
  BY <1>2, SumSame, SumWhole
<1> DEFINE p == f[x]
           q == g[x]
<1>4. p \in Int /\ q \in Int /\ SumOver(f, S) = p + a /\ SumOver(g, S) = q + a
  BY <1>1, <1>3 DEF Whole
<1> HIDE DEF p, q, a
<1>5. q + a = (p + a) - p + q /\ p + a \in Int /\ q + a \in Int
  BY <1>3, <1>4
<1> QED BY <1>4, <1>5 DEF p, q

\* What the posted receipts have paid
ReceiptsPaid ==
    SumOver([r \in Receipts |-> receipt[r].owed], {r \in Receipts : receipt[r].state = "posted"})
OwedOf(d) == IF d.state = "posted" THEN d.owed ELSE 0
PaidOf(d, type) == IF d.state = "posted" /\ d.type = type THEN d.amount ELSE 0

PaidSum(docs) == SumOver([r \in Receipts |-> OwedOf(docs[r])], Receipts)

LEMMA ReceiptsPaidSum ==
    ASSUME receipt \in [Receipts -> ReceiptRecord]
    PROVE  ReceiptsPaid = PaidSum(receipt)
<1> DEFINE f == [r \in Receipts |-> receipt[r].owed]
           g == [r \in Receipts |-> OwedOf(receipt[r])]
           T == {r \in Receipts : receipt[r].state = "posted"}
<1>1. \A r \in Receipts : f[r] \in Int
  BY DEF ReceiptRecord
<1>2. /\ T \in SUBSET Receipts /\ \A r \in T : g[r] = f[r]
      /\ \A r \in Receipts \ T : g[r] = 0
  BY DEF OwedOf
<1>3. Whole(f, T) /\ IsFiniteSet(Receipts)
  BY <1>1, ReceiptsAssumption DEF Whole
<1> HIDE DEF f, g, T
<1>4. SumOver(g, Receipts) = SumOver(f, T)
  BY <1>2, <1>3, SumFilter
<1> QED BY <1>4 DEF ReceiptsPaid, PaidSum, f, g, T

LEMMA PaidSumChange ==
    ASSUME NEW docs \in [Receipts -> ReceiptRecord], NEW r \in Receipts, NEW d \in ReceiptRecord
    PROVE  /\ PaidSum([docs EXCEPT ![r] = d]) = PaidSum(docs) - OwedOf(docs[r]) + OwedOf(d)
           /\ PaidSum(docs) \in Int /\ OwedOf(docs[r]) \in Int /\ OwedOf(d) \in Int
<1> DEFINE new == [docs EXCEPT ![r] = d]
           f == [q \in Receipts |-> OwedOf(docs[q])]
           g == [q \in Receipts |-> OwedOf(new[q])]
<1>1. \A x \in ReceiptRecord : OwedOf(x) \in Int
  BY DEF OwedOf, ReceiptRecord
<1>2. new[r] = d /\ \A q \in Receipts : new[q] \in ReceiptRecord /\ (q # r => new[q] = docs[q])
  OBVIOUS
<1> HIDE DEF new
<1>3. /\ \A q \in Receipts : f[q] \in Int /\ g[q] \in Int /\ (q # r => g[q] = f[q])
      /\ f[r] = OwedOf(docs[r]) /\ g[r] = OwedOf(d)
  BY <1>1, <1>2
<1>4. Whole(f, Receipts) /\ Whole(g, Receipts) /\ IsFiniteSet(Receipts)
  BY <1>3, ReceiptsAssumption DEF Whole
<1> HIDE DEF f, g
<1>5. SumOver(g, Receipts) = SumOver(f, Receipts) - f[r] + g[r] /\ SumOver(f, Receipts) \in Int
  BY <1>3, <1>4, SumChange
<1>6. OwedOf(docs[r]) \in Int /\ OwedOf(d) \in Int
  BY <1>1
<1> QED BY <1>3, <1>5, <1>6 DEF PaidSum, f, g, new

\* What the posted vouchers of a type have paid
VoucherSum(docs, type) == SumOver([v \in VoucherIds |-> PaidOf(docs[v], type)], VoucherIds)

LEMMA PaidBySum ==
    ASSUME voucher \in [VoucherIds -> VoucherRecord], NEW type
    PROVE  PaidBy(type) = VoucherSum(voucher, type)
<1> DEFINE f == [v \in VoucherIds |-> voucher[v].amount]
           g == [v \in VoucherIds |-> PaidOf(voucher[v], type)]
           T == {v \in VoucherIds : voucher[v].state = "posted" /\ voucher[v].type = type}
<1>1. \A v \in VoucherIds : f[v] \in Int
  BY DEF VoucherRecord
<1>2. /\ T \in SUBSET VoucherIds /\ \A v \in T : g[v] = f[v]
      /\ \A v \in VoucherIds \ T : g[v] = 0
  BY DEF PaidOf
<1>3. Whole(f, T) /\ IsFiniteSet(VoucherIds)
  BY <1>1, VouchersAssumption DEF Whole
<1> HIDE DEF f, g, T
<1>4. SumOver(g, VoucherIds) = SumOver(f, T)
  BY <1>2, <1>3, SumFilter
<1> QED BY <1>4 DEF PaidBy, VoucherSum, f, g, T

LEMMA VoucherSumChange ==
    ASSUME NEW docs \in [VoucherIds -> VoucherRecord], NEW v \in VoucherIds, NEW d \in VoucherRecord,
           NEW type
    PROVE  /\ VoucherSum([docs EXCEPT ![v] = d], type)
              = VoucherSum(docs, type) - PaidOf(docs[v], type) + PaidOf(d, type)
           /\ VoucherSum(docs, type) \in Int /\ PaidOf(docs[v], type) \in Int /\ PaidOf(d, type) \in Int
<1> DEFINE new == [docs EXCEPT ![v] = d]
           f == [q \in VoucherIds |-> PaidOf(docs[q], type)]
           g == [q \in VoucherIds |-> PaidOf(new[q], type)]
<1>1. \A x \in VoucherRecord : PaidOf(x, type) \in Int
  BY DEF PaidOf, VoucherRecord
<1>2. new[v] = d /\ \A q \in VoucherIds : new[q] \in VoucherRecord /\ (q # v => new[q] = docs[q])
  OBVIOUS
<1> HIDE DEF new
<1>3. /\ \A q \in VoucherIds : f[q] \in Int /\ g[q] \in Int /\ (q # v => g[q] = f[q])
      /\ f[v] = PaidOf(docs[v], type) /\ g[v] = PaidOf(d, type)
  BY <1>1, <1>2
<1>4. Whole(f, VoucherIds) /\ Whole(g, VoucherIds) /\ IsFiniteSet(VoucherIds)
  BY <1>3, VouchersAssumption DEF Whole
<1> HIDE DEF f, g
<1>5. SumOver(g, VoucherIds) = SumOver(f, VoucherIds) - f[v] + g[v] /\ SumOver(f, VoucherIds) \in Int
  BY <1>3, <1>4, SumChange
<1>6. PaidOf(docs[v], type) \in Int /\ PaidOf(d, type) \in Int
  BY <1>1
<1> QED BY <1>3, <1>5, <1>6 DEF VoucherSum, f, g, new

\* The account totals are what the documents say,
Balanced(book, docs, vouchers) ==
    /\ TypeTotal(book, "receivable")
       = Owed("receivable") - VoucherSum(vouchers, "receipt") - PaidSum(docs)
    /\ TypeTotal(book, "payable") = VoucherSum(vouchers, "payment") - Owed("payable")
\* and a receipt has written what it has paid.
Booked(book, d, r) ==
    /\ d.state \in {"none", "draft", "deleted"} => OfTotal(book, r) = 0
    /\ d.state = "posted" => OfTotal(book, r) = -d.owed
BalanceInv ==
    clean => /\ Balanced(ledger, receipt, voucher)
             /\ \A r \in Receipts : Booked(ledger, receipt[r], r)

\* The invoices and bills
LEMMA DebtsFacts ==
    /\ DOMAIN Debts = 1..Len(Debts) /\ Len(Debts) \in Nat /\ IsFiniteSet(DOMAIN Debts)
    /\ \A l \in DOMAIN Debts : /\ Debts[l].type \in {"receivable", "payable"}
                              /\ Debts[l].partner \in Partners
                              /\ Debts[l].due \in Int /\ Debts[l].amount \in Nat
<1> DEFINE DebtType == [type : {"receivable", "payable"}, partner : Partners, due : Int, amount : Nat]
           n == Len(Debts)
<1>1. Debts \in Seq(DebtType)
  BY ReceiptsAssumption
<1>2. \A d \in DebtType : /\ d.type \in {"receivable", "payable"} /\ d.partner \in Partners
                          /\ d.due \in Int /\ d.amount \in Nat
  OBVIOUS
<1> HIDE DEF DebtType
<1>3. DOMAIN Debts = 1..n /\ n \in Nat /\ \A l \in DOMAIN Debts : Debts[l] \in DebtType
  BY <1>1, SeqFacts
<1> HIDE DEF n
<1>4. IsFiniteSet(DOMAIN Debts)
  BY <1>3, FS_Interval
<1> QED BY <1>2, <1>3, <1>4 DEF n

LEMMA OwedWhole ==
    ASSUME NEW type
    PROVE  Owed(type) \in Int
<1> DEFINE f == [i \in DOMAIN Debts |-> IF Debts[i].type = type THEN Debts[i].amount ELSE 0]
<1>1. Whole(f, DOMAIN Debts) /\ IsFiniteSet(DOMAIN Debts)
  BY DebtsFacts DEF Whole
<1>2. DOMAIN f = DOMAIN Debts
  OBVIOUS
<1> HIDE DEF f
<1>3. SumOver(f, DOMAIN Debts) \in Int
  BY <1>1, SumWhole
<1> QED BY <1>2, <1>3 DEF Owed, SumOf, f

LEMMA ClassWhole ==
    ASSUME NEW book \in Book
    PROVE  \A A : Total(book, ClassOf(book, A)) \in Int
<1> TAKE A
<1> DEFINE S == ClassOf(book, A)
           f == Signed(book)
<1>1. S \in SUBSET DOMAIN book
  BY DEF ClassOf
<1>2. Whole(f, S)
  BY <1>1, BookLines DEF Whole, Signed, MoveLine
<1> HIDE DEF S, f
<1>3. IsFiniteSet(S)
  BY <1>1, BookLines
<1>4. SumOver(f, S) \in Int
  BY <1>2, <1>3, SumWhole
<1> QED BY <1>4 DEF Total, S, f

\* A receipt changes, and with it what is written.
LEMMA ReceiptStep ==
    ASSUME VouchersTypeOK, BalanceInv, clean, NEW r \in Receipts, NEW d \in ReceiptRecord, NEW book,
           TypeTotal(book, "receivable")
              = TypeTotal(ledger, "receivable") + OwedOf(receipt[r]) - OwedOf(d),
           TypeTotal(book, "payable") = TypeTotal(ledger, "payable"),
           \A q \in Receipts \ {r} : OfTotal(book, q) = OfTotal(ledger, q),
           Booked(book, d, r)
    PROVE  /\ Balanced(book, [receipt EXCEPT ![r] = d], voucher)
           /\ \A q \in Receipts : Booked(book, [receipt EXCEPT ![r] = d][q], q)
<1> DEFINE docs == [receipt EXCEPT ![r] = d]
           a == TypeTotal(ledger, "receivable")
           o == Owed("receivable")
           v == VoucherSum(voucher, "receipt")
           p == PaidSum(receipt)
           x == OwedOf(receipt[r])
           y == OwedOf(d)
<1>0. receipt \in [Receipts -> ReceiptRecord] /\ receipt[r] \in ReceiptRecord
  BY ReceiptRecordOf
<1>1. PaidSum(docs) = p - x + y /\ p \in Int /\ x \in Int /\ y \in Int
  BY <1>0, PaidSumChange
<1>2. /\ Balanced(ledger, receipt, voucher)
      /\ \A q \in Receipts : Booked(ledger, receipt[q], q)
  BY DEF BalanceInv
<1>3. a = o - v - p
  BY <1>2 DEF Balanced
<1>4. v \in Int
  <2>1. voucher \in [VoucherIds -> VoucherRecord]
    BY DEF VouchersTypeOK, VouchersType
  <2>2. VoucherIds = {} \/ \E k \in VoucherIds : TRUE
    OBVIOUS
  <2>3. CASE VoucherIds = {}
    BY <2>3, SumEmpty DEF VoucherSum
  <2>4. CASE \E k \in VoucherIds : TRUE
    BY <2>1, <2>4, VoucherSumChange
  <2> QED BY <2>2, <2>3, <2>4
<1>5. o \in Int
  BY OwedWhole
<1>6. TypeTotal(book, "receivable") = a + x - y
  OBVIOUS
<1>7. a + x - y = o - v - (p - x + y)
  <2> HIDE DEF a, o, v, p, x, y
  <2> QED BY <1>1, <1>3, <1>4, <1>5
<1>8. Balanced(book, docs, voucher)
  <2> HIDE DEF a, p, x, y, docs
  <2>1. TypeTotal(book, "receivable") = Owed("receivable") - VoucherSum(voucher, "receipt") - PaidSum(docs)
    BY <1>1, <1>6, <1>7
  <2> QED BY <1>2, <2>1 DEF Balanced
<1>9. ASSUME NEW q \in Receipts
      PROVE  Booked(book, docs[q], q)
  <2>1. CASE q = r
    <3>1. docs[q] = d
      BY <1>0, <2>1
    <3> QED BY <2>1, <3>1
  <2>2. CASE q # r
    <3>1. docs[q] = receipt[q] /\ OfTotal(book, q) = OfTotal(ledger, q)
      BY <1>0, <2>2
    <3> HIDE DEF docs
    <3> QED BY <1>2, <3>1 DEF Booked
  <2> QED BY <2>1, <2>2
<1> QED BY <1>8, <1>9

\* A draft changes, and nothing is written.
LEMMA QuietReceipt ==
    ASSUME VouchersTypeOK, BalanceInv, NEW r \in Receipts, NEW d \in ReceiptRecord,
           receipt' = [receipt EXCEPT ![r] = d], UNCHANGED <<ledger, voucher, clean>>,
           receipt[r].state \in {"none", "draft"}, d.state \in {"draft", "deleted", "cancel"}
    PROVE  BalanceInv'
<1> SUFFICES ASSUME clean
             PROVE  /\ Balanced(ledger', receipt', voucher')
                    /\ \A q \in Receipts : Booked(ledger', receipt'[q], q)
  BY DEF BalanceInv
<1>1. OwedOf(receipt[r]) = 0 /\ OwedOf(d) = 0
  BY DEF OwedOf
<1>2. Booked(ledger, receipt[r], r)
  BY DEF BalanceInv
<1>3. Booked(ledger, d, r)
  BY <1>2 DEF Booked
<1>4. TypeTotal(ledger, "receivable") \in Int
  BY ClassWhole DEF VouchersTypeOK, Ledger, TypeTotal
<1>5. TypeTotal(ledger, "receivable") = TypeTotal(ledger, "receivable") + OwedOf(receipt[r]) - OwedOf(d)
  BY <1>1, <1>4
<1>6. /\ Balanced(ledger, [receipt EXCEPT ![r] = d], voucher)
      /\ \A q \in Receipts : Booked(ledger, [receipt EXCEPT ![r] = d][q], q)
  BY <1>3, <1>5, ReceiptStep
<1> QED BY <1>6

\* onchange_partner_id, write, action_reasign_credit, unlink, and cancel_receipt
\* of a draft
DraftChanges(r) ==
    /\ receipt[r].state \in {"none", "draft"} /\ receipt'[r].state \in {"draft", "deleted", "cancel"}
    /\ \A q \in Receipts : q # r => receipt'[q] = receipt[q]

LEMMA DraftActions ==
    ASSUME VouchersTypeOK, VouchersTypeOK', NEW r \in Receipts,
           \/ \E paid \in Payments : NewReceipt(r, paid)
           \/ \E cash \in Amounts : EditCash(r, cash)
           \/ ActionReasignCredit(r) \/ Unlink(r)
           \/ CancelReceipt(r) /\ receipt[r].state # "posted"
    PROVE  DraftChanges(r) /\ UNCHANGED clean /\ ledger' = ledger
<1> DEFINE d == receipt'[r]
           x == receipt[r]
<1>1. /\ receipt \in [Receipts -> ReceiptRecord] /\ receipt' \in [Receipts -> ReceiptRecord]
      /\ x \in ReceiptRecord /\ d \in ReceiptRecord
  BY DEF VouchersTypeOK, ReceiptsType
<1>2. UNCHANGED clean /\ ledger' = ledger
  BY DEF NewReceipt, EditCash, ActionReasignCredit, Unlink, CancelReceipt
<1>3. ASSUME NEW paid \in Payments, NewReceipt(r, paid)
      PROVE  DraftChanges(r)
  BY <1>1, <1>3 DEF NewReceipt, DraftChanges
<1>4. ASSUME NEW cash \in Amounts, EditCash(r, cash)
      PROVE  DraftChanges(r)
  <2> DEFINE y == [x.paid EXCEPT !.cash = cash]
  <2>1. receipt' = [receipt EXCEPT ![r] = [x EXCEPT !.paid = y]] /\ x.state = "draft"
    BY <1>1, <1>4 DEF EditCash
  <2> HIDE DEF y
  <2> QED BY <1>1, <2>1 DEF ReceiptRecord, DraftChanges
<1>5. ASSUME ActionReasignCredit(r)
      PROVE  DraftChanges(r)
  <2> DEFINE y == Allocate(x.debts, Sum3(x.paid))
  <2>1. receipt' = [receipt EXCEPT ![r] = [x EXCEPT !.debts = y]] /\ x.state = "draft"
    BY <1>1, <1>5 DEF ActionReasignCredit
  <2> HIDE DEF y
  <2> QED BY <1>1, <2>1 DEF ReceiptRecord, DraftChanges
<1>6. ASSUME Unlink(r)
      PROVE  DraftChanges(r)
  BY <1>1, <1>6 DEF Unlink, ReceiptRecord, DraftChanges
<1>7. ASSUME CancelReceipt(r), x.state # "posted"
      PROVE  DraftChanges(r)
  BY <1>1, <1>7 DEF CancelReceipt, ReceiptRecord, DraftChanges
<1> QED BY <1>2, <1>3, <1>4, <1>5, <1>6, <1>7

LEMMA DraftBalanced ==
    ASSUME VouchersTypeOK, VouchersTypeOK', BalanceInv, NEW r \in Receipts, UNCHANGED voucher,
           \/ \E paid \in Payments : NewReceipt(r, paid)
           \/ \E cash \in Amounts : EditCash(r, cash)
           \/ ActionReasignCredit(r) \/ Unlink(r)
           \/ CancelReceipt(r) /\ receipt[r].state # "posted"
    PROVE  BalanceInv'
<1> DEFINE d == receipt'[r]
<1>1. /\ receipt \in [Receipts -> ReceiptRecord] /\ receipt' \in [Receipts -> ReceiptRecord]
      /\ d \in ReceiptRecord
  BY DEF VouchersTypeOK, ReceiptsType
<1>2. DraftChanges(r) /\ UNCHANGED <<ledger, voucher, clean>>
  BY DraftActions
<1>3. receipt[r].state \in {"none", "draft"} /\ d.state \in {"draft", "deleted", "cancel"}
  BY <1>2 DEF DraftChanges
<1>4. receipt' = [receipt EXCEPT ![r] = d]
  BY <1>1, <1>2 DEF DraftChanges
<1> HIDE DEF d
<1> QED BY <1>1, <1>2, <1>3, <1>4, QuietReceipt

\* A line written for a receipt is a receivable of it.
LEMMA PostedKinds ==
    ASSUME NEW extra \in Seq(MoveLine), NEW r \in Receipts,
           \A k \in DOMAIN extra : extra[k].of = r /\ extra[k].type = "receivable"
                                   /\ extra[k].partner = Customer
    PROVE  /\ \A k \in DOMAIN extra : Attributes(extra[k]) \in TypeClass("receivable")
           /\ \A k \in DOMAIN extra : Attributes(extra[k]) \notin TypeClass("payable")
           /\ \A k \in DOMAIN extra : Attributes(extra[k]) \in OfClass(r)
           /\ \A q \in Receipts \ {r} :
                 \A k \in DOMAIN extra : Attributes(extra[k]) \notin OfClass(q)
<1>1. \A k \in DOMAIN extra : Attributes(extra[k]) = <<"receivable", Customer, r>>
  BY DEF Attributes
<1>2. Customer \in Partners /\ r \in Documents
  BY ReceiptsAssumption DEF Documents
<1> QED BY <1>1, <1>2 DEF TypeClass, OfClass

\* What a receipt writes changes its totals and those of the receivables.
LEMMA ReceiptTotals ==
    ASSUME Ledger(ledger), NEW extra, Extended(ledger, extra), NEW c, PostedOn(ledger, extra, c),
           NEW r \in Receipts,
           \A k \in DOMAIN extra : extra[k].of = r /\ extra[k].type = "receivable"
                                   /\ extra[k].partner = Customer
    PROVE  /\ TypeTotal(c, "receivable") = TypeTotal(ledger, "receivable") + Worth(extra)
           /\ TypeTotal(c, "payable") = TypeTotal(ledger, "payable")
           /\ OfTotal(c, r) = OfTotal(ledger, r) + Worth(extra)
           /\ \A q \in Receipts \ {r} : OfTotal(c, q) = OfTotal(ledger, q)
<1>1. extra \in Seq(MoveLine)
  BY DEF Extended
<1> DEFINE In(A) == \A k \in DOMAIN extra : Attributes(extra[k]) \in A
           Out(A) == \A k \in DOMAIN extra : Attributes(extra[k]) \notin A
<1>2. In(TypeClass("receivable")) /\ Out(TypeClass("payable")) /\ In(OfClass(r))
      /\ \A q \in Receipts \ {r} : Out(OfClass(q))
  BY <1>1, PostedKinds
<1>3. \A A : In(A) => Total(c, ClassOf(c, A)) = Total(ledger, ClassOf(ledger, A)) + Worth(extra)
  BY PostedClass
<1>4. \A A : Out(A) => Total(c, ClassOf(c, A)) = Total(ledger, ClassOf(ledger, A))
  BY PostedClass
<1> HIDE DEF In, Out
<1> QED BY <1>2, <1>3, <1>4 DEF TypeTotal, OfTotal

\* action_post of a receipt
LEMMA ActionPostBalanced ==
    ASSUME VouchersTypeOK, VouchersTypeOK', BalanceInv, NEW r \in Receipts, UNCHANGED voucher,
           ActionPost(r)
    PROVE  BalanceInv'
<1> DEFINE due == Applicable(receipt[r].debts)
           extra == ReceiptLines(due, receipt[r], r)
           d == receipt'[r]
           w == Worth(extra)
           c == ledger'
           t == OfTotal(ledger, r)
           a == TypeTotal(ledger, "receivable")
<1>1. /\ CreditsOf(extra, r) /\ w \in Int /\ w = -d.owed /\ PostedOn(ledger, extra, c)
  BY ReceiptPosted
<1>2. Ledger(ledger) /\ ledger \in Book
  BY DEF VouchersTypeOK, Ledger
<1>3. /\ receipt \in [Receipts -> ReceiptRecord] /\ receipt' \in [Receipts -> ReceiptRecord]
      /\ d \in ReceiptRecord /\ d.owed \in Int
  BY DEF VouchersTypeOK, ReceiptsType, ReceiptRecord
<1>4. /\ receipt[r].state = "draft" /\ d.state = "posted" /\ UNCHANGED voucher
      /\ \A q \in Receipts : q # r => receipt'[q] = receipt[q]
  BY <1>3 DEF ActionPost, ReceiptRecord
<1>5. receipt' = [receipt EXCEPT ![r] = d]
  BY <1>3, <1>4
<1>6. OwedOf(receipt[r]) = 0 /\ OwedOf(d) = d.owed
  BY <1>4 DEF OwedOf
<1>7. t \in Int /\ a \in Int
  BY <1>2, ClassWhole DEF OfTotal, TypeTotal
<1> SUFFICES ASSUME clean'
             PROVE  /\ Balanced(ledger', receipt', voucher')
                    /\ \A q \in Receipts : Booked(ledger', receipt'[q], q)
  BY DEF BalanceInv
<1>8. clean
  BY DEF ActionPost
<1>9. t = 0
  BY <1>4, <1>8 DEF BalanceInv, Booked
<1> HIDE DEF extra, due, d, w, c
<1>10. /\ Extended(ledger, extra)
       /\ \A k \in DOMAIN extra : extra[k].of = r /\ extra[k].type = "receivable"
                                  /\ extra[k].partner = Customer
  BY <1>1 DEF CreditsOf, Extended
<1>11. /\ TypeTotal(c, "receivable") = a + w
       /\ TypeTotal(c, "payable") = TypeTotal(ledger, "payable")
       /\ OfTotal(c, r) = t + w
       /\ \A q \in Receipts \ {r} : OfTotal(c, q) = OfTotal(ledger, q)
  BY <1>1, <1>2, <1>10, ReceiptTotals DEF w
<1> HIDE DEF a, t
<1>12. a + w = a + OwedOf(receipt[r]) - OwedOf(d) /\ t + w = -d.owed
  BY <1>1, <1>3, <1>6, <1>7, <1>9
<1>13. Booked(c, d, r)
  BY <1>4, <1>11, <1>12 DEF Booked, d
<1>14. /\ Balanced(c, [receipt EXCEPT ![r] = d], voucher)
       /\ \A q \in Receipts : Booked(c, [receipt EXCEPT ![r] = d][q], q)
  BY <1>3, <1>8, <1>11, <1>12, <1>13, ReceiptStep DEF a
<1> QED BY <1>4, <1>5, <1>14 DEF c

\* cancel_receipt of a posted receipt
LEMMA CancelBalanced ==
    ASSUME VouchersTypeOK, VouchersTypeOK', BalanceInv, NEW r \in Receipts, UNCHANGED voucher,
           CancelReceipt(r), receipt[r].state = "posted"
    PROVE  BalanceInv'
<1> DEFINE S == MoveLines(r)
           extra == CounterLines(ledger, S)
           d == receipt'[r]
           w == Worth(extra)
           c == ledger'
           a == TypeTotal(ledger, "receivable")
           owed == receipt[r].owed
<1>1. /\ S \in SUBSET DOMAIN ledger /\ c = Revert(ledger, S)
      /\ Extended(ledger, extra) /\ PostedOn(ledger, extra, c) /\ w = -Total(ledger, S)
  BY CancelWrites
<1>2. Ledger(ledger) /\ ledger \in Book
  BY DEF VouchersTypeOK, Ledger
<1>3. /\ receipt \in [Receipts -> ReceiptRecord] /\ receipt' \in [Receipts -> ReceiptRecord]
      /\ d \in ReceiptRecord /\ owed \in Int
  BY DEF VouchersTypeOK, ReceiptsType, ReceiptRecord
<1>4. /\ d.state = "cancel" /\ UNCHANGED <<voucher, clean>>
      /\ \A q \in Receipts : q # r => receipt'[q] = receipt[q]
  BY <1>3 DEF CancelReceipt, ReceiptRecord
<1>5. receipt' = [receipt EXCEPT ![r] = d]
  BY <1>3, <1>4
<1>6. OwedOf(receipt[r]) = owed /\ OwedOf(d) = 0
  BY <1>4 DEF OwedOf
<1> SUFFICES ASSUME clean
             PROVE  /\ Balanced(ledger', receipt', voucher')
                    /\ \A q \in Receipts : Booked(ledger', receipt'[q], q)
  BY <1>4 DEF BalanceInv
<1>7. S = ClassOf(ledger, OfClass(r)) /\ a \in Int
  BY <1>2, Classes, ClassWhole DEF MoveLines, TypeTotal
<1>8. OfTotal(ledger, r) = -owed
  BY DEF BalanceInv, Booked
<1>9. w = owed
  <2>1. w = -(-owed)
    BY <1>1, <1>7, <1>8 DEF OfTotal
  <2> HIDE DEF w, owed
  <2> QED BY <1>3, <2>1
<1>10. \A l \in S : ledger[l].of = r /\ ledger[l].type = "receivable" /\ ledger[l].partner = Customer
  BY <1>2 DEF MoveLines, Ledger
<1>11. \A k \in DOMAIN extra : extra[k].of = r /\ extra[k].type = "receivable"
                               /\ extra[k].partner = Customer
  <2> HIDE DEF S
  <2>1. \A k \in DOMAIN extra :
           \E l \in S : /\ extra[k].of = ledger[l].of /\ extra[k].type = ledger[l].type
                        /\ extra[k].partner = ledger[l].partner
    BY <1>1, <1>2, Reverted
  <2> HIDE DEF extra
  <2> QED BY <1>10, <2>1
<1> HIDE DEF extra, S, d, w, c
<1>12. /\ TypeTotal(c, "receivable") = a + w
       /\ TypeTotal(c, "payable") = TypeTotal(ledger, "payable")
       /\ \A q \in Receipts \ {r} : OfTotal(c, q) = OfTotal(ledger, q)
  BY <1>1, <1>2, <1>11, ReceiptTotals DEF w
<1> HIDE DEF a
<1>13. a + w = a + OwedOf(receipt[r]) - OwedOf(d)
  <2> HIDE DEF owed
  <2> QED BY <1>3, <1>6, <1>7, <1>9
<1>14. Booked(c, d, r)
  BY <1>4 DEF Booked
<1>15. /\ Balanced(c, [receipt EXCEPT ![r] = d], voucher)
       /\ \A q \in Receipts : Booked(c, [receipt EXCEPT ![r] = d][q], q)
  BY <1>3, <1>12, <1>13, <1>14, ReceiptStep DEF a
<1> QED BY <1>4, <1>5, <1>15 DEF c

\* A reconciliation does not change what the lines of a kind come to.
LEMMA SameBalanced ==
    ASSUME BalanceInv, clean, NEW book, SameTotals(ledger, book)
    PROVE  /\ Balanced(book, receipt, voucher)
           /\ \A r \in Receipts : Booked(book, receipt[r], r)
<1>1. /\ \A type : TypeTotal(book, type) = TypeTotal(ledger, type)
      /\ \A r : OfTotal(book, r) = OfTotal(ledger, r)
  BY DEF SameTotals, TypeTotal, OfTotal
<1>2. /\ Balanced(ledger, receipt, voucher)
      /\ \A r \in Receipts : Booked(ledger, receipt[r], r)
  BY DEF BalanceInv
<1> QED BY <1>1, <1>2 DEF Balanced, Booked

LEMMA ReconcileBalanced ==
    ASSUME VouchersTypeOK, BalanceInv, NEW k \in Reconciles, UNCHANGED voucher,
           \/ NewReconcile(k) \/ PostReconcile(k)
           \/ \E i \in 1..Len(recon[k].uacs), a \in Amounts : EditCredit(k, i, a)
    PROVE  BalanceInv'
<1>1. UNCHANGED receipt
  BY DEF NewReconcile, PostReconcile, EditCredit
<1> SUFFICES ASSUME clean'
             PROVE  /\ Balanced(ledger', receipt', voucher')
                    /\ \A q \in Receipts : Booked(ledger', receipt'[q], q)
  BY DEF BalanceInv
<1>2. clean /\ SameTotals(ledger, ledger')
  <2>1. CASE NewReconcile(k) \/ \E i \in 1..Len(recon[k].uacs), a \in Amounts : EditCredit(k, i, a)
    BY <2>1 DEF NewReconcile, EditCredit, SameTotals
  <2>2. CASE PostReconcile(k)
    <3> DEFINE uacs == recon[k].uacs
    <3>1. clean /\ \A i \in DOMAIN uacs : ledger[uacs[i].line].credit = uacs[i].original
      BY <2>2 DEF PostReconcile
    <3>2. CreditsKept(ledger, uacs) => SameTotals(ledger, ledger')
      BY <2>2, ReconcilePosted DEF ReconcileWrites
    <3> QED BY <3>1, <3>2 DEF CreditsKept
  <2> QED BY <2>1, <2>2
<1>3. /\ Balanced(ledger', receipt, voucher)
      /\ \A r \in Receipts : Booked(ledger', receipt[r], r)
  BY <1>2, SameBalanced
<1> QED BY <1>1, <1>3

\* A voucher changes, and with it the lines of its account.
LEMMA VoucherStep ==
    ASSUME VouchersTypeOK, VouchersTypeOK', BalanceInv, clean, NEW v \in VoucherIds,
           NEW d \in VoucherRecord, voucher' = [voucher EXCEPT ![v] = d], UNCHANGED receipt,
           TypeTotal(ledger', "receivable")
              = TypeTotal(ledger, "receivable") + PaidOf(voucher[v], "receipt") - PaidOf(d, "receipt"),
           TypeTotal(ledger', "payable")
              = TypeTotal(ledger, "payable") + PaidOf(d, "payment") - PaidOf(voucher[v], "payment"),
           \A q \in Receipts : OfTotal(ledger', q) = OfTotal(ledger, q)
    PROVE  BalanceInv'
<1>1. /\ Balanced(ledger, receipt, voucher)
      /\ \A q \in Receipts : Booked(ledger, receipt[q], q)
  BY DEF BalanceInv
<1> DEFINE a == TypeTotal(ledger, "receivable")
           b == TypeTotal(ledger, "payable")
           o == Owed("receivable")
           p == Owed("payable")
           s == VoucherSum(voucher, "receipt")
           t == VoucherSum(voucher, "payment")
           u == PaidSum(receipt)
           x == PaidOf(voucher[v], "receipt")
           y == PaidOf(d, "receipt")
           z == PaidOf(voucher[v], "payment")
           w == PaidOf(d, "payment")
           docs == [voucher EXCEPT ![v] = d]
<1>2. voucher \in [VoucherIds -> VoucherRecord] /\ receipt \in [Receipts -> ReceiptRecord]
  BY DEF VouchersTypeOK, VouchersType, ReceiptsType
<1>3. /\ VoucherSum(docs, "receipt") = s - x + y /\ s \in Int /\ x \in Int /\ y \in Int
      /\ VoucherSum(docs, "payment") = t - z + w /\ t \in Int /\ z \in Int /\ w \in Int
  BY <1>2, VoucherSumChange
<1>4. o \in Int /\ p \in Int
  BY OwedWhole
<1>5. u \in Int
  <2>1. CASE Receipts = {}
    BY <2>1, SumEmpty DEF PaidSum
  <2>2. CASE \E q \in Receipts : TRUE
    BY <1>2, <2>2, PaidSumChange
  <2> QED BY <2>1, <2>2
<1>6. a = o - s - u /\ b = t - p
  BY <1>1 DEF Balanced
<1>7. TypeTotal(ledger', "receivable") = a + x - y /\ TypeTotal(ledger', "payable") = b + w - z
  OBVIOUS
<1> HIDE DEF a, b, o, p, s, t, u, x, y, z, w, docs
<1>8. a + x - y = o - (s - x + y) - u /\ b + w - z = (t - z + w) - p
  BY <1>3, <1>4, <1>5, <1>6
<1>9. Balanced(ledger', receipt, docs)
  BY <1>3, <1>7, <1>8 DEF Balanced, o, p, u
<1>10. \A q \in Receipts : Booked(ledger', receipt[q], q)
  BY <1>1 DEF Booked
<1>11. Balanced(ledger', receipt', voucher')
  BY <1>9 DEF docs
<1> QED BY <1>10, <1>11 DEF BalanceInv

LEMMA DraftVoucherBalanced ==
    ASSUME VouchersTypeOK, VouchersTypeOK', BalanceInv, NEW v \in VoucherIds,
           \/ \E type \in {"receipt", "payment"}, a \in Amounts \ {0} : NewVoucher(v, type, a)
           \/ ActionComputeDebts(v)
    PROVE  BalanceInv'
<1> DEFINE d == voucher'[v]
           x == voucher[v]
<1>1. /\ voucher \in [VoucherIds -> VoucherRecord] /\ voucher' \in [VoucherIds -> VoucherRecord]
      /\ d \in VoucherRecord /\ x \in VoucherRecord
  BY DEF VouchersTypeOK, VouchersType
<1>2. UNCHANGED <<receipt, clean>> /\ ledger' = ledger
  BY DEF NewVoucher, ActionComputeDebts, vars
<1> DEFINE Quiet == /\ x.state # "posted" /\ d.state # "posted"
                    /\ \A q \in VoucherIds : q # v => voucher'[q] = voucher[q]
<1>3. Quiet
  <2>1. ASSUME NEW type \in {"receipt", "payment"}, NEW a \in Amounts \ {0}, NewVoucher(v, type, a)
        PROVE  Quiet
    BY <1>1, <2>1 DEF NewVoucher
  <2>2. ASSUME NEW lines, x.state = "draft", voucher' = [voucher EXCEPT ![v].lines = lines]
        PROVE  Quiet
    <3>1. voucher' = [voucher EXCEPT ![v] = [x EXCEPT !.lines = lines]]
      BY <1>1, <2>2
    <3> QED BY <1>1, <2>2, <3>1 DEF VoucherRecord
  <2> QED BY <2>1, <2>2 DEF ActionComputeDebts
<1>4. voucher' = [voucher EXCEPT ![v] = d]
  BY <1>1, <1>3
<1>5. \A type : PaidOf(x, type) = 0 /\ PaidOf(d, type) = 0
  BY <1>3 DEF PaidOf
<1>6. TypeTotal(ledger, "receivable") \in Int /\ TypeTotal(ledger, "payable") \in Int
  BY ClassWhole DEF VouchersTypeOK, Ledger, TypeTotal
<1> HIDE DEF d
<1>7. /\ TypeTotal(ledger', "receivable")
            = TypeTotal(ledger, "receivable") + PaidOf(voucher[v], "receipt") - PaidOf(d, "receipt")
      /\ TypeTotal(ledger', "payable")
            = TypeTotal(ledger, "payable") + PaidOf(d, "payment") - PaidOf(voucher[v], "payment")
  BY <1>2, <1>5, <1>6
<1>8. clean => BalanceInv'
  BY <1>1, <1>2, <1>4, <1>7, VoucherStep
<1>9. ~clean => BalanceInv'
  BY <1>2 DEF BalanceInv
<1> QED BY <1>8, <1>9

\* action_move_line_create: the lines of a voucher come to its amount, which is
\* what it has paid from now on.
LEMMA VoucherBalanced ==
    ASSUME VouchersTypeOK, VouchersTypeOK', BalanceInv, NEW v \in VoucherIds,
           ActionMoveLineCreate(v)
    PROVE  BalanceInv'
<1> DEFINE x == voucher[v]
           d == voucher'[v]
           extra == Moves(x, PostedLines(x))
           account == AccountOf(x.type)
           w == Worth(extra)
           In(A) == \A k \in DOMAIN extra : Attributes(extra[k]) \in A
           Out(A) == \A k \in DOMAIN extra : Attributes(extra[k]) \notin A
<1>1. /\ x \in VoucherRecord /\ MovesOf(extra, account) /\ PostedOn(ledger, extra, ledger')
      /\ w = IF x.type = "receipt" THEN -x.amount ELSE x.amount
  BY VoucherPosted
<1>2. Ledger(ledger) /\ ledger \in Book
  BY DEF VouchersTypeOK, Ledger
<1>3. /\ voucher \in [VoucherIds -> VoucherRecord] /\ voucher' \in [VoucherIds -> VoucherRecord]
      /\ d \in VoucherRecord /\ x.amount \in Nat /\ x.type \in {"receipt", "payment"}
  BY DEF VouchersTypeOK, VouchersType, VoucherRecord
<1>4. /\ x.state = "draft" /\ d.state = "posted" /\ d.type = x.type /\ d.amount = x.amount
      /\ UNCHANGED receipt /\ \A q \in VoucherIds : q # v => voucher'[q] = voucher[q]
  BY <1>3 DEF ActionMoveLineCreate, VoucherRecord
<1>5. voucher' = [voucher EXCEPT ![v] = d]
  BY <1>3, <1>4
<1>6. TypeTotal(ledger, "receivable") \in Int /\ TypeTotal(ledger, "payable") \in Int
  BY <1>2, ClassWhole DEF TypeTotal
<1>7. /\ \A type : PaidOf(x, type) = 0
      /\ \A type : PaidOf(d, type) = IF x.type = type THEN x.amount ELSE 0
  BY <1>4 DEF PaidOf
<1> HIDE DEF d
<1>8. clean' => clean
  BY DEF ActionMoveLineCreate
<1>9. account \in {"receivable", "payable"} /\ (account = "receivable" <=> x.type = "receipt")
  BY DEF AccountOf
<1> HIDE DEF x, extra, account
<1>10. \A k \in DOMAIN extra : Attributes(extra[k]) = <<account, Customer, "voucher">>
  BY <1>1 DEF Attributes, MovesOf
<1>11. /\ Extended(ledger, extra) /\ Customer \in Partners /\ "voucher" \in Documents
       /\ "voucher" \notin Receipts
  BY <1>1, ReceiptsAssumption DEF MovesOf, Extended, Documents
<1>12. /\ In(TypeClass(account)) /\ \A type : type # account => Out(TypeClass(type))
       /\ \A q \in Receipts : Out(OfClass(q))
  BY <1>9, <1>10, <1>11 DEF TypeClass, OfClass
<1>13. \A A : In(A) => Total(ledger', ClassOf(ledger', A)) = Total(ledger, ClassOf(ledger, A)) + w
  BY <1>1, <1>2, <1>11, PostedClass
<1>14. \A A : Out(A) => Total(ledger', ClassOf(ledger', A)) = Total(ledger, ClassOf(ledger, A))
  BY <1>1, <1>2, <1>11, PostedClass
<1> HIDE DEF In, Out, w
<1>15. /\ TypeTotal(ledger', account) = TypeTotal(ledger, account) + w
       /\ \A type : type # account => TypeTotal(ledger', type) = TypeTotal(ledger, type)
       /\ \A q \in Receipts : OfTotal(ledger', q) = OfTotal(ledger, q)
  BY <1>12, <1>13, <1>14 DEF TypeTotal, OfTotal
<1>16. /\ TypeTotal(ledger', "receivable")
             = TypeTotal(ledger, "receivable") + PaidOf(x, "receipt") - PaidOf(d, "receipt")
       /\ TypeTotal(ledger', "payable")
             = TypeTotal(ledger, "payable") + PaidOf(d, "payment") - PaidOf(x, "payment")
  <2>1. CASE x.type = "receipt"
    <3>1. account = "receivable" /\ w = -x.amount
      BY <1>1, <1>9, <2>1
    <3> QED BY <1>3, <1>6, <1>7, <1>15, <2>1, <3>1
  <2>2. CASE x.type = "payment"
    <3>1. account = "payable" /\ w = x.amount
      BY <1>1, <1>9, <2>2
    <3> QED BY <1>3, <1>6, <1>7, <1>15, <2>2, <3>1
  <2> QED BY <1>3, <2>1, <2>2
<1>17. clean => BalanceInv'
  BY <1>3, <1>4, <1>5, <1>15, <1>16, VoucherStep DEF x
<1>18. ~clean => BalanceInv'
  BY <1>8 DEF BalanceInv
<1> QED BY <1>17, <1>18

\* The invoices and bills are what is owed before anything is paid.
LEMMA BalanceInit ==
    ASSUME VoucherInit
    PROVE  BalanceInv
<1>0. Init
  BY DEF VoucherInit
<1>1. /\ ledger \in Book /\ DOMAIN ledger = DOMAIN Debts
      /\ \A l \in DOMAIN Debts :
            /\ Debts[l].type \in {"receivable", "payable"} /\ Debts[l].amount \in Nat
            /\ ledger[l].type = Debts[l].type /\ ledger[l].of = "invoice"
            /\ ledger[l].debit - ledger[l].credit
               = (IF Debts[l].type = "receivable" THEN Debts[l].amount ELSE -Debts[l].amount)
  BY <1>0, FirstLines
<1>2. IsFiniteSet(DOMAIN Debts)
  BY DebtsFacts
<1> DEFINE Of(type) == {l \in DOMAIN ledger : ledger[l].type = type}
           f == Signed(ledger)
           g(type) == [i \in DOMAIN Debts |-> IF Debts[i].type = type THEN Debts[i].amount ELSE 0]
<1>3. \A type : Of(type) \in SUBSET DOMAIN Debts /\ IsFiniteSet(Of(type))
  <2> TAKE type
  <2>1. Of(type) \in SUBSET DOMAIN Debts
    BY <1>1
  <2> QED BY <1>2, <2>1, FS_Subset
<1>4. \A type : TypeTotal(ledger, type) = SumOver(f, Of(type))
  BY <1>1, Classes DEF TypeTotal, Total
<1>5. \A type : Owed(type) = SumOver(g(type), DOMAIN Debts)
  BY DEF Owed, SumOf
<1>6. TypeTotal(ledger, "receivable") = Owed("receivable")
  <2> DEFINE T == Of("receivable")
             h == g("receivable")
  <2>1. /\ Whole(f, T) /\ T \in SUBSET DOMAIN Debts
        /\ \A l \in T : h[l] = f[l]
        /\ \A l \in DOMAIN Debts \ T : h[l] = 0
    BY <1>1, <1>3 DEF Signed, Whole
  <2> HIDE DEF T, h, f
  <2>2. SumOver(h, DOMAIN Debts) = SumOver(f, T)
    BY <1>2, <2>1, SumFilter
  <2> QED BY <1>4, <1>5, <2>2 DEF T, h
<1>7. TypeTotal(ledger, "payable") = -Owed("payable")
  <2> DEFINE T == Of("payable")
             h == g("payable")
             n == [l \in DOMAIN Debts |-> -h[l]]
  <2>0. /\ \A l \in DOMAIN Debts : h[l] \in Nat /\ n[l] = -h[l]
        /\ \A l \in T : h[l] = -f[l] /\ f[l] \in Int
        /\ \A l \in DOMAIN Debts \ T : h[l] = 0
        /\ T \in SUBSET DOMAIN Debts
    <3>1. \A l \in DOMAIN Debts : h[l] = IF Debts[l].type = "payable" THEN Debts[l].amount ELSE 0
      OBVIOUS
    <3>2. \A l \in DOMAIN Debts : n[l] = -h[l]
      OBVIOUS
    <3>3. T \in SUBSET DOMAIN Debts /\ \A l \in DOMAIN Debts : l \in T <=> Debts[l].type = "payable"
      BY <1>1
    <3>4. \A l \in DOMAIN Debts : f[l] = ledger[l].debit - ledger[l].credit
      BY <1>1 DEF Signed
    <3> HIDE DEF h, n, T, f
    <3>5. \A l \in T : Debts[l].type = "payable" /\ Debts[l].amount \in Nat /\ f[l] = -Debts[l].amount
      BY <1>1, <3>3, <3>4
    <3> QED BY <1>1, <3>1, <3>2, <3>3, <3>5
  <2> HIDE DEF T, h, f, n
  <2>1. /\ Whole(f, T) /\ Whole(h, DOMAIN Debts)
        /\ \A l \in T : n[l] = f[l]
        /\ \A l \in DOMAIN Debts \ T : n[l] = 0
    BY <2>0 DEF Whole
  <2>2. SumOver(n, DOMAIN Debts) = SumOver(f, T)
    BY <1>2, <2>0, <2>1, SumFilter
  <2>3. SumOver(n, DOMAIN Debts) = -SumOver(h, DOMAIN Debts)
    BY <1>2, <2>0, <2>1, SumNegative
  <2> QED BY <1>4, <1>5, <2>2, <2>3 DEF T, h
<1>8. PaidSum(receipt) = 0
  <2> DEFINE k == [r \in Receipts |-> OwedOf(receipt[r])]
  <2>1. \A r \in Receipts : k[r] = 0
    BY <1>0 DEF OwedOf, Init
  <2> HIDE DEF k
  <2>2. SumOver(k, Receipts) = 0
    BY <2>1, SumZero, ReceiptsAssumption
  <2> QED BY <2>2 DEF PaidSum, k
<1>9. \A type : VoucherSum(voucher, type) = 0
  <2> TAKE type
  <2> DEFINE k == [v \in VoucherIds |-> PaidOf(voucher[v], type)]
  <2>1. \A v \in VoucherIds : k[v] = 0
    BY DEF PaidOf, VoucherInit
  <2> HIDE DEF k
  <2>2. SumOver(k, VoucherIds) = 0
    BY <2>1, SumZero, VouchersAssumption
  <2> QED BY <2>2 DEF VoucherSum, k
<1>10. Owed("receivable") \in Int /\ Owed("payable") \in Int
  BY OwedWhole
<1>11. Balanced(ledger, receipt, voucher)
  BY <1>6, <1>7, <1>8, <1>9, <1>10 DEF Balanced
<1>12. ASSUME NEW r \in Receipts
       PROVE  Booked(ledger, receipt[r], r)
  <2>1. receipt[r].state = "none"
    BY <1>0 DEF Init
  <2>2. ClassOf(ledger, OfClass(r)) = {}
    <3>1. ClassOf(ledger, OfClass(r)) = {l \in DOMAIN ledger : ledger[l].of = r}
      BY <1>1, Classes
    <3> QED BY <1>1, <3>1, ReceiptsAssumption
  <2>3. OfTotal(ledger, r) = 0
    BY <2>2, SumEmpty DEF OfTotal, Total
  <2> QED BY <2>1, <2>3 DEF Booked
<1> QED BY <1>11, <1>12 DEF BalanceInv

LEMMA BalanceNext ==
    ASSUME VouchersTypeOK, VouchersTypeOK', BalanceInv, [VoucherNext]_vvars
    PROVE  BalanceInv'
<1>1. CASE UNCHANGED vvars
  BY <1>1 DEF vvars, vars, BalanceInv
<1>2. ASSUME NEW r \in Receipts, UNCHANGED voucher,
             \/ \E paid \in Payments : NewReceipt(r, paid)
             \/ \E cash \in Amounts : EditCash(r, cash)
             \/ ActionReasignCredit(r) \/ ActionPost(r) \/ CancelReceipt(r) \/ Unlink(r)
      PROVE  BalanceInv'
  BY <1>2, DraftBalanced, ActionPostBalanced, CancelBalanced
<1>3. ASSUME NEW k \in Reconciles, UNCHANGED voucher,
             \/ NewReconcile(k) \/ PostReconcile(k)
             \/ \E i \in 1..Len(recon[k].uacs), a \in Amounts : EditCredit(k, i, a)
      PROVE  BalanceInv'
  BY <1>3, ReconcileBalanced
<1>4. ASSUME NEW v \in VoucherIds,
             \/ \E type \in {"receipt", "payment"}, a \in Amounts \ {0} : NewVoucher(v, type, a)
             \/ ActionComputeDebts(v) \/ ActionMoveLineCreate(v)
      PROVE  BalanceInv'
  BY <1>4, DraftVoucherBalanced, VoucherBalanced
<1> QED BY <1>1, <1>2, <1>3, <1>4 DEF VoucherNext, Next

LEMMA BalanceFollows ==
    ASSUME VouchersTypeOK, BalanceInv
    PROVE  BalanceFollowsDocuments
<1> SUFFICES ASSUME clean
             PROVE  /\ Total(ledger, {l \in DOMAIN ledger : ledger[l].type = "receivable"})
                       = Owed("receivable") - PaidBy("receipt") - ReceiptsPaid
                    /\ Total(ledger, {l \in DOMAIN ledger : ledger[l].type = "payable"})
                       = PaidBy("payment") - Owed("payable")
  BY DEF BalanceFollowsDocuments, ReceiptsPaid
<1>1. /\ ledger \in Book /\ receipt \in [Receipts -> ReceiptRecord]
      /\ voucher \in [VoucherIds -> VoucherRecord]
  BY DEF VouchersTypeOK, Ledger, ReceiptsType, VouchersType
<1>2. \A type : TypeTotal(ledger, type) = Total(ledger, {l \in DOMAIN ledger : ledger[l].type = type})
  BY <1>1, Classes DEF TypeTotal
<1>3. ReceiptsPaid = PaidSum(receipt) /\ \A type : PaidBy(type) = VoucherSum(voucher, type)
  BY <1>1, ReceiptsPaidSum, PaidBySum
<1>4. Balanced(ledger, receipt, voucher)
  BY DEF BalanceInv
<1> QED BY <1>2, <1>3, <1>4 DEF Balanced

\* Whatever is posted, cut, reconciled and cancelled, the lines of the customer's
\* accounts come to the invoices and bills less what the posted receipts and
\* vouchers have paid, as long as no document is posted whose copy of the debts
\* and credits is out of date.
THEOREM BalanceIsOfDocuments == VoucherSpec => []BalanceFollowsDocuments
<1>1. VoucherInit => BalanceInv
  BY BalanceInit
<1>2. VouchersTypeOK /\ VouchersTypeOK' /\ BalanceInv /\ [VoucherNext]_vvars => BalanceInv'
  BY BalanceNext
<1>3. VouchersTypeOK /\ BalanceInv => BalanceFollowsDocuments
  BY BalanceFollows
<1> QED BY <1>1, <1>2, <1>3, VouchersTyped, PTL DEF VoucherSpec
=============================================================================
