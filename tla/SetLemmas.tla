------------------------------ MODULE SetLemmas -----------------------------
(***************************************************************************)
(* Lemmas about the operators the models are built from: sums over a       *)
(* function (SumFunction, by which a strategy blends the ranks of its      *)
(* factors, and a query counts by groups), least and greatest members of a *)
(* finite set (Min and Max), and members put in a list (by their places,   *)
(* in an order, or by SetToSeq).                                           *)
(*                                                                         *)
(* A sum is a fold over the subsets of a set. What it is worth is shown by *)
(* induction over those subsets, which is the well-foundedness of strict   *)
(* inclusion: the property is given as the set Good of those that have it. *)
(***************************************************************************)
EXTENDS Integers, FiniteSets, FiniteSetsExt, Functions, FiniteSetTheorems,
        WellFoundedInduction, TLAPS

(* What holds of a set whenever it holds of its strict subsets holds of    *)
(* every subset of a finite set.                                           *)
LEMMA SubsetInduction ==
  ASSUME NEW S, IsFiniteSet(S), NEW Good,
         \A T \in SUBSET S : (\A U \in SUBSET T : U # T => U \in Good) => T \in Good
  PROVE  \A T \in SUBSET S : T \in Good
<1>. DEFINE Bad == {T \in SUBSET S : T \notin Good}
<1>. SUFFICES ASSUME Bad # {} PROVE FALSE
  OBVIOUS
<1>1. Bad \subseteq FiniteSubsetsOf(S)
  BY FS_FiniteSubsetsOfFinite
<1>2. IsWellFoundedOn(StrictSubsetOrdering(S), FiniteSubsetsOf(S))
  BY FS_StrictSubsetOrderingWellFounded
<1>3. PICK T \in Bad : \A U \in Bad : ~ (<<U, T>> \in StrictSubsetOrdering(S))
  <2>. HIDE DEF Bad
  <2>. QED BY <1>1, <1>2, WFMin
<1>4. \A U \in SUBSET T : U # T => U \in Good
  BY <1>3 DEF StrictSubsetOrdering
<1>. QED BY <1>3, <1>4

-----------------------------------------------------------------------------
(* A fold as a recursive function: from a set its value takes one member   *)
(* away, the one CHOOSE picks.                                             *)

Pick(s) == CHOOSE x \in s : TRUE

Adds(values, s, g) ==
  \A u \in SUBSET s : g[u] = IF u = {} THEN 0 ELSE values[Pick(u)] + g[u \ {Pick(u)}]

Turn(values, S, g) ==
  [s \in SUBSET S |-> IF s = {} THEN 0 ELSE values[Pick(s)] + g[s \ {Pick(s)}]]

Folded(values) == CHOOSE g : g = Turn(values, DOMAIN values, g)

(* A sum is the value of its fold at the whole domain.                     *)
LEMMA SumUnfolded ==
  ASSUME NEW values
  PROVE  SumFunction(values) = Folded(values)[DOMAIN values]
BY DEF SumFunction, SumFunctionOnSet, FoldFunctionOnSet, MapThenFoldSet, Folded, Turn, Pick

(* The fold takes out a member at a time.                                  *)
LEMMA PickIsMember ==
  ASSUME NEW s, s # {}
  PROVE  Pick(s) \in s
BY DEF Pick

(* At most one function of the subsets adds up in the order of the fold... *)
LEMMA AddsUnique ==
  ASSUME NEW S, IsFiniteSet(S), NEW values, NEW g, NEW h,
         Adds(values, S, g), Adds(values, S, h)
  PROVE  \A s \in SUBSET S : g[s] = h[s]
<1>. DEFINE Good == {T \in SUBSET S : g[T] = h[T]}
<1>1. ASSUME NEW T \in SUBSET S, \A U \in SUBSET T : U # T => U \in Good
      PROVE  T \in Good
  <2>1. CASE T = {}
    BY <2>1 DEF Adds
  <2>2. CASE T # {}
    <3>1. Pick(T) \in T
      BY <2>2, PickIsMember
    <3>2. g[T \ {Pick(T)}] = h[T \ {Pick(T)}]
      BY <1>1, <3>1
    <3>. QED BY <2>2, <3>2 DEF Adds
  <2>. QED BY <2>1, <2>2
<1>2. \A T \in SUBSET S : T \in Good
  <2>. HIDE DEF Good
  <2>. QED BY <1>1, SubsetInduction
<1>. QED BY <1>2

(* ... there is one...                                                     *)
LEMMA AddsExists ==
  ASSUME NEW S, IsFiniteSet(S), NEW values
  PROVE  \E g : g = Turn(values, S, g)
<1>. DEFINE Good == {T \in SUBSET S : \E g : Adds(values, T, g)}
            val == [s \in SUBSET S |-> (CHOOSE g : Adds(values, s, g))[s]]
            one(s) == CHOOSE g : Adds(values, s, g)
            next(T) == [s \in SUBSET T |-> IF s = T THEN IF T = {} THEN 0
                                            ELSE values[Pick(T)] + val[T \ {Pick(T)}]
                                           ELSE val[s]]
<1>0. \A T \in SUBSET S : IsFiniteSet(T)
  BY FS_Subset
<1>1. ASSUME NEW T \in Good, NEW u \in SUBSET T
      PROVE  one(T)[u] = val[u] /\ u \in Good
  <2>1. Adds(values, T, one(T))
    BY <1>1
  <2>2. Adds(values, u, one(T))
    BY <2>1 DEF Adds
  <2>3. Adds(values, u, one(u))
    BY <2>2
  <2>4. one(T)[u] = one(u)[u]
    <3>. HIDE DEF one
    <3>. QED BY <2>2, <2>3, <1>0, AddsUnique
  <2>. QED BY <2>2, <2>4
<1>2. ASSUME NEW T \in Good
      PROVE  val[T] = IF T = {} THEN 0 ELSE values[Pick(T)] + val[T \ {Pick(T)}]
  <2>1. Adds(values, T, one(T))
    BY <1>2
  <2>2. one(T)[T] = IF T = {} THEN 0 ELSE values[Pick(T)] + one(T)[T \ {Pick(T)}]
    <3>. HIDE DEF one
    <3>. QED BY <2>1 DEF Adds
  <2>3. val[T] = one(T)[T]
    BY <1>1
  <2>4. T \ {Pick(T)} \in SUBSET T
    OBVIOUS
  <2>5. one(T)[T \ {Pick(T)}] = val[T \ {Pick(T)}]
    BY <1>1, <2>4
  <2>. HIDE DEF val, one
  <2>. QED BY <2>2, <2>3, <2>5
<1>3. ASSUME NEW T \in SUBSET S, \A U \in SUBSET T : U # T => U \in Good
      PROVE  T \in Good
  <2>. SUFFICES Adds(values, T, next(T))
    OBVIOUS
  <2>. SUFFICES ASSUME NEW u \in SUBSET T
                PROVE  next(T)[u] = IF u = {} THEN 0 ELSE values[Pick(u)] + next(T)[u \ {Pick(u)}]
    BY DEF Adds
  <2>1. u # {} => u \ {Pick(u)} # T /\ u \ {Pick(u)} \in SUBSET T
    BY PickIsMember
  <2>2. u # {} => next(T)[u \ {Pick(u)}] = val[u \ {Pick(u)}]
    BY <2>1
  <2>3. CASE u = T
    BY <2>2, <2>3
  <2>4. CASE u # T
    <3>1. u \in Good
      BY <1>3, <2>4
    <3>2. val[u] = IF u = {} THEN 0 ELSE values[Pick(u)] + val[u \ {Pick(u)}]
      BY <1>2, <3>1
    <3>3. next(T)[u] = val[u]
      BY <2>4
    <3>. QED BY <2>2, <3>2, <3>3
  <2>. QED BY <2>3, <2>4
<1>4. \A T \in SUBSET S : T \in Good
  <2>. HIDE DEF Good
  <2>. QED BY <1>3, SubsetInduction
<1>5. \A s \in SUBSET S : val[s] = IF s = {} THEN 0 ELSE values[Pick(s)] + val[s \ {Pick(s)}]
  BY <1>2, <1>4
<1>6. val = Turn(values, S, val)
  <2>1. val = [s \in SUBSET S |-> val[s]]
    OBVIOUS
  <2>. HIDE DEF val
  <2>. QED BY <1>5, <2>1 DEF Turn
<1>. QED BY <1>6

(* ... and the fold is it.                                                 *)
LEMMA FoldedAdds ==
  ASSUME NEW values, IsFiniteSet(DOMAIN values)
  PROVE  Adds(values, DOMAIN values, Folded(values))
<1>1. \E g : g = Turn(values, DOMAIN values, g)
  BY AddsExists
<1>2. Folded(values) = Turn(values, DOMAIN values, Folded(values))
  BY <1>1 DEF Folded
<1>. QED BY <1>2 DEF Adds, Turn

(* Every part of a whole-number function adds up to a whole number.        *)
LEMMA FoldedIsWhole ==
  ASSUME NEW D, IsFiniteSet(D), NEW v \in [D -> Int]
  PROVE  \A T \in SUBSET D : Folded(v)[T] \in Int
<1>. DEFINE Good == {T \in SUBSET D : Folded(v)[T] \in Int}
<1>1. DOMAIN v = D
  OBVIOUS
<1>2. Adds(v, D, Folded(v))
  BY <1>1, FoldedAdds
<1>3. ASSUME NEW T \in SUBSET D, \A U \in SUBSET T : U # T => U \in Good
      PROVE  T \in Good
  <2>1. CASE T = {}
    <3>1. Folded(v)[T] = 0
      BY <1>2, <2>1 DEF Adds
    <3>. QED BY <3>1
  <2>2. CASE T # {}
    <3>1. Pick(T) \in T
      BY <2>2, PickIsMember
    <3>2. Folded(v)[T \ {Pick(T)}] \in Int /\ v[Pick(T)] \in Int
      BY <1>3, <3>1
    <3>3. Folded(v)[T] = v[Pick(T)] + Folded(v)[T \ {Pick(T)}]
      BY <1>2, <2>2 DEF Adds
    <3>. QED BY <3>2, <3>3
  <2>. QED BY <2>1, <2>2
<1>4. \A T \in SUBSET D : T \in Good
  <2>. HIDE DEF Good
  <2>. QED BY <1>3, SubsetInduction
<1>. QED BY <1>4

(* A sum of whole numbers is a whole number...                             *)
LEMMA SumIsWhole ==
  ASSUME NEW D, IsFiniteSet(D), NEW v \in [D -> Int]
  PROVE  SumFunction(v) \in Int
BY FoldedIsWhole, SumUnfolded

(* ... and grows with its values.                                          *)
LEMMA SumMonotone ==
  ASSUME NEW D, IsFiniteSet(D), NEW v \in [D -> Int], NEW w \in [D -> Int],
         \A x \in D : v[x] <= w[x]
  PROVE  SumFunction(v) <= SumFunction(w)
<1>. DEFINE Good == {T \in SUBSET D : /\ Folded(v)[T] \in Int
                                      /\ Folded(w)[T] \in Int
                                      /\ Folded(v)[T] <= Folded(w)[T]}
<1>1. DOMAIN v = D /\ DOMAIN w = D
  OBVIOUS
<1>2. Adds(v, D, Folded(v)) /\ Adds(w, D, Folded(w))
  BY <1>1, FoldedAdds
<1>3. ASSUME NEW T \in SUBSET D, \A U \in SUBSET T : U # T => U \in Good
      PROVE  T \in Good
  <2>1. CASE T = {}
    <3>1. Folded(v)[T] = 0 /\ Folded(w)[T] = 0
      BY <1>2, <2>1 DEF Adds
    <3>. QED BY <3>1
  <2>2. CASE T # {}
    <3>1. Pick(T) \in T /\ Pick(T) \in D
      BY <2>2, PickIsMember
    <3>2. T \ {Pick(T)} \in Good
      BY <1>3, <3>1
    <3>3. /\ v[Pick(T)] \in Int /\ w[Pick(T)] \in Int
          /\ v[Pick(T)] <= w[Pick(T)]
      BY <3>1
    <3>4. /\ Folded(v)[T] = v[Pick(T)] + Folded(v)[T \ {Pick(T)}]
          /\ Folded(w)[T] = w[Pick(T)] + Folded(w)[T \ {Pick(T)}]
      BY <1>2, <2>2 DEF Adds
    <3>. QED BY <3>2, <3>3, <3>4
  <2>. QED BY <2>1, <2>2
<1>4. \A T \in SUBSET D : T \in Good
  <2>. HIDE DEF Good
  <2>. QED BY <1>3, SubsetInduction
<1>. QED BY <1>1, <1>4, SumUnfolded

(* In which order members are added makes no difference.                   *)
LEMMA AnyMemberLast ==
  ASSUME NEW D, IsFiniteSet(D), NEW v \in [D -> Int]
  PROVE  \A T \in SUBSET D : \A x \in T : Folded(v)[T] = v[x] + Folded(v)[T \ {x}]
<1>. DEFINE F == Folded(v)
            Good == {T \in SUBSET D : \A x \in T : F[T] = v[x] + F[T \ {x}]}
<1>1. DOMAIN v = D
  OBVIOUS
<1>2. Adds(v, D, F)
  BY <1>1, FoldedAdds
<1>3. \A T \in SUBSET D : F[T] \in Int
  BY FoldedIsWhole
<1>. HIDE DEF F
<1>4. ASSUME NEW T \in SUBSET D, \A U \in SUBSET T : U # T => U \in Good
      PROVE  T \in Good
  <2>. SUFFICES ASSUME NEW x \in T PROVE F[T] = v[x] + F[T \ {x}]
    OBVIOUS
  <2>. DEFINE p == Pick(T)
  <2>1. p \in T
    BY PickIsMember
  <2>2. F[T] = v[p] + F[T \ {p}]
    BY <1>2 DEF Adds
  <2>. HIDE DEF p
  <2>3. CASE x = p
    BY <2>2, <2>3
  <2>4. CASE x # p
    <3>1. T \ {p} \in Good /\ T \ {x} \in Good /\ x \in T \ {p} /\ p \in T \ {x}
      BY <1>4, <2>1, <2>4
    <3>2. (T \ {p}) \ {x} = (T \ {x}) \ {p} /\ (T \ {p}) \ {x} \in SUBSET D
      OBVIOUS
    <3>3. F[T \ {p}] = v[x] + F[(T \ {p}) \ {x}] /\ F[T \ {x}] = v[p] + F[(T \ {p}) \ {x}]
      BY <3>1, <3>2
    <3>4. v[x] \in Int /\ v[p] \in Int /\ F[(T \ {p}) \ {x}] \in Int
      BY <1>3, <2>1, <3>2
    <3>. QED BY <2>2, <3>3, <3>4
  <2>. QED BY <2>3, <2>4
<1>5. \A T \in SUBSET D : T \in Good
  <2>. HIDE DEF Good
  <2>. QED BY <1>4, SubsetInduction
<1>. QED BY <1>5 DEF F

LEMMA AddedLast ==
  ASSUME NEW D, IsFiniteSet(D), NEW v \in [D -> Int],
         NEW T \in SUBSET D, NEW x \in D, x \notin T
  PROVE  Folded(v)[T \cup {x}] = v[x] + Folded(v)[T]
<1>1. (T \cup {x}) \ {x} = T /\ T \cup {x} \in SUBSET D /\ x \in T \cup {x}
  OBVIOUS
<1>. QED BY <1>1, AnyMemberLast

(* Seven different members are added up one by one.                        *)
LEMMA SumOfSeven ==
  ASSUME NEW names, \A i, j \in 1 .. 7 : names[i] = names[j] => i = j,
         NEW v \in [{names[i] : i \in 1 .. 7} -> Int]
  PROVE  /\ IsFiniteSet(DOMAIN v)
         /\ SumFunction(v) = v[names[1]] + v[names[2]] + v[names[3]] + v[names[4]]
                               + v[names[5]] + v[names[6]] + v[names[7]]
<1>. DEFINE a == names[1]  b == names[2]  c == names[3]  d == names[4]
            e == names[5]  g == names[6]  h == names[7]
<1>0. /\ a \notin {b, c, d, e, g, h} /\ b \notin {c, d, e, g, h} /\ c \notin {d, e, g, h}
      /\ d \notin {e, g, h} /\ e \notin {g, h} /\ g # h
      /\ v \in [{a, b, c, d, e, g, h} -> Int]
  <2>1. 1 .. 7 = {1, 2, 3, 4, 5, 6, 7}
    OBVIOUS
  <2>. QED BY <2>1
<1>. HIDE DEF a, b, c, d, e, g, h
<1>. DEFINE D == {a, b, c, d, e, g, h}
            F == Folded(v)
            D1 == {h}  D2 == D1 \cup {g}  D3 == D2 \cup {e}  D4 == D3 \cup {d}
            D5 == D4 \cup {c}  D6 == D5 \cup {b}  D7 == D6 \cup {a}
<1>1. D7 = D
  OBVIOUS
<1>2. /\ g \notin D1 /\ e \notin D2 /\ d \notin D3 /\ c \notin D4 /\ b \notin D5 /\ a \notin D6
      /\ a \in D /\ b \in D /\ c \in D /\ d \in D /\ e \in D /\ g \in D /\ h \in D
      /\ D1 \in SUBSET D /\ D2 \in SUBSET D /\ D3 \in SUBSET D /\ D4 \in SUBSET D
      /\ D5 \in SUBSET D /\ D6 \in SUBSET D /\ {} \in SUBSET D /\ {} \cup {h} = D1
      /\ h \notin {} /\ v \in [D -> Int] /\ DOMAIN v = D
  BY <1>0
<1>3. IsFiniteSet(D)
  <2>1. IsFiniteSet(D1)
    BY FS_Singleton
  <2>. HIDE DEF D1
  <2>2. IsFiniteSet(D2)
    BY <2>1, FS_AddElement
  <2>. HIDE DEF D2
  <2>3. IsFiniteSet(D3)
    BY <2>2, FS_AddElement
  <2>. HIDE DEF D3
  <2>4. IsFiniteSet(D4)
    BY <2>3, FS_AddElement
  <2>. HIDE DEF D4
  <2>5. IsFiniteSet(D5)
    BY <2>4, FS_AddElement
  <2>. HIDE DEF D5
  <2>6. IsFiniteSet(D6)
    BY <2>5, FS_AddElement
  <2>. HIDE DEF D6
  <2>7. IsFiniteSet(D7)
    BY <2>6, FS_AddElement
  <2>. HIDE DEF D7, D
  <2>. QED BY <1>1, <2>7
<1>4. /\ F[D7] = v[a] + F[D6] /\ F[D6] = v[b] + F[D5] /\ F[D5] = v[c] + F[D4]
      /\ F[D4] = v[d] + F[D3] /\ F[D3] = v[e] + F[D2] /\ F[D2] = v[g] + F[D1]
      /\ F[D1] = v[h] + F[{}]
  <2>. HIDE DEF D
  <2>0. v \in [D -> Int]
    BY <1>2
  <2>1. \A T \in SUBSET D : \A x \in D : x \notin T => F[T \cup {x}] = v[x] + F[T]
    <3>. HIDE DEF D1, D2, D3, D4, D5, D6, D7
    <3>. QED BY <1>3, <2>0, AddedLast
  <2>. HIDE DEF F, D1
  <2>2. F[D1] = v[h] + F[{}] /\ F[D2] = v[g] + F[D1]
    BY <1>2, <2>1
  <2>. HIDE DEF D2
  <2>3. F[D3] = v[e] + F[D2]
    BY <1>2, <2>1
  <2>. HIDE DEF D3
  <2>4. F[D4] = v[d] + F[D3]
    BY <1>2, <2>1
  <2>. HIDE DEF D4
  <2>5. F[D5] = v[c] + F[D4]
    BY <1>2, <2>1
  <2>. HIDE DEF D5
  <2>6. F[D6] = v[b] + F[D5]
    BY <1>2, <2>1
  <2>. HIDE DEF D6
  <2>7. F[D7] = v[a] + F[D6]
    BY <1>2, <2>1
  <2>. HIDE DEF D7
  <2>. QED BY <2>2, <2>3, <2>4, <2>5, <2>6, <2>7
<1>5. F[{}] = 0 /\ SumFunction(v) = F[D]
  <2>. HIDE DEF D
  <2>. QED BY <1>2, <1>3, FoldedAdds, SumUnfolded DEF Adds
<1>6. v[a] \in Int /\ v[b] \in Int /\ v[c] \in Int /\ v[d] \in Int /\ v[e] \in Int /\ v[g] \in Int
      /\ v[h] \in Int
  BY <1>0
<1>. HIDE DEF F, D, D1, D2, D3, D4, D5, D6, D7
<1>7. SumFunction(v) = v[a] + v[b] + v[c] + v[d] + v[e] + v[g] + v[h]
  BY <1>1, <1>4, <1>5, <1>6
<1>8. IsFiniteSet(DOMAIN v)
  BY <1>2, <1>3
<1>. QED BY <1>7, <1>8 DEF a, b, c, d, e, g, h

(* One more member adds its value.                                         *)
LEMMA SumOfOneMore ==
  ASSUME NEW E, IsFiniteSet(E), NEW x, x \notin E, NEW v \in [E \cup {x} -> Int]
  PROVE  SumFunction(v) = v[x] + SumFunction([y \in E |-> v[y]])
<1>. DEFINE D == E \cup {x}
            u == [y \in E |-> v[y]]
<1>1. IsFiniteSet(D) /\ DOMAIN v = D /\ DOMAIN u = E /\ x \in D /\ E \in SUBSET D
  BY FS_AddElement
<1>2. Adds(v, D, Folded(v)) /\ Adds(u, E, Folded(u))
  <2>. HIDE DEF D, u
  <2>. QED BY <1>1, FoldedAdds
<1>3. Adds(v, E, Folded(v))
  BY <1>1, <1>2 DEF Adds
<1>4. Adds(v, E, Folded(u))
  <2>1. \A s \in SUBSET E : s # {} => u[Pick(s)] = v[Pick(s)]
    BY PickIsMember
  <2>. HIDE DEF u
  <2>. QED BY <1>2, <2>1 DEF Adds
<1>5. Folded(v)[E] = Folded(u)[E]
  <2>. HIDE DEF D, u
  <2>. QED BY <1>3, <1>4, AddsUnique
<1>6. Folded(v)[D] = v[x] + Folded(v)[E]
  BY <1>1, AddedLast
<1>. HIDE DEF D, u
<1>7. SumFunction(v) = Folded(v)[D] /\ SumFunction(u) = Folded(u)[E]
  BY <1>1, SumUnfolded
<1>8. SumFunction(v) = v[x] + SumFunction(u)
  BY <1>5, <1>6, <1>7
<1>. QED BY <1>8 DEF u

(* What is added up over a part, and member by member is at most four      *)
(* times as much, is at most four times as much in all.                    *)
LEMMA SumOfPart ==
  ASSUME NEW D, IsFiniteSet(D), NEW v \in [D -> Nat],
         NEW E \in SUBSET D, NEW w \in [E -> Nat], \A x \in E : w[x] <= 4 * v[x]
  PROVE  SumFunction(w) \in Nat /\ SumFunction(w) <= 4 * SumFunction(v)
<1>. DEFINE F == Folded(v)
            G == Folded(w)
            Less == {T \in SUBSET E : G[T] >= 0 /\ G[T] <= 4 * F[T]}
            Grows == {T \in SUBSET D : \A U \in SUBSET T : F[U] <= F[T]}
<1>1. DOMAIN v = D /\ DOMAIN w = E /\ IsFiniteSet(E) /\ v \in [D -> Int] /\ w \in [E -> Int]
  BY FS_Subset
<1>2. \A T \in SUBSET D : F[T] \in Int /\ \A x \in T : F[T] = v[x] + F[T \ {x}]
  BY <1>1, FoldedIsWhole, AnyMemberLast
<1>3. \A T \in SUBSET E : G[T] \in Int /\ \A x \in T : G[T] = w[x] + G[T \ {x}]
  BY <1>1, FoldedIsWhole, AnyMemberLast
<1>4. F[{}] = 0 /\ G[{}] = 0
  BY <1>1, FoldedAdds DEF Adds
<1>10. SumFunction(w) = G[E] /\ SumFunction(v) = F[D]
  BY <1>1, SumUnfolded DEF F, G
<1>. HIDE DEF F, G
<1>5. ASSUME NEW T \in SUBSET E, \A U \in SUBSET T : U # T => U \in Less
      PROVE  T \in Less
  <2>1. CASE T = {}
    BY <1>4, <2>1
  <2>2. ASSUME NEW x \in T PROVE T \in Less
    <3>1. T \ {x} \in Less /\ w[x] \in Nat /\ v[x] \in Nat /\ w[x] <= 4 * v[x]
      BY <1>5
    <3>2. G[T] = w[x] + G[T \ {x}] /\ G[T \ {x}] \in Int
      BY <1>3
    <3>3. T \ {x} \in SUBSET D /\ F[T] = v[x] + F[T \ {x}] /\ F[T \ {x}] \in Int
      BY <1>2
    <3>. QED BY <3>1, <3>2, <3>3
  <2>. QED BY <2>1, <2>2
<1>6. \A T \in SUBSET E : T \in Less
  <2>1. IsFiniteSet(E)
    BY <1>1
  <2>. HIDE DEF Less, Grows
  <2>. QED BY <1>5, <2>1, SubsetInduction
<1>7. ASSUME NEW T \in SUBSET D, \A U \in SUBSET T : U # T => U \in Grows
      PROVE  T \in Grows
  <2>. SUFFICES ASSUME NEW U \in SUBSET T PROVE F[U] <= F[T]
    OBVIOUS
  <2>1. CASE U = T
    BY <1>2, <2>1
  <2>2. ASSUME NEW x \in T, x \notin U PROVE F[U] <= F[T]
    <3>1. F[U] <= F[T \ {x}] /\ v[x] \in Nat
      BY <1>7, <2>2
    <3>2. F[T] = v[x] + F[T \ {x}] /\ F[T \ {x}] \in Int /\ F[U] \in Int
      BY <1>2
    <3>. QED BY <3>1, <3>2
  <2>. QED BY <2>1, <2>2
<1>8. \A T \in SUBSET D : T \in Grows
  <2>. HIDE DEF Grows
  <2>. QED BY <1>7, SubsetInduction
<1>9. G[E] \in Int /\ F[D] \in Int /\ F[E] \in Int /\ G[E] >= 0 /\ G[E] <= 4 * F[E] /\ F[E] <= F[D]
  BY <1>2, <1>3, <1>6, <1>8
<1>. QED BY <1>9, <1>10

-----------------------------------------------------------------------------
(* A finite set has a finite image.                                        *)
LEMMA ImageIsFinite ==
  ASSUME NEW S, IsFiniteSet(S), NEW f, DOMAIN f = S
  PROVE  IsFiniteSet({f[x] : x \in S})
<1>. DEFINE T == {f[x] : x \in S}
            g == [x \in S |-> f[x]]
<1>1. g \in Surjection(S, T)
  BY DEF Surjection
<1>. HIDE DEF g, T
<1>2. IsFiniteSet(T)
  BY <1>1, FS_Surjection
<1>. QED BY <1>2 DEF T

(* A finite set of numbers that is not empty has a greatest member...      *)
LEMMA MaxIsMember ==
  ASSUME NEW S, IsFiniteSet(S), S \subseteq Int, S # {}
  PROVE  Max(S) \in S /\ \A y \in S : Max(S) >= y
<1>. DEFINE Good == {T \in SUBSET S : T # {} => \E m \in T : \A y \in T : m >= y}
<1>1. ASSUME NEW T \in SUBSET S, \A U \in SUBSET T : U # T => U \in Good
      PROVE  T \in Good
  <2>. SUFFICES ASSUME NEW x \in T PROVE \E m \in T : \A y \in T : m >= y
    OBVIOUS
  <2>1. T \ {x} \in Good
    BY <1>1
  <2>2. CASE T \ {x} = {}
    BY <2>2
  <2>3. CASE T \ {x} # {}
    <3>1. PICK m \in T \ {x} : \A y \in T \ {x} : m >= y
      BY <2>1, <2>3
    <3>2. CASE m >= x
      BY <3>1, <3>2
    <3>3. CASE x >= m
      BY <3>1, <3>3
    <3>. QED BY <3>2, <3>3
  <2>. QED BY <2>2, <2>3
<1>2. \A T \in SUBSET S : T \in Good
  <2>. HIDE DEF Good
  <2>. QED BY <1>1, SubsetInduction
<1>3. \E m \in S : \A y \in S : m >= y
  BY <1>2
<1>. QED BY <1>3 DEF Max

(* ... and a set of natural numbers a least one, be it finite or not.      *)
LEMMA MinIsMember ==
  ASSUME NEW S, S \subseteq Nat, S # {}
  PROVE  Min(S) \in S /\ \A y \in S : Min(S) <= y
<1>1. PICK m \in S : \A y \in S : ~(<<y, m>> \in OpToRel(<, Nat))
  BY NatLessThanWellFounded, WFMin, Zenon
<1>2. \A y \in S : ~(y < m)
  BY <1>1, Zenon DEF OpToRel
<1>3. \A y \in S : m <= y
  BY <1>2
<1>. QED BY <1>3 DEF Min

(* The members of a set of places are numbered by how many there are up to *)
(* each: every number from one on belongs to one of them, and to one only. *)
LEMMA PlacesAreNumbered ==
  ASSUME NEW n \in Nat, NEW P \in SUBSET (1..n)
  PROVE  /\ Cardinality(P) \in Nat
         /\ \A i \in P : Cardinality({j \in P : j <= i}) \in 1..Cardinality(P)
         /\ \A i, k \in P : Cardinality({j \in P : j <= i}) = Cardinality({j \in P : j <= k}) => i = k
         /\ \A m \in 1..Cardinality(P) : \E i \in P : Cardinality({j \in P : j <= i}) = m
<1>. DEFINE upTo(i) == {j \in P : j <= i}
            number == [i \in P |-> Cardinality(upTo(i))]
<1>1. IsFiniteSet(P)
  <2>1. IsFiniteSet(1..n)
    BY FS_Interval
  <2>. QED BY <2>1, FS_Subset
<1>2. Cardinality(P) \in Nat
  BY <1>1, FS_CardinalityType
<1>3. ASSUME NEW i \in P
      PROVE  IsFiniteSet(upTo(i)) /\ number[i] \in 1..Cardinality(P)
  <2>1. IsFiniteSet(upTo(i)) /\ Cardinality(upTo(i)) <= Cardinality(P)
    BY <1>1, FS_Subset
  <2>2. Cardinality(upTo(i)) \in Nat
    BY <2>1, FS_CardinalityType
  <2>3. i \in upTo(i)
    OBVIOUS
  <2>4. Cardinality(upTo(i)) # 0
    BY <2>1, <2>3, FS_EmptySet
  <2>. QED BY <1>2, <2>1, <2>2, <2>4
<1>4. ASSUME NEW i \in P, NEW k \in P, number[i] = number[k]
      PROVE  ~(i < k)
  <2>. SUFFICES ASSUME i < k PROVE FALSE
    OBVIOUS
  <2>1. upTo(i) \in SUBSET upTo(k)
    <3>1. \A j \in P : j \in Int
      OBVIOUS
    <3>2. \A j \in P : j <= i => j <= k
      BY <3>1
    <3>. QED BY <3>2
  <2>2. Cardinality(upTo(k)) = Cardinality(upTo(i))
    BY <1>4
  <2>3. upTo(k) = upTo(i)
    BY <1>3, <2>1, <2>2, FS_Subset
  <2>. QED BY <2>3
<1>5. \A i, k \in P : number[i] = number[k] => i = k
  BY <1>4
<1>6. number \in Injection(P, 1..Cardinality(P))
  BY <1>3, <1>5 DEF Injection, IsInjective
<1>7. /\ IsFiniteSet(1..Cardinality(P))
      /\ Cardinality(1..Cardinality(P)) = Cardinality(P)
  BY <1>2, FS_Interval
<1>8. number \in Surjection(P, 1..Cardinality(P))
  BY <1>6, <1>7, FS_Injection
<1>. QED BY <1>2, <1>3, <1>5, <1>8 DEF Surjection

(* A finite set can be listed, and a list of as many members as it has,    *)
(* none of them twice, is all of it.                                       *)
LEMMA SetsAreListed ==
  ASSUME NEW S, IsFiniteSet(S)
  PROVE  /\ Cardinality(S) \in Nat
         /\ \E f \in [1..Cardinality(S) -> S] : IsInjective(f)
         /\ \A f \in [1..Cardinality(S) -> S] :
              IsInjective(f) => \A x \in S : \E i \in 1..Cardinality(S) : f[i] = x
<1>1. Cardinality(S) \in Nat /\ ExistsBijection(1..Cardinality(S), S)
  BY FS_CardinalityType
<1>2. PICK g : g \in Bijection(1..Cardinality(S), S)
  BY <1>1 DEF ExistsBijection
<1>3. g \in [1..Cardinality(S) -> S] /\ IsInjective(g)
  BY <1>2 DEF Bijection, Injection
<1>4. Cardinality(1..Cardinality(S)) = Cardinality(S)
  BY <1>1, FS_Interval
<1>5. ASSUME NEW f \in [1..Cardinality(S) -> S], IsInjective(f)
      PROVE  \A x \in S : \E i \in 1..Cardinality(S) : f[i] = x
  <2>1. f \in Injection(1..Cardinality(S), S)
    BY <1>5 DEF Injection
  <2>2. f \in Surjection(1..Cardinality(S), S)
    BY <1>4, <2>1, FS_Injection
  <2>. QED BY <2>2 DEF Surjection
<1>. QED BY <1>1, <1>3, <1>5

(* A strict total order of a set is given as the set R of the pairs of     *)
(* which the first precedes the second.                                    *)
Precedence(S, R) ==
  /\ \A x \in S : <<x, x>> \notin R
  /\ \A x, y \in S : x # y => <<x, y>> \in R \/ <<y, x>> \in R
  /\ \A x, y, z \in S : <<x, y>> \in R /\ <<y, z>> \in R => <<x, z>> \in R

(* A list of a finite set in an order: each member once, and in that order. *)
ListsInOrder(list, S, R) ==
  /\ list \in [1..Cardinality(S) -> S]
  /\ \A i, j \in 1..Cardinality(S) : i # j => list[i] # list[j]
  /\ \A i, j \in 1..Cardinality(S) : i < j => <<list[i], list[j]>> \in R

(* Each member has a place: the number of those up to it. The members by   *)
(* their places are in order ...                                           *)
UpTo(S, R, x) == {y \in S : y = x \/ <<y, x>> \in R}

ByPlace(S, R) ==
  [k \in 1..Cardinality(S) |-> CHOOSE x \in S : Cardinality(UpTo(S, R, x)) = k]

LEMMA OrdersAreListed ==
  ASSUME NEW S, IsFiniteSet(S), NEW R, Precedence(S, R)
  PROVE  Cardinality(S) \in Nat /\ ListsInOrder(ByPlace(S, R), S, R)
<1>. DEFINE n == Cardinality(S)
            place == [x \in S |-> Cardinality(UpTo(S, R, x))]
<1>1. n \in Nat
  BY FS_CardinalityType
<1>2. \A x \in S : IsFiniteSet(UpTo(S, R, x)) /\ x \in UpTo(S, R, x) /\ UpTo(S, R, x) \subseteq S
  BY FS_Subset DEF UpTo
<1>3. ASSUME NEW x \in S PROVE place[x] \in 1..n
  <2>1. Cardinality(UpTo(S, R, x)) \in Nat /\ Cardinality(UpTo(S, R, x)) <= n /\ Cardinality(UpTo(S, R, x)) # 0
    BY <1>2, FS_Subset, FS_CardinalityType, FS_EmptySet
  <2>. QED BY <1>1, <2>1
<1>4. ASSUME NEW x \in S, NEW y \in S, <<x, y>> \in R PROVE place[x] < place[y]
  <2>1. UpTo(S, R, x) \subseteq UpTo(S, R, y) /\ y \notin UpTo(S, R, x)
    BY <1>4 DEF UpTo, Precedence
  <2>2. UpTo(S, R, x) # UpTo(S, R, y) /\ UpTo(S, R, x) \in SUBSET UpTo(S, R, y)
    BY <1>2, <2>1
  <2>3. Cardinality(UpTo(S, R, x)) < Cardinality(UpTo(S, R, y))
    <3>1. IsFiniteSet(UpTo(S, R, y)) /\ IsFiniteSet(UpTo(S, R, x))
      BY <1>2
    <3>2. Cardinality(UpTo(S, R, y)) \in Nat /\ Cardinality(UpTo(S, R, x)) \in Nat
      BY <3>1, FS_CardinalityType
    <3>. QED BY <2>2, <3>1, <3>2, FS_Subset
  <2>. QED BY <2>3
<1>. HIDE DEF place
<1>5. place \in Injection(S, 1..n)
  <2>1. place \in [S -> 1..n]
    BY <1>3 DEF place
  <2>2. ASSUME NEW x \in S, NEW y \in S, x # y PROVE place[x] # place[y]
    <3>1. place[x] \in Int /\ place[y] \in Int
      BY <1>3
    <3>2. <<x, y>> \in R \/ <<y, x>> \in R
      BY <2>2 DEF Precedence
    <3>3. place[x] < place[y] \/ place[y] < place[x]
      BY <1>4, <3>2
    <3>. QED BY <3>1, <3>3
  <2>. QED BY <2>1, <2>2 DEF Injection, IsInjective
<1>6. place \in Surjection(S, 1..n)
  <2>1. IsFiniteSet(1..n) /\ Cardinality(1..n) = n
    BY <1>1, FS_Interval
  <2>. QED BY <1>5, <2>1, FS_Injection
<1>7. \A i \in 1..n : \E x \in S : place[x] = i
  BY <1>6 DEF Surjection
<1>. DEFINE list == ByPlace(S, R)
<1>8. \A i \in 1..n : list[i] \in S /\ place[list[i]] = i
  <2>. SUFFICES ASSUME NEW i \in 1..n PROVE list[i] \in S /\ place[list[i]] = i
    OBVIOUS
  <2>1. \E x \in S : Cardinality(UpTo(S, R, x)) = i
    BY <1>7 DEF place
  <2>2. list[i] = CHOOSE x \in S : Cardinality(UpTo(S, R, x)) = i
    BY DEF ByPlace
  <2>3. list[i] \in S /\ Cardinality(UpTo(S, R, list[i])) = i
    BY <2>1, <2>2
  <2>. QED BY <2>3 DEF place
<1>9. list \in [1..n -> S]
  BY <1>8 DEF ByPlace
<1>10. \A i, j \in 1..n : i # j => list[i] # list[j]
  <2>. HIDE DEF list
  <2>. QED BY <1>8
<1>11. ASSUME NEW i \in 1..n, NEW j \in 1..n, i < j PROVE <<list[i], list[j]>> \in R
  <2>. HIDE DEF list
  <2>1. list[i] \in S /\ list[j] \in S /\ list[i] # list[j]
    BY <1>8, <1>10, <1>11
  <2>2. ~(place[list[j]] < place[list[i]])
    BY <1>8, <1>11
  <2>. QED BY <1>4, <2>1, <2>2 DEF Precedence
<1>. HIDE DEF list
<1>. QED BY <1>1, <1>9, <1>10, <1>11 DEF ListsInOrder, list

(* ... and in no other way: what is listed k-th has k members up to it.    *)
LEMMA ListedByPlace ==
  ASSUME NEW S, IsFiniteSet(S), NEW R, Precedence(S, R),
         NEW list, ListsInOrder(list, S, R), NEW k \in 1..Cardinality(S)
  PROVE  Cardinality(UpTo(S, R, list[k])) = k
<1>. DEFINE n == Cardinality(S)
            those == UpTo(S, R, list[k])
            first == [i \in 1..k |-> list[i]]
<1>1. n \in Nat /\ k \in Nat
  BY FS_CardinalityType
<1>0. /\ list \in [1..n -> S]
      /\ \A i, j \in 1..n : i # j => list[i] # list[j]
      /\ \A i, j \in 1..n : i < j => <<list[i], list[j]>> \in R
  BY DEF ListsInOrder
<1>2. \A x \in S : \E i \in 1..n : list[i] = x
  BY <1>0, SetsAreListed DEF IsInjective
<1>3. ASSUME NEW i \in 1..k PROVE list[i] \in those
  BY <1>0, <1>1, <1>3 DEF UpTo
<1>4. ASSUME NEW y \in those PROVE \E i \in 1..k : list[i] = y
  <2>1. PICK i \in 1..n : list[i] = y
    BY <1>2 DEF UpTo
  <2>2. ~(k < i)
    BY <1>0, <1>1, <1>4, <2>1 DEF UpTo, Precedence
  <2>. QED BY <1>1, <2>1, <2>2
<1>. HIDE DEF those
<1>5. first \in [1..k -> those] /\ \A i, j \in 1..k : i # j => first[i] # first[j]
  BY <1>0, <1>1, <1>3
<1>6. \A y \in those : \E i \in 1..k : first[i] = y
  BY <1>4
<1>7. first \in Bijection(1..k, those)
  <2>. HIDE DEF first
  <2>. QED BY <1>5, <1>6 DEF Bijection, Injection, Surjection, IsInjective
<1>8. ExistsBijection(1..k, those)
  BY <1>7 DEF ExistsBijection
<1>9. IsFiniteSet(1..k) /\ Cardinality(1..k) = k
  BY <1>1, FS_Interval
<1>10. Cardinality(those) = Cardinality(1..k)
  BY <1>8, <1>9, FS_Bijection
<1>. QED BY <1>9, <1>10 DEF those

LEMMA ListsAreUnique ==
  ASSUME NEW S, IsFiniteSet(S), NEW R, Precedence(S, R),
         NEW one, ListsInOrder(one, S, R), NEW two, ListsInOrder(two, S, R)
  PROVE  one = two
<1>. DEFINE n == Cardinality(S)
            place == [x \in S |-> Cardinality(UpTo(S, R, x))]
<1>1. one \in [1..n -> S] /\ two \in [1..n -> S] /\ IsInjective(two)
  BY DEF ListsInOrder, IsInjective
<1>2. \A k \in 1..n : Cardinality(UpTo(S, R, one[k])) = k /\ Cardinality(UpTo(S, R, two[k])) = k
  BY ListedByPlace
<1>3. \A k \in 1..n : place[one[k]] = k /\ place[two[k]] = k
  BY <1>1, <1>2
<1>4. \A x \in S : \E i \in 1..n : two[i] = x
  BY <1>1, SetsAreListed
<1>. HIDE DEF place
<1>5. ASSUME NEW k \in 1..n PROVE one[k] = two[k]
  <2>1. PICK i \in 1..n : two[i] = one[k]
    BY <1>1, <1>4
  <2>2. i = k
    BY <1>3, <2>1
  <2>. QED BY <2>1, <2>2
<1>6. one = [k \in 1..n |-> one[k]] /\ two = [k \in 1..n |-> two[k]]
  BY <1>1
<1>. QED BY <1>5, <1>6

(* Counting the members of a set group by group counts them all.           *)
LEMMA GroupsAddUp ==
  ASSUME NEW S, IsFiniteSet(S), NEW G, IsFiniteSet(G), NEW group \in [S -> G]
  PROVE  SumFunction([g \in G |-> Cardinality({x \in S : group[x] = g})]) = Cardinality(S)
<1>. DEFINE Of(T) == {x \in S : group[x] \in T}
            One(g) == {x \in S : group[x] = g}
            count == [g \in G |-> Cardinality(One(g))]
            Good == {T \in SUBSET G : Folded(count)[T] = Cardinality(Of(T))}
<1>1. count \in [G -> Int]
  <2>1. \A g \in G : IsFiniteSet(One(g))
    BY FS_Subset
  <2>2. \A g \in G : Cardinality(One(g)) \in Int
    BY <2>1, FS_CardinalityType
  <2>. QED BY <2>2
<1>2. \A T \in SUBSET G : IsFiniteSet(Of(T)) /\ Cardinality(Of(T)) \in Nat
  BY FS_Subset, FS_CardinalityType
<1>. HIDE DEF count
<1>3. ASSUME NEW T \in SUBSET G, \A U \in SUBSET T : U # T => U \in Good
      PROVE  T \in Good
  <2>1. CASE T = {}
    <3>1. Of(T) = {}
      BY <2>1
    <3>2. Folded(count)[T] = 0
      BY <1>1, <2>1, FoldedAdds DEF Adds
    <3>. QED BY <3>1, <3>2, FS_EmptySet
  <2>2. CASE T # {}
    <3>1. PICK g \in T : TRUE
      BY <2>2
    <3>2. Folded(count)[T] = count[g] + Folded(count)[T \ {g}]
      BY <1>1, AnyMemberLast
    <3>3. Folded(count)[T \ {g}] = Cardinality(Of(T \ {g}))
      BY <1>3
    <3>4. /\ Of(T) = Of(T \ {g}) \cup One(g)
          /\ Of(T \ {g}) \cap One(g) = {}
          /\ IsFiniteSet(One(g)) /\ IsFiniteSet(Of(T \ {g}))
      BY FS_Subset
    <3>5. count[g] = Cardinality(One(g))
      BY DEF count
    <3>6. Cardinality(One(g)) \in Nat /\ Cardinality(Of(T \ {g})) \in Nat
      BY <1>2, <3>4, FS_CardinalityType
    <3>. HIDE DEF Of, One
    <3>7. Cardinality(Of(T)) = Cardinality(Of(T \ {g})) + Cardinality(One(g))
      <4>1. Cardinality(Of(T \ {g}) \cap One(g)) = 0
        BY <3>4, FS_EmptySet
      <4>2. Cardinality(Of(T \ {g}) \cup One(g))
              = Cardinality(Of(T \ {g})) + Cardinality(One(g)) - Cardinality(Of(T \ {g}) \cap One(g))
        BY <3>4, FS_Union
      <4>. QED BY <3>4, <3>6, <4>1, <4>2
    <3>. QED BY <3>2, <3>3, <3>5, <3>6, <3>7
  <2>. QED BY <2>1, <2>2
<1>4. G \in Good
  <2>. HIDE DEF Good
  <2>. QED BY <1>3, SubsetInduction
<1>5. Of(G) = S
  OBVIOUS
<1>6. DOMAIN count = G
  BY DEF count
<1>7. SumFunction(count) = Folded(count)[G]
  BY <1>6, SumUnfolded
<1>. QED BY <1>4, <1>5, <1>7 DEF count
=============================================================================
