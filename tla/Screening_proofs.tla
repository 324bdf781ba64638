-------------------------- MODULE Screening_proofs --------------------------
(***************************************************************************)
(* What a run promises, for every market, every weight and every capacity: *)
(* first what the choice of candidates does with any well-formed evidence, *)
(* then what the ranking does with any factors, then that each stage       *)
(* leaves what it computes (IInv), from which the properties follow.       *)
(***************************************************************************)
EXTENDS Screening, SetLemmas, SequenceTheorems

WellFormed(evidence) ==
  /\ DOMAIN evidence \subseteq Symbol
  /\ \A s \in DOMAIN evidence :
       /\ IsFiniteSet(evidence[s].qualified)
       /\ evidence[s].qualified # {}
       /\ \A q \in evidence[s].qualified : q.rank \in Int /\ q.strategy \in Strategy

-----------------------------------------------------------------------------
(* Nothing is selected but what was considered. *)
LEMMA SelectedConsidered ==
  ASSUME NEW evidence
  PROVE  Select(evidence) \subseteq Considered(evidence)
<1>1. \A x \in Strategy : ReserveOf(evidence, x) \subseteq Considered(evidence)
  BY DEF ReserveOf, FirstOf, QualifiedFor
<1>2. SoftReserve(evidence) \subseteq Considered(evidence)
  BY <1>1 DEF SoftReserve
<1>3. Fill(evidence) \subseteq Considered(evidence)
  BY DEF Fill, FirstOf
<1>. QED BY <1>2, <1>3 DEF Select

LEMMA SelectionHasNobodyVetoed ==
  ASSUME NEW evidence
  PROVE  NobodyVetoed(evidence, Select(evidence))
BY SelectedConsidered DEF NobodyVetoed, Considered

(* Of two that qualify for a strategy at most one is ahead.                *)
LEMMA AheadIsStrict ==
  ASSUME NEW evidence, WellFormed(evidence), NEW x,
         NEW s \in QualifiedFor(evidence, x), NEW t \in QualifiedFor(evidence, x),
         AheadIn(evidence, x, s, t) \/ s = t
  PROVE  ~AheadIn(evidence, x, t, s)
<1>1. s \in DOMAIN evidence /\ t \in DOMAIN evidence
  BY DEF QualifiedFor, Considered
<1>2. s \in Nat /\ t \in Nat
  BY <1>1, SelectionAssumption DEF WellFormed
<1>3. \A u \in QualifiedFor(evidence, x) : RankIn(evidence, u, x) \in Int
  <2>. SUFFICES ASSUME NEW u \in QualifiedFor(evidence, x)
                PROVE  RankIn(evidence, u, x) \in Int
    OBVIOUS
  <2>1. u \in DOMAIN evidence
    BY DEF QualifiedFor, Considered
  <2>2. \E q \in evidence[u].qualified : q.strategy = x
    BY DEF QualifiedFor
  <2>3. (CHOOSE q \in evidence[u].qualified : q.strategy = x) \in evidence[u].qualified
    BY <2>2
  <2>. QED BY <2>1, <2>3 DEF RankIn, WellFormed
<1>4. RankIn(evidence, s, x) \in Int /\ RankIn(evidence, t, x) \in Int
  BY <1>3
<1>. QED BY <1>2, <1>4 DEF AheadIn

LEMMA SelectionHasTheBest ==
  ASSUME NEW evidence, WellFormed(evidence)
  PROVE  BestOfEach(evidence, Select(evidence))
<1>. SUFFICES ASSUME NEW x \in Strategy, NEW s \in QualifiedFor(evidence, x),
                     \A t \in QualifiedFor(evidence, x) \ {s} : AheadIn(evidence, x, s, t)
              PROVE  s \in Select(evidence)
  BY DEF BestOfEach
<1>1. \A t \in QualifiedFor(evidence, x) : ~AheadIn(evidence, x, t, s)
  BY AheadIsStrict
<1>2. {t \in QualifiedFor(evidence, x) : AheadIn(evidence, x, t, s)} = {}
  BY <1>1
<1>3. Cardinality({t \in QualifiedFor(evidence, x) : AheadIn(evidence, x, t, s)}) < Reserve
  BY <1>2, FS_EmptySet, SelectionAssumption
<1>4. s \in ReserveOf(evidence, x)
  BY <1>3 DEF ReserveOf, FirstOf
<1>. QED BY <1>4 DEF Select, SoftReserve

-----------------------------------------------------------------------------
(* Capacity goes by priority. *)

LEMMA BestIsThere ==
  ASSUME NEW quals, IsFiniteSet(quals), quals # {}, \A q \in quals : q.rank \in Int
  PROVE  /\ \E q \in quals : q.rank = Max({p.rank : p \in quals})
         /\ \A q \in quals : q.rank <= Max({p.rank : p \in quals})
<1>. DEFINE rank == [q \in quals |-> q.rank]
            ranks == {p.rank : p \in quals}
<1>1. ranks = {rank[q] : q \in quals}
  OBVIOUS
<1>2. IsFiniteSet({rank[q] : q \in quals})
  BY ImageIsFinite
<1>3. IsFiniteSet(ranks) /\ ranks \subseteq Int /\ ranks # {}
  BY <1>1, <1>2
<1>. HIDE DEF ranks
<1>4. Max(ranks) \in ranks /\ \A r \in ranks : Max(ranks) >= r
  BY <1>3, MaxIsMember
<1>5. \E q \in quals : q.rank = Max(ranks)
  BY <1>4 DEF ranks
<1>6. \A q \in quals : q.rank \in ranks
  BY DEF ranks
<1>7. \A q \in quals : q.rank <= Max(ranks)
  BY <1>3, <1>4, <1>6
<1>. QED BY <1>5, <1>7 DEF ranks

LEMMA BestRankIsWhole ==
  ASSUME NEW evidence, WellFormed(evidence), NEW s \in DOMAIN evidence
  PROVE  BestRank(evidence, s) \in Int
<1>. DEFINE quals == evidence[s].qualified
<1>1. IsFiniteSet(quals) /\ quals # {} /\ \A q \in quals : q.rank \in Int
  BY DEF WellFormed
<1>. HIDE DEF quals
<1>2. \E best \in quals : \A p \in quals : p.rank <= best.rank
  BY <1>1, BestIsThere
<1>3. (CHOOSE q \in quals : \A p \in quals : p.rank <= q.rank) \in quals
  BY <1>2
<1>. QED BY <1>1, <1>3 DEF BestRank, quals

(* Priority is a strict total order of the considered.                     *)
LEMMA BeforeIsTotal ==
  ASSUME NEW evidence, WellFormed(evidence)
  PROVE  /\ \A s, t \in DOMAIN evidence : s # t => Before(evidence, s, t) \/ Before(evidence, t, s)
         /\ \A s \in DOMAIN evidence : ~Before(evidence, s, s)
         /\ \A s, t, u \in DOMAIN evidence :
              Before(evidence, s, t) /\ Before(evidence, t, u) => Before(evidence, s, u)
<1>1. \A s \in DOMAIN evidence : BestRank(evidence, s) \in Int
  BY BestRankIsWhole
<1>2. \A s \in DOMAIN evidence : Cardinality(evidence[s].qualified) \in Nat
  BY FS_CardinalityType DEF WellFormed
<1>3. \A s \in DOMAIN evidence : Confirmed(evidence, s) \in Int
  BY DEF Confirmed
<1>4. \A s \in DOMAIN evidence : s \in Nat
  BY SelectionAssumption DEF WellFormed
<1>. QED BY <1>1, <1>2, <1>3, <1>4 DEF Before

LEMMA SelectionIsFair ==
  ASSUME NEW evidence, WellFormed(evidence)
  PROVE  LeftOutFairly(evidence, Select(evidence))
<1>. DEFINE reserve == SoftReserve(evidence)
            fill == Fill(evidence)
            rest == Considered(evidence) \ reserve
            n == MaxCandidates - Cardinality(reserve)
            Ahead(s) == {t \in rest : Before(evidence, t, s)}
            left == rest \ fill
<1>1. Considered(evidence) \subseteq DOMAIN evidence /\ IsFiniteSet(DOMAIN evidence)
  BY FS_Subset, SelectionAssumption DEF Considered, WellFormed
<1>2. reserve \subseteq Considered(evidence) /\ fill \subseteq rest
  BY SelectedConsidered DEF Select, Fill, FirstOf
<1>3. IsFiniteSet(reserve) /\ IsFiniteSet(fill) /\ IsFiniteSet(rest)
  BY <1>1, <1>2, FS_Subset
<1>4. Cardinality(reserve) \in Nat /\ Cardinality(fill) \in Nat /\ n \in Int
  BY <1>3, FS_CardinalityType, SelectionAssumption
<1>5. \A s \in rest : s \in fill <=> Cardinality(Ahead(s)) < n
  BY DEF Fill, FirstOf
<1>6. \A s : IsFiniteSet(Ahead(s)) /\ Cardinality(Ahead(s)) \in Nat
  BY <1>3, FS_Subset, FS_CardinalityType
<1>7. rest \subseteq DOMAIN evidence
  BY <1>1
<1>. HIDE DEF reserve, fill, rest, n
(* Who is left out has at least n ahead, who fills fewer.                  *)
<1>8. ASSUME NEW s \in left, NEW t \in fill
      PROVE  Before(evidence, t, s)
  <2>. SUFFICES ASSUME ~Before(evidence, t, s) PROVE FALSE
    OBVIOUS
  <2>1. s \in rest /\ t \in rest /\ s # t
    BY <1>2
  <2>2. Before(evidence, s, t)
    BY <2>1, <1>7, BeforeIsTotal
  <2>3. Ahead(s) \subseteq Ahead(t)
    BY <2>1, <2>2, <1>7, BeforeIsTotal
  <2>4. Cardinality(Ahead(s)) <= Cardinality(Ahead(t))
    BY <2>3, <1>6, FS_Subset
  <2>5. Cardinality(Ahead(t)) < n /\ ~(Cardinality(Ahead(s)) < n)
    BY <2>1, <1>5
  <2>. QED BY <2>4, <2>5, <1>4, <1>6
(* Of the left out take one with the fewest ahead: all of these fill.      *)
<1>9. ASSUME left # {}
      PROVE  Cardinality(fill) >= n
  <2>. DEFINE counts == {Cardinality(Ahead(s)) : s \in left}
  <2>1. counts \subseteq Nat /\ counts # {}
    BY <1>6, <1>9
  <2>2. PICK m \in left : Cardinality(Ahead(m)) = Min(counts)
    BY <2>1, MinIsMember
  <2>3. \A s \in left : Cardinality(Ahead(m)) <= Cardinality(Ahead(s))
    <3>1. \A s \in left : Cardinality(Ahead(s)) \in counts
      OBVIOUS
    <3>. HIDE DEF counts
    <3>. QED BY <2>1, <2>2, <3>1, MinIsMember
  <2>4. Ahead(m) \subseteq fill
    <3>. SUFFICES ASSUME NEW y \in Ahead(m), y \notin fill PROVE FALSE
      OBVIOUS
    <3>1. y \in left /\ m \in rest /\ y \in rest
      OBVIOUS
    <3>2. Ahead(y) \subseteq Ahead(m)
      BY <3>1, <1>7, BeforeIsTotal
    <3>3. y \in Ahead(m) /\ y \notin Ahead(y)
      BY <3>1, <1>7, BeforeIsTotal
    <3>4. Ahead(y) # Ahead(m) /\ Ahead(y) \in SUBSET Ahead(m)
      BY <3>2, <3>3
    <3>5. Cardinality(Ahead(y)) < Cardinality(Ahead(m))
      <4>. HIDE DEF Ahead
      <4>. QED BY <3>4, <1>6, FS_Subset
    <3>. HIDE DEF Ahead
    <3>. QED BY <3>1, <3>5, <2>3, <1>6
  <2>5. Cardinality(Ahead(m)) <= Cardinality(fill)
    BY <2>4, <1>3, FS_Subset
  <2>6. ~(Cardinality(Ahead(m)) < n)
    BY <1>5
  <2>. QED BY <2>5, <2>6, <1>4, <1>6
<1>10. reserve \cap fill = {}
  BY <1>2 DEF rest
<1>11. Cardinality(reserve \cup fill) = Cardinality(reserve) + Cardinality(fill)
  <2>1. Cardinality(reserve \cap fill) = 0
    BY <1>10, FS_EmptySet
  <2>2. Cardinality(reserve \cup fill)
          = Cardinality(reserve) + Cardinality(fill) - Cardinality(reserve \cap fill)
    BY <1>3, FS_Union
  <2>. QED BY <1>4, <2>1, <2>2
<1>12. Select(evidence) = reserve \cup fill
  BY DEF Select, reserve, fill
<1>13. Considered(evidence) \ Select(evidence) = left
  BY <1>12 DEF rest
<1>14. left # {} => Cardinality(Select(evidence)) >= MaxCandidates
  BY <1>4, <1>9, <1>11, <1>12, SelectionAssumption DEF n
<1>15. Select(evidence) \ SoftReserve(evidence) \subseteq fill
  BY <1>12 DEF reserve
<1>. QED BY <1>8, <1>13, <1>14, <1>15 DEF LeftOutFairly

-----------------------------------------------------------------------------
(* The ranking: a percentile rises with the value, so a score rises with   *)
(* every factor it weighs.                                                 *)

LEMMA RankIsWhole ==
  ASSUME NEW D, IsFiniteSet(D), NEW values, DOMAIN values = D, NEW s, D # {}
  PROVE  PercentileRank(values, s) \in Int
<1>. DEFINE less == {t \in DOMAIN values : values[t] < values[s]}
            same == {t \in DOMAIN values : values[t] = values[s]}
            n == Cardinality(D)
<1>1. n \in Nat /\ n # 0
  BY FS_CardinalityType, FS_EmptySet
<1>2. IsFiniteSet(less) /\ IsFiniteSet(same)
  BY FS_Subset
<1>3. Cardinality(less) \in Nat /\ Cardinality(same) \in Nat
  BY <1>2, FS_CardinalityType
<1>4. (Whole \div (2 * n)) \in Int
  BY <1>1, ScreeningAssumption
<1>. HIDE DEF less, same, n
<1>5. (2 * Cardinality(less) + Cardinality(same) + 1) * (Whole \div (2 * n)) \in Int
  BY <1>3, <1>4
<1>. QED BY <1>5 DEF PercentileRank, less, same, n

LEMMA ProductRises ==
  ASSUME NEW a \in Int, NEW b \in Int, NEW k \in Nat, a >= b
  PROVE  a * k >= b * k
OBVIOUS

LEMMA RankRises ==
  ASSUME NEW D, IsFiniteSet(D), NEW values \in [D -> Int], NEW s \in D, NEW t \in D,
         values[s] >= values[t]
  PROVE  PercentileRank(values, s) >= PercentileRank(values, t)
<1>. DEFINE Less(x) == {y \in D : values[y] < values[x]}
            Same(x) == {y \in D : values[y] = values[x]}
            Place(x) == 2 * Cardinality(Less(x)) + Cardinality(Same(x)) + 1
            step == Whole \div (2 * Cardinality(D))
<1>1. Cardinality(D) \in Nat /\ Cardinality(D) # 0
  BY FS_CardinalityType, FS_EmptySet
<1>2. step \in Nat
  BY <1>1, ScreeningAssumption
<1>3. \A x \in D : IsFiniteSet(Less(x)) /\ IsFiniteSet(Same(x))
  BY FS_Subset
<1>4. \A x \in D : Cardinality(Less(x)) \in Nat /\ Cardinality(Same(x)) \in Nat
  BY <1>3, FS_CardinalityType
<1>5. Place(s) >= Place(t)
  <2>1. CASE values[s] = values[t]
    <3>1. Less(s) = Less(t) /\ Same(s) = Same(t)
      BY <2>1
    <3>. HIDE DEF Less, Same
    <3>. QED BY <3>1, <1>4
  <2>2. CASE values[s] > values[t]
    <3>1. Less(t) \cup Same(t) \subseteq Less(s) /\ Less(t) \cap Same(t) = {}
      BY <2>2
    <3>. HIDE DEF Less, Same
    <3>2. Cardinality(Less(t) \cap Same(t)) = 0
      BY <3>1, FS_EmptySet
    <3>3. Cardinality(Less(t) \cup Same(t))
            = Cardinality(Less(t)) + Cardinality(Same(t)) - Cardinality(Less(t) \cap Same(t))
      BY <1>3, FS_Union
    <3>4. Cardinality(Less(t) \cup Same(t)) <= Cardinality(Less(s))
      BY <3>1, <1>3, FS_Subset
    <3>. QED BY <3>2, <3>3, <3>4, <1>4
  <2>. QED BY <2>1, <2>2
<1>6. Place(s) \in Int /\ Place(t) \in Int
  <2>. HIDE DEF Less, Same
  <2>. QED BY <1>4
<1>7. PercentileRank(values, s) = Place(s) * step /\ PercentileRank(values, t) = Place(t) * step
  BY DEF PercentileRank
<1>. HIDE DEF Place, step
<1>. QED BY <1>2, <1>5, <1>6, <1>7, ProductRises

Measured(x, population, factors) ==
  \A s \in population, f \in DOMAIN Weights[x] : factors[s][f] \in Int

(* As good as the other in what the strategy weighs.                       *)
AsGood(x, factors, s, t) ==
  \A f \in DOMAIN Weights[x] :
    IF Weights[x][f] > 0 THEN factors[s][f] >= factors[t][f] ELSE factors[s][f] <= factors[t][f]

LEMMA SharesAreWhole ==
  ASSUME NEW x \in Strategy, NEW population, IsFiniteSet(population), NEW factors,
         NEW s \in population
  PROVE  Shares(x, population, factors, s) \in [DOMAIN Weights[x] -> Int]
<1>. SUFFICES ASSUME NEW f \in DOMAIN Weights[x]
              PROVE  Magnitude(Weights[x][f])
                       * PercentileRank(Oriented(x, population, factors, f), s) \in Int
  BY DEF Shares
<1>1. DOMAIN Oriented(x, population, factors, f) = population
  BY DEF Oriented
<1>2. PercentileRank(Oriented(x, population, factors, f), s) \in Int
  BY <1>1, RankIsWhole
<1>3. Magnitude(Weights[x][f]) \in Int
  BY WeightsAssumption DEF Magnitude
<1>. QED BY <1>2, <1>3

LEMMA BlendIsWhole ==
  ASSUME NEW x \in Strategy, NEW population, IsFiniteSet(population), NEW factors
  PROVE  Blend(x, population, factors) \in [population -> Int]
<1>. SUFFICES ASSUME NEW s \in population
              PROVE  SumFunction(Shares(x, population, factors, s)) \in Int
  BY DEF Blend
<1>1. IsFiniteSet(DOMAIN Weights[x])
  BY WeightsAssumption
<1>. QED BY <1>1, SharesAreWhole, SumIsWhole

LEMMA BlendRises ==
  ASSUME NEW x \in Strategy, NEW population, IsFiniteSet(population), NEW factors,
         Measured(x, population, factors),
         NEW s \in population, NEW t \in population, AsGood(x, factors, s, t)
  PROVE  Blend(x, population, factors)[s] >= Blend(x, population, factors)[t]
<1>. DEFINE own == Shares(x, population, factors, s)
            other == Shares(x, population, factors, t)
<1>1. own \in [DOMAIN Weights[x] -> Int] /\ other \in [DOMAIN Weights[x] -> Int]
  BY SharesAreWhole
<1>2. ASSUME NEW f \in DOMAIN Weights[x]
      PROVE  other[f] <= own[f]
  <2>. DEFINE values == Oriented(x, population, factors, f)
  <2>1. Weights[x][f] \in Int
    BY WeightsAssumption
  <2>2. values \in [population -> Int] /\ values[s] >= values[t]
    BY <2>1 DEF Oriented, Measured, AsGood
  <2>3. PercentileRank(values, s) >= PercentileRank(values, t)
    <3>. HIDE DEF values
    <3>. QED BY <2>2, RankRises
  <2>4. PercentileRank(values, s) \in Int /\ PercentileRank(values, t) \in Int
    <3>. HIDE DEF values
    <3>. QED BY <2>2, RankIsWhole
  <2>5. Magnitude(Weights[x][f]) \in Nat
    BY <2>1 DEF Magnitude
  <2>6. PercentileRank(values, s) * Magnitude(Weights[x][f])
          >= PercentileRank(values, t) * Magnitude(Weights[x][f])
    <3>. HIDE DEF values
    <3>. QED BY <2>3, <2>4, <2>5, ProductRises
  <2>7. /\ own[f] = Magnitude(Weights[x][f]) * PercentileRank(values, s)
        /\ other[f] = Magnitude(Weights[x][f]) * PercentileRank(values, t)
    BY DEF Shares
  <2>. HIDE DEF values, own, other
  <2>. QED BY <2>4, <2>5, <2>6, <2>7
<1>3. IsFiniteSet(DOMAIN Weights[x])
  BY WeightsAssumption
<1>4. SumFunction(other) <= SumFunction(own)
  <2>. HIDE DEF own, other
  <2>. QED BY <1>1, <1>2, <1>3, SumMonotone
<1>5. SumFunction(other) \in Int /\ SumFunction(own) \in Int
  <2>. HIDE DEF own, other
  <2>. QED BY <1>1, <1>3, SumIsWhole
<1>. QED BY <1>4, <1>5 DEF Blend

LEMMA RankOfScored ==
  ASSUME NEW x, NEW members, NEW factors, NEW s \in members
  PROVE  Scored(x, members, factors)[s].rank
           = IF s \in Eligible(x, members, factors)
                  /\ Cardinality(Eligible(x, members, factors)) > 1
             THEN PercentileRank(Blend(x, Eligible(x, members, factors), factors), s) ELSE None
BY DEF Scored

LEMMA RanksTyped ==
  ASSUME NEW x \in Strategy, NEW members, members \subseteq Symbol, NEW factors,
         NEW s \in members
  PROVE  Scored(x, members, factors)[s].rank \in Int \cup {None}
<1>. DEFINE population == Eligible(x, members, factors)
            blends == Blend(x, population, factors)
<1>1. IsFiniteSet(population)
  BY FS_Subset, SelectionAssumption DEF Eligible
<1>2. DOMAIN blends = population
  BY DEF Blend
<1>3. ASSUME s \in population
      PROVE  PercentileRank(blends, s) \in Int
  <2>1. population # {}
    BY <1>3
  <2>. HIDE DEF population, blends
  <2>. QED BY <1>1, <1>2, <2>1, RankIsWhole
<1>. HIDE DEF blends
<1>. QED BY <1>3, RankOfScored DEF blends

LEMMA BetterScoresNoLower ==
  ASSUME NEW x \in Strategy, NEW members, members \subseteq Symbol, NEW factors,
         \A u \in members, f \in DOMAIN Weights[x] : factors[u][f] \in Int \cup {None},
         NEW s \in members, NEW t \in members,
         Scored(x, members, factors)[s].rank # None,
         Scored(x, members, factors)[t].rank # None,
         AsGood(x, factors, s, t)
  PROVE  Scored(x, members, factors)[s].rank >= Scored(x, members, factors)[t].rank
<1>. DEFINE population == Eligible(x, members, factors)
            blends == Blend(x, population, factors)
<1>1. IsFiniteSet(population)
  BY FS_Subset, SelectionAssumption DEF Eligible
<1>2. Measured(x, population, factors)
  BY DEF Eligible, Measured
<1>. HIDE DEF population
<1>3. s \in population /\ t \in population
  BY RankOfScored DEF population
<1>4. /\ Scored(x, members, factors)[s].rank = PercentileRank(blends, s)
      /\ Scored(x, members, factors)[t].rank = PercentileRank(blends, t)
  BY RankOfScored DEF population
<1>5. blends \in [population -> Int]
  BY <1>1, BlendIsWhole
<1>6. blends[s] >= blends[t]
  BY <1>1, <1>2, <1>3, BlendRises
<1>. HIDE DEF blends
<1>. QED BY <1>1, <1>3, <1>4, <1>5, <1>6, RankRises

-----------------------------------------------------------------------------
(* The run: each stage leaves what it computes and later ones keep it. A   *)
(* stage that fails leaves what the stages before it computed.             *)

Verdicts ==
  [s \in Qualified(qualified) |->
     Validated(PrimaryStrategy(qualified[s]), Evidence(market, benchmark, s))]

Signals ==
  [s \in Qualified(qualified) |-> SignalOf(PrimaryStrategy(qualified[s]), market.factors[s])]

Ranked == stage \in {"DETECT_REGIME", "MARKET_VALIDATE", "RUN_SIGNALS", "BUILD_CANDIDATES", "DONE"}
Vetted == stage \in {"RUN_SIGNALS", "BUILD_CANDIDATES", "DONE"}
Signalled == stage \in {"BUILD_CANDIDATES", "DONE"}

IInv ==
  /\ market \in Markets
  /\ stage \in Stage
  /\ regime \in Regime \cup {None}
  /\ IF stage = "BUILD_UNIVERSE" THEN universe = None
     ELSE universe = Universe(market, market.factors)
  /\ stage \in {"BUILD_UNIVERSE", "RUN_STRATEGIES"} => results = None
  /\ results # None \/ Ranked => results = StrategyResults(universe, market.factors)
  /\ Vetted => /\ qualified = Qualifications(results, universe, market.factors)
                /\ \A s \in Qualified(qualified) :
                     ~Incomplete(PrimaryStrategy(qualified[s]), Evidence(market, benchmark, s))
  /\ IF Vetted THEN validation = Verdicts ELSE validation = None
  /\ IF Signalled THEN signal = Signals ELSE signal = None
  /\ IF stage = "DONE" THEN candidates = [s \in Select(DayEvidence) |-> Candidate(s)]
     ELSE candidates = None

LEMMA InitIInv ==
  Init => IInv
BY DEF Init, IInv, Ranked, Vetted, Signalled, Stage

LEMMA NextIInv ==
  IInv /\ [Next]_vars => IInv'
<1>. SUFFICES ASSUME IInv, [Next]_vars PROVE IInv'
  OBVIOUS
<1>. USE DEF IInv, Stage, Ranked, Vetted, Signalled, Runs, Proceed, Fail
<1>1. CASE BuildUniverse
  BY <1>1 DEF BuildUniverse
<1>2. CASE RunStrategies
  BY <1>2 DEF RunStrategies
<1>3. CASE DetectRegime
  <2>1. \A breadth, trend : RegimeOf(breadth, trend) \in Regime
    BY DEF RegimeOf, Regime
  <2>. QED BY <1>3, <2>1 DEF DetectRegime
<1>4. CASE MarketValidate
  BY <1>4 DEF MarketValidate, Verdicts
<1>5. CASE RunSignals
  BY <1>5 DEF RunSignals, Verdicts, Signals
<1>6. CASE BuildCandidates
  BY <1>6 DEF BuildCandidates, Verdicts, Signals, DayEvidence, EvidenceOf, Candidate
<1>7. CASE UNCHANGED vars
  BY <1>7 DEF vars, Verdicts, Signals, DayEvidence, EvidenceOf, Candidate
<1>. QED BY <1>1, <1>2, <1>3, <1>4, <1>5, <1>6, <1>7 DEF Next

LEMMA AlwaysIInv ==
  Spec => []IInv
BY InitIInv, NextIInv, PTL DEF Spec

LEMMA MembersAreKnown ==
  ASSUME NEW m \in Markets, NEW factors
  PROVE  Universe(m, factors) \subseteq Symbol
BY ScreeningAssumption DEF Universe

LEMMA PrimaryIsAmong ==
  ASSUME NEW quals, IsFiniteSet(quals), quals # {},
         \A q \in quals : q.rank \in Int /\ q.strategy \in Strategy
  PROVE  PrimaryStrategy(quals) \in {q.strategy : q \in quals}
<1>. DEFINE best == Max({q.rank : q \in quals})
            first == {q.strategy : q \in {x \in quals : x.rank = best}}
<1>1. \E q \in quals : q.rank = best
  BY BestIsThere
<1>2. first # {} /\ first \subseteq Nat
  BY <1>1, SelectionAssumption
<1>3. Min(first) \in first
  <2>. HIDE DEF first
  <2>. QED BY <1>2, MinIsMember
<1>. QED BY <1>3 DEF PrimaryStrategy

(* What is known of a qualification.                                       *)
LEMMA QualificationIsEarned ==
  ASSUME IInv, Vetted, NEW s \in universe, NEW q \in qualified[s]
  PROVE  /\ q.strategy \in Strategy
         /\ q.rank = results[q.strategy][s].rank
         /\ q.rank \in Int
         /\ q.rank >= Floor
         /\ WithinBounds(q.strategy, market.factors[s])
         /\ s \in Eligible(q.strategy, universe, market.factors)
<1>1. PICK x \in Strategy : /\ q = [strategy |-> x, rank |-> results[x][s].rank]
                             /\ results[x][s].rank # None
                             /\ results[x][s].rank >= Floor
                             /\ WithinBounds(x, market.factors[s])
  BY DEF IInv, Qualifications
<1>2. results[x] = Scored(x, universe, market.factors)
  BY DEF IInv, Ranked, Vetted, StrategyResults
<1>3. universe \subseteq Symbol
  BY MembersAreKnown DEF IInv, Vetted
<1>4. results[x][s].rank \in Int
  BY <1>1, <1>2, <1>3, RanksTyped
<1>5. s \in Eligible(x, universe, market.factors)
  BY <1>1, <1>2, RankOfScored
<1>. QED BY <1>1, <1>4, <1>5

LEMMA QualifiedAreFew ==
  ASSUME IInv, Vetted, NEW s \in universe
  PROVE  IsFiniteSet(qualified[s])
<1>. DEFINE named == {x \in Strategy : /\ results[x][s].rank # None
                                        /\ results[x][s].rank >= Floor
                                        /\ WithinBounds(x, market.factors[s])}
            f == [x \in named |-> [strategy |-> x, rank |-> results[x][s].rank]]
<1>1. qualified[s] = {[strategy |-> x, rank |-> results[x][s].rank] : x \in named}
  BY DEF IInv, Qualifications
<1>2. {[strategy |-> x, rank |-> results[x][s].rank] : x \in named} = {f[x] : x \in named}
  OBVIOUS
<1>3. IsFiniteSet(named)
  BY FS_Subset, SelectionAssumption
<1>4. IsFiniteSet({f[x] : x \in named})
  <2>. HIDE DEF named
  <2>. QED BY <1>3, ImageIsFinite
<1>. QED BY <1>1, <1>2, <1>4

LEMMA EvidenceIsWellFormed ==
  ASSUME IInv, stage = "DONE"
  PROVE  WellFormed(DayEvidence)
<1>1. universe \subseteq Symbol
  BY MembersAreKnown DEF IInv
<1>2. DOMAIN qualified = universe
  BY DEF IInv, Vetted, Qualifications
<1>3. DOMAIN DayEvidence = Qualified(qualified)
  BY DEF DayEvidence
<1>4. Qualified(qualified) \subseteq universe /\ \A s \in Qualified(qualified) : qualified[s] # {}
  BY <1>2 DEF Qualified
<1>5. \A s \in DOMAIN DayEvidence : DayEvidence[s].qualified = qualified[s]
  BY DEF DayEvidence, EvidenceOf
<1>6. \A s \in universe : IsFiniteSet(qualified[s])
  BY QualifiedAreFew DEF Vetted
<1>7. \A s \in universe : \A q \in qualified[s] : q.rank \in Int /\ q.strategy \in Strategy
  BY QualificationIsEarned DEF Vetted
<1>. QED BY <1>1, <1>3, <1>4, <1>5, <1>6, <1>7 DEF WellFormed


(* Every state is well typed: regime, verdicts and signals are those there *)
(* are, and nobody unknown is a member or a candidate.                     *)
THEOREM TypeCorrect ==
  Spec => []TypeOK
<1>1. IInv => TypeOK
  <2>. SUFFICES ASSUME IInv PROVE TypeOK
    OBVIOUS
  <2>1. universe # None => universe \subseteq Symbol
    BY MembersAreKnown DEF IInv
  <2>2. \A x, e : Validated(x, e) \in Validation
    BY DEF Validated, Validation
  <2>3. validation # None => \A s \in DOMAIN validation : validation[s] \in Validation
    BY <2>2 DEF IInv, Verdicts
  <2>4. \A x, own : SignalOf(x, own) \in Signal
    BY DEF SignalOf, Signal
  <2>5. signal # None => \A s \in DOMAIN signal : signal[s] \in Signal
    BY <2>4 DEF IInv, Signals
  <2>6. candidates # None => DOMAIN candidates \subseteq Symbol
    <3>. SUFFICES ASSUME candidates # None PROVE DOMAIN candidates \subseteq Symbol
      OBVIOUS
    <3>1. stage = "DONE" /\ DOMAIN candidates = Select(DayEvidence)
      BY DEF IInv
    <3>2. DOMAIN candidates \subseteq DOMAIN DayEvidence
      BY <3>1, SelectedConsidered DEF Considered
    <3>. QED BY <3>1, <3>2, EvidenceIsWellFormed DEF WellFormed
  <2>. QED BY <2>1, <2>3, <2>5, <2>6 DEF TypeOK, IInv
<1>. QED BY <1>1, AlwaysIInv, PTL

-----------------------------------------------------------------------------
(* Whatever the market and the weights: who is at least as good in all     *)
(* that a strategy weighs ranks no lower in it (score_cross_section).      *)
THEOREM BetterNeverRanksLower ==
  Spec => []BetterRanksNoLower
<1>1. IInv => BetterRanksNoLower
  <2>. SUFFICES ASSUME IInv, results # None,
                       NEW x \in Strategy, NEW s \in universe, NEW t \in universe,
                       results[x][s].rank # None, results[x][t].rank # None,
                       AsGood(x, market.factors, s, t)
                PROVE  results[x][s].rank >= results[x][t].rank
    BY DEF BetterRanksNoLower, AsGood
  <2>1. universe = Universe(market, market.factors)
    BY DEF IInv
  <2>2. universe \subseteq Symbol
    BY <2>1, MembersAreKnown DEF IInv
  <2>3. results[x] = Scored(x, universe, market.factors)
    BY DEF IInv, StrategyResults
  <2>4. \A u \in universe, f \in DOMAIN Weights[x] : market.factors[u][f] \in Int \cup {None}
    BY <2>2, ScreeningAssumption DEF IInv, FactorName
  <2>5. /\ Scored(x, universe, market.factors)[s].rank # None
        /\ Scored(x, universe, market.factors)[t].rank # None
    BY <2>3
  <2>6. Scored(x, universe, market.factors)[s].rank >= Scored(x, universe, market.factors)[t].rank
    <3>. DEFINE factors == market.factors
    <3>. HIDE DEF factors
    <3>. QED BY <2>2, <2>4, <2>5, BetterScoresNoLower
  <2>. QED BY <2>3, <2>6
<1>. QED BY <1>1, AlwaysIInv, PTL

-----------------------------------------------------------------------------
LEMMA IInvReserve ==
  IInv => ReserveKept
<1>. SUFFICES ASSUME IInv, candidates # None
              PROVE  BestOfEach(DayEvidence, DOMAIN candidates)
  BY DEF ReserveKept
<1>1. stage = "DONE" /\ DOMAIN candidates = Select(DayEvidence)
  BY DEF IInv
<1>. QED BY <1>1, EvidenceIsWellFormed, SelectionHasTheBest

(* Whatever the market, the weights and the capacity: the best of every    *)
(* strategy among those nobody vetoes is a candidate (select).             *)
THEOREM EveryStrategyHeard ==
  Spec => []ReserveKept
BY AlwaysIInv, IInvReserve, PTL

LEMMA IInvVouched ==
  IInv => CandidatesVouched
<1>. SUFFICES ASSUME IInv, candidates # None
              PROVE  /\ NobodyVetoed(DayEvidence, DOMAIN candidates)
                     /\ \A s \in DOMAIN candidates :
                          /\ s \in universe
                          /\ candidates[s].primary \in candidates[s].strategies
                          /\ \A x \in candidates[s].strategies :
                               /\ results[x][s].rank >= Floor
                               /\ \A f \in DOMAIN Weights[x] \cup DOMAIN Thresholds[x] :
                                    market.factors[s][f] # None
                          /\ ~Incomplete(candidates[s].primary, Evidence(market, benchmark, s))
  BY DEF CandidatesVouched
<1>1. stage = "DONE" /\ Vetted /\ candidates = [s \in Select(DayEvidence) |-> Candidate(s)]
  BY DEF IInv, Vetted
<1>2. NobodyVetoed(DayEvidence, DOMAIN candidates)
  BY <1>1, SelectionHasNobodyVetoed
<1>3. ASSUME NEW s \in DOMAIN candidates
      PROVE  /\ s \in universe
             /\ candidates[s].primary \in candidates[s].strategies
             /\ \A x \in candidates[s].strategies :
                  /\ results[x][s].rank >= Floor
                  /\ \A f \in DOMAIN Weights[x] \cup DOMAIN Thresholds[x] :
                       market.factors[s][f] # None
             /\ ~Incomplete(candidates[s].primary, Evidence(market, benchmark, s))
  <2>1. s \in Qualified(qualified)
    BY <1>1, SelectedConsidered DEF Considered, DayEvidence
  <2>2. s \in universe /\ qualified[s] # {}
    BY <1>1, <2>1 DEF IInv, Qualified, Qualifications
  <2>3. /\ candidates[s].primary = PrimaryStrategy(qualified[s])
        /\ candidates[s].strategies = {q.strategy : q \in qualified[s]}
    BY <1>1 DEF Candidate
  <2>4. \A q \in qualified[s] : q.rank \in Int /\ q.strategy \in Strategy
    BY <1>1, <2>2, QualificationIsEarned
  <2>5. candidates[s].primary \in candidates[s].strategies
    BY <1>1, <2>2, <2>3, <2>4, PrimaryIsAmong, QualifiedAreFew
  <2>6. ASSUME NEW x \in candidates[s].strategies
        PROVE  /\ results[x][s].rank >= Floor
               /\ \A f \in DOMAIN Weights[x] \cup DOMAIN Thresholds[x] :
                    market.factors[s][f] # None
    <3>1. PICK q \in qualified[s] : x = q.strategy
      BY <2>3
    <3>2. /\ results[x][s].rank >= Floor
          /\ WithinBounds(x, market.factors[s])
          /\ s \in Eligible(x, universe, market.factors)
      BY <1>1, <2>2, <3>1, QualificationIsEarned
    <3>. QED BY <3>2 DEF WithinBounds, Eligible
  <2>7. ~Incomplete(candidates[s].primary, Evidence(market, benchmark, s))
    BY <1>1, <2>1, <2>3 DEF IInv
  <2>. QED BY <2>2, <2>5, <2>6, <2>7
<1>. QED BY <1>2, <1>3

LEMMA IInvFair ==
  IInv => NoneForgotten
<1>. SUFFICES ASSUME IInv, candidates # None
              PROVE  LeftOutFairly(DayEvidence, DOMAIN candidates)
  BY DEF NoneForgotten
<1>1. stage = "DONE" /\ DOMAIN candidates = Select(DayEvidence)
  BY DEF IInv
<1>. QED BY <1>1, EvidenceIsWellFormed, SelectionIsFair

(* Whatever the market and the capacity: a candidate is vouched for by     *)
(* every strategy it is named after, and who is left out was left out for  *)
(* want of capacity, behind all that filled it (select).                   *)
THEOREM EveryoneIsAccountedFor ==
  Spec => []SelectionAccounts
<1>1. IInv => SelectionAccounts
  BY IInvVouched, IInvFair DEF SelectionAccounts
<1>. QED BY <1>1, AlwaysIInv, PTL

-----------------------------------------------------------------------------
(* As long as the universe asks for an average amount of 150 million, and  *)
(* it does (configs/universe.yaml), a confirmed stock has it, and carries  *)
(* no signal of weakness.                                                  *)
THEOREM ConfirmedHasTheAmount ==
  ASSUME Config.min_average_turnover_20d \in Int,
         Config.min_average_turnover_20d >= 15
  PROVE  Spec => []ConfirmedIsSound
<1>1. IInv => ConfirmedIsSound
  <2>. SUFFICES ASSUME IInv, signal # None, NEW s \in DOMAIN validation,
                       validation[s] = "CONFIRMED"
                PROVE  /\ market.factors[s][Liquidity] >= 15
                       /\ signal[s] \notin {"BREAKDOWN", "TREND_WEAKEN"}
    BY DEF ConfirmedIsSound
  <2>. DEFINE primary == PrimaryStrategy(qualified[s])
              own == market.factors[s]
              readings == Evidence(market, benchmark, s)
  <2>1. Vetted /\ Signalled /\ validation = Verdicts /\ signal = Signals
    BY DEF IInv, Vetted, Signalled
  <2>2. s \in Qualified(qualified)
    BY <2>1 DEF Verdicts
  <2>3. s \in universe /\ s \in Symbol
    BY <2>1, <2>2, MembersAreKnown DEF IInv, Vetted, Qualified, Qualifications
  <2>4. ~Incomplete(primary, readings)
    BY <2>1, <2>2 DEF IInv
  <2>5. own["ret_20d"] # None /\ own[Liquidity] # None
    BY <2>4 DEF Incomplete, Evidence
  <2>6. own["ret_20d"] \in Int /\ own[Liquidity] \in Int
    BY <2>3, <2>5, ScreeningAssumption DEF IInv, FactorName
  <2>7. own[Liquidity] >= 15
    <3>1. ~Excluded(s, FirstProfile(market.listing, s), market, market.factors)
      BY <2>1, <2>3 DEF IInv, Vetted, Universe
    <3>. QED BY <2>5, <2>6, <3>1 DEF Excluded, Measure
  <2>8. TrendPositive(primary, readings)
    BY <2>1, <2>2 DEF Verdicts, Validated
  <2>9. own["ret_20d"] > 0
    BY <2>6, <2>8 DEF TrendPositive, Evidence
  <2>10. signal[s] = SignalOf(primary, own)
    BY <2>1, <2>2 DEF Signals
  <2>11. ~Below(own["ret_20d"], -15) /\ ~Below(own["ret_20d"], -5)
    BY <2>6, <2>9 DEF Below
  <2>. HIDE DEF primary, own
  <2>12. SignalOf(primary, own) \notin {"BREAKDOWN", "TREND_WEAKEN"}
    BY <2>11 DEF SignalOf
  <2>. QED BY <2>7, <2>10, <2>12 DEF own
<1>. QED BY <1>1, AlwaysIInv, PTL

-----------------------------------------------------------------------------
(* Building the universe again from the measures of its members changes    *)
(* nothing, as long as market data is required.                            *)
THEOREM ResearchSeesTheUniverse ==
  ASSUME NEW m \in Markets, Config.require_valid_market_data = TRUE
  PROVE  ResearchAnalysis(m).universe = Analysis(m).universe
<1>. DEFINE population == ResearchPopulation(m)
            unmeasured == [f \in FactorName |-> None]
            narrowed == [s \in Symbol |-> IF s \in population THEN m.factors[s] ELSE unmeasured]
<1>1. Analysis(m).universe = Universe(m, m.factors)
  BY DEF Analysis
<1>2. ResearchAnalysis(m).universe = Universe(m, narrowed)
  BY DEF ResearchAnalysis
<1>3. population = Universe(m, m.factors)
  BY DEF ResearchPopulation
<1>4. Listed(m.listing) \subseteq Symbol
  BY ScreeningAssumption
<1>. HIDE DEF narrowed, population
<1>5. ASSUME NEW s \in Listed(m.listing)
      PROVE  Excluded(s, FirstProfile(m.listing, s), m, narrowed)
               <=> Excluded(s, FirstProfile(m.listing, s), m, m.factors)
  <2>1. CASE s \in population
    <3>1. narrowed[s] = m.factors[s]
      BY <1>4, <2>1 DEF narrowed
    <3>. QED BY <3>1 DEF Excluded, Measure
  <2>2. CASE s \notin population
    <3>1. Excluded(s, FirstProfile(m.listing, s), m, m.factors)
      BY <1>3, <2>2 DEF Universe
    <3>2. narrowed[s] = unmeasured
      BY <1>4, <2>2 DEF narrowed
    <3>3. narrowed[s][Liquidity] = None
      BY <3>2 DEF FactorName
    <3>. QED BY <3>1, <3>3 DEF Excluded, Measure
  <2>. QED BY <2>1, <2>2
<1>6. Universe(m, narrowed) = Universe(m, m.factors)
  BY <1>5 DEF Universe
<1>. QED BY <1>1, <1>2, <1>6

(* The scores of the members need the factors of the members only.         *)
LEMMA ScoresAreOfMembers ==
  ASSUME NEW x, NEW members, NEW factors, NEW others,
         \A s \in members : factors[s] = others[s]
  PROVE  Scored(x, members, factors) = Scored(x, members, others)
<1>1. Eligible(x, members, factors) = Eligible(x, members, others)
  BY DEF Eligible
<1>. DEFINE population == Eligible(x, members, factors)
<1>2. \A s \in population : factors[s] = others[s]
  BY DEF Eligible
<1>. HIDE DEF population
<1>3. \A f : Oriented(x, population, factors, f) = Oriented(x, population, others, f)
  BY <1>2 DEF Oriented
<1>4. \A s : Shares(x, population, factors, s) = Shares(x, population, others, s)
  BY <1>3 DEF Shares
<1>5. Blend(x, population, factors) = Blend(x, population, others)
  BY <1>4 DEF Blend
<1>. QED BY <1>1, <1>5 DEF Scored, population

(* The first profile of a listed instrument is one of its profiles.        *)
LEMMA FirstProfileIsOfIt ==
  ASSUME NEW m \in Markets, NEW s \in Listed(m.listing)
  PROVE  /\ FirstProfile(m.listing, s) \in Range(m.listing)
         /\ FirstProfile(m.listing, s).symbol = s
<1>. DEFINE places == {i \in DOMAIN m.listing : m.listing[i].symbol = s}
<1>1. m.listing \in Seq(Range(m.listing))
  BY ScreeningAssumption
<1>2. DOMAIN m.listing \subseteq Nat
  BY <1>1
<1>3. places # {}
  BY DEF Listed, Range
<1>4. Min(places) \in places
  BY <1>2, <1>3, MinIsMember
<1>. QED BY <1>4 DEF FirstProfile, Range

(* As long as market data is required, and it is (configs/universe.yaml):  *)
(* calibration and the daily run rank the same members alike, and nobody   *)
(* the listing alone drops is a member of either.                          *)
THEOREM EntrancesMeet ==
  ASSUME Config.require_valid_market_data = TRUE
  PROVE  Spec => []EntrancesAgree
<1>1. IInv => EntrancesAgree
  <2>. SUFFICES ASSUME IInv, results # None
                PROVE  /\ ResearchAnalysis(market) = [universe |-> universe, results |-> results]
                       /\ universe \subseteq Prefiltered(market.listing)
    BY DEF EntrancesAgree
  <2>. DEFINE unmeasured == [f \in FactorName |-> None]
              narrowed == [s \in Symbol |-> IF s \in universe THEN market.factors[s] ELSE unmeasured]
  <2>1. /\ market \in Markets
        /\ universe = Universe(market, market.factors)
        /\ results = StrategyResults(universe, market.factors)
    BY DEF IInv
  <2>2. ResearchAnalysis(market)
          = [universe |-> Universe(market, narrowed),
             results |-> StrategyResults(Universe(market, narrowed), narrowed)]
    BY <2>1 DEF ResearchAnalysis, ResearchPopulation
  <2>3. Universe(market, narrowed) = universe
    <3>1. ResearchAnalysis(market).universe = Analysis(market).universe
      BY <2>1, ResearchSeesTheUniverse
    <3>. QED BY <2>1, <2>2, <3>1 DEF Analysis
  <2>4. \A s \in universe : narrowed[s] = market.factors[s]
    BY <2>1, MembersAreKnown
  <2>. HIDE DEF narrowed
  <2>5. \A x : Scored(x, universe, narrowed) = Scored(x, universe, market.factors)
    BY <2>4, ScoresAreOfMembers
  <2>6. StrategyResults(universe, narrowed) = StrategyResults(universe, market.factors)
    BY <2>5 DEF StrategyResults
  <2>7. ASSUME NEW s \in universe
        PROVE  s \in Prefiltered(market.listing)
    <3>1. /\ s \in Listed(market.listing)
          /\ ~Excluded(s, FirstProfile(market.listing, s), market, market.factors)
      BY <2>1 DEF Universe
    <3>2. /\ FirstProfile(market.listing, s) \in Range(market.listing)
          /\ FirstProfile(market.listing, s).symbol = s
      BY <2>1, <3>1, FirstProfileIsOfIt
    <3>. QED BY <3>1, <3>2 DEF Excluded, Prefiltered
  <2>. QED BY <2>1, <2>2, <2>3, <2>6, <2>7
<1>. QED BY <1>1, AlwaysIInv, PTL

-----------------------------------------------------------------------------
(* The lists of the queries. *)

LEMMA ListsEverybody ==
  ASSUME NEW S, IsFiniteSet(S), NEW R, NEW list, ListsInOrder(list, S, R)
  PROVE  /\ Cardinality(S) \in Nat
         /\ DOMAIN list = 1..Cardinality(S) /\ Len(list) = Cardinality(S)
         /\ list \in Seq(S)
         /\ Range(list) = S
<1>1. Cardinality(S) \in Nat
  BY FS_CardinalityType
<1>2. list \in [1..Cardinality(S) -> S] /\ IsInjective(list)
  BY DEF ListsInOrder, IsInjective
<1>3. \A x \in S : \E i \in 1..Cardinality(S) : list[i] = x
  BY <1>2, SetsAreListed
<1>. QED BY <1>1, <1>2, <1>3 DEF Range

(* A query that asks for as many as there are gets the whole list.         *)
LEMMA TakesAll ==
  ASSUME NEW S, NEW list \in Seq(S), NEW limit \in Nat, Len(list) <= limit
  PROVE  Take(list, limit) = list
<1>1. SubSeq(list, 1, Len(list)) = list
  BY SubSeqFull
<1>2. Len(list) \in Nat
  OBVIOUS
<1>3. (IF limit < Len(list) THEN limit ELSE Len(list)) = Len(list)
  BY <1>2
<1>. QED BY <1>1, <1>3 DEF Take

(* Of the members of a strategy one of any two is listed before the other. *)
ListedPairs(scored, S) == {p \in S \X S : ListedBefore(scored, p[1], p[2])}

LEMMA MembersInOrder ==
  ASSUME NEW S \in SUBSET Symbol, NEW scored,
         \A s \in S : scored[s].rank \in Int \cup {None} /\ scored[s].eligible \in BOOLEAN
  PROVE  ListsInOrder(InOrder(scored, S), S, ListedPairs(scored, S))
<1>. DEFINE R == ListedPairs(scored, S)
<1>1. IsFiniteSet(S) /\ S \subseteq Nat
  BY FS_Subset, SelectionAssumption
<1>2. \A s, t \in S : <<s, t>> \in R <=> ListedBefore(scored, s, t)
  BY DEF ListedPairs
<1>3. \A s \in S : ~ListedBefore(scored, s, s)
  BY <1>1 DEF ListedBefore
<1>4. \A s, t \in S : s # t => ListedBefore(scored, s, t) \/ ListedBefore(scored, t, s)
  BY <1>1, ScreeningAssumption DEF ListedBefore
<1>5. \A s, t, u \in S :
        ListedBefore(scored, s, t) /\ ListedBefore(scored, t, u) => ListedBefore(scored, s, u)
  BY <1>1, ScreeningAssumption DEF ListedBefore
<1>. HIDE DEF R
<1>6. PICK list : ListsInOrder(list, S, R)
  <2>1. Precedence(S, R)
    BY <1>2, <1>3, <1>4, <1>5 DEF Precedence
  <2>. QED BY <1>1, <2>1, OrdersAreListed
<1>. DEFINE Fits(l) == \A i, j \in DOMAIN l : i < j => ListedBefore(scored, l[i], l[j])
<1>7. list \in SetToSeqs(S) /\ Fits(list)
  BY <1>2, <1>6 DEF SetToSeqs, ListsInOrder
<1>8. InOrder(scored, S) = CHOOSE l \in SetToSeqs(S) : Fits(l)
  BY DEF InOrder, Listing
<1>9. InOrder(scored, S) \in SetToSeqs(S) /\ Fits(InOrder(scored, S))
  <2>. HIDE DEF Fits
  <2>. QED BY <1>7, <1>8
<1>. QED BY <1>2, <1>9 DEF SetToSeqs, ListsInOrder, R

(* The same of the candidates, in the order of priority.                   *)
PriorityPairs(evidence, S) == {p \in S \X S : Before(evidence, p[1], p[2])}

LEMMA CandidatesInOrder ==
  ASSUME NEW evidence, WellFormed(evidence), NEW S \in SUBSET (DOMAIN evidence)
  PROVE  IsFiniteSet(S) /\ ListsInOrder(StoredOrder(evidence, S), S, PriorityPairs(evidence, S))
<1>. DEFINE R == PriorityPairs(evidence, S)
<1>1. IsFiniteSet(S)
  BY FS_Subset, SelectionAssumption DEF WellFormed
<1>2. \A s, t \in S : <<s, t>> \in R <=> Before(evidence, s, t)
  BY DEF PriorityPairs
<1>. HIDE DEF R
<1>3. PICK list : ListsInOrder(list, S, R)
  <2>1. Precedence(S, R)
    BY <1>2, BeforeIsTotal DEF Precedence
  <2>. QED BY <1>1, <2>1, OrdersAreListed
<1>. DEFINE Fits(l) == \A i, j \in DOMAIN l : i < j => Before(evidence, l[i], l[j])
<1>4. list \in SetToSeqs(S) /\ Fits(list)
  BY <1>2, <1>3 DEF SetToSeqs, ListsInOrder
<1>5. StoredOrder(evidence, S) = CHOOSE l \in SetToSeqs(S) : Fits(l)
  BY DEF StoredOrder, Listing
<1>6. StoredOrder(evidence, S) \in SetToSeqs(S) /\ Fits(StoredOrder(evidence, S))
  <2>. HIDE DEF Fits
  <2>. QED BY <1>4, <1>5
<1>. QED BY <1>1, <1>2, <1>6 DEF SetToSeqs, ListsInOrder, R

(* A breakdown counts everybody on the list once, whatever it groups by.   *)
LEMMA BreakdownAddsUp ==
  ASSUME NEW n \in Nat, NEW S, NEW order \in [1..n -> S], NEW group
  PROVE  SumFunction(CountBy(order, group)) = n
<1>. DEFINE of == [i \in 1..n |-> group[order[i]]]
            groups == {of[i] : i \in 1..n}
<1>1. IsFiniteSet(1..n) /\ Cardinality(1..n) = n
  BY FS_Interval
<1>2. IsFiniteSet(groups) /\ of \in [1..n -> groups]
  <2>1. DOMAIN of = 1..n
    OBVIOUS
  <2>2. IsFiniteSet({of[i] : i \in 1..n})
    <3>. HIDE DEF of
    <3>. QED BY <1>1, <2>1, ImageIsFinite
  <2>. QED BY <2>2
<1>3. CountBy(order, group) = [g \in groups |-> Cardinality({i \in 1..n : of[i] = g})]
  <2>1. DOMAIN order = 1..n /\ groups = {group[order[i]] : i \in DOMAIN order}
    OBVIOUS
  <2>2. \A g : {i \in 1..n : of[i] = g} = {i \in DOMAIN order : group[order[i]] = g}
    BY <2>1
  <2>. HIDE DEF of, groups
  <2>. QED BY <2>1, <2>2 DEF CountBy
<1>. HIDE DEF of, groups
<1>4. SumFunction([g \in groups |-> Cardinality({i \in 1..n : of[i] = g})]) = Cardinality(1..n)
  BY <1>1, <1>2, GroupsAddUp
<1>. QED BY <1>1, <1>3, <1>4

(* A part of a set comes in the order the whole set comes in.              *)
LEMMA PartsKeepTheOrder ==
  ASSUME NEW scored, NEW S \in SUBSET Symbol, NEW T \in SUBSET S,
         \A s \in S : scored[s].rank \in Int \cup {None} /\ scored[s].eligible \in BOOLEAN
  PROVE  InTheOrderOf(InOrder(scored, T), InOrder(scored, S))
<1>. DEFINE part == InOrder(scored, T)
            whole == InOrder(scored, S)
<1>1. IsFiniteSet(S) /\ IsFiniteSet(T)
  BY FS_Subset, SelectionAssumption
<1>2. ListsInOrder(part, T, ListedPairs(scored, T)) /\ ListsInOrder(whole, S, ListedPairs(scored, S))
  BY MembersInOrder
<1>. HIDE DEF part, whole
<1>3. /\ DOMAIN part = 1..Cardinality(T) /\ part \in [1..Cardinality(T) -> T]
      /\ DOMAIN whole = 1..Cardinality(S) /\ Range(whole) = S
      /\ Cardinality(S) \in Nat /\ Cardinality(T) \in Nat
  BY <1>1, <1>2, ListsEverybody DEF ListsInOrder
<1>4. ASSUME NEW i \in DOMAIN part, NEW j \in DOMAIN part, i < j
      PROVE  \E k, l \in DOMAIN whole : k < l /\ whole[k] = part[i] /\ whole[l] = part[j]
  <2>1. part[i] \in S /\ part[j] \in S /\ part[i] # part[j]
    BY <1>2, <1>3, <1>4 DEF ListsInOrder
  <2>2. ListedBefore(scored, part[i], part[j])
    BY <1>2, <1>3, <1>4 DEF ListsInOrder, ListedPairs
  <2>3. PICK k \in DOMAIN whole, l \in DOMAIN whole : whole[k] = part[i] /\ whole[l] = part[j]
    BY <1>3, <2>1 DEF Range
  <2>4. ~(l < k)
    <3>. SUFFICES ASSUME l < k PROVE FALSE
      OBVIOUS
    <3>1. ListedBefore(scored, part[j], part[i])
      BY <1>2, <1>3, <2>3 DEF ListsInOrder, ListedPairs
    <3>2. part[i] \in Nat /\ part[j] \in Nat
      BY <2>1, SelectionAssumption
    <3>. QED BY <2>1, <2>2, <3>1, <3>2, ScreeningAssumption DEF ListedBefore
  <2>5. k < l
    BY <1>3, <2>1, <2>3, <2>4
  <2>. QED BY <2>3, <2>5
<1>. QED BY <1>4 DEF InTheOrderOf, part, whole

(* Of one strategy: what the run qualified is what the query judges again, *)
(* and neither list is cut.                                                *)
LEMMA StrategiesAreTold ==
  ASSUME IInv, stage = "DONE", NEW x \in Strategy
  PROVE  StrategyTold(x)
<1>. DEFINE scored == results[x]
            query == [strategy |-> x, eligible_only |-> TRUE,
                      min |-> Floor, limit |-> Cardinality(Symbol)]
            kept == {s \in DOMAIN scored :
                       /\ query.eligible_only => scored[s].eligible
                       /\ query.min # None => scored[s].rank # None /\ scored[s].rank >= query.min}
            near == {s \in Judged(scored) : scored[s].rank >= Floor}
            within == {s \in Judged(scored) : WithinBounds(x, market.factors[s])}
            both == Passing(near, within)
            named == {s \in DOMAIN qualified : \E q \in qualified[s] : q.strategy = x}
<1>1. /\ universe \in SUBSET Symbol
      /\ scored = Scored(x, universe, market.factors)
      /\ qualified = Qualifications(results, universe, market.factors)
  BY MembersAreKnown DEF IInv, Ranked, Vetted, StrategyResults
<1>2. DOMAIN scored = universe /\ DOMAIN qualified = universe
  BY <1>1 DEF Scored, Qualifications
<1>3. ASSUME NEW s \in universe
      PROVE  /\ scored[s].rank \in Int \cup {None}
             /\ scored[s].eligible \in BOOLEAN
             /\ scored[s].rank # None => scored[s].eligible
  <2>1. scored[s].rank \in Int \cup {None}
    BY <1>1, RanksTyped
  <2>2. scored[s].eligible = (s \in Eligible(x, universe, market.factors))
    BY <1>1 DEF Scored
  <2>3. scored[s].rank # None => s \in Eligible(x, universe, market.factors)
    BY <1>1, RankOfScored
  <2>4. scored[s].eligible \in BOOLEAN
    BY <2>2
  <2>5. scored[s].rank # None => scored[s].eligible
    BY <2>2, <2>3
  <2>. QED BY <2>1, <2>4, <2>5
<1>4. named = both
  <2>1. \A s \in universe :
          (\E q \in qualified[s] : q.strategy = x)
            <=> /\ scored[s].rank # None
                /\ scored[s].rank >= Floor
                /\ WithinBounds(x, market.factors[s])
    <3>. SUFFICES ASSUME NEW s \in universe
                  PROVE  (\E q \in qualified[s] : q.strategy = x)
                           <=> /\ scored[s].rank # None
                               /\ scored[s].rank >= Floor
                               /\ WithinBounds(x, market.factors[s])
      OBVIOUS
    <3>. DEFINE meets == {y \in Strategy : /\ results[y][s].rank # None
                                           /\ results[y][s].rank >= Floor
                                           /\ WithinBounds(y, market.factors[s])}
    <3>1. qualified[s] = {[strategy |-> y, rank |-> results[y][s].rank] : y \in meets}
      BY <1>1 DEF Qualifications
    <3>2. (\E q \in qualified[s] : q.strategy = x) <=> x \in meets
      <4>. DEFINE entry(y) == [strategy |-> y, rank |-> results[y][s].rank]
      <4>1. \A y : entry(y).strategy = y
        OBVIOUS
      <4>2. qualified[s] = {entry(y) : y \in meets}
        BY <3>1
      <4>. HIDE DEF meets, entry
      <4>. QED BY <4>1, <4>2
    <3>. QED BY <3>2
  <2>2. \A s \in universe : scored[s].rank # None => scored[s].eligible
    BY <1>3
  <2>. HIDE DEF scored
  <2>. QED BY <1>2, <2>1, <2>2 DEF Judged, Passing
<1>5. kept \in SUBSET Symbol /\ both \in SUBSET kept
  <2>. HIDE DEF scored
  <2>. QED BY <1>1, <1>2 DEF Judged, Passing
<1>6. \A s \in kept : scored[s].rank \in Int \cup {None} /\ scored[s].eligible \in BOOLEAN
  BY <1>2, <1>3
<1>7. /\ ScreenStrategy(results, query).items = Take(InOrder(scored, kept), Cardinality(Symbol))
      /\ ScreenQualified(results, market.factors, x, Cardinality(Symbol)).items
           = Take(InOrder(scored, both), Cardinality(Symbol))
      /\ ScreenQualified(results, market.factors, x, Cardinality(Symbol)).coverage.ranked
           = SummarizeStrategies(results)[x].ranked
  BY DEF ScreenStrategy, ScreenQualified, SummarizeStrategies
<1>. HIDE DEF scored, kept, both, named
<1>8. ASSUME NEW S \in SUBSET kept
      PROVE  /\ Take(InOrder(scored, S), Cardinality(Symbol)) = InOrder(scored, S)
             /\ Range(InOrder(scored, S)) = S
             /\ Len(InOrder(scored, S)) = Cardinality(S)
  <2>1. IsFiniteSet(Symbol) /\ IsFiniteSet(S) /\ S \in SUBSET Symbol
    BY <1>5, SelectionAssumption, FS_Subset
  <2>2. /\ Cardinality(S) <= Cardinality(Symbol)
        /\ Cardinality(Symbol) \in Nat
    BY <2>1, FS_Subset, FS_CardinalityType
  <2>3. ListsInOrder(InOrder(scored, S), S, ListedPairs(scored, S))
    BY <1>6, <2>1, MembersInOrder
  <2>4. /\ InOrder(scored, S) \in Seq(S)
        /\ Len(InOrder(scored, S)) = Cardinality(S)
        /\ Range(InOrder(scored, S)) = S
    BY <2>1, <2>3, ListsEverybody
  <2>. QED BY <2>2, <2>4, TakesAll
<1>9. InTheOrderOf(InOrder(scored, both), InOrder(scored, kept))
  BY <1>5, <1>6, PartsKeepTheOrder
<1>. QED BY <1>4, <1>5, <1>7, <1>8, <1>9 DEF StrategyTold, query, named

(* The rank a candidate is shown with is the one it was named for.         *)
LEMMA BestIsOfThePrimary ==
  ASSUME IInv, stage = "DONE", NEW s \in Qualified(qualified)
  PROVE  BestRank(DayEvidence, s) = results[PrimaryStrategy(qualified[s])][s].rank
<1>. DEFINE quals == qualified[s]
            best == Max({q.rank : q \in quals})
            first == {q.strategy : q \in {p \in quals : p.rank = best}}
<1>1. s \in universe /\ quals # {}
  BY DEF IInv, Vetted, Qualified, Qualifications
<1>2. /\ IsFiniteSet(quals)
      /\ \A q \in quals : /\ q.rank \in Int
                          /\ q.strategy \in Strategy
                          /\ q.rank = results[q.strategy][s].rank
  BY <1>1, QualifiedAreFew, QualificationIsEarned DEF Vetted
<1>3. DayEvidence[s].qualified = quals
  BY DEF DayEvidence, EvidenceOf
<1>. HIDE DEF quals
<1>4. /\ \E q \in quals : q.rank = best
      /\ \A q \in quals : q.rank <= best
  BY <1>1, <1>2, BestIsThere
<1>5. best \in Int
  BY <1>2, <1>4
<1>6. first # {} /\ first \subseteq Nat
  BY <1>2, <1>4, SelectionAssumption
<1>7. Min(first) \in first
  <2>. HIDE DEF first
  <2>. QED BY <1>6, MinIsMember
<1>8. \E q \in quals : q.strategy = Min(first) /\ q.rank = best
  BY <1>7
<1>9. PrimaryStrategy(quals) = Min(first)
  BY DEF PrimaryStrategy
<1>10. results[PrimaryStrategy(quals)][s].rank = best
  BY <1>2, <1>8, <1>9
<1>11. BestRank(DayEvidence, s) = best
  <2>. DEFINE top == CHOOSE q \in quals : \A p \in quals : p.rank <= q.rank
  <2>1. \E q \in quals : \A p \in quals : p.rank <= q.rank
    BY <1>4
  <2>2. top \in quals /\ \A p \in quals : p.rank <= top.rank
    BY <2>1
  <2>3. BestRank(DayEvidence, s) = top.rank
    BY <1>3 DEF BestRank
  <2>. HIDE DEF top
  <2>4. top.rank <= best /\ best <= top.rank /\ top.rank \in Int
    BY <1>2, <1>4, <2>2
  <2>. QED BY <1>5, <2>3, <2>4
<1>. QED BY <1>10, <1>11 DEF quals

LEMMA DayIsTold ==
  ASSUME IInv, stage = "DONE"
  PROVE  DayTold
<1>. DEFINE chosen == DOMAIN candidates
            order == StoredOrder(DayEvidence, chosen)
            primary == [s \in chosen |-> candidates[s].primary]
            today == TodayOverview(DayEvidence, order, primary, Len(order))
<1>1. WellFormed(DayEvidence) /\ candidates = [s \in Select(DayEvidence) |-> Candidate(s)]
  BY EvidenceIsWellFormed DEF IInv
<1>2. /\ DOMAIN DayEvidence = Qualified(qualified)
      /\ chosen \in SUBSET (DOMAIN DayEvidence)
  BY <1>1, SelectedConsidered DEF Considered, DayEvidence
<1>3. IsFiniteSet(chosen) /\ ListsInOrder(order, chosen, PriorityPairs(DayEvidence, chosen))
  BY <1>1, <1>2, CandidatesInOrder
<1>. HIDE DEF order
<1>4. /\ Cardinality(chosen) \in Nat
      /\ Len(order) = Cardinality(chosen) /\ order \in Seq(chosen)
      /\ order \in [1..Cardinality(chosen) -> chosen]
  BY <1>3, ListsEverybody DEF ListsInOrder
<1>5. \A group : SumFunction(CountBy(order, group)) = Cardinality(chosen)
  BY <1>4, BreakdownAddsUp
<1>6. Take(order, Len(order)) = order
  BY <1>4, TakesAll
<1>7. ASSUME NEW i \in DOMAIN today.top
      PROVE  today.top[i].best = results[candidates[today.top[i].symbol].primary][today.top[i].symbol].rank
  <2>1. today.top = ScreenCandidates(DayEvidence, order, Len(order))
    BY DEF TodayOverview
  <2>2. i \in 1..Len(order)
    BY <1>6, <1>7, <2>1 DEF ScreenCandidates
  <2>3. today.top[i] = CandidateItem(DayEvidence, order, i)
    BY <1>6, <2>1, <2>2 DEF ScreenCandidates
  <2>4. today.top[i].symbol = order[i] /\ today.top[i].best = BestRank(DayEvidence, order[i])
    BY <2>3 DEF CandidateItem
  <2>5. order[i] \in chosen
    BY <1>4, <2>2
  <2>6. candidates[order[i]].primary = PrimaryStrategy(qualified[order[i]])
    BY <1>1, <2>5 DEF Candidate
  <2>. QED BY <1>2, <2>4, <2>5, <2>6, BestIsOfThePrimary
<1>8. /\ today.by_strategy = CountBy(order, primary)
      /\ today.by_market = CountBy(order, [s \in DOMAIN DayEvidence |-> DayEvidence[s].market])
      /\ today.by_signal = CountBy(order, [s \in DOMAIN DayEvidence |-> DayEvidence[s].signal])
  BY DEF TodayOverview
<1>9. /\ SumFunction(today.by_strategy) = Cardinality(chosen)
      /\ SumFunction(today.by_market) = Cardinality(chosen)
      /\ SumFunction(today.by_signal) = Cardinality(chosen)
  BY <1>5, <1>8
<1>. QED BY <1>7, <1>9 DEF DayTold, order

(* Whatever the market, the weights and the capacity: the qualified tab    *)
(* names those the run qualified and nobody else, in the order of the      *)
(* ranking tab; each breakdown of the overview counts every candidate once *)
(* and shows it with the rank in the strategy it is named after.           *)
THEOREM QueriesTellTheRun ==
  Spec => []QueriesAgree
<1>1. IInv => QueriesAgree
  <2>. SUFFICES ASSUME IInv, candidates # None
                PROVE  DayTold /\ \A x \in Strategy : StrategyTold(x)
    BY DEF QueriesAgree
  <2>1. stage = "DONE"
    BY DEF IInv
  <2>. QED BY <2>1, DayIsTold, StrategiesAreTold
<1>. QED BY <1>1, AlwaysIInv, PTL
=============================================================================
