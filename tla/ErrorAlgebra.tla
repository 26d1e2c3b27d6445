----------------------------- MODULE ErrorAlgebra -----------------------------
(* The composition of error terms (erroralgebra.py, compose): a pool of terms, *)
(* some of which are combined into one, in any grouping and under any          *)
(* assumption, as a schedule adds up the errors of its parts. A number is a    *)
(* fraction <<numerator, denominator>>; the root of a variance is kept with    *)
(* it; an epoch or a confidence level that is absent is 0.                     *)
EXTENDS Integers, Sequences, FiniteSets, FiniteSetsExt, Functions

CONSTANTS Declared,     \* the declared terms, by name
          PoolSizes,    \* how many terms a pool starts with
          Assumed,      \* the assumptions composition is asked for under
          Spans,        \* the seconds a lineage is exposed for at a time
          Ceilings,     \* the coherence budgets that are asked about, positive
          MaxExposed    \* bound: the seconds of exposure

ASSUME ErrorAssumption ==
    /\ IsFiniteSet(DOMAIN Declared)
    /\ \A n \in DOMAIN Declared : Declared[n].epoch \in Nat /\ Declared[n].confidence \in Nat

VARIABLES pool          \* the terms, each with the names it was combined from and,
                        \* as history, whether an approximate law or a covariance took part

VARIABLES exposure,     \* CoherenceExposure of one lineage: seconds by component
          answer,       \* of the last check
          spent         \* history: the seconds that were added

exposureVars == <<exposure, answer, spent>>
errorVars == <<pool, exposureVars>>
-----------------------------------------------------------------------------
Plus(x, y) == <<x[1] * y[2] + y[1] * x[2], x[2] * y[2]>>
Times(x, y) == <<x[1] * y[1], x[2] * y[2]>>
OneMinus(x) == <<x[2] - x[1], x[2]>>
EqualTo(x, y) == x[1] * y[2] = y[1] * x[2]
AtMost(x, y) == x[1] * y[2] <= y[1] * x[2]
Total(f) == FoldFunction(Plus, <<0, 1>>, f)
Product(f) == FoldFunction(Times, <<1, 1>>, f)

\* COMPOSITION_LAWS, the first that covers the kind under the assumption.
Laws == <<[id |-> "L1", kinds |-> {"success_probability", "failure_probability", "infidelity"},
           assumption |-> "independent"],
          [id |-> "L2", kinds |-> {"log_success"}, assumption |-> "independent"],
          [id |-> "L3", kinds |-> {"additive_error", "infidelity", "failure_probability"},
           assumption |-> "small_error"],
          [id |-> "L4", kinds |-> {"variance", "std_dev"}, assumption |-> "independent"],
          [id |-> "L5", kinds |-> {"variance", "std_dev"}, assumption |-> "correlated"],
          [id |-> "L6", kinds |-> {"duration"}, assumption |-> "independent"]>>
LawsFor(kind, assumption) ==
    {i \in DOMAIN Laws : kind \in Laws[i].kinds /\ Laws[i].assumption = assumption}

\* What a term may declare of itself for an independent composition.
ClaimsIndependence == {"independent", "exact_multiplicative", "exact_logarithmic", "small_error"}
AnyClaim(terms) == TRUE             \* mutant: the claims are not compared
Independent(terms) == {t.independence : t \in terms} \subseteq ClaimsIndependence

Success(t) == IF t.kind = "success_probability" THEN t.value ELSE OneMinus(t.value)
Variance(t) == IF t.kind = "variance" THEN t.value ELSE Times(t.value, t.value)

\* The correlation two terms declare, as a set of at most one. A term combined from
\* several has a name that nobody declared, and declares none.
Rho(a, b) ==
    LET toward(x, y) == IF Cardinality(y.parts) = 1
                        THEN {x.correlation[n] : n \in y.parts \cap DOMAIN x.correlation} ELSE {}
    IN  IF toward(a, b) # {} THEN toward(a, b) ELSE toward(b, a)
PairsOf(terms) == {p \in SUBSET terms : Cardinality(p) = 2}
Cross(pair) == LET a == CHOOSE t \in pair : TRUE
                   b == CHOOSE t \in pair : t # a
                   rho == CHOOSE r \in Rho(a, b) : TRUE
               IN  <<2 * rho[1] * a.root * b.root, rho[2]>>

CalibrationEpochs(terms) == {t.epoch : t \in terms} \ {0}
Levels(terms) == {t.confidence : t \in terms} \ {0}

\* What terms of one kind come to under a law.
Amount(law, kind, terms) ==
    CASE law = "L1" -> IF kind = "success_probability" THEN Product([t \in terms |-> Success(t)])
                       ELSE OneMinus(Product([t \in terms |-> Success(t)]))
      [] law \in {"L2", "L3", "L6"} -> Total([t \in terms |-> t.value])
      [] law = "L4" -> Total([t \in terms |-> Variance(t)])
      [] law = "L5" -> Plus(Total([t \in terms |-> Variance(t)]), Total([p \in PairsOf(terms) |-> Cross(p)]))

\* The combined terms of compose: one, or none when it answers the unresolved token.
Composed(terms, assumption) ==
    LET kinds == {<<t.unit, t.kind>> : t \in terms}
        kind == (CHOOSE k \in kinds : TRUE)[2]
        unit == (CHOOSE k \in kinds : TRUE)[1]
        lawIds == {Laws[i].id : i \in LawsFor(kind, assumption)}
        law == CHOOSE l \in lawIds : TRUE
        value == Amount(law, kind, terms)
    IN  IF \/ Cardinality(kinds) > 1
           \/ assumption = "independent" /\ ~Independent(terms)
           \/ assumption = "unknown_correlation" \/ lawIds = {} \/ Cardinality(CalibrationEpochs(terms)) > 1
           \/ law = "L3" /\ ~AtMost(value, <<1, 1>>)
           \/ law = "L5" /\ \E p \in PairsOf(terms) : \E a, b \in p : a # b /\ Rho(a, b) = {}
        THEN {}
        ELSE {[parts |-> UNION {t.parts : t \in terms}, value |-> value,
               unit |-> IF law \in {"L4", "L5"} /\ unit = "probability" THEN "dimensionless" ELSE unit,
               kind |-> IF law \in {"L4", "L5"} THEN "variance" ELSE kind,
               independence |-> assumption, correlation |-> << >>,
               epoch |-> IF CalibrationEpochs(terms) = {} THEN 0 ELSE Max(CalibrationEpochs(terms)),
               confidence |-> IF Levels(terms) = {} THEN 0 ELSE Min(Levels(terms)),
               root |-> IF Cardinality(terms) = 1 THEN (CHOOSE t \in terms : TRUE).root ELSE 0,
               approximate |-> law = "L3" \/ \E t \in terms : t.approximate,
               covariance |-> (law = "L5" /\ Cardinality(terms) > 1) \/ \E t \in terms : t.covariance]}

Term(name) ==
    LET d == Declared[name]
    IN  [parts |-> {name}, value |-> d.value, unit |-> d.unit, kind |-> d.kind, root |-> d.root,
         independence |-> d.independence, correlation |-> d.correlation, epoch |-> d.epoch,
         confidence |-> d.confidence, approximate |-> FALSE, covariance |-> FALSE]

ErrorInit == pool \in {{Term(n) : n \in names} : names \in {s \in SUBSET DOMAIN Declared : Cardinality(s) \in PoolSizes}}

\* Some of the terms are composed; a composition that is unresolved keeps them apart.
Combine(terms, assumption) ==
    /\ \E combined \in Composed(terms, assumption) : pool' = (pool \ terms) \union {combined}
    /\ UNCHANGED exposureVars

ErrorNext == \E terms \in (SUBSET pool) \ {{}}, assumption \in Assumed : Combine(terms, assumption)

ErrorSpec == ErrorInit /\ [][ErrorNext]_pool
-----------------------------------------------------------------------------
(* CoherenceExposure: how long one lineage holds unknown quantum state.      *)

\* EXPOSURE_COMPONENTS, in the order of their names.
Exposures == <<"classical_feedback_wait", "entanglement_wait", "idle_time", "measurement_wait",
               "operation_time", "route_time">>
TotalExposure == FoldFunction(+, 0, exposure)

\* The component with the largest share, the first one of several.
Dominant == IF TotalExposure = 0 THEN "-"
            ELSE Exposures[Min({i \in DOMAIN exposure : \A k \in DOMAIN exposure : exposure[k] <= exposure[i]})]

ExposureInit == /\ exposure = [i \in DOMAIN Exposures |-> 0] /\ spent = 0
                /\ answer = [ok |-> TRUE, budget |-> 0, headroom |-> 0, dominant |-> "-"]

Replacing(i, s) == s                                    \* mutant: an interval replaces the last
Longer(i, s) == exposure[i] + s

\* add refuses what is no component, and negative intervals.
Expose(i, s) == /\ spent + s <= MaxExposed /\ spent' = spent + s
                /\ exposure' = [exposure EXCEPT ![i] = Longer(i, s)]
                /\ UNCHANGED <<pool, answer>>

\* check; require raises when the answer is not ok.
Check(budget) == /\ answer' = [ok |-> TotalExposure <= budget, budget |-> budget,
                               headroom |-> budget - TotalExposure, dominant |-> Dominant]
                 /\ UNCHANGED <<pool, exposure, spent>>

ExposureNext == \/ \E i \in DOMAIN Exposures, s \in Spans : Expose(i, s)
                \/ \E budget \in Ceilings : Check(budget)
-----------------------------------------------------------------------------
(* Properties.                                                               *)

SourcesOf(t) == {Term(n) : n \in t.parts}

\* A standard deviation becomes a variance when it is composed, and the square of a
\* probability a number.
Moment(s) == IF s.kind = "std_dev" THEN "variance" ELSE s.kind
Dimension(s) == IF Moment(s) = "variance" /\ s.unit = "probability" THEN "dimensionless" ELSE s.unit

\* What the sources of a term amount to together, by definition.
TrueValue(t) ==
    LET from == SourcesOf(t)
    IN  CASE t.kind = "success_probability" -> EqualTo(t.value, Product([s \in from |-> Success(s)]))
          [] t.kind \in {"failure_probability", "infidelity", "additive_error"} ->
                LET exact == OneMinus(Product([s \in from |-> Success(s)]))
                IN  /\ AtMost(exact, t.value) /\ AtMost(t.value, Total([s \in from |-> s.value]))
                    /\ t.approximate \/ EqualTo(t.value, exact)
          [] t.kind = "variance" ->
                LET apart == Total([s \in from |-> Variance(s)])
                IN  IF ~t.covariance THEN EqualTo(t.value, apart)
                    ELSE /\ \A p \in PairsOf(from) : \A a, b \in p : a # b => Rho(a, b) # {}
                         /\ EqualTo(t.value, Plus(apart, Total([p \in PairsOf(from) |-> Cross(p)])))
          [] OTHER -> EqualTo(t.value, Total([s \in from |-> s.value]))

\* Several terms were combined as if independent only when each of them claims it.
Justified(t) ==
    Cardinality(t.parts) > 1 /\ ~t.covariance /\ ~t.approximate =>
        \A s \in SourcesOf(t) : s.independence \in ClaimsIndependence

\* In whatever order and grouping error terms are composed, no contribution is counted twice,
\* a combined term has sources of one dimension and one device state, no level of confidence
\* above any of theirs, and unjustified independence never enters it through an exact law
\* (erroralgebra.py, compose).
SourcesAreKept ==
    /\ \A t, u \in pool : t # u => t.parts \cap u.parts = {}
    /\ \A t \in pool :
          LET from == SourcesOf(t) IN
          /\ Justified(t)
          /\ Cardinality({<<Dimension(s), Moment(s)>> : s \in from}) = 1
          /\ CalibrationEpochs(from) \subseteq {t.epoch} /\ (t.epoch # 0 => t.epoch \in CalibrationEpochs(from))
          /\ \A s \in from : s.confidence # 0 => t.confidence # 0 /\ t.confidence <= s.confidence

\* In whatever order and grouping error terms are composed, a combined term has the value its
\* sources have together (erroralgebra.py, compose).
ValuesAreTrue == \A t \in pool : TrueValue(t)

\* The waits are part of the exposure as much as the operations: no second is lost, a
\* schedule that was blocked stays too long for its budget, and the component that is
\* blamed has at least its share of the whole (CoherenceExposure.add, check).
ExposureIsWhole ==
    /\ TotalExposure = spent
    /\ ~answer.ok => spent > answer.budget /\ answer.headroom < 0
    /\ answer.dominant # "-" =>
           \E i \in DOMAIN Exposures : /\ Exposures[i] = answer.dominant
                                      /\ 6 * exposure[i] >= answer.budget - answer.headroom
=============================================================================
