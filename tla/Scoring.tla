------------------------------ MODULE Scoring -------------------------------
(***************************************************************************)
(* How a golden set is scored (evaluation/metrics.py and scoring.py): one  *)
(* capability's cases, read one after another with the answer to each.     *)
(*                                                                         *)
(* A share of two counts is a pair, numerator and denominator, so nothing  *)
(* is rounded.  A value is a symbol: the values compare takes for one are  *)
(* one symbol.                                                             *)
(***************************************************************************)
EXTENDS Integers, SequencesExt, FiniteSetsExt

CONSTANTS Documents,   \* extraction cases, each with its answer
          Questions,   \* retrieval cases, each with its answer
          Claims,      \* classification cases, each with its answer
          MostCases,   \* capability -> bound on the cases of its set
          Depth,       \* how deep a ranked list is read for a hit
          Null         \* a field that is absent, a page not given, a case not answered

VARIABLES capability,  \* what the set scores
          cases        \* the cases read so far: what each states, and its answer

vars == <<capability, cases>>

\* _ratio: a share, and zero of nothing.
Ratio(n, d) == IF d = 0 THEN <<0, 1>> ELSE <<n, d>>
Plus(x, y) == <<x[1] * y[2] + y[1] * x[2], x[2] * y[2]>>
AtMost(x, y) == x[1] * y[2] <= y[1] * x[2]
Same(x, y) == AtMost(x, y) /\ AtMost(y, x)

\* Shares are a function of what each is of.
SumOf(shares) == FoldFunction(Plus, <<0, 1>>, shares)

Mean(shares) ==
  LET n == Cardinality(DOMAIN shares)
  IN  IF n = 0 THEN <<0, 1>> ELSE <<SumOf(shares)[1], SumOf(shares)[2] * n>>

-----------------------------------------------------------------------------
\* Counts: true positives, false positives, false negatives.  What is counted adds one
\* to some of them, or to none.
Count(tp, fp, fn) == [tp |-> tp, fp |-> fp, fn |-> fn]

Total(S, CountsOf(_)) ==
  [outcome \in {"tp", "fp", "fn"} |-> Quantify(S, LAMBDA x : CountsOf(x)[outcome] = 1)]

Precision(counts) == Ratio(counts.tp, counts.tp + counts.fp)
Recall(counts) == Ratio(counts.tp, counts.tp + counts.fn)
F1(counts) == Ratio(2 * counts.tp, 2 * counts.tp + counts.fp + counts.fn)

\* field_counts, of one field.  Mutant: an absent field that was left out is a
\* miss.
FieldCountsWithSilence(truth, answer) ==
  IF answer = Null
  THEN Count(0, 0, 1)
  ELSE IF truth = answer THEN Count(1, 0, 0) ELSE Count(0, 1, 1)

FieldCounts(truth, answer) ==
  IF truth = answer
  THEN IF truth = Null THEN Count(0, 0, 0) ELSE Count(1, 0, 0)
  ELSE IF answer = Null THEN Count(0, 0, 1) ELSE Count(0, 1, 1)

\* What an answer gives for a field: nothing, if it leaves it out.
Answered(answer, field) ==
  IF answer = Null \/ field \notin DOMAIN answer THEN Null ELSE answer[field]

\* measure_extraction: each field of each case that states it, by field and in all.
Stating == UNION {{<<i, field>> : field \in DOMAIN cases[i].states} : i \in 1..Len(cases)}
StatedAt(x) == cases[x[1]].states[x[2]]
AnsweredAt(x) == Answered(cases[x[1]].answer, x[2])
FieldTotal(stating) == Total(stating, LAMBDA x : FieldCounts(StatedAt(x), AnsweredAt(x)))

PerField(field) == FieldTotal({x \in Stating : x[2] = field})
Extraction == FieldTotal(Stating)

-----------------------------------------------------------------------------
\* label_counts: what one case counts towards one label.
LabelCount(truth, answered, label) ==
  CASE label = truth -> IF answered = truth THEN Count(1, 0, 0) ELSE Count(0, 0, 1)
    [] label # truth /\ label = answered -> Count(0, 1, 0)
    [] OTHER -> Count(0, 0, 0)

\* The labels are those the cases state, and no other that was answered.
\* Mutant: a name that was answered is a label too.
LabelsNamed ==
  {cases[i].label : i \in 1..Len(cases)}
    \union {cases[i].answer.label : i \in {j \in 1..Len(cases) : cases[j].answer # Null}}

Labels == {cases[i].label : i \in 1..Len(cases)}

LabelAnswered(i) == IF cases[i].answer = Null THEN Null ELSE cases[i].answer.label

LabelCounts(label) ==
  Total(1..Len(cases), LAMBDA i : LabelCount(cases[i].label, LabelAnswered(i), label))

MacroAverage(Metric(_)) == Mean([label \in Labels |-> Metric(LabelCounts(label))])

RoutingAccuracy ==
  Ratio(Quantify(1..Len(cases), LAMBDA i : cases[i].answer # Null /\ cases[i].answer.routed),
        Len(cases))

\* average_precision: the scored cases, highest first, and of equal scores the
\* positives first, each kind as it was read.
Scored == {i \in 1..Len(cases) : cases[i].answer # Null}
Score(i) == cases[i].answer.score

Ahead(i, j) ==
  \/ Score(i) > Score(j)
  \/ /\ Score(i) = Score(j)
     /\ \/ cases[i].positive /\ ~cases[j].positive
        \/ cases[i].positive = cases[j].positive /\ i < j

Ranked ==
  CHOOSE ranked \in [1..Cardinality(Scored) -> Scored] :
    \A p, q \in 1..Cardinality(Scored) : p < q => Ahead(ranked[p], ranked[q])
Found(ranked, upTo) == Quantify(1..upTo, LAMBDA p : cases[ranked[p]].positive)

\* Where a step of the curve ends.  Mutant: at every case, tied or not.
StepEndsEverywhere(ranked) == 1..Len(ranked)

StepEnds(ranked) ==
  {p \in 1..Len(ranked) : p = Len(ranked) \/ Score(ranked[p + 1]) # Score(ranked[p])}

\* The area: the precision at each step's end, weighted by the recall it adds.
AveragePrecision ==
  LET ranked    == Ranked
      ends      == StepEnds(ranked)
      added(p)  == Found(ranked, p) - Found(ranked, Max({q \in ends \union {0} : q < p}))
      positives == Found(ranked, Len(ranked))
  IN  SumOf([p \in ends |-> <<added(p) * Found(ranked, p), positives * p>>])

Positives == {i \in Scored : cases[i].positive}
HasCurve == Positives # {} /\ Positives # Scored

-----------------------------------------------------------------------------
Retrieved(i) == IF cases[i].answer = Null THEN <<>> ELSE cases[i].answer.retrieved
Cited(i) == IF cases[i].answer = Null THEN <<>> ELSE cases[i].answer.cited

\* hit_at and reciprocal_rank: the first expected clause, and at which rank.
\* Mutant: the list is cut one short.
HitAtShort(ranked, expected, k) == \E p \in 1..Len(ranked) : p < k /\ ranked[p].id \in expected

HitAt(ranked, expected, k) == \E p \in 1..Len(ranked) : p <= k /\ ranked[p].id \in expected

ReciprocalRank(ranked, expected) ==
  LET at == {p \in 1..Len(ranked) : ranked[p].id \in expected}
  IN  IF at = {} THEN <<0, 1>> ELSE <<1, Min(at)>>

\* citation_counts: the last clause retrieved under an identity is the one its
\* citations are held to.
Resolves(ranked, citation) ==
  LET at == {p \in 1..Len(ranked) : ranked[p].id = citation.id}
  IN  /\ at # {}
      /\ \/ Null \in {citation.page, ranked[Max(at)].page}
         \/ citation.page = ranked[Max(at)].page

ValidCitations(i) == {p \in 1..Len(Cited(i)) : Resolves(Retrieved(i), Cited(i)[p])}

HitRate(k) ==
  Ratio(Quantify(1..Len(cases), LAMBDA i : HitAt(Retrieved(i), cases[i].expected, k)), Len(cases))

MeanReciprocalRank ==
  Mean([i \in 1..Len(cases) |-> ReciprocalRank(Retrieved(i), cases[i].expected)])

-----------------------------------------------------------------------------
Init == capability \in {"extraction", "retrieval", "classification"} /\ cases = <<>>

\* The body of measure_extraction's loop, measure_retrieval's, measure_classification's.
Read(ofSet, pairs) ==
  /\ capability = ofSet
  /\ Len(cases) < MostCases[ofSet]
  /\ \E pair \in pairs : cases' = Append(cases, pair)
  /\ UNCHANGED capability

ReadDocument == Read("extraction", Documents)
ReadQuestion == Read("retrieval", Questions)
ReadClaim == Read("classification", Claims)

Next == ReadDocument \/ ReadQuestion \/ ReadClaim

Spec == Init /\ [][Next]_vars

-----------------------------------------------------------------------------
Counted(counts, answered, stated) ==
  /\ counts.tp + counts.fp = answered
  /\ counts.tp + counts.fn = stated
  /\ \/ AtMost(Precision(counts), F1(counts)) /\ AtMost(F1(counts), Recall(counts))
     \/ AtMost(Recall(counts), F1(counts)) /\ AtMost(F1(counts), Precision(counts))

Given == {x \in Stating : AnsweredAt(x) # Null}
StatedOrGiven == Given \union {x \in Stating : StatedAt(x) # Null}

\* Every answer is counted once, as right or wrong, and every case once, as found
\* or missed: of the fields, one by one and in all, the values answered to what a
\* case states, and the values stated or invented; of a label, the cases answered with
\* it, and those that carry it.  No name outside the set's labels is a class
\* (metrics.py:19-29, 121-124).
EveryAnswerIsCountedOnce ==
  /\ capability = "extraction" =>
       /\ Counted(Extraction, Cardinality(Given), Cardinality(StatedOrGiven))
       /\ \A field \in {x[2] : x \in Stating} :
            Counted(PerField(field),
                    Quantify(Given, LAMBDA x : x[2] = field),
                    Quantify(StatedOrGiven, LAMBDA x : x[2] = field))
  /\ capability = "classification" =>
       \A label \in Labels :
         /\ Counted(LabelCounts(label),
                    Quantify(1..Len(cases), LAMBDA i : LabelAnswered(i) = label),
                    Quantify(1..Len(cases), LAMBDA i : cases[i].label = label))
         /\ LabelCounts(label).tp + LabelCounts(label).fn > 0

\* The two readings of a ranked list agree: it hits at a depth exactly if the
\* first expected clause is no deeper, so a hit rate bounds the mean reciprocal
\* rank at every depth.  Where no clause is retrieved under two pages, a
\* citation counts exactly if the list holds the clause cited (metrics.py:167-169).
RetrievalReadsItsList ==
  capability = "retrieval" =>
    /\ \A i \in 1..Len(cases), k \in 1..Depth :
         LET rank == ReciprocalRank(Retrieved(i), cases[i].expected)
         IN  HitAt(Retrieved(i), cases[i].expected, k) <=> rank # <<0, 1>> /\ rank[2] <= k
    /\ AtMost(MeanReciprocalRank, Plus(HitRate(Depth), <<1, Depth + 1>>))
    /\ \A i \in 1..Len(cases) :
         IsInjective([p \in 1..Len(Retrieved(i)) |-> Retrieved(i)[p].id]) =>
           \A p \in 1..Len(Cited(i)) :
             p \in ValidCitations(i) <=>
               \E clause \in ToSet(Retrieved(i)) :
                 clause.id = Cited(i)[p].id
                   /\ (Cited(i)[p].page = clause.page \/ Null \in {Cited(i)[p].page, clause.page})

\* The area under the curve is what it is defined as: over the positives, the
\* mean share of positives among the cases scored no lower than each, whatever
\* order the ties were in (metrics.py:185-187).
AtLeastAs(i) == {j \in Scored : Score(j) >= Score(i)}

AreaIsMeanPrecision ==
  capability = "classification" /\ HasCurve =>
    LET share(i) == Ratio(Cardinality(AtLeastAs(i) \intersect Positives), Cardinality(AtLeastAs(i)))
    IN  Same(AveragePrecision, Mean([i \in Positives |-> share(i)]))

\* A case answered as it states never lowers what a set scores: not the fields'
\* precision, recall or F1, not the labels' recall, not the routing.
RightAnswer(pair) ==
  CASE capability = "extraction" ->
         \A field \in DOMAIN pair.states : Answered(pair.answer, field) = pair.states[field]
    [] capability = "classification" ->
         pair.answer # Null /\ pair.answer.label = pair.label /\ pair.answer.routed
    [] OTHER -> FALSE

RightAnswerNeverLowers ==
  [][cases # <<>> /\ RightAnswer(Last(cases')) =>
       IF capability = "extraction"
       THEN /\ AtMost(Precision(Extraction), Precision(Extraction'))
            /\ AtMost(Recall(Extraction), Recall(Extraction'))
            /\ AtMost(F1(Extraction), F1(Extraction'))
       ELSE /\ AtMost(MacroAverage(Recall), MacroAverage(Recall)')
            /\ AtMost(RoutingAccuracy, RoutingAccuracy')]_vars
=============================================================================
