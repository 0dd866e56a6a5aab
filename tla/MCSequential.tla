---------------------------- MODULE MCSequential ----------------------------
\* What each part is given: around every limit, and every case that differs.
EXTENDS Sequential

\* Three entries of two contents, and three changes to their rows.
MCContents == {"one", "other"}

\* Every case of one or two fields, of up to two expected clauses, and of two labels,
\* with every answer that counts differently; scores that tie.
MCDocuments ==
  [states : UNION {[names -> {Null, "stated"}] : names \in SUBSET {"amount", "date"} \ {{}}},
   answer : {Null} \union [{"amount", "date"} -> {Null, "stated", "other"}]]

Clauses == {[id |-> "clause", page |-> page] : page \in {Null, 1, 2}}
             \union {[id |-> "another", page |-> Null]}

MCQuestions ==
  [expected : {{"clause"}, {"clause", "another"}},
   answer : {Null} \union [retrieved : SeqOf(Clauses, 2), cited : SeqOf(Clauses, 1)]]

MCClaims ==
  [label : {"high", "low"}, positive : BOOLEAN,
   answer : {Null} \union [label : {"high", "low", "unheard of"}, score : {1, 2}, routed : BOOLEAN]]

MCMostCases == [extraction |-> 2, retrieval |-> 2, classification |-> 3]

\* Three capabilities, two cases in each set.
MCCapabilities == <<"extraction", "retrieval", "classification">>

\* One question in two schemas, answers that fit one or both, two fixture files.
MCAnswers == {[text |-> "one", fits |-> {"s1"}], [text |-> "other", fits |-> {"s1", "s2"}]}

\* A field of every kind, plain, referring, and of items that refer.
Node(type, ref, has) == [type |-> type, ref |-> ref, has |-> has]
MCFields ==
  {[node |-> node, items |-> Node("string", "none", {})] :
     node \in {Node("string", "none", {}), Node("integer", "none", {}), Node("string", "none", {"enum"}),
               Node("none", "primitive", {}), Node("none", "enumeration", {}),
               Node("array", "none", {})}}
    \union {[node |-> Node("array", "none", {}), items |-> Node("none", name, {})] :
              name \in {"primitive", "enumeration"}}

\* One operation of each kind that is read, or refused for one thing.
Read == [named |-> TRUE, parameters |-> <<"path", "header">>, body |-> "required", successes |-> 1,
         answer |-> "named", of |-> "object"]
MCOperations ==
  {Read, [Read EXCEPT !.answer = "array"], [Read EXCEPT !.of = "primitive"],
   [Read EXCEPT !.named = FALSE], [Read EXCEPT !.parameters = <<"query">>],
   [Read EXCEPT !.parameters = <<"header", "header">>], [Read EXCEPT !.body = "optional"],
   [Read EXCEPT !.successes = 2], [Read EXCEPT !.answer = "inline"]}
=============================================================================
