--------------------------- MODULE MCReleaseGate ----------------------------
\* Two of the three capabilities, one with an optional metric that has a floor.
EXTENDS ReleaseGate

MCMetricsOf ==
  [extraction |-> {"extraction.f1"}, retrieval |-> {"hit_rate", "citation_validity"}]
MCValuesOf == [f \in {"extraction.f1", "hit_rate", "citation_validity"} |->
                 CASE f = "extraction.f1" -> {5, 6, 8} [] f = "hit_rate" -> {8} [] OTHER -> {1, 4, 6}]
MCVersionsOf == [extraction |-> {1}, retrieval |-> {1, 2}]
MCFloors == [f \in {"citation_validity"} |-> 4]
=============================================================================
