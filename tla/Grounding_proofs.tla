--------------------------- MODULE Grounding_proofs ---------------------------
(* What ground() of rca_agent.py guarantees for every answer of a model.   *)
EXTENDS Grounding, TLAPS

(* The loose match of a file name finds locations of the evidence only.    *)
LEMMA InFileIsKnown ==
    ASSUME NEW evidence, NEW file
    PROVE  InFile(file, evidence) \subseteq Known(evidence)
<1> DEFINE fits == {l \in Known(evidence) : FileOf[l] = file}
<1>1. FirstLocation(evidence, FixLocalization, fits) \subseteq fits
  BY DEF FirstLocation
<1>2. QED
  BY <1>1 DEF InFile

(* Each place that is tried is in the evidence.                            *)
LEMMA CandidatesAreKnown ==
    ASSUME NEW evidence, NEW answer, NEW k \in 1 .. 4
    PROVE  Candidates(answer, evidence)[k] \subseteq Known(evidence)
<1>1. FirstLocation(evidence, {"known"}, Locations) \subseteq Known(evidence)
  <2>1. FirstLocation(evidence, {"known"}, Locations)
            \subseteq {evidence[i].location : i \in DOMAIN evidence} \cap Locations
    BY DEF FirstLocation
  <2>2. QED
    BY <2>1, LocationsAssumption DEF Known
<1>2. OnlyOne(InFile(answer.location, evidence)) \subseteq Known(evidence)
  BY InFileIsKnown DEF OnlyOne
<1>3. answer.locationId \in DOMAIN evidence =>
          {evidence[answer.locationId].location} \ {NoLocation} \subseteq Known(evidence)
  BY DEF Known
<1>4. QED
  BY <1>1, <1>2, <1>3 DEF Candidates

(* "Anything else is dropped, never taken from free text": whatever a model *)
(* answers, the location that resolve_location returns is in the evidence,  *)
(* or there is none.                                                        *)
THEOREM ResolvedIsInEvidence ==
    ASSUME NEW evidence, NEW answer
    PROVE  ResolveLocation(answer, evidence) \in Known(evidence) \cup {NoLocation}
<1> DEFINE places == Candidates(answer, evidence)
           found == {k \in DOMAIN places : places[k] # {}}
           first == CHOOSE k \in found : \A m \in found : k <= m
<1>1. DOMAIN places = 1 .. 4
  BY DEF Candidates
<1>2. CASE found = {}
  BY <1>2 DEF ResolveLocation
<1>3. CASE found # {}
  <2>1. found \subseteq 1 .. 4
    BY <1>1
  <2> HIDE DEF places
  <2>2. \E k \in found : \A m \in found : k <= m
    <3>1. CASE 1 \in found
      BY <3>1, <2>1
    <3>2. CASE 1 \notin found /\ 2 \in found
      BY <3>2, <2>1
    <3>3. CASE 1 \notin found /\ 2 \notin found /\ 3 \in found
      BY <3>3, <2>1
    <3>4. CASE 1 \notin found /\ 2 \notin found /\ 3 \notin found
      BY <3>4, <2>1, <1>3
    <3>5. QED
      BY <3>1, <3>2, <3>3, <3>4
  <2>3. first \in found
    BY <2>2
  <2>4. first \in 1 .. 4 /\ places[first] # {}
    BY <2>1, <2>3
  <2>5. places[first] \subseteq Known(evidence)
    BY <2>4, CandidatesAreKnown DEF places
  <2>6. ResolveLocation(answer, evidence) = CHOOSE l \in places[first] : TRUE
    BY <1>3 DEF ResolveLocation, places
  <2>7. QED
    BY <2>4, <2>5, <2>6
<1>4. QED
  BY <1>2, <1>3

(* The root cause that ground() makes of an answer is grounded, and is not *)
(* established without a citation of an item that exists.                  *)
THEOREM GroundedAlways ==
    ASSUME NEW evidence, NEW answer
    PROVE  /\ Grounded(Ground(answer, evidence), evidence)
           /\ Ground(answer, evidence).status = "established" =>
                  answer.cited \cap DOMAIN evidence # {}
  BY ResolvedIsInEvidence DEF Grounded, Ground
=============================================================================
