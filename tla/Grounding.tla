------------------------------ MODULE Grounding ------------------------------
(***************************************************************************)
(* What the root cause agent makes of a model's answer: ground and         *)
(* resolve_location of rca_agent.py.  An answer may name anything; what is *)
(* kept of it has to be in the evidence.                                   *)
(***************************************************************************)
EXTENDS Naturals, Sequences, FiniteSets

CONSTANTS
    Locations,    \* places in code, file::name
    NoLocation,   \* evidence that has no place, an answer that names none
    FileOf        \* the file of each location

ASSUME LocationsAssumption ==
    /\ NoLocation \notin Locations
    /\ DOMAIN FileOf = Locations

Files == {FileOf[l] : l \in Locations}

(* "known" and "localized" items come from the fix localization, with a     *)
(* [KNOWN] location or another one.                                        *)
FixLocalization == {"known", "localized"}
Sources == FixLocalization \cup {"fact", "semantic"}
Items == [source : Sources, location : Locations \cup {NoLocation}]

(* An answer, once it has parsed: the citations, a location in the words   *)
(* of the model, and the number of the evidence item to take it from.      *)
Answers(n) ==
    [cited : SUBSET (1 .. n), location : Locations \cup Files \cup {NoLocation},
     locationId : 0 .. n, insufficient : BOOLEAN]

RootCauses ==
    [status : {"none", "insufficient", "established"}, location : Locations \cup {NoLocation}]
NoRootCause == [status |-> "none", location |-> NoLocation]
Insufficient == [status |-> "insufficient", location |-> NoLocation]

-----------------------------------------------------------------------------
Known(evidence) == {evidence[i].location : i \in DOMAIN evidence} \ {NoLocation}

(* The location of the first item from one of the sources that names one  *)
(* among the given: a set of at most one location.                         *)
FirstLocation(evidence, sources, among) ==
    LET fits == {i \in DOMAIN evidence : /\ evidence[i].source \in sources
                                         /\ evidence[i].location \in among}
    IN  {evidence[i].location : i \in {i \in fits : \A k \in fits : i <= k}}

(* "file.py" or "file.py:59": the locations in that file; of several, the  *)
(* fix localization's.                                                     *)
InFile(file, evidence) ==
    LET fits == {l \in Known(evidence) : FileOf[l] = file}
        localized == FirstLocation(evidence, FixLocalization, fits)
    IN  IF Cardinality(fits) > 1 /\ localized # {} THEN localized ELSE fits

OnlyOne(set) == IF Cardinality(set) = 1 THEN set ELSE {}

(* The places the answer may mean, in the order they are tried, each at    *)
(* most one location.                                                      *)
Candidates(answer, evidence) ==
    <<IF answer.locationId \in DOMAIN evidence
      THEN {evidence[answer.locationId].location} \ {NoLocation} ELSE {},
      {answer.location} \cap Known(evidence),
      IF answer.location \in Files THEN OnlyOne(InFile(answer.location, evidence)) ELSE {},
      FirstLocation(evidence, {"known"}, Locations)>>

(* Variant: a location the model makes up is taken at its word. *)
FreeText(answer, evidence) == answer.location

ResolveLocation(answer, evidence) ==
    LET places == Candidates(answer, evidence)
        found == {k \in DOMAIN places : places[k] # {}}
        first == CHOOSE k \in found : \A m \in found : k <= m
    IN  IF found = {} THEN NoLocation ELSE CHOOSE l \in places[first] : TRUE

(* Citations of items that do not exist are dropped; an answer without one *)
(* that does is insufficient, whatever it says.                            *)
Ground(answer, evidence) ==
    [status |-> IF answer.insufficient \/ answer.cited \cap DOMAIN evidence = {}
                THEN "insufficient" ELSE "established",
     location |-> ResolveLocation(answer, evidence)]

(* RootCauseAnalysis.location "must be one of the evidence locations".     *)
Grounded(rootCause, evidence) ==
    rootCause.location \in Known(evidence) \cup {NoLocation}
=============================================================================
