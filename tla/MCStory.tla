------------------------------ MODULE MCStory ------------------------------
(***************************************************************************)
(* The public story for TLC: edits of the override, the composition of a   *)
(* scan's story from events, and redaction.  They work on different keys   *)
(* of the story from different tables, so a behaviour is one of them at    *)
(* work while the others rest.                                             *)
(***************************************************************************)
EXTENDS StoryOverride, PublicStory, Redaction

VARIABLE part  \* the part at work

Kind(entity, type, source, result, farmer) ==
  [entity |-> entity, type |-> type, source |-> source, result |-> result, farmer |-> farmer]

(* A lab result can repeat a field of another or lack it, and can be recorded by
   hand, too. *)
MCEventKinds ==
  {Kind(Lot, "LOT_ASSEMBLED", "scm", << >>, {}),
   Kind("b1", "WET_MILL_COMPLETE", "mes", << >>, {"farmer"}),
   Kind("b1", "LAB_RESULT_RECORDED", "qc", [cup_score |-> 80, grade |-> 2], {}),
   Kind("b1", "LAB_RESULT_RECORDED", "manual", [cup_score |-> 85], {}),
   Kind("b2", "LAB_RESULT_RECORDED", "qc", [grade |-> 1], {})}

(* SCM may list a batch twice; when it does not answer, none is listed. *)
MCBatchLists == {<< "b1", "b2" >>, << "b2", "b1" >>, << "b1", "b2", "b1" >>}

(* Functions from some of the given keys to values of theirs. *)
Some(values) ==
  FoldSet(LAMBDA k, fs : fs \cup {f @@ (k :> value) : f \in fs, value \in values[k]}, {<< >>}, DOMAIN values)

(* A coordinate that is exact, one that is not a number, one missing. *)
Locations == Some([district |-> {Text("d"), Text("")},
                   lat      |-> {Number(1075), Text("")},
                   lng      |-> {Number(-4), Text("")}])

MCRawEntities ==
  Some([name     |-> {Text("n")},
        Email    |-> {Text("e")},
        district |-> {Text("own")},
        map      |-> {Object([lat |-> Number(1), lng |-> Number(2)])},
        lat      |-> {Number(n) : n \in {0, 4, 5, 347, -4, -5, -1286}} \cup {Text("")},
        lng      |-> {Number(-5), Text("")},
        location |-> {Text("")} \cup {Object(l) : l \in Locations}])

(* A farmer of SCM's, with and without terms of sale. *)
PreviewEntities ==
  Some([name  |-> {Text("n")}, Email |-> {Text("e")}, price |-> {Number(4)},
        lat   |-> {Number(-1286)}, lng |-> {Number(-5)},
        location |-> {Object([lat |-> Number(347), lng |-> Number(4), price |-> Text("p")])}])

(* What SCM's preview may hold: sales terms at any depth, farmers or not. *)
MCPreviews ==
  {Object(p) : p \in
     Some([buyer   |-> {Object([name |-> Text("b")])},
           lot     |-> {Text(""), Object([buyer |-> Text("b"), terms |-> Array(<< Object([price |-> Number(4)]) >>)])},
           farmers |-> {Text(""), Array(<< Text("f") >>)} \cup {Array(<< Object(e) >>) : e \in PreviewEntities}])}

MCInit ==
  /\ part \in {"override", "scan", "redaction"}
  /\ Init /\ StoryInit /\ RedactionInit

MCNext ==
  /\ UNCHANGED part
  /\ \/ part = "override" /\ Next /\ UNCHANGED << storyVars, doc >>
     \/ part = "scan" /\ StoryNext /\ UNCHANGED << vars, doc >>
     \/ part = "redaction" /\ RedactionNext /\ UNCHANGED << vars, storyVars >>

MCSpec == MCInit /\ [][MCNext]_<< part, vars, storyVars, doc >>

Symmetry == Permutations(Patchers) \cup Permutations(Composers) \cup Permutations(Values)
============================================================================
