------------------------------ MODULE MCStoryKeys ------------------------------
(* Small instances of StoryKeys: two sprints of epic A and one of epic B.     *)
EXTENDS StoryKeys

CONSTANTS p1, p2, w1, w2, f, A1, A2, B1

MCEpicOf == [s \in {A1, A2, B1} |-> IF s = B1 THEN "B" ELSE "A"]

\* w2 depends on w1, a story of the other epic.
MCPlaced == [w \in {w1, w2} |-> IF w = w1 THEN <<B1, 1>> ELSE <<A2, 1>>]
MCNeeds == [w \in {w1, w2, f} |-> IF w = w2 THEN {w1} ELSE {}]

\* Stories leave B1 for A1 and go on to A2, which none leaves.
OneWay == {<<B1, A1>>, <<A1, A2>>}

MCVerbs == [p \in {p1, p2} |->
  IF p = p1 THEN {"reparent-story"}
            ELSE {"reparent-story", "promote-issue", "move-epic", "set-status"}]
=============================================================================
