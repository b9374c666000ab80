-------------------------------- MODULE MCReorg --------------------------------
(* A small instance of Reorg: three stories in two epics, a sprint that does  *)
(* not exist yet and a backlog item that may become a story.                  *)
EXTENDS Reorg

CONSTANTS w1, w2, w3, f

MCSprints == {<<1, 1>>, <<1, 2>>, <<2, 1>>}

MCStart == [w \in {w1, w2, w3, f} |->
  CASE w = w1 -> <<1, 1, 1>> [] w = w2 -> <<1, 1, 2>> [] w = w3 -> <<2, 1, 1>>
    [] w = f -> Unborn]

\* w1 and w3 need w2, which stands behind w1 at the start.
MCNeeds == [w \in {w1, w2, w3, f} |-> IF w \in {w1, w3} THEN {w2} ELSE {}]
=============================================================================
