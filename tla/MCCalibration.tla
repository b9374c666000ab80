---------------------------- MODULE MCCalibration ----------------------------
(* Small instances of Calibration: two agents with a story each, one operator. *)
EXTENDS Calibration

CONSTANTS s1, s2, s3, o1, dev, qa, op

MCOwn == [p \in Callers |-> CASE p = dev -> {s1} [] p = qa -> {s2} [] p = op -> {s3}]

MCVerbs ==
  [p \in Callers |->
     IF p = op THEN {"import-actual", "migrate-metrics", "redrive"} ELSE {"set-actual"}]
=============================================================================
