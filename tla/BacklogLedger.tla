--------------------------- MODULE BacklogLedger ----------------------------
(***************************************************************************)
(* What the backlog promises a reader, without files, locks or crashes:    *)
(* one history per key.  An item is opened, re-severitied while open,      *)
(* settled once, reopened only if it had been closed as fixed, and keeps   *)
(* its content and its severity across all of that.                        *)
(***************************************************************************)
CONSTANTS Keys, Contents, Severities, Resolutions, NoContent

VARIABLE ledger

Histories ==
  [phase : {"unused", "open", "deleted"} \cup Resolutions,
   content : Contents \cup {NoContent}, sev : Severities \cup {0}]

Unused == [phase |-> "unused", content |-> NoContent, sev |-> 0]

Init == ledger = [k \in Keys |-> Unused]

Open(k, c, sev) ==
  /\ ledger[k] = Unused
  /\ ledger' = [ledger EXCEPT ![k] = [phase |-> "open", content |-> c, sev |-> sev]]

Resever(k, sev) ==
  /\ ledger[k].phase = "open"
  /\ ledger' = [ledger EXCEPT ![k].sev = sev]

Settle(k, how) ==
  /\ ledger[k].phase = "open"
  /\ ledger' = [ledger EXCEPT ![k].phase = how]

Reopen(k) ==
  /\ ledger[k].phase = "fixed"
  /\ ledger' = [ledger EXCEPT ![k].phase = "open"]

\* A person strikes an open item out of the file.
Strike(k) ==
  /\ ledger[k].phase = "open"
  /\ ledger' = [ledger EXCEPT ![k] = [Unused EXCEPT !.phase = "deleted"]]

Next ==
  \E k \in Keys :
    \/ \E c \in Contents, sev \in Severities : Open(k, c, sev)
    \/ \E sev \in Severities : Resever(k, sev)
    \/ \E how \in Resolutions : Settle(k, how)
    \/ Reopen(k)
    \/ Strike(k)

Spec == Init /\ [][Next]_ledger
=============================================================================
