----------------------------- MODULE MCSpecSync -----------------------------
(* Two closing epics and one spec file with two sections.                    *)
EXTENDS SpecSync, TLC

CONSTANTS e1, e2, finding, other, link, s1, s2, architecture

OneFile == [s \in {s1, s2} |-> architecture]
ItemEpics == (finding :> e1) @@ (other :> e2) @@ (link :> e2)
ItemTypes == (finding :> "spec-updated") @@ (other :> "spec-proposal") @@ (link :> "adr-link")
ItemSections == (finding :> s1) @@ (other :> s2) @@ (link :> s2)
=============================================================================
