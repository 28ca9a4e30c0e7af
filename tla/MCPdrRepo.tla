----------------------------- MODULE MCPdrRepo -----------------------------
(***************************************************************************)
(* PdrRepo and EntityTree for model checking: they have no state in        *)
(* common, and a behaviour is one of either.  The entities of PdrRepo are  *)
(* only compared, so they are interchangeable.                             *)
(***************************************************************************)
EXTENDS PdrRepo, EntityTree, TLC

\* What this terminus adds, and what it adds of another's.
MCAddedTypes ==
    1 :> {"FRU_RECORD_SET", "STATE_SENSOR"}
    @@ 2 :> {"STATE_EFFECTER", "TERMINUS_LOCATOR", "ENTITY_ASSOCIATION"}

VARIABLE part

PdrInit ==
    /\ part \in {"repository", "tree"}
    /\ Init /\ TreeInit
    /\ part = "repository" => style = "built"

PdrNext ==
    /\ UNCHANGED part
    /\ \/ part = "repository" /\ Next /\ UNCHANGED treeVars
       \/ part = "tree" /\ TreeNext /\ UNCHANGED vars

PdrSpec == PdrInit /\ [][PdrNext]_<<part, vars, treeVars>>

Symmetry == Permutations(Entities)
=============================================================================
