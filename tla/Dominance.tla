----------------------------- MODULE Dominance ------------------------------
(***************************************************************************)
(* Dominance: asst3/LICM/dominance.h and dominance.cpp.  dominates(A, B)   *)
(* reads the IN set of B, so it is the strict relation.                    *)
(***************************************************************************)
EXTENDS IR

DominanceDomain(f) == f.blocks

\* Faulty form, for checking that the properties notice: a block is left out
\* of its own OUT set.
DominanceTransferNoSelf(f, b, input) ==
    [element |-> input, neighborVals |-> [p \in {} |-> {}]]

DominanceTransfer(f, b, input) ==
    [element |-> input \cup {b}, neighborVals |-> [p \in {} |-> {}]]

\* dominates(A, B, dom), dom the IN sets.
Dominates(dom, A, B) == A \in dom[B]

\* Faulty form: the test for a block in between is missing.
IdomCandidatesAll(f, dom, B) == {A \in f.blocks \ {B} : Dominates(dom, A, B)}

\* Faulty form: A dom C is read the wrong way round.
IdomCandidatesFarthest(f, dom, B) ==
    {A \in f.blocks \ {B} :
        /\ Dominates(dom, A, B)
        /\ ~\E C \in f.blocks \ {A, B} : Dominates(dom, C, A) /\ Dominates(dom, C, B)}

\* The blocks computeIdom takes for an immediate dominator of B.
IdomCandidates(f, dom, B) ==
    {A \in f.blocks \ {B} :
        /\ Dominates(dom, A, B)
        /\ ~\E C \in f.blocks \ {A, B} : Dominates(dom, A, C) /\ Dominates(dom, C, B)}
=============================================================================
