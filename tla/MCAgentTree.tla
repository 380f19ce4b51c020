---------------------------- MODULE MCAgentTree ----------------------------
(***************************************************************************)
(* Small agent trees for TLC.  An id is the path of child numbers from the *)
(* root, as in the code ("<parent>-child-<n>"): its parent is its front    *)
(* and its depth its length.                                               *)
(***************************************************************************)
EXTENDS AgentTreeDocs

CONSTANTS u, uFrag, v, re

MCUrl == {u, uFrag, v}
MCRegex == {re}
\* uFrag is u with a #fragment, which normalize_url drops.
MCNormal == [x \in MCUrl |-> IF x = uFrag THEN u ELSE x]
\* re matches the page u however it is written.
MCMatches == [r \in MCRegex |-> {u, uFrag}]

MCParent(ids) == [c \in ids \ {<< >>} |-> Front(c)]
MCDepth(ids) == [a \in ids |-> Len(a)]

MCRoot == << >>

\* Two children, a grandchild, and a great-grandchild that the limits refuse.
DeepIds == {<< >>, <<1>>, <<2>>, <<1, 1>>, <<1, 1, 1>>}
DeepParent == MCParent(DeepIds)
DeepDepth == MCDepth(DeepIds)

\* Two children of the root.
PairIds == {<< >>, <<1>>, <<2>>}
PairParent == MCParent(PairIds)
PairDepth == MCDepth(PairIds)

PageOfV == [kind |-> "page", url |-> v]
ListOfBoth == [kind |-> "list", urls |-> {uFrag, v}]
PatternOfU == [kind |-> "pattern", regex |-> re]

\* A page, a list and a pattern that clash pairwise except page u / page v.
MixedScopes == {ListOfBoth, PatternOfU, PageOfV}
\* Two scopes that never clash.
FreeScopes == {PageOfV, PatternOfU}

\* The children a parent sees and those that count: a result item comes from a child
\* that has finished, and every slot taken is that of a child its parent tracks.
ChildrenCounted == ItemsFromFinished /\ SlotsAccounted
=============================================================================
