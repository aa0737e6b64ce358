--------------------------- MODULE MCBrandPrompts ---------------------------
\* Two prompts of one text.
EXTENDS BrandPrompts, TLC

CONSTANTS p1, p2, text

MCTextOf == p1 :> text @@ p2 :> text

\* They only differ in their name, and the one delete is of at most one of them:
\* that one is p1.
FirstIsDeleted == \A c \in Deletes : call[c].prompt # p2
=============================================================================
