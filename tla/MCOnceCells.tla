----------------------------- MODULE MCOnceCells -----------------------------
EXTENDS OnceCells
==============================================================================
