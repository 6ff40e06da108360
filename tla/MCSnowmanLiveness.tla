------------------------- MODULE MCSnowmanLiveness --------------------------
EXTENDS MCBlocks, SnowmanLiveness, SnowmanRefinement
=============================================================================
