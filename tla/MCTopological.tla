--------------------------- MODULE MCTopological ----------------------------
EXTENDS MCBlocks, TopologicalLoop, SnowmanRefinement
=============================================================================
