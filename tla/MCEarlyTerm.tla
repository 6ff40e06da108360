---------------------------- MODULE MCEarlyTerm -----------------------------
EXTENDS MCBlocks, EarlyTermSound
=============================================================================
