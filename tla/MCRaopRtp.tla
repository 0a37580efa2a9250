----------------------------- MODULE MCRaopRtp -----------------------------
EXTENDS RaopRtp

MCNoFlush == -42
MCFlush == {-1}
MCFlushSeqs == {-1, 2}
=============================================================================
