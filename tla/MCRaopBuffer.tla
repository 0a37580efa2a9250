---------------------------- MODULE MCRaopBuffer ----------------------------
EXTENDS RaopBuffer, TLC

CONSTANTS d1, d2

MCData == {d1, d2}
=============================================================================
