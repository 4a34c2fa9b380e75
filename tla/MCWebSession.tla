---------------------------- MODULE MCWebSession ----------------------------
EXTENDS WebSession
CONSTANTS a, b, r1, r2
=============================================================================
