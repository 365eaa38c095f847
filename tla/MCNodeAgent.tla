---------------------------- MODULE MCNodeAgent ----------------------------
EXTENDS NodeAgent
============================================================================
