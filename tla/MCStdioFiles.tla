---------------------------- MODULE MCStdioFiles ----------------------------
EXTENDS StdioFiles
CONSTANTS h1, h2, t1, t2
=============================================================================
