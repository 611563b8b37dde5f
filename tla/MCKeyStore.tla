----------------------------- MODULE MCKeyStore -----------------------------
EXTENDS KeyStore
CONSTANTS h1, h2, t1, t2, v1, v2
\* Tasks are alike, and so are the addresses of handles and the values.
Symmetry == Permutations(Tasks) \cup Permutations(Addrs) \cup Permutations(Bytes)
=============================================================================
