--------------------------- MODULE MCConnectionPool ---------------------------
EXTENDS ConnectionPool

CONSTANTS own, u1, u2, u3, n1, n2, self, c1, w, h1
=============================================================================
