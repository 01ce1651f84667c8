-------------------------- MODULE MCConnectionPool --------------------------
(* Small instances of ConnectionPool for TLC.                              *)
EXTENDS ConnectionPool

CONSTANTS c1, c2, c3, k1, e1, e2, t1, t2, t3, nil

ThreeCallers == {c1, c2, c3}
TwoCallers == {c1, c2}
OneCloser == {k1}
NoClosers == {}
MCEntries == {e1, e2}
OneEntry == {e1}
MCConns == {t1, t2, t3}
TwoConns == {t1, t2}
=============================================================================
