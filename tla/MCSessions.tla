------------------------------ MODULE MCSessions ----------------------------
(* Small instances of Sessions for TLC.                                    *)
EXTENDS Sessions

CONSTANTS c1, c2, k1, e1, e2, t1, t2, t3, g1, nil

TwoCallers == {c1, c2}
OneCaller == {c1}
OneCloser == {k1}
NoClosers == {}
OneEntry == {e1}
TwoConns == {t1, t2}
OneConn == {t1}
OneGuest == {g1}
NoGuests == {}
AllReplies == {"reply", "garbage"}
Decodable == {"reply"}
AllHazards == {"unreachable", "broken", "garbled"}
=============================================================================
