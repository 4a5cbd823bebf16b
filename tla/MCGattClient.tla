---------------------------- MODULE MCGattClient ----------------------------
EXTENDS GattClient

Chars(handles) == {[start |-> h] : h \in handles}
S(start, end, uuid, primary, chars, includes) ==
  [start |-> start, end |-> end, uuid |-> uuid, primary |-> primary, chars |-> Chars(chars), includes |-> includes]
Incl(handle, s, short) == {[start |-> handle, service |-> [start |-> s[1], end |-> s[2]], short |-> short]}

\* Two services of one UUID around one of another; a primary and a secondary service
\* that are included; a gap at the end.
Before == {S(1, 2, "u", TRUE, {2}, {}), S(3, 5, "v", TRUE, {5}, Incl(4, <<7, 7>>, FALSE)),
           S(6, 6, "u", TRUE, {}, {}), S(7, 7, "v", FALSE, {}, {})}
After2 == {S(1, 3, "v", TRUE, {}, Incl(2, <<4, 6>>, FALSE) \cup Incl(3, <<7, 7>>, FALSE)),
           S(4, 6, "u", TRUE, {5, 6}, {}), S(7, 7, "u", FALSE, {}, {})}
Short == {S(1, 3, "v", TRUE, {3}, Incl(2, <<4, 6>>, TRUE)), S(4, 6, "u", TRUE, {5}, {})}
MCDatabases == {Before, After2}
MCShort == {Short}
MCInvalidations == {Whole, [start |-> 1, end |-> 3]}
Reads == {"discover", "chars", "includes", "invalidate"}
MCBudgets == {[calls |-> 4, changes |-> 0, of |-> Reads], [calls |-> 3, changes |-> 1, of |-> Reads],
              [calls |-> 4, changes |-> 0, of |-> {"write", "readByUuid"}]}
=============================================================================
