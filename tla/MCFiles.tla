------------------------------ MODULE MCFiles -------------------------------
EXTENDS Files

\* Two edits look for different pieces, the third one for what the first puts in.
MCTarget == [c \in Calls |-> IF c \in Writes \cup Reads THEN "new.txt" ELSE "a.txt"]
MCOld == [c \in Edits |-> IF c = "e1" THEN "x0" ELSE IF c = "e2" THEN "y0" ELSE "x1"]
\* Or every edit has a piece of its own
MCOwnOld == [c \in Edits |-> <<"old", c>>]
MCOwnNew == [c \in Edits |-> <<"new", c>>]
MCOwnText == {<<"old", c>> : c \in Edits}
MCNew == [c \in Edits |-> IF c = "e1" THEN "x1" ELSE c]
MCWritten == [c \in Writes |-> {c}]
MCEntries == {[n \in Names |-> IF n = "new.txt" THEN NoInode ELSE 1]}
MCText == {"x0", "y0"}
\* The lowest free number, as ext4 chooses
MCLowest(S) == {i \in S : \A j \in S : i <= j}
=============================================================================
