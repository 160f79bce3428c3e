------------------------------ MODULE FileSpec ------------------------------
(***************************************************************************)
(* What the file tools promise: a file is a text, an edit or a write       *)
(* changes it in one step or not at all, and the outcome of a call says    *)
(* which. A text is the set of its pieces; an edit replaces one piece.     *)
(***************************************************************************)
CONSTANTS Edits, Writes, Reads, Names,
          Target,       \* the name each call works on
          Old, New,     \* the piece an edit looks for and the one it puts in
          Written,      \* the text a write stores
          InitialText,  \* the text every file starts with
          Absent        \* not a text: the name has no file

VARIABLES file, outcome

fvars == <<file, outcome>>

Calls == Edits \cup Writes \cup Reads

Found(c) == /\ file[Target[c]] # Absent
            /\ Old[c] \in file[Target[c]]

Finish(c, how) == /\ outcome[c] = "none"
                  /\ outcome' = [outcome EXCEPT ![c] = how]

Init == /\ file \in [Names -> {InitialText, Absent}]
        /\ outcome = [c \in Calls |-> "none"]

\* The edit sees the current text, and the current text becomes its result.
Edit(c) == /\ Found(c)
           /\ file' = [file EXCEPT ![Target[c]] = (@ \ {Old[c]}) \cup {New[c]}]
           /\ Finish(c, "ok")

Refuse(c) == /\ ~Found(c)
             /\ Finish(c, "nomatch")
             /\ UNCHANGED file

Write(c) == /\ file' = [file EXCEPT ![Target[c]] = Written[c]]
            /\ Finish(c, "ok")

Read(c) == /\ \/ file[Target[c]] # Absent /\ Finish(c, "ok")
              \/ file[Target[c]] = Absent /\ Finish(c, "nomatch")
           /\ UNCHANGED file

\* Cancelled before it started, or an I/O error before the replacement.
GiveUp(c) == /\ Finish(c, "cancelled") \/ Finish(c, "failed")
             /\ UNCHANGED file

Next == \/ \E c \in Edits : Edit(c) \/ Refuse(c)
        \/ \E c \in Writes : Write(c)
        \/ \E c \in Reads : Read(c)
        \/ \E c \in Calls : GiveUp(c)

Spec == Init /\ [][Next]_fvars
=============================================================================
