---------------------------- MODULE AppendOnlyLog ----------------------------
(***************************************************************************)
(* What an audit log promises its readers: it starts empty, it grows by    *)
(* one entry at a time, at its end, and no step of the program changes or  *)
(* removes an entry.  An outside hand on the table ends the promise;       *)
(* "intact" says that none has been there.                                 *)
(***************************************************************************)
EXTENDS Sequences

CONSTANT Contents  \* what an entry may record

VARIABLES entries, \* the contents of the entries, in order
          intact   \* nothing but the program has written to the table

vars == <<entries, intact>>

Init ==
  /\ entries = <<>>
  /\ intact = TRUE

Grow ==
  /\ intact' = intact
  /\ \E c \in Contents : entries' = Append(entries, c)

Tamper == intact' = FALSE

Next == IF intact THEN Grow \/ Tamper ELSE intact' = FALSE

Spec == Init /\ [][Next]_vars
=============================================================================
