---------------------------- MODULE TableReplace ----------------------------
(***************************************************************************)
(* What publishing one table promises, whichever way it is done: a call    *)
(* that says "done" has put the new rows in place, one that says "refused" *)
(* has left the table as it was, and after either the table is not touched *)
(* again.  A call that failed for another reason promises nothing.         *)
(***************************************************************************)
CONSTANT Atomic  \* whether a reader may never find the table without its rows

VARIABLES
  content,  \* what a reader of the final table finds
  result    \* what the caller was told

Before == {"absent", "old"}

Init == content \in Before /\ result = "pending"

MayChange == result \in {"pending", "failed"}

Clear ==
  /\ MayChange /\ ~Atomic
  /\ content' = "empty" /\ UNCHANGED result

Publish ==
  /\ MayChange
  /\ content' = "new" /\ UNCHANGED result

Answer(r) ==
  /\ result = "pending"
  /\ r = "done" => content = "new"
  /\ r = "refused" => content \in Before
  /\ result' = r /\ UNCHANGED content

Next == Clear \/ Publish \/ \E r \in {"done", "refused", "failed"} : Answer(r)

Spec == Init /\ [][Next]_<<content, result>>
=============================================================================
