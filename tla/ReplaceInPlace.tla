--------------------------- MODULE ReplaceInPlace ---------------------------
(***************************************************************************)
(* _mysql_replace_final_from_temp_sync: DELETE the rows of the final       *)
(* table, INSERT those of the temp table, DROP the temp table.  Every      *)
(* statement commits by itself.  When an answer is lost, the statement may *)
(* or may not have run, and the whole sequence is tried once more on a new *)
(* connection.                                                             *)
(***************************************************************************)
EXTENDS Naturals, PublishCall

CONSTANTS
  Columns, Generated,  \* the columns of the final table, and the generated ones
  Attempts             \* range(1, 3): two

ASSUME ColumnsAssumption == Generated \subseteq Columns
ASSUME AttemptsAssumption == Attempts \in Nat \ {0}

VARIABLES
  filled,       \* the columns the rows of the final table have values for
  tempColumns,  \* the columns the temp table has
  attempt,
  names, dropped,  \* columns the INSERT carries, and those it should but cannot
  running,      \* statements of lost connections the server still works on
  overlap       \* whether an attempt began while there was such a statement

tableVars == <<final, filled, temp, tempColumns>>
vars == <<tableVars, pc, attempt, names, dropped, running, overlap, result>>

Init ==
  /\ final = "old" /\ filled = Columns
  /\ temp = TRUE /\ tempColumns \in SUBSET Columns
  /\ pc = "connect" /\ attempt = 1 /\ names = {} /\ dropped = {}
  /\ running = {} /\ overlap = FALSE /\ result = "pending"

(***************************************************************************)
(* The statements that change something.  One waits for the rows or the    *)
(* table another session works on, until that ends or the lock wait does.  *)
(***************************************************************************)
Delete == final' = "empty" /\ filled' = {} /\ UNCHANGED <<temp, tempColumns>>
Insert == temp /\ final' = "new" /\ filled' = names /\ UNCHANGED <<temp, tempColumns>>
Drop == temp /\ temp' = FALSE /\ UNCHANGED <<final, filled, tempColumns>>

Effect(s) ==
  \/ s = "delete" /\ Delete
  \/ s = "insert" /\ Insert
  \/ s = "drop" /\ Drop

Free(s) ==
  /\ s = "delete" => running \cap {"delete", "insert"} = {}
  /\ s \in {"insert", "drop"} => "drop" \notin running

\* Mutant: swallows the exception.
RaiseSwallowed == result' = "done" /\ pc' = "returned" /\ UNCHANGED attempt
Raise == result' = "failed" /\ pc' = "returned" /\ UNCHANGED attempt

\* "lost connection" and "timed out" are worth one more attempt, anything else is not.
Retry ==
  IF attempt < Attempts
    THEN pc' = "connect" /\ attempt' = attempt + 1 /\ UNCHANGED result
    ELSE Raise

Proceed(step) == pc' = step /\ UNCHANGED <<attempt, result>>

(***************************************************************************)
(* The call.                                                               *)
(***************************************************************************)
\* Connecting is outside the try: a refusal is final.
Connect ==
  /\ pc = "connect"
  /\ Proceed("columns") \/ Raise
  /\ overlap' = (overlap \/ running # {})
  /\ UNCHANGED <<tableVars, names, dropped, running>>

\* build_mysql_insert_columns, mysql_dropped_insert_columns: a table that is gone has no
\* columns.
Available == IF temp THEN tempColumns ELSE {}
Carried == (Columns \ Generated) \cap Available
\* Mutant: the columns of the temp table that do not fit.
LostFromTemp == Available \ (Columns \ Generated)
Lost == (Columns \ Generated) \ Available

\* "no columns to copy" ends the call before the DELETE.
\* Mutant: does not look.
AnyColumns(carried) == TRUE
HasColumns(carried) == carried # {}

ReadColumns ==
  /\ pc = "columns"
  /\ \/ /\ HasColumns(Carried) /\ Proceed("delete")
        /\ names' = Carried /\ dropped' = Lost
     \/ (Raise \/ Retry) /\ UNCHANGED <<names, dropped>>
  /\ UNCHANGED <<tableVars, running, overlap>>

\* It runs, it is refused, or the answer is lost.
Execute(s, following) ==
  /\ pc = s
  /\ \/ Free(s) /\ Effect(s) /\ Proceed(following) /\ UNCHANGED running
     \/ Raise /\ UNCHANGED <<tableVars, running>>
     \/ running' = running \cup {s} /\ Retry /\ UNCHANGED tableVars
  /\ UNCHANGED <<names, dropped, overlap>>

DeleteRows == Execute("delete", "insert")
InsertRows == Execute("insert", "drop")
DropTemp == Execute("drop", "finish")

\* Turns the foreign key checks on again; an error here fails a call that is through.
Finish ==
  /\ pc = "finish"
  /\ \/ result' = "done" /\ pc' = "returned" /\ UNCHANGED attempt
     \/ Raise \/ Retry
  /\ UNCHANGED <<tableVars, names, dropped, running, overlap>>

\* The server carries out a statement nobody waits for any more, or gives it up.
EndRunning ==
  /\ \E s \in running :
       /\ running' = running \ {s}
       /\ Effect(s) \/ UNCHANGED tableVars
  /\ UNCHANGED <<pc, attempt, names, dropped, overlap, result>>

Call == Connect \/ ReadColumns \/ DeleteRows \/ InsertRows \/ DropTemp \/ Finish

Next == Call \/ EndRunning

Spec == Init /\ [][Next]_vars

(***************************************************************************)
(* Properties.                                                             *)
(***************************************************************************)
Statements == {"delete", "insert", "drop"}

\* Every variable holds a value of its type; there is no attempt beyond Attempts.
TypeOK ==
  /\ final \in {"old", "empty", "new"} /\ filled \in SUBSET Columns
  /\ temp \in BOOLEAN /\ tempColumns \in SUBSET Columns
  /\ pc \in Statements \cup {"connect", "columns", "finish", "returned"}
  /\ attempt \in 1 .. Attempts
  /\ names \in SUBSET Columns /\ dropped \in SUBSET Columns
  /\ running \in SUBSET Statements /\ overlap \in BOOLEAN
  /\ result \in {"pending", "done", "failed"}

\* The rows the run has copied are never gone from both tables, wherever a connection
\* breaks and whatever the second attempt finds, unless a statement of the first attempt
\* was still at work when the second began.
RowsSomewhere == ~overlap => temp \/ final = "new"

\* A column that stays at its default in every row is named to the caller: "that used to
\* happen silently" (transfer.py:664).
ColumnsAccounted ==
  result = "done" => Columns \ Generated \subseteq filled \cup dropped

\* It keeps what publishing a table promises; readers may find it empty meanwhile.
Publishing == INSTANCE TableReplace WITH content <- final, Atomic <- FALSE
PublishesTable == Publishing!Spec
=============================================================================
