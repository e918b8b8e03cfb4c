--------------------------- MODULE PublishingProofs ---------------------------
(***************************************************************************)
(* The two ways a finished table gets its final name, for every number of  *)
(* columns and attempts (ReplaceInPlace) and of locks, with every pair of  *)
(* timeouts in the assumed order (SwapTable).  Both are about the          *)
(* variables of PublishCall; neither has an action of the other.           *)
(***************************************************************************)
EXTENDS ReplaceInPlace, SwapTable, TLAPS

(***************************************************************************)
(* ReplaceInPlace.                                                         *)
(***************************************************************************)
USE ColumnsAssumption, AttemptsAssumption
    DEF tableVars, Statements

(***************************************************************************)
(* What earlier attempts may still do to the tables.  A statement that     *)
(* has to wait for them has outlived them once it is through.              *)
(***************************************************************************)
Overtaken ==
  /\ pc \in {"insert", "drop", "finish"} => running \cap {"delete", "insert"} = {}
  /\ pc \in {"drop", "finish"} => running = {}
  /\ result = "done" => running = {}

Progress ==
  /\ pc = "returned" <=> result # "pending"
  /\ pc = "insert" => final = "empty"
  /\ pc \in {"drop", "finish"} \/ result = "done" => final = "new" /\ filled = names
  /\ pc \in {"delete", "insert", "drop", "finish"} \/ result = "done" =>
       Columns \ Generated \subseteq names \cup dropped

IInv == TypeOK /\ Overtaken /\ Progress

LEMMA InitInv == Init => IInv
<1>1. Init => TypeOK
  <2> SUFFICES ASSUME Init PROVE TypeOK
    OBVIOUS
  <2>1. temp \in BOOLEAN /\ overlap \in BOOLEAN
    BY DEF Init
  <2>2. QED
    BY <2>1 DEF Init, TypeOK
<1>2. Init => Overtaken /\ Progress
  BY DEF Init, Overtaken, Progress
<1>3. QED
  BY <1>1, <1>2 DEF IInv

\* Neither a retry nor a failure touches the tables or the columns.
LEMMA NextInv == IInv /\ [Next]_vars => IInv'
<1> SUFFICES ASSUME IInv, [Next]_vars PROVE IInv'
  OBVIOUS
<1> USE DEF IInv, TypeOK, Overtaken, Progress, Proceed, Raise, Retry
<1>1. CASE Connect
  BY <1>1 DEF Connect
<1>2. CASE ReadColumns
  BY <1>2 DEF ReadColumns, Carried, Lost, Available
<1>3. CASE DeleteRows
  <2>1. CASE Delete /\ Free("delete") /\ Proceed("insert") /\ UNCHANGED running
    BY <1>3, <2>1 DEF DeleteRows, Execute, Free, Delete
  <2>2. CASE Raise /\ UNCHANGED <<tableVars, running>>
    BY <1>3, <2>2 DEF DeleteRows, Execute
  <2>3. CASE UNCHANGED tableVars /\ running' = running \cup {"delete"} /\ Retry
    BY <1>3, <2>3 DEF DeleteRows, Execute
  <2>4. QED
    BY <1>3, <2>1, <2>2, <2>3 DEF DeleteRows, Execute, Effect
<1>4. CASE InsertRows
  <2>1. CASE Insert /\ Free("insert") /\ Proceed("drop") /\ UNCHANGED running
    BY <1>4, <2>1 DEF InsertRows, Execute, Free, Insert
  <2>2. CASE Raise /\ UNCHANGED <<tableVars, running>>
    BY <1>4, <2>2 DEF InsertRows, Execute
  <2>3. CASE UNCHANGED tableVars /\ running' = running \cup {"insert"} /\ Retry
    BY <1>4, <2>3 DEF InsertRows, Execute
  <2>4. QED
    BY <1>4, <2>1, <2>2, <2>3 DEF InsertRows, Execute, Effect
<1>5. CASE DropTemp
  <2>1. CASE Drop /\ Free("drop") /\ Proceed("finish") /\ UNCHANGED running
    BY <1>5, <2>1 DEF DropTemp, Execute, Free, Drop
  <2>2. CASE Raise /\ UNCHANGED <<tableVars, running>>
    BY <1>5, <2>2 DEF DropTemp, Execute
  <2>3. CASE UNCHANGED tableVars /\ running' = running \cup {"drop"} /\ Retry
    BY <1>5, <2>3 DEF DropTemp, Execute
  <2>4. QED
    BY <1>5, <2>1, <2>2, <2>3 DEF DropTemp, Execute, Effect
<1>6. CASE Finish
  BY <1>6 DEF Finish
<1>7. CASE EndRunning
  BY <1>7 DEF EndRunning, Effect, Delete, Insert, Drop
<1>8. CASE UNCHANGED vars
  BY <1>8 DEF vars
<1>9. QED
  BY <1>1, <1>2, <1>3, <1>4, <1>5, <1>6, <1>7, <1>8 DEF Next, Call

\* Every variable keeps its type.
THEOREM TypeCorrect == Spec => []TypeOK
<1>1. IInv => TypeOK
  BY DEF IInv
<1>2. QED
  BY <1>1, InitInv, NextInv, PTL DEF Spec

\* ColumnsAccounted for every set of columns apitap may have left out.
THEOREM NoColumnLostSilently == Spec => []ColumnsAccounted
<1>1. IInv => ColumnsAccounted
  BY DEF IInv, Progress, ColumnsAccounted
<1>2. QED
  BY <1>1, InitInv, NextInv, PTL DEF Spec

\* PublishesTable: the sequence of statements, its retries and what lost statements do
\* later implement TableReplace.
THEOREM ReplacePublishes == Spec => PublishesTable
<1>1. Init => Publishing!Init
  BY DEF Init, Publishing!Init, Publishing!Before
<1>2. IInv /\ [Next]_vars => [Publishing!Next]_<<final, result>>
  <2> SUFFICES ASSUME IInv, [Next]_vars PROVE [Publishing!Next]_<<final, result>>
    OBVIOUS
  <2> USE DEF IInv, TypeOK, Overtaken, Progress, Proceed, Raise, Retry, Publishing!Next,
              Publishing!MayChange
  <2>1. CASE Connect
    BY <2>1 DEF Connect, Publishing!Answer
  <2>2. CASE ReadColumns
    BY <2>2 DEF ReadColumns, Publishing!Answer
  <2>3. CASE DeleteRows
    BY <2>3 DEF DeleteRows, Execute, Effect, Delete, Insert, Drop, Publishing!Clear,
       Publishing!Answer
  <2>4. CASE InsertRows
    BY <2>4 DEF InsertRows, Execute, Effect, Delete, Insert, Drop, Publishing!Publish,
       Publishing!Answer
  <2>5. CASE DropTemp
    BY <2>5 DEF DropTemp, Execute, Effect, Delete, Insert, Drop, Publishing!Answer
  <2>6. CASE Finish
    BY <2>6 DEF Finish, Publishing!Answer
  <2>7. CASE EndRunning
    <3>1. result \in {"pending", "failed"}
      BY <2>7 DEF EndRunning
    <3>2. QED
      BY <2>7, <3>1 DEF EndRunning, Effect, Delete, Insert, Drop, Publishing!Clear,
         Publishing!Publish
  <2>8. CASE UNCHANGED vars
    BY <2>8 DEF vars
  <2>9. QED
    BY <2>1, <2>2, <2>3, <2>4, <2>5, <2>6, <2>7, <2>8 DEF Next, Call
<1>3. QED
  BY <1>1, <1>2, InitInv, NextInv, PTL DEF Spec, PublishesTable, Publishing!Spec

(***************************************************************************)
(* Rows.  As long as no attempt has overlapped with a statement of an      *)
(* earlier one, the temp table is only gone once its rows have arrived.    *)
(***************************************************************************)
RowsKept ==
  ~overlap =>
    /\ temp \/ final = "new"
    /\ running # {} => pc \in {"connect", "returned"}
    /\ pc \in {"delete", "insert", "drop"} => temp
    /\ running \subseteq {"delete", "insert"} => temp \/ running = {}
    /\ "drop" \in running => running = {"drop"} /\ final = "new"
    /\ "insert" \in running => running = {"insert"}
    /\ "delete" \in running => running = {"delete"}

LEMMA NextRowsKept == IInv /\ RowsKept /\ [Next]_vars => RowsKept'
<1> SUFFICES ASSUME IInv, RowsKept, [Next]_vars, ~overlap' PROVE RowsKept'
  BY DEF RowsKept
<1> USE DEF IInv, TypeOK, Overtaken, Progress, RowsKept, Proceed, Raise, Retry
<1>1. CASE Connect
  BY <1>1 DEF Connect
<1>2. CASE ReadColumns
  BY <1>2 DEF ReadColumns, HasColumns, Carried, Available
<1>3. CASE DeleteRows
  BY <1>3 DEF DeleteRows, Execute, Effect, Delete, Insert, Drop
<1>4. CASE InsertRows
  BY <1>4 DEF InsertRows, Execute, Effect, Delete, Insert, Drop
<1>5. CASE DropTemp
  BY <1>5 DEF DropTemp, Execute, Effect, Delete, Insert, Drop
<1>6. CASE Finish
  BY <1>6 DEF Finish
<1>7. CASE EndRunning
  BY <1>7 DEF EndRunning, Effect, Delete, Insert, Drop
<1>8. CASE UNCHANGED vars
  BY <1>8 DEF vars
<1>9. QED
  BY <1>1, <1>2, <1>3, <1>4, <1>5, <1>6, <1>7, <1>8 DEF Next, Call

\* RowsSomewhere, for every number of attempts.
THEOREM NoRowsLost == Spec => []RowsSomewhere
<1>1. Init => RowsKept
  BY DEF Init, RowsKept
<1>2. RowsKept => RowsSomewhere
  BY DEF RowsKept, RowsSomewhere
<1>3. QED
  BY <1>1, <1>2, InitInv, NextInv, NextRowsKept, PTL DEF Spec

(***************************************************************************)
(* SwapTable.                                                              *)
(***************************************************************************)
USE TimesAssumption DEF nameVars, renameVars, clientVars

(***************************************************************************)
(* The client has waited no longer than the locks RENAME already has, each *)
(* at its limit, and the wait for the next one.                            *)
(***************************************************************************)
ServerFirst ==
  /\ pc = "lookup" => server = "none" /\ granted = 0 /\ waited = 0 /\ elapsed = 0
  /\ granted = Locks => waited = 0
  /\ pc = "rename" => elapsed <= granted * LockWait + waited

\* Where the rows are at each point of RENAME, and what the caller has been told by then.
Told ==
  /\ IF server = "renamed" THEN final = "new"
                           ELSE temp = "new" /\ final \in {"absent", "old"}
  /\ pc = "drop" => server = "renamed"
  /\ pc \in {"lookup", "rename", "drop"} <=> result = "pending"
  /\ result = "done" => server = "renamed"
  /\ result = "refused" => server = "refused"
  /\ result # "pending" /\ ~lost => server # "waiting"

SwapIInv == SwapTypeOK /\ ServerFirst /\ Told

\* The margin of the timeouts: before the client's runs out, the server has answered.
LEMMA ClientIsPatient == SwapIInv => (pc = "rename" => elapsed < ReadTimeout)
<1> SUFFICES ASSUME SwapIInv, pc = "rename" PROVE elapsed < ReadTimeout
  OBVIOUS
<1> USE DEF SwapIInv, SwapTypeOK
<1>1. elapsed <= granted * LockWait + waited
  BY DEF ServerFirst
<1>2. granted * LockWait + waited <= Locks * LockWait
  <2>1. CASE granted = Locks
    BY <2>1 DEF ServerFirst
  <2>2. CASE granted < Locks
    <3>1. granted * LockWait + waited <= (granted + 1) * LockWait
      OBVIOUS
    <3>2. (granted + 1) * LockWait <= Locks * LockWait
      BY <2>2
    <3>3. QED
      BY <3>1, <3>2
  <2>3. QED
    BY <2>1, <2>2
<1>3. QED
  BY <1>1, <1>2

LEMMA SwapInitInv == SwapInit => SwapIInv
<1> SUFFICES ASSUME SwapInit PROVE SwapIInv
  OBVIOUS
<1>1. SwapTypeOK
  <2>1. waited \in 0 .. LockWait /\ elapsed \in Nat /\ granted \in 0 .. Locks
    BY DEF SwapInit
  <2>2. exists \in BOOLEAN /\ lost \in BOOLEAN
    BY DEF SwapInit
  <2>3. QED
    BY <2>1, <2>2 DEF SwapInit, SwapTypeOK
<1>2. ServerFirst
  BY DEF SwapInit, ServerFirst
<1>3. Told
  BY DEF SwapInit, Told
<1>4. QED
  BY <1>1, <1>2, <1>3 DEF SwapIInv

LEMMA SwapNextInv == SwapIInv /\ [SwapNext]_swapVars => SwapIInv'
<1> SUFFICES ASSUME SwapIInv, [SwapNext]_swapVars PROVE SwapIInv'
  OBVIOUS
<1> USE DEF SwapIInv, SwapTypeOK, ServerFirst, Told
<1>1. CASE SendRename
  <2>1. SwapTypeOK'
    BY <1>1 DEF SendRename, Return
  <2>2. ServerFirst'
    BY <1>1, 0 * LockWait = 0 DEF SendRename, Return
  <2>3. Told'
    BY <1>1 DEF SendRename, Return
  <2>4. QED
    BY <2>1, <2>2, <2>3
<1>2. CASE ReadAnswer
  BY <1>2 DEF ReadAnswer, Return
<1>3. CASE GiveUp
  <2>1. lost
    BY <1>3, ClientIsPatient DEF GiveUp
  <2>2. QED
    BY <1>3, <2>1 DEF GiveUp, Return
<1>4. CASE DropBackup
  BY <1>4 DEF DropBackup, Return
<1>5. CASE GrantLock
  <2>1. pc = "rename" => elapsed' <= granted' * LockWait + waited'
    <3>1. waited <= LockWait /\ granted' = granted + 1 /\ waited' = 0 /\ elapsed' = elapsed
      BY <1>5 DEF GrantLock
    <3>2. (granted + 1) * LockWait = granted * LockWait + LockWait
      OBVIOUS
    <3>3. granted * LockWait \in Nat
      OBVIOUS
    <3>4. QED
      BY <3>1, <3>2, <3>3
  <2>2. QED
    BY <1>5, <2>1 DEF GrantLock
<1>6. CASE Rename
  BY <1>6 DEF Rename
<1>7. CASE RefuseLock
  BY <1>7 DEF RefuseLock
<1>8. CASE RejectRename
  BY <1>8 DEF RejectRename
<1>9. CASE Tick
  <2>1. granted * LockWait \in Nat
    OBVIOUS
  <2>2. QED
    BY <1>9, <2>1 DEF Tick, LockLimit
<1>10. CASE HoldLock
  BY <1>10 DEF HoldLock
<1>11. CASE ReleaseLock
  BY <1>11 DEF ReleaseLock
<1>12. CASE BreakConnection
  BY <1>12 DEF BreakConnection
<1>13. CASE UNCHANGED swapVars
  BY <1>13 DEF swapVars
<1>14. QED
  BY <1>1, <1>2, <1>3, <1>4, <1>5, <1>6, <1>7, <1>8, <1>9, <1>10, <1>11, <1>12, <1>13
     DEF SwapNext, Client, Server

\* Every variable keeps its type; in particular no lock is waited for beyond its limit.
THEOREM SwapTypeCorrect == SwapSpec => []SwapTypeOK
<1>1. SwapIInv => SwapTypeOK
  BY DEF SwapIInv
<1>2. QED
  BY <1>1, SwapInitInv, SwapNextInv, PTL DEF SwapSpec

\* NoLateSwap for every pair of timeouts TimesAssumption admits: what the run is told
\* about a table is what happens to it.
THEOREM FailureIsFinal == SwapSpec => NoLateSwap
<1>1. SwapIInv /\ [SwapNext]_swapVars =>
        [result # "pending" /\ ~lost => UNCHANGED final]_swapVars
  <2> SUFFICES ASSUME SwapIInv, SwapNext, result # "pending", ~lost PROVE UNCHANGED final
    BY DEF swapVars
  <2>1. server # "waiting"
    BY DEF SwapIInv, Told
  <2>2. QED
    BY <2>1 DEF SwapNext, Client, Server, SendRename, ReadAnswer, GiveUp,
       DropBackup, GrantLock, Rename, RefuseLock, RejectRename,
       HoldLock, ReleaseLock, BreakConnection, Tick
<1>2. QED
  BY <1>1, SwapInitInv, SwapNextInv, PTL DEF SwapSpec, NoLateSwap

\* SwapPublishesTable: a swap implements TableReplace without ever showing an empty table.
THEOREM SwapPublishes == SwapSpec => SwapPublishesTable
<1>1. SwapInit => SwapPublishing!Init
  BY DEF SwapInit, SwapPublishing!Init, SwapPublishing!Before
<1>2. SwapIInv /\ [SwapNext]_swapVars => [SwapPublishing!Next]_<<final, result>>
  <2> SUFFICES ASSUME SwapIInv, [SwapNext]_swapVars
               PROVE  [SwapPublishing!Next]_<<final, result>>
    OBVIOUS
  <2> USE DEF SwapIInv, SwapTypeOK, Told, SwapPublishing!Next, SwapPublishing!MayChange,
              SwapPublishing!Before
  <2>1. CASE SendRename
    BY <2>1 DEF SendRename, Return, SwapPublishing!Answer
  <2>2. CASE ReadAnswer
    BY <2>2 DEF ReadAnswer, Return, SwapPublishing!Answer
  <2>3. CASE GiveUp
    BY <2>3 DEF GiveUp, Return, SwapPublishing!Answer
  <2>4. CASE DropBackup
    BY <2>4 DEF DropBackup, Return, SwapPublishing!Answer
  <2>5. CASE Rename
    BY <2>5 DEF Rename, SwapPublishing!Publish
  <2>6. CASE \/ GrantLock \/ RefuseLock \/ RejectRename \/ Tick
             \/ HoldLock \/ ReleaseLock \/ BreakConnection \/ UNCHANGED swapVars
    BY <2>6 DEF GrantLock, RefuseLock, RejectRename, Tick, HoldLock,
       ReleaseLock, BreakConnection, swapVars
  <2>7. QED
    BY <2>1, <2>2, <2>3, <2>4, <2>5, <2>6 DEF SwapNext, Client, Server
<1>3. QED
  BY <1>1, <1>2, SwapInitInv, SwapNextInv, PTL
     DEF SwapSpec, SwapPublishesTable, SwapPublishing!Spec
===============================================================================
