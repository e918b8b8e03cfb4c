-------------------------- MODULE FinalizeRunProofs --------------------------
(***************************************************************************)
(* What FinalizeRun guarantees for every destination, scope, set of        *)
(* foreign keys and number of runs.                                        *)
(***************************************************************************)
EXTENDS FinalizeRun, TLAPS

USE ScopeAssumption, RefsAssumption, CarriesAssumption, SourcesAssumption, MaxRunsAssumption,
    PartialCopiesAssumption, OtherClientsAssumption
    DEF dstVars, keyVars, planVars, todoVars, userVars, logVars, tempVars, endVars

(***************************************************************************)
(* Type correctness.  Between the first and the last call for a table, idx *)
(* points at one; a run in the history is over.                            *)
(***************************************************************************)
TableSteps ==
  {"copy", "verify", "inbound", "rewriteInPlace", "replace", "compare", "recheck",
   "rewrite", "indexTemp", "define", "increment", "swap", "lookup", "create",
   "countAbsent", "count", "empty", "indexFinal"}

Positioned ==
  /\ pc \in TableSteps => idx \in 1 .. Len(Scope)
  /\ stored => pc \in {"cleanup", "idle"}
ChecksDue == \A t \in deferredChecks : "checks" \in Carries[t]
Typed == TypeOK /\ Positioned /\ ChecksDue

LEMMA CurIsTable == ASSUME Typed, pc \in TableSteps PROVE Cur \in Tables
BY DEF Typed, Positioned, Cur

\* The clauses the run holds for a table are details of it, and so is what it names.
LEMMA WantedCarried ==
  ASSUME Typed, NEW t \in Tables, NEW as
  PROVE  Wanted(as, t) \subseteq Carries[t] /\ Wanted(as, t) \subseteq Aspects
<1>1. ASSUME NEW a \in Wanted(as, t) PROVE a \in Carries[t] /\ a \in Aspects
  <2>1. <<a, t>> \in Details
    BY DEF Wanted, Typed, TypeOK
  <2>2. QED
    BY <2>1 DEF Details
<1>2. QED
  BY <1>1

LEMMA NamedDetails ==
  ASSUME NEW t \in Tables, NEW as, as \subseteq Carries[t]
  PROVE  Named(as, t) \subseteq Details
<1>1. ASSUME NEW a \in as PROVE <<a, t>> \in Details
  <2>1. a \in Aspects
    OBVIOUS
  <2>2. QED
    BY <2>1 DEF Details
<1>2. QED
  BY <1>1 DEF Named

LEMMA InitTyped == Init => Typed
<1> SUFFICES ASSUME Init PROVE Typed
  OBVIOUS
<1>1. final \in [Tables -> Content] /\ temp \in [Tables -> TempContent]
  BY DEF Init, Content, TempContent
<1>2. tempHas \in [Tables -> SUBSET Aspects] /\ has \in [Tables -> SUBSET Aspects]
  BY DEF Init
<1>3. idx \in 0 .. Len(Scope) /\ runs \in 0 .. MaxRuns
  BY DEF Init
<1>4. QED
  BY <1>1, <1>2, <1>3
     DEF Init, Typed, TypeOK, Positioned, ChecksDue, TableSteps, Steps, Outcomes

LEMMA NextTyped == Typed /\ [Next]_vars => Typed'
<1> SUFFICES ASSUME Typed, [Next]_vars PROVE Typed'
  OBVIOUS
<1> USE DEF Content, TempContent, Steps, Outcomes
<1>0. pc \in TableSteps => Cur \in Tables
  BY CurIsTable
<1>1. CASE StartRun
  <2>1. final' \in [Tables -> Content]
    BY <1>1 DEF StartRun, Typed, TypeOK
  <2>2. runs' \in 0 .. MaxRuns /\ idx' \in 0 .. Len(Scope)
    BY <1>1 DEF StartRun, Typed, TypeOK
  <2>3. QED
    BY <1>1, <2>1, <2>2 DEF StartRun, Typed, TypeOK, Positioned, ChecksDue, TableSteps
<1>2. CASE RequestCancel
  BY <1>2 DEF RequestCancel, Typed, TypeOK, Positioned, ChecksDue, TableSteps
<1>3. CASE EditRules
  BY <1>3 DEF EditRules, Typed, TypeOK, Positioned, ChecksDue, TableSteps
<1>4. CASE KillApp
  BY <1>4 DEF KillApp, Abandon, Typed, TypeOK, Positioned, ChecksDue, TableSteps
<1>5. CASE OtherClientAddsKey
  BY <1>5 DEF OtherClientAddsKey, Typed, TypeOK, Positioned, ChecksDue, TableSteps
<1>6. CASE UNCHANGED vars
  BY <1>6 DEF vars, Typed, TypeOK, Positioned, ChecksDue, TableSteps
<1>7. CASE ResolveScope
  BY <1>0, <1>7
     DEF ResolveScope, Typed, TypeOK, Positioned, ChecksDue, TableSteps, AtStep, GoTo,
         Fail
<1>8. CASE ReadDefinitions
  BY <1>0, <1>8
     DEF ReadDefinitions, InScope, Details, Typed, TypeOK, Positioned, ChecksDue,
         TableSteps, AtStep, GoTo, Fail
<1>9. CASE ReadIndexes
  BY <1>0, <1>9
     DEF ReadIndexes, InScope, Details, Typed, TypeOK, Positioned, ChecksDue,
         TableSteps, AtStep, GoTo, Fail
<1>10. CASE ReadForeignKeys
  BY <1>0, <1>10
     DEF ReadForeignKeys, InScope, Typed, TypeOK, Positioned, ChecksDue, TableSteps,
         AtStep, GoTo, Fail
<1>11. CASE NextTable
  BY <1>0, <1>11
     DEF NextTable, TablesLeft, BeginTable, AfterLoop, Typed, TypeOK, Positioned,
         ChecksDue, TableSteps, AtStep, GoTo, Fail
<1>12. CASE CopyTable
  BY <1>0, <1>12
     DEF CopyTable, Typed, TypeOK, Positioned, ChecksDue, TableSteps, AtStep, GoTo,
         Fail
<1>13. CASE VerifyTemp
  BY <1>0, <1>13
     DEF VerifyTemp, Typed, TypeOK, Positioned, ChecksDue, TableSteps, AtStep, GoTo,
         Fail
<1>14. CASE CheckInbound
  BY <1>0, <1>14
     DEF CheckInbound, AfterInbound, Typed, TypeOK, Positioned, ChecksDue, TableSteps,
         AtStep, GoTo, Fail
<1>15. CASE AnonymizeTemp
  BY <1>0, <1>15
     DEF AnonymizeTemp, Anonymize, Typed, TypeOK, Positioned, ChecksDue, TableSteps,
         AtStep, GoTo, Fail
<1>16. CASE AnonymizeForReplace
  BY <1>0, <1>16
     DEF AnonymizeForReplace, Anonymize, Typed, TypeOK, Positioned, ChecksDue,
         TableSteps, AtStep, GoTo, Fail
<1>17. CASE ReplaceRows
  BY <1>0, <1>17
     DEF ReplaceRows, Typed, TypeOK, Positioned, ChecksDue, TableSteps, AtStep, GoTo,
         Fail
<1>18. CASE CompareDefinition
  <2> DEFINE want == Wanted(BeforeSwap, Cur)
  <2>1. Cur \in Tables
    BY <1>0, <1>18 DEF CompareDefinition, AtStep, TableSteps
  <2>2. want \subseteq Carries[Cur] /\ want \subseteq Aspects
    BY <2>1, WantedCarried
  <2>3. \A lost \in SUBSET want : Named(lost, Cur) \subseteq Details
    BY <2>1, <2>2, NamedDetails
  <2>4. has' \in [Tables -> SUBSET Aspects] /\ reported' \in SUBSET Details
    <3>1. CASE UNCHANGED has /\ reported' = reported \cup Named(want, Cur)
      BY <2>3, <3>1 DEF Typed, TypeOK
    <3>2. CASE UNCHANGED <<has, reported>>
      BY <3>2 DEF Typed, TypeOK
    <3>3. ASSUME NEW failed \in SUBSET (want \ has[Cur]),
                 has' = [has EXCEPT ![Cur] = @ \cup ((want \ has[Cur]) \ failed)],
                 reported' = reported \cup Named(failed, Cur)
          PROVE  has' \in [Tables -> SUBSET Aspects] /\ reported' \in SUBSET Details
      BY <2>1, <2>2, <2>3, <3>3 DEF Typed, TypeOK
    <3>4. QED
      BY <1>18, <3>1, <3>2, <3>3 DEF CompareDefinition
  <2>5. QED
    BY <1>18, <2>1, <2>4
       DEF CompareDefinition, Typed, TypeOK, Positioned, ChecksDue, TableSteps,
           AtStep, GoTo, Fail
<1>19. CASE RecheckConstraints
  <2> DEFINE want == Wanted({"checks"}, Cur)
  <2>1. Cur \in Tables
    BY <1>0, <1>19 DEF RecheckConstraints, AtStep, TableSteps
  <2>2. want \subseteq Carries[Cur] /\ want \subseteq Aspects
    BY <2>1, WantedCarried
  <2>3. Named(want, Cur) \subseteq Details
    BY <2>1, <2>2, NamedDetails
  <2>4. has' \in [Tables -> SUBSET Aspects] /\ reported' \in SUBSET Details
    BY <1>19, <2>1, <2>2, <2>3 DEF RecheckConstraints, Typed, TypeOK
  <2>5. QED
    BY <1>19, <2>1, <2>4
       DEF RecheckConstraints, Typed, TypeOK, Positioned, ChecksDue, TableSteps,
           AtStep, GoTo, Fail
<1>20. CASE IndexTemp
  <2> DEFINE want == Wanted({"indexes"}, Cur)
  <2>1. Cur \in Tables
    BY <1>0, <1>20 DEF IndexTemp, AtStep, TableSteps
  <2>2. want \subseteq Carries[Cur] /\ want \subseteq Aspects
    BY <2>1, WantedCarried
  <2>3. Named(want, Cur) \subseteq Details
    BY <2>1, <2>2, NamedDetails
  <2>4. tempHas' \in [Tables -> SUBSET Aspects] /\ reported' \in SUBSET Details
    BY <1>20, <2>1, <2>2, <2>3 DEF IndexTemp, Typed, TypeOK
  <2>5. QED
    BY <1>20, <2>1, <2>4
       DEF IndexTemp, Typed, TypeOK, Positioned, ChecksDue, TableSteps, AtStep, GoTo,
           Fail
<1>21. CASE DefineColumns
  <2> DEFINE want == Wanted({"columns"}, Cur)
  <2>1. Cur \in Tables
    BY <1>0, <1>21 DEF DefineColumns, AtStep, TableSteps
  <2>2. want \subseteq Carries[Cur] /\ want \subseteq Aspects
    BY <2>1, WantedCarried
  <2>3. Named(want, Cur) \subseteq Details
    BY <2>1, <2>2, NamedDetails
  <2>4. tempHas' \in [Tables -> SUBSET Aspects] /\ reported' \in SUBSET Details
    BY <1>21, <2>1, <2>2, <2>3 DEF DefineColumns, Typed, TypeOK
  <2>5. QED
    BY <1>21, <2>1, <2>4
       DEF DefineColumns, Typed, TypeOK, Positioned, ChecksDue, TableSteps, AtStep,
           GoTo, Fail
<1>22. CASE RestoreIncrement
  <2> DEFINE want == Wanted({"auto_increment"}, Cur)
  <2>1. Cur \in Tables
    BY <1>0, <1>22 DEF RestoreIncrement, AtStep, TableSteps
  <2>2. want \subseteq Carries[Cur] /\ want \subseteq Aspects
    BY <2>1, WantedCarried
  <2>3. Named(want, Cur) \subseteq Details
    BY <2>1, <2>2, NamedDetails
  <2>4. tempHas' \in [Tables -> SUBSET Aspects] /\ reported' \in SUBSET Details
    BY <1>22, <2>1, <2>2, <2>3 DEF RestoreIncrement, Typed, TypeOK
  <2>5. Wanted({"checks"}, Cur) # {} => "checks" \in Carries[Cur]
    <3>1. Wanted({"checks"}, Cur) \subseteq Carries[Cur]
      BY <2>1, WantedCarried
    <3>2. QED
      BY <3>1 DEF Wanted
  <2>6. deferredChecks' \in SUBSET Tables /\ ChecksDue'
    BY <1>22, <2>1, <2>5 DEF RestoreIncrement, Typed, TypeOK, ChecksDue
  <2>7. QED
    BY <1>22, <2>1, <2>4, <2>6
       DEF RestoreIncrement, Typed, TypeOK, Positioned, TableSteps, AtStep, GoTo
<1>23. CASE SwapTable
  BY <1>0, <1>23
     DEF SwapTable, Renamed, Land, Typed, TypeOK, Positioned, ChecksDue, TableSteps,
         AtStep, GoTo, Fail
<1>24. CASE LookupFinal
  BY <1>0, <1>24
     DEF LookupFinal, AfterLookup, Typed, TypeOK, Positioned, ChecksDue, TableSteps,
         AtStep, GoTo, Fail
<1>25. CASE CountForCreate
  BY <1>0, <1>25
     DEF CountForCreate, Typed, TypeOK, Positioned, ChecksDue, TableSteps, AtStep,
         GoTo, Fail
<1>26. CASE CountForEmpty
  BY <1>0, <1>26
     DEF CountForEmpty, Typed, TypeOK, Positioned, ChecksDue, TableSteps, AtStep,
         GoTo, Fail
<1>27. CASE EmptyFinal
  BY <1>0, <1>27
     DEF EmptyFinal, Typed, TypeOK, Positioned, ChecksDue, TableSteps, AtStep, GoTo,
         Fail
<1>28. CASE CreateEmpty
  <2>1. Cur \in Tables /\ Carries[Cur] \subseteq Aspects
    BY <1>0, <1>28 DEF CreateEmpty, AtStep, TableSteps
  <2>2. \A lost \in SUBSET Carries[Cur] : Named(lost, Cur) \subseteq Details
    BY <2>1, NamedDetails
  <2>3. /\ has' \in [Tables -> SUBSET Aspects] /\ reported' \in SUBSET Details
        /\ keys' \in SUBSET Refs /\ deferredKeys' \in SUBSET Refs
        /\ final' \in [Tables -> Content]
    <3>1. CASE UNCHANGED <<final, has, keys, deferredKeys, reported>>
      BY <3>1 DEF Typed, TypeOK
    <3>2. ASSUME NEW kept \in SUBSET Carries[Cur],
                 has' = [has EXCEPT ![Cur] = kept],
                 reported' = reported \cup Named(Carries[Cur] \ kept, Cur)
          PROVE  has' \in [Tables -> SUBSET Aspects] /\ reported' \in SUBSET Details
      <4>1. has' \in [Tables -> SUBSET Aspects]
        BY <2>1, <3>2 DEF Typed, TypeOK
      <4>2. QED
        BY <2>2, <3>2, <4>1 DEF Typed, TypeOK
    <3>3. ASSUME keys' \in {keys, keys \cup KeysOf(Cur)},
                 deferredKeys' \in {deferredKeys, deferredKeys \cup KeysOf(Cur)}
          PROVE  keys' \in SUBSET Refs /\ deferredKeys' \in SUBSET Refs
      BY <3>3 DEF KeysOf, Typed, TypeOK
    <3>4. ASSUME final' = [final EXCEPT ![Cur] = "empty"]
          PROVE  final' \in [Tables -> Content]
      BY <3>4 DEF Typed, TypeOK
    <3>5. QED
      BY <1>28, <3>1, <3>2, <3>3, <3>4 DEF CreateEmpty
  <2>4. QED
    BY <1>28, <2>1, <2>3
       DEF CreateEmpty, Typed, TypeOK, Positioned, ChecksDue, TableSteps, AtStep,
           GoTo, Fail
<1>29. CASE IndexFinal
  <2> DEFINE want == Wanted({"indexes"}, Cur)
  <2>1. Cur \in Tables
    BY <1>0, <1>29 DEF IndexFinal, AtStep, TableSteps
  <2>2. want \subseteq Carries[Cur] /\ want \subseteq Aspects
    BY <2>1, WantedCarried
  <2>3. Named(want, Cur) \subseteq Details
    BY <2>1, <2>2, NamedDetails
  <2>4. has' \in [Tables -> SUBSET Aspects] /\ reported' \in SUBSET Details
    BY <1>29, <2>1, <2>2, <2>3 DEF IndexFinal, Typed, TypeOK
  <2>5. QED
    BY <1>29, <2>1, <2>4
       DEF IndexFinal, Land, Typed, TypeOK, Positioned, ChecksDue, TableSteps, AtStep,
           GoTo, Fail
<1>30. CASE ApplyDeferredKeys
  BY <1>0, <1>30
     DEF ApplyDeferredKeys, Typed, TypeOK, Positioned, ChecksDue, TableSteps, AtStep,
         GoTo, Fail
<1>31. CASE RestoreChecks
  <2>1. has' \in [Tables -> SUBSET Aspects]
    BY <1>31 DEF RestoreChecks, Aspects, Typed, TypeOK
  <2>2. \A t \in deferredChecks : <<"checks", t>> \in Details
    BY DEF Details, Aspects, Typed, TypeOK, ChecksDue
  <2>3. reported' \in SUBSET Details
    BY <1>31, <2>2 DEF RestoreChecks, Typed, TypeOK
  <2>4. QED
    BY <1>31, <2>1, <2>3
       DEF RestoreChecks, Typed, TypeOK, Positioned, ChecksDue, TableSteps, AtStep,
           GoTo, Fail
<1>32. CASE RestoreKeys
  BY <1>0, <1>32
     DEF RestoreKeys, MissingKeys, Typed, TypeOK, Positioned, ChecksDue, TableSteps,
         AtStep, GoTo, Fail
<1>33. CASE StoreRun
  BY <1>0, <1>33
     DEF StoreRun, Typed, TypeOK, Positioned, ChecksDue, TableSteps, AtStep, GoTo,
         Fail
<1>34. CASE DropTemps
  BY <1>0, <1>34
     DEF DropTemps, Abandon, TempsToDrop, Typed, TypeOK, Positioned, ChecksDue,
         TableSteps, AtStep, GoTo, Fail
<1>35. QED
  BY <1>1, <1>2, <1>3, <1>4, <1>5, <1>6, <1>7, <1>8, <1>9, <1>10, <1>11, <1>12,
     <1>13, <1>14, <1>15, <1>16, <1>17, <1>18, <1>19, <1>20, <1>21, <1>22, <1>23,
     <1>24, <1>25, <1>26, <1>27, <1>28, <1>29, <1>30, <1>31, <1>32, <1>33, <1>34
     DEF Next, TaskStep

\* Every variable keeps its type, whatever the constants are.
THEOREM TypeCorrect == Spec => []TypeOK
<1>1. Spec => []Typed
  BY InitTyped, NextTyped, PTL DEF Spec
<1>2. Typed => TypeOK
  BY DEF Typed
<1>3. QED
  BY <1>1, <1>2, PTL

(***************************************************************************)
(* Real values.  Once a table's rewrite step is over, its temp table holds *)
(* real rows only if the log said that the table keeps them.               *)
(***************************************************************************)
PastRewrite == {"indexTemp", "define", "increment", "swap", "replace"}
RealIsWarned == pc \in PastRewrite /\ temp[Cur] = "real" => Cur \in warnedOff
NeverReal == FinalNeverReal /\ RealIsWarned

LEMMA NextNeverReal ==
  Typed /\ NeverReal /\ [Next]_vars => NeverReal'
<1> SUFFICES ASSUME Typed, NeverReal, [Next]_vars PROVE NeverReal'
  OBVIOUS
<1> USE DEF NeverReal, FinalNeverReal, RealIsWarned, PastRewrite, TableSteps, Typed,
      TypeOK, Positioned, Cur
<1>0. pc \in TableSteps => Cur \in Tables
  BY CurIsTable
<1>1. CASE StartRun
  BY <1>0, <1>1 DEF StartRun
<1>2. CASE RequestCancel
  BY <1>0, <1>2 DEF RequestCancel
<1>3. CASE EditRules
  BY <1>0, <1>3 DEF EditRules
<1>4. CASE KillApp
  BY <1>0, <1>4 DEF KillApp, Abandon
<1>5. CASE OtherClientAddsKey
  BY <1>0, <1>5 DEF OtherClientAddsKey
<1>6. CASE ResolveScope
  BY <1>0, <1>6 DEF ResolveScope, AtStep, GoTo, Fail
<1>7. CASE ReadDefinitions
  BY <1>0, <1>7 DEF ReadDefinitions, AtStep, GoTo, Fail
<1>8. CASE ReadIndexes
  BY <1>0, <1>8 DEF ReadIndexes, AtStep, GoTo, Fail
<1>9. CASE ReadForeignKeys
  BY <1>0, <1>9 DEF ReadForeignKeys, AtStep, GoTo, Fail
<1>10. CASE NextTable
  BY <1>0, <1>10 DEF NextTable, TablesLeft, BeginTable, AfterLoop, AtStep, GoTo, Fail
<1>11. CASE CopyTable
  BY <1>0, <1>11 DEF CopyTable, AtStep, GoTo, Fail
<1>12. CASE VerifyTemp
  BY <1>0, <1>12 DEF VerifyTemp, AtStep, GoTo, Fail
<1>13. CASE CheckInbound
  BY <1>0, <1>13 DEF CheckInbound, AfterInbound, AtStep, GoTo, Fail
<1>14. CASE AnonymizeTemp
  BY <1>0, <1>14 DEF AnonymizeTemp, Anonymize, AtStep, GoTo, Fail
<1>15. CASE AnonymizeForReplace
  BY <1>0, <1>15 DEF AnonymizeForReplace, Anonymize, AtStep, GoTo, Fail
<1>16. CASE ReplaceRows
  BY <1>0, <1>16 DEF ReplaceRows, AtStep, GoTo, Fail
<1>17. CASE CompareDefinition
  BY <1>0, <1>17 DEF CompareDefinition, AtStep, GoTo, Fail
<1>18. CASE RecheckConstraints
  BY <1>0, <1>18 DEF RecheckConstraints, AtStep, GoTo, Fail
<1>19. CASE IndexTemp
  BY <1>0, <1>19 DEF IndexTemp, AtStep, GoTo, Fail
<1>20. CASE DefineColumns
  BY <1>0, <1>20 DEF DefineColumns, AtStep, GoTo, Fail
<1>21. CASE RestoreIncrement
  BY <1>0, <1>21 DEF RestoreIncrement, AtStep, GoTo, Fail
<1>22. CASE SwapTable
  BY <1>0, <1>22 DEF SwapTable, Renamed, Land, AtStep, GoTo, Fail
<1>23. CASE LookupFinal
  BY <1>0, <1>23 DEF LookupFinal, AfterLookup, AtStep, GoTo, Fail
<1>24. CASE CountForCreate
  BY <1>0, <1>24 DEF CountForCreate, AtStep, GoTo, Fail
<1>25. CASE CountForEmpty
  BY <1>0, <1>25 DEF CountForEmpty, AtStep, GoTo, Fail
<1>26. CASE EmptyFinal
  BY <1>0, <1>26 DEF EmptyFinal, AtStep, GoTo, Fail
<1>27. CASE CreateEmpty
  BY <1>0, <1>27 DEF CreateEmpty, AtStep, GoTo, Fail
<1>28. CASE IndexFinal
  BY <1>0, <1>28 DEF IndexFinal, Land, AtStep, GoTo, Fail
<1>29. CASE ApplyDeferredKeys
  BY <1>0, <1>29 DEF ApplyDeferredKeys, AtStep, GoTo, Fail
<1>30. CASE RestoreChecks
  BY <1>0, <1>30 DEF RestoreChecks, AtStep, GoTo, Fail
<1>31. CASE RestoreKeys
  BY <1>0, <1>31 DEF RestoreKeys, AtStep, GoTo, Fail
<1>32. CASE StoreRun
  BY <1>0, <1>32 DEF StoreRun, AtStep, GoTo, Fail
<1>33. CASE DropTemps
  BY <1>0, <1>33 DEF DropTemps, Abandon, TempsToDrop, AtStep, GoTo, Fail
<1>34. CASE UNCHANGED vars
  BY <1>34 DEF vars
<1>35. QED
  BY <1>1, <1>2, <1>3, <1>4, <1>5, <1>6, <1>7, <1>8, <1>9, <1>10, <1>11, <1>12,
     <1>13, <1>14, <1>15, <1>16, <1>17, <1>18, <1>19, <1>20, <1>21, <1>22, <1>23,
     <1>24, <1>25, <1>26, <1>27, <1>28, <1>29, <1>30, <1>31, <1>32, <1>33, <1>34
     DEF Next, TaskStep

\* FinalNeverReal for any tables, scope, keys, failures and interference.
THEOREM NoRealValuePublished == Spec => []FinalNeverReal
<1>1. Init => NeverReal
  BY DEF Init, NeverReal, FinalNeverReal, RealIsWarned, PastRewrite
<1>2. Spec => [](Typed /\ NeverReal)
  BY <1>1, InitTyped, NextTyped, NextNeverReal, PTL DEF Spec
<1>3. NeverReal => FinalNeverReal
  BY DEF NeverReal
<1>4. QED
  BY <1>2, <1>3, PTL

(***************************************************************************)
(* Temp tables.  One that exists is on the run's list, or was left behind  *)
(* for a cause the code cannot mend.                                       *)
(***************************************************************************)
TempIsKnown == \A t \in Tables : temp[t] # "absent" => t \in openTemps \cup excused
CurIsListed == pc \in {"verify", "inbound", "rewriteInPlace", "rewrite"} => Cur \in openTemps
TempsKnown == TempsAccounted /\ TempIsKnown /\ CurIsListed

LEMMA NextTempsKnown ==
  Typed /\ TempsKnown /\ [Next]_vars => TempsKnown'
<1> SUFFICES ASSUME Typed, TempsKnown, [Next]_vars PROVE TempsKnown'
  OBVIOUS
<1> USE DEF TempsKnown, TempsAccounted, TempIsKnown, CurIsListed, TableSteps, Typed,
      TypeOK, Positioned, Cur
<1>0. pc \in TableSteps => Cur \in Tables
  BY CurIsTable
<1>1. CASE StartRun
  BY <1>0, <1>1 DEF StartRun
<1>2. CASE RequestCancel
  BY <1>0, <1>2 DEF RequestCancel
<1>3. CASE EditRules
  BY <1>0, <1>3 DEF EditRules
<1>4. CASE KillApp
  BY <1>0, <1>4 DEF KillApp, Abandon
<1>5. CASE OtherClientAddsKey
  BY <1>0, <1>5 DEF OtherClientAddsKey
<1>6. CASE ResolveScope
  BY <1>0, <1>6 DEF ResolveScope, AtStep, GoTo, Fail
<1>7. CASE ReadDefinitions
  BY <1>0, <1>7 DEF ReadDefinitions, AtStep, GoTo, Fail
<1>8. CASE ReadIndexes
  BY <1>0, <1>8 DEF ReadIndexes, AtStep, GoTo, Fail
<1>9. CASE ReadForeignKeys
  BY <1>0, <1>9 DEF ReadForeignKeys, AtStep, GoTo, Fail
<1>10. CASE NextTable
  BY <1>0, <1>10 DEF NextTable, TablesLeft, BeginTable, AfterLoop, AtStep, GoTo, Fail
<1>11. CASE CopyTable
  BY <1>0, <1>11 DEF CopyTable, AtStep, GoTo, Fail
<1>12. CASE VerifyTemp
  BY <1>0, <1>12 DEF VerifyTemp, AtStep, GoTo, Fail
<1>13. CASE CheckInbound
  BY <1>0, <1>13 DEF CheckInbound, AfterInbound, AtStep, GoTo, Fail
<1>14. CASE AnonymizeTemp
  BY <1>0, <1>14 DEF AnonymizeTemp, Anonymize, AtStep, GoTo, Fail
<1>15. CASE AnonymizeForReplace
  BY <1>0, <1>15 DEF AnonymizeForReplace, Anonymize, AtStep, GoTo, Fail
<1>16. CASE ReplaceRows
  BY <1>0, <1>16 DEF ReplaceRows, AtStep, GoTo, Fail
<1>17. CASE CompareDefinition
  BY <1>0, <1>17 DEF CompareDefinition, AtStep, GoTo, Fail
<1>18. CASE RecheckConstraints
  BY <1>0, <1>18 DEF RecheckConstraints, AtStep, GoTo, Fail
<1>19. CASE IndexTemp
  BY <1>0, <1>19 DEF IndexTemp, AtStep, GoTo, Fail
<1>20. CASE DefineColumns
  BY <1>0, <1>20 DEF DefineColumns, AtStep, GoTo, Fail
<1>21. CASE RestoreIncrement
  BY <1>0, <1>21 DEF RestoreIncrement, AtStep, GoTo, Fail
<1>22. CASE SwapTable
  BY <1>0, <1>22 DEF SwapTable, Renamed, Land, AtStep, GoTo, Fail
<1>23. CASE LookupFinal
  BY <1>0, <1>23 DEF LookupFinal, AfterLookup, AtStep, GoTo, Fail
<1>24. CASE CountForCreate
  BY <1>0, <1>24 DEF CountForCreate, AtStep, GoTo, Fail
<1>25. CASE CountForEmpty
  BY <1>0, <1>25 DEF CountForEmpty, AtStep, GoTo, Fail
<1>26. CASE EmptyFinal
  BY <1>0, <1>26 DEF EmptyFinal, AtStep, GoTo, Fail
<1>27. CASE CreateEmpty
  BY <1>0, <1>27 DEF CreateEmpty, AtStep, GoTo, Fail
<1>28. CASE IndexFinal
  BY <1>0, <1>28 DEF IndexFinal, Land, AtStep, GoTo, Fail
<1>29. CASE ApplyDeferredKeys
  BY <1>0, <1>29 DEF ApplyDeferredKeys, AtStep, GoTo, Fail
<1>30. CASE RestoreChecks
  BY <1>0, <1>30 DEF RestoreChecks, AtStep, GoTo, Fail
<1>31. CASE RestoreKeys
  BY <1>0, <1>31 DEF RestoreKeys, AtStep, GoTo, Fail
<1>32. CASE StoreRun
  BY <1>0, <1>32 DEF StoreRun, AtStep, GoTo, Fail
<1>33. CASE DropTemps
  BY <1>0, <1>33 DEF DropTemps, Abandon, TempsToDrop, AtStep, GoTo, Fail
<1>34. CASE UNCHANGED vars
  BY <1>34 DEF vars
<1>35. QED
  BY <1>1, <1>2, <1>3, <1>4, <1>5, <1>6, <1>7, <1>8, <1>9, <1>10, <1>11, <1>12,
     <1>13, <1>14, <1>15, <1>16, <1>17, <1>18, <1>19, <1>20, <1>21, <1>22, <1>23,
     <1>24, <1>25, <1>26, <1>27, <1>28, <1>29, <1>30, <1>31, <1>32, <1>33, <1>34
     DEF Next, TaskStep

\* TempsAccounted, whatever is refused, cancelled or killed.
THEOREM NoTempForgotten == Spec => []TempsAccounted
<1>1. Init => TempsKnown
  BY DEF Init, TempsKnown, TempsAccounted, TempIsKnown, CurIsListed
<1>2. Spec => [](Typed /\ TempsKnown)
  BY <1>1, InitTyped, NextTyped, NextTempsKnown, PTL DEF Spec
<1>3. TempsKnown => TempsAccounted
  BY DEF TempsKnown
<1>4. QED
  BY <1>2, <1>3, PTL

(***************************************************************************)
(* Inbound keys.  From the look at the inbound keys to the swap nothing    *)
(* adds one: the run itself adds keys only to tables it created and after  *)
(* the loop.                                                               *)
(***************************************************************************)
BetweenCheckAndSwap == {"rewrite", "indexTemp", "define", "increment", "swap"}
CheckStillHolds == pc \in BetweenCheckAndSwap => ~HasInboundKey(Cur)
NoKeyFollows == KeysPointAtFinal /\ CheckStillHolds

LEMMA NextNoKeyFollows ==
  ~OtherClients /\ Typed /\ NoKeyFollows /\ [Next]_vars => NoKeyFollows'
<1> SUFFICES ASSUME ~OtherClients, Typed, NoKeyFollows, [Next]_vars PROVE NoKeyFollows'
  OBVIOUS
<1> USE DEF NoKeyFollows, KeysPointAtFinal, CheckStillHolds, BetweenCheckAndSwap,
      HasInboundKey, KeyVisible, TableSteps, Typed, TypeOK, Positioned, Cur
<1>0. pc \in TableSteps => Cur \in Tables
  BY CurIsTable
<1>1. CASE StartRun
  BY <1>0, <1>1 DEF StartRun
<1>2. CASE RequestCancel
  BY <1>0, <1>2 DEF RequestCancel
<1>3. CASE EditRules
  BY <1>0, <1>3 DEF EditRules
<1>4. CASE KillApp
  BY <1>0, <1>4 DEF KillApp, Abandon
<1>5. CASE OtherClientAddsKey
  BY <1>0, <1>5 DEF OtherClientAddsKey
<1>6. CASE ResolveScope
  BY <1>0, <1>6 DEF ResolveScope, AtStep, GoTo, Fail
<1>7. CASE ReadDefinitions
  BY <1>0, <1>7 DEF ReadDefinitions, AtStep, GoTo, Fail
<1>8. CASE ReadIndexes
  BY <1>0, <1>8 DEF ReadIndexes, AtStep, GoTo, Fail
<1>9. CASE ReadForeignKeys
  BY <1>0, <1>9 DEF ReadForeignKeys, AtStep, GoTo, Fail
<1>10. CASE NextTable
  BY <1>0, <1>10 DEF NextTable, TablesLeft, BeginTable, AfterLoop, AtStep, GoTo, Fail
<1>11. CASE CopyTable
  BY <1>0, <1>11 DEF CopyTable, AtStep, GoTo, Fail
<1>12. CASE VerifyTemp
  BY <1>0, <1>12 DEF VerifyTemp, AtStep, GoTo, Fail
<1>13. CASE CheckInbound
  BY <1>0, <1>13 DEF CheckInbound, AfterInbound, AtStep, GoTo, Fail
<1>14. CASE AnonymizeTemp
  BY <1>0, <1>14 DEF AnonymizeTemp, Anonymize, AtStep, GoTo, Fail
<1>15. CASE AnonymizeForReplace
  BY <1>0, <1>15 DEF AnonymizeForReplace, Anonymize, AtStep, GoTo, Fail
<1>16. CASE ReplaceRows
  BY <1>0, <1>16 DEF ReplaceRows, AtStep, GoTo, Fail
<1>17. CASE CompareDefinition
  BY <1>0, <1>17 DEF CompareDefinition, AtStep, GoTo, Fail
<1>18. CASE RecheckConstraints
  BY <1>0, <1>18 DEF RecheckConstraints, AtStep, GoTo, Fail
<1>19. CASE IndexTemp
  BY <1>0, <1>19 DEF IndexTemp, AtStep, GoTo, Fail
<1>20. CASE DefineColumns
  BY <1>0, <1>20 DEF DefineColumns, AtStep, GoTo, Fail
<1>21. CASE RestoreIncrement
  BY <1>0, <1>21 DEF RestoreIncrement, AtStep, GoTo, Fail
<1>22. CASE SwapTable
  BY <1>0, <1>22 DEF SwapTable, Renamed, Land, AtStep, GoTo, Fail
<1>23. CASE LookupFinal
  BY <1>0, <1>23 DEF LookupFinal, AfterLookup, AtStep, GoTo, Fail
<1>24. CASE CountForCreate
  BY <1>0, <1>24 DEF CountForCreate, AtStep, GoTo, Fail
<1>25. CASE CountForEmpty
  BY <1>0, <1>25 DEF CountForEmpty, AtStep, GoTo, Fail
<1>26. CASE EmptyFinal
  BY <1>0, <1>26 DEF EmptyFinal, AtStep, GoTo, Fail
<1>27. CASE CreateEmpty
  BY <1>0, <1>27 DEF CreateEmpty, AtStep, GoTo, Fail
<1>28. CASE IndexFinal
  BY <1>0, <1>28 DEF IndexFinal, Land, AtStep, GoTo, Fail
<1>29. CASE ApplyDeferredKeys
  BY <1>0, <1>29 DEF ApplyDeferredKeys, AtStep, GoTo, Fail
<1>30. CASE RestoreChecks
  BY <1>0, <1>30 DEF RestoreChecks, AtStep, GoTo, Fail
<1>31. CASE RestoreKeys
  BY <1>0, <1>31 DEF RestoreKeys, AtStep, GoTo, Fail
<1>32. CASE StoreRun
  BY <1>0, <1>32 DEF StoreRun, AtStep, GoTo, Fail
<1>33. CASE DropTemps
  BY <1>0, <1>33 DEF DropTemps, Abandon, TempsToDrop, AtStep, GoTo, Fail
<1>34. CASE UNCHANGED vars
  BY <1>34 DEF vars
<1>35. QED
  BY <1>1, <1>2, <1>3, <1>4, <1>5, <1>6, <1>7, <1>8, <1>9, <1>10, <1>11, <1>12,
     <1>13, <1>14, <1>15, <1>16, <1>17, <1>18, <1>19, <1>20, <1>21, <1>22, <1>23,
     <1>24, <1>25, <1>26, <1>27, <1>28, <1>29, <1>30, <1>31, <1>32, <1>33, <1>34
     DEF Next, TaskStep

\* With no other program adding keys, KeysPointAtFinal holds for every set of keys:
\* chains, cycles and keys of a table to itself included.
THEOREM NoKeyFollowsTheOldTable == ~OtherClients => (Spec => []KeysPointAtFinal)
<1> SUFFICES ASSUME ~OtherClients PROVE Spec => []KeysPointAtFinal
  OBVIOUS
<1>1. Init => NoKeyFollows
  BY DEF Init, NoKeyFollows, KeysPointAtFinal, CheckStillHolds, BetweenCheckAndSwap
<1>2. Typed /\ NoKeyFollows /\ [Next]_vars => NoKeyFollows'
  BY NextNoKeyFollows
<1>3. Spec => [](Typed /\ NoKeyFollows)
  BY <1>1, <1>2, InitTyped, NextTyped, PTL DEF Spec
<1>4. NoKeyFollows => KeysPointAtFinal
  BY DEF NoKeyFollows
<1>5. QED
  BY <1>3, <1>4, PTL

(***************************************************************************)
(* Foreign keys of a MySQL source.  Once they are read, every key of a     *)
(* table in the scope is wanted or reported; once they are restored, every *)
(* key of a copied table exists or is reported, and no later step of the   *)
(* run takes one away.                                                     *)
(***************************************************************************)
WithoutKeys == {"idle", "resolve", "definitions", "indexes", "foreignKeys", "cleanup"}
KeysPlanned ==
  pc \notin WithoutKeys /\ source = "mysql" =>
    \A k \in Refs : k[1] \in InScope => k \in wantedKeys \cup reportedKeys
KeysRestored == \A k \in Refs : k[1] \in landed => k \in keys \cup reportedKeys
KeysKept ==
  /\ landed \subseteq InScope
  /\ KeysPlanned
  /\ (pc = "store" \/ Completed) /\ source = "mysql" => KeysRestored

LEMMA NextKeysKept ==
  Typed /\ KeysKept /\ [Next]_vars => KeysKept'
<1> SUFFICES ASSUME Typed, KeysKept, [Next]_vars PROVE KeysKept'
  OBVIOUS
<1> USE DEF KeysKept, KeysPlanned, KeysRestored, WithoutKeys, Completed, TableSteps,
      Typed, TypeOK, Positioned
<1>0. pc \in TableSteps => Cur \in Tables
  BY CurIsTable
<1>1. CASE StartRun
  BY <1>0, <1>1 DEF StartRun
<1>2. CASE RequestCancel
  BY <1>0, <1>2 DEF RequestCancel
<1>3. CASE EditRules
  BY <1>0, <1>3 DEF EditRules
<1>4. CASE KillApp
  BY <1>0, <1>4 DEF KillApp, Abandon
<1>5. CASE OtherClientAddsKey
  BY <1>0, <1>5 DEF OtherClientAddsKey
<1>6. CASE ResolveScope
  BY <1>0, <1>6 DEF ResolveScope, AtStep, GoTo, Fail
<1>7. CASE ReadDefinitions
  BY <1>0, <1>7 DEF ReadDefinitions, AtStep, GoTo, Fail
<1>8. CASE ReadIndexes
  BY <1>0, <1>8 DEF ReadIndexes, AtStep, GoTo, Fail
<1>9. CASE ReadForeignKeys
  BY <1>0, <1>9 DEF ReadForeignKeys, AtStep, GoTo, Fail
<1>10. CASE NextTable
  BY <1>0, <1>10 DEF NextTable, TablesLeft, BeginTable, AfterLoop, AtStep, GoTo, Fail
<1>11. CASE CopyTable
  BY <1>0, <1>11 DEF CopyTable, AtStep, GoTo, Fail
<1>12. CASE VerifyTemp
  BY <1>0, <1>12 DEF VerifyTemp, AtStep, GoTo, Fail
<1>13. CASE CheckInbound
  BY <1>0, <1>13 DEF CheckInbound, AfterInbound, AtStep, GoTo, Fail
<1>14. CASE AnonymizeTemp
  BY <1>0, <1>14 DEF AnonymizeTemp, Anonymize, AtStep, GoTo, Fail
<1>15. CASE AnonymizeForReplace
  BY <1>0, <1>15 DEF AnonymizeForReplace, Anonymize, AtStep, GoTo, Fail
<1>16. CASE ReplaceRows
  BY <1>0, <1>16 DEF ReplaceRows, AtStep, GoTo, Fail
<1>17. CASE CompareDefinition
  BY <1>0, <1>17 DEF CompareDefinition, AtStep, GoTo, Fail
<1>18. CASE RecheckConstraints
  BY <1>0, <1>18 DEF RecheckConstraints, AtStep, GoTo, Fail
<1>19. CASE IndexTemp
  BY <1>0, <1>19 DEF IndexTemp, AtStep, GoTo, Fail
<1>20. CASE DefineColumns
  BY <1>0, <1>20 DEF DefineColumns, AtStep, GoTo, Fail
<1>21. CASE RestoreIncrement
  BY <1>0, <1>21 DEF RestoreIncrement, AtStep, GoTo, Fail
<1>22. CASE SwapTable
  <2>1. Cur \in InScope
    BY <1>22 DEF SwapTable, AtStep, InScope, Cur
  <2>2. QED
    BY <1>22, <2>1 DEF SwapTable, Renamed, Land, AtStep, GoTo, Fail
<1>23. CASE LookupFinal
  BY <1>0, <1>23 DEF LookupFinal, AfterLookup, AtStep, GoTo, Fail
<1>24. CASE CountForCreate
  BY <1>0, <1>24 DEF CountForCreate, AtStep, GoTo, Fail
<1>25. CASE CountForEmpty
  BY <1>0, <1>25 DEF CountForEmpty, AtStep, GoTo, Fail
<1>26. CASE EmptyFinal
  BY <1>0, <1>26 DEF EmptyFinal, AtStep, GoTo, Fail
<1>27. CASE CreateEmpty
  BY <1>0, <1>27 DEF CreateEmpty, AtStep, GoTo, Fail
<1>28. CASE IndexFinal
  <2>1. Cur \in InScope
    BY <1>28 DEF IndexFinal, AtStep, InScope, Cur
  <2>2. QED
    BY <1>28, <2>1 DEF IndexFinal, Land, AtStep, GoTo
<1>29. CASE ApplyDeferredKeys
  BY <1>0, <1>29 DEF ApplyDeferredKeys, AtStep, GoTo, Fail
<1>30. CASE RestoreChecks
  BY <1>0, <1>30 DEF RestoreChecks, AtStep, GoTo, Fail
<1>31. CASE RestoreKeys
  <2>1. source = "mysql" => \A k \in Refs : k[1] \in landed => k \in keys' \cup reportedKeys'
    BY <1>31 DEF RestoreKeys, MissingKeys, AtStep
  <2>2. QED
    BY <1>31, <2>1 DEF RestoreKeys, AtStep, GoTo
<1>32. CASE StoreRun
  BY <1>0, <1>32 DEF StoreRun, AtStep, GoTo, Fail
<1>33. CASE DropTemps
  BY <1>0, <1>33 DEF DropTemps, Abandon, TempsToDrop, AtStep, GoTo, Fail
<1>34. CASE UNCHANGED vars
  BY <1>34 DEF vars
<1>35. QED
  BY <1>1, <1>2, <1>3, <1>4, <1>5, <1>6, <1>7, <1>8, <1>9, <1>10, <1>11, <1>12,
     <1>13, <1>14, <1>15, <1>16, <1>17, <1>18, <1>19, <1>20, <1>21, <1>22, <1>23,
     <1>24, <1>25, <1>26, <1>27, <1>28, <1>29, <1>30, <1>31, <1>32, <1>33, <1>34
     DEF Next, TaskStep

\* KeysAccounted: after a run from a MySQL source that ends well or is cancelled no foreign
\* key of a copied table is missing without a word, whatever order the tables came in.
THEOREM NoKeyLostSilently == Spec => []KeysAccounted
<1>1. Init => KeysKept
  BY DEF Init, KeysKept, KeysPlanned, WithoutKeys, Completed
<1>2. Spec => [](Typed /\ KeysKept)
  BY <1>1, InitTyped, NextTyped, NextKeysKept, PTL DEF Spec
<1>3. KeysKept => KeysAccounted
  BY DEF KeysKept, KeysRestored, KeysAccounted
<1>4. QED
  BY <1>2, <1>3, PTL

(***************************************************************************)
(* Rows.  While a table is handled, either its temp table has this run's   *)
(* rows, or its final table has them or is covered by the log.             *)
(***************************************************************************)
HasTemp == {"inbound", "rewriteInPlace", "replace"} \cup BetweenCheckAndSwap
RowsDone(t) == final[t] \in {"real", "rewritten", "empty"} \/ t \in unchanged
RowsInHand ==
  /\ pc \in HasTemp => temp[Cur] # "absent"
  /\ pc \in {"compare", "recheck", "indexFinal"} => RowsDone(Cur)
  /\ \A t \in landed : RowsDone(t)

LEMMA NextRowsInHand ==
  Typed /\ RowsInHand /\ [Next]_vars => RowsInHand'
<1> SUFFICES ASSUME Typed, RowsInHand, [Next]_vars PROVE RowsInHand'
  OBVIOUS
<1> USE DEF RowsInHand, RowsDone, HasTemp, BetweenCheckAndSwap, TableSteps, Typed,
      TypeOK, Positioned, Cur, TempContent
<1>0. pc \in TableSteps => Cur \in Tables
  BY CurIsTable
<1>1. CASE StartRun
  BY <1>0, <1>1 DEF StartRun
<1>2. CASE RequestCancel
  BY <1>0, <1>2 DEF RequestCancel
<1>3. CASE EditRules
  BY <1>0, <1>3 DEF EditRules
<1>4. CASE KillApp
  BY <1>0, <1>4 DEF KillApp, Abandon
<1>5. CASE OtherClientAddsKey
  BY <1>0, <1>5 DEF OtherClientAddsKey
<1>6. CASE ResolveScope
  BY <1>0, <1>6 DEF ResolveScope, AtStep, GoTo, Fail
<1>7. CASE ReadDefinitions
  BY <1>0, <1>7 DEF ReadDefinitions, AtStep, GoTo, Fail
<1>8. CASE ReadIndexes
  BY <1>0, <1>8 DEF ReadIndexes, AtStep, GoTo, Fail
<1>9. CASE ReadForeignKeys
  BY <1>0, <1>9 DEF ReadForeignKeys, AtStep, GoTo, Fail
<1>10. CASE NextTable
  BY <1>0, <1>10 DEF NextTable, TablesLeft, BeginTable, AfterLoop, AtStep, GoTo, Fail
<1>11. CASE CopyTable
  BY <1>0, <1>11 DEF CopyTable, AtStep, GoTo, Fail
<1>12. CASE VerifyTemp
  BY <1>0, <1>12 DEF VerifyTemp, AtStep, GoTo, Fail
<1>13. CASE CheckInbound
  BY <1>0, <1>13 DEF CheckInbound, AfterInbound, AtStep, GoTo, Fail
<1>14. CASE AnonymizeTemp
  BY <1>0, <1>14 DEF AnonymizeTemp, Anonymize, AtStep, GoTo, Fail
<1>15. CASE AnonymizeForReplace
  BY <1>0, <1>15 DEF AnonymizeForReplace, Anonymize, AtStep, GoTo, Fail
<1>16. CASE ReplaceRows
  BY <1>0, <1>16 DEF ReplaceRows, AtStep, GoTo, Fail
<1>17. CASE CompareDefinition
  BY <1>0, <1>17 DEF CompareDefinition, AtStep, GoTo, Fail
<1>18. CASE RecheckConstraints
  BY <1>0, <1>18 DEF RecheckConstraints, AtStep, GoTo, Fail
<1>19. CASE IndexTemp
  BY <1>0, <1>19 DEF IndexTemp, AtStep, GoTo, Fail
<1>20. CASE DefineColumns
  BY <1>0, <1>20 DEF DefineColumns, AtStep, GoTo, Fail
<1>21. CASE RestoreIncrement
  BY <1>0, <1>21 DEF RestoreIncrement, AtStep, GoTo, Fail
<1>22. CASE SwapTable
  BY <1>0, <1>22 DEF SwapTable, Renamed, Land, AtStep, GoTo, Fail
<1>23. CASE LookupFinal
  BY <1>0, <1>23 DEF LookupFinal, AfterLookup, AtStep, GoTo, Fail
<1>24. CASE CountForCreate
  BY <1>0, <1>24 DEF CountForCreate, AtStep, GoTo, Fail
<1>25. CASE CountForEmpty
  BY <1>0, <1>25 DEF CountForEmpty, AtStep, GoTo, Fail
<1>26. CASE EmptyFinal
  BY <1>0, <1>26 DEF EmptyFinal, AtStep, GoTo, Fail
<1>27. CASE CreateEmpty
  BY <1>0, <1>27 DEF CreateEmpty, AtStep, GoTo, Fail
<1>28. CASE IndexFinal
  BY <1>0, <1>28 DEF IndexFinal, Land, AtStep, GoTo, Fail
<1>29. CASE ApplyDeferredKeys
  BY <1>0, <1>29 DEF ApplyDeferredKeys, AtStep, GoTo, Fail
<1>30. CASE RestoreChecks
  BY <1>0, <1>30 DEF RestoreChecks, AtStep, GoTo, Fail
<1>31. CASE RestoreKeys
  BY <1>0, <1>31 DEF RestoreKeys, AtStep, GoTo, Fail
<1>32. CASE StoreRun
  BY <1>0, <1>32 DEF StoreRun, AtStep, GoTo, Fail
<1>33. CASE DropTemps
  BY <1>0, <1>33 DEF DropTemps, Abandon, TempsToDrop, AtStep, GoTo, Fail
<1>34. CASE UNCHANGED vars
  BY <1>34 DEF vars
<1>35. QED
  BY <1>1, <1>2, <1>3, <1>4, <1>5, <1>6, <1>7, <1>8, <1>9, <1>10, <1>11, <1>12,
     <1>13, <1>14, <1>15, <1>16, <1>17, <1>18, <1>19, <1>20, <1>21, <1>22, <1>23,
     <1>24, <1>25, <1>26, <1>27, <1>28, <1>29, <1>30, <1>31, <1>32, <1>33, <1>34
     DEF Next, TaskStep

\* RowsAccounted: a table the run counts as copied has this run's rows, or the log
\* says why it has not.
THEOREM CopiedMeansCopied == Spec => []RowsAccounted
<1>1. Init => RowsInHand
  BY DEF Init, RowsInHand, HasTemp, BetweenCheckAndSwap
<1>2. Spec => [](Typed /\ RowsInHand)
  BY <1>1, InitTyped, NextTyped, NextRowsInHand, PTL DEF Spec
<1>3. RowsInHand => RowsAccounted
  BY DEF RowsInHand, RowsDone, RowsAccounted
<1>4. QED
  BY <1>2, <1>3, PTL

(***************************************************************************)
(* Definition details.  Read once, each is wanted or reported; each step   *)
(* for a table settles its part; only checks wait for the end of the loop. *)
(***************************************************************************)
WithoutPlan == {"idle", "resolve", "definitions", "indexes", "cleanup"}
Known(a, t) == <<a, t>> \in wanted \cup reported
DetailsPlanned ==
  \A t \in InScope : \A a \in Carries[t] :
    /\ pc \notin WithoutPlan => Known(a, t)
    /\ pc = "indexes" /\ a # "indexes" => Known(a, t)

Settled(a, t) ==
  \/ a \in has[t] \/ <<a, t>> \in reported
  \/ a # "indexes" /\ t \in unchanged
  \/ a = "checks" /\ t \in backupChecks
OnTemp(a) == a \in Carries[Cur] => a \in tempHas[Cur] \/ <<a, Cur>> \in reported
OnFinal(a) == a \in Carries[Cur] => Settled(a, Cur)
Deferred(t) == "checks" \in Carries[t] => t \in deferredChecks \/ <<"checks", t>> \in reported

TempSettled ==
  /\ pc \in {"define", "increment", "swap"} => OnTemp("indexes")
  /\ pc \in {"increment", "swap"} => OnTemp("columns")
  /\ pc = "swap" => OnTemp("auto_increment") /\ Deferred(Cur)
FinalSettled ==
  /\ pc \in {"recheck", "indexFinal"} => OnFinal("columns") /\ OnFinal("auto_increment")
  /\ pc = "indexFinal" => OnFinal("checks")
LandedSettled ==
  /\ landed \subseteq InScope
  /\ \A t \in landed : \A a \in Carries[t] : Settled(a, t) \/ (a = "checks" /\ t \in deferredChecks)
ChecksSettled ==
  pc \in {"restoreKeys", "store"} \/ Completed =>
    \A t \in landed : "checks" \in Carries[t] => Settled("checks", t)
DetailsKept ==
  DetailsPlanned /\ TempSettled /\ FinalSettled /\ LandedSettled /\ ChecksSettled

\* What a table's details are owed to: a clause in hand, or a WARN.
LEMMA PlannedForCur ==
  ASSUME Typed, DetailsPlanned, pc \in TableSteps, NEW as, NEW a \in as, a \in Carries[Cur]
  PROVE  Cur \in InScope /\ (a \in Wanted(as, Cur) \/ <<a, Cur>> \in reported)
<1>1. Cur \in InScope
  BY DEF Typed, Positioned, InScope, Cur
<1>2. Known(a, Cur)
  BY <1>1 DEF DetailsPlanned, TableSteps, WithoutPlan
<1>3. QED
  BY <1>1, <1>2 DEF Known, Wanted

LEMMA NextDetailsKept ==
  Typed /\ DetailsKept /\ [Next]_vars => DetailsKept'
<1> SUFFICES ASSUME Typed, DetailsKept, [Next]_vars PROVE DetailsKept'
  OBVIOUS
<1> USE DEF DetailsKept, TableSteps, Typed, TypeOK, Positioned
<1>0. pc \in TableSteps => Cur \in Tables
  BY CurIsTable
<1>1. CASE StartRun
  BY <1>0, <1>1
     DEF StartRun, DetailsPlanned, Known, WithoutPlan, Settled, OnTemp, OnFinal,
         Deferred, TempSettled, FinalSettled, LandedSettled, ChecksSettled, Completed
<1>2. CASE RequestCancel
  <2>1. DetailsPlanned'
    BY <1>0, <1>2 DEF RequestCancel, DetailsPlanned, Known, WithoutPlan
  <2>2. TempSettled'
    BY <1>0, <1>2 DEF RequestCancel, TempSettled, OnTemp, Deferred, Cur
  <2>3. FinalSettled'
    BY <1>0, <1>2 DEF RequestCancel, FinalSettled, OnFinal, Settled, Cur
  <2>4. LandedSettled'
    BY <1>0, <1>2 DEF RequestCancel, LandedSettled, Settled
  <2>5. ChecksSettled'
    BY <1>0, <1>2 DEF RequestCancel, ChecksSettled, Settled, Completed
  <2>6. QED
    BY <2>1, <2>2, <2>3, <2>4, <2>5
<1>3. CASE EditRules
  <2>1. DetailsPlanned'
    BY <1>0, <1>3 DEF EditRules, DetailsPlanned, Known, WithoutPlan
  <2>2. TempSettled'
    BY <1>0, <1>3 DEF EditRules, TempSettled, OnTemp, Deferred, Cur
  <2>3. FinalSettled'
    BY <1>0, <1>3 DEF EditRules, FinalSettled, OnFinal, Settled, Cur
  <2>4. LandedSettled'
    BY <1>0, <1>3 DEF EditRules, LandedSettled, Settled
  <2>5. ChecksSettled'
    BY <1>0, <1>3 DEF EditRules, ChecksSettled, Settled, Completed
  <2>6. QED
    BY <2>1, <2>2, <2>3, <2>4, <2>5
<1>4. CASE KillApp
  BY <1>0, <1>4
     DEF KillApp, Abandon, DetailsPlanned, Known, WithoutPlan, Settled, OnTemp,
         OnFinal, Deferred, TempSettled, FinalSettled, LandedSettled, ChecksSettled,
         Completed
<1>5. CASE OtherClientAddsKey
  <2>1. DetailsPlanned'
    BY <1>0, <1>5 DEF OtherClientAddsKey, DetailsPlanned, Known, WithoutPlan
  <2>2. TempSettled'
    BY <1>0, <1>5 DEF OtherClientAddsKey, TempSettled, OnTemp, Deferred, Cur
  <2>3. FinalSettled'
    BY <1>0, <1>5 DEF OtherClientAddsKey, FinalSettled, OnFinal, Settled, Cur
  <2>4. LandedSettled'
    BY <1>0, <1>5 DEF OtherClientAddsKey, LandedSettled, Settled
  <2>5. ChecksSettled'
    BY <1>0, <1>5 DEF OtherClientAddsKey, ChecksSettled, Settled, Completed
  <2>6. QED
    BY <2>1, <2>2, <2>3, <2>4, <2>5
<1>6. CASE ResolveScope
  BY <1>0, <1>6
     DEF ResolveScope, AtStep, GoTo, Fail, DetailsPlanned, Known, WithoutPlan,
         Settled, OnTemp, OnFinal, Deferred, TempSettled, FinalSettled, LandedSettled,
         ChecksSettled, Completed
<1>7. CASE ReadDefinitions
  <2>1. DetailsPlanned'
    <3>1. CASE pc' = "indexes"
      <4>1. ASSUME NEW t \in InScope, NEW a \in Carries[t], a # "indexes" PROVE Known(a, t)'
        <5>1. <<a, t>> \in Details
          BY DEF Details, InScope
        <5>2. QED
          BY <1>7, <3>1, <4>1, <5>1 DEF ReadDefinitions, Fail, Known
      <4>2. QED
        BY <3>1, <4>1 DEF DetailsPlanned, WithoutPlan
    <3>2. CASE pc' = "cleanup"
      BY <3>2 DEF DetailsPlanned, WithoutPlan
    <3>3. QED
      BY <1>7, <3>1, <3>2 DEF ReadDefinitions, GoTo, Fail
  <2>2. TempSettled'
    BY <1>0, <1>7
       DEF ReadDefinitions, AtStep, GoTo, Fail, TempSettled, OnTemp, Deferred, Cur,
           DetailsPlanned, Known, WithoutPlan, Wanted, Named
  <2>3. FinalSettled'
    BY <1>0, <1>7
       DEF ReadDefinitions, AtStep, GoTo, Fail, FinalSettled, OnFinal, Settled,
           Cur, DetailsPlanned, Known, WithoutPlan, Wanted, Named
  <2>4. LandedSettled'
    BY <1>0, <1>7
       DEF ReadDefinitions, AtStep, GoTo, Fail, LandedSettled, Settled,
           TempSettled, FinalSettled, OnTemp, OnFinal, Deferred, Wanted, Named,
           DetailsPlanned, Known, WithoutPlan
  <2>5. ChecksSettled'
    BY <1>0, <1>7
       DEF ReadDefinitions, AtStep, GoTo, Fail, ChecksSettled, Settled, Completed,
           LandedSettled
  <2>6. QED
    BY <2>1, <2>2, <2>3, <2>4, <2>5
<1>8. CASE ReadIndexes
  <2>1. DetailsPlanned'
    <3>1. ASSUME NEW t \in InScope, NEW a \in Carries[t] PROVE Known(a, t)'
      <4>1. CASE a = "indexes"
        <5>1. <<a, t>> \in Details
          BY DEF Details, InScope
        <5>2. QED
          BY <1>8, <4>1, <5>1 DEF ReadIndexes, Known
      <4>2. CASE a # "indexes"
        BY <1>8, <4>2 DEF ReadIndexes, AtStep, DetailsPlanned, Known
      <4>3. QED
        BY <4>1, <4>2
    <3>2. QED
      BY <1>8, <3>1 DEF ReadIndexes, GoTo, DetailsPlanned
  <2>2. TempSettled'
    BY <1>0, <1>8
       DEF ReadIndexes, AtStep, GoTo, Fail, TempSettled, OnTemp, Deferred, Cur,
           DetailsPlanned, Known, WithoutPlan, Wanted, Named
  <2>3. FinalSettled'
    BY <1>0, <1>8
       DEF ReadIndexes, AtStep, GoTo, Fail, FinalSettled, OnFinal, Settled, Cur,
           DetailsPlanned, Known, WithoutPlan, Wanted, Named
  <2>4. LandedSettled'
    BY <1>0, <1>8
       DEF ReadIndexes, AtStep, GoTo, Fail, LandedSettled, Settled, TempSettled,
           FinalSettled, OnTemp, OnFinal, Deferred, Wanted, Named, DetailsPlanned,
           Known, WithoutPlan
  <2>5. ChecksSettled'
    BY <1>0, <1>8
       DEF ReadIndexes, AtStep, GoTo, Fail, ChecksSettled, Settled, Completed,
           LandedSettled
  <2>6. QED
    BY <2>1, <2>2, <2>3, <2>4, <2>5
<1>9. CASE ReadForeignKeys
  BY <1>0, <1>9
     DEF ReadForeignKeys, AtStep, GoTo, Fail, DetailsPlanned, Known, WithoutPlan,
         Settled, OnTemp, OnFinal, Deferred, TempSettled, FinalSettled, LandedSettled,
         ChecksSettled, Completed
<1>10. CASE NextTable
  BY <1>0, <1>10
     DEF NextTable, TablesLeft, BeginTable, AfterLoop, AtStep, GoTo, Fail,
         DetailsPlanned, Known, WithoutPlan, Settled, OnTemp, OnFinal, Deferred,
         TempSettled, FinalSettled, LandedSettled, ChecksSettled, Completed
<1>11. CASE CopyTable
  BY <1>0, <1>11
     DEF CopyTable, AtStep, GoTo, Fail, DetailsPlanned, Known, WithoutPlan,
         Settled, OnTemp, OnFinal, Deferred, TempSettled, FinalSettled, LandedSettled,
         ChecksSettled, Completed
<1>12. CASE VerifyTemp
  BY <1>0, <1>12
     DEF VerifyTemp, AtStep, GoTo, Fail, DetailsPlanned, Known, WithoutPlan,
         Settled, OnTemp, OnFinal, Deferred, TempSettled, FinalSettled, LandedSettled,
         ChecksSettled, Completed
<1>13. CASE CheckInbound
  BY <1>0, <1>13
     DEF CheckInbound, AfterInbound, AtStep, GoTo, Fail, DetailsPlanned, Known,
         WithoutPlan, Settled, OnTemp, OnFinal, Deferred, TempSettled, FinalSettled,
         LandedSettled, ChecksSettled, Completed
<1>14. CASE AnonymizeTemp
  BY <1>0, <1>14
     DEF AnonymizeTemp, Anonymize, AtStep, GoTo, Fail, DetailsPlanned, Known,
         WithoutPlan, Settled, OnTemp, OnFinal, Deferred, TempSettled, FinalSettled,
         LandedSettled, ChecksSettled, Completed
<1>15. CASE AnonymizeForReplace
  BY <1>0, <1>15
     DEF AnonymizeForReplace, Anonymize, AtStep, GoTo, Fail, DetailsPlanned, Known,
         WithoutPlan, Settled, OnTemp, OnFinal, Deferred, TempSettled, FinalSettled,
         LandedSettled, ChecksSettled, Completed
<1>16. CASE ReplaceRows
  BY <1>0, <1>16
     DEF ReplaceRows, AtStep, GoTo, Fail, DetailsPlanned, Known, WithoutPlan,
         Settled, OnTemp, OnFinal, Deferred, TempSettled, FinalSettled, LandedSettled,
         ChecksSettled, Completed
<1>17. CASE CompareDefinition
  <2>1. DetailsPlanned'
    BY <1>0, <1>17
       DEF CompareDefinition, AtStep, GoTo, Fail, DetailsPlanned, Known,
           WithoutPlan, Details, InScope
  <2>2. TempSettled'
    BY <1>0, <1>17
       DEF CompareDefinition, AtStep, GoTo, Fail, TempSettled, OnTemp, Deferred,
           Cur, DetailsPlanned, Known, WithoutPlan, Wanted, Named
  <2>3. FinalSettled'
    <3>1. pc \in TableSteps /\ Cur' = Cur /\ Cur \in Tables
      BY <1>0, <1>17 DEF CompareDefinition, AtStep, TableSteps, Cur
    <3>2. "columns" \in Carries[Cur] =>
            "columns" \in Wanted(BeforeSwap, Cur) \/ <<"columns", Cur>> \in reported
      BY <3>1, PlannedForCur DEF BeforeSwap
    <3>3. "auto_increment" \in Carries[Cur] =>
            "auto_increment" \in Wanted(BeforeSwap, Cur) \/ <<"auto_increment", Cur>> \in reported
      BY <3>1, PlannedForCur DEF BeforeSwap
    <3>4. pc' = "recheck" => OnFinal("columns")'
      BY <1>17, <3>1, <3>2
         DEF CompareDefinition, Fail, OnFinal, Settled, Named, Typed, TypeOK
    <3>5. pc' = "recheck" => OnFinal("auto_increment")'
      BY <1>17, <3>1, <3>3
         DEF CompareDefinition, Fail, OnFinal, Settled, Named, Typed, TypeOK
    <3>6. pc' # "indexFinal"
      BY <1>17 DEF CompareDefinition, GoTo, Fail
    <3>7. QED
      BY <3>4, <3>5, <3>6 DEF FinalSettled
  <2>4. LandedSettled'
    BY <1>0, <1>17
       DEF CompareDefinition, AtStep, GoTo, Fail, LandedSettled, Settled,
           TempSettled, FinalSettled, OnTemp, OnFinal, Deferred, Wanted, Named,
           DetailsPlanned, Known, WithoutPlan
  <2>5. ChecksSettled'
    BY <1>0, <1>17
       DEF CompareDefinition, AtStep, GoTo, Fail, ChecksSettled, Settled,
           Completed, LandedSettled
  <2>6. QED
    BY <2>1, <2>2, <2>3, <2>4, <2>5
<1>18. CASE RecheckConstraints
  <2>1. DetailsPlanned'
    BY <1>0, <1>18
       DEF RecheckConstraints, AtStep, GoTo, Fail, DetailsPlanned, Known,
           WithoutPlan, Details, InScope
  <2>2. TempSettled'
    BY <1>0, <1>18
       DEF RecheckConstraints, AtStep, GoTo, Fail, TempSettled, OnTemp, Deferred,
           Cur, DetailsPlanned, Known, WithoutPlan, Wanted, Named
  <2>3. FinalSettled'
    <3>1. pc \in TableSteps /\ Cur' = Cur /\ Cur \in Tables
      BY <1>0, <1>18 DEF RecheckConstraints, AtStep, TableSteps, Cur
    <3>2. "checks" \in Carries[Cur] =>
            "checks" \in Wanted({"checks"}, Cur) \/ <<"checks", Cur>> \in reported
      BY <3>1, PlannedForCur
    <3>3. OnFinal("columns")' /\ OnFinal("auto_increment")'
      BY <1>18, <3>1
         DEF RecheckConstraints, AtStep, FinalSettled, OnFinal, Settled, Typed,
             TypeOK
    <3>4. OnFinal("checks")'
      BY <1>18, <3>1, <3>2
         DEF RecheckConstraints, OnFinal, Settled, Named, Wanted, Typed, TypeOK
    <3>5. QED
      BY <1>18, <3>3, <3>4 DEF RecheckConstraints, GoTo, FinalSettled
  <2>4. LandedSettled'
    BY <1>0, <1>18
       DEF RecheckConstraints, AtStep, GoTo, Fail, LandedSettled, Settled,
           TempSettled, FinalSettled, OnTemp, OnFinal, Deferred, Wanted, Named,
           DetailsPlanned, Known, WithoutPlan
  <2>5. ChecksSettled'
    BY <1>0, <1>18
       DEF RecheckConstraints, AtStep, GoTo, Fail, ChecksSettled, Settled,
           Completed, LandedSettled
  <2>6. QED
    BY <2>1, <2>2, <2>3, <2>4, <2>5
<1>19. CASE IndexTemp
  <2>1. DetailsPlanned'
    BY <1>0, <1>19
       DEF IndexTemp, AtStep, GoTo, Fail, DetailsPlanned, Known, WithoutPlan,
           Details, InScope
  <2>2. TempSettled'
    <3>1. pc \in TableSteps /\ Cur' = Cur /\ Cur \in Tables
      BY <1>0, <1>19 DEF IndexTemp, AtStep, TableSteps, Cur
    <3>2. "indexes" \in Carries[Cur] =>
            "indexes" \in Wanted({"indexes"}, Cur) \/ <<"indexes", Cur>> \in reported
      BY <3>1, PlannedForCur
    <3>3. QED
      BY <1>19, <3>1, <3>2
         DEF IndexTemp, AtStep, GoTo, Fail, TempSettled, OnTemp, Named, Typed,
             TypeOK
  <2>3. FinalSettled'
    BY <1>0, <1>19
       DEF IndexTemp, AtStep, GoTo, Fail, FinalSettled, OnFinal, Settled, Cur,
           DetailsPlanned, Known, WithoutPlan, Wanted, Named
  <2>4. LandedSettled'
    BY <1>0, <1>19
       DEF IndexTemp, AtStep, GoTo, Fail, LandedSettled, Settled, TempSettled,
           FinalSettled, OnTemp, OnFinal, Deferred, Wanted, Named, DetailsPlanned,
           Known, WithoutPlan
  <2>5. ChecksSettled'
    BY <1>0, <1>19
       DEF IndexTemp, AtStep, GoTo, Fail, ChecksSettled, Settled, Completed,
           LandedSettled
  <2>6. QED
    BY <2>1, <2>2, <2>3, <2>4, <2>5
<1>20. CASE DefineColumns
  <2>1. DetailsPlanned'
    BY <1>0, <1>20
       DEF DefineColumns, AtStep, GoTo, Fail, DetailsPlanned, Known, WithoutPlan,
           Details, InScope
  <2>2. TempSettled'
    <3>1. pc \in TableSteps /\ Cur' = Cur /\ Cur \in Tables
      BY <1>0, <1>20 DEF DefineColumns, AtStep, TableSteps, Cur
    <3>2. "columns" \in Carries[Cur] =>
            "columns" \in Wanted({"columns"}, Cur) \/ <<"columns", Cur>> \in reported
      BY <3>1, PlannedForCur
    <3>3. QED
      BY <1>20, <3>1, <3>2
         DEF DefineColumns, AtStep, GoTo, Fail, TempSettled, OnTemp, Named, Typed,
             TypeOK
  <2>3. FinalSettled'
    BY <1>0, <1>20
       DEF DefineColumns, AtStep, GoTo, Fail, FinalSettled, OnFinal, Settled, Cur,
           DetailsPlanned, Known, WithoutPlan, Wanted, Named
  <2>4. LandedSettled'
    BY <1>0, <1>20
       DEF DefineColumns, AtStep, GoTo, Fail, LandedSettled, Settled, TempSettled,
           FinalSettled, OnTemp, OnFinal, Deferred, Wanted, Named, DetailsPlanned,
           Known, WithoutPlan
  <2>5. ChecksSettled'
    BY <1>0, <1>20
       DEF DefineColumns, AtStep, GoTo, Fail, ChecksSettled, Settled, Completed,
           LandedSettled
  <2>6. QED
    BY <2>1, <2>2, <2>3, <2>4, <2>5
<1>21. CASE RestoreIncrement
  <2>1. DetailsPlanned'
    BY <1>0, <1>21
       DEF RestoreIncrement, AtStep, GoTo, Fail, DetailsPlanned, Known,
           WithoutPlan, Details, InScope
  <2>2. TempSettled'
    <3>1. pc \in TableSteps /\ Cur' = Cur /\ Cur \in Tables
      BY <1>0, <1>21 DEF RestoreIncrement, AtStep, TableSteps, Cur
    <3>2. "auto_increment" \in Carries[Cur] =>
            "auto_increment" \in Wanted({"auto_increment"}, Cur) \/ <<"auto_increment", Cur>> \in reported
      BY <3>1, PlannedForCur
    <3>3. "checks" \in Carries[Cur] =>
            "checks" \in Wanted({"checks"}, Cur) \/ <<"checks", Cur>> \in reported
      BY <3>1, PlannedForCur
    <3>4. OnTemp("indexes")' /\ OnTemp("columns")'
      BY <1>21, <3>1 DEF RestoreIncrement, AtStep, TempSettled, OnTemp, Typed, TypeOK
    <3>5. OnTemp("auto_increment")'
      BY <1>21, <3>1, <3>2 DEF RestoreIncrement, OnTemp, Named, Typed, TypeOK
    <3>6. Deferred(Cur)'
      BY <1>21, <3>1, <3>3 DEF RestoreIncrement, Deferred
    <3>7. QED
      BY <1>21, <3>4, <3>5, <3>6, <3>1 DEF RestoreIncrement, GoTo, TempSettled
  <2>3. FinalSettled'
    BY <1>0, <1>21
       DEF RestoreIncrement, AtStep, GoTo, Fail, FinalSettled, OnFinal, Settled,
           Cur, DetailsPlanned, Known, WithoutPlan, Wanted, Named
  <2>4. LandedSettled'
    BY <1>0, <1>21
       DEF RestoreIncrement, AtStep, GoTo, Fail, LandedSettled, Settled,
           TempSettled, FinalSettled, OnTemp, OnFinal, Deferred, Wanted, Named,
           DetailsPlanned, Known, WithoutPlan
  <2>5. ChecksSettled'
    BY <1>0, <1>21
       DEF RestoreIncrement, AtStep, GoTo, Fail, ChecksSettled, Settled, Completed,
           LandedSettled
  <2>6. QED
    BY <2>1, <2>2, <2>3, <2>4, <2>5
<1>22. CASE SwapTable
  <2>1. DetailsPlanned'
    BY <1>0, <1>22
       DEF SwapTable, Renamed, Land, AtStep, GoTo, Fail, DetailsPlanned, Known,
           WithoutPlan, Details, InScope
  <2>2. TempSettled'
    BY <1>0, <1>22
       DEF SwapTable, Renamed, Land, AtStep, GoTo, Fail, TempSettled, OnTemp,
           Deferred, Cur, DetailsPlanned, Known, WithoutPlan, Wanted, Named
  <2>3. FinalSettled'
    BY <1>0, <1>22
       DEF SwapTable, Renamed, Land, AtStep, GoTo, Fail, FinalSettled, OnFinal,
           Settled, Cur, DetailsPlanned, Known, WithoutPlan, Wanted, Named
  <2>4. LandedSettled'
    <3>1. pc \in TableSteps /\ Cur' = Cur /\ Cur \in Tables
      BY <1>0, <1>22 DEF SwapTable, AtStep, TableSteps, Cur
    <3>2. Cur \in InScope
      BY <3>1 DEF Typed, Positioned, InScope, Cur
    <3>3. ASSUME NEW t \in Tables \ {Cur}, NEW a, Settled(a, t) PROVE Settled(a, t)'
      BY <1>22, <3>1, <3>3 DEF SwapTable, Renamed, Settled, Typed, TypeOK
    <3>4. CASE UNCHANGED <<has, landed>>
      BY <1>22, <3>4 DEF SwapTable, Renamed, LandedSettled, Settled
    <3>5. CASE has' = [has EXCEPT ![Cur] = tempHas[Cur]]
      <4>1. \A a \in Aspects \ {"checks"} : a \in Carries[Cur] => Settled(a, Cur)'
        BY <1>22, <3>1, <3>5
           DEF SwapTable, AtStep, TempSettled, OnTemp, Settled, Aspects, Typed,
               TypeOK
      <4>2. "checks" \in Carries[Cur] => Settled("checks", Cur)' \/ Cur \in deferredChecks
        BY <1>22, <3>1 DEF SwapTable, AtStep, TempSettled, Deferred, Settled
      <4>3. \A a \in Carries[Cur] : Settled(a, Cur)' \/ (a = "checks" /\ Cur \in deferredChecks)
        BY <3>1, <4>1, <4>2, Carries[Cur] \subseteq Aspects
      <4>4. deferredChecks' = deferredChecks /\ landed' \subseteq landed \cup {Cur}
        BY <1>22 DEF SwapTable, Land
      <4>5. QED
        BY <3>1, <3>2, <3>3, <4>3, <4>4 DEF LandedSettled, Typed, TypeOK
    <3>6. QED
      BY <1>22, <3>4, <3>5 DEF SwapTable, Renamed
  <2>5. ChecksSettled'
    BY <1>0, <1>22
       DEF SwapTable, Renamed, Land, AtStep, GoTo, Fail, ChecksSettled, Settled,
           Completed, LandedSettled
  <2>6. QED
    BY <2>1, <2>2, <2>3, <2>4, <2>5
<1>23. CASE LookupFinal
  BY <1>0, <1>23
     DEF LookupFinal, AfterLookup, AtStep, GoTo, Fail, DetailsPlanned, Known,
         WithoutPlan, Settled, OnTemp, OnFinal, Deferred, TempSettled, FinalSettled,
         LandedSettled, ChecksSettled, Completed
<1>24. CASE CountForCreate
  BY <1>0, <1>24
     DEF CountForCreate, AtStep, GoTo, Fail, DetailsPlanned, Known, WithoutPlan,
         Settled, OnTemp, OnFinal, Deferred, TempSettled, FinalSettled, LandedSettled,
         ChecksSettled, Completed
<1>25. CASE CountForEmpty
  <2>1. DetailsPlanned'
    BY <1>0, <1>25
       DEF CountForEmpty, AtStep, GoTo, Fail, DetailsPlanned, Known, WithoutPlan,
           Details, InScope
  <2>2. TempSettled'
    BY <1>0, <1>25
       DEF CountForEmpty, AtStep, GoTo, Fail, TempSettled, OnTemp, Deferred, Cur,
           DetailsPlanned, Known, WithoutPlan, Wanted, Named
  <2>3. FinalSettled'
    BY <1>0, <1>25
       DEF CountForEmpty, AtStep, GoTo, Fail, FinalSettled, OnFinal, Settled, Cur,
           DetailsPlanned, Known, WithoutPlan, Wanted, Named
  <2>4. LandedSettled'
    BY <1>0, <1>25
       DEF CountForEmpty, AtStep, GoTo, Fail, LandedSettled, Settled, TempSettled,
           FinalSettled, OnTemp, OnFinal, Deferred, Wanted, Named, DetailsPlanned,
           Known, WithoutPlan
  <2>5. ChecksSettled'
    BY <1>0, <1>25
       DEF CountForEmpty, AtStep, GoTo, Fail, ChecksSettled, Settled, Completed,
           LandedSettled
  <2>6. QED
    BY <2>1, <2>2, <2>3, <2>4, <2>5
<1>26. CASE EmptyFinal
  <2>1. DetailsPlanned'
    BY <1>0, <1>26
       DEF EmptyFinal, AtStep, GoTo, Fail, DetailsPlanned, Known, WithoutPlan,
           Details, InScope
  <2>2. TempSettled'
    BY <1>0, <1>26
       DEF EmptyFinal, AtStep, GoTo, Fail, TempSettled, OnTemp, Deferred, Cur,
           DetailsPlanned, Known, WithoutPlan, Wanted, Named
  <2>3. FinalSettled'
    BY <1>0, <1>26
       DEF EmptyFinal, AtStep, GoTo, Fail, FinalSettled, OnFinal, Settled, Cur,
           DetailsPlanned, Known, WithoutPlan, Wanted, Named
  <2>4. LandedSettled'
    BY <1>0, <1>26
       DEF EmptyFinal, AtStep, GoTo, Fail, LandedSettled, Settled, TempSettled,
           FinalSettled, OnTemp, OnFinal, Deferred, Wanted, Named, DetailsPlanned,
           Known, WithoutPlan
  <2>5. ChecksSettled'
    BY <1>0, <1>26
       DEF EmptyFinal, AtStep, GoTo, Fail, ChecksSettled, Settled, Completed,
           LandedSettled
  <2>6. QED
    BY <2>1, <2>2, <2>3, <2>4, <2>5
<1>27. CASE CreateEmpty
  <2>1. DetailsPlanned'
    BY <1>0, <1>27
       DEF CreateEmpty, AtStep, GoTo, Fail, DetailsPlanned, Known, WithoutPlan,
           Details, InScope
  <2>2. TempSettled'
    BY <1>0, <1>27
       DEF CreateEmpty, AtStep, GoTo, Fail, TempSettled, OnTemp, Deferred, Cur,
           DetailsPlanned, Known, WithoutPlan, Wanted, Named
  <2>3. FinalSettled'
    <3>1. pc \in TableSteps /\ Cur' = Cur /\ Cur \in Tables
      BY <1>0, <1>27 DEF CreateEmpty, AtStep, TableSteps, Cur
    <3>2. CASE \E kept \in SUBSET Carries[Cur] :
                 /\ has' = [has EXCEPT ![Cur] = kept]
                 /\ reported' = reported \cup Named(Carries[Cur] \ kept, Cur)
      <4>1. \A a \in Carries[Cur] : a \in has'[Cur] \/ <<a, Cur>> \in reported'
        BY <3>1, <3>2 DEF Named, Typed, TypeOK
      <4>2. \A a : OnFinal(a)'
        BY <3>1, <4>1 DEF OnFinal, Settled
      <4>3. QED
        BY <4>2 DEF FinalSettled
    <3>3. CASE Fail
      BY <3>3 DEF Fail, FinalSettled
    <3>4. QED
      BY <1>27, <3>2, <3>3 DEF CreateEmpty
  <2>4. LandedSettled'
    BY <1>0, <1>27
       DEF CreateEmpty, AtStep, GoTo, Fail, LandedSettled, Settled, TempSettled,
           FinalSettled, OnTemp, OnFinal, Deferred, Wanted, Named, DetailsPlanned,
           Known, WithoutPlan
  <2>5. ChecksSettled'
    BY <1>0, <1>27
       DEF CreateEmpty, AtStep, GoTo, Fail, ChecksSettled, Settled, Completed,
           LandedSettled
  <2>6. QED
    BY <2>1, <2>2, <2>3, <2>4, <2>5
<1>28. CASE IndexFinal
  <2>1. DetailsPlanned'
    BY <1>0, <1>28
       DEF IndexFinal, Land, AtStep, GoTo, Fail, DetailsPlanned, Known,
           WithoutPlan, Details, InScope
  <2>2. TempSettled'
    BY <1>0, <1>28
       DEF IndexFinal, Land, AtStep, GoTo, Fail, TempSettled, OnTemp, Deferred,
           Cur, DetailsPlanned, Known, WithoutPlan, Wanted, Named
  <2>3. FinalSettled'
    BY <1>0, <1>28
       DEF IndexFinal, Land, AtStep, GoTo, Fail, FinalSettled, OnFinal, Settled,
           Cur, DetailsPlanned, Known, WithoutPlan, Wanted, Named
  <2>4. LandedSettled'
    <3>1. pc \in TableSteps /\ Cur' = Cur /\ Cur \in Tables
      BY <1>0, <1>28 DEF IndexFinal, AtStep, TableSteps, Cur
    <3>2. "indexes" \in Carries[Cur] =>
            "indexes" \in Wanted({"indexes"}, Cur) \/ <<"indexes", Cur>> \in reported
      BY <3>1, PlannedForCur
    <3>3. Cur \in InScope
      BY <3>1 DEF Typed, Positioned, InScope, Cur
    <3>4. ASSUME NEW t \in Tables, NEW a, Settled(a, t) PROVE Settled(a, t)'
      BY <1>28, <3>1, <3>4 DEF IndexFinal, Settled, Typed, TypeOK
    <3>5. "indexes" \in Carries[Cur] => Settled("indexes", Cur)'
      BY <1>28, <3>1, <3>2 DEF IndexFinal, Settled, Named, Typed, TypeOK
    <3>6. \A a \in Aspects \ {"indexes"} : a \in Carries[Cur] => Settled(a, Cur)'
      BY <1>28, <3>1, <3>4 DEF IndexFinal, AtStep, FinalSettled, OnFinal, Aspects
    <3>7. \A a \in Carries[Cur] : Settled(a, Cur)'
      BY <3>1, <3>5, <3>6
    <3>8. landed' = landed \cup {Cur} /\ deferredChecks' = deferredChecks
      BY <1>28 DEF IndexFinal, Land
    <3>9. QED
      BY <3>1, <3>3, <3>4, <3>7, <3>8 DEF LandedSettled, Settled, Typed, TypeOK
  <2>5. ChecksSettled'
    BY <1>0, <1>28
       DEF IndexFinal, Land, AtStep, GoTo, Fail, ChecksSettled, Settled, Completed,
           LandedSettled
  <2>6. QED
    BY <2>1, <2>2, <2>3, <2>4, <2>5
<1>29. CASE ApplyDeferredKeys
  BY <1>0, <1>29
     DEF ApplyDeferredKeys, AtStep, GoTo, Fail, DetailsPlanned, Known, WithoutPlan,
         Settled, OnTemp, OnFinal, Deferred, TempSettled, FinalSettled, LandedSettled,
         ChecksSettled, Completed
<1>30. CASE RestoreChecks
  BY <1>0, <1>30
     DEF RestoreChecks, AtStep, GoTo, Fail, DetailsPlanned, Known, WithoutPlan,
         Settled, OnTemp, OnFinal, Deferred, TempSettled, FinalSettled, LandedSettled,
         ChecksSettled, Completed
<1>31. CASE RestoreKeys
  BY <1>0, <1>31
     DEF RestoreKeys, AtStep, GoTo, Fail, DetailsPlanned, Known, WithoutPlan,
         Settled, OnTemp, OnFinal, Deferred, TempSettled, FinalSettled, LandedSettled,
         ChecksSettled, Completed
<1>32. CASE StoreRun
  BY <1>0, <1>32
     DEF StoreRun, AtStep, GoTo, Fail, DetailsPlanned, Known, WithoutPlan, Settled,
         OnTemp, OnFinal, Deferred, TempSettled, FinalSettled, LandedSettled,
         ChecksSettled, Completed
<1>33. CASE DropTemps
  BY <1>0, <1>33
     DEF DropTemps, Abandon, TempsToDrop, AtStep, GoTo, Fail, DetailsPlanned,
         Known, WithoutPlan, Settled, OnTemp, OnFinal, Deferred, TempSettled,
         FinalSettled, LandedSettled, ChecksSettled, Completed
<1>34. CASE UNCHANGED vars
  BY <1>34
     DEF vars, DetailsPlanned, Known, WithoutPlan, Settled, OnTemp, OnFinal,
         Deferred, TempSettled, FinalSettled, LandedSettled, ChecksSettled, Completed,
         Cur
<1>35. QED
  BY <1>1, <1>2, <1>3, <1>4, <1>5, <1>6, <1>7, <1>8, <1>9, <1>10, <1>11, <1>12,
     <1>13, <1>14, <1>15, <1>16, <1>17, <1>18, <1>19, <1>20, <1>21, <1>22, <1>23,
     <1>24, <1>25, <1>26, <1>27, <1>28, <1>29, <1>30, <1>31, <1>32, <1>33, <1>34
     DEF Next, TaskStep

\* DetailsAccounted: no index, column clause, AUTO_INCREMENT or check of a copied table
\* goes missing unreported, for any mixture of refusals and detours.
THEOREM NoDetailLostSilently == Spec => []DetailsAccounted
<1>1. Init => DetailsKept
  BY DEF Init, DetailsKept, DetailsPlanned, WithoutPlan, TempSettled, FinalSettled,
         LandedSettled, ChecksSettled, Completed
<1>2. Spec => [](Typed /\ DetailsKept)
  BY <1>1, InitTyped, NextTyped, NextDetailsKept, PTL DEF Spec
<1>3. DetailsKept => DetailsAccounted
  BY DEF DetailsKept, LandedSettled, ChecksSettled, Settled, DetailsAccounted
<1>4. QED
  BY <1>2, <1>3, PTL

(***************************************************************************)
(* The tables take turns.  A table is landed at the end of its turn, so    *)
(* the one at hand is not; the loop is left with every table landed that   *)
(* was begun, and unless it was cancelled, that is all of them.            *)
(***************************************************************************)
Beginning == {"resolve", "definitions", "indexes", "foreignKeys"}
AfterTheLoop == {"secondPass", "restoreChecks", "restoreKeys", "store"}
Ready == idx = 0 \/ Cur \in landed
Turn ==
  /\ pc \in TableSteps => outcome = "none" /\ Cur \notin landed
  /\ pc = "next" => outcome = "none" /\ Ready
  /\ pc \in AfterTheLoop =>
       /\ Ready /\ outcome \in {"none", "cancelled"}
       /\ outcome = "none" => idx = Len(Scope)
  /\ pc \in Beginning => outcome = "none" /\ idx = 0 /\ landed = {}
  /\ pc = "cleanup" => outcome # "none"
  /\ \A t \in landed : \E i \in 1 .. idx : t = Scope[i]
  /\ pc = "idle" /\ outcome = "none" =>
       idx = 0 /\ unchanged = {} /\ \A t \in Tables : final[t] \in {"absent", "old"}

\* A table whose turn has not come is not landed.
LEMMA NextIsNotLanded ==
  ASSUME Typed, Turn, idx < Len(Scope)
  PROVE  idx + 1 \in 1 .. Len(Scope) /\ Scope[idx + 1] \notin landed
<1>1. idx \in 0 .. Len(Scope) /\ Len(Scope) \in Nat
  BY DEF Typed, TypeOK
<1>2. ASSUME NEW i \in 1 .. idx PROVE Scope[idx + 1] # Scope[i]
  BY <1>1, DistinctAssumption
<1>3. QED
  BY <1>1, <1>2 DEF Turn

LEMMA NextTurn == Typed /\ Turn /\ [Next]_vars => Turn'
<1> SUFFICES ASSUME Typed, Turn, [Next]_vars PROVE Turn'
  OBVIOUS
<1>0. idx \in 0 .. Len(Scope) /\ (pc \in TableSteps => idx \in 1 .. Len(Scope))
  BY DEF Typed, TypeOK, Positioned
<1> USE <1>0 DEF Turn, Ready, Beginning, AfterTheLoop, TableSteps, Cur
<1>1. CASE StartRun
  BY <1>1 DEF StartRun
<1>2. CASE RequestCancel
  BY <1>2 DEF RequestCancel
<1>3. CASE EditRules
  BY <1>3 DEF EditRules
<1>4. CASE KillApp
  BY <1>4 DEF KillApp, Abandon
<1>5. CASE OtherClientAddsKey
  BY <1>5 DEF OtherClientAddsKey
<1>6. CASE ResolveScope
  BY <1>6 DEF ResolveScope, AtStep, GoTo, Fail
<1>7. CASE ReadDefinitions
  BY <1>7 DEF ReadDefinitions, AtStep, GoTo, Fail
<1>8. CASE ReadIndexes
  BY <1>8 DEF ReadIndexes, AtStep, GoTo, Fail
<1>9. CASE ReadForeignKeys
  BY <1>9 DEF ReadForeignKeys, AtStep, GoTo, Fail
<1>10. CASE NextTable
  <2>1. CASE TablesLeft /\ ~cancel /\ BeginTable /\ pc' = "copy" /\ UNCHANGED outcome
    <3>1. Scope[idx + 1] \notin landed
      BY <2>1, NextIsNotLanded DEF TablesLeft
    <3>2. QED
      BY <1>10, <2>1, <3>1 DEF NextTable, BeginTable
  <2>2. CASE /\ TablesLeft /\ cancel /\ UNCHANGED idx
             /\ outcome' = "cancelled" /\ pc' = AfterLoop(TRUE)
    BY <1>10, <2>2 DEF NextTable, AfterLoop
  <2>3. CASE ~TablesLeft /\ pc' = AfterLoop(FALSE) /\ UNCHANGED <<idx, outcome>>
    BY <1>10, <2>3 DEF NextTable, AfterLoop, TablesLeft
  <2>4. QED
    BY <1>10, <2>1, <2>2, <2>3 DEF NextTable
<1>11. CASE CopyTable
  BY <1>11 DEF CopyTable, AtStep, GoTo, Fail
<1>12. CASE VerifyTemp
  BY <1>12 DEF VerifyTemp, AtStep, GoTo, Fail
<1>13. CASE CheckInbound
  BY <1>13 DEF CheckInbound, AfterInbound, AtStep, GoTo, Fail
<1>14. CASE AnonymizeTemp
  BY <1>14 DEF AnonymizeTemp, Anonymize, AtStep, GoTo, Fail
<1>15. CASE AnonymizeForReplace
  BY <1>15 DEF AnonymizeForReplace, Anonymize, AtStep, GoTo, Fail
<1>16. CASE ReplaceRows
  BY <1>16 DEF ReplaceRows, AtStep, GoTo, Fail
<1>17. CASE CompareDefinition
  BY <1>17 DEF CompareDefinition, AtStep, GoTo, Fail
<1>18. CASE RecheckConstraints
  BY <1>18 DEF RecheckConstraints, AtStep, GoTo, Fail
<1>19. CASE IndexTemp
  BY <1>19 DEF IndexTemp, AtStep, GoTo, Fail
<1>20. CASE DefineColumns
  BY <1>20 DEF DefineColumns, AtStep, GoTo, Fail
<1>21. CASE RestoreIncrement
  BY <1>21 DEF RestoreIncrement, AtStep, GoTo, Fail
<1>22. CASE SwapTable
  BY <1>22 DEF SwapTable, Renamed, Land, AtStep, GoTo, Fail
<1>23. CASE LookupFinal
  BY <1>23 DEF LookupFinal, AfterLookup, AtStep, GoTo, Fail
<1>24. CASE CountForCreate
  BY <1>24 DEF CountForCreate, AtStep, GoTo, Fail
<1>25. CASE CountForEmpty
  BY <1>25 DEF CountForEmpty, AtStep, GoTo, Fail
<1>26. CASE EmptyFinal
  BY <1>26 DEF EmptyFinal, AtStep, GoTo, Fail
<1>27. CASE CreateEmpty
  BY <1>27 DEF CreateEmpty, AtStep, GoTo, Fail
<1>28. CASE IndexFinal
  BY <1>28 DEF IndexFinal, Land, AtStep, GoTo, Fail
<1>29. CASE ApplyDeferredKeys
  BY <1>29 DEF ApplyDeferredKeys, AtStep, GoTo, Fail
<1>30. CASE RestoreChecks
  BY <1>30 DEF RestoreChecks, AtStep, GoTo, Fail
<1>31. CASE RestoreKeys
  BY <1>31 DEF RestoreKeys, AtStep, GoTo, Fail
<1>32. CASE StoreRun
  BY <1>32 DEF StoreRun, AtStep, GoTo, Fail
<1>33. CASE DropTemps
  BY <1>33 DEF DropTemps, Abandon, AtStep, GoTo, Fail
<1>34. CASE UNCHANGED vars
  BY <1>34 DEF vars
<1>35. QED
  BY <1>1, <1>2, <1>3, <1>4, <1>5, <1>6, <1>7, <1>8, <1>9, <1>10, <1>11, <1>12,
     <1>13, <1>14, <1>15, <1>16, <1>17, <1>18, <1>19, <1>20, <1>21, <1>22, <1>23,
     <1>24, <1>25, <1>26, <1>27, <1>28, <1>29, <1>30, <1>31, <1>32, <1>33, <1>34
     DEF Next, TaskStep

\* The variables of TablesInTurn.
TurnVars == <<[t \in Tables |-> Seen(t)], idx, Finished, unchanged, outcome>>

\* What changes no table, and at most ends the run.
LEMMA Aside ==
  ASSUME UNCHANGED <<final, idx, landed, unchanged>>, outcome' \in {outcome, "failed", "killed"}
  PROVE  [Turns!Next]_TurnVars
<1>1. UNCHANGED <<[t \in Tables |-> Seen(t)], idx, Finished, unchanged>>
  BY DEF Seen, Finished, Cur
<1>2. QED
  BY <1>1 DEF TurnVars, Turns!Next, Turns!End

\* A table at hand that is given rows, or loses them, and no other.
LEMMA OneChanges ==
  ASSUME Typed, NEW c \in {"empty", "real", "rewritten"}, pc \in TableSteps,
         final' = [final EXCEPT ![Cur] = c]
  PROVE  [t \in Tables |-> Seen(t)]' =
           [[t \in Tables |-> Seen(t)] EXCEPT ![Cur] = IF c = "empty" THEN "empty" ELSE "new"]
<1>1. Cur \in Tables
  BY CurIsTable
<1>2. \A t \in Tables : final'[t] = IF t = Cur THEN c ELSE final[t]
  BY DEF Typed, TypeOK
<1>3. \A t \in Tables :
        Seen(t)' = IF t # Cur THEN Seen(t) ELSE IF c = "empty" THEN "empty" ELSE "new"
  BY <1>2 DEF Seen
<1>4. QED
  BY <1>1, <1>3

Changed ==
  final' = final \/ \E c \in {"empty", "real", "rewritten"} : final' = [final EXCEPT ![Cur] = c]

LEMMA ChangedMeansChange ==
  ASSUME Typed, pc \in TableSteps, Changed, idx' = idx
  PROVE  Turns!Change
<1>1. CASE final' = final
  BY <1>1 DEF Turns!Change, Seen
<1>2. ASSUME NEW c \in {"empty", "real", "rewritten"}, final' = [final EXCEPT ![Cur] = c]
      PROVE  Turns!Change
  BY <1>2, OneChanges DEF Turns!Change, Turns!AtHand, Cur
<1>3. QED
  BY <1>1, <1>2 DEF Changed

\* A call for the table at hand after which its turn goes on, or the run has failed.
LEMMA WorkStep ==
  ASSUME Typed, Turn, pc \in TableSteps, Changed, UNCHANGED <<idx, landed>>,
         unchanged' \in {unchanged, unchanged \cup {Cur}}, outcome' \in {outcome, "failed"}
  PROVE  [Turns!Next]_TurnVars
<1>1. idx \in 1 .. Len(Scope) /\ Cur \notin landed
  BY DEF Typed, Positioned, Turn
<1>2. Finished = idx - 1 /\ Finished' = idx - 1
  BY <1>1 DEF Finished, Cur
<1>3. Turns!HalfDone
  BY <1>1, <1>2 DEF Turns!HalfDone
<1>4. QED
  BY <1>2, <1>3, ChangedMeansChange DEF Turns!Next, Turns!Work, Turns!AtHand, Cur

\* The call that lands it.
LEMMA FinishStep ==
  ASSUME Typed, Turn, pc \in TableSteps, Changed, UNCHANGED <<idx, unchanged, outcome>>,
         Land(Cur), RowsDone(Cur)'
  PROVE  [Turns!Next]_TurnVars
<1>1. idx \in 1 .. Len(Scope) /\ Cur \notin landed /\ Cur \in Tables /\ outcome = "none"
  BY CurIsTable DEF Typed, Positioned, Turn
<1>2. Finished = idx - 1 /\ Finished' = idx
  BY <1>1 DEF Finished, Cur, Land
<1>3. Turns!HalfDone
  BY <1>1, <1>2 DEF Turns!HalfDone
<1>4. Seen(Cur)' # "before" \/ Cur \in unchanged
  BY DEF RowsDone, Seen, Cur
<1>5. QED
  BY <1>1, <1>2, <1>3, <1>4, ChangedMeansChange DEF Turns!Next, Turns!Finish, Turns!AtHand, Cur

LEMMA NextTakesTurns ==
  Typed /\ RowsInHand /\ Turn /\ [Next]_vars => [Turns!Next]_TurnVars
<1> SUFFICES ASSUME Typed, RowsInHand, Turn, [Next]_vars PROVE [Turns!Next]_TurnVars
  OBVIOUS
<1>1. CASE StartRun
  <2>1. CASE outcome = "none"
    <3>1. idx = 0 /\ unchanged = {} /\ \A t \in Tables : final[t] \in {"absent", "old"}
      BY <1>1, <2>1 DEF StartRun, Turn
    <3>2. UNCHANGED <<final, idx, unchanged, outcome>>
      BY <1>1, <2>1, <3>1 DEF StartRun, Typed, TypeOK
    <3>3. Finished = 0 /\ Finished' = 0
      BY <3>1, <3>2 DEF Finished
    <3>4. QED
      BY <3>2, <3>3 DEF TurnVars, Seen
  <2>2. CASE outcome # "none"
    <3>1. \A t \in Tables : Seen(t)' = "before"
      BY <1>1 DEF StartRun, Seen
    <3>2. Finished' = 0
      BY <1>1 DEF StartRun, Finished
    <3>3. QED
      BY <1>1, <2>2, <3>1, <3>2 DEF StartRun, Turns!Next, Turns!Restart, Turns!Init
  <2>3. QED
    BY <2>1, <2>2
<1>2. CASE NextTable
  <2>1. idx \in 0 .. Len(Scope) /\ outcome = "none" /\ Finished = idx
    BY <1>2 DEF NextTable, Turn, Ready, Finished, Typed, TypeOK
  <2>2. ~Turns!HalfDone
    BY <2>1 DEF Turns!HalfDone
  <2>3. CASE TablesLeft /\ ~cancel /\ BeginTable /\ pc' = "copy" /\ UNCHANGED outcome
    <3>1. Scope[idx + 1] \notin landed
      BY <2>3, NextIsNotLanded DEF TablesLeft
    <3>2. Finished' = idx
      BY <1>2, <2>1, <2>3, <3>1 DEF NextTable, BeginTable, Finished, Cur
    <3>3. QED
      BY <1>2, <2>1, <2>2, <2>3, <3>2
         DEF NextTable, BeginTable, TablesLeft, dstVars, logVars, Seen, Turns!Next, Turns!Begin
  <2>4. CASE /\ TablesLeft /\ cancel /\ UNCHANGED idx
             /\ outcome' = "cancelled" /\ pc' = AfterLoop(TRUE)
    <3>1. UNCHANGED <<[t \in Tables |-> Seen(t)], idx, Finished, unchanged>>
      BY <1>2, <2>4 DEF NextTable, Seen, Finished, Cur
    <3>2. QED
      BY <2>1, <2>2, <2>4, <3>1 DEF Turns!Next, Turns!End
  <2>5. CASE ~TablesLeft /\ pc' = AfterLoop(FALSE) /\ UNCHANGED <<idx, outcome>>
    BY <1>2, <2>5, Aside DEF NextTable
  <2>6. QED
    BY <1>2, <2>3, <2>4, <2>5 DEF NextTable
<1>3. CASE ReplaceRows
  <2>1. temp[Cur] \in {"real", "rewritten"} /\ pc \in TableSteps
    BY <1>3, CurIsTable
       DEF ReplaceRows, AtStep, RowsInHand, HasTemp, TableSteps, Typed, TypeOK, TempContent
  <2>2. Changed
    BY <1>3, <2>1 DEF ReplaceRows, Changed
  <2>3. QED
    BY <1>3, <2>1, <2>2, WorkStep DEF ReplaceRows, AtStep, GoTo, Fail
<1>4. CASE SwapTable
  <2>1. temp[Cur] \in {"real", "rewritten"} /\ pc \in TableSteps
    BY <1>4, CurIsTable
       DEF SwapTable, AtStep, RowsInHand, HasTemp, BetweenCheckAndSwap, TableSteps, Typed, TypeOK,
           TempContent
  <2>2. Changed
    BY <1>4, <2>1 DEF SwapTable, Renamed, Changed
  <2>3. CASE landed' = landed
    BY <1>4, <2>1, <2>2, <2>3, WorkStep DEF SwapTable, AtStep, GoTo, Fail
  <2>4. CASE (\E kept \in BOOLEAN : Renamed(kept)) /\ Land(Cur) /\ GoTo("next")
    <3>1. RowsDone(Cur)'
      <4>1. Cur \in Tables /\ Cur' = Cur
        BY <1>4, <2>1, CurIsTable DEF SwapTable, AtStep, Cur
      <4>2. final'[Cur] = temp[Cur]
        BY <2>4, <4>1 DEF Renamed, Typed, TypeOK
      <4>3. QED
        BY <2>1, <4>1, <4>2 DEF RowsDone
    <3>2. QED
      BY <1>4, <2>1, <2>2, <2>4, <3>1, FinishStep DEF SwapTable, AtStep, GoTo
  <2>5. QED
    BY <1>4, <2>3, <2>4 DEF SwapTable
<1>5. CASE CountForEmpty
  BY <1>5, WorkStep DEF CountForEmpty, AtStep, GoTo, TableSteps, Changed
<1>6. CASE EmptyFinal
  BY <1>6, WorkStep DEF EmptyFinal, AtStep, GoTo, Fail, TableSteps, Changed
<1>7. CASE CreateEmpty
  BY <1>7, WorkStep DEF CreateEmpty, AtStep, GoTo, Fail, TableSteps, Changed
<1>8. CASE IndexFinal
  <2>1. RowsDone(Cur)' /\ pc \in TableSteps
    BY <1>8 DEF IndexFinal, AtStep, RowsInHand, RowsDone, TableSteps, Cur
  <2>2. QED
    BY <1>8, <2>1, FinishStep DEF IndexFinal, AtStep, GoTo, Changed
<1>9. CASE StoreRun
  <2>1. pc = "store" /\ UNCHANGED <<final, idx, landed, unchanged>>
    BY <1>9 DEF StoreRun, AtStep
  <2>2. CASE outcome = "none" /\ outcome' = "success"
    <3>1. idx = Len(Scope) /\ Finished = idx
      BY <2>1, <2>2 DEF Turn, AfterTheLoop, Ready, Finished
    <3>2. UNCHANGED <<[t \in Tables |-> Seen(t)], idx, Finished, unchanged>>
      BY <2>1 DEF Seen, Finished, Cur
    <3>3. QED
      BY <2>2, <3>1, <3>2 DEF Turns!Next, Turns!End, Turns!HalfDone, Typed, TypeOK
  <2>3. CASE outcome' \in {outcome, "failed"}
    BY <2>1, <2>3, Aside
  <2>4. QED
    BY <1>9, <2>1, <2>2, <2>3 DEF StoreRun, Turn, AfterTheLoop, Fail
<1>10. CASE RequestCancel \/ EditRules \/ KillApp \/ OtherClientAddsKey
  BY <1>10, Aside DEF RequestCancel, EditRules, KillApp, OtherClientAddsKey
<1>11. CASE ResolveScope \/ ReadDefinitions \/ ReadIndexes \/ ReadForeignKeys
  BY <1>11, Aside
     DEF ResolveScope, ReadDefinitions, ReadIndexes, ReadForeignKeys, AtStep, GoTo, Fail
<1>12. CASE CopyTable \/ VerifyTemp \/ CheckInbound \/ AnonymizeTemp \/ AnonymizeForReplace
  BY <1>12, Aside
     DEF CopyTable, VerifyTemp, CheckInbound, AnonymizeTemp, AnonymizeForReplace, Anonymize,
         AtStep, GoTo, Fail
<1>13. CASE \/ CompareDefinition \/ RecheckConstraints
            \/ IndexTemp \/ DefineColumns \/ RestoreIncrement
  BY <1>13, Aside
     DEF CompareDefinition, RecheckConstraints, IndexTemp, DefineColumns, RestoreIncrement,
         AtStep, GoTo, Fail
<1>14. CASE LookupFinal \/ CountForCreate
  BY <1>14, Aside DEF LookupFinal, CountForCreate, AtStep, GoTo, Fail
<1>15. CASE ApplyDeferredKeys \/ RestoreChecks \/ RestoreKeys \/ DropTemps
  BY <1>15, Aside DEF ApplyDeferredKeys, RestoreChecks, RestoreKeys, DropTemps, AtStep, GoTo, Fail
<1>16. CASE UNCHANGED vars
  BY <1>16, Aside DEF vars
<1>17. QED
  BY <1>1, <1>2, <1>3, <1>4, <1>5, <1>6, <1>7, <1>8, <1>9, <1>10, <1>11, <1>12, <1>13, <1>14,
     <1>15, <1>16 DEF Next, TaskStep

\* TablesTakeTurns: what a reader of the destination sees of a run is one table after the
\* other, none half done when the run ended well or was cancelled, one when it failed.
THEOREM TablesAreTakenInTurn == Spec => TablesTakeTurns
<1>1. Init => RowsInHand
  BY DEF Init, RowsInHand, HasTemp, BetweenCheckAndSwap
<1>2. Init => Turn
  BY DEF Init, Turn, TableSteps, AfterTheLoop, Beginning
<1>3. Init => Turns!Init
  BY DEF Init, Turns!Init, Seen, Finished
<1>4. QED
  BY <1>1, <1>2, <1>3, InitTyped, NextTyped, NextRowsInHand, NextTurn, NextTakesTurns, PTL
     DEF Spec, TablesTakeTurns, Turns!Spec, TurnVars
=============================================================================
