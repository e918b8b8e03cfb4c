------------------------- MODULE SingleCallRunProofs -------------------------
(***************************************************************************)
(* What a run against a PostgreSQL destination accounts for, for any       *)
(* number of tables and any limit of the listing.                          *)
(***************************************************************************)
EXTENDS SingleCallRun, FiniteSetTheorems, TLAPS

(***************************************************************************)
(* Types.                                                                  *)
(***************************************************************************)
LEMMA TypeInit == Init => TypeOK
BY SizesAssumption DEF Init, TypeOK, Salts

LEMMA TypeStep == TypeOK /\ [Next]_vars => TypeOK'
<1> SUFFICES ASSUME TypeOK, [Next]_vars PROVE TypeOK'
  OBVIOUS
<1> USE SizesAssumption DEF TypeOK, Salts, Fail, Record, sourceVars, destVars, saltVars, logVars, loopVars
<1>1. CASE CopyTable BY <1>1 DEF CopyTable
<1>2. CASE TransferDone BY <1>2 DEF TransferDone
<1>3. CASE TransferFails
  <2>1. named' \in SUBSET Tables
    BY <1>3 DEF TransferFails
  <2>2. UNCHANGED <<mode, source, moved, asked, copied, dest, used, salt, draft, other,
                    decided, listing, todo, on>>
    BY <1>3 DEF TransferFails
  <2>3. pc' = "end" /\ told' = "failed" /\ recorded' = "failed"
    BY <1>3 DEF TransferFails
  <2>4. QED
    BY <2>1, <2>2, <2>3
<1>4. CASE ListTables
  <2>1. listing' \in SUBSET Tables
    BY <1>4 DEF ListTables, ScopeTables, First
  <2>2. QED
    BY <1>4, <2>1 DEF ListTables
<1>5. CASE ListFails BY <1>5 DEF ListFails
<1>6. CASE ReadGenerated BY <1>6 DEF ReadGenerated
<1>7. CASE Check BY <1>7 DEF Check
<1>8. CASE LeaveReal BY <1>8 DEF LeaveReal, IsNext, Named
<1>9. CASE StepFails BY <1>9 DEF StepFails, IsNext
<1>10. CASE NothingToDo BY <1>10 DEF NothingToDo, IsNext
<1>11. CASE ReadSalt BY <1>11 DEF ReadSalt, UseExisting
<1>12. CASE CreateSalt BY <1>12 DEF CreateSalt
<1>13. CASE KeychainFails BY <1>13 DEF KeychainFails
<1>14. CASE Update BY <1>14 DEF Update, IsNext
<1>15. CASE UpdateFails BY <1>15 DEF UpdateFails, IsNext
<1>16. CASE Finish BY <1>16 DEF Finish
<1>17. CASE MoveSwitch BY <1>17 DEF MoveSwitch
<1>18. CASE SourceChanges BY <1>18 DEF SourceChanges
<1>19. CASE OtherReads BY <1>19 DEF OtherReads
<1>20. CASE OtherWrites
  <2>1. UNCHANGED <<mode, source, moved, asked, copied, dest, used, draft, named, told, recorded,
                    decided, listing, todo, on, pc>>
    BY <1>20 DEF OtherWrites
  <2>2. salt' = "theirs" /\ other' = "created"
    BY <1>20 DEF OtherWrites
  <2>3. QED
    BY <2>1, <2>2
<1>21. CASE UNCHANGED vars
  <2>1. UNCHANGED <<mode, source, moved, asked, copied, dest, used, salt, draft, other>>
    BY <1>21 DEF vars
  <2>2. UNCHANGED <<named, told, recorded, decided, listing, todo, on, pc>>
    BY <1>21 DEF vars
  <2>3. (recorded' = "success" <=> told' = "success") /\ (pc' = "end" <=> told' # "pending")
    BY <2>2
  <2>4. QED
    BY <2>1, <2>2, <2>3
<1>22. QED
  BY <1>1, <1>2, <1>3, <1>4, <1>5, <1>6, <1>7, <1>8, <1>9, <1>10, <1>11, <1>12, <1>13,
     <1>14, <1>15, <1>16, <1>17, <1>18, <1>19, <1>20, <1>21 DEF Next, RunStep

\* Every variable keeps its type, and the history calls a run a success exactly when the
\* window does (store_run, fail).
THEOREM TypeCorrect == Spec => []TypeOK
BY TypeInit, TypeStep, PTL DEF Spec

(***************************************************************************)
(* The invariant.                                                          *)
(***************************************************************************)
Listed == pc \in {"generated", "check", "next", "salt", "update"} \/ told \in {"success", "step failed"}

\* Between the transfer and the listing the schema has changed by what moved.
SchemaHas ==
  mode = "schema" => \A t \in Tables : t \notin moved => (t \in source <=> t \in asked)

AllCopied == pc = "list" \/ Listed => copied = asked

ListingMisses == Listed => \A t \in copied : t \in listing \/ Overlooked(t)
ListingAdds == \A t \in listing : t \in asked \/ (mode = "schema" /\ t \in moved)

\* The decision is taken once, and from then on every table taken off the list is done.
Decided ==
  /\ pc \in {"next", "salt", "update"} \/ told = "step failed" => decided
  /\ pc \in {"copy", "list", "generated", "check"} => ~decided
  /\ told = "success" /\ decided => todo = {}
  /\ decided => todo \subseteq listing
HeadDone == decided => \A t \in listing \ todo : dest[t] = "treated" \/ t \in named
Stopped ==
  told = "step failed" => \E t \in named \cap todo : \A u \in todo : t <= u

\* While no other window has written its salt, there is one salt.
OneSalt ==
  other # "created" =>
    /\ \A t \in Tables : used[t] # "none" => used[t] = salt
    /\ pc = "update" => draft = salt
    /\ pc = "salt" => salt = "none"

Inv ==
  /\ TypeOK /\ SchemaHas /\ AllCopied /\ ListingMisses /\ ListingAdds /\ Decided /\ HeadDone
  /\ Stopped /\ OnlyScopeTreated /\ OneSalt

\* A table that is not among the first ones has as many before it.
LEMMA BehindTheLimit ==
  ASSUME NEW S \in SUBSET Tables, NEW t \in S, t \notin First(Limit, S)
  PROVE  Cardinality({u \in S : u < t}) >= Limit
<1> DEFINE before == {u \in S : u < t}
           upto == {u \in S : u <= t}
<1>1. IsFiniteSet(before)
  BY SizesAssumption, FS_Subset
<1>2. upto = before \cup {t} /\ t \notin before
  <2>1. \A u \in S : u \in Nat
    BY SizesAssumption
  <2>2. \A u \in S : u <= t <=> u < t \/ u = t
    BY <2>1
  <2>3. ~(t < t)
    BY <2>1
  <2>4. QED
    BY <2>2, <2>3
<1>3. Cardinality(upto) = Cardinality(before) + 1
  BY <1>1, <1>2, FS_AddElement
<1>4. ~(Cardinality(upto) <= Limit)
  BY DEF First
<1>5. Cardinality(before) \in Nat
  BY <1>1, FS_CardinalityType
<1>6. QED
  BY <1>3, <1>4, <1>5, SizesAssumption

\* A table that the listing may miss stays one: the sets it is measured by only grow.
LEMMA OverlookedStays ==
  ASSUME source \in SUBSET Tables, moved \in SUBSET Tables, source' \in SUBSET Tables, moved' \in SUBSET Tables,
         mode' = mode, moved \subseteq moved', source \cup moved \subseteq source' \cup moved'
  PROVE  \A t \in Tables : Overlooked(t) => Overlooked(t)'
<1> SUFFICES ASSUME NEW t \in Tables, Overlooked(t) PROVE Overlooked(t)'
  OBVIOUS
<1>1. CASE t \in moved
  BY <1>1 DEF Overlooked
<1>2. CASE Cardinality({u \in source \cup moved : u < t}) >= Limit
  <2> DEFINE A == {u \in source \cup moved : u < t}
             B == {u \in source' \cup moved' : u < t}
  <2>1. A \subseteq B /\ B \subseteq Tables
    OBVIOUS
  <2>2. IsFiniteSet(B)
    BY <2>1, SizesAssumption, FS_Subset
  <2>3. IsFiniteSet(A) /\ Cardinality(A) <= Cardinality(B)
    BY <2>1, <2>2, FS_Subset
  <2>4. Cardinality(A) \in Nat /\ Cardinality(B) \in Nat
    BY <2>2, <2>3, FS_CardinalityType
  <2>5. Cardinality(B) >= Limit
    BY <1>2, <2>3, <2>4, SizesAssumption
  <2>6. QED
    BY <2>5 DEF Overlooked
<1>3. QED
  BY <1>1, <1>2 DEF Overlooked

(***************************************************************************)
(* It holds in every state.                                                *)
(***************************************************************************)
LEMMA InvInit == Init => Inv
BY TypeInit DEF Init, Inv, Listed, SchemaHas, AllCopied, ListingMisses, ListingAdds, Decided, HeadDone,
                Stopped, OnlyScopeTreated, OneSalt

\* The schema and what is known of the listing.
LEMMA ScopeStep ==
  Inv /\ [Next]_vars => SchemaHas' /\ AllCopied' /\ ListingMisses' /\ ListingAdds'
<1> SUFFICES ASSUME Inv, [Next]_vars PROVE SchemaHas' /\ AllCopied' /\ ListingMisses' /\ ListingAdds'
  OBVIOUS
<1> USE DEF Inv, Fail, Record, sourceVars, destVars, saltVars, logVars, loopVars
<1>1. TypeOK /\ TypeOK'
  BY TypeStep
<1>2. mode' = mode /\ asked' = asked /\ moved \subseteq moved' /\ source \cup moved \subseteq source' \cup moved'
  BY <1>1 DEF Next, RunStep, CopyTable, TransferDone, TransferFails, ListTables, ListFails, ReadGenerated,
     Check, LeaveReal, StepFails, NothingToDo, ReadSalt, CreateSalt, KeychainFails, Update, UpdateFails,
     Finish, MoveSwitch, SourceChanges, OtherReads, OtherWrites, vars
<1>3. \A t \in Tables : Overlooked(t) => Overlooked(t)'
  BY <1>1, <1>2, OverlookedStays DEF TypeOK
<1>4. CASE ListTables
  <2>1. UNCHANGED <<mode, source, moved, asked, copied, told>> /\ pc = "list" /\ pc' = "generated" /\ listing' = ScopeTables
    BY <1>4 DEF ListTables
  <2>2. copied = asked
    BY <2>1 DEF AllCopied
  <2>3. \A t \in copied : t \in ScopeTables \/ Overlooked(t)
    <3> SUFFICES ASSUME NEW t \in copied, t \notin ScopeTables PROVE Overlooked(t)
      OBVIOUS
    <3>1. mode = "schema" /\ t \notin First(Limit, source) /\ t \in Tables
      BY <1>1, <2>2 DEF ScopeTables, TypeOK
    <3>2. CASE t \notin source
      BY <3>1, <3>2, <2>2 DEF SchemaHas, Overlooked
    <3>3. CASE t \in source
      <4> DEFINE A == {u \in source : u < t}
                 B == {u \in source \cup moved : u < t}
      <4>1. Cardinality(A) >= Limit
        BY <1>1, <3>1, <3>3, BehindTheLimit DEF TypeOK
      <4>2. IsFiniteSet(B) /\ A \subseteq B
        BY <1>1, SizesAssumption, FS_Subset DEF TypeOK
      <4>3. Cardinality(A) <= Cardinality(B) /\ Cardinality(A) \in Nat /\ Cardinality(B) \in Nat
        BY <4>2, FS_Subset, FS_CardinalityType
      <4>4. Cardinality(B) >= Limit
        BY <4>1, <4>3, SizesAssumption
      <4>5. QED
        BY <3>1, <4>4 DEF Overlooked
    <3>4. QED
      BY <3>2, <3>3
  <2>4. \A t \in ScopeTables : t \in asked \/ (mode = "schema" /\ t \in moved)
    BY <1>1 DEF ScopeTables, First, SchemaHas, TypeOK
  <2>5. \A t \in copied : Overlooked(t) => Overlooked(t)'
    BY <1>1, <1>3 DEF TypeOK
  <2>6. SchemaHas' /\ AllCopied'
    BY <2>1, <2>2 DEF SchemaHas, AllCopied
  <2>7. ListingMisses' /\ ListingAdds'
    BY <2>1, <2>3, <2>4, <2>5 DEF ListingMisses, ListingAdds
  <2>8. QED
    BY <2>6, <2>7
<1>5. CASE SourceChanges
  <2>1. UNCHANGED <<mode, asked, copied, told, pc, listing>>
    BY <1>5 DEF SourceChanges
  <2>2. SchemaHas'
    BY <1>1, <1>5 DEF SourceChanges, SchemaHas, TypeOK
  <2>3. ListingMisses'
    BY <1>1, <1>3, <2>1 DEF ListingMisses, Listed, TypeOK
  <2>4. QED
    BY <1>2, <2>1, <2>2, <2>3 DEF AllCopied, ListingAdds, Listed
<1>6. CASE CopyTable
  <2>1. UNCHANGED <<mode, source, moved, asked, told, pc, listing>> /\ pc = "copy"
    BY <1>6 DEF CopyTable
  <2>2. ~Listed' /\ pc' # "list"
    BY <1>1, <2>1 DEF Listed, TypeOK
  <2>3. QED
    BY <2>1, <2>2 DEF SchemaHas, AllCopied, ListingMisses, ListingAdds
<1>7. ASSUME UNCHANGED <<mode, source, moved, asked, copied, listing>>, Listed' => Listed,
             pc' = "list" => copied = asked
      PROVE  SchemaHas' /\ AllCopied' /\ ListingMisses' /\ ListingAdds'
  <2>1. SchemaHas' /\ AllCopied' /\ ListingAdds'
    BY <1>7 DEF SchemaHas, AllCopied, ListingAdds
  <2>2. ListingMisses'
    BY <1>1, <1>3, <1>7 DEF ListingMisses, TypeOK
  <2>3. QED
    BY <2>1, <2>2
<1>8. CASE TransferDone BY <1>7, <1>8 DEF TransferDone, Listed
<1>9. CASE TransferFails BY <1>7, <1>9 DEF TransferFails, Listed
<1>10. CASE ListFails BY <1>7, <1>10 DEF ListFails, Listed
<1>11. CASE ReadGenerated BY <1>7, <1>11 DEF ReadGenerated, Listed
<1>12. CASE Check BY <1>7, <1>12 DEF Check, Listed
<1>13. CASE LeaveReal BY <1>7, <1>13 DEF LeaveReal, Listed
<1>14. CASE StepFails BY <1>7, <1>14 DEF StepFails, Listed
<1>15. CASE NothingToDo BY <1>7, <1>15 DEF NothingToDo, Listed
<1>16. CASE ReadSalt BY <1>7, <1>16 DEF ReadSalt, UseExisting, Listed
<1>17. CASE CreateSalt BY <1>7, <1>17 DEF CreateSalt, Listed
<1>18. CASE KeychainFails BY <1>7, <1>18 DEF KeychainFails, Listed
<1>19. CASE Update BY <1>7, <1>19 DEF Update, Listed
<1>20. CASE UpdateFails BY <1>7, <1>20 DEF UpdateFails, Listed
<1>21. CASE Finish BY <1>7, <1>21 DEF Finish, Listed
<1>22. CASE MoveSwitch BY <1>7, <1>22 DEF MoveSwitch, Listed, AllCopied
<1>23. CASE OtherReads BY <1>7, <1>23 DEF OtherReads, Listed, AllCopied
<1>24. CASE OtherWrites BY <1>7, <1>24 DEF OtherWrites, Listed, AllCopied
<1>25. CASE UNCHANGED vars BY <1>7, <1>25 DEF vars, Listed, AllCopied
<1>26. QED
  BY <1>4, <1>5, <1>6, <1>8, <1>9, <1>10, <1>11, <1>12, <1>13, <1>14, <1>15, <1>16, <1>17,
     <1>18, <1>19, <1>20, <1>21, <1>22, <1>23, <1>24, <1>25 DEF Next, RunStep

\* The loop over the listing.
LEMMA LoopStep ==
  Inv /\ [Next]_vars => Decided' /\ HeadDone' /\ Stopped' /\ OnlyScopeTreated'
<1> SUFFICES ASSUME Inv, [Next]_vars PROVE Decided' /\ HeadDone' /\ Stopped' /\ OnlyScopeTreated'
  OBVIOUS
<1> USE DEF Inv, Fail, Record, sourceVars, destVars, saltVars, logVars, loopVars, Decided, HeadDone,
        Stopped, OnlyScopeTreated
<1>1. TypeOK /\ TypeOK'
  BY TypeStep
<1>2. ASSUME pc \in {"next", "update"}, NEW t \in Tables, IsNext(t), t \in listing
      PROVE  t \in copied \/ (mode = "schema" /\ t \in moved)
  BY <1>2 DEF AllCopied, ListingAdds, Listed
<1>3. CASE CopyTable BY <1>1, <1>3 DEF CopyTable, TypeOK
<1>4. CASE TransferDone BY <1>1, <1>4 DEF TransferDone, TypeOK
<1>5. CASE TransferFails BY <1>1, <1>5 DEF TransferFails, TypeOK
<1>6. CASE ListTables BY <1>1, <1>6 DEF ListTables, TypeOK
<1>7. CASE ListFails BY <1>1, <1>7 DEF ListFails, TypeOK
<1>8. CASE ReadGenerated BY <1>1, <1>8 DEF ReadGenerated, TypeOK
<1>9. CASE Check BY <1>1, <1>9 DEF Check, TypeOK
<1>10. CASE LeaveReal BY <1>1, <1>10 DEF LeaveReal, IsNext, Named, TypeOK
<1>11. CASE StepFails BY <1>1, <1>11 DEF StepFails, IsNext, TypeOK
<1>12. CASE NothingToDo BY <1>1, <1>2, <1>12 DEF NothingToDo, IsNext, TypeOK
<1>13. CASE ReadSalt BY <1>1, <1>13 DEF ReadSalt, UseExisting, TypeOK
<1>14. CASE CreateSalt BY <1>1, <1>14 DEF CreateSalt, TypeOK
<1>15. CASE KeychainFails BY <1>1, <1>15 DEF KeychainFails, TypeOK
<1>16. CASE Update BY <1>1, <1>2, <1>16 DEF Update, IsNext, TypeOK
<1>17. CASE UpdateFails
  <2>1. PICK t \in Tables :
          /\ IsNext(t) /\ named' = named \cup {t}
          /\ \/ UNCHANGED dest
             \/ dest' = [dest EXCEPT ![t] = "treated"]
    BY <1>17 DEF UpdateFails
  <2>2. /\ pc = "update" /\ pc' = "end" /\ told' = "step failed"
        /\ UNCHANGED <<mode, moved, copied, decided, listing, todo>>
    BY <1>17 DEF UpdateFails
  <2>3. t \in todo /\ t \in listing /\ \A u \in todo : t <= u
    BY <2>1, <2>2 DEF IsNext
  <2>4. t \in copied \/ (mode = "schema" /\ t \in moved)
    BY <1>2, <2>1, <2>2, <2>3
  <2>5. Decided' /\ Stopped'
    BY <1>1, <2>1, <2>2, <2>3 DEF TypeOK
  <2>6. \A u \in Tables : dest'[u] = dest[u] \/ (u = t /\ dest'[u] = "treated")
    BY <1>1, <2>1 DEF TypeOK
  <2>7. listing' \subseteq Tables /\ UNCHANGED <<mode, moved, copied, listing, todo, decided>> /\ t \in named'
    BY <1>1, <2>1, <2>2 DEF TypeOK
  <2>8. HeadDone'
    BY <2>1, <2>6, <2>7
  <2>9. OnlyScopeTreated'
    BY <2>4, <2>6, <2>7
  <2>10. QED
    BY <2>5, <2>8, <2>9
<1>18. CASE Finish BY <1>1, <1>18 DEF Finish, TypeOK
<1>19. CASE MoveSwitch BY <1>1, <1>19 DEF MoveSwitch, TypeOK
<1>20. CASE SourceChanges BY <1>1, <1>20 DEF SourceChanges, TypeOK
<1>21. CASE OtherReads BY <1>1, <1>21 DEF OtherReads, TypeOK
<1>22. CASE OtherWrites BY <1>1, <1>22 DEF OtherWrites, TypeOK
<1>23. CASE UNCHANGED vars BY <1>1, <1>23 DEF vars, TypeOK
<1>24. QED
  BY <1>3, <1>4, <1>5, <1>6, <1>7, <1>8, <1>9, <1>10, <1>11, <1>12, <1>13, <1>14, <1>15,
     <1>16, <1>17, <1>18, <1>19, <1>20, <1>21, <1>22, <1>23 DEF Next, RunStep

\* The salt.
LEMMA SaltStep == Inv /\ [Next]_vars => OneSalt'
<1> SUFFICES ASSUME Inv, [Next]_vars PROVE OneSalt'
  OBVIOUS
<1> USE DEF Inv, Fail, Record, sourceVars, destVars, saltVars, logVars, loopVars, OneSalt
<1>1. TypeOK /\ TypeOK'
  BY TypeStep
<1>2. ASSUME UNCHANGED <<used, salt, draft, other>>, pc' = "update" => pc = "update", pc' = "salt" => pc = "salt"
      PROVE  OneSalt'
  BY <1>2
<1>3. CASE ReadSalt BY <1>1, <1>3 DEF ReadSalt, UseExisting, TypeOK
<1>4. CASE CreateSalt
  <2>1. other' # "created" => \A t \in Tables : used[t] = "none"
    BY <1>1, <1>4 DEF CreateSalt, TypeOK
  <2>2. QED
    BY <1>1, <1>4, <2>1 DEF CreateSalt
<1>5. CASE Update BY <1>1, <1>5 DEF Update, TypeOK
<1>6. CASE UpdateFails BY <1>1, <1>6 DEF UpdateFails, TypeOK
<1>7. CASE OtherReads BY <1>1, <1>7 DEF OtherReads, TypeOK
<1>8. CASE OtherWrites BY <1>8 DEF OtherWrites
<1>9. CASE CopyTable BY <1>2, <1>9 DEF CopyTable
<1>10. CASE TransferDone BY <1>2, <1>10 DEF TransferDone
<1>11. CASE TransferFails BY <1>2, <1>11 DEF TransferFails
<1>12. CASE ListTables BY <1>2, <1>12 DEF ListTables
<1>13. CASE ListFails BY <1>2, <1>13 DEF ListFails
<1>14. CASE ReadGenerated BY <1>2, <1>14 DEF ReadGenerated
<1>15. CASE Check BY <1>2, <1>15 DEF Check
<1>16. CASE LeaveReal BY <1>2, <1>16 DEF LeaveReal
<1>17. CASE StepFails BY <1>2, <1>17 DEF StepFails
<1>18. CASE NothingToDo BY <1>2, <1>18 DEF NothingToDo
<1>19. CASE KeychainFails BY <1>2, <1>19 DEF KeychainFails
<1>20. CASE Finish BY <1>2, <1>20 DEF Finish
<1>21. CASE MoveSwitch BY <1>2, <1>21 DEF MoveSwitch
<1>22. CASE SourceChanges BY <1>2, <1>22 DEF SourceChanges
<1>23. CASE UNCHANGED vars BY <1>2, <1>23 DEF vars
<1>24. QED
  BY <1>3, <1>4, <1>5, <1>6, <1>7, <1>8, <1>9, <1>10, <1>11, <1>12, <1>13, <1>14, <1>15,
     <1>16, <1>17, <1>18, <1>19, <1>20, <1>21, <1>22, <1>23 DEF Next, RunStep

LEMMA Invariant == Spec => []Inv
<1>1. Inv /\ [Next]_vars => Inv'
  BY TypeStep, ScopeStep, LoopStep, SaltStep DEF Inv
<1>2. QED
  BY InvInit, <1>1, PTL DEF Spec

(***************************************************************************)
(* What follows from it.                                                   *)
(***************************************************************************)
LEMMA NatOrder == \A a, b \in Nat : a <= b /\ b # a => b > a
OBVIOUS

\* A run recorded as a success leaves no copied table real without a word in the log, but
\* for those its listing missed (the loop of anonymize_step calls).
THEOREM SuccessAccounts == Spec => []SuccessAccountsForAll
<1>1. Inv => SuccessAccountsForAll
  BY DEF Inv, TypeOK, Decided, HeadDone, ListingMisses, Listed, SuccessAccountsForAll
<1>2. QED
  BY Invariant, <1>1, PTL

\* "Anonymization failed for <table>" names the table at which the real rows begin.
THEOREM FailureSaysWhere == Spec => []StopsWhereItSays
<1>1. Inv => StopsWhereItSays
  <2> SUFFICES ASSUME Inv, told = "step failed"
               PROVE  \E t \in named \cap todo :
                        \A u \in copied : dest[u] = "real" => u \in named \/ u > t \/ Overlooked(u)
    BY DEF StopsWhereItSays
  <2>1. PICK t \in named \cap todo : \A u \in todo : t <= u
    BY DEF Inv, Stopped
  <2>2. ASSUME NEW u \in copied, dest[u] = "real"
        PROVE  u \in named \/ u > t \/ Overlooked(u)
    <3>1. CASE u \notin listing
      BY <3>1 DEF Inv, ListingMisses, Listed
    <3>2. CASE u \in listing \ todo
      BY <2>2, <3>2 DEF Inv, HeadDone, Decided
    <3>3. CASE u \in todo
      <4>1. u \in Nat /\ t \in Nat
        BY <3>3, SizesAssumption DEF Inv, TypeOK
      <4>2. t <= u
        BY <2>1, <3>3
      <4>3. CASE u = t
        BY <2>1, <4>3
      <4>4. CASE u # t
        <5>1. u > t
          BY <4>1, <4>2, <4>4, NatOrder
        <5>2. QED
          BY <5>1
      <4>5. QED
        BY <4>3, <4>4
    <3>4. QED
      BY <3>1, <3>2, <3>3
  <2>3. QED
    BY <2>2
<1>2. QED
  BY Invariant, <1>1, PTL

\* Only tables that the run copied are rewritten, and those that came into the source
\* schema while it ran (_scope_tables_for_check reads the schema anew).
THEOREM ScopeIsKept == Spec => []OnlyScopeTreated
<1>1. Inv => OnlyScopeTreated
  BY DEF Inv
<1>2. QED
  BY Invariant, <1>1, PTL

\* One run, one salt: equal values stay equal across its tables (anonymization_salt).
THEOREM OneSaltForTheRun == Spec => []EqualStaysEqual
<1>1. Inv => EqualStaysEqual
  BY DEF Inv, TypeOK, OneSalt, EqualStaysEqual
<1>2. QED
  BY Invariant, <1>1, PTL
=============================================================================
