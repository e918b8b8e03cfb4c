------------------------- MODULE AnonymizeTableProofs -------------------------
(***************************************************************************)
(* What AnonymizeTable guarantees for every table, every set of rules and  *)
(* documents of any shape and depth.                                       *)
(***************************************************************************)
EXTENDS AnonymizeTable, TLAPS, WellFoundedInduction, FiniteSetTheorems

LEMMA LeastNumber ==
  ASSUME NEW T \in SUBSET Nat, T # {}
  PROVE  \E x \in T : \A y \in T : x <= y
<1> DEFINE Less == OpToRel(<, Nat)
<1>1. IsWellFoundedOn(Less, Nat)
  BY NatLessThanWellFounded
<1>2. ASSUME NEW x \in Nat, NEW y \in Nat, <<y, x>> \notin Less PROVE x <= y
  BY <1>2 DEF OpToRel
<1> HIDE DEF Less
<1>3. PICK x \in T : \A y \in T : <<y, x>> \notin Less
  BY <1>1, WFMin
<1>4. ASSUME NEW y \in T PROVE x <= y
  <2>1. <<y, x>> \notin Less /\ x \in Nat /\ y \in Nat
    BY <1>3
  <2>2. QED
    BY <2>1, <1>2
<1>5. QED
  BY <1>4

(***************************************************************************)
(* Paths.                                                                  *)
(***************************************************************************)
LEMMA PathFacts ==
  ASSUME NEW p \in Paths
  PROVE  /\ p \in Places /\ p \in Seq(Keys) /\ p # Whole
         /\ Len(p) \in Nat /\ Len(p) >= 1
         /\ AtOrAbove(Whole, p) /\ AtOrAbove(p, p)
<1>1. p \in Seq(Keys) /\ p # <<>>
  BY InputsAssumption DEF Whole
<1>2. Len(p) \in Nat /\ Len(p) # 0
  BY <1>1
<1>3. SubSeq(p, 1, 0) = <<>>
  BY <1>1
<1>4. QED
  BY <1>1, <1>2, <1>3 DEF Places, Whole, AtOrAbove, Above

LEMMA AboveChain ==
  ASSUME NEW p \in Paths, NEW q \in Paths, NEW z \in Paths, Above(z, q), Above(q, p)
  PROVE  Above(z, p)
<1>1. p \in Seq(Keys) /\ q \in Seq(Keys) /\ z \in Seq(Keys)
  BY PathFacts
<1>2. /\ Len(z) \in Nat /\ Len(q) \in Nat /\ Len(p) \in Nat /\ Len(z) < Len(q) /\ Len(q) < Len(p)
      /\ z = SubSeq(q, 1, Len(z)) /\ q = SubSeq(p, 1, Len(q))
  BY <1>1 DEF Above
<1>3. \A i \in 1 .. Len(z) : z[i] = q[i] /\ q[i] = p[i]
  BY <1>1, <1>2
<1>4. z = SubSeq(p, 1, Len(z))
  <2> DEFINE w == SubSeq(p, 1, Len(z))
  <2>1. w \in Seq(Keys) /\ Len(w) = Len(z) /\ \A i \in 1 .. Len(z) : w[i] = p[i]
    BY <1>1, <1>2
  <2>2. QED
    BY <1>1, <1>3, <2>1
<1>5. QED
  BY <1>2, <1>4 DEF Above

\* A document's place that the search does not reach lies in one it reports as the end of
\* its way.
LEMMA FoundOrReported ==
  ASSUME before \in Tables, NEW c \in Columns, NEW r \in Rows, NEW p \in Paths,
         before.cells[c][r][p] # "ABSENT", p \notin Found(c)
  PROVE  \E q \in Paths : Above(q, p) /\ {<<q, "key">>, <<q, "deep">>} \cap JsonReported(c) # {}
<1> DEFINE cell == before.cells[c][r]
<1>1. /\ WellFormed(cell) /\ MaxDepth \in Nat \ {0}
      /\ \A q \in Paths : \A n \in 1 .. Len(q) : SubSeq(q, 1, n) \in Paths
  BY InputsAssumption
<1>2. cell[Whole] = "OBJECT" /\ \A q \in Paths : Above(q, p) => cell[q] = "OBJECT"
  BY <1>1 DEF WellFormed
<1>3. r \in Documents(c) /\ "OBJECT" \in RootTypes(c)
  BY <1>2 DEF Documents, RootTypes
<1>4. cell[p] \in TypesAt(c, p) /\ \A q \in Paths : Above(q, p) => "OBJECT" \in TypesAt(c, q)
  BY <1>2, <1>3 DEF TypesAt
<1> DEFINE Stops == {q \in Paths : Above(q, p) /\ (LongKey(q) \/ Len(q) = MaxDepth)}
           Lengths == {Len(q) : q \in Stops}
<1>5. Len(p) > MaxDepth => SubSeq(p, 1, MaxDepth) \in Stops
  <2> SUFFICES ASSUME Len(p) > MaxDepth PROVE SubSeq(p, 1, MaxDepth) \in Stops
    OBVIOUS
  <2>1. p \in Seq(Keys) /\ Len(p) \in Nat /\ MaxDepth \in 1 .. Len(p)
    BY <1>1, PathFacts
  <2>2. Len(SubSeq(p, 1, MaxDepth)) = MaxDepth
    BY <2>1
  <2>3. QED
    BY <1>1, <2>1, <2>2 DEF Above
<1>6. Stops # {}
  <2>1. TypesAt(c, p) # {}
    BY <1>4
  <2>2. ~(Len(p) <= MaxDepth) \/ \E q \in Paths : Above(q, p) /\ LongKey(q)
    BY <1>3, <2>1 DEF Found
  <2>3. Len(p) \in Nat /\ MaxDepth \in Nat
    BY <1>1, PathFacts
  <2>4. CASE Len(p) > MaxDepth
    BY <1>5, <2>4
  <2>5. CASE \E q \in Paths : Above(q, p) /\ LongKey(q)
    BY <2>5
  <2>6. QED
    BY <2>2, <2>3, <2>4, <2>5
<1>7. Lengths \in SUBSET Nat /\ Lengths # {}
  BY <1>6, PathFacts
<1>8. PICK n \in Lengths : \A m \in Lengths : n <= m
  BY <1>7, LeastNumber
<1>9. PICK q \in Stops : n = Len(q)
  BY <1>8
<1>10. ASSUME NEW z \in Stops PROVE Len(q) <= Len(z)
  BY <1>8, <1>9
<1>11. Len(q) <= MaxDepth
  <2> SUFFICES ASSUME Len(q) > MaxDepth PROVE FALSE
    BY <1>1, PathFacts
  <2>1. p \in Seq(Keys) /\ Len(p) \in Nat /\ Len(q) \in Nat /\ MaxDepth \in Nat \ {0}
    BY <1>1, PathFacts
  <2>2. Len(q) < Len(p)
    BY <1>9 DEF Above
  <2>3. Len(p) > MaxDepth /\ MaxDepth \in 1 .. Len(p)
    BY <2>1, <2>2
  <2>4. Len(SubSeq(p, 1, MaxDepth)) = MaxDepth
    BY <2>1, <2>3
  <2>5. Len(q) <= Len(SubSeq(p, 1, MaxDepth))
    BY <1>5, <1>10, <2>3
  <2>6. QED
    BY <2>1, <2>4, <2>5
<1>12. \A z \in Paths : Above(z, q) => ~LongKey(z)
  <2> SUFFICES ASSUME NEW z \in Paths, Above(z, q), LongKey(z) PROVE FALSE
    OBVIOUS
  <2>1. z \in Stops
    BY AboveChain
  <2>2. Len(z) < Len(q) /\ Len(z) \in Nat /\ Len(q) \in Nat
    BY PathFacts DEF Above
  <2>3. QED
    BY <1>10, <2>1, <2>2
<1>13. q \in Found(c)
  BY <1>3, <1>4, <1>11, <1>12 DEF Found
<1>14. LongKey(q) => <<q, "key">> \in JsonReported(c)
  BY <1>13 DEF JsonReported
<1>15. ~LongKey(q) => <<q, "deep">> \in JsonReported(c)
  BY <1>4, <1>9, <1>13 DEF JsonReported, TooDeep
<1>16. QED
  BY <1>9, <1>14, <1>15

(***************************************************************************)
(* The UPDATE.                                                             *)
(***************************************************************************)
\* What is planned lies where a rule says.
TargetsRight ==
  \A t \in targets :
    \/ t[2] = Whole /\ Rewritten(t[1])
    \/ t[2] \in Paths /\ Searched(t[1]) /\ t[2] \in JsonTargets(t[1])

\* The rows of one column after the UPDATE.
LEMMA UpdatedColumn ==
  ASSUME TargetsRight, NEW c \in Columns, NEW r \in Rows
  PROVE  LET old == before.cells[c][r]
             new == Updated[c][r]
         IN \/ new = old /\ <<c, Whole>> \notin targets /\ TargetsIn(c) = {}
            \/ Rewritten(c) /\ <<c, Whole>> \in targets /\ new = NewText(c, old)
            \/ /\ Searched(c) /\ <<c, Whole>> \notin targets /\ TargetsIn(c) # {}
               /\ new = NewDocument(c, old)
<1>1. <<c, Whole>> \in targets => Rewritten(c)
  BY InputsAssumption DEF TargetsRight
<1>2. TargetsIn(c) # {} => Searched(c)
  BY InputsAssumption DEF TargetsRight, TargetsIn
<1>3. CASE <<c, Whole>> \in targets
  BY <1>1, <1>3 DEF Updated
<1>4. CASE <<c, Whole>> \notin targets /\ TargetsIn(c) # {}
  BY <1>2, <1>4 DEF Updated
<1>5. CASE <<c, Whole>> \notin targets /\ TargetsIn(c) = {}
  BY <1>5 DEF Updated
<1>6. QED
  BY <1>3, <1>4, <1>5

LEMMA OnlyFacts ==
  ASSUME NEW v \in TextStates \cup DocumentStates
  PROVE  /\ Only(v) \in Cell /\ Only(v)[Whole] = v
         /\ \A p \in Paths : Only(v)[p] = "ABSENT"
BY InputsAssumption DEF Only, Cell, Places, DocumentStates, TextStates

\* What becomes of one place of a document.
LEMMA DocumentPlace ==
  ASSUME NEW c \in Columns, NEW cell \in Cell, WellFormed(cell), NEW p \in Places
  PROVE  /\ NewDocument(c, cell) \in Cell
         /\ NewDocument(c, cell)[p] \in {cell[p], "FAKE", "ABSENT", "NULL"}
         /\ cell[p] = "ABSENT" => NewDocument(c, cell)[p] = "ABSENT"
         /\ p \in TargetsIn(c) => NewDocument(c, cell)[p] \in {"FAKE", "ABSENT"}
         /\ NewDocument(c, cell)[p] # cell[p] =>
              \/ \E q \in TargetsIn(c) : AtOrAbove(q, p)
              \/ /\ dialect = "postgres" /\ NewDocument(c, cell) = Only("NULL")
                 /\ \E q \in TargetsIn(c) : cell[q] \in {"ABSENT", "NULL"}
<1>1. cell[Whole] # "ABSENT" /\ \A q \in Paths : cell[q] # "ABSENT" => cell[Whole] = "OBJECT"
  BY DEF WellFormed
<1>2. p # Whole => p \in Paths
  BY DEF Places
<1>3. TargetsIn(c) \subseteq Paths /\ Whole \notin TargetsIn(c)
  BY InputsAssumption DEF TargetsIn
<1>4. CASE cell[Whole] \in {"NULL", "INVALID"}
  <2>1. NewDocument(c, cell) = cell
    BY <1>4 DEF NewDocument
  <2>2. p \in TargetsIn(c) => cell[p] = "ABSENT"
    BY <1>1, <1>3, <1>4
  <2>3. QED
    BY <2>1, <2>2
<1>5. CASE cell[Whole] \notin {"NULL", "INVALID"} /\ dialect = "postgres" /\ Missing(c, cell)
  <2>1. NewDocument(c, cell) = Only("NULL")
    BY <1>5 DEF NewDocument
  <2>2. \E q \in TargetsIn(c) : cell[q] \in {"ABSENT", "NULL"}
    BY <1>5 DEF Missing
  <2>3. p # Whole => Only("NULL")[p] = "ABSENT"
    BY <1>2, OnlyFacts DEF TextStates
  <2>4. Only("NULL") \in Cell /\ Only("NULL")[Whole] = "NULL"
    BY OnlyFacts DEF TextStates
  <2>5. QED
    BY <1>1, <1>2, <1>3, <1>5, <2>1, <2>2, <2>3, <2>4
<1>6. CASE cell[Whole] \notin {"NULL", "INVALID"} /\ ~(dialect = "postgres" /\ Missing(c, cell))
  <2> DEFINE there == {q \in TargetsIn(c) : cell[q] # "ABSENT"}
             new(x) == CASE \E q \in there : Above(q, x) -> "ABSENT"
                         [] x \in there /\ ~\E q \in there : Above(q, x) -> "FAKE"
                         [] OTHER -> cell[x]
  <2>1. NewDocument(c, cell) = Replaced(c, cell)
    BY <1>6 DEF NewDocument
  <2>2. Replaced(c, cell) = [x \in Places |-> new(x)]
    BY DEF Replaced
  <2>3. ASSUME NEW x \in Places
        PROVE  /\ new(x) \in {cell[x], "FAKE", "ABSENT"}
               /\ cell[x] = "ABSENT" => new(x) = "ABSENT"
               /\ x \in TargetsIn(c) => new(x) \in {"FAKE", "ABSENT"}
               /\ new(x) # cell[x] => \E q \in TargetsIn(c) : AtOrAbove(q, x)
    <3>1. CASE \E q \in there : Above(q, x)
      BY <3>1 DEF AtOrAbove
    <3>2. CASE x \in there /\ ~\E q \in there : Above(q, x)
      BY <3>2 DEF AtOrAbove
    <3>3. CASE x \notin there /\ ~\E q \in there : Above(q, x)
      BY <3>3
    <3>4. QED
      BY <3>1, <3>2, <3>3
  <2>4. \A x \in Places : new(x) \in TextStates \cup DocumentStates
    BY <2>3 DEF Cell, TextStates, DocumentStates
  <2> HIDE DEF new
  <2>5. Replaced(c, cell) \in Cell /\ Replaced(c, cell)[p] = new(p)
    BY <2>2, <2>4 DEF Cell
  <2>6. QED
    BY <2>1, <2>3, <2>5
<1>7. QED
  BY <1>4, <1>5, <1>6

LEMMA UpdatedType == before \in Tables /\ TargetsRight => Updated \in Cells
<1> SUFFICES ASSUME before \in Tables, TargetsRight PROVE Updated \in Cells
  OBVIOUS
<1>1. ASSUME NEW c \in Columns, NEW r \in Rows PROVE Updated[c][r] \in Cell
  <2>1. before.cells[c][r] \in Cell /\ WellFormed(before.cells[c][r])
    BY InputsAssumption DEF Table, Cells
  <2>2. NewDocument(c, before.cells[c][r]) \in Cell
    BY <2>1, DocumentPlace DEF Places
  <2>3. NewText(c, before.cells[c][r]) \in Cell
    BY <2>1, OnlyFacts DEF NewText, TextStates
  <2>4. QED
    BY <2>1, <2>2, <2>3, UpdatedColumn
<1> DEFINE cell(c, r) ==
      CASE <<c, Whole>> \in targets -> NewText(c, before.cells[c][r])
        [] <<c, Whole>> \notin targets /\ TargetsIn(c) # {} -> NewDocument(c, before.cells[c][r])
        [] OTHER -> before.cells[c][r]
<1>2. Updated = [c \in Columns |-> [r \in Rows |-> cell(c, r)]]
  BY DEF Updated
<1> HIDE DEF cell
<1>3. \A c \in Columns, r \in Rows : cell(c, r) \in Cell
  BY <1>1, <1>2
<1>4. QED
  BY <1>2, <1>3 DEF Cells

(***************************************************************************)
(* The inductive invariant: the plan covers the columns dealt with, and    *)
(* the cells are those of the copy or those of the UPDATE.                 *)
(***************************************************************************)
Covered ==
  /\ \A c \in Columns :
       /\ Rewritten(c) => <<c, Whole>> \in targets
       /\ Reported(c) => LeftAlone(c)
       /\ Searched(c) /\ c \notin todo =>
            \/ LeftAlone(c)
            \/ /\ {c} \X JsonTargets(c) \subseteq targets
               /\ {c} \X (JsonReported(c) \cup RowsReported(c)) \subseteq named

AnswerFits ==
  /\ pc # "returned" => cells = before.cells /\ ~lost
  /\ cells \in {before.cells, Updated}
  /\ told = "ok" =>
       \/ on /\ todo = {} /\ Covered /\ cells = Updated
       \/ ~on /\ targets = {} /\ named = Columns \X {<<Whole, "left">>} /\ cells = before.cells
  /\ told \in {"failed", "raised"} /\ ~lost => cells = before.cells
  /\ lost => told = "failed"
  /\ working => lost

IInv ==
  /\ TypeOK
  /\ before \in Tables /\ TargetsRight /\ AnswerFits
  /\ pc = "switch" => targets = {} /\ named = {}
  /\ pc = "search" => on /\ todo \subseteq {c \in Columns : Searched(c)} /\ Covered

\* A statement that rewrites nothing changes nothing.
LEMMA NothingUpdated ==
  ASSUME before \in Tables, targets = {}
  PROVE  Updated = before.cells
<1>1. before.cells \in [Columns -> [Rows -> Cell]]
  BY InputsAssumption DEF Table, Cells
<1>2. Updated = [c \in Columns |-> [r \in Rows |-> before.cells[c][r]]]
  BY DEF Updated, TargetsIn
<1>3. \A c \in Columns : [r \in Rows |-> before.cells[c][r]] = before.cells[c]
  BY <1>1
<1>4. QED
  BY <1>1, <1>2, <1>3

\* JSON targets and reports are places of the table.
LEMMA FoundPlaces ==
  ASSUME NEW c
  PROVE  /\ JsonTargets(c) \subseteq Paths
         /\ JsonReported(c) \cup RowsReported(c) \subseteq Places \X Reasons
<1>1. Found(c) \subseteq Paths /\ Found(c) \subseteq Places
  BY DEF Found, Places
<1>2. JsonReported(c) \subseteq Places \X Reasons
  BY <1>1 DEF JsonReported, Places, Reasons
<1>3. RowsReported(c) \subseteq Places \X Reasons
  BY DEF RowsReported, Places, Reasons
<1>4. QED
  BY <1>1, <1>2, <1>3 DEF JsonTargets

LEMMA InitInv == Init => IInv
<1> SUFFICES ASSUME Init PROVE IInv
  OBVIOUS
<1>1. before \in Table /\ before \in Tables /\ before.cells \in Cells
  BY InputsAssumption DEF Init, Table
<1>2. TypeOK
  BY <1>1 DEF Init, TypeOK
<1>3. QED
  BY <1>1, <1>2 DEF Init, IInv, TargetsRight, AnswerFits

\* The plan operators look at what does not change.
LEMMA PlanStable ==
  ASSUME UNCHANGED inputVars
  PROVE  /\ \A c : /\ Searched(c)' = Searched(c) /\ Rewritten(c)' = Rewritten(c)
                   /\ Reported(c)' = Reported(c)
                   /\ JsonTargets(c)' = JsonTargets(c) /\ JsonReported(c)' = JsonReported(c)
                   /\ RowsReported(c)' = RowsReported(c)
<1> USE DEF inputVars
<1>1. UNCHANGED <<dialect, rules, before>>
  OBVIOUS
<1>2. \A n : HasRule(n)' = HasRule(n) /\ RuleOf(n)' = RuleOf(n)
  BY <1>1 DEF HasRule, RuleOf, Matches
<1>3. \A c : /\ Searched(c)' = Searched(c) /\ Rewritten(c)' = Rewritten(c)
            /\ Reported(c)' = Reported(c)
  BY <1>1, <1>2 DEF Searched, Rewritten, Reported, HoldsJson
<1>4. \A c, p : /\ TypesAt(c, p)' = TypesAt(c, p) /\ RootTypes(c)' = RootTypes(c)
               /\ Unreadable(c)' = Unreadable(c) /\ LongKey(p)' = LongKey(p)
               /\ HasValueRule(p)' = HasValueRule(p)
  BY <1>1, <1>2 DEF TypesAt, RootTypes, Unreadable, Documents, LongKey, HasValueRule
<1>5. \A c : Found(c)' = Found(c)
  BY <1>4 DEF Found
<1>6. \A c : JsonTargets(c)' = JsonTargets(c)
  BY <1>4, <1>5 DEF JsonTargets, HasValueRule
<1>7. \A c : JsonReported(c)' = JsonReported(c)
  BY <1>4, <1>5 DEF JsonReported, TooDeep, NotStrings, HasValueRule
<1>8. \A c : RowsReported(c)' = RowsReported(c)
  BY <1>4 DEF RowsReported
<1>9. QED
  BY <1>3, <1>6, <1>7, <1>8

LEMMA UpdatedStable == UNCHANGED <<inputVars, targets>> => Updated' = Updated
<1> SUFFICES ASSUME UNCHANGED <<inputVars, targets>> PROVE Updated' = Updated
  OBVIOUS
<1>1. UNCHANGED <<dialect, rules, before, targets>>
  BY DEF inputVars
<1>2. \A n : RuleOf(n)' = RuleOf(n)
  BY <1>1 DEF RuleOf, Matches
<1>3. \A c : TargetsIn(c)' = TargetsIn(c)
  BY <1>1 DEF TargetsIn
<1>4. \A c, cell : /\ NewText(c, cell)' = NewText(c, cell)
                  /\ Replaced(c, cell)' = Replaced(c, cell)
                  /\ Missing(c, cell)' = Missing(c, cell)
  BY <1>2, <1>3 DEF NewText, Keeps, Replaced, Missing
<1>5. \A c, cell : NewDocument(c, cell)' = NewDocument(c, cell)
  BY <1>1, <1>4 DEF NewDocument
<1>6. QED
  BY <1>1, <1>3, <1>4, <1>5 DEF Updated

LEMMA ReadColumnsInv == IInv /\ ReadColumns => IInv'
<1> SUFFICES ASSUME IInv, ReadColumns PROVE IInv'
  OBVIOUS
<1> USE DEF IInv, ReadColumns
<1>1. UNCHANGED inputVars /\ UNCHANGED serverVars
  OBVIOUS
<1>2. \A c : /\ Searched(c)' = Searched(c) /\ Rewritten(c)' = Rewritten(c)
            /\ Reported(c)' = Reported(c)
            /\ JsonTargets(c)' = JsonTargets(c) /\ JsonReported(c)' = JsonReported(c)
            /\ RowsReported(c)' = RowsReported(c)
  BY <1>1, PlanStable
<1>3. TypeOK'
  BY <1>1 DEF TypeOK, inputVars, serverVars, Places, Reasons
<1>4. TargetsRight'
  BY <1>2 DEF TargetsRight
<1>5. AnswerFits'
  BY <1>1 DEF AnswerFits, inputVars, serverVars, TypeOK
<1>6. Covered'
  BY <1>2 DEF Covered, LeftAlone, Noted
<1>7. on' /\ pc' = "search" /\ before' \in Tables
  BY <1>1 DEF inputVars
<1>8. (todo \subseteq {c \in Columns : Searched(c)})'
  BY <1>2
<1>9. QED
  BY <1>3, <1>4, <1>5, <1>6, <1>7, <1>8

LEMMA SearchColumnInv == ASSUME NEW c \in Columns PROVE IInv /\ SearchColumn(c) => IInv'
<1> SUFFICES ASSUME IInv, SearchColumn(c) PROVE IInv'
  OBVIOUS
<1> USE DEF IInv, SearchColumn
<1>1. UNCHANGED inputVars /\ UNCHANGED serverVars
  OBVIOUS
<1>2. \A d : /\ Searched(d)' = Searched(d) /\ Rewritten(d)' = Rewritten(d)
            /\ Reported(d)' = Reported(d)
            /\ JsonTargets(d)' = JsonTargets(d) /\ JsonReported(d)' = JsonReported(d)
            /\ RowsReported(d)' = RowsReported(d)
  BY <1>1, PlanStable
<1>3. /\ JsonTargets(c) \subseteq Paths /\ Paths \subseteq Places
      /\ JsonReported(c) \cup RowsReported(c) \subseteq Places \X Reasons
  BY FoundPlaces DEF Places
<1>4. TypeOK'
  BY <1>1, <1>3 DEF TypeOK, inputVars, serverVars
<1>5. TargetsRight'
  <2> SUFFICES ASSUME NEW t \in targets'
               PROVE  \/ t[2] = Whole /\ Rewritten(t[1])
                      \/ t[2] \in Paths /\ Searched(t[1]) /\ t[2] \in JsonTargets(t[1])
    BY <1>2 DEF TargetsRight
  <2>1. CASE t \in targets
    BY <2>1 DEF TargetsRight
  <2>2. CASE t \in {c} \X JsonTargets(c)
    BY <2>2, <1>3
  <2>3. QED
    BY <2>1, <2>2
<1>6. AnswerFits'
  BY <1>1 DEF AnswerFits, inputVars, serverVars, TypeOK
<1>7. Covered'
  BY <1>2 DEF Covered, LeftAlone, Noted
<1>8. on' /\ before' \in Tables /\ (todo \subseteq {d \in Columns : Searched(d)})'
  BY <1>1, <1>2 DEF inputVars
<1>9. QED
  BY <1>4, <1>5, <1>6, <1>7, <1>8

LEMMA SkipColumnInv == ASSUME NEW c \in Columns PROVE IInv /\ SkipColumn(c) => IInv'
<1> SUFFICES ASSUME IInv, SkipColumn(c) PROVE IInv'
  OBVIOUS
<1> USE DEF IInv, SkipColumn
<1>1. UNCHANGED inputVars /\ UNCHANGED serverVars
  OBVIOUS
<1>2. \A d : /\ Searched(d)' = Searched(d) /\ Rewritten(d)' = Rewritten(d)
            /\ Reported(d)' = Reported(d)
            /\ JsonTargets(d)' = JsonTargets(d) /\ JsonReported(d)' = JsonReported(d)
            /\ RowsReported(d)' = RowsReported(d)
  BY <1>1, PlanStable
<1>3. TypeOK'
  BY <1>1 DEF TypeOK, inputVars, serverVars, Places, Reasons
<1>4. TargetsRight'
  BY <1>2 DEF TargetsRight
<1>5. AnswerFits'
  BY <1>1 DEF AnswerFits, inputVars, serverVars, TypeOK
<1>6. Covered'
  BY <1>2 DEF Covered, LeftAlone, Noted
<1>7. on' /\ before' \in Tables /\ (todo \subseteq {d \in Columns : Searched(d)})'
  BY <1>1, <1>2 DEF inputVars
<1>8. QED
  BY <1>3, <1>4, <1>5, <1>6, <1>7

\* The steps after the plan is made, and a stutter.
LEMMA OtherInv ==
  IInv /\ (SwitchedOff \/ NothingToDo \/ Update \/ Fail \/ LoseAnswer \/ NoSalt
           \/ ServerFinishes \/ UNCHANGED vars)
  => IInv'
<1> SUFFICES ASSUME IInv,
                    SwitchedOff \/ NothingToDo \/ Update \/ Fail \/ LoseAnswer \/ NoSalt
                    \/ ServerFinishes \/ UNCHANGED vars
             PROVE  IInv'
  OBVIOUS
<1> USE DEF IInv
<1>1. UNCHANGED inputVars /\ UNCHANGED <<todo, targets>>
  BY DEF SwitchedOff, NothingToDo, Update, Fail, LoseAnswer, NoSalt, ServerFinishes, vars,
     planVars
<1>2. /\ \A d : /\ Searched(d)' = Searched(d) /\ Rewritten(d)' = Rewritten(d)
               /\ Reported(d)' = Reported(d)
               /\ JsonTargets(d)' = JsonTargets(d) /\ JsonReported(d)' = JsonReported(d)
               /\ RowsReported(d)' = RowsReported(d)
      /\ Updated' = Updated
  BY <1>1, PlanStable, UpdatedStable
<1>3. Updated \in Cells
  BY UpdatedType
<1>4. TypeOK'
  <2> HIDE DEF Updated
  <2>1. named' = named \/ named' = Columns \X {<<Whole, "left">>}
    BY DEF SwitchedOff, NothingToDo, Update, Fail, LoseAnswer, NoSalt, ServerFinishes, vars,
       planVars
  <2>2. Columns \X {<<Whole, "left">>} \in SUBSET (Columns \X (Places \X Reasons))
    BY DEF Places, Reasons
  <2>3. named' \in SUBSET (Columns \X (Places \X Reasons))
    BY <2>1, <2>2 DEF TypeOK
  <2>4. QED
    BY <1>1, <1>3, <2>3 DEF TypeOK, inputVars, serverVars, planVars, vars, SwitchedOff,
       NothingToDo, Update, Fail, LoseAnswer, NoSalt, ServerFinishes, Return
<1>5. TargetsRight'
  BY <1>1, <1>2 DEF TargetsRight
<1>6. before' = before /\ on' = on /\ before' \in Tables
  BY <1>1 DEF inputVars
<1>7. named' = named => Covered' = Covered
  BY <1>1, <1>2 DEF Covered, LeftAlone, Noted
<1>8. AnswerFits'
  <2> HIDE DEF Covered, Updated
  <2>1. CASE SwitchedOff
    BY <2>1, <1>1, <1>6 DEF SwitchedOff, Return, AnswerFits, serverVars, TypeOK
  <2>2. CASE NothingToDo
    BY <2>2, <1>1, <1>2, <1>6, <1>7, NothingUpdated
       DEF NothingToDo, Return, AnswerFits, serverVars, planVars, TypeOK
  <2>3. CASE Update
    BY <2>3, <1>1, <1>2, <1>6, <1>7 DEF Update, Return, AnswerFits, planVars, TypeOK
  <2>4. CASE Fail \/ LoseAnswer \/ NoSalt
    BY <2>4, <1>1, <1>2, <1>6
       DEF Fail, LoseAnswer, NoSalt, Return, AnswerFits, serverVars, planVars, TypeOK
  <2>5. CASE ServerFinishes
    BY <2>5, <1>1, <1>2, <1>6 DEF ServerFinishes, AnswerFits, TypeOK, planVars
  <2>6. CASE UNCHANGED vars
    BY <2>6, <1>1, <1>2, <1>6, <1>7 DEF vars, AnswerFits, serverVars, planVars
  <2>7. QED
    BY <2>1, <2>2, <2>3, <2>4, <2>5, <2>6
<1>9. pc' = "switch" => targets' = {} /\ named' = {}
  BY DEF SwitchedOff, NothingToDo, Update, Fail, LoseAnswer, NoSalt, ServerFinishes, Return,
     vars, planVars, AnswerFits, TypeOK
<1>10. pc' = "search" => on' /\ (todo \subseteq {d \in Columns : Searched(d)})' /\ Covered'
  BY <1>1, <1>2, <1>6, <1>7
     DEF SwitchedOff, NothingToDo, Update, Fail, LoseAnswer, NoSalt, ServerFinishes, Return,
     vars, planVars, AnswerFits, TypeOK
<1>11. QED
  BY <1>4, <1>5, <1>6, <1>8, <1>9, <1>10

LEMMA NextInv == IInv /\ [Next]_vars => IInv'
BY ReadColumnsInv, SearchColumnInv, SkipColumnInv, OtherInv DEF Next

LEMMA Inductive == Spec => []IInv
BY InitInv, NextInv, PTL DEF Spec

\* Every variable keeps its type.
THEOREM TypeCorrect == Spec => []TypeOK
<1>1. IInv => TypeOK
  BY DEF IInv
<1>2. QED
  BY <1>1, Inductive, PTL

\* After "ok" a column that was not left alone has been dealt with by the plan.
LEMMA ColumnAccounted ==
  ASSUME IInv, told = "ok", NEW c \in Columns, ~LeftAlone(c)
  PROVE  /\ cells = Updated /\ before \in Tables /\ TargetsRight /\ ~Reported(c)
         /\ Rewritten(c) => <<c, Whole>> \in targets
         /\ Searched(c) => /\ {c} \X JsonTargets(c) \subseteq targets
                           /\ {c} \X (JsonReported(c) \cup RowsReported(c)) \subseteq named
<1>1. ~(named = Columns \X {<<Whole, "left">>})
  BY DEF LeftAlone, Noted
<1>2. cells = Updated /\ todo = {} /\ Covered /\ before \in Tables /\ TargetsRight
  BY <1>1 DEF IInv, AnswerFits
<1>3. QED
  BY <1>2 DEF Covered

\* What a document holds where the log does not say that it was not read has been found.
LEMMA PlaceFound ==
  ASSUME IInv, told = "ok", NEW c \in Columns, NEW r \in Rows, NEW p \in Paths, Searched(c),
         ~LeftAlone(c), ~NotReached(c, p), before.cells[c][r][p] # "ABSENT"
  PROVE  /\ p \in Found(c) /\ ~LongKey(p)
         /\ before.cells[c][r][p] \in TypesAt(c, p)
<1>1. before \in Tables /\ {c} \X JsonReported(c) \subseteq named
  BY ColumnAccounted
<1>2. /\ \A q \in Paths : Above(q, p) => {<<q, "key">>, <<q, "deep">>} \cap JsonReported(c) = {}
      /\ <<p, "key">> \notin JsonReported(c)
  BY <1>1, PathFacts DEF NotReached, Noted, Places, AtOrAbove
<1>3. p \in Found(c)
  BY <1>1, <1>2, FoundOrReported
<1>4. ~LongKey(p)
  BY <1>2, <1>3 DEF JsonReported
<1>5. WellFormed(before.cells[c][r])
  BY <1>1, InputsAssumption
<1>6. before.cells[c][r][p] \in TypesAt(c, p)
  BY <1>5 DEF WellFormed, TypesAt, Documents
<1>7. QED
  BY <1>3, <1>4, <1>6

\* What a place of a searched document holds after the UPDATE.
LEMMA SearchedPlace ==
  ASSUME IInv, told = "ok", NEW c \in Columns, NEW r \in Rows, NEW p \in Places, Searched(c),
         ~LeftAlone(c)
  PROVE  /\ before.cells[c][r] \in Cell /\ WellFormed(before.cells[c][r])
         /\ cells[c][r][p] \in {before.cells[c][r][p], "FAKE", "ABSENT", "NULL"}
         /\ p \in TargetsIn(c) => cells[c][r][p] \in {"FAKE", "ABSENT"}
<1>1. cells = Updated /\ before \in Tables /\ TargetsRight /\ ~Rewritten(c)
  BY ColumnAccounted DEF Searched, Rewritten
<1>2. before.cells[c][r] \in Cell /\ WellFormed(before.cells[c][r])
  BY <1>1, InputsAssumption DEF Table, Cells
<1>3. \/ cells[c][r] = before.cells[c][r] /\ TargetsIn(c) = {}
      \/ cells[c][r] = NewDocument(c, before.cells[c][r])
  BY <1>1, UpdatedColumn
<1>4. QED
  BY <1>2, <1>3, DocumentPlace

\* RealIsNamed for every table, set of rules and shape of documents: after "ok" no value of a
\* column a rule or its name speaks for, and none under a key with a rule, is real without
\* the log saying why.
THEOREM NothingRealInSilence == Spec => []RealIsNamed
<1>1. IInv => RealIsNamed
  <2> SUFFICES ASSUME IInv, told = "ok", NEW c \in Columns, NEW r \in Rows, NEW p \in Places,
                      Meant(c, p), ~LeftAlone(c), ~NotReached(c, p)
               PROVE  /\ Real(cells[c][r][p]) =>
                           p = Whole /\ cells[c][r][p] = "KEPT" /\ RuleOf(c).exception
                      /\ p # Whole /\ cells[c][r][p] = "NUMBER" =>
                           \/ Noted(c, p, "type") \/ Noted(c, p, "array")
                           \/ \E s \in Rows : before.cells[c][s][p] = "OBJECT"
    BY DEF RealIsNamed
  <2> DEFINE old == before.cells[c][r]
  <2>1. CASE p = Whole
    <3>1. ~Searched(c) /\ (HasRule(c) \/ c \in Personal)
      BY <2>1 DEF Meant
    <3>2. Rewritten(c)
      BY <3>1, ColumnAccounted DEF Reported
    <3>3. cells[c][r] = NewText(c, old)
      BY <3>1, <3>2, ColumnAccounted, UpdatedColumn
    <3>4. Only("FAKE")[Whole] = "FAKE"
      BY OnlyFacts DEF TextStates
    <3>5. QED
      BY <2>1, <3>3, <3>4 DEF NewText, Keeps, Real
  <2>2. CASE p \in Paths
    <3>1. Searched(c) /\ HasValueRule(Last(p)) /\ p # Whole
      BY <2>2, PathFacts DEF Meant
    <3>2. /\ cells[c][r][p] \in {old[p], "FAKE", "ABSENT", "NULL"}
          /\ p \in TargetsIn(c) => cells[c][r][p] \in {"FAKE", "ABSENT"}
          /\ old[p] \in {"ABSENT", "NULL", "NUMBER", "STRING", "ARRAY", "OBJECT"}
      BY <2>2, <3>1, SearchedPlace DEF WellFormed
    <3>3. /\ {c} \X JsonTargets(c) \subseteq targets /\ {c} \X JsonReported(c) \subseteq named
      BY <3>1, ColumnAccounted
    <3>4. "STRING" \in TypesAt(c, p) /\ p \in Found(c) /\ ~LongKey(p) => p \in TargetsIn(c)
      BY <2>2, <3>1, <3>3 DEF JsonTargets, TargetsIn
    <3>5. ~Real(cells[c][r][p])
      <4> SUFFICES ASSUME Real(cells[c][r][p]) PROVE FALSE
        OBVIOUS
      <4>1. old[p] = "STRING" /\ p \notin TargetsIn(c)
        BY <3>2 DEF Real
      <4>2. QED
        BY <2>2, <3>1, <3>4, <4>1, PlaceFound
    <3>6. ASSUME cells[c][r][p] = "NUMBER"
          PROVE  \/ Noted(c, p, "type") \/ Noted(c, p, "array")
                 \/ \E s \in Rows : before.cells[c][s][p] = "OBJECT"
      <4>1. old[p] = "NUMBER" /\ p \notin TargetsIn(c)
        BY <3>2, <3>6
      <4>2. p \in Found(c) /\ ~LongKey(p) /\ "STRING" \notin TypesAt(c, p)
        BY <2>2, <3>1, <3>4, <4>1, PlaceFound
      <4>3. CASE "ARRAY" \in TypesAt(c, p)
        <5>1. <<p, "array">> \in JsonReported(c)
          BY <4>2, <4>3 DEF JsonReported
        <5>2. QED
          BY <3>3, <5>1 DEF Noted
      <4>4. CASE "OBJECT" \in TypesAt(c, p)
        BY <4>4 DEF TypesAt, Documents
      <4>5. CASE TypesAt(c, p) \cap {"STRING", "OBJECT", "ARRAY"} = {}
        <5>1. <<p, "type">> \in JsonReported(c)
          BY <3>1, <4>2, <4>5 DEF JsonReported, NotStrings
        <5>2. QED
          BY <3>3, <5>1 DEF Noted
      <4>6. QED
        BY <4>2, <4>3, <4>4, <4>5
    <3>7. QED
      BY <3>5, <3>6
  <2>3. QED
    BY <2>1, <2>2 DEF Places
<1>2. QED
  BY <1>1, Inductive, PTL

\* UnsearchedIsNamed for every table and shape of documents: rows that are not JSON, arrays
\* and what lies too deep are named for what they are, and documents that are no objects
\* where no row holds one.
THEOREM BlindSpotsAreNamed == Spec => []UnsearchedIsNamed
<1>1. IInv => UnsearchedIsNamed
  <2> SUFFICES ASSUME IInv, told = "ok", NEW c \in Columns, NEW r \in Rows, Searched(c),
                      ~LeftAlone(c)
               PROVE
        /\ cells[c][r][Whole] = "INVALID" => Noted(c, Whole, "invalid")
        /\ cells[c][r][Whole] \in {"ARRAY", "NUMBER", "STRING"} =>
             Noted(c, Whole, "root") \/ \E s \in Rows : before.cells[c][s][Whole] = "OBJECT"
        /\ \A p \in Paths : ~NotReached(c, p) =>
             /\ cells[c][r][p] = "ARRAY" => Noted(c, p, "array")
             /\ cells[c][r][p] = "OBJECT" => Len(p) < MaxDepth \/ Noted(c, p, "deep")
    BY DEF UnsearchedIsNamed
  <2> DEFINE old == before.cells[c][r]
  <2>1. {c} \X (JsonReported(c) \cup RowsReported(c)) \subseteq named
    BY ColumnAccounted
  <2>2. \A p \in Places : cells[c][r][p] \in {old[p], "FAKE", "ABSENT", "NULL"}
    BY SearchedPlace
  <2>3. Whole \in Places
    BY DEF Places
  <2>4. ASSUME cells[c][r][Whole] = "INVALID" PROVE Noted(c, Whole, "invalid")
    <3>1. old[Whole] = "INVALID"
      BY <2>2, <2>3, <2>4
    <3>2. <<Whole, "invalid">> \in RowsReported(c)
      BY <3>1 DEF RowsReported, Unreadable
    <3>3. QED
      BY <2>1, <3>2 DEF Noted
  <2>5. ASSUME cells[c][r][Whole] \in {"ARRAY", "NUMBER", "STRING"}
        PROVE  Noted(c, Whole, "root") \/ \E s \in Rows : before.cells[c][s][Whole] = "OBJECT"
    <3>1. old[Whole] \in {"ARRAY", "NUMBER", "STRING"}
      BY <2>2, <2>3, <2>5
    <3>2. old[Whole] \in RootTypes(c)
      BY <3>1 DEF RootTypes, Documents
    <3>3. CASE "OBJECT" \in RootTypes(c)
      BY <3>3 DEF RootTypes, Documents
    <3>4. CASE "OBJECT" \notin RootTypes(c)
      <4>1. <<Whole, "root">> \in JsonReported(c)
        BY <3>2, <3>4 DEF JsonReported
      <4>2. QED
        BY <2>1, <4>1 DEF Noted
    <3>5. QED
      BY <3>3, <3>4
  <2>6. ASSUME NEW p \in Paths, ~NotReached(c, p)
        PROVE  /\ cells[c][r][p] = "ARRAY" => Noted(c, p, "array")
               /\ cells[c][r][p] = "OBJECT" => Len(p) < MaxDepth \/ Noted(c, p, "deep")
    <3>1. p \in Places /\ cells[c][r][p] \in {old[p], "FAKE", "ABSENT", "NULL"}
      BY <2>2 DEF Places
    <3>2. old[p] # "ABSENT" => p \in Found(c) /\ ~LongKey(p) /\ old[p] \in TypesAt(c, p)
      BY <2>6, PlaceFound
    <3>3. ASSUME cells[c][r][p] = "ARRAY" PROVE Noted(c, p, "array")
      <4>1. <<p, "array">> \in JsonReported(c)
        BY <3>1, <3>2, <3>3 DEF JsonReported
      <4>2. QED
        BY <2>1, <4>1 DEF Noted
    <3>4. ASSUME cells[c][r][p] = "OBJECT", ~(Len(p) < MaxDepth) PROVE Noted(c, p, "deep")
      <4>1. p \in Found(c) /\ ~LongKey(p) /\ "OBJECT" \in TypesAt(c, p)
        BY <3>1, <3>2, <3>4
      <4>2. Len(p) = MaxDepth
        <5>1. Len(p) \in Nat /\ MaxDepth \in Nat /\ Len(p) <= MaxDepth
          BY <4>1, PathFacts, InputsAssumption DEF Found
        <5>2. QED
          BY <3>4, <5>1
      <4>3. <<p, "deep">> \in JsonReported(c)
        BY <4>1, <4>2 DEF JsonReported, TooDeep
      <4>4. QED
        BY <2>1, <4>3 DEF Noted
    <3>5. QED
      BY <3>3, <3>4
  <2>7. QED
    BY <2>4, <2>5, <2>6
<1>2. QED
  BY <1>1, Inductive, PTL

\* OnlyPlannedChanges for every table: the UPDATE changes what its plan says, at any moment
\* and whatever becomes of its answer.
THEOREM ChangesArePlanned == Spec => []OnlyPlannedChanges
<1>1. IInv => OnlyPlannedChanges
  <2> SUFFICES ASSUME IInv, NEW c \in Columns, NEW r \in Rows
               PROVE  LET old == before.cells[c][r]
                          new == cells[c][r]
                      IN /\ \A p \in Places : old[p] = "ABSENT" => new[p] = "ABSENT"
                         /\ Rewritten(c) /\ Keeps(c, old[Whole]) => new = old
                         /\ ~Rewritten(c) /\ ~Searched(c) => new = old
                         /\ Searched(c) =>
                              \/ \A p \in Places : new[p] # old[p] =>
                                   \E q \in Paths : AtOrAbove(q, p) /\ InSomeRow(c, q)
                              \/ /\ dialect = "postgres" /\ new = Only("NULL")
                                 /\ \E q \in Paths :
                                      InSomeRow(c, q) /\ old[q] \in {"ABSENT", "NULL"}
    BY DEF OnlyPlannedChanges
  <2> DEFINE old == before.cells[c][r]
             new == cells[c][r]
  <2>1. before \in Tables /\ TargetsRight /\ old \in Cell /\ WellFormed(old)
    BY InputsAssumption DEF IInv, Table, Cells
  <2>2. cells = before.cells \/ cells = Updated
    BY DEF IInv, AnswerFits
  <2>3. \A q \in TargetsIn(c) : q \in Paths /\ InSomeRow(c, q)
    <3> SUFFICES ASSUME NEW q \in TargetsIn(c) PROVE q \in Paths /\ InSomeRow(c, q)
      OBVIOUS
    <3>1. q \in Paths /\ q # Whole /\ Searched(c) /\ q \in JsonTargets(c)
      BY <2>1, PathFacts DEF TargetsIn, TargetsRight
    <3>2. HasValueRule(Last(q)) /\ "STRING" \in TypesAt(c, q)
      BY <3>1 DEF JsonTargets
    <3>3. QED
      BY <3>1, <3>2 DEF TypesAt, Documents, InSomeRow
  <2>4. CASE new = old
    BY <2>4
  <2>5. CASE new = NewText(c, old) /\ Rewritten(c)
    <3>1. old[Whole] # "ABSENT" /\ ~Searched(c)
      BY <2>1, <2>5 DEF WellFormed, Searched, Rewritten
    <3>2. \A q \in Paths : Only("FAKE")[q] = "ABSENT"
      BY OnlyFacts DEF TextStates
    <3>3. QED
      BY <2>5, <3>1, <3>2 DEF NewText, Places
  <2>6. CASE new = NewDocument(c, old) /\ Searched(c)
    <3>1. ~Rewritten(c)
      BY <2>6 DEF Searched, Rewritten
    <3>2. ASSUME NEW p \in Places
          PROVE  /\ old[p] = "ABSENT" => new[p] = "ABSENT"
                 /\ new[p] # old[p] =>
                      \/ \E q \in Paths : AtOrAbove(q, p) /\ InSomeRow(c, q)
                      \/ /\ dialect = "postgres" /\ new = Only("NULL")
                         /\ \E q \in Paths : InSomeRow(c, q) /\ old[q] \in {"ABSENT", "NULL"}
      <4>1. /\ old[p] = "ABSENT" => new[p] = "ABSENT"
            /\ new[p] # old[p] =>
                 \/ \E q \in TargetsIn(c) : AtOrAbove(q, p)
                 \/ /\ dialect = "postgres" /\ new = Only("NULL")
                    /\ \E q \in TargetsIn(c) : old[q] \in {"ABSENT", "NULL"}
        BY <2>1, <2>6, DocumentPlace
      <4>2. QED
        BY <2>3, <4>1
    <3>3. QED
      BY <2>6, <3>1, <3>2
  <2>7. QED
    BY <2>1, <2>2, <2>4, <2>5, <2>6, UpdatedColumn
<1>2. QED
  BY <1>1, Inductive, PTL

\* AnswerIsTrue: "ok" means the plan was carried out, anything else that nothing was.
THEOREM AnswersAreTrue == Spec => []AnswerIsTrue
<1>1. IInv => AnswerIsTrue
  <2> SUFFICES ASSUME IInv, told # "pending", ~lost
               PROVE  IF told = "ok"
                      THEN \A t \in targets, r \in Rows :
                             cells[t[1]][r][t[2]] \notin {"REAL", "STRING"}
                      ELSE cells = before.cells
    BY DEF AnswerIsTrue
  <2>1. CASE told = "ok"
    <3> SUFFICES ASSUME NEW t \in targets, NEW r \in Rows
                 PROVE  cells[t[1]][r][t[2]] \notin {"REAL", "STRING"}
      BY <2>1
    <3>1. PICK c \in Columns, p \in Places : t = <<c, p>>
      BY DEF IInv, TypeOK
    <3> DEFINE old == before.cells[c][r]
    <3>2. /\ before \in Tables /\ TargetsRight /\ old \in Cell /\ WellFormed(old)
          /\ cells = Updated
      BY <2>1, InputsAssumption DEF IInv, Table, Cells, AnswerFits
    <3>3. CASE p = Whole
      <4>1. cells[c][r] = NewText(c, old)
        BY <3>1, <3>2, <3>3, UpdatedColumn
      <4>2. Only("FAKE")[Whole] = "FAKE"
        BY OnlyFacts DEF TextStates
      <4>3. QED
        BY <3>1, <3>3, <4>1, <4>2 DEF NewText, Keeps
    <3>4. CASE p # Whole
      <4>1. p \in TargetsIn(c)
        BY <3>1, <3>4 DEF TargetsIn, Places
      <4>2. Searched(c) /\ ~Rewritten(c)
        BY <3>1, <3>2, <3>4 DEF TargetsRight, Searched, Rewritten
      <4>3. cells[c][r] = NewDocument(c, old)
        BY <3>2, <4>1, <4>2, UpdatedColumn
      <4>4. QED
        BY <3>1, <3>2, <4>1, <4>3, DocumentPlace
    <3>5. QED
      BY <3>3, <3>4
  <2>2. CASE told # "ok"
    BY <2>2 DEF IInv, AnswerFits, TypeOK
  <2>3. QED
    BY <2>1, <2>2
<1>2. QED
  BY <1>1, Inductive, PTL

(***************************************************************************)
(* The parameters of the UPDATE.  Counting the tokens of a kind:           *)
(***************************************************************************)
LEMMA CountType ==
  ASSUME NEW s, NEW kind, NEW i \in Nat
  PROVE  /\ IsFiniteSet({j \in 1 .. i : s[j].kind = kind})
         /\ Count(s, kind, i) \in Nat
<1>1. IsFiniteSet(1 .. i)
  BY FS_Interval
<1>2. IsFiniteSet({j \in 1 .. i : s[j].kind = kind})
  BY <1>1, FS_Subset
<1>3. QED
  BY <1>2, FS_CardinalityType DEF Count

LEMMA CountGrows ==
  ASSUME NEW s, NEW kind, NEW i \in Nat, NEW k \in Nat, i <= k
  PROVE  Count(s, kind, i) <= Count(s, kind, k)
<1> DEFINE A == {j \in 1 .. i : s[j].kind = kind}
           B == {j \in 1 .. k : s[j].kind = kind}
<1>1. A \in SUBSET B
  OBVIOUS
<1>2. IsFiniteSet(B)
  BY CountType
<1>3. Cardinality(A) <= Cardinality(B)
  BY <1>1, <1>2, FS_Subset
<1>4. QED
  BY <1>3 DEF Count

LEMMA CountPositive ==
  ASSUME NEW s, NEW kind, NEW i \in Nat \ {0}, s[i].kind = kind
  PROVE  Count(s, kind, i) >= 1
<1> DEFINE A == {j \in 1 .. i : s[j].kind = kind}
<1>1. A # {} /\ IsFiniteSet(A)
  BY CountType
<1>2. Cardinality(A) # 0
  <2> HIDE DEF A
  <2>1. QED
    BY <1>1, FS_EmptySet
<1>3. Count(s, kind, i) # 0 /\ Count(s, kind, i) \in Nat
  BY <1>2, CountType DEF Count
<1>4. QED
  BY <1>3

\* Behind another text the tokens go on counting.
LEMMA CountConcat ==
  ASSUME NEW X, NEW s \in Seq(X), NEW u \in Seq(X), NEW kind
  PROVE  /\ \A i \in 0 .. Len(s) : Count(s \o u, kind, i) = Count(s, kind, i)
         /\ \A i \in 0 .. Len(u) :
              Count(s \o u, kind, Len(s) + i) = Count(s, kind, Len(s)) + Count(u, kind, i)
<1>1. ASSUME NEW i \in 0 .. Len(s) PROVE Count(s \o u, kind, i) = Count(s, kind, i)
  <2>1. {j \in 1 .. i : (s \o u)[j].kind = kind} = {j \in 1 .. i : s[j].kind = kind}
    OBVIOUS
  <2>2. QED
    BY <2>1 DEF Count
<1>2. ASSUME NEW i \in 0 .. Len(u)
      PROVE  Count(s \o u, kind, Len(s) + i) = Count(s, kind, Len(s)) + Count(u, kind, i)
  <2> DEFINE n == Len(s)
             A == {j \in 1 .. n : s[j].kind = kind}
             U == {j \in 1 .. i : u[j].kind = kind}
             B == {n + j : j \in U}
             f == [j \in U |-> n + j]
  <2>1. n \in Nat /\ i \in Nat
    OBVIOUS
  <2>2. {j \in 1 .. n + i : (s \o u)[j].kind = kind} = A \cup B
    <3>1. ASSUME NEW j \in 1 .. n + i PROVE (s \o u)[j].kind = kind <=> j \in A \cup B
      <4>1. CASE j <= n
        BY <4>1
      <4>2. CASE j > n
        <5>1. (s \o u)[j] = u[j - n] /\ j - n \in 1 .. i
          BY <4>2
        <5>2. j \in B <=> j - n \in U
          BY <4>2
        <5>3. QED
          BY <4>2, <5>1, <5>2
      <4>3. QED
        BY <4>1, <4>2
    <3>2. A \cup B \subseteq 1 .. n + i
      OBVIOUS
    <3>3. QED
      BY <3>1, <3>2
  <2>3. IsFiniteSet(A) /\ IsFiniteSet(U)
    BY <2>1, CountType
  <2>4. f \in Bijection(U, B)
    <3>1. f \in [U -> B]
      OBVIOUS
    <3>2. \A a, b \in U : f[a] = f[b] => a = b
      BY <2>1
    <3>3. \A b \in B : \E a \in U : f[a] = b
      OBVIOUS
    <3>4. QED
      BY <3>1, <3>2, <3>3 DEF Bijection, Injection, Surjection, IsInjective
  <2>5. IsFiniteSet(B) /\ Cardinality(B) = Cardinality(U)
    <3>1. ExistsBijection(U, B)
      BY <2>4 DEF ExistsBijection
    <3>2. QED
      BY <2>3, <3>1, FS_Bijection
  <2>6. A \cap B = {}
    BY <2>1
  <2>7. Cardinality(A \cup B) = Cardinality(A) + Cardinality(B)
    <3>1. Cardinality(A) \in Nat /\ Cardinality(B) \in Nat
      BY <2>3, <2>5, FS_CardinalityType
    <3>2. Cardinality(A \cup B) = Cardinality(A) + Cardinality(B) - Cardinality(A \cap B)
      BY <2>3, <2>5, FS_Union
    <3>3. Cardinality(A \cap B) = 0
      BY <2>6, FS_EmptySet
    <3>4. QED
      BY <3>1, <3>2, <3>3
  <2>8. QED
    BY <2>2, <2>5, <2>7 DEF Count
<1>3. QED
  BY <1>1, <1>2

(***************************************************************************)
(* A list has the values of one kind when the n-th token of that kind is   *)
(* made for its n-th value.  Texts and lists that match can be put one     *)
(* behind the other.                                                       *)
(***************************************************************************)
Matched(s, kind, list) ==
  /\ Count(s, kind, Len(s)) = Len(list)
  /\ \A i \in 1 .. Len(s) :
       s[i].kind = kind =>
         Count(s, kind, i) \in 1 .. Len(list) /\ list[Count(s, kind, i)] = s[i].of

LEMMA MatchedConcat ==
  ASSUME NEW X, NEW s \in Seq(X), NEW u \in Seq(X), NEW kind,
         NEW Y, NEW l \in Seq(Y), NEW m \in Seq(Y),
         Matched(s, kind, l), Matched(u, kind, m)
  PROVE  Matched(s \o u, kind, l \o m)
<1>1. /\ \A i \in 0 .. Len(s) : Count(s \o u, kind, i) = Count(s, kind, i)
      /\ \A i \in 0 .. Len(u) :
           Count(s \o u, kind, Len(s) + i) = Len(l) + Count(u, kind, i)
  BY CountConcat DEF Matched
<1>2. Count(s \o u, kind, Len(s \o u)) = Len(l \o m)
  <2>1. Len(s \o u) = Len(s) + Len(u) /\ Len(u) \in 0 .. Len(u) /\ Len(l \o m) = Len(l) + Len(m)
    OBVIOUS
  <2>2. Count(s \o u, kind, Len(s) + Len(u)) = Len(l) + Count(u, kind, Len(u))
    BY <1>1, <2>1
  <2>3. QED
    BY <2>1, <2>2 DEF Matched
<1>3. ASSUME NEW i \in 1 .. Len(s \o u), (s \o u)[i].kind = kind
      PROVE  LET n == Count(s \o u, kind, i)
             IN n \in 1 .. Len(l \o m) /\ (l \o m)[n] = (s \o u)[i].of
  <2>1. CASE i <= Len(s)
    <3>1. (s \o u)[i] = s[i] /\ Count(s \o u, kind, i) = Count(s, kind, i)
      BY <1>1, <2>1
    <3>2. Count(s, kind, i) \in 1 .. Len(l) /\ l[Count(s, kind, i)] = s[i].of
      BY <1>3, <2>1, <3>1 DEF Matched
    <3>3. QED
      BY <3>1, <3>2
  <2>2. CASE i > Len(s)
    <3> DEFINE j == i - Len(s)
    <3>1. j \in 1 .. Len(u) /\ i = Len(s) + j /\ (s \o u)[i] = u[j]
      BY <2>2
    <3>2. Count(s \o u, kind, i) = Len(l) + Count(u, kind, j)
      BY <1>1, <3>1
    <3>3. Count(u, kind, j) \in 1 .. Len(m) /\ m[Count(u, kind, j)] = u[j].of
      BY <1>3, <3>1 DEF Matched
    <3> HIDE DEF j
    <3>4. QED
      BY <3>1, <3>2, <3>3
  <2>3. QED
    BY <2>1, <2>2
<1>4. QED
  BY <1>2, <1>3 DEF Matched

\* Tokens that are all made for one target match as often that target.
LEMMA MatchedOne ==
  ASSUME NEW X, NEW s \in Seq(X), NEW kind, NEW t, \A i \in 1 .. Len(s) : s[i].of = t
  PROVE  Matched(s, kind, [i \in 1 .. Count(s, kind, Len(s)) |-> t])
<1> DEFINE n == Count(s, kind, Len(s))
           list == [i \in 1 .. n |-> t]
<1>1. n \in Nat
  <2>1. Len(s) \in Nat
    OBVIOUS
  <2>2. QED
    BY <2>1, CountType
<1>2. Len(list) = n /\ \A j \in 1 .. n : list[j] = t
  <2> HIDE DEF n
  <2>1. QED
    BY <1>1
<1>3. ASSUME NEW i \in 1 .. Len(s), s[i].kind = kind PROVE Count(s, kind, i) \in 1 .. n
  <2>1. Len(s) \in Nat /\ i \in Nat \ {0} /\ i <= Len(s)
    OBVIOUS
  <2>2. Count(s, kind, i) \in Nat /\ Count(s, kind, i) >= 1
    BY <1>3, <2>1, CountType, CountPositive
  <2>3. Count(s, kind, i) <= n
    BY <2>1, CountGrows
  <2>4. QED
    BY <1>1, <2>2, <2>3
<1>4. QED
  <2> HIDE DEF list
  <2>1. \A i \in 1 .. Len(s) :
          s[i].kind = kind =>
            Count(s, kind, i) \in 1 .. Len(list) /\ list[Count(s, kind, i)] = s[i].of
    BY <1>2, <1>3
  <2>2. Matched(s, kind, list)
    BY <1>2, <2>1 DEF Matched
  <2>3. QED
    BY <2>2 DEF list

(***************************************************************************)
(* One assignment, and the statement made of them.                         *)
(***************************************************************************)
Kinds == {"keep", "salt", "path"}
Tok(X) == [kind : Kinds, of : X]

LEMMA TokensFacts ==
  ASSUME NEW X, NEW t \in X
  PROVE  /\ Tokens(t) \in Seq(Tok(X))
         /\ \A i \in 1 .. Len(Tokens(t)) : Tokens(t)[i].of = t
         /\ t[2] = Whole => Count(Tokens(t), "path", Len(Tokens(t))) = 0
         /\ Count(Tokens(t), "keep", Len(Tokens(t))) =
              IF t[2] = Whole /\ RuleOf(t[1]).exception THEN 1 ELSE 0
<1>1. Reads(t) \in 0 .. 2
  BY DEF Reads
<1>2. CASE t[2] = Whole
  <2> DEFINE keep == IF RuleOf(t[1]).exception THEN 1 ELSE 0
             n == keep + Reads(t)
  <2>1. keep \in 0 .. 1 /\ n \in Nat /\ keep <= n
    BY <1>1
  <2>2. Tokens(t) = [i \in 1 .. n |-> Token(IF i <= keep THEN "keep" ELSE "salt", t)]
    BY <1>2 DEF Tokens
  <2> HIDE DEF n
  <2>3. /\ Tokens(t) \in Seq(Tok(X)) /\ Len(Tokens(t)) = n
        /\ \A i \in 1 .. n : Tokens(t)[i].of = t
    BY <2>1, <2>2 DEF Token, Tok, Kinds
  <2>4. {i \in 1 .. n : Tokens(t)[i].kind = "path"} = {}
    BY <2>2 DEF Token
  <2>5. {i \in 1 .. n : Tokens(t)[i].kind = "keep"} =
          IF RuleOf(t[1]).exception THEN {1} ELSE {}
    BY <2>1, <2>2 DEF Token
  <2>6. QED
    BY <1>2, <2>3, <2>4, <2>5, FS_EmptySet, FS_Singleton DEF Count
<1>3. CASE t[2] # Whole
  <2> DEFINE n == 1 + 2 * Reads(t)
  <2>1. Tokens(t) = [i \in 1 .. n |-> Token(IF i % 2 = 1 THEN "path" ELSE "salt", t)]
    BY <1>3 DEF Tokens
  <2>2. n \in Nat
    BY <1>1
  <2> HIDE DEF n
  <2>3. /\ Tokens(t) \in Seq(Tok(X)) /\ Len(Tokens(t)) = n
        /\ \A i \in 1 .. n : Tokens(t)[i].of = t
    BY <2>1, <2>2 DEF Token, Tok, Kinds
  <2>4. {i \in 1 .. n : Tokens(t)[i].kind = "keep"} = {}
    BY <2>1 DEF Token
  <2>5. QED
    BY <1>3, <2>3, <2>4, FS_EmptySet DEF Count
<1>4. QED
  BY <1>2, <1>3

\* A text and the two lists that go with it.
AtHand(s, X) ==
  /\ s.text \in Seq(Tok(X)) /\ s.paths \in Seq(X) /\ s.keeps \in Seq(X)
  /\ Matched(s.text, "path", s.paths) /\ Matched(s.text, "keep", s.keeps)

LEMMA WithTargetAtHand ==
  ASSUME NEW X, NEW s, NEW t \in X, AtHand(s, X)
  PROVE  AtHand(WithTarget(s, t), X)
<1> DEFINE text == Tokens(t)
           paths == IF t[2] = Whole THEN <<>> ELSE [i \in 1 .. PathTokens(t) |-> t]
           keeps == IF t[2] = Whole /\ RuleOf(t[1]).exception THEN <<t>> ELSE <<>>
<1>1. text \in Seq(Tok(X)) /\ PathTokens(t) \in Nat
  <2>1. text \in Seq(Tok(X))
    BY TokensFacts
  <2>2. Len(Tokens(t)) \in Nat
    BY <2>1
  <2>3. QED
    BY <2>1, <2>2, CountType DEF PathTokens
<1>2. paths \in Seq(X) /\ keeps \in Seq(X)
  BY <1>1
<1>3. Matched(text, "path", paths)
  <2>1. Matched(text, "path", [i \in 1 .. PathTokens(t) |-> t])
    BY TokensFacts, MatchedOne DEF PathTokens
  <2>2. t[2] = Whole => paths = [i \in 1 .. PathTokens(t) |-> t]
    BY TokensFacts DEF PathTokens
  <2>3. QED
    BY <2>1, <2>2
<1>4. Matched(text, "keep", keeps)
  <2> DEFINE n == Count(text, "keep", Len(text))
  <2>1. Matched(text, "keep", [i \in 1 .. n |-> t])
    BY TokensFacts, MatchedOne
  <2>2. n = IF t[2] = Whole /\ RuleOf(t[1]).exception THEN 1 ELSE 0
    BY TokensFacts
  <2> HIDE DEF n, text
  <2>3. keeps = [i \in 1 .. n |-> t]
    BY <2>2
  <2>4. QED
    BY <2>1, <2>3
<1> HIDE DEF text, paths, keeps
<1>5. WithTarget(s, t) =
        [text |-> s.text \o text, paths |-> s.paths \o paths, keeps |-> s.keeps \o keeps]
  BY DEF WithTarget, text, paths, keeps
<1>6. /\ Matched(s.text \o text, "path", s.paths \o paths)
      /\ Matched(s.text \o text, "keep", s.keeps \o keeps)
  BY <1>1, <1>2, <1>3, <1>4, MatchedConcat DEF AtHand
<1>7. QED
  BY <1>1, <1>2, <1>5, <1>6 DEF AtHand

\* The recursion of Assembled is well founded.
LEMMA AssembledSteps ==
  ASSUME Len(Order) \in Nat
  PROVE  /\ Assembled[0] = [text |-> <<>>, paths |-> <<>>, keeps |-> <<>>]
         /\ \A n \in 1 .. Len(Order) : Assembled[n] = WithTarget(Assembled[n - 1], Order[n])
<1> DEFINE m == Len(Order)
           none == [text |-> <<>>, paths |-> <<>>, keeps |-> <<>>]
           step(g, n) == IF n = 0 THEN none ELSE WithTarget(g[n - 1], Order[n])
           built(g, k) == g = [n \in 0 .. k |-> step(g, n)]
           bad == {k \in 0 .. m : ~\E g : built(g, k)}
<1>1. \E g : built(g, 0)
  <2> DEFINE g == [n \in 0 .. 0 |-> none]
  <2>1. built(g, 0)
    OBVIOUS
  <2>2. QED
    BY <2>1
<1>2. ASSUME NEW k \in 1 .. m, NEW g, built(g, k - 1) PROVE \E h : built(h, k)
  <2> DEFINE next == WithTarget(g[k - 1], Order[k])
             h == [n \in 0 .. k |-> IF n = k THEN next ELSE g[n]]
  <2>1. ASSUME NEW n \in 0 .. k PROVE h[n] = step(h, n)
    <3>1. CASE n = 0
      <4>1. g[0] = none
        BY <1>2
      <4>2. QED
        BY <3>1, <4>1
    <3>2. CASE n \in 1 .. k - 1
      <4>1. g[n] = WithTarget(g[n - 1], Order[n])
        BY <1>2, <3>2
      <4>2. h[n] = g[n] /\ h[n - 1] = g[n - 1]
        BY <3>2
      <4>3. QED
        BY <3>2, <4>1, <4>2
    <3>3. CASE n = k
      <4>1. h[k] = next /\ h[k - 1] = g[k - 1]
        OBVIOUS
      <4>2. QED
        BY <3>3, <4>1
    <3>4. QED
      BY <3>1, <3>2, <3>3
  <2>2. built(h, k)
    <3> HIDE DEF next, step
    <3>1. QED
      BY <2>1
  <2>3. QED
    BY <2>2
<1>3. bad = {}
  <2> HIDE DEF built
  <2>1. SUFFICES ASSUME bad # {} PROVE FALSE
    OBVIOUS
  <2>2. bad \in SUBSET Nat
    OBVIOUS
  <2>3. PICK k \in bad : \A j \in bad : k <= j
    BY <2>1, <2>2, LeastNumber
  <2>4. k # 0
    BY <1>1
  <2>5. k - 1 \in 0 .. m /\ k - 1 \notin bad
    BY <2>3, <2>4
  <2>6. QED
    BY <1>2, <2>3, <2>4, <2>5
<1>4. \E g : built(g, m)
  BY <1>3
<1>5. built(Assembled, m)
  <2> HIDE DEF m
  <2>1. Assembled = CHOOSE g : g = [n \in 0 .. Len(Order) |->
          IF n = 0 THEN none ELSE WithTarget(g[n - 1], Order[n])]
    BY DEF Assembled
  <2>2. QED
    BY <1>4, <2>1 DEF m
<1>6. QED
  BY <1>5

LEMMA AssembledAtHand ==
  ASSUME NEW X, Order \in Seq(X)
  PROVE  \A n \in 0 .. Len(Order) : AtHand(Assembled[n], X)
<1> DEFINE bad == {n \in 0 .. Len(Order) : ~AtHand(Assembled[n], X)}
<1>1. Len(Order) \in Nat /\ \A n \in 1 .. Len(Order) : Order[n] \in X
  OBVIOUS
<1>2. AtHand(Assembled[0], X)
  <2>1. ASSUME NEW kind PROVE Count(<<>>, kind, 0) = 0
    <3>1. {j \in 1 .. 0 : <<>>[j].kind = kind} = {}
      OBVIOUS
    <3>2. QED
      BY <3>1, FS_EmptySet DEF Count
  <2>2. ASSUME NEW kind PROVE Matched(<<>>, kind, <<>>)
    BY <2>1 DEF Matched
  <2>3. Assembled[0] = [text |-> <<>>, paths |-> <<>>, keeps |-> <<>>]
    BY <1>1, AssembledSteps
  <2>4. <<>> \in Seq(Tok(X)) /\ <<>> \in Seq(X)
    OBVIOUS
  <2>5. QED
    BY <2>2, <2>3, <2>4 DEF AtHand
<1>3. ASSUME NEW n \in 1 .. Len(Order), AtHand(Assembled[n - 1], X) PROVE AtHand(Assembled[n], X)
  <2>1. Assembled[n] = WithTarget(Assembled[n - 1], Order[n])
    BY <1>1, AssembledSteps
  <2>2. QED
    BY <1>1, <1>3, <2>1, WithTargetAtHand
<1>4. SUFFICES ASSUME bad # {} PROVE FALSE
  OBVIOUS
<1>5. bad \in SUBSET Nat
  BY <1>1
<1>6. PICK n \in bad : \A k \in bad : n <= k
  BY <1>4, <1>5, LeastNumber
<1>7. n # 0
  BY <1>2, <1>6
<1>8. n \in 1 .. Len(Order) /\ n - 1 \in 0 .. Len(Order) /\ n - 1 \notin bad
  BY <1>1, <1>6, <1>7
<1>9. QED
  BY <1>3, <1>6, <1>8

\* A finite set has an order to list it in.
LEMMA SetToSeqType ==
  ASSUME NEW T, IsFiniteSet(T)
  PROVE  S!SetToSeq(T) \in Seq(T)
<1> DEFINE Right(f) == f \in [1 .. Cardinality(T) -> T] /\ S!IsInjective(f)
<1>1. \E f : Right(f)
  <2>1. PICK f \in Bijection(1 .. Cardinality(T), T) : TRUE
    BY FS_CardinalityType DEF ExistsBijection
  <2>2. Right(f)
    BY <2>1 DEF Bijection, Injection, IsInjective, S!IsInjective
  <2>3. QED
    BY <2>2
<1>2. Cardinality(T) \in Nat
  BY FS_CardinalityType
<1>3. S!Cardinality(T) = Cardinality(T)
  BY Zenon DEF S!Cardinality, Cardinality
<1>4. S!SetToSeq(T) \in [1 .. Cardinality(T) -> T]
  BY <1>1, <1>3 DEF S!SetToSeq
<1>5. QED
  BY <1>2, <1>4

LEMMA OrderType == IInv => Order \in Seq(targets)
<1> SUFFICES ASSUME IInv PROVE Order \in Seq(targets)
  OBVIOUS
<1> DEFINE A == {t \in targets : t[2] = Whole}
           B == {t \in targets : t[2] # Whole}
<1>1. IsFiniteSet(Columns \X Places)
  BY InputsAssumption, FS_AddElement, FS_Product DEF Places
<1>2. IsFiniteSet(targets)
  BY <1>1, FS_Subset DEF IInv, TypeOK
<1>3. IsFiniteSet(A) /\ IsFiniteSet(B)
  BY <1>2, FS_Subset
<1>4. S!SetToSeq(A) \in Seq(A) /\ S!SetToSeq(B) \in Seq(B)
  BY <1>3, SetToSeqType
<1>5. QED
  <2>1. Seq(A) \subseteq Seq(targets) /\ Seq(B) \subseteq Seq(targets)
    OBVIOUS
  <2>2. QED
    BY <1>4, <2>1 DEF Order

\* ParametersFit for every plan: however many columns, keys and reads of a value there are,
\* each placeholder of the UPDATE gets the value made for it.
THEOREM ValuesFit == Spec => []ParametersFit
<1>1. IInv => ParametersFit
  <2> SUFFICES ASSUME IInv, NEW i \in DOMAIN Statement
               PROVE  /\ Statement[i].kind = "path" => Fits(PathValues, i)
                      /\ Statement[i].kind = "keep" => Fits(KeepValues, i)
    BY DEF ParametersFit
  <2> DEFINE s == Assembled[Len(Order)]
  <2>1. AtHand(s, targets)
    BY OrderType, AssembledAtHand
  <2> HIDE DEF s
  <2>2. Statement = s.text /\ PathValues = s.paths /\ KeepValues = s.keeps
    BY DEF s, Statement, PathValues, KeepValues
  <2>3. i \in 1 .. Len(s.text)
    BY <2>1, <2>2 DEF AtHand
  <2>4. ASSUME s.text[i].kind = "path" PROVE Fits(PathValues, i)
    BY <2>1, <2>2, <2>3, <2>4 DEF AtHand, Matched, Fits, Nth
  <2>5. ASSUME s.text[i].kind = "keep" PROVE Fits(KeepValues, i)
    BY <2>1, <2>2, <2>3, <2>5 DEF AtHand, Matched, Fits, Nth
  <2>6. QED
    BY <2>2, <2>4, <2>5
<1>2. QED
  BY <1>1, Inductive, PTL
===============================================================================
