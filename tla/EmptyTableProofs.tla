--------------------------- MODULE EmptyTableProofs ---------------------------
(***************************************************************************)
(* What EmptyTable guarantees for tables of any width, any number of       *)
(* foreign keys and any server.  The text surgery is dealt with first, in  *)
(* lemmas about one line and about a statement.                            *)
(***************************************************************************)
EXTENDS EmptyTable, TLAPS

(***************************************************************************)
(* The text surgery.                                                       *)
(***************************************************************************)
\* What cutting the default out of one line does.
LEMMA CutLine ==
  ASSUME NEW l \in Line, Removable(l)
  PROVE  /\ WithoutDefault(l) \in Line
         /\ WithoutDefault(l).default = "none"
         /\ WithoutDefault(l).tail = "says default" => l.tail = "says default"
<1> USE DEF Line, Removable
<1>1. CASE l.default = "null"
  BY <1>1 DEF WithoutDefault
<1>2. CASE l.default = "literal"
  BY <1>2 DEF WithoutDefault
<1>3. CASE l.default = "none" /\ l.tail = "says default"
  BY <1>3 DEF WithoutDefault
<1>4. QED
  BY <1>1, <1>2, <1>3

\* What cutting defaults out of a statement does.
LEMMA CutStatement ==
  ASSUME NEW d \in Definition, NEW S
  PROVE  /\ StripLines(d, S) \in Definition
         /\ StripLines(d, S).keys = d.keys
         /\ \A c \in Columns :
              /\ c \notin S => StripLines(d, S).lines[c] = d.lines[c]
              /\ c \in S => StripLines(d, S).lines[c].default = "none"
              /\ StripLines(d, S).lines[c].default \in {"none", d.lines[c].default}
              /\ StripLines(d, S).lines[c].tail = "says default"
                   => d.lines[c].tail = "says default"
<1> DEFINE cut(c) == IF c \in S /\ Removable(d.lines[c]) THEN WithoutDefault(d.lines[c])
                                                         ELSE d.lines[c]
<1>1. /\ StripLines(d, S).keys = d.keys
      /\ StripLines(d, S).lines = [c \in Columns |-> cut(c)]
      /\ StripLines(d, S) = [lines |-> [c \in Columns |-> cut(c)], keys |-> d.keys]
  BY DEF StripLines, Definition
<1>2. ASSUME NEW c \in Columns
      PROVE  /\ cut(c) \in Line
             /\ c \notin S => cut(c) = d.lines[c]
             /\ c \in S => cut(c).default = "none"
             /\ cut(c).default \in {"none", d.lines[c].default}
             /\ cut(c).tail = "says default" => d.lines[c].tail = "says default"
  <2>1. d.lines[c] \in Line
    BY DEF Definition
  <2>2. CASE c \in S /\ Removable(d.lines[c])
    BY <2>1, <2>2, CutLine
  <2>3. CASE ~(c \in S /\ Removable(d.lines[c]))
    BY <2>1, <2>3 DEF Removable
  <2>4. QED
    BY <2>2, <2>3
<1>3. [c \in Columns |-> cut(c)] \in [Columns -> Line]
  BY <1>2
<1>4. StripLines(d, S) \in Definition
  BY <1>1, <1>3 DEF Definition
<1> HIDE DEF cut
<1>5. \A c \in Columns : StripLines(d, S).lines[c] = cut(c)
  BY <1>1
<1>6. QED
  BY <1>1, <1>2, <1>4, <1>5

LEMMA LiteralsShrink ==
  ASSUME NEW d \in Definition, NEW S
  PROVE  /\ Literals(StripLines(d, S)) \subseteq Literals(d)
         /\ Literals(d) \ Literals(StripLines(d, S)) \subseteq S
<1>1. \A c \in Columns :
        /\ c \notin S => StripLines(d, S).lines[c] = d.lines[c]
        /\ StripLines(d, S).lines[c].default \in {"none", d.lines[c].default}
  BY CutStatement
<1> HIDE DEF StripLines
<1>2. QED
  BY <1>1 DEF Literals

(***************************************************************************)
(* The inductive invariant.                                                *)
(***************************************************************************)
\* Where the foreign keys are.
KeysPlaced ==
  /\ pc \in {"read", "create"} => stmt.keys = source.keys
  /\ pc \in {"read", "create", "columns", "create columns"} => deferred = {} /\ ~bare
  /\ pc = "without keys" => deferred = source.keys /\ ~bare
  /\ bare => got.keys = {} /\ (pc = "made" \/ told = "created")
  /\ pc = "made" \/ told = "created" =>
       /\ bare \/ source.keys = got.keys \cup deferred
       /\ got.keys \cap deferred = {}

\* Which defaults may be gone from a set of them.
Excused(kept) ==
  /\ kept \subseteq Literals(source)
  /\ kept # Literals(source) => omitted
  /\ server.readable =>
       \A c \in Literals(source) \ kept : source.lines[c].binary \/ c \in server.refused

DefaultsPlaced ==
  /\ server.refused \subseteq Literals(source)
  /\ pc = "read" => stmt = source
  /\ pc \in {"create", "without keys"} => Excused(Literals(stmt))
  /\ pc = "made" \/ told = "created" => bare \/ Excused(got.defaults)

\* Who made the table, and what the server may still be doing.
TablePlaced ==
  /\ pc = "made" => final = "here"
  /\ told = "pending" /\ pc # "made" => final # "here"
  /\ told = "created" => final = "here"
  /\ told = "failed" /\ ~lost => final # "here"
  /\ lost => told = "failed"
  /\ working # "none" => lost /\ final = "absent"

IInv == TypeOK /\ KeysPlaced /\ DefaultsPlaced /\ TablePlaced

LEMMA InitInv == Init => IInv
<1> SUFFICES ASSUME Init PROVE IInv
  OBVIOUS
<1>1. TypeOK
  <2>1. NothingYet \in Made
    BY DEF NothingYet, Made
  <2>2. QED
    BY <2>1 DEF Init, TypeOK
<1>2. KeysPlaced /\ DefaultsPlaced /\ TablePlaced
  BY DEF Init, KeysPlaced, DefaultsPlaced, TablePlaced, NothingYet
<1>3. QED
  BY <1>1, <1>2 DEF IInv

\* What a built table has, by the statement that made it.
LEMMA BuiltType ==
  ASSUME NEW d \in Definition
  PROVE  /\ Built(d) \in Made
         /\ Built(d).keys = d.keys /\ Built(d).defaults = Literals(d)
BY DEF Built, Made, Definition, Literals

LEMMA ReadDefinitionInv == IInv /\ ReadDefinition => IInv'
<1> SUFFICES ASSUME IInv, ReadDefinition PROVE IInv'
  OBVIOUS
<1> USE DEF IInv, ReadDefinition, inputVars, tableVars
<1> DEFINE d == StripLines(source, BinaryColumns(source))
<1>1. /\ source \in Definition /\ BinaryColumns(source) \in SUBSET Columns /\ stmt' = d
  BY DEF TypeOK, BinaryColumns
<1>2. d \in Definition /\ d.keys = source.keys
  BY <1>1, CutStatement
<1> HIDE DEF d
<1>3. TypeOK'
  BY <1>1, <1>2 DEF TypeOK
<1>4. KeysPlaced'
  BY <1>1, <1>2 DEF KeysPlaced, TypeOK
<1>5. Excused(Literals(stmt))'
  <2>1. /\ Literals(d) \subseteq Literals(source)
        /\ Literals(source) \ Literals(d) \subseteq BinaryColumns(source)
    BY <1>1, LiteralsShrink DEF d
  <2>2. \A c \in BinaryColumns(source) : source.lines[c].binary
    BY DEF BinaryColumns
  <2>3. Literals(d) # Literals(source) => BinaryColumns(source) # {}
    BY <2>1
  <2>4. Literals(stmt)' = Literals(d)
    BY <1>1 DEF Literals
  <2>5. QED
    BY <2>1, <2>2, <2>3, <2>4 DEF Excused, Literals
<1>6. DefaultsPlaced'
  BY <1>5 DEF DefaultsPlaced, TypeOK, Literals
<1>7. TablePlaced'
  BY DEF TablePlaced, TypeOK
<1>8. QED
  BY <1>3, <1>4, <1>6, <1>7

\* The column whose default was refused is among those the next cut takes.
LEMMA RefusedIsCut == ASSUME NEW c \in Columns PROVE c \in ToStrip(c) /\ ToStrip(c) \in SUBSET Columns
BY DEF ToStrip

LEMMA StripDefaultInv == IInv /\ StripDefault => IInv'
<1> SUFFICES ASSUME IInv, StripDefault PROVE IInv'
  OBVIOUS
<1> USE DEF IInv, StripDefault, inputVars, tableVars
<1>1. PICK b \in RefusedIn(stmt) : stmt' = StripLines(stmt, ToStrip(b))
  OBVIOUS
<1> DEFINE d == StripLines(stmt, ToStrip(b))
<1>2. /\ stmt \in Definition /\ source \in Definition
      /\ b \in Columns /\ b \in server.refused /\ ToStrip(b) \in SUBSET Columns
  BY RefusedIsCut DEF TypeOK, RefusedIn, Literals
<1>3. stmt' = d /\ d \in Definition /\ d.keys = stmt.keys
  BY <1>1, <1>2, CutStatement
<1> HIDE DEF d
<1>4. TypeOK'
  BY <1>3 DEF TypeOK, Counted
<1>5. KeysPlaced'
  BY <1>3 DEF KeysPlaced, TypeOK
<1>6. Excused(Literals(stmt))'
  <2>1. /\ Literals(d) \subseteq Literals(stmt)
        /\ Literals(stmt) \ Literals(d) \subseteq ToStrip(b)
    BY <1>2, LiteralsShrink DEF d
  <2>2. server.readable => Literals(stmt) \ Literals(d) \subseteq server.refused
    BY <1>2, <2>1 DEF ToStrip
  <2>3. Excused(Literals(stmt)) /\ Literals(stmt)' = Literals(d)
    BY <1>3 DEF DefaultsPlaced, Literals
  <2>4. QED
    BY <2>1, <2>2, <2>3 DEF Excused, Literals, Counted
<1>7. DefaultsPlaced'
  BY <1>6 DEF DefaultsPlaced, TypeOK, Literals
<1>8. TablePlaced'
  BY DEF TablePlaced, TypeOK
<1>9. QED
  BY <1>4, <1>5, <1>7, <1>8

LEMMA CreateInv == IInv /\ Create => IInv'
<1> SUFFICES ASSUME IInv, Create PROVE IInv'
  OBVIOUS
<1> USE DEF IInv, Create, inputVars, answerVars
<1>1. /\ Built(stmt) \in Made
      /\ Built(stmt).keys = stmt.keys /\ Built(stmt).defaults = Literals(stmt)
  BY BuiltType DEF TypeOK
<1>2. TypeOK'
  BY <1>1 DEF TypeOK
<1>3. KeysPlaced'
  BY <1>1 DEF KeysPlaced, TypeOK
<1>4. DefaultsPlaced'
  <2>1. Excused(Literals(stmt))
    BY DEF DefaultsPlaced
  <2>2. Excused(got.defaults)'
    BY <1>1, <2>1 DEF Excused, Literals
  <2>3. QED
    BY <2>2 DEF DefaultsPlaced, TypeOK, Literals
<1>5. TablePlaced'
  BY DEF TablePlaced, TypeOK
<1>6. QED
  BY <1>2, <1>3, <1>4, <1>5

LEMMA StripKeysInv == IInv /\ StripKeys => IInv'
<1> SUFFICES ASSUME IInv, StripKeys PROVE IInv'
  OBVIOUS
<1> USE DEF IInv, StripKeys, inputVars, tableVars, KeysLeft, DeferredKeys
<1>1. stmt \in Definition /\ stmt' \in Definition /\ stmt'.keys = {} /\ stmt'.lines = stmt.lines
  BY DEF TypeOK, Definition
<1>2. TypeOK'
  BY <1>1 DEF TypeOK, Definition
<1>3. KeysPlaced'
  BY <1>1 DEF KeysPlaced, TypeOK
<1>4. DefaultsPlaced'
  <2>1. Excused(Literals(stmt)) /\ Literals(stmt)' = Literals(stmt)
    BY <1>1 DEF DefaultsPlaced, Literals
  <2>2. Excused(Literals(stmt))'
    BY <2>1 DEF Excused, Literals
  <2>3. QED
    BY <2>2 DEF DefaultsPlaced, TypeOK, Literals
<1>5. TablePlaced'
  BY DEF TablePlaced, TypeOK
<1>6. QED
  BY <1>2, <1>3, <1>4, <1>5

LEMMA FallBackInv == IInv /\ FallBack => IInv'
BY DEF IInv, FallBack, inputVars, tableVars, answerVars, TypeOK, KeysPlaced, DefaultsPlaced,
       Excused, TablePlaced, Literals

LEMMA ServerFinishesInv == IInv /\ ServerFinishes => IInv'
<1> SUFFICES ASSUME IInv, ServerFinishes PROVE IInv'
  OBVIOUS
<1> USE DEF IInv, ServerFinishes, inputVars, answerVars
<1>1. lost /\ told = "failed" /\ pc = "returned" /\ ~bare /\ final = "absent"
  BY DEF TablePlaced, TypeOK, KeysPlaced
<1>2. got' \in Made
  <2>1. Built(stmt) \in Made /\ NothingYet \in Made
    BY BuiltType DEF TypeOK, NothingYet, Made
  <2>2. QED
    BY <2>1 DEF TypeOK
<1>3. TypeOK'
  BY <1>2 DEF TypeOK
<1>4. KeysPlaced' /\ TablePlaced'
  BY <1>1 DEF KeysPlaced, TablePlaced, TypeOK
<1>5. DefaultsPlaced'
  BY <1>1 DEF DefaultsPlaced, TypeOK, Literals
<1>6. QED
  BY <1>3, <1>4, <1>5

\* The remaining steps leave the statement alone.
LEMMA OtherInv ==
  IInv /\ (ReadColumns \/ CreateColumns \/ Answer \/ TableExists \/ Refuse \/ LoseAnswer
           \/ UNCHANGED vars)
  => IInv'
<1> SUFFICES ASSUME IInv,
                    ReadColumns \/ CreateColumns \/ Answer \/ TableExists \/ Refuse
                    \/ LoseAnswer \/ UNCHANGED vars
             PROVE IInv'
  OBVIOUS
<1> USE DEF IInv, ReadColumns, CreateColumns, Answer, TableExists, Refuse, LoseAnswer, Return,
            vars, inputVars, tableVars, answerVars
<1>1. NothingYet \in Made /\ NothingYet.keys = {}
  BY DEF NothingYet, Made
<1>2. TypeOK'
  BY <1>1 DEF TypeOK
<1>3. KeysPlaced'
  BY <1>1 DEF KeysPlaced, TypeOK
<1>4. DefaultsPlaced'
  <2>1. source' = source /\ server' = server /\ stmt' = stmt /\ omitted' = omitted
    OBVIOUS
  <2>2. Literals(source)' = Literals(source) /\ Literals(stmt)' = Literals(stmt)
    BY <2>1 DEF Literals
  <2>3. /\ Excused(Literals(stmt))' <=> Excused(Literals(stmt))
        /\ got' = got => (Excused(got.defaults)' <=> Excused(got.defaults))
    BY <2>1, <2>2 DEF Excused
  <2> HIDE DEF Excused, Literals
  <2>4. QED
    BY <2>1, <2>2, <2>3 DEF DefaultsPlaced, TypeOK
<1>5. TablePlaced'
  BY DEF TablePlaced, TypeOK
<1>6. QED
  BY <1>2, <1>3, <1>4, <1>5

LEMMA NextInv == IInv /\ [Next]_vars => IInv'
BY ReadDefinitionInv, CreateInv, StripDefaultInv, StripKeysInv, FallBackInv,
   ServerFinishesInv, OtherInv DEF Next, CallStep

LEMMA Inductive == Spec => []IInv
BY InitInv, NextInv, PTL DEF Spec

\* Every variable keeps its type.
THEOREM TypeCorrect == Spec => []TypeOK
<1>1. IInv => TypeOK
  BY DEF IInv
<1>2. QED
  BY <1>1, Inductive, PTL

\* KeysInHand: no foreign key is lost or applied twice, however the CREATE came about.
THEOREM KeysStayInHand == Spec => []KeysInHand
<1>1. IInv => KeysInHand
  BY DEF IInv, KeysPlaced, KeysInHand
<1>2. QED
  BY <1>1, Inductive, PTL

\* DefaultsKept, for any number of retries: only refused defaults go, and the message
\* tells (transfer.py:2513-2528).
THEOREM DefaultsAccounted == Spec => []DefaultsKept
<1>1. IInv => DefaultsKept
  BY DEF IInv, DefaultsPlaced, Excused, DefaultsKept
<1>2. QED
  BY <1>1, Inductive, PTL

\* RetriesShrink: the words "default" of the statement are a measure of the loop.
THEOREM RetriesEnd == Spec => RetriesShrink
<1>1. IInv /\ [Next]_vars =>
        [pc = "create" /\ pc' = "create" =>
           Words(stmt') \subseteq Words(stmt) /\ Words(stmt') # Words(stmt)]_vars
  <2> SUFFICES ASSUME IInv, Next, pc = "create", pc' = "create"
               PROVE  Words(stmt') \subseteq Words(stmt) /\ Words(stmt') # Words(stmt)
    BY DEF vars
  <2>1. StripDefault
    BY DEF Next, CallStep, ReadDefinition, Create, StripKeys, FallBack, ReadColumns, Return,
       CreateColumns, Answer, TableExists, Refuse, LoseAnswer, ServerFinishes, IInv, TypeOK,
       TablePlaced
  <2>2. PICK b \in RefusedIn(stmt) : stmt' = StripLines(stmt, ToStrip(b))
    BY <2>1 DEF StripDefault
  <2>3. /\ stmt \in Definition /\ b \in Columns /\ stmt.lines[b].default = "literal"
        /\ b \in ToStrip(b) /\ ToStrip(b) \in SUBSET Columns
    BY RefusedIsCut DEF IInv, TypeOK, RefusedIn, Literals
  <2>4. \A e \in Definition, S \in SUBSET Columns, c \in Columns :
          /\ c \in S => StripLines(e, S).lines[c].default = "none"
          /\ StripLines(e, S).lines[c].default \in {"none", e.lines[c].default}
          /\ StripLines(e, S).lines[c].tail = "says default" => e.lines[c].tail = "says default"
    BY CutStatement
  <2>5. \A c \in Columns :
          /\ stmt'.lines[c].default \in {"none", stmt.lines[c].default}
          /\ stmt'.lines[c].tail = "says default" => stmt.lines[c].tail = "says default"
    BY <2>2, <2>3, <2>4
  <2>6. stmt'.lines[b].default = "none"
    BY <2>2, <2>3, <2>4
  <2>7. <<b, "clause">> \in Words(stmt) /\ <<b, "clause">> \notin Words(stmt')
    BY <2>3, <2>6 DEF Words
  <2>8. Words(stmt') \subseteq Words(stmt)
    BY <2>5 DEF Words
  <2>9. QED
    BY <2>7, <2>8
<1>2. QED
  BY <1>1, InitInv, NextInv, PTL DEF Spec, RetriesShrink

\* PublishesTable: making an empty table is one atomic TableReplace.
THEOREM EmptyTablePublishes == Spec => PublishesTable
<1>1. Init => Promise!Init
  BY DEF Init, Promise!Init, Promise!Before, Content, Result
<1>2. IInv /\ [Next]_vars => [Promise!Next]_<<Content, Result>>
  <2> SUFFICES ASSUME IInv, [Next]_vars PROVE [Promise!Next]_<<Content, Result>>
    OBVIOUS
  <2> USE DEF IInv, TypeOK, TablePlaced, Content, Result, Promise!Next, Promise!MayChange,
              Promise!Before, inputVars, tableVars, answerVars, Return
  <2>1. CASE Create \/ CreateColumns
    BY <2>1 DEF Create, CreateColumns, Promise!Publish
  <2>2. CASE Answer
    BY <2>2 DEF Answer, Promise!Answer
  <2>3. CASE TableExists \/ Refuse
    BY <2>3 DEF TableExists, Refuse, Promise!Answer
  <2>4. CASE LoseAnswer
    BY <2>4 DEF LoseAnswer, Promise!Answer
  <2>5. CASE ServerFinishes
    BY <2>5 DEF ServerFinishes, Promise!Publish
  <2>6. CASE ReadDefinition \/ StripDefault \/ StripKeys \/ FallBack \/ ReadColumns
             \/ UNCHANGED vars
    BY <2>6 DEF ReadDefinition, StripDefault, StripKeys, FallBack, ReadColumns, vars
  <2>7. QED
    BY <2>1, <2>2, <2>3, <2>4, <2>5, <2>6 DEF Next, CallStep
<1>3. QED
  BY <1>1, <1>2, InitInv, NextInv, PTL DEF Spec, PublishesTable, Promise!Spec
=============================================================================
