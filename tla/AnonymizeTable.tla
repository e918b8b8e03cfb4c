---------------------------- MODULE AnonymizeTable ----------------------------
(***************************************************************************)
(* anonymize_step for one table: which columns and which keys inside JSON  *)
(* documents hold personal data by the rules, the search through the       *)
(* documents, and the one UPDATE that rewrites what was planned.           *)
(*                                                                         *)
(* A cell is a map from places to what stands there.  The empty path is    *)
(* the whole value, a longer one a key inside its document.                *)
(***************************************************************************)
EXTENDS Integers, Sequences, FiniteSets

CONSTANTS
  Columns, Rows, Keys,  \* a column and a key are the name the rules look at
  Paths,                \* the key paths a document may have
  MaxDepth,             \* how many levels the search goes down
  LongKeys,             \* keys JSON_TABLE's column cannot hold
  Personal,             \* names for which looks_personal is true
  RuleLists, Tables     \* rules and tables to choose from

VARIABLES
  dialect,   \* db_type of the destination
  rules,     \* list_anonymization_rules()
  before,    \* the table as it was copied; nobody changes it before the UPDATE
  cells,     \* what its rows hold now
  on,        \* the switch
  pc,        \* next step of the call
  todo,      \* JSON columns still to search
  targets,   \* <<column, path>> the UPDATE will rewrite
  named,     \* <<column, <<path, reason>>>> the log speaks of
  working,   \* the server is at an UPDATE whose answer was lost
  lost,      \* whether an answer was lost
  told       \* what the caller is told

inputVars == <<dialect, rules, before, on>>
planVars == <<todo, targets, named>>
serverVars == <<cells, working, lost>>
vars == <<inputVars, planVars, serverVars, pc, told>>

Whole == <<>>
Places == Paths \cup {Whole}
Names == Columns \cup Keys
\* What the log says of a place: that the whole column was left as it is, that rows are not
\* JSON, that no row holds an object, that a key could not be read, that what lies below is
\* too deep, that an array is not followed, that a value is not a string.
Reasons == {"left", "invalid", "root", "key", "deep", "array", "type"}
Last(p) == p[Len(p)]
Above(q, p) == Len(q) < Len(p) /\ q = SubSeq(p, 1, Len(q))
AtOrAbove(q, p) == q = p \/ Above(q, p)

TextStates == {"NULL", "EMPTY", "KEPT", "REAL", "FAKE"}
DocumentStates ==
  {"ABSENT", "NULL", "NUMBER", "STRING", "ARRAY", "OBJECT", "INVALID", "FAKE"}
Cell == [Places -> TextStates \cup DocumentStates]
Cells == [Columns -> [Rows -> Cell]]
Table == [type : [Columns -> {"text", "json", "number"}], generated : SUBSET Columns,
          cells : Cells]
Rule == [names : SUBSET Names, kind : {"one", "two", "empty", "json"},
         enabled : BOOLEAN, exception : BOOLEAN]

\* Only an object has keys.
WellFormed(cell) ==
  /\ cell[Whole] # "ABSENT"
  /\ \A p \in Paths :
       /\ cell[p] \in {"ABSENT", "NULL", "NUMBER", "STRING", "ARRAY", "OBJECT"}
       /\ cell[p] # "ABSENT" =>
            cell[Whole] = "OBJECT" /\ \A q \in Paths : Above(q, p) => cell[q] = "OBJECT"

ASSUME InputsAssumption ==
  /\ IsFiniteSet(Columns) /\ IsFiniteSet(Paths)
  /\ Paths \subseteq Seq(Keys) \ {Whole}
  /\ \A p \in Paths : \A n \in 1 .. Len(p) : SubSeq(p, 1, n) \in Paths
  /\ MaxDepth \in Nat \ {0}
  /\ Tables \subseteq Table
  /\ \A t \in Tables, c \in Columns, r \in Rows : WellFormed(t.cells[c][r])

Init ==
  /\ dialect \in {"mysql", "postgres"} /\ rules \in RuleLists /\ before \in Tables
  /\ on \in BOOLEAN /\ cells = before.cells
  /\ pc = "switch" /\ todo = {} /\ targets = {} /\ named = {}
  /\ working = FALSE /\ lost = FALSE /\ told = "pending"

(***************************************************************************)
(* The plan.                                                               *)
(***************************************************************************)
\* match_rule: the first enabled rule whose pattern matches.
Matches(n) == {i \in DOMAIN rules : rules[i].enabled /\ n \in rules[i].names}
HasRule(n) == Matches(n) # {}
RuleOf(n) == rules[CHOOSE i \in Matches(n) : \A j \in Matches(n) : i <= j]
HasValueRule(n) == HasRule(n) /\ RuleOf(n).kind # "json"

\* plan_table.
HoldsJson(c) == before.type[c] = "json" \/ (HasRule(c) /\ RuleOf(c).kind = "json")
Searched(c) == HoldsJson(c) /\ c \notin before.generated
Rewritten(c) ==
  /\ ~HoldsJson(c) /\ HasRule(c)
  /\ c \notin before.generated /\ before.type[c] = "text"
Reported(c) == (HasRule(c) \/ HoldsJson(c) \/ c \in Personal) /\ ~Searched(c) /\ ~Rewritten(c)

\* _json_paths_sync: the documents of a column and what each place of them holds.
Documents(c) == {r \in Rows : before.cells[c][r][Whole] \notin {"NULL", "INVALID"}}
Unreadable(c) == {r \in Rows : before.cells[c][r][Whole] = "INVALID"}
RootTypes(c) == {before.cells[c][r][Whole] : r \in Documents(c)}
TypesAt(c, p) == {before.cells[c][r][p] : r \in Documents(c)} \ {"ABSENT"}
TooDeep(c, p) == Len(p) = MaxDepth /\ "OBJECT" \in TypesAt(c, p)
LongKey(p) == dialect = "mysql" /\ Last(p) \in LongKeys
Found(c) ==
  {p \in Paths : /\ "OBJECT" \in RootTypes(c) /\ TypesAt(c, p) # {} /\ Len(p) <= MaxDepth
                 /\ \A q \in Paths : Above(q, p) => ~LongKey(q)}

\* Mutant: only a key that is a string in every row is rewritten.
StringsOnly(c) ==
  {p \in Found(c) : HasValueRule(Last(p)) /\ TypesAt(c, p) = {"STRING"} /\ ~LongKey(p)}
\* plan_json_column: the keys to rewrite and the places to report.
JsonTargets(c) ==
  {p \in Found(c) : HasValueRule(Last(p)) /\ "STRING" \in TypesAt(c, p) /\ ~LongKey(p)}
NotStrings(c, p) ==
  HasValueRule(Last(p)) /\ TypesAt(c, p) \cap {"STRING", "OBJECT", "ARRAY"} = {}
JsonReported(c) ==
  LET readable == {p \in Found(c) : ~LongKey(p)}
  IN {p \in Found(c) : LongKey(p)} \X {"key"}
       \cup {p \in readable : TooDeep(c, p)} \X {"deep"}
       \cup {p \in readable : "ARRAY" \in TypesAt(c, p)} \X {"array"}
       \cup {p \in readable : NotStrings(c, p)} \X {"type"}
       \cup {p \in {Whole} : RootTypes(c) # {} /\ "OBJECT" \notin RootTypes(c)} \X {"root"}
\* Mutant: that there are rows which are not JSON is not said.
NothingSaid(c) == {}
\* json_paths adds how many rows are not valid JSON.
RowsReported(c) == {p \in {Whole} : Unreadable(c) # {}} \X {"invalid"}

(***************************************************************************)
(* The UPDATE.                                                             *)
(***************************************************************************)
Keeps(c, v) == v \in {"NULL", "EMPTY"} \/ (v = "KEPT" /\ RuleOf(c).exception)
Only(v) == [p \in Places |-> IF p = Whole THEN v ELSE "ABSENT"]
NewText(c, cell) == IF Keeps(c, cell[Whole]) THEN cell ELSE Only("FAKE")

TargetsIn(c) == {p \in Paths : <<c, p>> \in targets}
\* Mutant: JSON_SET, which adds the key where it is not.
Set(c, cell) ==
  [p \in Places |-> IF p \in TargetsIn(c) THEN "FAKE" ELSE cell[p]]
\* JSON_REPLACE and jsonb_set(..., false): only a path that is there is replaced, and with
\* an object goes what was in it.
Replaced(c, cell) ==
  LET there == {p \in TargetsIn(c) : cell[p] # "ABSENT"}
  IN [p \in Places |->
        CASE \E q \in there : Above(q, p) -> "ABSENT"
          [] p \in there /\ ~\E q \in there : Above(q, p) -> "FAKE"
          [] OTHER -> cell[p]]
\* jsonb_set is strict: a replacement made of a value that is not there, or is null, makes
\* the whole document NULL.
Missing(c, cell) == \E p \in TargetsIn(c) : cell[p] \in {"ABSENT", "NULL"}
NewDocument(c, cell) ==
  CASE cell[Whole] \in {"NULL", "INVALID"} -> cell
    [] cell[Whole] \notin {"NULL", "INVALID"} /\ dialect = "postgres" /\ Missing(c, cell) ->
         Only("NULL")
    [] OTHER -> Replaced(c, cell)

Updated ==
  [c \in Columns |-> [r \in Rows |->
     CASE <<c, Whole>> \in targets -> NewText(c, before.cells[c][r])
       [] <<c, Whole>> \notin targets /\ TargetsIn(c) # {} -> NewDocument(c, before.cells[c][r])
       [] OTHER -> before.cells[c][r]]]

\* PostgreSQL does not know the type of the '' that the kind "empty" puts into a document.
Untyped ==
  dialect = "postgres" /\ \E t \in targets : t[2] # Whole /\ RuleOf(Last(t[2])).kind = "empty"

(***************************************************************************)
(* Its parameters.  While the statement is put together every value is a   *)
(* token; at the end the tokens become placeholders, and the values are    *)
(* taken from one list per kind, each in its order.                        *)
(***************************************************************************)
S == INSTANCE SequencesExt

Name(t) == IF t[2] = Whole THEN t[1] ELSE Last(t[2])
\* How often a replacement reads the value: a full name takes two slices of its hash.
Reads(t) == CASE RuleOf(Name(t)).kind = "one" -> 1
              [] RuleOf(Name(t)).kind = "two" -> 2
              [] OTHER -> 0
Token(kind, t) == [kind |-> kind, of |-> t]

\* The tokens of one assignment, in the order of the text: what to keep and then the salt
\* of each read, or the path, and a salt and the path again for each read.  A document's
\* next target wraps the expression so far and comes after it.
Tokens(t) ==
  IF t[2] = Whole
  THEN LET keep == IF RuleOf(t[1]).exception THEN 1 ELSE 0
       IN [i \in 1 .. keep + Reads(t) |-> Token(IF i <= keep THEN "keep" ELSE "salt", t)]
  ELSE [i \in 1 .. 1 + 2 * Reads(t) |-> Token(IF i % 2 = 1 THEN "path" ELSE "salt", t)]

\* How many of the first i tokens are of a kind.
Count(tokens, kind, i) == Cardinality({j \in 1 .. i : tokens[j].kind = kind})

\* Mutant: every replacement is taken to read its value once.
TwoPaths(t) == 2
PathTokens(t) == Count(Tokens(t), "path", Len(Tokens(t)))

Order == S!SetToSeq({t \in targets : t[2] = Whole}) \o S!SetToSeq({t \in targets : t[2] # Whole})

\* update_statement adds one assignment after the other, and the values to their lists.
WithTarget(s, t) ==
  [text |-> s.text \o Tokens(t),
   paths |-> s.paths \o IF t[2] = Whole THEN <<>> ELSE [i \in 1 .. PathTokens(t) |-> t],
   keeps |-> s.keeps \o IF t[2] = Whole /\ RuleOf(t[1]).exception THEN <<t>> ELSE <<>>]
Assembled[n \in 0 .. Len(Order)] ==
  IF n = 0 THEN [text |-> <<>>, paths |-> <<>>, keeps |-> <<>>]
           ELSE WithTarget(Assembled[n - 1], Order[n])
Statement == Assembled[Len(Order)].text
PathValues == Assembled[Len(Order)].paths
KeepValues == Assembled[Len(Order)].keeps

\* _bind: the next value of the token's own list.
Nth(i) == Count(Statement, Statement[i].kind, i)
Fits(list, i) == Nth(i) \in DOMAIN list /\ list[Nth(i)] = Statement[i].of

(***************************************************************************)
(* The call, one action per step that can fail on its own.                 *)
(***************************************************************************)
Return(r) == pc' = "returned" /\ told' = r

SwitchedOff ==
  /\ pc = "switch" /\ ~on /\ Return("ok") /\ named' = Columns \X {<<Whole, "left">>}
  /\ UNCHANGED <<inputVars, todo, targets, serverVars>>

ReadColumns ==
  /\ pc = "switch" /\ on /\ pc' = "search"
  /\ todo' = {c \in Columns : Searched(c)}
  /\ targets' = {c \in Columns : Rewritten(c)} \X {Whole}
  /\ named' = {c \in Columns : Reported(c)} \X {<<Whole, "left">>}
  /\ UNCHANGED <<inputVars, serverVars, told>>

\* json_paths for one column; with rows that are not JSON and none that is, it fails.
SearchColumn(c) ==
  /\ pc = "search" /\ c \in todo /\ todo' = todo \ {c}
  /\ Documents(c) # {} \/ Unreadable(c) = {}
  /\ targets' = targets \cup ({c} \X JsonTargets(c))
  /\ named' = named \cup ({c} \X (JsonReported(c) \cup RowsReported(c)))
  /\ UNCHANGED <<inputVars, serverVars, pc, told>>

\* The search failed: the log says so and the next column gets its turn.
SkipColumn(c) ==
  /\ pc = "search" /\ c \in todo /\ todo' = todo \ {c}
  /\ named' = named \cup {<<c, <<Whole, "left">>>>}
  /\ UNCHANGED <<inputVars, targets, serverVars, pc, told>>

NothingToDo ==
  /\ pc = "search" /\ todo = {} /\ targets = {} /\ Return("ok")
  /\ UNCHANGED <<inputVars, planVars, serverVars>>

\* Mutant: a refusal is taken for "no rows affected".
UpdateAnyhow ==
  /\ pc = "search" /\ todo = {} /\ targets # {} /\ Return("ok")
  /\ cells' = (IF Untyped THEN cells ELSE Updated)
  /\ UNCHANGED <<inputVars, planVars, working, lost>>
Update ==
  /\ pc = "search" /\ todo = {} /\ targets # {} /\ ~Untyped /\ Return("ok")
  /\ cells' = Updated
  /\ UNCHANGED <<inputVars, planVars, working, lost>>

\* The columns could not be read, or the UPDATE was refused: the caller must stop.
Fail ==
  /\ \/ pc = "switch" /\ on
     \/ pc = "search" /\ todo = {} /\ targets # {}
  /\ Return("failed") /\ UNCHANGED <<inputVars, planVars, serverVars>>

\* The UPDATE's answer is lost: the caller is told of a failure all the same.
LoseAnswer ==
  /\ pc = "search" /\ todo = {} /\ targets # {} /\ ~Untyped /\ Return("failed")
  /\ working' = TRUE /\ lost' = TRUE /\ UNCHANGED <<inputVars, planVars, cells>>

\* anonymization_salt() is outside of anonymize_table's try: no Keychain, no answer.
NoSalt ==
  /\ pc = "search" /\ todo = {} /\ targets # {} /\ Return("raised")
  /\ UNCHANGED <<inputVars, planVars, serverVars>>

ServerFinishes ==
  /\ working /\ working' = FALSE /\ cells' \in {cells, Updated}
  /\ UNCHANGED <<inputVars, planVars, lost, pc, told>>

Next ==
  \/ SwitchedOff \/ ReadColumns \/ NothingToDo \/ Update \/ Fail \/ LoseAnswer \/ NoSalt
  \/ ServerFinishes
  \/ \E c \in Columns : SearchColumn(c) \/ SkipColumn(c)

Spec == Init /\ [][Next]_vars

(***************************************************************************)
(* Properties.                                                             *)
(***************************************************************************)
\* Every variable holds a value of its type; what is planned lies where a rule says.
TypeOK ==
  /\ dialect \in {"mysql", "postgres"} /\ rules \in RuleLists /\ before \in Table
  /\ on \in BOOLEAN /\ cells \in Cells /\ todo \in SUBSET Columns
  /\ targets \in SUBSET (Columns \X Places)
  /\ named \in SUBSET (Columns \X (Places \X Reasons))
  /\ pc \in {"switch", "search", "returned"} /\ told \in {"pending", "ok", "failed", "raised"}
  /\ working \in BOOLEAN /\ lost \in BOOLEAN
  /\ (pc = "returned") = (told # "pending")

Noted(c, p, why) == <<c, <<p, why>>>> \in named
LeftAlone(c) == Noted(c, Whole, "left")
\* The log says that a document was not read at this place.
NotReached(c, p) ==
  \E q \in Places : (Above(q, p) /\ Noted(c, q, "deep")) \/ (AtOrAbove(q, p) /\ Noted(c, q, "key"))

\* A value the user wants replaced: all of a column with a rule or a name that looks
\* personal, and in a searched document what lies under a key with a rule.  Keys that only
\* look personal are left alone without a word (user-guide.md:157).
Meant(c, p) ==
  IF p = Whole THEN ~Searched(c) /\ (HasRule(c) \/ c \in Personal)
               ELSE Searched(c) /\ HasValueRule(Last(p))
Real(v) == v \in {"REAL", "KEPT", "STRING"}

\* A step that says "ok" leaves nothing that was meant behind in silence.  A real value is
\* rewritten or kept by the rule's exception, or the log says that its column was left alone
\* or its document not read at this place.  A number is rewritten with the strings of other
\* rows or is noted as what it is, unless another row has an object there: anonymize.py:467
\* then says nothing, against user-guide.md:161.
RealIsNamed ==
  told = "ok" =>
    \A c \in Columns, r \in Rows, p \in Places :
      Meant(c, p) /\ ~LeftAlone(c) /\ ~NotReached(c, p) =>
        /\ Real(cells[c][r][p]) => p = Whole /\ cells[c][r][p] = "KEPT" /\ RuleOf(c).exception
        /\ p # Whole /\ cells[c][r][p] = "NUMBER" =>
             \/ Noted(c, p, "type") \/ Noted(c, p, "array")
             \/ \E s \in Rows : before.cells[c][s][p] = "OBJECT"

\* What the search of a column could not see into is named for what it is: rows that are not
\* JSON, whatever the other rows hold, arrays under a key, objects below the last level, and
\* documents that are no objects.  The last are named only if no row's is one: transfer.py:352
\* keeps less than its comment says.
UnsearchedIsNamed ==
  told = "ok" =>
    \A c \in Columns, r \in Rows :
      LET cell == cells[c][r]
      IN Searched(c) /\ ~LeftAlone(c) =>
           /\ cell[Whole] = "INVALID" => Noted(c, Whole, "invalid")
           /\ cell[Whole] \in {"ARRAY", "NUMBER", "STRING"} =>
                Noted(c, Whole, "root") \/ \E s \in Rows : before.cells[c][s][Whole] = "OBJECT"
           /\ \A p \in Paths : ~NotReached(c, p) =>
                /\ cell[p] = "ARRAY" => Noted(c, p, "array")
                /\ cell[p] = "OBJECT" => Len(p) < MaxDepth \/ Noted(c, p, "deep")

\* A key with a rule for its values that is a string in some row.
InSomeRow(c, q) ==
  Searched(c) /\ HasValueRule(Last(q)) /\ \E s \in Rows : before.cells[c][s][q] = "STRING"

\* The UPDATE reaches no further than its plan.  No key appears.  A column that is neither
\* rewritten nor searched stays; in a rewritten one an empty value, NULL and what the
\* exception covers.  A document changes at or below a key that has a rule and is a string
\* in some row, there also where it is none itself, which user-guide.md:161 denies, and on
\* PostgreSQL it goes as a whole where it lacks such a key or has null there (docJsonKey).
OnlyPlannedChanges ==
  \A c \in Columns, r \in Rows :
    LET old == before.cells[c][r]
        new == cells[c][r]
    IN /\ \A p \in Places : old[p] = "ABSENT" => new[p] = "ABSENT"
       /\ Rewritten(c) /\ Keeps(c, old[Whole]) => new = old
       /\ ~Rewritten(c) /\ ~Searched(c) => new = old
       /\ Searched(c) =>
            \/ \A p \in Places :
                 new[p] # old[p] => \E q \in Paths : AtOrAbove(q, p) /\ InSomeRow(c, q)
            \/ /\ dialect = "postgres" /\ new = Only("NULL")
               /\ \E q \in Paths : InSomeRow(c, q) /\ old[q] \in {"ABSENT", "NULL"}

\* An answer tells what the UPDATE did: after "ok" the plan has been carried out, and after
\* any other the rows are what they were, unless the answer itself was lost.
AnswerIsTrue ==
  told # "pending" /\ ~lost =>
    IF told = "ok"
    THEN \A t \in targets, r \in Rows : cells[t[1]][r][t[2]] \notin {"REAL", "STRING"}
    ELSE cells = before.cells

\* Every placeholder of the UPDATE gets the value made for it.
ParametersFit ==
  pc = "search" /\ todo = {} =>
    \A i \in DOMAIN Statement :
      /\ Statement[i].kind = "path" => Fits(PathValues, i)
      /\ Statement[i].kind = "keep" => Fits(KeepValues, i)

\* The JSON design (2026-10-02-json-anonymization.md:17): "the rows that do not carry the
\* key stay untouched".
RowsWithoutKeyStay ==
  \A c \in Columns, r \in Rows :
    (Searched(c) /\ \A p \in TargetsIn(c) : before.cells[c][r][p] = "ABSENT")
      => cells[c][r] = before.cells[c][r]
=============================================================================
