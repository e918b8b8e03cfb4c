------------------------------ MODULE EmptyTable ------------------------------
(***************************************************************************)
(* _ensure_empty_mysql_table_from_source_sync: the destination gets an     *)
(* empty table made from the source's SHOW CREATE TABLE.  Whatever the     *)
(* server refuses is taken out of the statement and it is sent again: a    *)
(* default, all defaults, the foreign keys, and in the end everything but  *)
(* the columns themselves.                                                 *)
(*                                                                         *)
(* A column line of the statement is reduced to what the text surgery      *)
(* depends on.  The search for a default finds the first word "default" of *)
(* the line, which may be in its comment, and cuts up to the next clause   *)
(* it knows, or else to the end of the line, the comma included.           *)
(***************************************************************************)
CONSTANTS Columns, Keys  \* columns and foreign keys the source table may have

VARIABLES
  source,    \* the definition in the source
  server,    \* what the destination accepts
  stmt,      \* the statement as it is sent next
  pc,        \* next statement of the call
  final,     \* who made the table in the destination
  got,       \* what the table has if the call made it
  working,   \* a CREATE the server is still at, its answer lost
  lost,      \* whether an answer was lost
  deferred,  \* deferred_fk_sql
  omitted,   \* removed_defaults or invalid_default_strips is not 0
  bare,      \* whether the message says "column-only schema copy"
  told       \* what the caller is told

inputVars == <<source, server>>
tableVars == <<final, got, working>>
answerVars == <<lost, deferred, omitted, bare, told>>
vars == <<inputVars, stmt, pc, tableVars, answerVars>>

Line == [default : {"none", "null", "literal"}, binary : BOOLEAN,
         tail : {"none", "clause", "says default"}, last : BOOLEAN, broken : BOOLEAN]
Definition == [lines : [Columns -> Line], keys : SUBSET Keys]
Made == [defaults : SUBSET Columns, keys : SUBSET Keys, whole : BOOLEAN]
Server == [refused : SUBSET Columns,  \* columns whose literal default it refuses
           readable : BOOLEAN,        \* whether its message names the column
           dialect : BOOLEAN,         \* whether it parses the source's DDL
           parents : SUBSET Keys]     \* keys whose referenced table is there

NothingYet == [defaults |-> {}, keys |-> {}, whole |-> FALSE]

Literals(d) == {c \in Columns : d.lines[c].default = "literal"}

Init ==
  /\ source \in Definition
  /\ \A c \in Columns : ~source.lines[c].broken
  /\ \A c, e \in Columns : source.lines[c].last /\ source.lines[e].last => c = e
  /\ (\E c \in Columns : source.lines[c].last) => source.keys = {}
  /\ server \in Server /\ server.refused \subseteq Literals(source)
  /\ server.parents \subseteq source.keys
  /\ stmt = source /\ pc = "read"
  /\ final \in {"absent", "other"} /\ got = NothingYet /\ working = "none"
  /\ lost = FALSE /\ deferred = {} /\ omitted = FALSE /\ bare = FALSE
  /\ told = "pending"

(***************************************************************************)
(* The text surgery.                                                       *)
(***************************************************************************)
Removable(l) == l.default # "none" \/ l.tail = "says default"

\* Mutant: the clause stays where another one follows, and counts as removed.
WithoutDefaultAtTheEnd(l) ==
  IF l.tail = "clause" THEN l ELSE [l EXCEPT !.default = "none"]
\* DEFAULT NULL loses its first word only; any other clause goes up to the next one.
WithoutDefault(l) ==
  CASE l.default = "null" -> [l EXCEPT !.default = "none"]
    [] l.default = "literal" ->
         [l EXCEPT !.default = "none",
                   !.broken = @ \/ (l.tail = "none" /\ ~l.last)]
    [] l.default = "none" /\ l.tail = "says default" ->
         [l EXCEPT !.tail = "clause", !.broken = TRUE]
    [] OTHER -> l

StripLines(d, S) ==
  [d EXCEPT !.lines = [c \in Columns |->
     IF c \in S /\ Removable(d.lines[c]) THEN WithoutDefault(d.lines[c])
                                         ELSE d.lines[c]]]

BinaryColumns(d) == {c \in Columns : d.lines[c].binary /\ Removable(d.lines[c])}

\* One column if the message names it, every column if it does not.
ToStrip(c) == IF server.readable THEN {c} ELSE Columns

(***************************************************************************)
(* What the server says to a statement, in the order it looks.             *)
(***************************************************************************)
Parses(d) == server.dialect /\ \A c \in Columns : ~d.lines[c].broken
RefusedIn(d) == server.refused \cap Literals(d)

Verdict(d) ==
  CASE ~Parses(d) -> "syntax"
    [] Parses(d) /\ RefusedIn(d) # {} -> "default"
    [] Parses(d) /\ RefusedIn(d) = {} /\ ~(d.keys \subseteq server.parents) -> "keys"
    [] OTHER -> "fine"

Built(d) == [defaults |-> Literals(d), keys |-> d.keys, whole |-> TRUE]

(***************************************************************************)
(* The call, one action per statement and answer.                          *)
(***************************************************************************)
Return(r) == pc' = "returned" /\ told' = r

\* SHOW CREATE TABLE on the source, and the binary defaults out of it.
ReadDefinition ==
  /\ pc = "read" /\ pc' = "create"
  /\ stmt' = StripLines(source, BinaryColumns(source))
  /\ omitted' = (BinaryColumns(source) # {})
  /\ UNCHANGED <<inputVars, tableVars, lost, deferred, bare, told>>

\* Mutant: CREATE TABLE IF NOT EXISTS.
CreateIfNotExists ==
  /\ pc \in {"create", "without keys"} /\ Verdict(stmt) = "fine"
  /\ pc' = "made"
  /\ IF final = "absent" THEN final' = "here" /\ got' = Built(stmt)
                         ELSE UNCHANGED <<final, got>>
  /\ UNCHANGED <<inputVars, stmt, working, answerVars>>
Create ==
  /\ pc \in {"create", "without keys"} /\ Verdict(stmt) = "fine" /\ final = "absent"
  /\ final' = "here" /\ got' = Built(stmt) /\ pc' = "made"
  /\ UNCHANGED <<inputVars, stmt, working, answerVars>>

\* Mutant: only a default that was named counts.
CountedIfNamed == server.readable
Counted == TRUE
\* 1067: one default goes, or all of them, and the statement is sent again.
StripDefault ==
  /\ pc = "create" /\ Verdict(stmt) = "default"
  /\ \E c \in RefusedIn(stmt) : stmt' = StripLines(stmt, ToStrip(c))
  /\ omitted' = (omitted \/ Counted)
  /\ UNCHANGED <<inputVars, pc, tableVars, lost, deferred, bare, told>>

\* Mutant: only the keys that stood in the way are kept for later.
MissingParents == stmt.keys \ server.parents
DeferredKeys == stmt.keys
KeysLeft == {}
\* _MYSQL_FK_BLOCKS_CREATE: every key becomes an ALTER statement for later.
StripKeys ==
  /\ pc = "create" /\ Verdict(stmt) = "keys"
  /\ deferred' = DeferredKeys /\ stmt' = [stmt EXCEPT !.keys = KeysLeft]
  /\ pc' = "without keys"
  /\ UNCHANGED <<inputVars, tableVars, lost, omitted, bare, told>>

\* 1064: nothing but the columns as SHOW COLUMNS tells them.
FallBack ==
  /\ pc = "create" /\ Verdict(stmt) = "syntax" /\ pc' = "columns"
  /\ UNCHANGED <<inputVars, stmt, tableVars, answerVars>>

ReadColumns ==
  /\ pc = "columns" /\ pc' = "create columns"
  /\ UNCHANGED <<inputVars, stmt, tableVars, answerVars>>

CreateColumns ==
  /\ pc = "create columns" /\ final = "absent"
  /\ final' = "here" /\ got' = NothingYet /\ bare' = TRUE /\ pc' = "made"
  /\ UNCHANGED <<inputVars, stmt, working, lost, deferred, omitted, told>>

\* The message is put together: counts of what was left out, or "column-only".
Answer ==
  /\ pc = "made" /\ Return("created")
  /\ UNCHANGED <<inputVars, stmt, tableVars, lost, deferred, omitted, bare>>

\* The table has been made by somebody else in the meantime.
TableExists ==
  /\ final # "absent" /\ Return("failed")
  /\ pc \in {"create", "without keys", "create columns"}
  /\ pc # "create columns" => Verdict(stmt) = "fine"
  /\ UNCHANGED <<inputVars, stmt, tableVars, lost, deferred, omitted, bare>>

\* Any other error, of either server, at any of the calls.
Refuse ==
  /\ pc \notin {"made", "returned"} /\ Return("failed")
  /\ UNCHANGED <<inputVars, stmt, tableVars, lost, deferred, omitted, bare>>

\* The connection breaks, or 20 seconds pass, while the server is at a CREATE.
LoseAnswer ==
  /\ \/ pc \in {"create", "without keys"} /\ Verdict(stmt) = "fine" /\ working' = "table"
     \/ pc = "create columns" /\ working' = "columns"
  /\ final = "absent" /\ lost' = TRUE /\ Return("failed")
  /\ UNCHANGED <<inputVars, stmt, final, got, deferred, omitted, bare>>

ServerFinishes ==
  /\ working # "none" /\ working' = "none"
  /\ \/ UNCHANGED <<final, got>>
     \/ /\ final' = "here"
        /\ got' = IF working = "table" THEN Built(stmt) ELSE NothingYet
  /\ UNCHANGED <<inputVars, stmt, pc, answerVars>>

CallStep ==
  \/ ReadDefinition \/ Create \/ StripDefault \/ StripKeys \/ FallBack
  \/ ReadColumns \/ CreateColumns \/ Answer \/ TableExists

Next == CallStep \/ Refuse \/ LoseAnswer \/ ServerFinishes

Spec == Init /\ [][Next]_vars

(***************************************************************************)
(* Properties.                                                             *)
(***************************************************************************)
\* Every variable holds a value of its type, and the statement without keys has none.
TypeOK ==
  /\ source \in Definition /\ server \in Server /\ stmt \in Definition
  /\ pc \in {"read", "create", "without keys", "columns", "create columns", "made", "returned"}
  /\ final \in {"absent", "other", "here"} /\ got \in Made
  /\ working \in {"none", "table", "columns"} /\ lost \in BOOLEAN
  /\ deferred \in SUBSET Keys /\ omitted \in BOOLEAN /\ bare \in BOOLEAN
  /\ told \in {"pending", "created", "failed"}
  /\ (pc = "returned") = (told # "pending")
  /\ pc = "without keys" => stmt.keys = {}

\* Each foreign key of a table that was created is on the table or in the statements for
\* the second pass, and never in both, where the second pass would fail on it.  The
\* exception is the column-only copy, which says so.
KeysInHand ==
  told = "created" =>
    /\ bare \/ source.keys = got.keys \cup deferred
    /\ got.keys \cap deferred = {}

\* A default that did not make it to the created table shows in the message, as a count
\* or as the column-only copy; and as long as the server's message names the column, it
\* went out of a binary column or of one whose default the server refused, however many
\* retries it took.
DefaultsKept ==
  told = "created" =>
    /\ got.defaults # Literals(source) => omitted \/ bare
    /\ ~bare /\ server.readable =>
         \A c \in Literals(source) \ got.defaults :
           source.lines[c].binary \/ c \in server.refused

\* Words "default" of a statement, those in comments too.
Words(d) ==
  {<<c, "clause">> : c \in {e \in Columns : d.lines[e].default # "none"}} \cup
  {<<c, "comment">> : c \in {e \in Columns : d.lines[e].tail = "says default"}}

\* Every time the statement is sent again because of a default it has become shorter:
\* the loop without a counter (transfer.py:2503) cannot go on for ever.
RetriesShrink ==
  [][pc = "create" /\ pc' = "create" =>
       Words(stmt') \subseteq Words(stmt) /\ Words(stmt') # Words(stmt)]_vars

\* The call keeps the promise of publishing a table: "created" means the table of this
\* call is there, a refusal means nothing was made and nothing will be, and somebody
\* else's table is never touched.  Only a lost answer promises nothing.
Content ==
  CASE final = "absent" -> "absent" [] final = "other" -> "old" [] final = "here" -> "new"
Result ==
  CASE told = "created" -> "done"
    [] told = "failed" /\ ~lost -> "refused"
    [] told = "failed" /\ lost -> "failed"
    [] told = "pending" -> "pending"
Promise == INSTANCE TableReplace WITH Atomic <- TRUE, content <- Content, result <- Result
PublishesTable == Promise!Spec
=============================================================================
