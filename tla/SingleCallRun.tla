---------------------------- MODULE SingleCallRun ----------------------------
(***************************************************************************)
(* A run against a PostgreSQL destination: apitap copies the whole scope   *)
(* in one call, straight into the destination, and the rows are            *)
(* anonymized where they lie.  What happens to one table then is           *)
(* AnonymizeTable; here a table is "real" or "treated".                    *)
(*                                                                         *)
(* While the run waits, the user may move the switch, the source schema    *)
(* may gain and lose tables, and another window of the app may make its    *)
(* first use of the salt.                                                  *)
(***************************************************************************)
EXTENDS Integers, FiniteSets

CONSTANTS
  Tables,  \* table names, numbered in their order
  Limit,   \* how many tables one listing returns (5000)
  Fresh    \* salts this window may draw

ASSUME SizesAssumption ==
  Tables \in SUBSET Nat /\ IsFiniteSet(Tables) /\ Limit \in Nat /\ Fresh \cap {"none", "theirs"} = {}

VARIABLES
  mode,      \* "listed": the scope names its tables; "schema": whatever is in it
  source,    \* tables of the source schema
  moved,     \* tables that were made or dropped there since the run began
  asked,     \* tables of the transfer call
  copied,    \* those it has written to the destination
  dest,      \* what a destination table holds
  on,        \* anonymize_switch.value
  pc,        \* next step of the run
  decided,   \* what the switch was when the run came to anonymizing
  listing,   \* scoped_tables
  todo,      \* those of them that are still to be anonymized
  named,     \* tables the log says keep their data
  salt,      \* the Keychain's entry
  draft,     \* the salt of the statement that is next
  used,      \* the salt a table was treated with
  other,     \* the other window's first use of the salt
  told,      \* how the run ended
  recorded   \* what the history says

sourceVars == <<mode, source, moved, asked>>
destVars == <<copied, dest, used>>
saltVars == <<salt, draft, other>>
logVars == <<named, told, recorded>>
loopVars == <<decided, listing, todo>>
vars == <<sourceVars, destVars, saltVars, logVars, loopVars, on, pc>>

Init ==
  /\ mode \in {"listed", "schema"} /\ source \in SUBSET Tables /\ moved = {}
  /\ asked \in SUBSET source \ {{}} /\ (mode = "schema" => asked = source)
  /\ copied = {} /\ dest \in [Tables -> {"none", "before"}]
  /\ on \in BOOLEAN /\ pc = "copy" /\ named = {}
  /\ decided = FALSE /\ listing = {} /\ todo = {}
  /\ salt \in {"none", "theirs"} /\ draft = "none" /\ used = [t \in Tables |-> "none"]
  /\ other = "idle" /\ told = "pending" /\ recorded = "nothing"

(***************************************************************************)
(* The transfer.                                                           *)
(***************************************************************************)
\* fail() shows the message; only store_run writes to the history.
Fail(r) == pc' = "end" /\ told' = r /\ UNCHANGED recorded
Record(r) == pc' = "end" /\ told' = r /\ recorded' = r

CopyTable ==
  /\ pc = "copy"
  /\ \E t \in asked \ copied : copied' = copied \cup {t} /\ dest' = [dest EXCEPT ![t] = "real"]
  /\ UNCHANGED <<sourceVars, used, saltVars, logVars, loopVars, on, pc>>

TransferDone ==
  /\ pc = "copy" /\ copied = asked /\ pc' = "list"
  /\ UNCHANGED <<sourceVars, destVars, saltVars, logVars, loopVars, on>>

\* "rows may already be in the destination and are NOT anonymized", if the switch is on.
TransferFails ==
  /\ pc = "copy" /\ Record("failed")
  /\ named' = IF on THEN asked ELSE {}
  /\ UNCHANGED <<sourceVars, destVars, saltVars, loopVars, on>>

(***************************************************************************)
(* The tables to anonymize are looked up after the copy.                   *)
(***************************************************************************)
First(n, S) == {t \in S : Cardinality({u \in S : u <= t}) <= n}

\* Mutant: the tables come from the schema, whatever the scope names.
SchemaTables == First(Limit, source)
\* _scope_tables_for_check.
ScopeTables == IF mode = "schema" THEN First(Limit, source) ELSE asked

ListTables ==
  /\ pc = "list" /\ pc' = "generated" /\ listing' = ScopeTables
  /\ UNCHANGED <<sourceVars, destVars, saltVars, logVars, decided, todo, on>>

\* "Transfer done, but the tables could not be listed"
ListFails ==
  /\ pc = "list" /\ mode = "schema" /\ Fail("not listed")
  /\ UNCHANGED <<sourceVars, destVars, saltVars, named, loopVars, on>>

\* source_generated_columns: its outcome is logged, the run goes on either way.
ReadGenerated ==
  /\ pc = "generated" /\ pc' = "check"
  /\ UNCHANGED <<sourceVars, destVars, saltVars, logVars, loopVars, on>>

\* The switch decides once for the loop, and again in every step of it.
Check ==
  /\ pc = "check" /\ decided' = on
  /\ IF on THEN pc' = "next" /\ todo' = listing /\ UNCHANGED <<told, recorded>>
           ELSE Record("success") /\ UNCHANGED todo
  /\ UNCHANGED <<sourceVars, destVars, saltVars, named, listing, on>>

(***************************************************************************)
(* anonymize_step for the first of the tables that are left.               *)
(***************************************************************************)
\* Mutant: the list is taken from its end.
IsLast(t) == t \in todo /\ \A u \in todo : t >= u
IsNext(t) == t \in todo /\ \A u \in todo : t <= u

Named(t) == named \cup {t}

LeaveReal ==
  /\ pc = "next" /\ ~on
  /\ \E t \in Tables : IsNext(t) /\ named' = Named(t) /\ todo' = todo \ {t}
  /\ UNCHANGED <<sourceVars, destVars, saltVars, told, recorded, decided, listing, on, pc>>

\* Mutant: the run goes on with the next table.
StepSkipped ==
  /\ pc = "next" /\ on
  /\ \E t \in Tables : IsNext(t) /\ todo' = todo \ {t}
  /\ UNCHANGED <<sourceVars, destVars, saltVars, logVars, decided, listing, on, pc>>
\* Columns not readable, which is what a missing table means as well, or JSON not searched.
StepFails ==
  /\ pc = "next" /\ on /\ Fail("step failed")
  /\ \E t \in Tables : IsNext(t) /\ named' = named \cup {t}
  /\ UNCHANGED <<sourceVars, destVars, saltVars, loopVars, on>>

\* Nothing to rewrite in this table: whatever it keeps is named, as RealIsNamed has it.
NothingToDo ==
  /\ pc = "next" /\ on
  /\ \E t \in Tables : /\ IsNext(t) /\ dest[t] # "none"
                       /\ todo' = todo \ {t} /\ dest' = [dest EXCEPT ![t] = "treated"]
  /\ UNCHANGED <<sourceVars, copied, used, saltVars, logVars, decided, listing, on, pc>>

\* Mutant: a salt is made for every statement.
ReadNothing == pc' = "salt" /\ UNCHANGED draft
\* anonymization_salt: an existing one is used.
UseExisting ==
  IF salt = "none" THEN pc' = "salt" /\ UNCHANGED draft ELSE pc' = "update" /\ draft' = salt

ReadSalt ==
  /\ pc = "next" /\ on /\ \E t \in Tables : IsNext(t) /\ dest[t] # "none"
  /\ UseExisting
  /\ UNCHANGED <<sourceVars, destVars, salt, other, logVars, loopVars, on>>

\* Otherwise a new one, which replaces what has appeared there in the meantime.
CreateSalt ==
  /\ pc = "salt" /\ pc' = "update"
  /\ \E s \in Fresh \ {used[t] : t \in Tables} : salt' = s /\ draft' = s
  /\ UNCHANGED <<sourceVars, destVars, other, logVars, loopVars, on>>

\* A Keychain that does not answer, where no clause of the service catches it: "Unhandled error".
KeychainFails ==
  /\ \/ pc = "list" /\ mode = "schema"
     \/ pc = "next" /\ on /\ todo # {}
     \/ pc = "salt"
  /\ Fail("raised")
  /\ UNCHANGED <<sourceVars, destVars, saltVars, named, loopVars, on>>

Update ==
  /\ pc = "update" /\ pc' = "next"
  /\ \E t \in Tables : /\ IsNext(t) /\ todo' = todo \ {t}
                       /\ dest' = [dest EXCEPT ![t] = "treated"]
                       /\ used' = [used EXCEPT ![t] = draft]
  /\ UNCHANGED <<sourceVars, copied, saltVars, logVars, decided, listing, on>>

\* The UPDATE is refused, or its answer is lost.
UpdateFails ==
  /\ pc = "update" /\ Fail("step failed")
  /\ \E t \in Tables :
       /\ IsNext(t) /\ named' = named \cup {t}
       /\ \/ UNCHANGED <<dest, used>>
          \/ dest' = [dest EXCEPT ![t] = "treated"] /\ used' = [used EXCEPT ![t] = draft]
  /\ UNCHANGED <<sourceVars, copied, saltVars, loopVars, on>>

Finish ==
  /\ pc = "next" /\ todo = {} /\ Record("success")
  /\ UNCHANGED <<sourceVars, destVars, saltVars, named, loopVars, on>>

(***************************************************************************)
(* Meanwhile.                                                              *)
(***************************************************************************)
MoveSwitch ==
  /\ pc # "end" /\ on' = ~on
  /\ UNCHANGED <<sourceVars, destVars, saltVars, logVars, loopVars, pc>>

SourceChanges ==
  /\ pc # "end" /\ mode = "schema"
  /\ \E t \in Tables \ moved :
       /\ moved' = moved \cup {t}
       /\ source' = IF t \in source THEN source \ {t} ELSE source \cup {t}
  /\ UNCHANGED <<mode, asked, destVars, saltVars, logVars, loopVars, on, pc>>

OtherReads ==
  /\ other = "idle" /\ salt = "none" /\ other' = "creating"
  /\ UNCHANGED <<sourceVars, destVars, salt, draft, logVars, loopVars, on, pc>>

OtherWrites ==
  /\ other = "creating" /\ salt' = "theirs" /\ other' = "created"
  /\ UNCHANGED <<sourceVars, destVars, draft, logVars, loopVars, on, pc>>

RunStep ==
  \/ CopyTable \/ TransferDone \/ TransferFails \/ ListTables \/ ListFails \/ ReadGenerated
  \/ Check \/ LeaveReal \/ StepFails \/ NothingToDo \/ ReadSalt \/ CreateSalt \/ KeychainFails
  \/ Update \/ UpdateFails \/ Finish

Next == RunStep \/ MoveSwitch \/ SourceChanges \/ OtherReads \/ OtherWrites

Spec == Init /\ [][Next]_vars

(***************************************************************************)
(* Properties.                                                             *)
(***************************************************************************)
Salts == {"none", "theirs"} \cup Fresh

\* Every variable holds a value of its type, and only a success is recorded as one.
TypeOK ==
  /\ mode \in {"listed", "schema"} /\ source \in SUBSET Tables /\ moved \in SUBSET Tables
  /\ asked \in SUBSET Tables /\ copied \in SUBSET asked
  /\ dest \in [Tables -> {"none", "before", "real", "treated"}]
  /\ on \in BOOLEAN /\ decided \in BOOLEAN
  /\ listing \in SUBSET Tables /\ todo \in SUBSET Tables
  /\ named \in SUBSET Tables /\ salt \in Salts /\ draft \in Salts
  /\ used \in [Tables -> Salts] /\ other \in {"idle", "creating", "created"}
  /\ pc \in {"copy", "list", "generated", "check", "next", "salt", "update", "end"}
  /\ told \in {"pending", "success", "failed", "not listed", "step failed", "raised"}
  /\ recorded \in {"nothing", "success", "failed"}
  /\ (recorded = "success" <=> told = "success") /\ (pc = "end" <=> told # "pending")

\* A table of a schema that the listing may miss: made or dropped there during the run, or
\* behind as many others as one listing returns.
Overlooked(t) ==
  mode = "schema" /\ (t \in moved \/ Cardinality({u \in source \cup moved : u < t}) >= Limit)

\* A run that the history calls a success, and that found the switch on when it came to
\* anonymizing, leaves no table it has copied real without naming it in the log.  Two kinds
\* slip through: tables beyond the first 5000 of a schema, and those the schema has lost.
SuccessAccountsForAll ==
  recorded = "success" /\ decided =>
    \A t \in copied : dest[t] = "real" => t \in named \/ Overlooked(t)

\* When a step fails, the table the message names is where the run stopped: every listed
\* table before it is treated or named, and the real ones left are that one, later ones
\* and the overlooked.
StopsWhereItSays ==
  told = "step failed" =>
    \E t \in named \cap todo :
      \A u \in copied : dest[u] = "real" => u \in named \/ u > t \/ Overlooked(u)

\* Only tables of the run's own scope are rewritten.  The exception is a table that came
\* into the source schema during the run and that the destination had already.
OnlyScopeTreated ==
  \A t \in Tables : dest[t] = "treated" => t \in copied \/ (mode = "schema" /\ t \in moved)

\* The same value gets the same replacement in all tables of the run, unless another window
\* made its first salt at the same time.
EqualStaysEqual ==
  \A t, u \in Tables :
    used[t] # "none" /\ used[u] # "none" /\ used[t] # used[u] => other = "created"
=============================================================================
