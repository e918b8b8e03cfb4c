----------------------------- MODULE FinalizeRun -----------------------------
(***************************************************************************)
(* One press of Run against a MySQL destination: run_transfer_task in      *)
(* app.py with the TransferService calls it awaits.  Every table of the    *)
(* scope is copied into a temp table, rewritten, completed and published   *)
(* by a swap, or, when another table references it, by replacing its rows  *)
(* in place; what the copy lost (indexes, definition details, checks,      *)
(* foreign keys) is put back around that.                                  *)
(*                                                                         *)
(* One action is one awaited call with one of its results and the          *)
(* statements up to the next await.  What happens inside the two publishing *)
(* calls is the subject of SwapTable and ReplaceInPlace; this module takes *)
(* from them the set of results they can have.  Other actors are the user  *)
(* (Cancel, the rule dialogs, killing the app) and the database server,    *)
(* which may refuse any statement.                                         *)
(*                                                                         *)
(* The source is a MySQL or a PostgreSQL server.  Of a PostgreSQL source   *)
(* nothing but rows, types and primary keys is carried over.               *)
(***************************************************************************)
EXTENDS Integers, Sequences, FiniteSets

CONSTANTS
  Tables,      \* table names that may exist in the destination database
  Scope,       \* sequence over Tables: what the user asked to copy, in order
  Refs,        \* <<child, parent>>: the foreign keys of the source
  Carries,     \* table -> the details its source definition has
  Sources,     \* kinds of server the source profile may name
  OtherClients,  \* whether another program may add foreign keys to the destination
  PartialCopies, \* whether a copy by apitap that fails may leave a table behind
  MaxRuns      \* bound on how often Run is pressed

Aspects == {"indexes", "columns", "auto_increment", "checks"}
InScope == {Scope[i] : i \in 1 .. Len(Scope)}
KeysOf(t) == {k \in Refs : k[1] = t}
Details == {d \in Aspects \X Tables : d[1] \in Carries[d[2]]}

ASSUME ScopeAssumption == Scope \in Seq(Tables)
\* _unique_in_order; a schema lists each of its tables once.
ASSUME DistinctAssumption == \A i, j \in 1 .. Len(Scope) : Scope[i] = Scope[j] => i = j
ASSUME RefsAssumption == Refs \subseteq Tables \X Tables
ASSUME CarriesAssumption == Carries \in [Tables -> SUBSET Aspects]
ASSUME SourcesAssumption == Sources \subseteq {"mysql", "postgres"}
ASSUME OtherClientsAssumption == OtherClients \in BOOLEAN
ASSUME PartialCopiesAssumption == PartialCopies \in BOOLEAN
ASSUME MaxRunsAssumption == MaxRuns \in Nat

VARIABLES
  \* The destination database.
  final,         \* table -> what the table of that name holds
  temp,          \* table -> what this run's temp table for it holds
  has,           \* table -> the details the final table carries
  tempHas,       \* table -> the details its temp table carries
  keys,          \* foreign keys whose child is the final table
  backupKeys,    \* key names held by outgoing tables that could not be dropped
  backupChecks,  \* tables whose check names such an outgoing table still holds
  pointsAtOld,   \* keys that followed a renamed table onto the outgoing copy
  orphans,       \* tables with a temp table no run will ever drop
  \* The running task.
  pc, idx,       \* next call, and how many tables of Scope were begun
  wanted,        \* details the run has clauses for
  wantedKeys,    \* source_fks
  openTemps,     \* open_temp_tables
  landed,        \* landed_tables
  deferredChecks, deferredKeys,
  cancel,        \* run_state["cancel"]
  anonymize,     \* anonymize_switch.value
  source,        \* src.db_type of the latest run
  outcome,
  \* What the user is told, and what the properties remember.
  warnedOff,     \* tables logged as "keeps its personal data as it is"
  reported,      \* details named in a WARN
  reportedKeys,  \* foreign keys named in a WARN, or covered by one
  unchanged,     \* tables logged as "destination left unchanged", or emptied
  stored,        \* the run is in the history
  excused,       \* tables whose temp was left for a cause the code cannot mend
  runs           \* how often Run was pressed

dstVars == <<final, temp, has, tempHas>>
keyVars == <<keys, backupKeys, backupChecks, pointsAtOld>>
planVars == <<wanted, wantedKeys>>
todoVars == <<deferredChecks, deferredKeys>>
userVars == <<cancel, anonymize, source>>
logVars == <<warnedOff, reported, reportedKeys, unchanged>>
tempVars == <<openTemps, orphans, excused>>
endVars == <<outcome, stored, runs>>
vars == <<dstVars, keyVars, planVars, todoVars, userVars, logVars, tempVars,
          endVars, pc, idx, landed>>

Content == {"absent", "empty", "old", "real", "rewritten"}
TempContent == {"absent", "real", "rewritten"}
Steps == {"idle", "resolve", "definitions", "indexes", "foreignKeys", "next",
          "copy", "verify", "inbound", "rewriteInPlace", "replace", "compare",
          "recheck", "rewrite", "indexTemp", "define", "increment", "swap",
          "lookup", "create", "countAbsent", "count", "empty", "indexFinal",
          "secondPass", "restoreChecks", "restoreKeys", "store", "cleanup"}
Outcomes == {"none", "success", "cancelled", "failed", "killed"}

Cur == Scope[idx]
Wanted(as, t) == {a \in as : <<a, t>> \in wanted}
Named(as, t) == {<<a, t>> : a \in as}
KeyVisible(k) == k \in keys \cup backupKeys
\* Mutant: overlooks the keys of an outgoing table that was kept.
HasInboundKeyOfFinals(t) == \E k \in Refs : k \in keys /\ k[2] = t
HasInboundKey(t) == \E k \in Refs : KeyVisible(k) /\ k[2] = t
Running == pc \notin {"idle", "cleanup"}

(***************************************************************************)
(* A destination as some earlier program left it: any tables, each with    *)
(* the source's details or, from an early version of this one, with none,  *)
(* and any foreign keys between tables that exist.                         *)
(***************************************************************************)
Init ==
  /\ final \in [Tables -> {"absent", "old"}]
  /\ has \in [Tables -> SUBSET Aspects]
  /\ \A t \in Tables : has[t] \in {{}, Carries[t]} /\ (final[t] = "absent" => has[t] = {})
  /\ keys \in SUBSET {k \in Refs : final[k[1]] # "absent" /\ final[k[2]] # "absent"}
  /\ temp = [t \in Tables |-> "absent"]
  /\ tempHas = [t \in Tables |-> {}]
  /\ backupKeys = {} /\ backupChecks = {} /\ pointsAtOld = {} /\ orphans = {}
  /\ pc = "idle" /\ idx = 0
  /\ wanted = {} /\ wantedKeys = {} /\ openTemps = {} /\ landed = {}
  /\ deferredChecks = {} /\ deferredKeys = {}
  /\ cancel = FALSE /\ anonymize \in BOOLEAN /\ source \in Sources
  /\ outcome = "none" /\ stored = FALSE /\ runs = 0
  /\ warnedOff = {} /\ reported = {} /\ reportedKeys = {} /\ unchanged = {}
  /\ excused = {}

(***************************************************************************)
(* The run begins, from the profile chosen as source.  From here on "old"  *)
(* is whatever the tables held then.                                       *)
(***************************************************************************)
StartRun ==
  /\ pc = "idle" /\ runs < MaxRuns
  /\ pc' = "resolve" /\ idx' = 0 /\ runs' = runs + 1 /\ source' \in Sources
  /\ final' = [t \in Tables |-> IF final[t] = "absent" THEN "absent" ELSE "old"]
  /\ wanted' = {} /\ wantedKeys' = {} /\ landed' = {}
  /\ deferredChecks' = {} /\ deferredKeys' = {}
  /\ cancel' = FALSE /\ outcome' = "none" /\ stored' = FALSE
  /\ warnedOff' = {} /\ reported' = {} /\ reportedKeys' = {} /\ unchanged' = {}
  /\ UNCHANGED <<temp, has, tempHas, keyVars, tempVars, anonymize>>

\* fail(): the task ends, its finally clause still runs.
Fail ==
  /\ outcome' = "failed" /\ pc' = "cleanup"
  /\ UNCHANGED <<stored, runs>>

GoTo(step) == pc' = step /\ UNCHANGED endVars
AtStep(step) == pc = step /\ UNCHANGED <<userVars, idx>>

(***************************************************************************)
(* Reading the source once for the whole run.                              *)
(***************************************************************************)
ResolveScope ==
  /\ AtStep("resolve")
  /\ GoTo("definitions") \/ Fail
  /\ UNCHANGED <<dstVars, keyVars, planVars, todoVars, logVars, tempVars, landed>>

\* Tables whose DDL cannot be read are named; no answer at all ends the run.  Of another
\* source than MySQL no definition is read, and the log says so.
ReadDefinitions ==
  /\ AtStep("definitions")
  /\ LET ds == {d \in Details : d[1] # "indexes" /\ d[2] \in InScope}
     IN  \/ /\ source = "mysql"
            /\ \E unread \in SUBSET InScope :
                 LET lost == {d \in ds : d[2] \in unread}
                 IN  wanted' = ds \ lost /\ reported' = reported \cup lost
            /\ GoTo("indexes")
         \/ /\ source = "postgres" /\ reported' = reported \cup ds
            /\ GoTo("indexes") /\ UNCHANGED wanted
         \/ source = "mysql" /\ Fail /\ UNCHANGED <<wanted, reported>>
  /\ UNCHANGED <<dstVars, keyVars, wantedKeys, todoVars, warnedOff, reportedKeys,
                 unchanged, tempVars, landed>>

\* The indexes are read, or the log says that there will be none.
ReadIndexes ==
  /\ AtStep("indexes") /\ GoTo("foreignKeys")
  /\ LET ds == {d \in Details : d[1] = "indexes" /\ d[2] \in InScope}
     IN  \/ source = "mysql" /\ wanted' = wanted \cup ds /\ UNCHANGED reported
         \/ reported' = reported \cup ds /\ UNCHANGED wanted
  /\ UNCHANGED <<dstVars, keyVars, wantedKeys, todoVars, warnedOff, reportedKeys,
                 unchanged, tempVars, landed>>

\* `if src.db_type == "mysql":` has no else: of another source the keys are neither read
\* nor spoken of.
ReadForeignKeys ==
  /\ AtStep("foreignKeys") /\ GoTo("next")
  /\ LET ks == {k \in Refs : k[1] \in InScope}
     IN  \/ source = "mysql" /\ wantedKeys' = ks /\ UNCHANGED reportedKeys
         \/ source = "mysql" /\ reportedKeys' = ks /\ UNCHANGED wantedKeys
         \/ source = "postgres" /\ UNCHANGED <<wantedKeys, reportedKeys>>
  /\ UNCHANGED <<dstVars, keyVars, wanted, todoVars, warnedOff, reported,
                 unchanged, tempVars, landed>>

(***************************************************************************)
(* The loop over the scope.                                                *)
(***************************************************************************)
\* Mutant: a cancelled run skips what the swaps owe.
AfterLoopUnlessCancelled(cancelled) == IF cancelled THEN "store" ELSE "restoreChecks"
AfterLoop(cancelled) ==
  IF deferredKeys # {} /\ ~cancelled THEN "secondPass" ELSE "restoreChecks"

\* Mutant: the last table is left out.
MoreThanOneLeft == idx + 1 < Len(Scope)
TablesLeft == idx < Len(Scope)
\* Mutant: tries the same table again.
RepeatTable == idx' = IF idx = 0 THEN 1 ELSE idx
BeginTable == idx' = idx + 1

\* `cancelled` is a local of the task; outcome holds it until the run ends.
NextTable ==
  /\ pc = "next" /\ UNCHANGED userVars
  /\ \/ /\ TablesLeft /\ ~cancel
        /\ BeginTable /\ pc' = "copy" /\ UNCHANGED outcome
     \/ /\ TablesLeft /\ cancel
        /\ outcome' = "cancelled" /\ pc' = AfterLoop(TRUE) /\ UNCHANGED idx
     \/ /\ ~TablesLeft
        /\ pc' = AfterLoop(FALSE) /\ UNCHANGED <<idx, outcome>>
  /\ UNCHANGED <<dstVars, keyVars, planVars, todoVars, logVars, tempVars, landed,
                 stored, runs>>

\* transfer_single_table: no rows in the source means no temp table.  A copy that
\* fails may have written one, which open_temp_tables does not hold yet.
CopyTable ==
  /\ AtStep("copy")
  /\ \/ /\ temp' = [temp EXCEPT ![Cur] = "real"]
        /\ openTemps' = openTemps \cup {Cur}
        /\ GoTo("verify") /\ UNCHANGED excused
     \/ /\ openTemps' = openTemps \cup {Cur}
        /\ GoTo("verify") /\ UNCHANGED <<temp, excused>>
     \/ /\ Fail
        /\ \/ UNCHANGED <<temp, excused>>
           \/ /\ PartialCopies
              /\ temp' = [temp EXCEPT ![Cur] = "real"]
              /\ excused' = excused \cup {Cur}
        /\ UNCHANGED openTemps
  /\ UNCHANGED <<final, has, tempHas, keyVars, planVars, todoVars, logVars,
                 orphans, landed>>

VerifyTemp ==
  /\ AtStep("verify")
  /\ \/ temp[Cur] # "absent" /\ GoTo("inbound")
     \/ temp[Cur] = "absent" /\ GoTo("lookup")
     \/ Fail
  /\ UNCHANGED <<dstVars, keyVars, planVars, todoVars, logVars, tempVars, landed>>

\* Mutant: publishes in place first.
AfterInboundReplacing(found) == IF found THEN "replace" ELSE "rewrite"
AfterInbound(found) == IF found THEN "rewriteInPlace" ELSE "rewrite"

CheckInbound ==
  /\ AtStep("inbound")
  /\ GoTo(AfterInbound(HasInboundKey(Cur))) \/ Fail
  /\ UNCHANGED <<dstVars, keyVars, planVars, todoVars, logVars, tempVars, landed>>

\* anonymize_step on the temp table; off, it says so and leaves the rows alone.
\* "rewritten" is what the rules, as configured, make of the rows.
Anonymize(step, following) ==
  /\ AtStep(step)
  /\ \/ /\ anonymize /\ temp' = [temp EXCEPT ![Cur] = "rewritten"]
        /\ GoTo(following) /\ UNCHANGED warnedOff
     \/ /\ ~anonymize /\ warnedOff' = warnedOff \cup {Cur}
        /\ GoTo(following) /\ UNCHANGED temp
     \/ anonymize /\ Fail /\ UNCHANGED <<temp, warnedOff>>
  /\ UNCHANGED <<final, has, tempHas, keyVars, planVars, todoVars, reported,
                 reportedKeys, unchanged, tempVars, landed>>

AnonymizeTemp == Anonymize("rewrite", "indexTemp")
AnonymizeForReplace == Anonymize("rewriteInPlace", "replace")

(***************************************************************************)
(* Publishing by replacing the rows, for a table others reference.         *)
(***************************************************************************)
\* Whether a failure struck before the DELETE, after it, after the INSERT or after
\* the DROP decides what is left.
ReplaceRows ==
  /\ AtStep("replace")
  /\ \/ /\ final[Cur] # "absent" /\ final' = [final EXCEPT ![Cur] = temp[Cur]]
        /\ temp' = [temp EXCEPT ![Cur] = "absent"]
        /\ openTemps' = openTemps \ {Cur}
        /\ GoTo("compare")
     \/ /\ Fail /\ UNCHANGED openTemps
        /\ \/ UNCHANGED <<final, temp>>
           \/ /\ final[Cur] # "absent"
              /\ \E rows \in {"empty", temp[Cur]} : final' = [final EXCEPT ![Cur] = rows]
              /\ UNCHANGED temp \/ temp' = [temp EXCEPT ![Cur] = "absent"]
  /\ UNCHANGED <<has, tempHas, keyVars, planVars, todoVars, logVars, orphans,
                 excused, landed>>

BeforeSwap == {"columns", "auto_increment"}

\* The table keeps its definition: compare with the source, apply what differs.
CompareDefinition ==
  /\ AtStep("compare")
  /\ LET want == Wanted(BeforeSwap, Cur)
         missing == want \ has[Cur]
     IN  \/ \* the destination's definition could not be read
            /\ want # {} /\ reported' = reported \cup Named(want, Cur)
            /\ GoTo("recheck") /\ UNCHANGED has
         \/ \E failed \in SUBSET missing :
              /\ has' = [has EXCEPT ![Cur] = @ \cup (missing \ failed)]
              /\ reported' = reported \cup Named(failed, Cur)
              /\ GoTo("recheck")
         \/ missing # {} /\ Fail /\ UNCHANGED <<has, reported>>
  /\ UNCHANGED <<final, temp, tempHas, keyVars, planVars, todoVars, warnedOff,
                 reportedKeys, unchanged, tempVars, landed>>

\* A duplicate name is taken for a check the table already carries.
RecheckConstraints ==
  /\ AtStep("recheck") /\ GoTo("indexFinal")
  /\ LET want == Wanted({"checks"}, Cur)
         taken == "checks" \in has[Cur] \/ Cur \in backupChecks
     IN  \/ (want = {} \/ taken) /\ UNCHANGED <<has, reported>>
         \/ /\ want # {} /\ ~taken
            /\ has' = [has EXCEPT ![Cur] = @ \cup want] /\ UNCHANGED reported
         \/ /\ want # {}
            /\ reported' = reported \cup Named(want, Cur) /\ UNCHANGED has
  /\ UNCHANGED <<final, temp, tempHas, keyVars, planVars, todoVars, warnedOff,
                 reportedKeys, unchanged, tempVars, landed>>

(***************************************************************************)
(* Publishing by a swap: the temp table is completed first.                *)
(***************************************************************************)
IndexTemp ==
  /\ AtStep("indexTemp") /\ GoTo("define")
  /\ LET want == Wanted({"indexes"}, Cur)
     IN  \/ /\ tempHas' = [tempHas EXCEPT ![Cur] = @ \cup want]
            /\ UNCHANGED reported
         \/ /\ reported' = reported \cup Named(want, Cur) /\ UNCHANGED tempHas
  /\ UNCHANGED <<final, temp, has, keyVars, planVars, todoVars, warnedOff,
                 reportedKeys, unchanged, tempVars, landed>>

DefineColumns ==
  /\ AtStep("define")
  /\ LET want == Wanted({"columns"}, Cur)
     IN  \/ /\ tempHas' = [tempHas EXCEPT ![Cur] = @ \cup want]
            /\ GoTo("increment") /\ UNCHANGED reported
         \/ /\ reported' = reported \cup Named(want, Cur)
            /\ GoTo("increment") /\ UNCHANGED tempHas
         \/ want # {} /\ Fail /\ UNCHANGED <<tempHas, reported>>
  /\ UNCHANGED <<final, temp, has, keyVars, planVars, todoVars, warnedOff,
                 reportedKeys, unchanged, tempVars, landed>>

\* Any failure of AUTO_INCREMENT is a WARN; the checks are put off.
RestoreIncrement ==
  /\ AtStep("increment") /\ GoTo("swap")
  /\ LET want == Wanted({"auto_increment"}, Cur)
     IN  \/ /\ tempHas' = [tempHas EXCEPT ![Cur] = @ \cup want]
            /\ UNCHANGED reported
         \/ reported' = reported \cup Named(want, Cur) /\ UNCHANGED tempHas
  /\ deferredChecks' =
       IF Wanted({"checks"}, Cur) # {} THEN deferredChecks \cup {Cur}
                                       ELSE deferredChecks
  /\ UNCHANGED <<final, temp, has, keyVars, planVars, deferredKeys, warnedOff,
                 reportedKeys, unchanged, tempVars, landed>>

\* The RENAME took place.  A key that references the outgoing table follows it and
\* keeps the server from dropping it; an outgoing table that stays holds its names.
Renamed(kept) ==
  LET moved == {k \in keys : k[1] = Cur}
      inbound == {k \in Refs : KeyVisible(k) /\ k[2] = Cur}
  IN  /\ kept => final[Cur] # "absent"
      /\ final[Cur] # "absent" /\ inbound # {} => kept
      /\ final' = [final EXCEPT ![Cur] = temp[Cur]]
      /\ has' = [has EXCEPT ![Cur] = tempHas[Cur]]
      /\ temp' = [temp EXCEPT ![Cur] = "absent"]
      /\ tempHas' = [tempHas EXCEPT ![Cur] = {}]
      /\ keys' = keys \ moved
      /\ pointsAtOld' = IF final[Cur] = "absent" THEN pointsAtOld
                                                 ELSE pointsAtOld \cup inbound
      /\ backupKeys' = IF kept THEN backupKeys \cup moved ELSE backupKeys
      /\ backupChecks' = IF kept /\ "checks" \in has[Cur]
                           THEN backupChecks \cup {Cur} ELSE backupChecks

Land(t) == landed' = landed \cup {t}

\* A lost connection may hide a RENAME that took place: the run then fails, with the
\* outgoing table still there.
SwapTable ==
  /\ AtStep("swap")
  /\ \/ /\ \E kept \in BOOLEAN : Renamed(kept)
        /\ openTemps' = openTemps \ {Cur}
        /\ Land(Cur) /\ GoTo("next")
     \/ /\ Renamed(final[Cur] # "absent") /\ Fail
        /\ UNCHANGED <<openTemps, landed>>
     \/ Fail /\ UNCHANGED <<dstVars, keyVars, openTemps, landed>>
  /\ UNCHANGED <<planVars, todoVars, logVars, orphans, excused>>

(***************************************************************************)
(* No temp table: the source had no rows when it was read.                 *)
(***************************************************************************)
\* Mutant: takes the 0-row guard of the copy for a table that is up to date.
AfterLookupKeeping(exists) == IF exists THEN "indexFinal" ELSE "countAbsent"
AfterLookup(exists) == IF exists THEN "count" ELSE "countAbsent"

LookupFinal ==
  /\ AtStep("lookup")
  /\ GoTo(AfterLookup(final[Cur] # "absent")) \/ Fail
  /\ UNCHANGED <<dstVars, keyVars, planVars, todoVars, logVars, tempVars, landed>>

\* Anything but a confirmed zero ends the run when there is no table to fall back on.
CountForCreate ==
  /\ AtStep("countAbsent")
  /\ GoTo("create") \/ Fail
  /\ UNCHANGED <<dstVars, keyVars, planVars, todoVars, logVars, tempVars, landed>>

CountForEmpty ==
  /\ AtStep("count")
  /\ \/ GoTo("empty") /\ UNCHANGED unchanged
     \/ GoTo("indexFinal") /\ unchanged' = unchanged \cup {Cur}
  /\ UNCHANGED <<dstVars, keyVars, planVars, todoVars, warnedOff, reported,
                 reportedKeys, tempVars, landed>>

EmptyFinal ==
  /\ AtStep("empty")
  /\ \/ /\ final' = [final EXCEPT ![Cur] = "empty"]
        /\ unchanged' = unchanged \cup {Cur} /\ GoTo("indexFinal")
     \/ /\ Fail /\ UNCHANGED unchanged
        /\ UNCHANGED final \/ final' = [final EXCEPT ![Cur] = "empty"]
  /\ UNCHANGED <<temp, has, tempHas, keyVars, planVars, todoVars, warnedOff,
                 reported, reportedKeys, tempVars, landed>>

\* CREATE TABLE from the source's DDL.  Defaults the server refuses are stripped and
\* noted; keys it refuses wait for the second pass; the fallback copies columns only.
\* Of a PostgreSQL source there is no such DDL: the call refuses.
CreateEmpty ==
  /\ AtStep("create")
  /\ \/ /\ source = "mysql"
        /\ \E whole \in BOOLEAN, stripped \in SUBSET (Carries[Cur] \cap {"columns"}) :
             LET kept == IF whole THEN Carries[Cur] \ stripped
                                  ELSE Carries[Cur] \cap {"auto_increment"}
             IN  /\ has' = [has EXCEPT ![Cur] = kept]
                 /\ reported' = reported \cup Named(Carries[Cur] \ kept, Cur)
                 /\ \/ /\ whole
                       /\ \A k \in KeysOf(Cur) :
                            (final[k[2]] # "absent" \/ k[2] = Cur) /\ k \notin backupKeys
                       /\ keys' = keys \cup KeysOf(Cur) /\ UNCHANGED deferredKeys
                    \/ /\ deferredKeys' = deferredKeys \cup KeysOf(Cur)
                       /\ UNCHANGED keys
                    \/ ~whole /\ UNCHANGED <<keys, deferredKeys>>
        /\ final' = [final EXCEPT ![Cur] = "empty"]
        /\ GoTo("indexFinal")
     \/ Fail /\ UNCHANGED <<final, has, keys, deferredKeys, reported>>
  /\ UNCHANGED <<temp, tempHas, backupKeys, backupChecks, pointsAtOld, planVars,
                 deferredChecks, warnedOff, reportedKeys, unchanged, tempVars, landed>>

\* apply_source_indexes on the final table; names it already has are skipped.
IndexFinal ==
  /\ AtStep("indexFinal") /\ GoTo("next") /\ Land(Cur)
  /\ LET want == Wanted({"indexes"}, Cur)
     IN  \/ has' = [has EXCEPT ![Cur] = @ \cup want] /\ UNCHANGED reported
         \/ /\ reported' = reported \cup Named(want, Cur) /\ UNCHANGED has
  /\ UNCHANGED <<final, temp, tempHas, keyVars, planVars, todoVars, warnedOff,
                 reportedKeys, unchanged, tempVars>>

(***************************************************************************)
(* After the loop.                                                         *)
(***************************************************************************)
ApplyDeferredKeys ==
  /\ AtStep("secondPass")
  /\ \E added \in SUBSET {k \in deferredKeys : k \notin backupKeys} :
       /\ keys' = keys \cup added
       /\ IF added = deferredKeys THEN GoTo("restoreChecks") ELSE Fail
  /\ UNCHANGED <<dstVars, backupKeys, backupChecks, pointsAtOld, planVars, todoVars,
                 logVars, tempVars, landed>>

\* Each table of deferred_checks in turn; a refusal is reported and the rest go on.
RestoreChecks ==
  /\ AtStep("restoreChecks")
  /\ LET due == deferredChecks \cap landed
     IN  \E restored \in SUBSET (due \ backupChecks) :
           /\ has' = [t \in Tables |->
                        IF t \in restored THEN has[t] \cup {"checks"} ELSE has[t]]
           /\ reported' = reported \cup {<<"checks", t>> : t \in due \ restored}
  /\ GoTo("restoreKeys")
  /\ UNCHANGED <<final, temp, tempHas, keyVars, planVars, todoVars, warnedOff,
                 reportedKeys, unchanged, tempVars, landed>>

\* Mutant: skips a key whose name exists on any table.
MissingKeysByName == {k \in wantedKeys : k[1] \in landed} \ (keys \cup backupKeys)
MissingKeys == {k \in wantedKeys : k[1] \in landed} \ keys

\* Keys the destination has are skipped, key by key; also after a cancel.
RestoreKeys ==
  /\ AtStep("restoreKeys") /\ GoTo("store")
  /\ \E added \in SUBSET (MissingKeys \ backupKeys) :
       /\ keys' = keys \cup added
       /\ reportedKeys' = reportedKeys \cup (MissingKeys \ added)
  /\ UNCHANGED <<dstVars, backupKeys, backupChecks, pointsAtOld, planVars, todoVars,
                 warnedOff, reported, unchanged, tempVars, landed>>

\* store_run writes the history; an error there is the run's error.
StoreRun ==
  /\ AtStep("store")
  /\ \/ /\ stored' = TRUE /\ pc' = "cleanup"
        /\ outcome' = IF outcome = "cancelled" THEN "cancelled" ELSE "success"
        /\ UNCHANGED runs
     \/ Fail
  /\ UNCHANGED <<dstVars, keyVars, planVars, todoVars, logVars, tempVars, landed>>

\* A temp table nobody will drop loses its tie to this run.
Abandon(left) ==
  /\ orphans' = orphans \cup {t \in Tables : left[t] # "absent"}
  /\ temp' = [t \in Tables |-> "absent"]
  /\ tempHas' = [t \in Tables |-> {}]
  /\ openTemps' = {}

\* Mutant: a cancelled run leaves its temp tables.
TempsToDropUnlessCancelled == IF cancel THEN {} ELSE openTemps
TempsToDrop == openTemps

\* The finally clause.
DropTemps ==
  /\ AtStep("cleanup") /\ GoTo("idle")
  /\ \/ /\ Abandon([t \in Tables |-> IF t \in TempsToDrop THEN "absent" ELSE temp[t]])
        /\ UNCHANGED excused
     \/ /\ Abandon(temp) /\ excused' = excused \cup openTemps
  /\ UNCHANGED <<final, has, keyVars, planVars, todoVars, logVars, landed>>

(***************************************************************************)
(* The user.                                                               *)
(***************************************************************************)
RequestCancel ==
  /\ Running /\ ~cancel /\ cancel' = TRUE
  /\ UNCHANGED <<dstVars, keyVars, planVars, todoVars, anonymize, source, logVars, tempVars,
                 endVars, pc, idx, landed>>

\* The switch between runs; during one, saving or deleting a rule sets it.
EditRules ==
  /\ anonymize' = ~anonymize
  /\ UNCHANGED <<dstVars, keyVars, planVars, todoVars, cancel, source, logVars, tempVars,
                 endVars, pc, idx, landed>>

\* Someone else's ALTER TABLE on the destination.
OtherClientAddsKey ==
  /\ OtherClients
  /\ \E k \in Refs :
       /\ ~KeyVisible(k) /\ final[k[1]] # "absent" /\ final[k[2]] # "absent"
       /\ keys' = keys \cup {k}
  /\ UNCHANGED <<dstVars, backupKeys, backupChecks, pointsAtOld, planVars, todoVars,
                 userVars, logVars, tempVars, endVars, pc, idx, landed>>

KillApp ==
  /\ pc # "idle" /\ pc' = "idle" /\ outcome' = "killed"
  /\ Abandon(temp) /\ excused' = excused \cup {t \in Tables : temp[t] # "absent"}
  /\ UNCHANGED <<final, has, keyVars, planVars, todoVars, userVars, logVars,
                 stored, runs, idx, landed>>

TaskStep ==
  \/ ResolveScope \/ ReadDefinitions \/ ReadIndexes \/ ReadForeignKeys
  \/ NextTable \/ CopyTable \/ VerifyTemp \/ CheckInbound
  \/ AnonymizeTemp \/ AnonymizeForReplace
  \/ ReplaceRows \/ CompareDefinition \/ RecheckConstraints
  \/ IndexTemp \/ DefineColumns \/ RestoreIncrement \/ SwapTable
  \/ LookupFinal \/ CountForCreate \/ CountForEmpty \/ EmptyFinal \/ CreateEmpty
  \/ IndexFinal
  \/ ApplyDeferredKeys \/ RestoreChecks \/ RestoreKeys \/ StoreRun \/ DropTemps

Next ==
  \/ StartRun \/ TaskStep
  \/ RequestCancel \/ EditRules \/ KillApp \/ OtherClientAddsKey

Spec == Init /\ [][Next]_vars

\* The task is one coroutine whose awaits return: every database call has a read
\* timeout, and apitap is taken to return.
FairSpec == Spec /\ WF_vars(TaskStep)

(***************************************************************************)
(* Properties.                                                             *)
(***************************************************************************)
\* Every variable holds a value of its type: the loop counter and the number of runs
\* stay within their bounds.
TypeOK ==
  /\ final \in [Tables -> Content] /\ temp \in [Tables -> TempContent]
  /\ has \in [Tables -> SUBSET Aspects] /\ tempHas \in [Tables -> SUBSET Aspects]
  /\ keys \in SUBSET Refs /\ backupKeys \in SUBSET Refs
  /\ pointsAtOld \in SUBSET Refs /\ backupChecks \in SUBSET Tables
  /\ orphans \in SUBSET Tables /\ openTemps \in SUBSET Tables
  /\ landed \in SUBSET Tables /\ excused \in SUBSET Tables
  /\ pc \in Steps /\ idx \in 0 .. Len(Scope)
  /\ wanted \in SUBSET Details /\ wantedKeys \in SUBSET Refs
  /\ deferredChecks \in SUBSET Tables /\ deferredKeys \in SUBSET Refs
  /\ cancel \in BOOLEAN /\ anonymize \in BOOLEAN /\ source \in Sources /\ stored \in BOOLEAN
  /\ outcome \in Outcomes /\ runs \in 0 .. MaxRuns
  /\ warnedOff \in SUBSET Tables /\ unchanged \in SUBSET Tables
  /\ reported \in SUBSET Details /\ reportedKeys \in SUBSET Refs

\* A finished table never holds a row that was not rewritten, on any path, through any
\* failure, unless the log said that this very table keeps its personal data: "the
\* final table then never holds a single real value" (app.py:1730, user-guide.md:170).
FinalNeverReal ==
  \A t \in Tables : final[t] = "real" => t \in warnedOff

\* What the history shows is a run that ended well or was cancelled.
Completed == stored

\* A run in the history has put back every definition detail of every table it copied,
\* or has named the one that is missing; with a PostgreSQL source it has named them all.
\* Left out: a table whose copy was skipped keeps what it had, and a check name held by
\* an outgoing table.
DetailsAccounted ==
  Completed =>
    \A t \in landed : \A a \in Carries[t] :
      \/ a \in has[t] \/ <<a, t>> \in reported
      \/ a # "indexes" /\ t \in unchanged
      \/ a = "checks" /\ t \in backupChecks

\* The same for foreign keys, from a MySQL source: whatever the swaps dropped on the way,
\* at the end every key of a copied table exists or the log accounts for it.  From a
\* PostgreSQL source it does not hold (LostKeysAreTold).
KeysAccounted ==
  Completed /\ source = "mysql" =>
    \A k \in Refs : k[1] \in landed => k \in keys \/ k \in reportedKeys

\* No foreign key ever follows an outgoing table: "a swap would break those references",
\* which is why the run looks for inbound keys and takes the detour.
KeysPointAtFinal == pointsAtOld = {}

\* A temp table outlives its run only where the code could not help it: the copy failed
\* half way, the DROP was refused (both are in the log), or the app was killed.
TempsAccounted == orphans \subseteq excused

\* A table counts as copied only when its rows are this run's, or the log says that it
\* was left as it was or emptied because the source had no rows.
RowsAccounted ==
  Completed =>
    \A t \in landed :
      final[t] \in {"real", "rewritten", "empty"} \/ t \in unchanged

\* Every run comes to an end and gives the controls back, cancelled or not.
RunEnds == pc = "resolve" ~> pc = "idle"

\* To a reader of the destination the run is one of TablesInTurn: a table changes in its
\* turn only, Cancel "stops after the current table" (README.md:24), a run that fails
\* leaves one table half done at most, and no table counts as copied that neither has new
\* content nor is named.
Seen(t) ==
  CASE final[t] \in {"absent", "old"} -> "before"
    [] final[t] = "empty" -> "empty"
    [] OTHER -> "new"
Finished == IF idx = 0 \/ Cur \in landed THEN idx ELSE idx - 1
Turns == INSTANCE TablesInTurn
           WITH content <- [t \in Tables |-> Seen(t)], begun <- idx, finished <- Finished,
                told <- unchanged
TablesTakeTurns == Turns!Spec

(***************************************************************************)
(* What the documentation says and the code does not do.                   *)
(***************************************************************************)
\* user-guide.md:199: with a PostgreSQL source "the copy loses these properties and the
\* log says so", the foreign keys among them (line 193).  The source has a key between
\* two tables whose rows were both copied: the copy has it, or the log tells of it.
Copied(t) == t \in landed /\ final[t] \in {"real", "rewritten"}
LostKeysAreTold ==
  Completed =>
    \A k \in Refs : Copied(k[1]) /\ Copied(k[2]) => k \in keys \/ k \in reportedKeys
=============================================================================
