# A TLA+ verification of SQL Transfer

SQL Transfer is a macOS app (Python, Flet) that copies MySQL and PostgreSQL tables from remote
servers into another database, anonymizes personal columns on the way and puts back what the copy
loses: indexes, column details, checks, foreign keys. This directory holds TLA+ models of its core,
the TLC runs that check them on small instances, and TLAPS proofs of the main results for every
value of the constants. Paths are relative to the repository; `app.py`, `transfer.py` and the other
bare names are under `src/sqltransfer_app/`.

## 1. The system

### Components

| Component | State | Operations | Talks to |
|---|---|---|---|
| Window (`app.py`, `ui.py`, `profiles.py`) | dropdowns and their selections, form dialogs, the anonymize switch, `run_state["cancel"]`, disabled buttons, log panel | profile, SSH and rule forms, tests, table listing, preview, Run, Cancel | storage and Keychain (calls), transfer service (awaits) |
| Run task (`run_transfer_task`, app.py:1447-2013) | `open_temp_tables`, `landed_tables`, `deferred_checks`, `deferred_fk_sql`, the clauses read from the source, the row counters | one coroutine: read the source, loop over the scope, second pass, checks, keys, history, cleanup | transfer service, one awaited call after the other; reads the switch and the cancel flag the user changes meanwhile |
| Transfer service (`transfer.py`) | none of its own: every call opens an endpoint (perhaps a tunnel) and connections, and closes them | copy through apitap, verify, inbound keys, swap, replace in place, indexes, definition, keys, empty table, drop, anonymize | the two database servers, apitap, tunnels, Keychain |
| Destination server | tables, temp tables, outgoing tables, indexes, checks, foreign keys, metadata locks | DDL and DML, each statement by itself | other sessions |
| Profile storage (`storage.py`, `models.py`) | `profiles.db`: database and SSH profiles, rules, exceptions, history | save, delete, list; unique names, refused saves, migrations | every window of the app |
| Keychain (`secrets.py`) | passwords, passphrases, the anonymization salt | get, set, delete | macOS, and may refuse |
| Tunnels (`tunnel.py`) | ssh processes or paramiko forwarders, known_hosts | open with the ssh program or paramiko, wait for the port, close | SSH servers |
| Anonymization (`anonymize.py`) | rules | match columns, plan a table, JSON paths, build the UPDATE | pure functions; the UPDATE runs in the transfer service |
| TLS (`tls.py`), scope (`scope.py`), DDL text (`transfer.py`) | none | decision table, scope strings, clauses out of `SHOW CREATE TABLE` | pure functions |
| apitap | outside the repository | moves the rows | both servers |

### What is hard about it

- A run is a long sequence of calls, any of which may fail, with work owed to tables that are
  already published: a swap drops the table's foreign keys and puts off its checks, and both come
  back only after the loop. Early returns (`fail()`, Cancel) meet this half-way state.
- The user changes what a run reads while it runs: the Cancel flag, the rules and their switch.
- A published table must not hold a real value on either of the two paths (swap, rows in place).
- The server acts on a request the client has given up on: `RENAME` waiting for a lock, a `DELETE`
  or `DROP` whose answer was lost and which is sent again.
- Outgoing tables that could not be dropped keep their key and check names; the next run meets them.
- Temp tables must not outlive their run, which can end in many ways.
- On the PostgreSQL path rows are in the destination before they are rewritten, and which tables to
  rewrite is looked up after the copy, in a schema that may have changed, with a switch that may have.
- `CREATE TABLE` from the source's DDL is sent again and again with something cut out of its text.
- Documents in a column have a shape per row; what is rewritten is decided for the column.
- An ssh process is only known by a port that was free a moment ago; host keys are read at one moment
  and relied upon at another.
- One event loop, several tasks: what keeps two of them from working at once is the disabled state
  of buttons, which other handlers change too. The destination is read, then a question is asked,
  then it is used. A second window works on the same storage.

`PROJECT.json` lists these hazards at their lines, those no property covers yet as well.

### What makes each component correct

- Run: no real value in a finished table unless the log says so; every detail and key of a copied
  table is back or named; a table counted as copied was copied; temp tables are gone; the run ends.
- Swap: the table is replaced in one step or not at all; a reported failure stays one; the call returns.
- Replace in place: rows are never lost between the two tables; no column is left out silently.
- Window: one task at a time; Cancel belongs to its run; a run writes where the user was told it
  would; locks are given back; a selection is always one of the options.
- Storage and Keychain: a saved profile has its password, a deleted one leaves none behind, names
  are unique, the salt never changes.
- Tunnels: a tunnel that was opened is closed; what listens on its port is the tunnel; a changed
  host key is never accepted.
- Anonymization: a column or key a rule matches is rewritten or reported; the UPDATE reaches no
  further than its plan; its values are in the order of its text.
- PostgreSQL run: what a success leaves real is in the log; a failure says where it stopped; tables
  outside the scope are not touched; equal values stay equal across tables.
- Empty table: each retry asks for less; keys and defaults that do not make it are in hand or told.

## 2. Modules

| Module | Models | Composes / used by |
|---|---|---|
| `FinalizeRun` | the run task on its MySQL path | takes the results of the two publishing calls from the next two; implements `TablesInTurn` |
| `TablesInTurn` | abstract: what a run promises to those who read the destination | |
| `SwapTable` | `_mysql_swap_table_sync` and the server's lock waits | implements `TableReplace` with `Atomic` |
| `ReplaceInPlace` | `_mysql_replace_final_from_temp_sync` and the server's late statements | implements `TableReplace` without `Atomic` |
| `PublishCall` | the variables the run shares with either of the two calls | extended by `SwapTable` and `ReplaceInPlace` |
| `TableReplace` | abstract: what publishing one table promises | |
| `UiSession` | one window: tasks, locks, profiles, selections, and a second window | a run is one step here, `FinalizeRun` is that step |
| `ProfileStore` | profiles in `profiles.db` and their Keychain entries, step by step, by several windows | the two stores behind the forms that are one step each in `UiSession` |
| `EmptyTable` | the table made from the source's DDL when the copy brought none | implements `TableReplace`; its outcomes are those of `FinalizeRun`'s `CreateEmpty` |
| `AnonymizeTable` | `anonymize_step` for one table | one step of `SingleCallRun`, and of `FinalizeRun`'s rewrites |
| `SingleCallRun` | the run task on its PostgreSQL path, and the salt | takes from `AnonymizeTable` that an "ok" leaves a table rewritten or named |
| `TunnelManager` | one service call with the tunnels of its two ends | below every call of the runs |
| `MC*` | constants for TLC | |
| `*Proofs` | theorems | extend the module they are about; `PublishingProofs` extends both `SwapTable` and `ReplaceInPlace` |

### FinalizeRun

One action is one awaited call with one of its results and the statements up to the next await;
`pc` names the next call. `StartRun` is the press of Run, `ResolveScope`, `ReadDefinitions`,
`ReadIndexes` and `ReadForeignKeys` read the source once (app.py:1502-1609), `NextTable` is the
head of the loop with its Cancel test. Per table: `CopyTable`, `VerifyTemp`, `CheckInbound`, then
either `AnonymizeForReplace`, `ReplaceRows`, `CompareDefinition`, `RecheckConstraints`, `IndexFinal`
(rows in place), or `AnonymizeTemp`, `IndexTemp`, `DefineColumns`, `RestoreIncrement`, `SwapTable`,
or, when the copy left no temp table, `LookupFinal`, `CountForCreate`/`CountForEmpty`,
`EmptyFinal`/`CreateEmpty`, `IndexFinal`. After the loop: `ApplyDeferredKeys`, `RestoreChecks`,
`RestoreKeys`, `StoreRun`, and `DropTemps`, the finally clause. The other actors are the user
(`RequestCancel`, `EditRules`, `KillApp`) and another client of the server (`OtherClientAddsKey`).

The destination is what matters of it: what a table's rows are (`absent`, `empty`, `old`, `real`,
`rewritten`), which of four details (`indexes`, `columns`, `auto_increment`, `checks`) the table and
its temp table carry, which foreign keys exist, and which names an outgoing table still holds. The
log is the sets of what it has named (`warnedOff`, `reported`, `reportedKeys`, `unchanged`). A detail
is kept per aspect, not per column or index: a failed clause counts for the aspect. `source` is the
kind of source the run was started with. From PostgreSQL no detail is read: definitions and indexes
are reported as lost, and the foreign keys are neither read nor restored nor reported, since that
branch has no `else` (app.py:1577).

Chosen abstractions:

- A table is in schema scope by its bare name; two entries of a scope that differ in their schema
  only, and keys across schemas, are left out.
- Temp names are distinct; `apx_<hash>_<seconds>` collisions are left to the composition of two runs.
- `rewritten` means rewritten as the rules are configured, with the rules of that moment.
- `RestoreChecks` handles all tables in one action and `DropTemps` all temp tables. The task is
  alone on the event loop's data between those calls, and no other actor reads what they change.
- `fail()` gives the buttons back before the finally clause drops the temp tables; here the next
  run starts after the cleanup.
- InnoDB's DDL is atomic per statement. A lost connection may hide a `RENAME` that took place; the
  run then fails with the outgoing table still there.
- apitap is external: a copy yields a temp table, or none when the source has no rows, or fails
  with or without one (`PartialCopies`).

`TablesInTurn` is the run as someone sees it who reads the destination and the log. Tables are taken in
the order of the scope; each keeps what it held until its turn and what its turn made of it until the
next run; it counts as copied when it has new content or the log names it. A run that ends well has
finished every table, a cancelled one every table it began, and one that fails or is killed is half-way
in a single table. That table may change even afterwards, since the server may still be at work on a
statement; in `FinalizeRun` it does not, as both publishing calls are one step there. The mapping is
`Seen` (what of `final` is this run's) and `Finished` (the tables before the current one, and the
current one once it is in `landed_tables`). It needs `DistinctAssumption`: no table is twice in a scope,
which `_unique_in_order` sees to.

### SwapTable and ReplaceInPlace

`SwapTable` has the client (look up the final table, send `RENAME`, read the answer or give up,
drop the outgoing table), the server (wait for one lock after the other, each at most
`SWAP_LOCK_WAIT_SECONDS`), other sessions that take and release locks at will, time in ticks, and a
connection that may break. `ReplaceInPlace` has the three statements, each of which runs, is
refused, or loses its answer; a statement whose answer is lost stays in `running` until the server
ends it, with or without effect, and a later statement waits where InnoDB's row and metadata locks
make it wait. Connecting is outside the `try`, so a refusal there is final; the two attempts are
the constant `Attempts`. `overlap` remembers whether an attempt began while a statement of an
earlier one was still at work.

`TableReplace` says what both promise the run: a call that says "done" has put the new rows in
place; one that says "refused" has left the table as it was; after either answer the table is not
touched again; and, with `Atomic`, no reader ever finds the table empty. The refinement mapping is
`content <- final`. `FinalizeRun` uses exactly this: its `SwapTable` action has the outcomes
published, published but failed, and not published; `ReplaceRows` adds the emptied table.

### UiSession

Handlers run to completion between two awaits, so each is one action. `RefreshProfiles` is
`refresh_db_options`, `Lock` and `Unlock` are `set_running`, `RefreshRules` is the part of
`refresh_rules` that sets the switch. `StartProbe`/`ProbeEnds`/`ProbeRaises` stand for the preview,
the two connection tests and the table listing, `StartFormTest`/`FormTestEnds` for the two tests of
the profile form. `StartRun`, `AskDestination`, `Overwrite`, `Decline`, `PressCancel` and `RunEnds`
are a run as the window sees it. `OtherWindowEdits` is a second process over the same `profiles.db`;
`meddled` remembers that it changed a profile while the question was open, `refused` that the
Keychain did not answer a table listing.
A profile is reduced to the two facts decisions depend on: how its host is reached (this machine's own,
the loopback address behind a tunnel, or elsewhere) and the production mark.

Left out: the scope and history controls, the SSH profile form and its test, messages, layout. A
form that is refused (missing field, duplicate name) stays open and changes nothing here. A
"Delete?" question, which nothing else reads, is part of the deletion. A locked button sends no
click: no handler looks at `run_state["running"]`, so this is an assumption about the Flet client.

### ProfileStore

Saving a profile writes its password to the Keychain and then its row to SQLite; deleting it erases
the one and then the other. Nothing ties the two together, so each handler is several actions:
`PressSave` (read the row that is edited, take its key or draw one), `WritePassword`, `StoreRow`,
and `ConfirmDelete`, `ErasePassword`, `RemoveRow`. In between another window may do the same to the
same profile, either store may refuse (`SaveFails`, also for a name that is taken, and
`DeleteFails`), the row may be gone (`FindItGone`), the Keychain may keep an entry it was told to
erase (`EraseIgnored`: `delete_secret` ignores `PasswordDeleteError`), or the app is killed
(`KillWindow`). A key is a name and a random part, drawn fresh; a password is a value. Two history
variables say what the stores should hold: `intended`, the password a profile was last saved with,
and `doubtful`, the profiles on which a handler stopped half-way or two windows met.

Left out: every other column of a profile, the salt, rules, run history and migrations. Database and
SSH profiles are saved alike, in tables and under keys of their own; the module is either of them.

### EmptyTable

The call reads `SHOW CREATE TABLE` (`ReadDefinition`), sends it (`Create`), and answers the server's
refusals: `StripDefault` takes out one default, or all of them when the message does not name a
column, and sends the statement again; `StripKeys` makes `ALTER` statements of all foreign keys;
`FallBack`, `ReadColumns` and `CreateColumns` are the copy of columns only. `Refuse` is any other
error, `LoseAnswer` and `ServerFinishes` a broken connection and what the server does of the
statement. The definition is a set of keys and, per column, what the text surgery depends on: its
default, whether it is binary, what follows the default on the line, and whether the line is the last
one. `broken` is a line whose comma has been cut off. `WithoutDefault` is `_remove_default_clause_from_column_line`
with its search for the first word "default" of the line, wherever it stands.

The fallback after the keys were stripped (transfer.py:2555) is taken on a parse error only. A server
that complained of a key had parsed the statement, so it parses it without the keys, and no action
of the model takes that branch.

### AnonymizeTable

One action per step that can fail by itself: `SwitchedOff`, `ReadColumns` (with `plan_table`),
`SearchColumn` or `SkipColumn` per column of documents (`json_paths` with `plan_json_column`),
`NothingToDo`, and `Update` with its failures. A cell is a map from places to what stands there; the
empty path is the whole value, a longer one a key inside its document. `Found` is what the search
through the documents brings back, `JsonTargets` and `JsonReported` what the plan makes of it,
`RowsReported` the note on rows that are not JSON,
`Updated` the effect of the one UPDATE, with `JSON_REPLACE` (`Replaced`) or the strict `jsonb_set`
(`NewDocument`). `Tokens`, `PathValues`, `KeepValues` and `Fits` are the parameters: `Assembled` puts the
statement and its lists of values together, assignment by assignment, and `_bind` gives the n-th token
of a kind (`Count`) the n-th value of its list. `named` is what the log says: a column, a place in it
and why (`Reasons`), so that a note about one thing does not pass for a note about another.

Rules are lists of names a pattern matches, a kind and an exception; the patterns themselves, the
look of a name (`Personal`) and the SQL that makes a replacement are not modelled. A kind is how many
parts of the value's hash it reads: one, two, none (`empty`), or `json`.

### SingleCallRun

`CopyTable`, `TransferDone` and `TransferFails` are apitap's one call; `ListTables`, `ReadGenerated`
and `Check` come before the loop; then, for the first table left, `LeaveReal`, `NothingToDo`,
`StepFails`, or `ReadSalt`, `CreateSalt`, `Update`, `UpdateFails`; `Finish` writes the history.
`Fail` is `fail()`, which does not. `MoveSwitch` stands for every way the switch moves,
`SourceChanges` for other clients of the source, `OtherReads` and `OtherWrites` for another window's
first use of the salt. Tables are numbers in the order of their names, since the listing stops after
`Limit` of them (5000 in the code).

### TunnelManager

One service call that needs both ends: `Resolve` picks the way, `StartCli`, `LookEarly`, `Connected`
and `WaitTimesOut` are the ssh program, `LookUp`, `Fetch`, `Started`, `StartFails` and `LookAgain`
are sshtunnel, `Prepare` the rest of `_resolve_profile`, then `Use` and `Close`. The ssh process, the
SSH server (which may be reinstalled), a terminal that writes `known_hosts`, and another program that
takes the local port take their steps in between. A key is a type and old or new. Both ends go by way
of one SSH server, so that the second finds what the first has stored.

Assumed of sshtunnel: `stop()` does not raise. The connection test of the SSH form is left out.

## 3. Runs

Every run finishes within two minutes on two workers.

| Run | Instance | Question | Distinct states |
|---|---|---|---|
| `finalize_pair` | two tables that reference each other, one aspect each, up to two runs, each from either kind of source, partial copies | what finished tables hold, what becomes of the foreign keys and which tables have changed, through every failure, cancel, rule edit and kill, with what the first run left behind; refinement | 3.4 M |
| `finalize_details` | a parent with all four details, a child with one, another client, one run | details and temp tables are accounted for; every run ends | 1.1 M |
| `swap` | two locks, lock wait 2, read timeout 5 ticks | the timeouts keep a refused swap refused; the call returns; refinement | 1 290 |
| `replace_in_place` | three columns, one generated, two attempts | columns and rows, the retry, late statements; refinement | 480 |
| `ui_session` | two profiles, one form test, a second window, a Keychain that refuses | tasks exclude each other; Cancel; selections; a run starts only on what was checked and confirmed; locks are given back | 635 k |
| `empty_table` | two columns with every kind of line, two keys, every server | retries end; what the new table misses is in hand or told; refinement | 406 k |
| `anonymize` | two rows, a column of documents in all pairs of 18 shapes, a text column, six lists of rules, both servers | what stays real or unseen is named; the UPDATE keeps to its plan; parameters | 133 k |
| `single_call` | three tables, a listing of two, two salts, every schema and scope | what a run leaves real, and whether it says so; one salt | 179 k |
| `tunnel` | two ends, two key types, every content of `known_hosts` | keys accepted, errors told, nothing left open | 194 k |
| `profile_store` | two windows, two profiles, two names with two random parts, two passwords, two keys drawn | whose password a handler changes; what the Keychain is left with | 463 k |
| `docPostgresKeys`, `docJsonKey` | instances of `FinalizeRun` and `AnonymizeTable` | a sentence of the documentation that the code does not keep (section 6) | |

Bounds and why they are enough. Two tables give every relation a run can meet: a table before and
after the one that references it, both at once (a cycle), a table finished while the other fails,
and a deferred key whose parent is not there yet. Two runs let the second meet what the first left:
outgoing tables with their names, missing keys, tables without details. `MaxRuns` only bounds the
counter; the theorems need no bound. Two locks show the sum of lock waits against the read timeout,
which is what `TimesAssumption` is about; the proofs hold for any numbers in that order (the code
has 15 s and 600 s). Three columns give one the temp table has, one it misses and one that is
generated, in every combination. Two profiles give a source and a destination that differ, and with
every row content they take on each other's role. The second test of the profile form could only end
beside the first, and neither touches what the other does. Two windows are every pair of handlers at
once; two profiles and two names give a rename, a name that is taken and a name that is free again;
two keys (`MaxKeys`, which bounds nothing but the state space) give each profile a password of its
own, or let one save fail and another follow it; the theorems are for any number of keys.
`profile_store` uses symmetry over windows, profiles, names, random parts and passwords, which no
definition tells apart, and checks no liveness.

Two columns are the one a cut is made in and its neighbour, and the last line and one before it; two
keys are one whose parent is there and one whose parent is not. Two levels of keys and one key that is
too long are the search, its last level and what it cannot hold; two rows differ in what they have at
a place. Three tables with a listing of two give one behind the limit, with changes of the schema on
either side of it. Two key types are a stored one and another the server has as well; two ends are
everything one call opens.

Fairness. `RunEnds` needs `WF(TaskStep)`: the task is one coroutine, every database call has a read
timeout, and apitap is assumed to return. No fairness on the user, the other client or the kill.
`CallReturns` of the swap needs the client's thread, the server's answer and the clock, but nobody
has to release a lock. `LocksEnd` needs each task to end
(`ProbeEnds`, `RunEnds`); the user has to do nothing. It leaves out what follows once the Keychain
has refused a table listing; section 6 tells what happens then. That the loop of `EmptyTable` ends
is an action property (`RetriesShrink`): there are finitely many words to cut.

Deadlock is checked everywhere but in the modules of a single call (`replace_in_place`, `empty_table`,
`anonymize`, `single_call`, `tunnel`), which stop when it has returned.

Every property of a passing run has a mutant in `PROJECT.json`, a plausible mistake in a definition
that models code, under which TLC finds that property violated.

## 4. Properties

Each module that models code has a type invariant, `TypeOK` (in `SwapTable` `SwapTypeOK`). It is a
theorem for all of them, so only the run of `UiSession`
checks it again, where it also says that a selection is one of the options. The others:

- `FinalNeverReal`: a finished table holds no row that was not rewritten, on either path and through
  every failure, unless the log said that this table keeps its personal data.
- `KeysAccounted`, `DetailsAccounted`, `RowsAccounted`: once the history shows the run (as finished
  or as cancelled), each foreign key, each definition detail and the rows of each copied table are
  there or named in the log. `KeysAccounted` speaks of runs from a MySQL source; from PostgreSQL it
  does not hold (`docPostgresKeys`). `DetailsAccounted` leaves out a check whose name an outgoing
  table still holds.
- `KeysPointAtFinal`: no foreign key follows a renamed table onto the outgoing copy. Holds without
  other clients' DDL; the look for inbound keys and the swap are far apart, so a key that another
  client adds in between does follow the outgoing table (section 6).
- `TempsAccounted`: a temp table outlives its run only when the copy failed half-way, the `DROP` was
  refused, or the app was killed.
- `TablesTakeTurns`: the refinement of `TablesInTurn`, through every failure, cancel and kill. Cancel
  "stops after the current table" (README.md:24), never inside it; a failure touches no other table.
- `RunEnds`, `CallReturns`, `LocksEnd`: liveness, as above.
- `NoLateSwap`: a swap reported as failed or refused is not carried out later while the connection
  lasts. Without the lock limit it would be (that is its mutant, and the bug the comment at
  transfer.py:2069 tells of).
- `PublishesTable`, `SwapPublishesTable`: the refinements of `TableReplace`.
- `ColumnsAccounted`, `RowsSomewhere`: of the in-place replace. If the server still works on a lost
  `DROP` while the second attempt deletes the final rows, the rows can be in neither table;
  `RowsSomewhere` therefore leaves overlapping attempts out.
- `OneTaskAtATime`, `CancelIsForThisRun`, `RunStartsAsStored`: of the window. `RunStartsAsStored`
  leaves out what another window does while the question is open: the profile is read before the
  question and not again after the answer, so a second window can mark it as production in between.
- `NoSharedEntry` (proved only), `OnlyOwnPassword`: two profiles never share a Keychain entry, and no handler,
  completed or not, reaches another profile's password. Both hold through every failure.
- `PasswordKept`, `EntriesOwned`: a profile has the password it was last saved with, and no entry is
  left without a profile, as long as nothing stopped half-way and no two windows met. Otherwise they
  do not hold: a save that is refused for its name, or for a port that is no number, has already
  written the password (app.py:864). On an edit that is the profile's password from then on, though
  the form was never saved; for a new profile the entry stays without an owner.
- `KeysInHand`: each foreign key of a created table is on the table or among the statements for the
  second pass, never both. `DefaultsKept`: a default that is missing was refused, and the message
  says that something is. Both leave the copy of columns out, which says so itself, also where it is
  made only because a cut took the comma along (section 6).
- `RetriesShrink`: each `CREATE` that is sent again has fewer defaults than the one before.
- `RealIsNamed`: when a step says "ok", every value of a column that has a rule or a name that looks
  personal, and every string under a key that has a rule, is rewritten, kept by the rule's exception,
  or in something the log has named, also where rows hold different things under the same key. A
  number under such a key is overwritten or named, unless another row has an object there
  (section 6). A key that only looks personal is not meant: the code looks at the names of
  columns only.
- `UnsearchedIsNamed`: when a step says "ok", rows that are not JSON are named as such whatever the
  other rows hold, and so are arrays under keys, objects below the last level, and whole documents that
  are arrays or scalars, the last unless another row's document is an object (section 6).
- `OnlyPlannedChanges`: no key appears; a column that is neither rewritten nor searched stays, and in a
  rewritten one `NULL`, the empty value and what the exception covers. A document changes only at or
  below a key that has a rule and is a string in some row: in the rows where it is none as well
  (section 6), and on PostgreSQL a document that lacks such a key goes as a whole (`docJsonKey`).
- `AnswerIsTrue`, `ParametersFit`: the answer tells whether the UPDATE was carried out, unless it was
  lost, and each placeholder gets the value made for it.
- `SuccessAccountsForAll`: a run into PostgreSQL that the history calls a success leaves no copied
  table real in silence. Tables that slip through: those beyond the first 5000 of the schema and those
  dropped from the source in the meantime (section 6). `StopsWhereItSays`: a
  failed run is at the table it names; what is real besides are tables after it.
  `OnlyScopeTreated`: no other table is rewritten, except one that came into the source schema during the run and was in the destination already.
- `EqualStaysEqual`: one salt for all tables of a run. Two windows that both make their first use of
  it break this: the later `set_secret` wins, and the earlier window's table has the other salt
  (section 6).
- `NoOtherKey`: no connection, over either backend and whatever was tried before, accepts another key
  than the one stored when the call began. `HostKeyErrorIsTrue`: "does not match the one stored" is
  said only when it does not, and a server whose keys have all changed is never reported as a login
  problem.
- `NothingLeft`: a call that is over has closed what it opened. Two things stay: the tunnel of an end
  whose TLS settings or DSN are refused afterwards (transfer.py:773-778: the handle is local), and an
  ssh that does not end at SIGTERM. `HandedOutIsOurs`: a tunnel that is handed out is an ssh that is
  logged in, unless another program has taken the port; then that program is what the call talks to.

## 5. Proofs

All proofs are checked by TLAPS (SMT, Zenon, LS4), from the named assumptions of each module only:
the types of the constants, `SourcesAssumption`, `DistinctAssumption`, `TimesAssumption`,
`ProfilesAssumption`, `NoneIsNoRow`, `IdsAssumption`, `NoneAssumption`, `InputsAssumption` (documents
are well formed, paths are closed under prefixes, and there are finitely many columns and paths), `SizesAssumption` and
`TypesAssumption` (host key types are numbered).

| Theorem | Property | Inductive invariant |
|---|---|---|
| `FinalizeRunProofs!TypeCorrect` | `TypeOK` | `Typed`: between the first and the last call for a table `idx` points at one; a run in the history is over; deferred checks are checks the source has |
| `NoRealValuePublished` | `FinalNeverReal` | `NeverReal`: from the rewrite to the publishing call the temp table is rewritten or the table was named |
| `NoTempForgotten` | `TempsAccounted` | `TempsKnown`: every temp table is in `openTemps`, or about to be, or excused |
| `NoKeyFollowsTheOldTable` | `KeysPointAtFinal` | `NoKeyFollows`: the answer of `CheckInbound` still holds at the swap; assumes `~OtherClients` |
| `NoKeyLostSilently` | `KeysAccounted` | `KeysKept`, of a MySQL source: after reading, every key in scope is wanted or reported; after `RestoreKeys` every key of a landed table is there or reported |
| `CopiedMeansCopied` | `RowsAccounted` | `RowsInHand`: while a table is handled, either its temp table has the rows or the final one does, or the log covers it |
| `NoDetailLostSilently` | `DetailsAccounted` | `DetailsKept`: planned after reading, settled on the temp table step by step, carried over by the swap, checks deferred or settled |
| `TablesAreTakenInTurn` | `TablesTakeTurns` | `Turn`: the table at hand is not landed, the loop is left with every begun table landed and, unless it was cancelled, with all of them begun; between runs nothing of this run is left to see. One lemma per kind of step: `Aside` (no table changes), `WorkStep`, `FinishStep` |
| `PublishingProofs!SwapTypeCorrect`, `FailureIsFinal`, `SwapPublishes` | `SwapTypeOK`, `NoLateSwap`, `SwapPublishesTable` | `Told`: what the client was told is what the server did; `ClientIsPatient`: from `TimesAssumption`, while the server waits the client has not given up |
| `PublishingProofs!TypeCorrect`, `NoColumnLostSilently`, `ReplacePublishes` | `ReplaceInPlace`'s `TypeOK`, `ColumnsAccounted`, `PublishesTable` | `IInv`: a statement that had to wait for earlier ones has outlived them (`Overtaken`), and what each point of the sequence has achieved (`Progress`) |
| `PublishingProofs!NoRowsLost` | `RowsSomewhere` | `RowsKept`: without overlap at most one lost statement exists, and a lost `DROP` means the rows have arrived |
| `UiSessionProofs!TypeCorrect` | `TypeOK` | itself, with the lemma that `RefreshProfiles` keeps selections among the options |
| `TasksExclude`, `CancelIsHeard` | `OneTaskAtATime`, `CancelIsForThisRun` | `Tasks`, their conjunction: what starts a task needs the buttons, what gives them back ends the only task |
| `StartsAsStored` | `RunStartsAsStored` | `AskedIsStored`: while the question is open nothing else of the window can be reached, and another one is remembered |
| `ProfileStoreProofs!TypeCorrect` | `TypeOK` | itself |
| `EntriesApart`, `OthersUntouched` | `NoSharedEntry`, `OnlyOwnPassword` | `Apart`: a handler's key is fresh or its profile's own, and two handlers with one key are at work on one profile |
| `LastPasswordKept`, `NoEntryLeftBehind` | `PasswordKept`, `EntriesOwned` | `Followed`: what each handler knows of its profile and has done to it so far (`Known`, `InHand`), and that two handlers on one profile make it doubtful (`Alone`) |
| `EmptyTableProofs!TypeCorrect`, `KeysStayInHand`, `DefaultsAccounted` | `TypeOK`, `KeysInHand`, `DefaultsKept` | `KeysPlaced`, `DefaultsPlaced`: where each key is at each point, and which defaults may be gone so far |
| `RetriesEnd`, `EmptyTablePublishes` | `RetriesShrink`, `PublishesTable` | the lemma `CutStatement` on what a cut leaves; `TablePlaced`: who made the table and what the server may still do |
| `AnonymizeTableProofs!TypeCorrect`, `NothingRealInSilence`, `BlindSpotsAreNamed`, `ChangesArePlanned`, `AnswersAreTrue` | `TypeOK`, `RealIsNamed`, `UnsearchedIsNamed`, `OnlyPlannedChanges`, `AnswerIsTrue` | `Covered`: each column already searched has its targets and reports in the plan; `TargetsRight`, `AnswerFits`; the lemma `FoundOrReported`: what the search does not reach lies below a key it reports as unreadable or an object it reports as too deep |
| `AnonymizeTableProofs!ValuesFit` | `ParametersFit` | not inductive: a fact of the statement, whatever the plan. Each list has the values of its kind in the order of the tokens (`Matched`, `AtHand`), kept by each assignment that is added (`AssembledSteps`). Induction over the assignments is stated as "there is no least one that breaks it", with the well-foundedness of the natural numbers from the library |
| `SingleCallRunProofs!TypeCorrect`, `SuccessAccounts`, `FailureSaysWhere`, `ScopeIsKept`, `OneSaltForTheRun` | `TypeOK`, `SuccessAccountsForAll`, `StopsWhereItSays`, `OnlyScopeTreated`, `EqualStaysEqual` | `ListingMisses`, `ListingAdds`: how listing and copy differ; `HeadDone`: tables before the next one are treated or named; `OneSalt`: the salt of the run is the Keychain's unless another window wrote it |
| `TunnelManagerProofs!TypeCorrect`, `OnlyStoredKeys`, `HostKeyErrorsAreTrue`, `NothingIsLeft`, `TunnelsAreOurs` | `TypeOK`, `NoOtherKey`, `HostKeyErrorIsTrue`, `NothingLeft`, `HandedOutIsOurs` | `IInv`, in parts: `Stage`: where the call stands; `Answered`: an ssh at work belongs to the current step or to a tunnel that was returned, and every tunnel is known to the finally clause or about to be; `Contacts`: what `known_hosts` may hold of a type that was stored, or was not, when the call began, and what key is demanded by then; `Blames`: who blames the host key has seen one that differs; `UnderMismatch`: a server that has none of the stored keys lets nobody in |

None of the properties is inductive by itself: `KeysAccounted`, for one, only speaks of finished
runs, and needs to know at the end of the loop that every key in scope is still in hand.

Every safety and every action property that a run checks has a theorem. Only model-checked are the three
liveness properties `RunEnds`, `CallReturns` and `LocksEnd` (liveness under fairness is out of the
prover's reach) and the runs of section 6.

## 6. Where the documentation says something else

Two are runs whose one property states the sentence; the findings in `PROJECT.json` quote it.

- `docPostgresKeys`: from a PostgreSQL source the foreign keys are lost and the log does not say so
  (app.py:1577, against user-guide.md:199).
- `docJsonKey`: `jsonb_set` is strict. On PostgreSQL a document that lacks a key some other row has,
  or has a JSON `null` there, becomes `NULL` as a whole (docs/design/2026-10-02-json-anonymization.md:17).

These follow from the same models, or lie beside them; no run checks them. In `FinalizeRun` and `UiSession`:

- A table that another client's key has come to reference since the look for such keys is swapped, and
  the key follows the outgoing table (app.py:1644, against user-guide.md:201). With `OtherClients = TRUE`
  TLC finds `KeysPointAtFinal` violated.
- `fail()` skips the restoring of keys, so a run that fails at a later table leaves the tables it has
  swapped without the foreign keys they had. The guide does not speak of that case.
- A failed index, column detail or `AUTO_INCREMENT` is a WARN (app.py:1755) and the table is swapped in
  all the same; user-guide.md:195 says "nothing is swapped". `DetailsAccounted` holds because of the WARN.
- In the in-place path a duplicate check name counts as "already there" (app.py:1712), also when an
  outgoing table of an earlier run holds the name.
- Saving a rule or typing into the rule search sets the anonymize switch in the middle of a run
  (app.py:544, against user-guide.md:140): one table of a run is rewritten, another is not.
- `list_tables` reads the Keychain before its `try` (transfer.py:1420), and the tasks that call it have no
  `finally`: a refusal leaves every button disabled with no task at work (user-guide.md:226).
- The end of any task enables the switch (app.py:426) that `refresh_rules` had disabled for want of
  rules (comment at app.py:537).

In the other modules:

- `EmptyTable`: a literal default with nothing after it on its line takes the comma along
  (transfer.py:2736); the next `CREATE` fails to parse (1064) and the table is made from its columns
  alone, without keys, indexes and checks (comment at transfer.py:2654, user-guide.md:197).
- `AnonymizeTable`, where the rows of a column disagree: a value that is not a string is overwritten
  where another row has a string under the same key (anonymize.py:465), and not reported where another
  row has an object there (anonymize.py:467), both against user-guide.md:161; a document that is an
  array or a scalar is neither searched nor named when another row holds an object (transfer.py:352,
  against the comment at transfer.py:339).
- `AnonymizeTable` also: a key whose name looks personal but that no rule matches is not reported, as a
  column would be; on PostgreSQL the kind "empty" inside a document is refused by the server.
- `SingleCallRun`: a table behind the first 5000 of its schema stays real in a run that is recorded as
  a success (app.py:1955, against docs/design/2026-10-01-anonymization-plan.md:1005); two windows that
  make their first use of the salt at once give equal values two replacements (secrets.py:54, against
  user-guide.md:151).
- `SingleCallRun` also: a failed step names its own table, while later ones are real too
  (docs/design/2026-10-01-anonymization.md:132); so does "the tables could not be listed", which does not
  say that the copied data is real. A switch that is off when the loop would begin logs nothing.
- `TunnelManager`: with a `known_hosts` that has only key types the server does not offer, ssh accepts a
  new key and sshtunnel fails. Opening a tunnel runs on the window's own thread.

Smaller ones that need no model to see: a failed run is not in the history (app.py:1478 against
user-guide.md:143), a temp table whose `DROP` is refused stays (app.py:2007 against the design note of
2026-10-02, line 102), and a test from the profile form replaces the log of a run (app.py:968 against
user-guide.md:139).

## 7. Not modelled

- Names: schemas of a scope, cross-schema keys, `apx_<hash>_<seconds>`. Two entries of a scope that
  differ only in their schema, and a collision of two temp names, are therefore out of reach; both are
  in the list of hazards.
- Two runs at once (two windows, or a run that starts while the cleanup of the last one goes on): each
  module has one run; what crosses the border is `OtherClientAddsKey`, `OtherWindowEdits`, the salt.
- TLS settings, scope strings and the parsing of DDL: functions of one text or one profile, without
  state, which the repository's tests enumerate. What depends on their result is modelled with every
  result (`PrepareFails`, `Scope`, `Carries`, `Refs`).
- Storage: migrations, the seeding of rules, the rows of the run history. No property above depends
  on them.
- The patterns of rules, the look of a name and the SQL that makes a replacement: text, out of a model's
  reach. That equal values get equal replacements is the salt's part only (`EqualStaysEqual`).
- apitap, Flet, OpenSSH, sshtunnel and the servers, except for the results the code reacts to.
- Row counts, progress, messages, formatting, packaging, release scripts.

## 8. Plan

All modules listed in section 2 exist. What would come next:

1. `TwoRuns`: two instances of a run's cleanup and start over one destination, with temp names drawn
   from a small set.
2. `ProfileStore` as an implementation of one atomic map from profiles to passwords, for the runs in
   which nothing fails half-way.
3. A model of names: what a scope entry turns into in each of the calls that use it.
