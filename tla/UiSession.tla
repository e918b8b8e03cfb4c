------------------------------ MODULE UiSession ------------------------------
(***************************************************************************)
(* One window of the app: the profiles and rules it shows, the buttons it  *)
(* locks, the tasks it runs on its event loop, and another window over the *)
(* same profiles.db.                                                       *)
(*                                                                         *)
(* The transfer itself is one step here; FinalizeRun models it.  Handlers  *)
(* run to completion between two awaits, so each is one action.  A modal   *)
(* dialog keeps every other control of the window out of reach, and a      *)
(* "Delete?" question, which nothing else reads, is part of its deletion.  *)
(***************************************************************************)
EXTENDS Naturals

CONSTANTS
  Profiles,           \* ids of the db_profiles rows
  None,               \* no profile, or no row
  New,                \* the form of a profile that has no row yet
  FormTests           \* the test buttons of a form

ASSUME ProfilesAssumption == None \notin Profiles /\ New \notin Profiles /\ None # New

\* What decisions tell apart of a DBProfile: its host is this machine's own ("here"), the
\* loopback address at the far end of an SSH tunnel ("tunnel"), or another, with or without
\* a tunnel ("elsewhere").
Row == [reach : {"here", "tunnel", "elsewhere"}, production : BOOLEAN]

ASSUME NoneIsNoRow == None \notin Row

VARIABLES
  stored,     \* db_profiles
  used,       \* ids AUTOINCREMENT has given out
  listed,     \* profiles the source dropdown offers
  offered,    \* profiles the destination dropdown offers
  source, destination,  \* what the two dropdowns have selected
  form,       \* profile in the open form dialog
  testing,    \* tests started from such a form that are under way
  rules,      \* whether storage has an enabled rule
  switch,     \* anonymize_switch
  locked,     \* the other busy_controls are disabled
  cancel,     \* the cancel button
  stop,       \* run_state["cancel"]
  probe,      \* whether a preview, a connection test or a table listing works
  transfer,   \* where the run is
  target,     \* the destination the run has read, and its id
  meddled,    \* whether another window changed a profile while the question was open
  refused     \* whether the Keychain refused to answer a table listing

profileVars == <<stored, used, listed, offered, source, destination>>
lockVars == <<locked, switch, cancel>>
taskVars == <<probe, transfer, target, stop, meddled, refused>>
vars == <<profileVars, form, testing, rules, lockVars, taskVars>>

(***************************************************************************)
(* Profiles.                                                               *)
(***************************************************************************)
Existing(rows) == {p \in Profiles : rows[p] # None}
Candidates(rows) == {p \in Existing(rows) : ~rows[p].production}

\* Mutant: leaves the selections alone.
RefreshKeepsChoice(rows) ==
  /\ listed' = Existing(rows) /\ offered' = Candidates(rows)
  /\ UNCHANGED <<source, destination>>

\* refresh_db_options: a selection the lists no longer hold is dropped.
RefreshProfiles(rows) ==
  /\ listed' = Existing(rows) /\ offered' = Candidates(rows)
  /\ source' = IF source \in Existing(rows) THEN source ELSE None
  /\ destination' = IF destination \in Candidates(rows) THEN destination ELSE None

\* Mutant: takes the near end of a tunnel for a database of this machine.
HostIsLocal(row) == row.reach # "elsewhere"
IsLocal(row) == row.reach = "here"

\* What selected_endpoints lets through.
EndpointsOk ==
  /\ source \in Existing(stored) /\ destination \in Candidates(stored)
  /\ source # destination

Init ==
  /\ stored \in [Profiles -> Row \cup {None}] /\ used = Existing(stored)
  /\ listed = Existing(stored) /\ offered = Candidates(stored)
  /\ source = None /\ destination = None
  /\ form = None /\ testing = {}
  /\ rules \in BOOLEAN /\ switch = [on |-> rules, disabled |-> ~rules]
  /\ locked = FALSE /\ cancel = "hidden" /\ stop = FALSE
  /\ probe = FALSE /\ transfer = "idle" /\ target = None
  /\ meddled = FALSE /\ refused = FALSE

(***************************************************************************)
(* What the user can reach.                                                *)
(***************************************************************************)
Reachable == form = None /\ transfer # "asked"

Pressable == Reachable /\ ~locked

\* set_running(True) and set_running(False).
Lock(cancelButton) ==
  /\ locked' = TRUE /\ switch' = [switch EXCEPT !.disabled = TRUE]
  /\ cancel' = cancelButton

Unlock ==
  /\ locked' = FALSE /\ switch' = [switch EXCEPT !.disabled = FALSE]
  /\ cancel' = "hidden"

PickSource ==
  /\ Pressable /\ source' \in listed
  /\ UNCHANGED <<stored, used, listed, offered, destination, form, testing, rules,
                 lockVars, taskVars>>

PickDestination ==
  /\ Pressable /\ destination' \in offered
  /\ UNCHANGED <<stored, used, listed, offered, source, form, testing, rules,
                 lockVars, taskVars>>

FlipSwitch ==
  /\ Reachable /\ ~switch.disabled
  /\ switch' = [switch EXCEPT !.on = ~@]
  /\ UNCHANGED <<profileVars, form, testing, rules, locked, cancel, taskVars>>

\* open_db_dialog: the lists stay within reach during a run.
OpenForm ==
  /\ Reachable
  /\ \E p \in listed \cup {New} :
       IF p \in Profiles /\ stored[p] = None
       THEN RefreshProfiles(stored) /\ UNCHANGED <<stored, used, form>>
       ELSE form' = p /\ UNCHANGED profileVars
  /\ UNCHANGED <<testing, rules, lockVars, taskVars>>

CloseForm ==
  /\ form # None /\ form' = None
  /\ UNCHANGED <<profileVars, testing, rules, lockVars, taskVars>>

\* save_db_profile: a form whose row is gone saves nothing.
SaveForm ==
  /\ form # None /\ form' = None
  /\ \/ \E p \in Profiles, row \in Row :
          /\ \/ form = p /\ stored[p] # None
             \/ form = New /\ p \notin used
          /\ stored' = [stored EXCEPT ![p] = row] /\ used' = used \cup {p}
          /\ RefreshProfiles(stored')
     \/ /\ form \in Profiles /\ stored[form] = None
        /\ RefreshProfiles(stored) /\ UNCHANGED <<stored, used>>
  /\ UNCHANGED <<testing, rules, lockVars, taskVars>>

DeleteProfile ==
  /\ Reachable
  /\ \E p \in listed :
       /\ stored' = [stored EXCEPT ![p] = None] /\ RefreshProfiles(stored')
  /\ UNCHANGED <<used, form, testing, rules, lockVars, taskVars>>

\* delete_ssh_profile: the database profiles behind it lose their tunnel.
DeleteSSHProfile ==
  /\ Reachable
  /\ \E ps \in SUBSET {p \in Existing(stored) : stored[p].reach = "tunnel"} :
       stored' = [p \in Profiles |-> IF p \in ps THEN [stored[p] EXCEPT !.reach = "here"]
                                               ELSE stored[p]]
  /\ RefreshProfiles(stored')
  /\ UNCHANGED <<used, form, testing, rules, lockVars, taskVars>>

(***************************************************************************)
(* Rules.                                                                  *)
(***************************************************************************)
\* refresh_rules, at the end of each change and on each key in the search field.
RefreshRules(on) == switch' = [on |-> on, disabled |-> ~on]

EditRules ==
  /\ Reachable
  /\ rules' \in BOOLEAN /\ RefreshRules(rules')
  /\ UNCHANGED <<profileVars, form, testing, locked, cancel, taskVars>>

SearchRules ==
  /\ Reachable /\ RefreshRules(rules)
  /\ UNCHANGED <<profileVars, form, testing, rules, locked, cancel, taskVars>>

(***************************************************************************)
(* Tests from the form: they lock their own button and nothing else.       *)
(***************************************************************************)
StartFormTest ==
  /\ form # None
  /\ \E t \in FormTests \ testing : testing' = testing \cup {t}
  /\ UNCHANGED <<profileVars, form, rules, lockVars, taskVars>>

\* Mutant: gives the buttons back the way the other tests do.
FormTestUnlocks ==
  /\ \E t \in testing : testing' = testing \ {t}
  /\ Unlock
  /\ UNCHANGED <<profileVars, form, rules, taskVars>>

FormTestEnds ==
  /\ \E t \in testing : testing' = testing \ {t}
  /\ UNCHANGED <<profileVars, form, rules, lockVars, taskVars>>

(***************************************************************************)
(* Preview, connection tests and table listing.                            *)
(***************************************************************************)
StartProbe ==
  /\ Pressable
  /\ {source, destination} \cap Existing(stored) # {}
  /\ Lock("hidden") /\ probe' = TRUE
  /\ UNCHANGED <<profileVars, form, testing, rules, transfer, target, stop, meddled, refused>>

\* Mutant: forgets set_running(False).
ProbeForgets ==
  /\ probe /\ probe' = FALSE
  /\ UNCHANGED <<profileVars, form, testing, rules, lockVars, transfer, target, stop, meddled, refused>>

ProbeEnds ==
  /\ probe /\ probe' = FALSE
  /\ Unlock
  /\ UNCHANGED <<profileVars, form, testing, rules, transfer, target, stop, meddled, refused>>

\* list_tables reads the Keychain before its try: the exception ends the task.
ProbeRaises ==
  /\ probe /\ probe' = FALSE /\ refused' = TRUE
  /\ UNCHANGED <<profileVars, form, testing, rules, lockVars, transfer, target, stop, meddled>>

(***************************************************************************)
(* A run, up to its start and from its end.                                *)
(***************************************************************************)
\* selected_endpoints for a profile that is gone; the other refusals change nothing.
RefuseGone ==
  /\ Pressable /\ source # None /\ destination # None
  /\ {source, destination} \ Existing(stored) # {}
  /\ RefreshProfiles(stored)
  /\ UNCHANGED <<stored, used, form, testing, rules, lockVars, taskVars>>

\* Mutant: a flag the last run left behind.
KeepFlag == stop' = stop
ClearFlag == stop' = FALSE

\* From run_state["cancel"] = False to the first await.
Begin ==
  /\ transfer' = "running" /\ ClearFlag /\ Lock("ready")

\* destination_confirmed for a destination that needs no question.
StartRun ==
  /\ Pressable /\ EndpointsOk /\ IsLocal(stored[destination])
  /\ target' = [id |-> destination, row |-> stored[destination]]
  /\ Begin
  /\ UNCHANGED <<profileVars, form, testing, rules, probe, meddled, refused>>

\* ask_confirmation: the task waits for the answer with the profile it has read.
AskDestination ==
  /\ Pressable /\ EndpointsOk /\ ~IsLocal(stored[destination])
  /\ transfer = "idle" /\ transfer' = "asked"
  /\ target' = [id |-> destination, row |-> stored[destination]]
  /\ UNCHANGED <<profileVars, form, testing, rules, lockVars, probe, stop, meddled, refused>>

Overwrite ==
  /\ transfer = "asked" /\ Begin /\ meddled' = FALSE
  /\ UNCHANGED <<profileVars, form, testing, rules, probe, target, refused>>

Decline ==
  /\ transfer = "asked" /\ transfer' = "idle" /\ target' = None /\ meddled' = FALSE
  /\ UNCHANGED <<profileVars, form, testing, rules, lockVars, probe, stop, refused>>

PressCancel ==
  /\ Reachable /\ cancel = "ready"
  /\ cancel' = "pressed" /\ stop' = TRUE
  /\ UNCHANGED <<profileVars, form, testing, rules, locked, switch, probe, transfer,
                 target, meddled, refused>>

\* The last lines of run_transfer_task, or fail().
RunEnds ==
  /\ transfer = "running" /\ transfer' = "idle" /\ target' = None
  /\ Unlock
  /\ UNCHANGED <<profileVars, form, testing, rules, probe, stop, meddled, refused>>

(***************************************************************************)
(* Another window over the same storage.                                   *)
(***************************************************************************)
OtherWindowEdits ==
  /\ \/ /\ \E p \in Existing(stored), row \in Row \cup {None} :
               stored' = [stored EXCEPT ![p] = row]
          /\ meddled' = (transfer = "asked") /\ UNCHANGED rules
     \/ rules' = ~rules /\ UNCHANGED <<stored, meddled>>
  /\ UNCHANGED <<used, listed, offered, source, destination, form, testing,
                 lockVars, probe, transfer, target, stop, refused>>

Next ==
  \/ PickSource \/ PickDestination \/ FlipSwitch
  \/ OpenForm \/ CloseForm \/ SaveForm \/ DeleteProfile \/ DeleteSSHProfile
  \/ EditRules \/ SearchRules
  \/ StartFormTest \/ FormTestEnds
  \/ StartProbe \/ ProbeEnds \/ ProbeRaises
  \/ RefuseGone \/ StartRun \/ AskDestination \/ Overwrite \/ Decline
  \/ PressCancel \/ RunEnds
  \/ OtherWindowEdits

Spec == Init /\ [][Next]_vars

\* Connections and statements have timeouts, so each task comes to its end.
TasksEnd == WF_vars(ProbeEnds) /\ WF_vars(RunEnds)
FairSpec == Spec /\ TasksEnd

(***************************************************************************)
(* Properties.                                                             *)
(***************************************************************************)
\* Every variable holds a value of its type, and what a dropdown has selected is one
\* of its options (app.py:495-505).
TypeOK ==
  /\ stored \in [Profiles -> Row \cup {None}] /\ used \in SUBSET Profiles
  /\ listed \in SUBSET Profiles /\ offered \in SUBSET Profiles
  /\ source \in listed \cup {None} /\ destination \in offered \cup {None}
  /\ form \in Profiles \cup {None, New} /\ testing \in SUBSET FormTests /\ rules \in BOOLEAN
  /\ switch \in [on : BOOLEAN, disabled : BOOLEAN] /\ locked \in BOOLEAN
  /\ cancel \in {"hidden", "ready", "pressed"} /\ stop \in BOOLEAN
  /\ probe \in BOOLEAN /\ transfer \in {"idle", "asked", "running"}
  /\ target \in [id : Profiles, row : Row] \cup {None}
  /\ meddled \in BOOLEAN /\ refused \in BOOLEAN

\* While a task works, the buttons that start another one stay locked, whatever
\* dialogs, rule edits and form tests happen meanwhile (app.py:387-397, 424).
OneTaskAtATime ==
  /\ ~(probe /\ transfer # "idle")
  /\ probe \/ transfer = "running" => locked

\* A run stops for the Cancel of this run only, never for one a run before it
\* was sent, and the button shows that it was heard (app.py:434, 1467).
CancelIsForThisRun == transfer = "running" => (stop <=> cancel = "pressed")

\* When a run starts, its destination is what storage holds at that moment, is not
\* marked as production, and was put to the user unless it is a database of this
\* machine reached directly (app.py:1184-1216, 1309); but for what another window does
\* while the question is open.
RunStartsAsStored ==
  [][transfer # "running" /\ transfer' = "running" /\ ~meddled =>
       /\ stored[target'.id] = target'.row /\ ~target'.row.production
       /\ transfer = "asked" \/ target'.row.reach = "here"]_vars

\* Buttons that were locked for a task are given back (app.py:424, 1478, 2001), unless
\* the Keychain refuses.
LocksEnd == locked ~> ~locked \/ refused
=============================================================================
