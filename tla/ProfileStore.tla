---------------------------- MODULE ProfileStore ----------------------------
(***************************************************************************)
(* The profiles of profiles.db and their passwords in the Keychain: two    *)
(* stores without a common transaction, written step by step by the        *)
(* windows of the app.  A handler of one window runs to its end before the *)
(* next one of that window; handlers of two windows interleave.            *)
(*                                                                         *)
(* Database profiles and SSH profiles are saved and deleted alike, in two  *)
(* tables and under keys of two kinds; this is either of them.             *)
(***************************************************************************)
EXTENDS Naturals, FiniteSets

CONSTANTS
  Windows,      \* processes of the app
  Profiles,     \* ids AUTOINCREMENT can give out
  Names,        \* names typed into the form
  Suffixes,     \* the random part of a Keychain key
  Passwords,    \* passwords typed into the form
  MaxKeys,      \* bound on the keys drawn
  None,         \* no row, key, password, form or task
  New           \* the form of a profile that has no row yet

Keys == Names \X Suffixes

Row == [name : Names, key : Keys \cup {None}]

\* What a handler has in hand.
SaveTask == [step : {"write", "store"}, profile : Profiles \cup {New}, name : Names,
             key : Keys \cup {None}, password : Passwords \cup {None}]
DeleteTask == [step : {"erase", "remove"}, profile : Profiles, key : Keys \cup {None}]

Task == SaveTask \cup DeleteTask

ASSUME IdsAssumption == None \notin Profiles /\ New \notin Profiles /\ None # New

ASSUME NoneAssumption ==
  None \notin Row /\ None \notin Task /\ None \notin Keys /\ None \notin Passwords

VARIABLES
  rows,       \* the table
  used,       \* ids AUTOINCREMENT has given out
  keychain,   \* the Keychain
  drawn,      \* keys _new_secret_key has returned
  form,       \* per window, the profile in the open form
  task,       \* per window, the handler under way
  intended,   \* per profile, the password it was last saved with
  doubtful    \* profiles a handler failed on, or two windows worked on at once

vars == <<rows, used, keychain, drawn, form, task, intended, doubtful>>

Existing == {p \in Profiles : rows[p] # None}

PasswordOf(p) == IF rows[p].key = None THEN None ELSE keychain[rows[p].key]

Init ==
  /\ rows = [p \in Profiles |-> None] /\ used = {}
  /\ keychain = [k \in Keys |-> None] /\ drawn = {}
  /\ form = [w \in Windows |-> None] /\ task = [w \in Windows |-> None]
  /\ intended = [p \in Profiles |-> None] /\ doubtful = {}

Idle(w) == task[w] = None

\* A handler of w starts on p; what another one has read of p may be stale from here on.
Disturbed(w, p) ==
  IF \E v \in Windows \ {w} : task[v] # None /\ task[v].profile = p /\ p # New
  THEN doubtful \cup {p} ELSE doubtful

\* What a handler has already changed when it stops half-way.
HalfDone(t) == t.step = "remove" \/ (t.step = "store" /\ t.password # None)

Stop(w) ==
  /\ task' = [task EXCEPT ![w] = None]
  /\ doubtful' = IF HalfDone(task[w]) THEN doubtful \cup {task[w].profile} ELSE doubtful

(***************************************************************************)
(* The form.                                                               *)
(***************************************************************************)
OpenForm(w) ==
  /\ Idle(w) /\ form[w] = None
  /\ \E p \in Existing \cup {New} : form' = [form EXCEPT ![w] = p]
  /\ UNCHANGED <<rows, used, keychain, drawn, task, intended, doubtful>>

CloseForm(w) ==
  /\ Idle(w) /\ form[w] # None
  /\ form' = [form EXCEPT ![w] = None]
  /\ UNCHANGED <<rows, used, keychain, drawn, task, intended, doubtful>>

\* Mutant: the key is made of the name alone.
NewKeysByName(name) == {<<name, CHOOSE s \in Suffixes : TRUE>>}

\* _new_secret_key: uuid4 is taken to return what it has not returned before.
NewKeys(name) ==
  IF Cardinality(drawn) < MaxKeys THEN {<<name, s>> : s \in Suffixes} \ drawn ELSE {}

\* Mutant: every save starts from a blank profile.
NoKeyToKeep(p) == None

\* editing.password_secret_key, if there is a row to edit.
KeyToKeep(p) == IF p \in Existing THEN rows[p].key ELSE None

PressSave(w) ==
  /\ Idle(w) /\ form[w] # None
  /\ \E name \in Names, password \in Passwords \cup {None} :
       LET kept == KeyToKeep(form[w])
           Begin(step, key) ==
             task' = [task EXCEPT ![w] = [step |-> step, profile |-> form[w], name |-> name,
                                          key |-> key, password |-> password]]
       IN \/ password = None /\ Begin("store", kept) /\ UNCHANGED drawn
          \/ password # None /\ kept # None /\ Begin("write", kept) /\ UNCHANGED drawn
          \/ /\ password # None /\ kept = None
             /\ \E k \in NewKeys(name) : Begin("write", k) /\ drawn' = drawn \cup {k}
  /\ doubtful' = Disturbed(w, form[w])
  /\ UNCHANGED <<rows, used, keychain, form, intended>>

\* set_secret.
WritePassword(w) ==
  /\ ~Idle(w) /\ task[w].step = "write"
  /\ keychain' = [keychain EXCEPT ![task[w].key] = task[w].password]
  /\ task' = [task EXCEPT ![w].step = "store"]
  /\ UNCHANGED <<rows, used, drawn, form, intended, doubtful>>


\* UNIQUE (name); an UPDATE of a row that is gone touches nothing.
NameTaken(p, name) ==
  /\ p = New \/ p \in Existing
  /\ \E q \in Existing \ {p} : rows[q].name = name

\* Storage.save_db_profile and save_ssh_profile.
StoreRow(w) ==
  /\ ~Idle(w) /\ task[w].step = "store"
  /\ ~NameTaken(task[w].profile, task[w].name)
  /\ \E p \in Profiles :
       /\ \/ task[w].profile = p /\ p \in Existing
          \/ task[w].profile = New /\ p \notin used
       /\ rows' = [rows EXCEPT ![p] = [name |-> task[w].name, key |-> task[w].key]]
       /\ used' = used \cup {p}
       /\ intended' = IF task[w].password = None THEN intended
                      ELSE [intended EXCEPT ![p] = task[w].password]
  /\ task' = [task EXCEPT ![w] = None] /\ form' = [form EXCEPT ![w] = None]
  /\ UNCHANGED <<keychain, drawn, doubtful>>

\* ProfileGone.
FindItGone(w) ==
  /\ ~Idle(w) /\ task[w].step = "store" /\ task[w].profile \notin Existing \cup {New}
  /\ Stop(w) /\ form' = [form EXCEPT ![w] = None]
  /\ UNCHANGED <<rows, used, keychain, drawn, intended>>

\* DuplicateProfileName, or an error of either store: the form stays open.
SaveFails(w) ==
  /\ ~Idle(w) /\ task[w].step \in {"write", "store"}
  /\ Stop(w)
  /\ UNCHANGED <<rows, used, keychain, drawn, form, intended>>

(***************************************************************************)
(* Deletion, after the question.                                           *)
(***************************************************************************)
ConfirmDelete(w) ==
  /\ Idle(w) /\ form[w] = None
  /\ \E p \in Existing :
       /\ task' = [task EXCEPT ![w] = [step |-> "erase", profile |-> p, key |-> rows[p].key]]
       /\ doubtful' = Disturbed(w, p)
  /\ UNCHANGED <<rows, used, keychain, drawn, form, intended>>

\* Mutant: leaves the entry where it is.
ErasePasswordForgotten(w) ==
  /\ ~Idle(w) /\ task[w].step = "erase"
  /\ task' = [task EXCEPT ![w].step = "remove"]
  /\ UNCHANGED <<rows, used, keychain, drawn, form, intended, doubtful>>

\* delete_secret: a profile without a key has nothing to erase.
ErasePassword(w) ==
  /\ ~Idle(w) /\ task[w].step = "erase"
  /\ keychain' = [k \in Keys |-> IF k = task[w].key THEN None ELSE keychain[k]]
  /\ task' = [task EXCEPT ![w].step = "remove"]
  /\ UNCHANGED <<rows, used, drawn, form, intended, doubtful>>

\* PasswordDeleteError: the Keychain keeps the entry and the deletion goes on.
EraseIgnored(w) ==
  /\ ~Idle(w) /\ task[w].step = "erase" /\ task[w].key # None /\ keychain[task[w].key] # None
  /\ task' = [task EXCEPT ![w].step = "remove"]
  /\ doubtful' = doubtful \cup {task[w].profile}
  /\ UNCHANGED <<rows, used, keychain, drawn, form, intended>>

\* Storage.delete_db_profile and delete_ssh_profile.
RemoveRow(w) ==
  /\ ~Idle(w) /\ task[w].step = "remove"
  /\ rows' = [rows EXCEPT ![task[w].profile] = None]
  /\ intended' = [intended EXCEPT ![task[w].profile] = None]
  /\ task' = [task EXCEPT ![w] = None]
  /\ UNCHANGED <<used, keychain, drawn, form, doubtful>>

\* Any other error of either store leaves the handler.
DeleteFails(w) ==
  /\ ~Idle(w)
  /\ (task[w].step = "erase" /\ task[w].key # None) \/ task[w].step = "remove"
  /\ Stop(w)
  /\ UNCHANGED <<rows, used, keychain, drawn, form, intended>>

KillWindow(w) ==
  /\ ~Idle(w)
  /\ Stop(w) /\ form' = [form EXCEPT ![w] = None]
  /\ UNCHANGED <<rows, used, keychain, drawn, intended>>

Step(w) ==
  \/ OpenForm(w) \/ CloseForm(w)
  \/ PressSave(w) \/ WritePassword(w) \/ StoreRow(w) \/ FindItGone(w) \/ SaveFails(w)
  \/ ConfirmDelete(w) \/ ErasePassword(w) \/ EraseIgnored(w) \/ RemoveRow(w) \/ DeleteFails(w)
  \/ KillWindow(w)

Next == \E w \in Windows : Step(w)

Spec == Init /\ [][Next]_vars

(***************************************************************************)
(* Properties.                                                             *)
(***************************************************************************)
\* Every variable holds a value of its type, an id is never given out twice, and no two
\* profiles carry one name, whatever windows rename and add at once (storage.py:55, 267).
TypeOK ==
  /\ rows \in [Profiles -> Row \cup {None}] /\ used \in SUBSET Profiles /\ Existing \subseteq used
  /\ \A p, q \in Existing : rows[p].name = rows[q].name => p = q
  /\ keychain \in [Keys -> Passwords \cup {None}] /\ drawn \in SUBSET Keys
  /\ form \in [Windows -> Profiles \cup {None, New}] /\ task \in [Windows -> Task \cup {None}]
  /\ intended \in [Profiles -> Passwords \cup {None}] /\ doubtful \in SUBSET (Profiles \cup {New})

\* Two profiles never share a Keychain entry, through renames, refused saves and
\* windows at work at once: a profile that takes a free name does not get the password
\* of the one that had it (app.py:60-68).
NoSharedEntry == \A p, q \in Existing : rows[p].key # None /\ rows[p].key = rows[q].key => p = q

\* What a handler does, completed or not, reaches the password of no other profile
\* than its own, also when it failed or met another window (app.py:859-865, 792-796).
OnlyOwnPassword ==
  [][\A p \in Existing \cap Existing' :
       PasswordOf(p)' # PasswordOf(p) => \E w \in Windows : ~Idle(w) /\ task[w].profile = p]_vars

\* A profile has the password it was last saved with, through renames and saves that
\* leave the field empty, unless a handler failed half-way on it or two windows worked
\* on it at once (app.py:859-865).
PasswordKept ==
  \A p \in Existing \ doubtful :
    (\A w \in Windows : Idle(w) \/ task[w].profile # p) => PasswordOf(p) = intended[p]

\* As long as nothing failed half-way, the Keychain holds no entry that no profile uses,
\* but for the one a save is about to store (app.py:792-796).
EntriesOwned ==
  doubtful = {} =>
    \A k \in Keys : keychain[k] # None =>
      \/ \E p \in Existing : rows[p].key = k
      \/ \E w \in Windows : ~Idle(w) /\ task[w].step = "store" /\ task[w].key = k
=============================================================================
