------------------------- MODULE ProfileStoreProofs -------------------------
(***************************************************************************)
(* What two stores without a common transaction keep, for any number of    *)
(* windows, profiles, names and keys.                                      *)
(***************************************************************************)
EXTENDS ProfileStore, TLAPS

(***************************************************************************)
(* The inductive invariants.                                               *)
(***************************************************************************)
\* Whoever has a key got it from _new_secret_key or from the row that has it.
KeysApart ==
  /\ \A p \in Existing : rows[p].key \in drawn \cup {None}
  /\ \A w \in Windows : ~Idle(w) => task[w].key \in drawn \cup {None}
  /\ \A w \in Windows, q \in Existing :
       ~Idle(w) /\ task[w].key # None /\ task[w].key = rows[q].key => task[w].profile = q
  /\ \A v, w \in Windows :
       v # w /\ ~Idle(v) /\ ~Idle(w) /\ task[v].key # None /\ task[v].key = task[w].key =>
         task[v].profile = task[w].profile /\ task[v].profile # New

Apart == NoSharedEntry /\ KeysApart

\* What the handler of w knows of its profile p, and has done to it so far.
InHand(w, p) ==
  /\ rows[p].key # None \/ (task[w].step = "store" /\ task[w].password = None) =>
       task[w].key = rows[p].key
  /\ task[w].step = "remove" => PasswordOf(p) = None
  /\ \/ task[w].step = "remove"
     \/ task[w].step = "store" /\ task[w].password # None
     \/ PasswordOf(p) = intended[p]

\* A save of a profile that has no row: nobody else can reach its key.
Unheard(w) ==
  task[w].step \in {"write", "store"} /\ (task[w].password = None => task[w].key = None)

Known(w) ==
  /\ task[w].profile \in used \cup {New}
  /\ task[w].step = "write" => task[w].key # None /\ task[w].password # None
  /\ task[w].profile = New \/ task[w].profile \notin Existing \cup doubtful => Unheard(w)
  /\ task[w].profile = New \/ task[w].profile \notin doubtful =>
       (task[w].step = "store" /\ task[w].password # None =>
          task[w].key # None /\ keychain[task[w].key] = task[w].password)
  /\ task[w].profile \in Existing \ doubtful => InHand(w, task[w].profile)

Alone ==
  \A v, w \in Windows :
    v # w /\ ~Idle(v) /\ ~Idle(w) /\ task[v].profile = task[w].profile =>
      task[v].profile = New \/ task[v].profile \in doubtful

Followed ==
  /\ \A p \in Profiles \ Existing : intended[p] = None
  /\ \A w \in Windows : form[w] \in used \cup {None, New}
  /\ \A w \in Windows : ~Idle(w) => Known(w)
  /\ Alone

(***************************************************************************)
(* Types.                                                                  *)
(***************************************************************************)
\* What is known of a handler by its step.
LEMMA TaskTypes ==
  ASSUME TypeOK, NEW w \in Windows, ~Idle(w)
  PROVE  /\ task[w] \in Task /\ task \in [Windows -> Task \cup {None}]
         /\ task[w].profile \in Profiles \cup {New} /\ task[w].key \in Keys \cup {None}
         /\ task[w].step \in {"write", "store", "erase", "remove"}
         /\ task[w].step \in {"write", "store"} =>
              /\ task[w] \in SaveTask /\ task[w].name \in Names
              /\ task[w].password \in Passwords \cup {None}
         /\ task[w].step \in {"erase", "remove"} =>
              task[w] \in DeleteTask /\ task[w].profile \in Profiles
BY DEF TypeOK, Idle, Task, SaveTask, DeleteTask

\* A handler that stops leaves the types alone.
LEMMA StopKeepsTypes ==
  ASSUME TypeOK, NEW w \in Windows, ~Idle(w), Stop(w)
  PROVE  task' \in [Windows -> Task \cup {None}] /\ doubtful' \in SUBSET (Profiles \cup {New})
<1>1. task[w].profile \in Profiles \cup {New}
  BY TaskTypes
<1>2. QED
  BY <1>1 DEF TypeOK, Stop

\* A save that goes on changes its step only.
LEMMA SaveGoesOn ==
  ASSUME TypeOK, NEW w \in Windows, ~Idle(w), task[w].step = "write",
         task' = [task EXCEPT ![w].step = "store"]
  PROVE  /\ task' \in [Windows -> Task \cup {None}] /\ task'[w] \in Task
         /\ task'[w].step = "store" /\ task'[w].profile = task[w].profile
         /\ task'[w].name = task[w].name /\ task'[w].key = task[w].key
         /\ task'[w].password = task[w].password
         /\ \A v \in Windows : v # w => task'[v] = task[v]
<1>1. task[w] \in SaveTask /\ task \in [Windows -> Task \cup {None}]
  BY TaskTypes
<1>2. [task[w] EXCEPT !.step = "store"] \in SaveTask
  BY <1>1 DEF SaveTask
<1>3. task'[w] = [task[w] EXCEPT !.step = "store"] /\ \A v \in Windows : v # w => task'[v] = task[v]
  BY <1>1
<1>4. task' \in [Windows -> Task \cup {None}]
  BY <1>1, <1>2 DEF Task
<1>5. QED
  BY <1>1, <1>2, <1>3, <1>4 DEF SaveTask, Task

\* So does a deletion.
LEMMA DeleteGoesOn ==
  ASSUME TypeOK, NEW w \in Windows, ~Idle(w), task[w].step = "erase",
         task' = [task EXCEPT ![w].step = "remove"]
  PROVE  /\ task' \in [Windows -> Task \cup {None}] /\ task'[w] \in Task
         /\ task'[w].step = "remove" /\ task'[w].profile = task[w].profile
         /\ task'[w].key = task[w].key
         /\ \A v \in Windows : v # w => task'[v] = task[v]
<1>1. task[w] \in DeleteTask /\ task \in [Windows -> Task \cup {None}]
  BY TaskTypes
<1>2. [task[w] EXCEPT !.step = "remove"] \in DeleteTask
  BY <1>1 DEF DeleteTask
<1>3. task'[w] = [task[w] EXCEPT !.step = "remove"] /\ \A v \in Windows : v # w => task'[v] = task[v]
  BY <1>1
<1>4. task' \in [Windows -> Task \cup {None}]
  BY <1>1, <1>2 DEF Task
<1>5. QED
  BY <1>1, <1>2, <1>3, <1>4 DEF DeleteTask, Task

\* What a save starts with.
LEMMA SaveBegins ==
  ASSUME TypeOK, NEW w \in Windows, PressSave(w)
  PROVE  \E t \in SaveTask :
           /\ task' = [task EXCEPT ![w] = t] /\ t.profile = form[w]
           /\ \/ /\ t.step = "store" /\ t.password = None
                 /\ t.key = KeyToKeep(form[w]) /\ drawn' = drawn
              \/ /\ t.step = "write" /\ t.password # None /\ t.key # None
                 /\ t.key = KeyToKeep(form[w]) /\ drawn' = drawn
              \/ /\ t.step = "write" /\ t.password # None
                 /\ KeyToKeep(form[w]) = None
                 /\ t.key \in Keys \ drawn /\ drawn' = drawn \cup {t.key}
<1>1. PICK name \in Names, password \in Passwords \cup {None} :
        LET kept == KeyToKeep(form[w])
            Begin(step, key) ==
              task' = [task EXCEPT ![w] = [step |-> step, profile |-> form[w], name |-> name,
                                           key |-> key, password |-> password]]
        IN \/ password = None /\ Begin("store", kept) /\ UNCHANGED drawn
           \/ password # None /\ kept # None /\ Begin("write", kept) /\ UNCHANGED drawn
           \/ /\ password # None /\ kept = None
              /\ \E k \in NewKeys(name) : Begin("write", k) /\ drawn' = drawn \cup {k}
  BY DEF PressSave
<1>2. form[w] \in Profiles \cup {New} /\ KeyToKeep(form[w]) \in Keys \cup {None}
  BY DEF TypeOK, PressSave, KeyToKeep, Existing, Row
<1> DEFINE t(step, key) == [step |-> step, profile |-> form[w], name |-> name,
                            key |-> key, password |-> password]
<1>4. \A step \in {"write", "store"}, key \in Keys \cup {None} : t(step, key) \in SaveTask
  BY <1>2 DEF SaveTask
<1>5. NewKeys(name) \subseteq Keys \ drawn
  BY DEF NewKeys, Keys
<1>6. CASE password = None /\ task' = [task EXCEPT ![w] = t("store", KeyToKeep(form[w]))]
           /\ UNCHANGED drawn
  <2>1. t("store", KeyToKeep(form[w])) \in SaveTask
    BY <1>2, <1>4
  <2>2. QED
    BY <1>6, <2>1
<1>7. CASE /\ password # None /\ KeyToKeep(form[w]) # None
           /\ task' = [task EXCEPT ![w] = t("write", KeyToKeep(form[w]))] /\ UNCHANGED drawn
  <2>1. t("write", KeyToKeep(form[w])) \in SaveTask
    BY <1>2, <1>4
  <2>2. QED
    BY <1>7, <2>1
<1>8. CASE /\ password # None /\ KeyToKeep(form[w]) = None
           /\ \E k \in NewKeys(name) :
                task' = [task EXCEPT ![w] = t("write", k)] /\ drawn' = drawn \cup {k}
  <2>1. PICK k \in NewKeys(name) : task' = [task EXCEPT ![w] = t("write", k)] /\ drawn' = drawn \cup {k}
    BY <1>8
  <2>2. k \in Keys \ drawn
    BY <1>5
  <2>3. t("write", k) \in SaveTask
    BY <1>4, <2>2
  <2>4. QED
    BY <1>8, <2>1, <2>2, <2>3
<1>9. QED
  BY <1>1, <1>6, <1>7, <1>8

\* Every variable keeps to its type, ids are not given out twice, and no two profiles
\* ever carry one name, for any number of windows.
THEOREM TypeCorrect == Spec => []TypeOK
<1>1. Init => TypeOK
  BY IdsAssumption DEF Init, TypeOK, Existing
<1>2. TypeOK /\ [Next]_vars => TypeOK'
  <2> SUFFICES ASSUME TypeOK, [Next]_vars PROVE TypeOK'
    OBVIOUS
  <2>1. CASE UNCHANGED vars
    BY <2>1 DEF TypeOK, vars, Existing
  <2>2. ASSUME NEW w \in Windows, OpenForm(w) \/ CloseForm(w) PROVE TypeOK'
    BY <2>2 DEF TypeOK, OpenForm, CloseForm, Existing
  <2>3. ASSUME NEW w \in Windows, PressSave(w) PROVE TypeOK'
    <3>1. PICK t \in SaveTask :
            /\ task' = [task EXCEPT ![w] = t]
            /\ drawn' = drawn \/ (t.key \in Keys /\ drawn' = drawn \cup {t.key})
      BY <2>3, SaveBegins
    <3>2. doubtful' \in SUBSET (Profiles \cup {New})
      BY <2>3 DEF PressSave, Disturbed, TypeOK
    <3>3. UNCHANGED <<rows, used, keychain, form, intended>>
      BY <2>3 DEF PressSave
    <3>4. QED
      BY <3>1, <3>2, <3>3 DEF TypeOK, Existing, Task
  <2>4. ASSUME NEW w \in Windows, WritePassword(w) PROVE TypeOK'
    <3>1. task[w].key \in Keys \cup {None} /\ task[w].password \in Passwords \cup {None}
      BY <2>4, TaskTypes DEF WritePassword
    <3>2. keychain' \in [Keys -> Passwords \cup {None}]
      BY <2>4, <3>1 DEF WritePassword, TypeOK
    <3>3. task' \in [Windows -> Task \cup {None}]
      BY <2>4, SaveGoesOn DEF WritePassword
    <3>4. QED
      BY <2>4, <3>2, <3>3 DEF WritePassword, TypeOK, Existing
  <2>5. ASSUME NEW w \in Windows, StoreRow(w) PROVE TypeOK'
    <3>1. /\ task[w].name \in Names /\ task[w].key \in Keys \cup {None}
          /\ task[w].password \in Passwords \cup {None}
      BY <2>5, TaskTypes DEF StoreRow
    <3>2. PICK p \in Profiles :
            /\ \/ task[w].profile = p /\ p \in Existing
               \/ task[w].profile = New /\ p \notin used
            /\ rows' = [rows EXCEPT ![p] = [name |-> task[w].name, key |-> task[w].key]]
            /\ used' = used \cup {p}
            /\ intended' = IF task[w].password = None THEN intended
                           ELSE [intended EXCEPT ![p] = task[w].password]
      BY <2>5 DEF StoreRow
    <3>3. [name |-> task[w].name, key |-> task[w].key] \in Row
      BY <3>1 DEF Row
    <3>4. rows' \in [Profiles -> Row \cup {None}] /\ Existing' = Existing \cup {p}
      BY <3>2, <3>3, NoneAssumption DEF TypeOK, Existing
    <3>5. /\ used' \in SUBSET Profiles /\ Existing' \subseteq used'
          /\ intended' \in [Profiles -> Passwords \cup {None}]
      BY <3>1, <3>2, <3>4 DEF TypeOK
    <3>6. \A q \in Existing \ {p} : rows[q].name # task[w].name
      BY <2>5, <3>2, IdsAssumption DEF StoreRow, NameTaken, TypeOK
    <3>7. \A q, r \in Existing' : rows'[q].name = rows'[r].name => q = r
      <4>1. rows'[p].name = task[w].name /\ \A q \in Existing \ {p} : rows'[q] = rows[q]
        BY <3>2, <3>3 DEF TypeOK, Existing
      <4>2. QED
        BY <3>4, <3>6, <4>1 DEF TypeOK
    <3>8. UNCHANGED <<keychain, drawn, doubtful>>
      BY <2>5 DEF StoreRow
    <3>9. /\ form' \in [Windows -> Profiles \cup {None, New}]
          /\ task' \in [Windows -> Task \cup {None}]
      BY <2>5 DEF StoreRow, TypeOK
    <3>10. QED
      BY <3>4, <3>5, <3>7, <3>8, <3>9 DEF TypeOK
  <2>6. ASSUME NEW w \in Windows, FindItGone(w) \/ SaveFails(w) \/ DeleteFails(w) \/ KillWindow(w)
        PROVE TypeOK'
    <3>1. ~Idle(w) /\ Stop(w) /\ UNCHANGED <<rows, used, keychain, drawn, intended>>
      BY <2>6 DEF FindItGone, SaveFails, DeleteFails, KillWindow
    <3>2. form' \in [Windows -> Profiles \cup {None, New}]
      BY <2>6 DEF FindItGone, SaveFails, DeleteFails, KillWindow, TypeOK
    <3>3. QED
      BY <3>1, <3>2, StopKeepsTypes DEF TypeOK, Existing
  <2>7. ASSUME NEW w \in Windows, ConfirmDelete(w) PROVE TypeOK'
    <3>1. PICK p \in Existing :
            /\ task' = [task EXCEPT ![w] = [step |-> "erase", profile |-> p, key |-> rows[p].key]]
            /\ doubtful' = Disturbed(w, p)
      BY <2>7 DEF ConfirmDelete
    <3>2. p \in Profiles /\ rows[p].key \in Keys \cup {None}
      BY DEF TypeOK, Existing, Row
    <3>3. [step |-> "erase", profile |-> p, key |-> rows[p].key] \in Task
      BY <3>2 DEF Task, DeleteTask
    <3>4. doubtful' \in SUBSET (Profiles \cup {New})
      BY <3>1, <3>2 DEF Disturbed, TypeOK
    <3>5. QED
      BY <2>7, <3>1, <3>3, <3>4 DEF ConfirmDelete, TypeOK, Existing
  <2>8. ASSUME NEW w \in Windows, ErasePassword(w) \/ EraseIgnored(w) PROVE TypeOK'
    <3>1. task' \in [Windows -> Task \cup {None}]
      BY <2>8, DeleteGoesOn DEF ErasePassword, EraseIgnored
    <3>2. task[w].profile \in Profiles \cup {New}
      BY <2>8, TaskTypes DEF ErasePassword, EraseIgnored
    <3>3. doubtful' \in SUBSET (Profiles \cup {New}) /\ keychain' \in [Keys -> Passwords \cup {None}]
      BY <2>8, <3>2 DEF ErasePassword, EraseIgnored, TypeOK
    <3>4. UNCHANGED <<rows, used, drawn, form, intended>>
      BY <2>8 DEF ErasePassword, EraseIgnored
    <3>5. QED
      BY <3>1, <3>3, <3>4 DEF TypeOK, Existing
  <2>9. ASSUME NEW w \in Windows, RemoveRow(w) PROVE TypeOK'
    BY <2>9 DEF RemoveRow, TypeOK, Existing
  <2>10. QED
    BY <2>1, <2>2, <2>3, <2>4, <2>5, <2>6, <2>7, <2>8, <2>9 DEF Next, Step
<1>3. QED
  BY <1>1, <1>2, PTL DEF Spec

(***************************************************************************)
(* Keys.  A handler may work with a key only if it is fresh or its         *)
(* profile's own; two handlers with one key are at work on one profile.    *)
(***************************************************************************)
\* Rows that go and handlers that stop or go on leave the keys as they are.
LEMMA KeysUntouched ==
  ASSUME Apart, drawn' = drawn,
         Existing' \subseteq Existing, \A p \in Existing' : rows'[p] = rows[p],
         \A v \in Windows :
           \/ task'[v] = None
           \/ ~Idle(v) /\ task'[v].key = task[v].key /\ task'[v].profile = task[v].profile
  PROVE  Apart'
<1>1. NoSharedEntry'
  BY DEF Apart, NoSharedEntry
<1>2. \A p \in Existing' : rows'[p].key \in drawn' \cup {None}
  BY DEF Apart, KeysApart
<1>3. \A v \in Windows : ~Idle(v)' => task'[v].key \in drawn' \cup {None}
  BY DEF Apart, KeysApart, Idle
<1>4. \A w \in Windows, q \in Existing' :
        ~Idle(w)' /\ task'[w].key # None /\ task'[w].key = rows'[q].key => task'[w].profile = q
  BY DEF Apart, KeysApart, Idle
<1>5. \A v, w \in Windows :
        v # w /\ ~Idle(v)' /\ ~Idle(w)' /\ task'[v].key # None /\ task'[v].key = task'[w].key =>
          task'[v].profile = task'[w].profile /\ task'[v].profile # New
  BY DEF Apart, KeysApart, Idle
<1>6. QED
  BY <1>1, <1>2, <1>3, <1>4, <1>5 DEF Apart, KeysApart

\* A handler that begins with a fresh key, or with the key of its row.
LEMMA KeysBegin ==
  ASSUME TypeOK, Apart, NEW w \in Windows, NEW t \in Task,
         task' = [task EXCEPT ![w] = t], UNCHANGED rows,
         \/ t.key = None /\ drawn' = drawn
         \/ t.key \in Keys \ drawn /\ drawn' = drawn \cup {t.key}
         \/ t.profile \in Existing /\ t.key = rows[t.profile].key /\ drawn' = drawn
  PROVE  Apart'
<1>1. t # None /\ task'[w] = t /\ \A v \in Windows \ {w} : task'[v] = task[v]
  BY NoneAssumption DEF TypeOK
<1>2. Existing' = Existing /\ New \notin Existing /\ NoSharedEntry'
  BY IdsAssumption DEF Existing, Apart, NoSharedEntry
<1>3. /\ \A p \in Existing' : rows'[p].key \in drawn' \cup {None}
      /\ \A v \in Windows : ~Idle(v)' => task'[v].key \in drawn' \cup {None}
  BY <1>1, <1>2 DEF Apart, KeysApart, Idle
<1>4. \A q \in Existing : t.key # None /\ t.key = rows[q].key => t.profile = q
  BY DEF Apart, KeysApart, NoSharedEntry
<1>5. \A v \in Windows \ {w} : ~Idle(v) /\ t.key # None /\ t.key = task[v].key =>
        t.profile = task[v].profile /\ t.profile # New
  BY <1>2 DEF Apart, KeysApart
<1>6. QED
  BY <1>1, <1>2, <1>3, <1>4, <1>5 DEF Apart, KeysApart, Idle

\* A row that gets the key its handler has in hand.
LEMMA KeyStored ==
  ASSUME TypeOK, Apart, NEW w \in Windows, StoreRow(w)
  PROVE  Apart'
<1>1. PICK p \in Profiles :
        /\ \/ task[w].profile = p /\ p \in Existing
           \/ task[w].profile = New /\ p \notin used
        /\ rows' = [rows EXCEPT ![p] = [name |-> task[w].name, key |-> task[w].key]]
  BY DEF StoreRow
<1>2. /\ ~Idle(w) /\ drawn' = drawn /\ task'[w] = None
      /\ \A v \in Windows \ {w} : task'[v] = task[v]
  BY DEF StoreRow, TypeOK
<1>3. [name |-> task[w].name, key |-> task[w].key] \in Row
  BY TaskTypes DEF StoreRow, Row
<1>4. /\ Existing' = Existing \cup {p} /\ rows'[p].key = task[w].key
      /\ \A q \in Existing \ {p} : rows'[q] = rows[q]
  BY <1>1, <1>3, NoneAssumption DEF TypeOK, Existing
<1>5. \A q \in Existing \ {p} : task[w].key # None => rows[q].key # task[w].key
  BY <1>1, <1>2, IdsAssumption DEF Apart, KeysApart, Existing
<1>6. NoSharedEntry'
  BY <1>4, <1>5 DEF NoSharedEntry, Apart
<1>7. /\ \A q \in Existing' : rows'[q].key \in drawn' \cup {None}
      /\ \A v \in Windows : ~Idle(v)' => task'[v].key \in drawn' \cup {None}
  BY <1>2, <1>4 DEF Apart, KeysApart, Idle
<1>8. \A v \in Windows \ {w} :
        ~Idle(v) /\ task[v].key # None /\ task[v].key = task[w].key => task[v].profile = p
  BY <1>1, <1>2 DEF Apart, KeysApart
<1>9. \A v \in Windows, q \in Existing' :
        ~Idle(v)' /\ task'[v].key # None /\ task'[v].key = rows'[q].key => task'[v].profile = q
  BY <1>2, <1>4, <1>8 DEF Apart, KeysApart, Idle
<1>10. QED
  BY <1>2, <1>6, <1>7, <1>9 DEF Apart, KeysApart, Idle

\* Apart holds beside the types.
LEMMA ApartInv == Spec => [](TypeOK /\ Apart)
<1>1. Init => Apart
  BY DEF Init, Apart, NoSharedEntry, KeysApart, Existing, Idle
<1>2. TypeOK /\ Apart /\ [Next]_vars => Apart'
  <2> SUFFICES ASSUME TypeOK, Apart, [Next]_vars PROVE Apart'
    OBVIOUS
  <2>1. CASE UNCHANGED vars
    BY <2>1, KeysUntouched DEF vars, Existing, Idle
  <2>2. ASSUME NEW w \in Windows, OpenForm(w) \/ CloseForm(w) PROVE Apart'
    BY <2>2, KeysUntouched DEF OpenForm, CloseForm, Existing, Idle
  <2>3. ASSUME NEW w \in Windows, PressSave(w) PROVE Apart'
    <3>1. PICK t \in SaveTask :
           /\ task' = [task EXCEPT ![w] = t] /\ t.profile = form[w]
           /\ \/ t.key = KeyToKeep(form[w]) /\ drawn' = drawn
              \/ t.key \in Keys \ drawn /\ drawn' = drawn \cup {t.key}
      BY <2>3, SaveBegins
    <3>2. form[w] \in Profiles \cup {New} /\ UNCHANGED rows
      BY <2>3 DEF TypeOK, PressSave
    <3>3. \/ KeyToKeep(form[w]) = None
          \/ form[w] \in Existing /\ KeyToKeep(form[w]) = rows[form[w]].key
      BY <3>2 DEF KeyToKeep, Existing
    <3>4. QED
      BY <3>1, <3>2, <3>3, KeysBegin DEF Task
  <2>4. ASSUME NEW w \in Windows, WritePassword(w) PROVE Apart'
    BY <2>4, SaveGoesOn, KeysUntouched DEF WritePassword, Existing, Idle
  <2>5. ASSUME NEW w \in Windows, StoreRow(w) PROVE Apart'
    BY <2>5, KeyStored
  <2>6. ASSUME NEW w \in Windows, FindItGone(w) \/ SaveFails(w) \/ DeleteFails(w) \/ KillWindow(w)
        PROVE Apart'
    <3>1. Stop(w) /\ UNCHANGED <<rows, drawn>>
      BY <2>6 DEF FindItGone, SaveFails, DeleteFails, KillWindow
    <3>2. QED
      BY <3>1, KeysUntouched DEF Stop, TypeOK, Existing, Idle
  <2>7. ASSUME NEW w \in Windows, ConfirmDelete(w) PROVE Apart'
    <3>1. PICK p \in Existing :
            task' = [task EXCEPT ![w] = [step |-> "erase", profile |-> p, key |-> rows[p].key]]
      BY <2>7 DEF ConfirmDelete
    <3>2. [step |-> "erase", profile |-> p, key |-> rows[p].key] \in Task
      BY DEF Task, DeleteTask, TypeOK, Existing, Row
    <3>3. QED
      BY <2>7, <3>1, <3>2, KeysBegin DEF ConfirmDelete
  <2>8. ASSUME NEW w \in Windows, ErasePassword(w) \/ EraseIgnored(w) PROVE Apart'
    BY <2>8, DeleteGoesOn, KeysUntouched DEF ErasePassword, EraseIgnored, Existing, Idle
  <2>9. ASSUME NEW w \in Windows, RemoveRow(w) PROVE Apart'
    <3>1. /\ drawn' = drawn /\ rows' = [rows EXCEPT ![task[w].profile] = None]
          /\ task' = [task EXCEPT ![w] = None]
      BY <2>9 DEF RemoveRow
    <3>2. QED
      BY <3>1, KeysUntouched DEF TypeOK, Existing, Idle
  <2>10. QED
    BY <2>1, <2>2, <2>3, <2>4, <2>5, <2>6, <2>7, <2>8, <2>9 DEF Next, Step
<1>3. QED
  BY <1>1, <1>2, TypeCorrect, PTL DEF Spec

\* Two profiles never share a Keychain entry (app.py:60-68), however often one is renamed
\* and another takes its name, and whatever fails on the way.
THEOREM EntriesApart == Spec => []NoSharedEntry
<1>1. Apart => NoSharedEntry
  BY DEF Apart
<1>2. QED
  BY <1>1, ApartInv, PTL

\* What a step of w leaves alone: the profiles that w is not at work on.
LEMMA OtherProfiles ==
  ASSUME TypeOK, Apart, NEW w \in Windows, Step(w), NEW p \in Existing,
         Idle(w) \/ task[w].profile # p
  PROVE  /\ p \in Existing' /\ rows'[p] = rows[p] /\ intended'[p] = intended[p]
         /\ PasswordOf(p)' = PasswordOf(p)
<1>1. ASSUME rows'[p] = rows[p], intended'[p] = intended[p],
             rows[p].key = None \/ keychain'[rows[p].key] = keychain[rows[p].key]
      PROVE  /\ p \in Existing' /\ rows'[p] = rows[p] /\ intended'[p] = intended[p]
             /\ PasswordOf(p)' = PasswordOf(p)
  BY <1>1 DEF PasswordOf, Existing
<1>2. CASE WritePassword(w)
  <2>1. rows[p].key = None \/ rows[p].key # task[w].key
    BY <1>2 DEF Apart, KeysApart, WritePassword
  <2>2. QED
    BY <1>1, <1>2, <2>1 DEF WritePassword, TypeOK
<1>3. CASE ErasePassword(w)
  <2>1. rows[p].key = None \/ rows[p].key # task[w].key
    BY <1>3 DEF Apart, KeysApart, ErasePassword
  <2>2. rows[p].key \in Keys \cup {None}
    BY DEF TypeOK, Existing, Row
  <2>3. QED
    BY <1>1, <1>3, <2>1, <2>2 DEF ErasePassword
<1>4. CASE StoreRow(w)
  <2>1. task[w].profile # p /\ p \in used
    BY <1>4 DEF StoreRow, TypeOK
  <2>2. rows'[p] = rows[p] /\ intended'[p] = intended[p] /\ keychain' = keychain
    BY <1>4, <2>1 DEF StoreRow, TypeOK
  <2>3. QED
    BY <1>1, <2>2
<1>5. CASE RemoveRow(w)
  BY <1>1, <1>5 DEF RemoveRow, TypeOK
<1>6. CASE UNCHANGED <<rows, intended, keychain>>
  BY <1>1, <1>6
<1>7. QED
  BY <1>2, <1>3, <1>4, <1>5, <1>6 DEF Step, OpenForm, CloseForm, PressSave, FindItGone,
    SaveFails, ConfirmDelete, EraseIgnored, DeleteFails, KillWindow

\* No handler, completed or not, reaches the password of another profile (app.py:859-865,
\* 792-796).
THEOREM OthersUntouched == Spec => OnlyOwnPassword
<1> DEFINE Own == \A p \in Existing \cap Existing' :
      PasswordOf(p)' # PasswordOf(p) => \E w \in Windows : ~Idle(w) /\ task[w].profile = p
<1>1. TypeOK /\ Apart /\ [Next]_vars => [Own]_vars
  BY OtherProfiles DEF Next
<1>2. QED
  BY <1>1, ApartInv, PTL DEF Spec, OnlyOwnPassword

(***************************************************************************)
(* Passwords.  Each step of a handler is followed by what it knows of its  *)
(* profile; two handlers on one profile make it doubtful.                  *)
(***************************************************************************)
\* What a step of w leaves alone: the other windows.
LEMMA OtherWindows ==
  ASSUME TypeOK, NEW w \in Windows, Step(w), NEW v \in Windows \ {w}
  PROVE  /\ task'[v] = task[v] /\ form'[v] = form[v]
         /\ used \subseteq used' /\ doubtful \subseteq doubtful'
         /\ \A k \in Keys : Idle(w) \/ task[w].key # k => keychain'[k] = keychain[k]
<1>1. CASE PressSave(w)
  BY <1>1, SaveBegins DEF PressSave, TypeOK, Disturbed
<1>2. CASE WritePassword(w)
  BY <1>2, SaveGoesOn DEF WritePassword, TypeOK
<1>3. CASE StoreRow(w)
  BY <1>3 DEF StoreRow, TypeOK
<1>4. CASE ErasePassword(w) \/ EraseIgnored(w)
  BY <1>4, DeleteGoesOn DEF ErasePassword, EraseIgnored, TypeOK
<1>5. CASE ConfirmDelete(w)
  BY <1>5 DEF ConfirmDelete, TypeOK, Disturbed
<1>6. CASE RemoveRow(w) \/ OpenForm(w) \/ CloseForm(w)
  BY <1>6 DEF RemoveRow, OpenForm, CloseForm, TypeOK
<1>7. CASE FindItGone(w) \/ SaveFails(w) \/ DeleteFails(w) \/ KillWindow(w)
  BY <1>7 DEF FindItGone, SaveFails, DeleteFails, KillWindow, Stop, TypeOK
<1>8. QED
  BY <1>1, <1>2, <1>3, <1>4, <1>5, <1>6, <1>7 DEF Step

\* An id that a step gives out was not in use.
LEMMA NewRows ==
  ASSUME TypeOK, NEW w \in Windows, Step(w), NEW p \in Existing' \ Existing
  PROVE  StoreRow(w) /\ task[w].profile = New /\ p \notin used
<1>1. CASE StoreRow(w)
  BY <1>1 DEF StoreRow, TypeOK, Existing
<1>2. CASE RemoveRow(w)
  BY <1>2 DEF RemoveRow, TypeOK, Existing
<1>3. CASE UNCHANGED rows
  BY <1>3 DEF Existing
<1>4. QED
  BY <1>1, <1>2, <1>3 DEF Step, OpenForm, CloseForm, PressSave, WritePassword, FindItGone,
    SaveFails, ConfirmDelete, ErasePassword, EraseIgnored, DeleteFails, KillWindow

\* What the other handlers know stays true, or their profile is doubtful.
LEMMA OthersKnown ==
  ASSUME TypeOK, Apart, Followed, NEW w \in Windows, Step(w),
         NEW v \in Windows \ {w}, ~Idle(v)
  PROVE  Known(v)'
<1>0. PICK q \in Profiles \cup {New} : q = task[v].profile
  BY TaskTypes
<1>1. /\ Known(v) /\ task'[v] = task[v] /\ used \subseteq used' /\ doubtful \subseteq doubtful'
      /\ \A k \in Keys : Idle(w) \/ task[w].key # k => keychain'[k] = keychain[k]
  BY OtherWindows DEF Followed
<1>2. task[v].key \in Keys \cup {None}
  BY TaskTypes
<1>3. CASE ~Idle(w) /\ task[w].profile = q /\ q # New
  <2>1. q \in doubtful'
    BY <1>0, <1>1, <1>3 DEF Followed, Alone
  <2>2. QED
    BY <1>0, <1>1, <1>3, <2>1 DEF Known
<1>4. CASE Idle(w) \/ task[w].profile # q \/ q = New
  <2>1. q \in Existing => /\ q \in Existing' /\ rows'[q] = rows[q] /\ intended'[q] = intended[q]
                          /\ PasswordOf(q)' = PasswordOf(q)
    <3>1. SUFFICES ASSUME q \in Existing
                   PROVE  /\ q \in Existing' /\ rows'[q] = rows[q] /\ intended'[q] = intended[q]
                          /\ PasswordOf(q)' = PasswordOf(q)
      OBVIOUS
    <3>2. Idle(w) \/ task[w].profile # q
      BY <1>4, <3>1, IdsAssumption DEF Existing
    <3>3. QED
      BY <3>1, <3>2, OtherProfiles
  <2>2. q \in Existing' => q \in Existing
    BY <1>0, <1>1, NewRows, IdsAssumption DEF Known, Existing
  <2>3. task[v].key # None => keychain'[task[v].key] = keychain[task[v].key]
    BY <1>0, <1>1, <1>2, <1>4 DEF Apart, KeysApart
  <2>4. q \in Existing \ doubtful' => InHand(v, q)'
    <3>1. SUFFICES ASSUME q \in Existing \ doubtful' PROVE InHand(v, q)'
      OBVIOUS
    <3>2. InHand(v, q)
      BY <1>0, <1>1, <3>1 DEF Known
    <3>3. QED
      BY <1>1, <2>1, <3>1, <3>2 DEF InHand
  <2>5. task'[v].profile \in Existing' \ doubtful' => InHand(v, q)'
    BY <1>0, <1>1, <2>2, <2>4
  <2>6. (task'[v].profile = New \/ task'[v].profile \notin Existing' \cup doubtful') => Unheard(v)'
    BY <1>0, <1>1, <2>1 DEF Known, Unheard
  <2>7. QED
    BY <1>0, <1>1, <2>3, <2>5, <2>6 DEF Known
<1>5. QED
  BY <1>3, <1>4

\* The other profiles keep their passwords.
LEMMA OthersKept ==
  ASSUME TypeOK, Apart, PasswordKept, NEW w \in Windows, Step(w),
         NEW p \in Existing \ doubtful', Idle(w) \/ task[w].profile # p,
         \A v \in Windows : Idle(v)' \/ task'[v].profile # p
  PROVE  PasswordOf(p)' = intended'[p]
<1>1. \A v \in Windows \ {w} : task'[v] = task[v] /\ p \notin doubtful
  BY OtherWindows
<1>2. p \notin doubtful
  <2>1. doubtful \subseteq doubtful'
    BY DEF Step, OpenForm, CloseForm, PressSave, WritePassword, FindItGone, StoreRow, RemoveRow,
      SaveFails, ConfirmDelete, ErasePassword, EraseIgnored, DeleteFails, KillWindow, Stop, Disturbed
  <2>2. QED
    BY <2>1
<1>3. \A v \in Windows : Idle(v) \/ task[v].profile # p
  BY <1>1 DEF Idle
<1>4. PasswordOf(p) = intended[p]
  BY <1>2, <1>3 DEF PasswordKept
<1>5. QED
  BY <1>4, OtherProfiles

\* What is left to show of a step: what it does to its own window and profile.
LEMMA OwnSteps ==
  ASSUME TypeOK, Apart, PasswordKept, Followed, NEW w \in Windows, Step(w),
         form'[w] \in used' \cup {None, New},
         \A p \in Profiles \ Existing' : intended'[p] = None,
         ~Idle(w)' => Known(w)',
         ~Idle(w)' => \A v \in Windows \ {w} :
           ~Idle(v) /\ task[v].profile = task'[w].profile =>
             task[v].profile = New \/ task[v].profile \in doubtful',
         \A p \in Existing' \ doubtful' :
           p \notin Existing \/ (~Idle(w) /\ task[w].profile = p /\ Idle(w)') =>
             PasswordOf(p)' = intended'[p]
  PROVE  PasswordKept' /\ Followed'
<1>1. \A v \in Windows \ {w} : task'[v] = task[v] /\ form'[v] = form[v]
  BY OtherWindows
<1>2. used \subseteq used' /\ doubtful \subseteq doubtful'
  BY DEF Step, OpenForm, CloseForm, PressSave, WritePassword, FindItGone, StoreRow, RemoveRow,
    SaveFails, ConfirmDelete, ErasePassword, EraseIgnored, DeleteFails, KillWindow, Stop, Disturbed
<1>3. \A v \in Windows : form'[v] \in used' \cup {None, New}
  BY <1>1, <1>2 DEF Followed
<1>4. \A v \in Windows : ~Idle(v)' => Known(v)'
  BY <1>1, OthersKnown DEF Idle
<1>5. Alone'
  BY <1>1, <1>2 DEF Followed, Alone, Idle
<1>6. ASSUME NEW p \in Existing' \ doubtful', \A v \in Windows : Idle(v)' \/ task'[v].profile # p
      PROVE  PasswordOf(p)' = intended'[p]
  <2>1. CASE p \notin Existing \/ (~Idle(w) /\ task[w].profile = p)
    <3>1. p \in Existing => Idle(w)'
      <4>1. ~Idle(w) /\ ~Idle(w)' => task'[w].profile = task[w].profile
        BY SaveGoesOn, DeleteGoesOn DEF Step, OpenForm, CloseForm, PressSave, WritePassword,
          FindItGone, StoreRow, RemoveRow, SaveFails, ConfirmDelete, ErasePassword, EraseIgnored,
          DeleteFails, KillWindow, Stop, Idle, TypeOK
      <4>2. QED
        BY <1>6, <2>1, <4>1
    <3>2. QED
      BY <1>6, <2>1, <3>1
  <2>2. CASE p \in Existing /\ (Idle(w) \/ task[w].profile # p)
    BY <1>6, <2>2, OthersKept
  <2>3. QED
    BY <2>1, <2>2
<1>7. PasswordKept'
  BY <1>6 DEF PasswordKept
<1>8. QED
  BY <1>3, <1>4, <1>5, <1>7 DEF Followed

\* A handler that begins on a form or on a question.
LEMMA BeginKept ==
  ASSUME TypeOK, Apart, PasswordKept, Followed, NEW w \in Windows,
         PressSave(w) \/ ConfirmDelete(w)
  PROVE  PasswordKept' /\ Followed'
<1>1. /\ Step(w) /\ Idle(w) /\ form' = form
      /\ UNCHANGED <<rows, used, keychain, intended>> /\ Existing' = Existing
  BY DEF Step, PressSave, ConfirmDelete, Existing
<1>2. PICK t \in Task :
        /\ task' = [task EXCEPT ![w] = t] /\ t.profile \in used \cup {New}
        /\ t.profile \in Profiles \cup {New}
        /\ doubtful' = Disturbed(w, t.profile)
        /\ \/ /\ t.step = "store" /\ t.password = None /\ t.key = KeyToKeep(t.profile)
           \/ /\ t.step = "write" /\ t.password # None /\ t.key # None
              /\ t.key = KeyToKeep(t.profile) \/ KeyToKeep(t.profile) = None
           \/ t.step = "erase" /\ t.profile \in Existing /\ t.key = rows[t.profile].key
  <2>1. CASE PressSave(w)
    <3>1. PICK t \in SaveTask :
           /\ task' = [task EXCEPT ![w] = t] /\ t.profile = form[w]
           /\ \/ /\ t.step = "store" /\ t.password = None
                 /\ t.key = KeyToKeep(form[w])
              \/ /\ t.step = "write" /\ t.password # None /\ t.key # None
                 /\ t.key = KeyToKeep(form[w])
              \/ /\ t.step = "write" /\ t.password # None
                 /\ KeyToKeep(form[w]) = None /\ t.key \in Keys
      BY <2>1, SaveBegins
    <3>2. form[w] \in used \cup {New} /\ form[w] \in Profiles \cup {New}
      BY <2>1 DEF PressSave, Followed, TypeOK
    <3>3. doubtful' = Disturbed(w, form[w])
      BY <2>1 DEF PressSave
    <3>4. QED
      BY <3>1, <3>2, <3>3, NoneAssumption DEF Task
  <2>2. CASE ConfirmDelete(w)
    <3>1. PICK p \in Existing :
            /\ task' = [task EXCEPT ![w] = [step |-> "erase", profile |-> p, key |-> rows[p].key]]
            /\ doubtful' = Disturbed(w, p)
      BY <2>2 DEF ConfirmDelete
    <3>2. [step |-> "erase", profile |-> p, key |-> rows[p].key] \in Task
      BY DEF Task, DeleteTask, TypeOK, Existing, Row
    <3>3. p \in used /\ p \in Profiles
      BY DEF TypeOK, Existing
    <3>4. QED
      BY <3>1, <3>2, <3>3
  <2>3. QED
    BY <2>1, <2>2
<1>3. task'[w] = t
  BY <1>2 DEF TypeOK
<1>4. \A v \in Windows \ {w} : ~Idle(v) /\ task[v].profile = t.profile =>
        t.profile = New \/ t.profile \in doubtful'
  BY <1>2 DEF Disturbed, Idle
<1>5. t.profile \in Existing \ doubtful' => PasswordOf(t.profile) = intended[t.profile]
  <2>1. doubtful \subseteq doubtful'
    BY <1>2 DEF Disturbed
  <2>2. t.profile \in Existing => t.profile # New
    BY IdsAssumption DEF Existing
  <2>3. QED
    BY <1>1, <1>4, <2>1, <2>2 DEF PasswordKept
<1>6. t.profile = New \/ t.profile \notin Existing => t.step \in {"write", "store"} /\ (t.password = None => t.key = None)
  BY <1>2, IdsAssumption DEF KeyToKeep, Existing
<1>7. t.profile \in Existing =>
        (rows[t.profile].key # None \/ t.step = "store" => t.key = rows[t.profile].key)
  BY <1>2, IdsAssumption DEF KeyToKeep, Existing
<1>8. ASSUME NEW p \in Existing, p = t.profile, p \notin doubtful' PROVE InHand(w, p)'
  <2>1. PasswordOf(p)' = PasswordOf(p)
    BY <1>1 DEF PasswordOf
  <2>2. QED
    BY <1>1, <1>2, <1>3, <1>5, <1>7, <1>8, <2>1 DEF InHand
<1>9. Known(w)'
  BY <1>1, <1>2, <1>3, <1>6, <1>8 DEF Known, Unheard
<1>10. form'[w] \in used' \cup {None, New} /\ \A p \in Profiles \ Existing' : intended'[p] = None
  BY <1>1 DEF Followed
<1>11. \A v \in Windows \ {w} : ~Idle(v) /\ task[v].profile = task'[w].profile =>
         task[v].profile = New \/ task[v].profile \in doubtful'
  BY <1>3, <1>4
<1>12. QED
  BY <1>1, <1>9, <1>10, <1>11, OwnSteps

\* A handler that stops half-way leaves its profile doubtful or as it was.
LEMMA StopKept ==
  ASSUME TypeOK, Apart, PasswordKept, Followed, NEW w \in Windows,
         FindItGone(w) \/ SaveFails(w) \/ DeleteFails(w) \/ KillWindow(w)
  PROVE  PasswordKept' /\ Followed'
<1>1. /\ Step(w) /\ ~Idle(w) /\ Stop(w) /\ form'[w] \in {form[w], None}
      /\ UNCHANGED <<rows, used, keychain, intended>> /\ Existing' = Existing
  BY DEF Step, FindItGone, SaveFails, DeleteFails, KillWindow, Existing, TypeOK
<1>2. Idle(w)'
  BY <1>1 DEF Stop, Idle, TypeOK
<1>3. form'[w] \in used' \cup {None, New} /\ \A p \in Profiles \ Existing' : intended'[p] = None
  BY <1>1 DEF Followed
<1>4. ASSUME NEW p \in Existing \ doubtful', task[w].profile = p PROVE PasswordOf(p)' = intended'[p]
  <2>1. InHand(w, p) /\ ~HalfDone(task[w])
    BY <1>1, <1>4 DEF Stop, Followed, Known
  <2>2. PasswordOf(p) = intended[p]
    BY <2>1 DEF InHand, HalfDone
  <2>3. QED
    BY <1>1, <2>2 DEF PasswordOf
<1>5. QED
  BY <1>1, <1>2, <1>3, <1>4, OwnSteps

\* set_secret: the Keychain has the new password before the row is saved.
LEMMA WriteKept ==
  ASSUME TypeOK, Apart, PasswordKept, Followed, NEW w \in Windows, WritePassword(w)
  PROVE  PasswordKept' /\ Followed'
<1>1. /\ Step(w) /\ ~Idle(w) /\ task[w].step = "write" /\ Known(w)
      /\ UNCHANGED <<rows, used, form, intended, doubtful>> /\ Existing' = Existing
      /\ keychain' = [keychain EXCEPT ![task[w].key] = task[w].password]
  BY DEF Step, WritePassword, Existing, Followed
<1>2. /\ task'[w] \in Task /\ task'[w].step = "store" /\ task'[w].profile = task[w].profile
      /\ task'[w].key = task[w].key /\ task'[w].password = task[w].password
  BY <1>1, SaveGoesOn DEF WritePassword
<1>3. task[w].key # None /\ task[w].password # None /\ keychain'[task[w].key] = task[w].password
  BY <1>1, TaskTypes DEF Known, TypeOK
<1>4. ASSUME NEW p \in Existing \ doubtful, p = task[w].profile PROVE InHand(w, p)'
  <2>1. InHand(w, p)
    BY <1>1, <1>4 DEF Known
  <2>2. QED
    BY <1>1, <1>2, <1>3, <2>1 DEF InHand
<1>5. Known(w)'
  BY <1>1, <1>2, <1>3, <1>4 DEF Known, Unheard
<1>6. form'[w] \in used' \cup {None, New} /\ \A p \in Profiles \ Existing' : intended'[p] = None
  BY <1>1 DEF Followed
<1>7. \A v \in Windows \ {w} : ~Idle(v) /\ task[v].profile = task'[w].profile =>
        task[v].profile = New \/ task[v].profile \in doubtful'
  BY <1>1, <1>2 DEF Followed, Alone
<1>8. ~Idle(w)'
  BY <1>2, NoneAssumption DEF Idle
<1>9. QED
  BY <1>1, <1>5, <1>6, <1>7, <1>8, OwnSteps

\* A save that succeeds leaves a row with the key it had in hand.
LEMMA StoresItsKey ==
  ASSUME TypeOK, NEW w \in Windows, StoreRow(w)
  PROVE  \E p \in Existing' : rows'[p].key = task[w].key
<1>1. PICK p \in Profiles : rows' = [rows EXCEPT ![p] = [name |-> task[w].name, key |-> task[w].key]]
  BY DEF StoreRow
<1>2. [name |-> task[w].name, key |-> task[w].key] \in Row
  BY TaskTypes DEF StoreRow, Row
<1>3. p \in Existing' /\ rows'[p].key = task[w].key
  BY <1>1, <1>2, NoneAssumption DEF TypeOK, Existing
<1>4. QED
  BY <1>3

\* The row gets the key under which the Keychain has the password.
LEMMA StoreKept ==
  ASSUME TypeOK, Apart, PasswordKept, Followed, NEW w \in Windows, StoreRow(w)
  PROVE  PasswordKept' /\ Followed'
<1>1. PICK p \in Profiles :
        /\ \/ task[w].profile = p /\ p \in Existing
           \/ task[w].profile = New /\ p \notin used
        /\ rows' = [rows EXCEPT ![p] = [name |-> task[w].name, key |-> task[w].key]]
        /\ intended' = IF task[w].password = None THEN intended
                       ELSE [intended EXCEPT ![p] = task[w].password]
  BY DEF StoreRow
<1>2. /\ Step(w) /\ ~Idle(w) /\ task[w].step = "store" /\ Known(w) /\ Idle(w)'
      /\ form'[w] = None /\ UNCHANGED <<keychain, doubtful>>
  BY DEF Step, StoreRow, Followed, Idle, TypeOK
<1>3. [name |-> task[w].name, key |-> task[w].key] \in Row
  BY TaskTypes, <1>2 DEF Row
<1>4. /\ Existing' = Existing \cup {p} /\ rows'[p].key = task[w].key
      /\ \A q \in Existing \ {p} : rows'[q] = rows[q]
      /\ intended'[p] = IF task[w].password = None THEN intended[p] ELSE task[w].password
      /\ \A q \in Profiles \ {p} : intended'[q] = intended[q]
  BY <1>1, <1>3, NoneAssumption DEF TypeOK, Existing
<1>5. \A q \in Profiles \ Existing' : intended'[q] = None
  BY <1>4 DEF Followed
<1>6. ASSUME p \notin doubtful PROVE PasswordOf(p)' = intended'[p]
  <2>1. CASE task[w].password # None
    <3>1. task[w].key # None /\ keychain[task[w].key] = task[w].password
      BY <1>1, <1>2, <1>6, <2>1 DEF Known
    <3>2. QED
      BY <1>2, <1>4, <2>1, <3>1 DEF PasswordOf
  <2>2. CASE task[w].password = None /\ p \in Existing
    <3>1. task[w].profile = p
      BY <1>1, <2>2 DEF TypeOK
    <3>2. InHand(w, p)
      BY <1>2, <1>6, <2>2, <3>1 DEF Known
    <3>3. task[w].key = rows[p].key /\ PasswordOf(p) = intended[p]
      BY <1>2, <2>2, <3>2 DEF InHand
    <3>4. QED
      BY <1>2, <1>4, <2>2, <3>3 DEF PasswordOf
  <2>3. CASE task[w].password = None /\ p \notin Existing
    <3>1. task[w].key = None /\ intended[p] = None
      BY <1>1, <1>2, <2>3 DEF Known, Unheard, Followed
    <3>2. QED
      BY <1>4, <2>3, <3>1 DEF PasswordOf
  <2>4. QED
    BY <2>1, <2>2, <2>3
<1>7. \A q \in Existing' \ doubtful' : q \notin Existing \/ task[w].profile = q => q = p
  <2>1. New \notin Existing
    BY IdsAssumption DEF Existing
  <2>2. QED
    BY <1>1, <1>4, <2>1
<1>8. QED
  BY <1>2, <1>5, <1>6, <1>7, OwnSteps

\* delete_secret: with its key, or without one, the profile has no password left.
LEMMA EraseKept ==
  ASSUME TypeOK, Apart, PasswordKept, Followed, NEW w \in Windows,
         ErasePassword(w) \/ EraseIgnored(w)
  PROVE  PasswordKept' /\ Followed'
<1>1. /\ Step(w) /\ ~Idle(w) /\ task[w].step = "erase" /\ Known(w)
      /\ UNCHANGED <<rows, used, form, intended>> /\ Existing' = Existing
      /\ task' = [task EXCEPT ![w].step = "remove"] /\ doubtful \subseteq doubtful'
      /\ \/ task[w].profile \in doubtful'
         \/ keychain' = [k \in Keys |-> IF k = task[w].key THEN None ELSE keychain[k]]
  BY DEF Step, ErasePassword, EraseIgnored, Existing, Followed
<1>2. /\ task'[w] \in Task /\ task'[w].step = "remove" /\ task'[w].profile = task[w].profile
      /\ task'[w].key = task[w].key /\ task[w].profile \in Profiles
  BY <1>1, DeleteGoesOn, TaskTypes
<1>3. ASSUME NEW p \in Existing \ doubtful', p = task[w].profile PROVE InHand(w, p)'
  <2>1. InHand(w, p) /\ rows[p].key \in Keys \cup {None}
    BY <1>1, <1>3 DEF Known, TypeOK, Existing, Row
  <2>2. PasswordOf(p)' = None
    BY <1>1, <1>3, <2>1 DEF InHand, PasswordOf
  <2>3. QED
    BY <1>1, <1>2, <2>1, <2>2 DEF InHand
<1>4. task[w].profile \in Existing \cup doubtful
  BY <1>1 DEF Known, Unheard
<1>5. Known(w)'
  BY <1>1, <1>2, <1>3, <1>4, IdsAssumption DEF Known, Unheard
<1>6. form'[w] \in used' \cup {None, New} /\ \A p \in Profiles \ Existing' : intended'[p] = None
  BY <1>1 DEF Followed
<1>7. \A v \in Windows \ {w} : ~Idle(v) /\ task[v].profile = task'[w].profile =>
        task[v].profile = New \/ task[v].profile \in doubtful'
  BY <1>1, <1>2 DEF Followed, Alone
<1>8. ~Idle(w)'
  BY <1>2, NoneAssumption DEF Idle
<1>9. QED
  BY <1>1, <1>5, <1>6, <1>7, <1>8, OwnSteps

\* A row that is gone has no password any more.
LEMMA RemoveKept ==
  ASSUME TypeOK, Apart, PasswordKept, Followed, NEW w \in Windows, RemoveRow(w)
  PROVE  PasswordKept' /\ Followed'
<1>1. /\ Step(w) /\ Idle(w)' /\ form' = form /\ used' = used
      /\ task[w].profile \in Profiles
      /\ Existing' = Existing \ {task[w].profile}
      /\ intended' = [intended EXCEPT ![task[w].profile] = None]
  BY TaskTypes DEF Step, RemoveRow, Existing, TypeOK, Idle
<1>2. form'[w] \in used' \cup {None, New} /\ \A p \in Profiles \ Existing' : intended'[p] = None
  BY <1>1 DEF Followed, TypeOK
<1>3. QED
  BY <1>1, <1>2, OwnSteps

\* What is known of the handlers, beside types and keys.
LEMMA KeptInv == Spec => [](TypeOK /\ Apart /\ PasswordKept /\ Followed)
<1>1. Init => PasswordKept /\ Followed
  BY DEF Init, PasswordKept, Followed, Alone, Existing, Idle
<1>2. TypeOK /\ Apart /\ PasswordKept /\ Followed /\ [Next]_vars => PasswordKept' /\ Followed'
  <2> SUFFICES ASSUME TypeOK, Apart, PasswordKept, Followed, [Next]_vars
               PROVE  PasswordKept' /\ Followed'
    OBVIOUS
  <2>1. CASE UNCHANGED vars
    BY <2>1 DEF vars, PasswordKept, Followed, Alone, Known, Unheard, InHand, PasswordOf, Existing, Idle
  <2>2. ASSUME NEW w \in Windows, OpenForm(w) \/ CloseForm(w) PROVE PasswordKept' /\ Followed'
    <3>1. /\ Step(w) /\ Idle(w) /\ Idle(w)' /\ Existing' = Existing
          /\ UNCHANGED <<rows, used, keychain, intended, doubtful>>
      BY <2>2 DEF Step, OpenForm, CloseForm, Existing, Idle
    <3>2. form'[w] \in used' \cup {None, New} /\ \A p \in Profiles \ Existing' : intended'[p] = None
      BY <2>2, <3>1 DEF OpenForm, CloseForm, Followed, TypeOK
    <3>3. QED
      BY <3>1, <3>2, OwnSteps
  <2>3. QED
    BY <2>1, <2>2, BeginKept, WriteKept, StoreKept, StopKept, EraseKept, RemoveKept DEF Next, Step
<1>3. QED
  BY <1>1, <1>2, ApartInv, PTL DEF Spec

\* The password of a profile is the one it was last saved with, through renames and saves
\* that leave the field empty, unless a handler failed half-way on it or two windows worked
\* on it at once (app.py:859-865).
THEOREM LastPasswordKept == Spec => []PasswordKept
BY KeptInv, PTL

\* As long as nothing failed half-way and no two windows met on a profile, the Keychain
\* holds no entry without a profile (app.py:792-796).
THEOREM NoEntryLeftBehind == Spec => []EntriesOwned
<1> DEFINE IInv == TypeOK /\ Apart /\ PasswordKept /\ Followed
           Holders(k) == \/ \E p \in Existing : rows[p].key = k
                         \/ \E w \in Windows : ~Idle(w) /\ task[w].step = "store" /\ task[w].key = k
<1>1. Init => EntriesOwned
  BY DEF Init, EntriesOwned
<1>2. IInv /\ EntriesOwned /\ [Next]_vars => EntriesOwned'
  <2> SUFFICES ASSUME IInv, EntriesOwned, [Next]_vars, doubtful' = {},
                      NEW k \in Keys, keychain'[k] # None
               PROVE  Holders(k)'
    BY DEF EntriesOwned
  <2>1. CASE UNCHANGED vars
    BY <2>1 DEF vars, EntriesOwned, Existing, Idle
  <2>2. ASSUME NEW w \in Windows, Step(w) PROVE Holders(k)'
    <3>1. doubtful = {}
      BY <2>2 DEF Step, OpenForm, CloseForm, PressSave, WritePassword, FindItGone, StoreRow, RemoveRow,
        SaveFails, ConfirmDelete, ErasePassword, EraseIgnored, DeleteFails, KillWindow, Stop, Disturbed
    <3>2. k # None /\ \A v \in Windows \ {w} : task'[v] = task[v]
      BY <2>2, OtherWindows, NoneAssumption
    <3>3. CASE WritePassword(w) /\ task[w].key = k
      <4>1. task'[w].step = "store" /\ task'[w].key = k /\ task'[w] \in Task
        BY <3>3, SaveGoesOn DEF WritePassword
      <4>2. QED
        BY <4>1, NoneAssumption DEF Idle
    <3>4. CASE ~(WritePassword(w) /\ task[w].key = k)
      <4>1. keychain[k] # None
        <5>1. CASE WritePassword(w)
          BY <3>4, <5>1 DEF WritePassword, TypeOK
        <5>2. CASE ErasePassword(w)
          BY <5>2 DEF ErasePassword
        <5>3. CASE keychain' = keychain
          BY <5>3
        <5>4. QED
          BY <2>2, <5>1, <5>2, <5>3 DEF Step, OpenForm, CloseForm, PressSave, FindItGone, StoreRow,
            RemoveRow, SaveFails, ConfirmDelete, EraseIgnored, DeleteFails, KillWindow
      <4>2. Holders(k)
        BY <3>1, <4>1 DEF EntriesOwned
      <4>3. ASSUME NEW p \in Existing, rows[p].key = k PROVE Holders(k)'
        <5>1. CASE Idle(w) \/ task[w].profile # p
          BY <2>2, <4>3, <5>1, OtherProfiles
        <5>2. CASE ~Idle(w) /\ task[w].profile = p
          <6>1. InHand(w, p) /\ PasswordOf(p) # None
            BY <3>1, <3>2, <4>1, <4>3, <5>2 DEF Followed, Known, PasswordOf
          <6>2. CASE StoreRow(w)
            BY <3>2, <4>3, <5>2, <6>1, <6>2, StoresItsKey DEF InHand
          <6>3. ~RemoveRow(w)
            BY <6>1 DEF InHand, RemoveRow
          <6>4. CASE UNCHANGED rows
            BY <4>3, <6>4 DEF Existing
          <6>5. QED
            BY <2>2, <6>2, <6>3, <6>4 DEF Step, OpenForm, CloseForm, PressSave, WritePassword,
              FindItGone, SaveFails, ConfirmDelete, ErasePassword, EraseIgnored, DeleteFails, KillWindow
        <5>3. QED
          BY <5>1, <5>2
      <4>4. ASSUME NEW v \in Windows, ~Idle(v), task[v].step = "store", task[v].key = k PROVE Holders(k)'
        <5>1. CASE v # w
          BY <3>2, <4>4, <5>1 DEF Idle
        <5>2. CASE v = w
          <6>1. CASE StoreRow(w)
            BY <4>4, <5>2, <6>1, StoresItsKey
          <6>2. CASE Stop(w) /\ UNCHANGED rows
            <7>1. task[w].password = None
              BY <4>4, <5>2, <6>2 DEF Stop, HalfDone
            <7>2. Known(w)
              BY <4>4, <5>2 DEF Followed
            <7>3. task[w].profile \in Existing /\ rows[task[w].profile].key = k
              BY <3>1, <3>2, <4>4, <5>2, <7>1, <7>2 DEF Known, Unheard, InHand
            <7>4. QED
              BY <4>3, <7>3
          <6>3. QED
            BY <2>2, <4>4, <5>2, <6>1, <6>2 DEF Step, OpenForm, CloseForm, PressSave, WritePassword,
              FindItGone, SaveFails, ConfirmDelete, ErasePassword, EraseIgnored, RemoveRow,
              DeleteFails, KillWindow
        <5>3. QED
          BY <5>1, <5>2
      <4>5. QED
        BY <4>2, <4>3, <4>4
    <3>5. QED
      BY <3>3, <3>4
  <2>3. QED
    BY <2>1, <2>2 DEF Next
<1>3. QED
  BY <1>1, <1>2, KeptInv, PTL DEF Spec
=============================================================================
