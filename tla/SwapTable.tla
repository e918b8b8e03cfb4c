------------------------------ MODULE SwapTable ------------------------------
(***************************************************************************)
(* _mysql_swap_table_sync, statement by statement: one RENAME TABLE that   *)
(* moves the outgoing table aside and the temp table into its place, then  *)
(* a DROP of the outgoing one.  RENAME needs exclusive metadata locks that *)
(* other sessions may hold.  The server waits for each one no longer than  *)
(* SWAP_LOCK_WAIT_SECONDS, the client for the answer no longer than its    *)
(* read_timeout, and the connection may break at any moment.               *)
(***************************************************************************)
EXTENDS Naturals, PublishCall

CONSTANTS
  Locks,       \* how many tables RENAME has to lock
  LockWait,    \* SWAP_LOCK_WAIT_SECONDS, in ticks
  ReadTimeout  \* read_timeout of the connection, in ticks

\* 15 s against 600 s: the code's margin is good for 39 locks.
ASSUME TimesAssumption ==
  /\ Locks \in Nat \ {0} /\ LockWait \in Nat \ {0} /\ ReadTimeout \in Nat
  /\ Locks * LockWait < ReadTimeout

VARIABLES
  backup,   \* what the outgoing table holds
  exists,   \* whether the client found the final table
  server,   \* what the server makes of RENAME
  granted,  \* how many of its locks RENAME has
  held,     \* locks other sessions hold
  waited,   \* how long RENAME has waited for its next lock
  elapsed,  \* how long the client has waited for the answer
  lost      \* whether the connection broke

nameVars == <<final, temp, backup>>
renameVars == <<server, granted, waited>>
clientVars == <<pc, exists, result>>
swapVars == <<nameVars, renameVars, clientVars, held, elapsed, lost>>

SwapInit ==
  /\ final \in {"absent", "old"} /\ temp = "new" /\ backup = "absent"
  /\ pc = "lookup" /\ exists = FALSE
  /\ server = "none" /\ granted = 0 /\ held \in SUBSET (1 .. Locks)
  /\ waited = 0 /\ elapsed = 0 /\ lost = FALSE /\ result = "pending"

Return(r) == pc' = "returned" /\ result' = r

\* The lock_wait_timeout of the session.
\* Mutant: the server's default of a year.
ServerDefault == ReadTimeout + 1
LockLimit == LockWait

(***************************************************************************)
(* The client.                                                             *)
(***************************************************************************)
\* Connects, sets the lock wait, looks for the final table and sends RENAME.
SendRename ==
  /\ pc = "lookup"
  /\ \/ /\ ~lost /\ exists' = (final # "absent")
        /\ pc' = "rename" /\ server' = "waiting" /\ UNCHANGED result
     \/ Return("failed") /\ UNCHANGED <<exists, server>>
  /\ UNCHANGED <<nameVars, granted, held, waited, elapsed, lost>>

\* Error 1205 becomes the message that promises the previous content.
ReadAnswer ==
  /\ pc = "rename" /\ ~lost
  /\ \/ server = "renamed" /\ exists /\ pc' = "drop" /\ UNCHANGED result
     \/ server = "renamed" /\ ~exists /\ Return("done")
     \/ server = "refused" /\ Return("refused")
     \/ server = "error" /\ Return("failed")
  /\ UNCHANGED <<nameVars, renameVars, exists, held, elapsed, lost>>

\* Mutant: does not notice that the connection is gone.
GiveUpOnTimeout ==
  /\ pc = "rename" /\ elapsed = ReadTimeout
  /\ Return("failed")
  /\ UNCHANGED <<nameVars, renameVars, exists, held, elapsed, lost>>

GiveUp ==
  /\ pc = "rename" /\ (lost \/ elapsed = ReadTimeout)
  /\ Return("failed")
  /\ UNCHANGED <<nameVars, renameVars, exists, held, elapsed, lost>>

\* A DROP that fails keeps the outgoing table and is no failure of the swap.
DropBackup ==
  /\ pc = "drop" /\ Return("done")
  /\ UNCHANGED backup \/ backup' = "absent"
  /\ UNCHANGED <<final, temp, renameVars, exists, held, elapsed, lost>>

(***************************************************************************)
(* The server.                                                             *)
(***************************************************************************)
GrantLock ==
  /\ server = "waiting" /\ granted < Locks /\ granted + 1 \notin held
  /\ granted' = granted + 1 /\ waited' = 0
  /\ UNCHANGED <<nameVars, server, clientVars, held, elapsed, lost>>

\* Mutant: drops the table before it renames the temp table.
RenameAfterDrop ==
  /\ server = "waiting" /\ granted = Locks
  /\ IF final = "old" THEN final' = "absent" /\ UNCHANGED <<temp, server>>
                      ELSE final' = temp /\ temp' = "absent" /\ server' = "renamed"
  /\ UNCHANGED <<backup, granted, waited, clientVars, held, elapsed, lost>>

\* One statement moves both tables.
Rename ==
  /\ server = "waiting" /\ granted = Locks
  /\ final' = temp /\ temp' = "absent"
  /\ backup' = IF exists THEN final ELSE backup
  /\ server' = "renamed"
  /\ UNCHANGED <<granted, waited, clientVars, held, elapsed, lost>>

RefuseLock ==
  /\ server = "waiting" /\ granted + 1 \in held /\ waited = LockLimit
  /\ server' = "refused"
  /\ UNCHANGED <<nameVars, granted, waited, clientVars, held, elapsed, lost>>

\* Any other error, and a server that ends the session of a client that is gone.
RejectRename ==
  /\ server = "waiting" /\ server' = "error"
  /\ UNCHANGED <<nameVars, granted, waited, clientVars, held, elapsed, lost>>

(***************************************************************************)
(* Everyone else.                                                          *)
(***************************************************************************)
HoldLock ==
  /\ \E l \in 1 .. Locks :
       /\ l \notin held /\ (server = "waiting" => l > granted)
       /\ held' = held \cup {l}
  /\ UNCHANGED <<nameVars, renameVars, clientVars, elapsed, lost>>

ReleaseLock ==
  /\ \E l \in held : held' = held \ {l}
  /\ UNCHANGED <<nameVars, renameVars, clientVars, elapsed, lost>>

BreakConnection ==
  /\ ~lost /\ pc # "returned" /\ lost' = TRUE
  /\ UNCHANGED <<nameVars, renameVars, clientVars, held, elapsed>>

\* The server acts on a wait that is over before more time passes.
Tick ==
  /\ server = "waiting" /\ granted < Locks /\ waited < LockLimit
  /\ pc = "rename" => elapsed < ReadTimeout
  /\ waited' = waited + 1
  /\ elapsed' = IF pc = "rename" THEN elapsed + 1 ELSE elapsed
  /\ UNCHANGED <<nameVars, server, granted, clientVars, held, lost>>

Client == SendRename \/ ReadAnswer \/ GiveUp \/ DropBackup
Server == GrantLock \/ Rename \/ RefuseLock \/ RejectRename

SwapNext == Client \/ Server \/ Tick \/ HoldLock \/ ReleaseLock \/ BreakConnection

SwapSpec == SwapInit /\ [][SwapNext]_swapVars

\* The client's thread runs, the server answers, time passes.  Nobody has to let go of a
\* lock.
FairSwapSpec ==
  /\ SwapSpec
  /\ WF_swapVars(Client) /\ WF_swapVars(GrantLock \/ Rename \/ RefuseLock) /\ WF_swapVars(Tick)

(***************************************************************************)
(* Properties.                                                             *)
(***************************************************************************)
\* Every variable holds a value of its type; no lock is waited for beyond LockWait.
SwapTypeOK ==
  /\ final \in {"absent", "old", "new"} /\ temp \in {"absent", "new"}
  /\ backup \in {"absent", "old"} /\ exists \in BOOLEAN
  /\ pc \in {"lookup", "rename", "drop", "returned"}
  /\ server \in {"none", "waiting", "renamed", "refused", "error"}
  /\ granted \in 0 .. Locks /\ held \in SUBSET (1 .. Locks)
  /\ waited \in 0 .. LockWait /\ elapsed \in Nat /\ lost \in BOOLEAN
  /\ result \in {"pending", "done", "refused", "failed"}

\* A swap reported as failed is not carried out afterwards behind the run's back, as it
\* was when "the client gave up first (read_timeout)" (transfer.py:2070), as long as the
\* connection lasts.
NoLateSwap == [][result # "pending" /\ ~lost => UNCHANGED final]_swapVars

\* The call comes back although other sessions may keep their locks for ever.
CallReturns == pc = "rename" ~> result # "pending"

\* A swap keeps what publishing a table promises, and no reader sees an empty table.
SwapPublishing == INSTANCE TableReplace WITH content <- final, Atomic <- TRUE
SwapPublishesTable == SwapPublishing!Spec
=============================================================================
