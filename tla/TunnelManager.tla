---------------------------- MODULE TunnelManager ----------------------------
(***************************************************************************)
(* One call of the service that needs the source and the destination, each *)
(* reached directly or through an SSH tunnel of its own by way of the same *)
(* SSH server: transfer_scope, with _resolve_profile and TunnelManager.    *)
(*                                                                         *)
(* The ssh process, the server, the terminal of the user and the other     *)
(* programs of the machine take their steps in between.                    *)
(***************************************************************************)
EXTENDS Integers

CONSTANT Types  \* host key types, numbered as _KEY_TYPE_PREFERENCE lists them

ASSUME TypesAssumption == Types \in SUBSET (Nat \ {0})

None == 0
Old == 1
New == 2
Ends == {"src", "dst"}

VARIABLES
  kind,      \* how an end is reached: "direct", "key" or "passphrase"
  server,    \* the server's key of each type
  known,     \* known_hosts: the first entry for the server, of each type
  before,    \* known_hosts when the call began
  foreign,   \* the server was reinstalled, or a terminal wrote known_hosts
  at,        \* the end the call works on
  pc,        \* next step of the call
  want,      \* host_key: the type and the key demanded of the server
  process,   \* ssh of an end: "none", "running", "in" (logged in), "up", "stuck" or "gone"
  why,       \* what its stderr says once it is gone
  listener,  \* who listens on the local port picked for an end
  forwarder, \* the sshtunnel forwarder of an end is up
  accepted,  \* types and keys a connection of this call has accepted
  tunnel,    \* what open_tunnel returned: "none", "ssh-cli" or "sshtunnel"
  held,      \* ends the caller's finally clause knows
  outcome    \* how the call ends

envVars == <<kind, server, known, before, foreign>>
sshVars == <<process, why, listener>>
endVars == <<forwarder, accepted, tunnel, held>>
callVars == <<at, pc, want, outcome>>
vars == <<envVars, sshVars, endVars, callVars>>

Stored(keys) == {t \in Types : keys[t] # None}
Preferred(S) == CHOOSE t \in S : \A u \in S : t <= u
NoKey == <<None, None>>

Init ==
  /\ kind \in [Ends -> {"direct", "key", "passphrase"}]
  /\ server \in [Types -> {None, Old}] /\ Stored(server) # {}
  /\ known \in [Types -> {None, Old, New}] /\ before = known /\ foreign = {}
  /\ at = "src" /\ pc = "resolve" /\ want = NoKey /\ outcome = "pending"
  /\ process = [e \in Ends |-> "none"] /\ why = [e \in Ends |-> "nothing"]
  /\ listener = [e \in Ends |-> "nobody"] /\ forwarder = [e \in Ends |-> FALSE]
  /\ accepted = {} /\ tunnel = [e \in Ends |-> "none"] /\ held = {}

\* An exception leaves the try block for the finally clause.
Raise(error) == pc' = "close" /\ at' = "src" /\ outcome' = error
Append(keys, t, id) == IF keys[t] = None THEN [keys EXCEPT ![t] = id] ELSE keys

(***************************************************************************)
(* _resolve_profile, open_tunnel.                                          *)
(***************************************************************************)
Resolve ==
  /\ pc = "resolve"
  /\ pc' = CASE kind[at] = "direct" -> "prepare"
             [] kind[at] = "key" -> "cli"
             [] OTHER -> "trust"
  /\ UNCHANGED <<envVars, sshVars, endVars, at, want, outcome>>

\* No SSH profile, or a Keychain that does not answer.
ResolveFails ==
  /\ pc = "resolve" /\ Raise("refused")
  /\ UNCHANGED <<envVars, sshVars, endVars, want>>

\* The port is free again when ssh starts.
StartCli ==
  /\ pc = "cli" /\ pc' = "early" /\ process' = [process EXCEPT ![at] = "running"]
  /\ UNCHANGED <<envVars, why, listener, endVars, at, want, outcome>>

\* There is no ssh to start.
NoCli ==
  /\ pc = "cli" /\ pc' = "trust"
  /\ UNCHANGED <<envVars, sshVars, endVars, at, want, outcome>>

\* _raise_cli_failure: only a host key failure is not answered with the other backend.
CliFailed ==
  IF why[at] = "host_key" THEN Raise("host_key") ELSE pc' = "trust" /\ UNCHANGED <<at, outcome>>

\* After 0.2 s.
LookEarly ==
  /\ pc = "early"
  /\ IF process[at] = "gone" THEN CliFailed ELSE pc' = "wait" /\ UNCHANGED <<at, outcome>>
  /\ UNCHANGED <<envVars, sshVars, endVars, want>>

\* _wait_local_port connects to whoever listens.
Connected ==
  /\ pc = "wait" /\ listener[at] # "nobody" /\ pc' = "prepare"
  /\ tunnel' = [tunnel EXCEPT ![at] = "ssh-cli"]
  /\ UNCHANGED <<envVars, sshVars, forwarder, accepted, held, at, want, outcome>>

ListenerWithout(e) == IF process[e] = "up" THEN [listener EXCEPT ![e] = "nobody"] ELSE listener
\* SIGTERM ends an ssh that is not stuck in the system.
Terminated(e) ==
  /\ \E p \in {"gone", "stuck"} : process' = [process EXCEPT ![e] = p]
  /\ listener' = ListenerWithout(e) /\ UNCHANGED why

\* Mutant: the tunnel is returned all the same.
ReturnedUnheard ==
  /\ pc = "wait" /\ listener[at] = "nobody"
  /\ IF process[at] = "gone" THEN CliFailed /\ UNCHANGED tunnel
     ELSE pc' = "prepare" /\ tunnel' = [tunnel EXCEPT ![at] = "ssh-cli"] /\ UNCHANGED <<at, outcome>>
  /\ UNCHANGED <<envVars, sshVars, forwarder, accepted, held, want>>
\* After 4 s.
WaitTimesOut ==
  /\ pc = "wait" /\ listener[at] = "nobody"
  /\ IF process[at] = "gone" THEN CliFailed /\ UNCHANGED sshVars
     ELSE Terminated(at) /\ pc' = "trust" /\ UNCHANGED <<at, outcome>>
  /\ UNCHANGED <<envVars, endVars, want>>

(***************************************************************************)
(* _open_with_sshtunnel.                                                   *)
(***************************************************************************)
LookUp ==
  /\ pc = "trust"
  /\ IF Stored(known) # {}
     THEN LET t == Preferred(Stored(known)) IN pc' = "start" /\ want' = <<t, known[t]>>
     ELSE pc' = "fetch" /\ UNCHANGED want
  /\ UNCHANGED <<envVars, sshVars, endVars, at, outcome>>

\* First contact: the key the server offers is stored, behind what has been stored meanwhile.
Fetch ==
  /\ pc = "fetch" /\ pc' = "start"
  /\ LET t == Preferred(Stored(server))
     IN want' = <<t, server[t]>> /\ known' = Append(known, t, server[t])
  /\ UNCHANGED <<kind, server, before, foreign, sshVars, endVars, at, outcome>>

FetchFails ==
  /\ pc = "fetch" /\ Raise("error")
  /\ UNCHANGED <<envVars, sshVars, endVars, want>>

\* Mutant: any key will do.
AnyKey == TRUE
\* paramiko compares the key it is given.
KeyMatches == server[want[1]] = want[2]

Started ==
  /\ pc = "start" /\ KeyMatches /\ pc' = "prepare"
  /\ forwarder' = [forwarder EXCEPT ![at] = TRUE] /\ tunnel' = [tunnel EXCEPT ![at] = "sshtunnel"]
  /\ accepted' = accepted \cup {<<want[1], server[want[1]]>>}
  /\ UNCHANGED <<envVars, sshVars, held, at, want, outcome>>

\* Another key, or a login that is refused.
StartFails ==
  /\ pc = "start" /\ pc' = "look"
  /\ UNCHANGED <<envVars, sshVars, endVars, at, want, outcome>>

\* Mutant: the server is asked for any of its keys.
OfferedFirst == server[Preferred(Stored(server))]
\* fetch_server_host_key(..., like=host_key); None where the server has no such key.
Offered == server[want[1]]

Changed == Offered # None /\ Offered # want[2]

LookAgain ==
  /\ pc = "look" /\ Raise(IF Changed THEN "host_key" ELSE "error")
  /\ UNCHANGED <<envVars, sshVars, endVars, want>>

LookFails ==
  /\ pc = "look" /\ Raise("unseen")
  /\ UNCHANGED <<envVars, sshVars, endVars, want>>

(***************************************************************************)
(* The caller.                                                             *)
(***************************************************************************)
Prepare ==
  /\ pc = "prepare" /\ held' = held \cup {at}
  /\ IF at = "src" THEN at' = "dst" /\ pc' = "resolve" ELSE pc' = "use" /\ UNCHANGED at
  /\ UNCHANGED <<envVars, sshVars, forwarder, accepted, tunnel, want, outcome>>

\* resolve_tls or build_dsn refuses, after the tunnel is open.
PrepareFails ==
  /\ pc = "prepare" /\ Raise("refused")
  /\ UNCHANGED <<envVars, sshVars, endVars, want>>

Use ==
  /\ pc = "use" /\ Raise("used")
  /\ UNCHANGED <<envVars, sshVars, endVars, want>>

\* Mutant: SIGTERM and no more.
OnlyTerminated == Terminated(at)
\* terminate(), two seconds, kill().
Ended ==
  /\ process' = [process EXCEPT ![at] = "gone"] /\ listener' = ListenerWithout(at) /\ UNCHANGED why

CloseTunnel ==
  CASE tunnel[at] = "sshtunnel" -> forwarder' = [forwarder EXCEPT ![at] = FALSE] /\ UNCHANGED sshVars
    [] tunnel[at] = "ssh-cli" -> Ended /\ UNCHANGED forwarder
    [] OTHER -> UNCHANGED <<sshVars, forwarder>>

\* The finally clause: the source's tunnel, then the destination's.
Close ==
  /\ pc = "close"
  /\ IF at \in held THEN CloseTunnel ELSE UNCHANGED <<sshVars, forwarder>>
  /\ IF at = "src" THEN at' = "dst" /\ UNCHANGED pc ELSE pc' = "done" /\ UNCHANGED at
  /\ UNCHANGED <<envVars, accepted, tunnel, held, want, outcome>>

(***************************************************************************)
(* ssh, with StrictHostKeyChecking=accept-new, BatchMode and               *)
(* ExitOnForwardFailure.                                                   *)
(***************************************************************************)
SshKeyType ==
  LET both == Stored(known) \cap Stored(server)
  IN IF both # {} THEN Preferred(both) ELSE Preferred(Stored(server))

Exit(e, reason) == process' = [process EXCEPT ![e] = "gone"] /\ why' = [why EXCEPT ![e] = reason]

SshConnects(e) ==
  /\ process[e] = "running" /\ UNCHANGED <<listener, forwarder, tunnel, held, callVars>>
  /\ LET t == SshKeyType
     IN IF known[t] \in {None, server[t]}
        THEN /\ process' = [process EXCEPT ![e] = "in"] /\ UNCHANGED why
             /\ known' = Append(known, t, server[t])
             /\ accepted' = accepted \cup {<<t, server[t]>>}
        ELSE Exit(e, "host_key") /\ UNCHANGED <<known, accepted>>
  /\ UNCHANGED <<kind, server, before, foreign>>

SshForwards(e) ==
  /\ process[e] = "in" /\ UNCHANGED <<envVars, endVars, callVars>>
  /\ IF listener[e] = "nobody"
     THEN process' = [process EXCEPT ![e] = "up"] /\ listener' = [listener EXCEPT ![e] = "ssh"] /\ UNCHANGED why
     ELSE Exit(e, "other") /\ UNCHANGED listener

\* The server refuses the login, or the connection breaks.
SshEnds(e) ==
  /\ process[e] \in {"running", "in", "up"} /\ Exit(e, "other")
  /\ listener' = ListenerWithout(e)
  /\ UNCHANGED <<envVars, endVars, callVars>>

(***************************************************************************)
(* Everyone else.                                                          *)
(***************************************************************************)
PortTaken(e) ==
  /\ process[e] \in {"running", "in"} /\ listener[e] = "nobody"
  /\ listener' = [listener EXCEPT ![e] = "other_program"]
  /\ UNCHANGED <<envVars, process, why, endVars, callVars>>

ServerReinstalled ==
  /\ pc # "done" /\ foreign' = foreign \cup {"reinstalled"} /\ "reinstalled" \notin foreign
  /\ server' = [t \in Types |-> IF server[t] = None THEN None ELSE New]
  /\ UNCHANGED <<kind, known, before, sshVars, endVars, callVars>>

TerminalConnects ==
  /\ pc # "done" /\ Stored(known) = {} /\ foreign' = foreign \cup {"terminal"}
  /\ \E t \in Stored(server) : known' = Append(known, t, server[t])
  /\ UNCHANGED <<kind, server, before, sshVars, endVars, callVars>>

CallStep ==
  \/ Resolve \/ ResolveFails \/ StartCli \/ NoCli \/ LookEarly \/ Connected \/ WaitTimesOut \/ LookUp \/ Fetch \/ FetchFails
  \/ Started \/ StartFails \/ LookAgain \/ LookFails \/ Prepare \/ PrepareFails \/ Use \/ Close

Next ==
  \/ CallStep
  \/ \E e \in Ends : SshConnects(e) \/ SshForwards(e) \/ SshEnds(e) \/ PortTaken(e)
  \/ ServerReinstalled \/ TerminalConnects

Spec == Init /\ [][Next]_vars

(***************************************************************************)
(* Properties.                                                             *)
(***************************************************************************)
Keys == Types \X {Old, New}

\* Every variable holds a value of its type; what is held was resolved, and an ssh that
\* listens is logged in.
TypeOK ==
  /\ kind \in [Ends -> {"direct", "key", "passphrase"}]
  /\ server \in [Types -> {None, Old, New}] /\ known \in [Types -> {None, Old, New}]
  /\ before \in [Types -> {None, Old, New}] /\ foreign \in SUBSET {"reinstalled", "terminal"}
  /\ at \in Ends /\ want \in Keys \cup {NoKey} /\ accepted \in SUBSET Keys
  /\ pc \in {"resolve", "cli", "early", "wait", "trust", "fetch", "start", "look", "prepare", "use",
             "close", "done"}
  /\ process \in [Ends -> {"none", "running", "in", "up", "stuck", "gone"}]
  /\ why \in [Ends -> {"nothing", "host_key", "other"}]
  /\ listener \in [Ends -> {"nobody", "ssh", "other_program"}]
  /\ forwarder \in [Ends -> BOOLEAN] /\ tunnel \in [Ends -> {"none", "ssh-cli", "sshtunnel"}]
  /\ held \in SUBSET Ends
  /\ outcome \in {"pending", "used", "refused", "host_key", "error", "unseen"}
  /\ \A e \in Ends : (listener[e] = "ssh" <=> process[e] = "up") /\ (forwarder[e] => tunnel[e] = "sshtunnel")

\* Whatever is tried, and with which backend, no connection accepts another key than the one
\* stored for its type when the call began.  A key of a type not stored before is accepted
\* on first contact and is then the stored one, unless the server was reinstalled while two
\* made their first contact: the call and a terminal, or two ends, the source's ssh having
\* been taken for connected because another program listened on its port.
NoOtherKey ==
  \A k \in accepted :
    IF before[k[1]] # None THEN k[2] = before[k[1]]
    ELSE \/ known[k[1]] = k[2]
         \/ /\ "reinstalled" \in foreign
            /\ "terminal" \in foreign \/ \E e \in Ends : listener[e] = "other_program"

\* None of the stored keys is the server's any more, and it was so when the call began.
Mismatch ==
  /\ foreign = {} /\ Stored(before) # {}
  /\ \A t \in Stored(before) : server[t] \notin {None, before[t]}

\* "The SSH host key does not match the one stored" is said only when it does not: a server
\* with a key of another type beside the stored one is no reason.  And a server all of whose
\* keys have changed is told of as such, whichever way the ssh command failed: never as a
\* login problem, and never by a transfer.  Two things hide it: a second look that does not
\* reach the server, and another program on the local port.
HostKeyErrorIsTrue ==
  /\ outcome = "host_key" =>
       "reinstalled" \in foreign \/ \E t \in Types : known[t] # None /\ server[t] \notin {None, known[t]}
  /\ Mismatch =>
       /\ outcome # "error"
       /\ outcome = "used" => \A e \in Ends : kind[e] = "direct" \/ listener[e] = "other_program"

\* When the call is over, nothing it opened is left.  Two things stay: the tunnel of an end
\* whose TLS or DSN is refused after the tunnel was opened, and an ssh that was given up
\* while it started and that SIGTERM does not end.
NothingLeft ==
  pc = "done" =>
    \A e \in Ends :
      /\ process[e] = "stuck" => tunnel[e] # "ssh-cli"
      /\ forwarder[e] \/ process[e] \in {"running", "in", "up"} => outcome = "refused" /\ e \notin held

\* An ssh tunnel is handed out when it is up and its server accepted, or when another program
\* has taken the port between the pick and the bind.
HandedOutIsOurs ==
  [][\A e \in Ends :
       tunnel[e] = "none" /\ tunnel'[e] = "ssh-cli" =>
         listener[e] = "other_program" \/ (process[e] = "up" /\ accepted # {})]_vars
=============================================================================
