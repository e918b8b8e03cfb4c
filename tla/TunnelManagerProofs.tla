------------------------- MODULE TunnelManagerProofs -------------------------
(***************************************************************************)
(* What TunnelManager guarantees for every set of host key types: which    *)
(* keys a call accepts, what it says of them, what it hands out and what   *)
(* it leaves behind.                                                       *)
(***************************************************************************)
EXTENDS TunnelManager, TLAPS, WellFoundedInduction

USE TypesAssumption DEF envVars, sshVars, endVars, callVars, None, Old, New

\* An ssh at work, and a program other than it on the local port of an end.
Alive == {"running", "in", "up"}
Another(e) == listener[e] = "other_program"

(***************************************************************************)
(* The inductive invariant.  No property is inductive by itself: each      *)
(* leans on where the call stands and on what known_hosts may hold by      *)
(* then.                                                                   *)
(***************************************************************************)

\* Where the call stands.  Until it raises, an end that is not its turn yet has not been
\* touched, and the end it works on has no tunnel before the step that returns it.
Stage ==
  /\ outcome = "pending" <=> pc \notin {"close", "done"}
  /\ outcome = "pending" /\ at = "src" => process["dst"] = "none" /\ tunnel["dst"] = "none"
  /\ outcome = "pending" /\ at = "dst" => "src" \in held
  /\ pc \in {"resolve", "cli"} => process[at] = "none"
  /\ pc \in {"early", "wait"} => process[at] # "stuck"
  /\ pc \in {"resolve", "cli", "early", "wait", "trust", "fetch", "start", "look"} =>
       tunnel[at] = "none"
  /\ pc \in {"start", "look"} => want \in Keys
  /\ pc = "use" \/ outcome = "used" => held = Ends
  /\ Stored(server) # {}

\* Who answers for what is open: an ssh at work belongs to the step the call is at or to a
\* tunnel that was returned, and a returned tunnel is known to the finally clause or about
\* to be.
Answered ==
  \A e \in Ends :
    /\ process[e] = "stuck" => tunnel[e] # "ssh-cli"
    /\ process[e] \in Alive => tunnel[e] = "ssh-cli" \/ (e = at /\ pc \in {"early", "wait"})
    /\ tunnel[e] # "none" =>
         e \in held \/ outcome = "refused" \/ (e = at /\ pc = "prepare")
    /\ tunnel[e] = "ssh-cli" /\ process[e] \in {"running", "in"} => Another(e)
    /\ e \in held /\ (pc = "done" \/ (pc = "close" /\ at = "dst" /\ e = "src")) =>
         ~forwarder[e] /\ process[e] \notin Alive

\* Somebody beside the step at hand has made a first contact.
TwoFirsts == "terminal" \in foreign \/ \E e \in Ends : Another(e)
\* The server has another key of a type than the stored one, or has had one.
Differs ==
  "reinstalled" \in foreign \/ \E t \in Types : known[t] # None /\ server[t] \notin {None, known[t]}

\* Entries that were there when the call began stay the first of their type; one that came
\* since is the key the server had then.  A backend fetches a key only where nothing was
\* stored, so what it then demands is what it has stored, unless another was first.
Contacts ==
  /\ \A t \in Types : before[t] # None => known[t] = before[t]
  /\ \A t \in Types : before[t] = None /\ known[t] # None =>
       known[t] = server[t] \/ "reinstalled" \in foreign
  /\ pc = "fetch" => \A t \in Types : before[t] = None /\ (known[t] # None => TwoFirsts)
  /\ pc \in {"start", "look"} =>
       known[want[1]] = want[2] \/
         (before[want[1]] = None /\ "reinstalled" \in foreign /\ TwoFirsts)
  /\ \A e \in Ends : process[e] \in {"in", "up"} => accepted # {}

\* Whoever blames the host key has seen one that differs.
Blames ==
  /\ \A e \in Ends : why[e] = "host_key" => Differs
  /\ outcome = "host_key" => Differs

\* While the server has none of the stored keys, no connection gets in, nothing is stored,
\* and the key demanded of it is one of those it has not.
UnderMismatch ==
  Mismatch =>
    /\ known = before /\ accepted = {}
    /\ \A e \in Ends : e \in held \/ (e = at /\ pc = "prepare") => kind[e] = "direct" \/ Another(e)
    /\ pc \in {"start", "look"} => before[want[1]] = want[2]
    /\ outcome # "error"

IInv == TypeOK /\ Stage /\ Answered /\ Contacts /\ NoOtherKey /\ Blames /\ UnderMismatch

(***************************************************************************)
(* Lemmas about the operators of the model.                                *)
(***************************************************************************)
\* A least type exists.
LEMMA PreferredIn ==
  ASSUME NEW T \in SUBSET Types, T # {}
  PROVE  Preferred(T) \in T /\ Preferred(T) \in Types
<1> DEFINE Less == OpToRel(<, Nat)
<1>1. IsWellFoundedOn(Less, Nat)
  BY NatLessThanWellFounded
<1>2. ASSUME NEW x \in Nat, NEW y \in Nat, <<y, x>> \notin Less PROVE x <= y
  BY <1>2 DEF OpToRel
<1> HIDE DEF Less
<1>3. PICK x \in T : \A y \in T : <<y, x>> \notin Less
  BY <1>1, WFMin
<1>4. \A y \in T : x <= y
  BY <1>2, <1>3
<1>5. QED
  BY <1>4 DEF Preferred

\* The type looked up in a set of keys is one it has.
LEMMA PreferredStored ==
  ASSUME NEW keys \in [Types -> {None, Old, New}], Stored(keys) # {}
  PROVE  LET t == Preferred(Stored(keys))
         IN t \in Types /\ keys[t] \in {Old, New} /\ <<t, keys[t]>> \in Keys
<1>1. Stored(keys) \subseteq Types
  BY DEF Stored
<1>2. Preferred(Stored(keys)) \in Stored(keys)
  BY <1>1, PreferredIn
<1>3. QED
  BY <1>1, <1>2 DEF Stored, Keys

\* A key is stored where there was none of its type, and nowhere else.
LEMMA AppendFacts ==
  ASSUME NEW keys \in [Types -> {None, Old, New}], NEW t \in Types, NEW id \in {Old, New}
  PROVE  /\ Append(keys, t, id) \in [Types -> {None, Old, New}]
         /\ \A u \in Types :
              Append(keys, t, id)[u] = IF u = t /\ keys[t] = None THEN id ELSE keys[u]
BY DEF Append

\* The type ssh settles on is one the server has, and a stored one if there is any.
KeyTypeRight ==
  /\ SshKeyType \in Types /\ server[SshKeyType] \in {Old, New}
  /\ (\E u \in Types : known[u] # None /\ server[u] # None) => known[SshKeyType] # None

LEMMA KeyTypeFacts == TypeOK /\ Stored(server) # {} => KeyTypeRight
<1> SUFFICES ASSUME TypeOK, Stored(server) # {} PROVE KeyTypeRight
  OBVIOUS
<1> DEFINE both == Stored(known) \cap Stored(server)
<1>1. both \subseteq Types /\ Stored(server) \subseteq Types
  BY DEF Stored
<1>2. CASE both # {}
  <2>1. SshKeyType \in both
    BY <1>1, <1>2, PreferredIn DEF SshKeyType
  <2>2. QED
    BY <2>1 DEF Stored, TypeOK, KeyTypeRight
<1>3. CASE both = {}
  <2>1. SshKeyType \in Stored(server)
    BY <1>1, <1>3, PreferredIn DEF SshKeyType
  <2>2. ~\E u \in Types : known[u] # None /\ server[u] # None
    BY <1>3 DEF Stored
  <2>3. QED
    BY <2>1, <2>2 DEF Stored, TypeOK, KeyTypeRight
<1>4. QED
  BY <1>2, <1>3

\* Ending the ssh of an end frees its port and no other.
Freed(e) ==
  /\ ListenerWithout(e) \in [Ends -> {"nobody", "ssh", "other_program"}]
  /\ ListenerWithout(e)[e] # "ssh"
  /\ \A f \in Ends : /\ f # e => ListenerWithout(e)[f] = listener[f]
                     /\ ListenerWithout(e)[f] = "other_program" <=> Another(f)

LEMMA FreedFacts == ASSUME TypeOK, NEW e \in Ends PROVE Freed(e)
BY DEF ListenerWithout, TypeOK, Another, Freed

\* What a connection does: a first contact or one with the stored key, or one with
\* another key.
Connection(e) ==
  LET t == SshKeyType
  IN /\ process[e] = "running"
     /\ \A f \in Ends : f # e => process'[f] = process[f] /\ why'[f] = why[f]
     /\ process' \in [Ends -> {"none", "running", "in", "up", "stuck", "gone"}]
     /\ why' \in [Ends -> {"nothing", "host_key", "other"}]
     /\ \/ /\ known[t] \in {None, server[t]} /\ process'[e] = "in" /\ why' = why
           /\ known' \in [Types -> {None, Old, New}] /\ accepted' = accepted \cup {<<t, server[t]>>}
           /\ \A u \in Types : known'[u] = IF u = t /\ known[t] = None THEN server[t] ELSE known[u]
        \/ /\ known[t] \notin {None, server[t]} /\ process'[e] = "gone" /\ why'[e] = "host_key"
           /\ known' = known /\ accepted' = accepted

LEMMA ConnectsFacts ==
  ASSUME TypeOK, Stored(server) # {}, NEW e \in Ends, SshConnects(e)
  PROVE  Connection(e)
<1>1. SshKeyType \in Types /\ server[SshKeyType] \in {Old, New}
  BY KeyTypeFacts DEF KeyTypeRight
<1>2. CASE known[SshKeyType] \in {None, server[SshKeyType]}
  <2>1. /\ process' = [process EXCEPT ![e] = "in"] /\ why' = why
        /\ known' = Append(known, SshKeyType, server[SshKeyType])
        /\ accepted' = accepted \cup {<<SshKeyType, server[SshKeyType]>>}
    BY <1>2 DEF SshConnects
  <2>2. /\ known' \in [Types -> {None, Old, New}]
        /\ \A u \in Types : known'[u] = IF u = SshKeyType /\ known[SshKeyType] = None
                                          THEN server[SshKeyType] ELSE known[u]
    BY <1>1, <2>1, AppendFacts DEF TypeOK
  <2>3. QED
    BY <1>2, <2>1, <2>2 DEF SshConnects, TypeOK, Connection
<1>3. CASE known[SshKeyType] \notin {None, server[SshKeyType]}
  BY <1>3 DEF SshConnects, Exit, TypeOK, Connection
<1>4. QED
  BY <1>2, <1>3

\* NoOtherKey for one key.
Right(k) ==
  IF before[k[1]] # None THEN k[2] = before[k[1]]
  ELSE known[k[1]] = k[2] \/ ("reinstalled" \in foreign /\ TwoFirsts)

\* A step that keeps what is stored keeps an accepted key right.
LEMMA StaysRight ==
  ASSUME TypeOK, NEW k \in Keys, Right(k), before' = before,
         \A u \in Types : known[u] # None => known'[u] = known[u],
         "reinstalled" \in foreign => "reinstalled" \in foreign', TwoFirsts => TwoFirsts'
  PROVE  Right(k)'
<1>1. k[1] \in Types /\ k[2] # None
  BY DEF Keys
<1>2. QED
  BY <1>1 DEF Right

(***************************************************************************)
(* Every step preserves each part of the invariant.                        *)
(***************************************************************************)
\* Its types.
LEMMA NextTypeOK == IInv /\ [Next]_vars => TypeOK'
<1> SUFFICES ASSUME IInv, [Next]_vars PROVE TypeOK'
  OBVIOUS
<1>free. Freed(at)
  BY FreedFacts DEF IInv, TypeOK
<1>key. KeyTypeRight
  BY KeyTypeFacts DEF IInv, Stage
<1>connects. \A e \in Ends : SshConnects(e) => Connection(e)
  BY ConnectsFacts DEF IInv, Stage
<1> USE DEF IInv, TypeOK
<1>1. CASE Resolve
  BY <1>1 DEF Resolve
<1>2. CASE ResolveFails
  BY <1>2 DEF ResolveFails, Raise, Ends
<1>3. CASE StartCli
  BY <1>3 DEF StartCli, Stage
<1>4. CASE NoCli
  BY <1>4 DEF NoCli
<1>5. CASE LookEarly
  BY <1>5 DEF LookEarly, CliFailed, Raise, Ends
<1>6. CASE Connected
  BY <1>6 DEF Connected, Stage
<1>7. CASE WaitTimesOut
  BY <1>7 DEF WaitTimesOut, CliFailed, Raise, Terminated, ListenerWithout, Ends
<1>8. CASE LookUp
  <2>1. Stored(known) # {} => <<Preferred(Stored(known)), known[Preferred(Stored(known))]>> \in Keys
    BY PreferredStored
  <2>2. QED
    BY <1>8, <2>1 DEF LookUp
<1>9. CASE Fetch
  <2> DEFINE t == Preferred(Stored(server))
  <2>1. t \in Types /\ server[t] \in {Old, New} /\ <<t, server[t]>> \in Keys
    BY PreferredStored DEF Stage
  <2> HIDE DEF t
  <2>2. known' \in [Types -> {None, Old, New}] /\ want' \in Keys
    BY <1>9, <2>1, AppendFacts DEF Fetch, t
  <2>3. QED
    BY <1>9, <2>2 DEF Fetch
<1>10. CASE FetchFails
  BY <1>10 DEF FetchFails, Raise, Ends
<1>11. CASE Started
  <2>1. <<want[1], server[want[1]]>> \in Keys
    BY <1>11 DEF Started, KeyMatches, Stage, Keys
  <2>2. QED
    BY <1>11, <2>1 DEF Started
<1>12. CASE StartFails
  BY <1>12 DEF StartFails
<1>13. CASE LookAgain
  BY <1>13 DEF LookAgain, Raise, Ends
<1>14. CASE LookFails
  BY <1>14 DEF LookFails, Raise, Ends
<1>15. CASE Prepare
  BY <1>15 DEF Prepare, Ends
<1>16. CASE PrepareFails
  BY <1>16 DEF PrepareFails, Raise, Ends
<1>17. CASE Use
  BY <1>17 DEF Use, Raise, Ends
<1>18. CASE Close
  <2>1. CASE at \in held /\ tunnel[at] = "sshtunnel"
    BY <1>18, <2>1 DEF Close, CloseTunnel, Ends
  <2>2. CASE at \in held /\ tunnel[at] = "ssh-cli"
    <3>1. /\ process' = [process EXCEPT ![at] = "gone"] /\ listener' = ListenerWithout(at)
          /\ UNCHANGED <<why, forwarder>>
      BY <1>18, <2>2 DEF Close, CloseTunnel, Ended
    <3>2. /\ listener' \in [Ends -> {"nobody", "ssh", "other_program"}]
          /\ \A e \in Ends : listener'[e] = "ssh" <=> process'[e] = "up"
      <4>1. listener' \in [Ends -> {"nobody", "ssh", "other_program"}]
        BY <3>1, <1>free DEF Freed
      <4>2. listener'[at] # "ssh" /\ process'[at] # "up"
        BY <3>1, <1>free DEF Freed
      <4>3. \A e \in Ends : e # at => listener'[e] = listener[e] /\ process'[e] = process[e]
        BY <3>1, <1>free DEF Freed
      <4>4. QED
        BY <4>1, <4>2, <4>3
    <3>3. QED
      BY <1>18, <3>1, <3>2 DEF Close, Ends
  <2>3. CASE at \notin held \/ tunnel[at] = "none"
    BY <1>18, <2>3 DEF Close, CloseTunnel, Ends
  <2>4. QED
    BY <2>1, <2>2, <2>3
<1>19. ASSUME NEW e \in Ends, SshConnects(e) PROVE TypeOK'
  <2>1. accepted' \in SUBSET Keys
    BY <1>19, <1>key, <1>connects DEF Keys, KeyTypeRight, Connection
  <2>2. known' \in [Types -> {None, Old, New}]
    BY <1>19, <1>connects DEF Connection
  <2>3. \A f \in Ends : listener[f] = "ssh" <=> process'[f] = "up"
    BY <1>19, <1>connects DEF Connection
  <2>4. QED
    BY <1>19, <2>1, <2>2, <2>3, <1>connects DEF SshConnects, Connection
<1>20. ASSUME NEW e \in Ends, SshForwards(e) PROVE TypeOK'
  BY <1>20 DEF SshForwards, Exit
<1>21. ASSUME NEW e \in Ends, SshEnds(e) PROVE TypeOK'
  BY <1>21 DEF SshEnds, Exit, ListenerWithout
<1>22. ASSUME NEW e \in Ends, PortTaken(e) PROVE TypeOK'
  BY <1>22 DEF PortTaken
<1>23. CASE ServerReinstalled
  BY <1>23 DEF ServerReinstalled
<1>24. CASE TerminalConnects
  BY <1>24 DEF TerminalConnects, Append, Stored
<1>25. CASE UNCHANGED vars
  BY <1>25 DEF vars
<1>26. QED
  BY <1>1, <1>2, <1>3, <1>4, <1>5, <1>6, <1>7, <1>8, <1>9, <1>10, <1>11, <1>12, <1>13,
     <1>14, <1>15, <1>16, <1>17, <1>18, <1>19, <1>20, <1>21, <1>22, <1>23, <1>24, <1>25
     DEF Next, CallStep

\* Where the call stands.
LEMMA NextStage == IInv /\ [Next]_vars => Stage'
<1> SUFFICES ASSUME IInv, [Next]_vars PROVE Stage'
  OBVIOUS
<1> USE DEF IInv, TypeOK, Stage
<1>1. CASE Resolve
  BY <1>1 DEF Resolve
<1>2. CASE ResolveFails
  BY <1>2 DEF ResolveFails, Raise
<1>3. CASE StartCli
  BY <1>3 DEF StartCli
<1>4. CASE NoCli
  BY <1>4 DEF NoCli
<1>5. CASE LookEarly
  BY <1>5 DEF LookEarly, CliFailed, Raise
<1>6. CASE Connected
  BY <1>6 DEF Connected
<1>7. CASE WaitTimesOut
  BY <1>7 DEF WaitTimesOut, CliFailed, Raise, Terminated, Ends
<1>8. CASE LookUp
  <2>1. Stored(known) # {} => <<Preferred(Stored(known)), known[Preferred(Stored(known))]>> \in Keys
    BY PreferredStored
  <2>2. QED
    BY <1>8, <2>1 DEF LookUp
<1>9. CASE Fetch
  <2>1. <<Preferred(Stored(server)), server[Preferred(Stored(server))]>> \in Keys
    BY PreferredStored
  <2>2. QED
    BY <1>9, <2>1 DEF Fetch
<1>10. CASE FetchFails
  BY <1>10 DEF FetchFails, Raise
<1>11. CASE Started
  BY <1>11 DEF Started
<1>12. CASE StartFails
  BY <1>12 DEF StartFails
<1>13. CASE LookAgain
  BY <1>13 DEF LookAgain, Raise
<1>14. CASE LookFails
  BY <1>14 DEF LookFails, Raise
<1>15. CASE Prepare
  BY <1>15 DEF Prepare, Ends
<1>16. CASE PrepareFails
  BY <1>16 DEF PrepareFails, Raise
<1>17. CASE Use
  BY <1>17 DEF Use, Raise
<1>18. CASE Close
  BY <1>18 DEF Close
<1>19. ASSUME NEW e \in Ends, SshConnects(e) PROVE Stage'
  BY PreferredIn, <1>19 DEF SshConnects, Append, Exit, SshKeyType, Ends
<1>20. ASSUME NEW e \in Ends, SshForwards(e) PROVE Stage'
  BY <1>20 DEF SshForwards, Exit, Ends
<1>21. ASSUME NEW e \in Ends, SshEnds(e) PROVE Stage'
  BY <1>21 DEF SshEnds, Exit
<1>22. ASSUME NEW e \in Ends, PortTaken(e) PROVE Stage'
  BY <1>22 DEF PortTaken
<1>23. CASE ServerReinstalled
  <2>1. PICK t \in Types : server[t] # None
    BY DEF Stored
  <2>2. server'[t] # None
    BY <1>23, <2>1 DEF ServerReinstalled
  <2>3. Stored(server') # {}
    BY <2>2 DEF Stored
  <2>4. QED
    BY <1>23, <2>3 DEF ServerReinstalled
<1>24. CASE TerminalConnects
  BY <1>24 DEF TerminalConnects
<1>25. CASE UNCHANGED vars
  BY <1>25 DEF vars
<1>26. QED
  BY <1>1, <1>2, <1>3, <1>4, <1>5, <1>6, <1>7, <1>8, <1>9, <1>10, <1>11, <1>12, <1>13,
     <1>14, <1>15, <1>16, <1>17, <1>18, <1>19, <1>20, <1>21, <1>22, <1>23, <1>24, <1>25
     DEF Next, CallStep

\* Who answers for what is open.
LEMMA NextAnswered == IInv /\ [Next]_vars => Answered'
<1> SUFFICES ASSUME IInv, [Next]_vars PROVE Answered'
  OBVIOUS
<1>free. Freed(at)
  BY FreedFacts DEF IInv, TypeOK
<1>connects. \A e \in Ends : SshConnects(e) => Connection(e)
  BY ConnectsFacts DEF IInv, Stage
<1> USE DEF IInv, TypeOK, Answered
<1>1. CASE Resolve
  BY <1>1 DEF Resolve, Another
<1>2. CASE ResolveFails
  BY <1>2 DEF ResolveFails, Raise, Another
<1>3. CASE StartCli
  BY <1>3 DEF StartCli, Another, Stage
<1>4. CASE NoCli
  BY <1>4 DEF NoCli, Another
<1>5. CASE LookEarly
  BY <1>5 DEF LookEarly, CliFailed, Raise, Another, Alive, Stage
<1>6. CASE Connected
  BY <1>6 DEF Connected, Another, Stage
<1>7. CASE WaitTimesOut
  BY <1>7 DEF WaitTimesOut, CliFailed, Raise, Terminated, ListenerWithout, Another, Alive, Stage
<1>8. CASE LookUp
  BY <1>8 DEF LookUp, Another
<1>9. CASE Fetch
  BY <1>9 DEF Fetch, Another
<1>10. CASE FetchFails
  BY <1>10 DEF FetchFails, Raise, Another, Stage
<1>11. CASE Started
  BY <1>11 DEF Started, Another, Stage
<1>12. CASE StartFails
  BY <1>12 DEF StartFails, Another
<1>13. CASE LookAgain
  BY <1>13 DEF LookAgain, Raise, Another, Stage
<1>14. CASE LookFails
  BY <1>14 DEF LookFails, Raise, Another, Stage
<1>15. CASE Prepare
  BY <1>15 DEF Prepare, Another
<1>16. CASE PrepareFails
  BY <1>16 DEF PrepareFails, Raise, Another
<1>17. CASE Use
  BY <1>17 DEF Use, Raise, Another, Stage
<1>18. CASE Close
  <2>1. /\ \A e \in Ends : e # at => process'[e] = process[e] /\ forwarder'[e] = forwarder[e]
        /\ process'[at] \in {process[at], "gone"} /\ (forwarder'[at] => forwarder[at])
        /\ at \in held => ~forwarder'[at] /\ process'[at] \notin Alive
    <3>1. CASE at \in held /\ tunnel[at] = "sshtunnel"
      BY <1>18, <3>1 DEF Close, CloseTunnel, Alive
    <3>2. CASE at \in held /\ tunnel[at] = "ssh-cli"
      BY <1>18, <3>2 DEF Close, CloseTunnel, Ended, Alive
    <3>3. CASE at \notin held \/ tunnel[at] = "none"
      BY <1>18, <3>3 DEF Close, CloseTunnel, Alive
    <3>4. QED
      BY <3>1, <3>2, <3>3
  <2>2. \A e \in Ends : Another(e) => Another(e)'
    BY <1>18, <1>free DEF Close, CloseTunnel, Ended, Another, Freed
  <2>3. QED
    BY <1>18, <2>1, <2>2 DEF Close, Alive, Ends
<1>19. ASSUME NEW e \in Ends, SshConnects(e) PROVE Answered'
  <2>1. process'[e] \in {"in", "gone"} /\ \A f \in Ends : f # e => process'[f] = process[f]
    BY <1>19, <1>connects DEF Connection
  <2>2. QED
    BY <1>19, <2>1 DEF SshConnects, Alive, Another
<1>20. ASSUME NEW e \in Ends, SshForwards(e) PROVE Answered'
  BY <1>20 DEF SshForwards, Exit, Another, Alive
<1>21. ASSUME NEW e \in Ends, SshEnds(e) PROVE Answered'
  BY <1>21 DEF SshEnds, Exit, ListenerWithout, Another, Alive
<1>22. ASSUME NEW e \in Ends, PortTaken(e) PROVE Answered'
  BY <1>22 DEF PortTaken, Another
<1>23. CASE ServerReinstalled
  BY <1>23 DEF ServerReinstalled, Another
<1>24. CASE TerminalConnects
  BY <1>24 DEF TerminalConnects, Another
<1>25. CASE UNCHANGED vars
  BY <1>25 DEF vars, Another
<1>26. QED
  BY <1>1, <1>2, <1>3, <1>4, <1>5, <1>6, <1>7, <1>8, <1>9, <1>10, <1>11, <1>12, <1>13,
     <1>14, <1>15, <1>16, <1>17, <1>18, <1>19, <1>20, <1>21, <1>22, <1>23, <1>24, <1>25
     DEF Next, CallStep

\* What is stored and what is demanded.
LEMMA NextContacts == IInv /\ [Next]_vars => Contacts'
<1> SUFFICES ASSUME IInv, [Next]_vars PROVE Contacts'
  OBVIOUS
<1>want. pc \in {"start", "look"} => want[1] \in Types /\ want[2] \in {Old, New}
  BY DEF IInv, Stage, Keys
<1>key. KeyTypeRight
  BY KeyTypeFacts DEF IInv, Stage
<1>connects. \A e \in Ends : SshConnects(e) => Connection(e)
  BY ConnectsFacts DEF IInv, Stage
<1> USE DEF IInv, TypeOK, Contacts
<1>1. CASE Resolve
  BY <1>1 DEF Resolve
<1>2. CASE ResolveFails
  BY <1>2 DEF ResolveFails, Raise
<1>3. CASE StartCli
  BY <1>3 DEF StartCli
<1>4. CASE NoCli
  BY <1>4 DEF NoCli
<1>5. CASE LookEarly
  BY <1>5 DEF LookEarly, CliFailed, Raise
<1>6. CASE Connected
  BY <1>6 DEF Connected
<1>7. CASE WaitTimesOut
  BY <1>7 DEF WaitTimesOut, CliFailed, Raise, Terminated
<1>8. CASE LookUp
  BY <1>8 DEF LookUp, Stored
<1>9. CASE Fetch
  BY PreferredIn, <1>9 DEF Fetch, Append, Another, TwoFirsts, Stage, Stored
<1>10. CASE FetchFails
  BY <1>10 DEF FetchFails, Raise
<1>11. CASE Started
  BY <1>11 DEF Started
<1>12. CASE StartFails
  BY <1>12 DEF StartFails, Another, TwoFirsts
<1>13. CASE LookAgain
  BY <1>13 DEF LookAgain, Raise
<1>14. CASE LookFails
  BY <1>14 DEF LookFails, Raise
<1>15. CASE Prepare
  BY <1>15 DEF Prepare
<1>16. CASE PrepareFails
  BY <1>16 DEF PrepareFails, Raise
<1>17. CASE Use
  BY <1>17 DEF Use, Raise
<1>18. CASE Close
  BY <1>18 DEF Close, CloseTunnel, Ended
<1>19. ASSUME NEW e \in Ends, SshConnects(e) PROVE Contacts'
  <2> DEFINE t == SshKeyType
  <2>1. t \in Types /\ server[t] \in {Old, New}
    BY <1>key DEF KeyTypeRight
  <2>2. TwoFirsts' = TwoFirsts /\ UNCHANGED <<server, before, foreign, pc, want>>
    BY <1>19 DEF SshConnects, TwoFirsts, Another
  <2>3. CASE known[t] \in {None, server[t]}
    <3>1. /\ accepted' # {}
          /\ \A u \in Types : known'[u] = IF u = t /\ known[t] = None THEN server[t] ELSE known[u]
      <4>1. Connection(e)
        BY <1>19, <1>connects DEF Connection
      <4>2. QED
        BY <2>3, <4>1 DEF Connection
    \* The other end's: it was taken for connected.
    <3>2. pc = "fetch" => TwoFirsts
      <4>1. process[e] = "running" /\ (pc = "fetch" => tunnel[e] = "ssh-cli")
        BY <1>19 DEF SshConnects, Answered, Alive
      <4>2. QED
        BY <4>1 DEF Answered, TwoFirsts
    <3> HIDE DEF t
    <3>3. \A u \in Types : known[u] # None => known'[u] = known[u]
      BY <3>1
    <3>4. \A u \in Types : known'[u] # known[u] =>
            u = t /\ known'[u] = server[u] /\ (pc = "fetch" => TwoFirsts)
      BY <3>1, <3>2
    <3>5. ASSUME pc \in {"start", "look"}, known[want[1]] = want[2] PROVE known'[want[1]] = want[2]
      <4>1. known[want[1]] # None /\ want[1] \in Types
        BY <3>5, <1>want
      <4>2. QED
        BY <3>3, <3>5, <4>1
    <3>6. QED
      BY <2>2, <3>1, <3>3, <3>4, <3>5
  <2>4. CASE known[t] \notin {None, server[t]}
    <3>1. /\ known' = known /\ accepted' = accepted
          /\ \A f \in Ends : process'[f] \in {"in", "up"} => process[f] \in {"in", "up"}
      BY <1>19, <2>4, <1>connects DEF Connection
    <3>2. QED
      BY <2>2, <3>1
  <2>5. QED
    BY <2>3, <2>4
<1>20. ASSUME NEW e \in Ends, SshForwards(e) PROVE Contacts'
  BY <1>20 DEF SshForwards, Another, TwoFirsts
<1>21. ASSUME NEW e \in Ends, SshEnds(e) PROVE Contacts'
  BY <1>21 DEF SshEnds, Exit, ListenerWithout, Another, TwoFirsts
<1>22. ASSUME NEW e \in Ends, PortTaken(e) PROVE Contacts'
  BY <1>22 DEF PortTaken, Another, TwoFirsts
<1>23. CASE ServerReinstalled
  BY <1>23 DEF ServerReinstalled, Another, TwoFirsts
<1>24. CASE TerminalConnects
  <2>1. PICK t \in Types : server[t] # None /\ known' = Append(known, t, server[t])
    BY <1>24 DEF TerminalConnects, Stored
  <2>2. \A u \in Types : known[u] = None /\ before[u] = None
    BY <1>24 DEF TerminalConnects, Stored
  <2>3. server[t] \in {Old, New}
    BY <2>1
  <2>4. \A u \in Types : known'[u] = IF u = t /\ known[t] = None THEN server[t] ELSE known[u]
    BY <2>1, <2>3, AppendFacts
  <2>5. TwoFirsts' /\ ("reinstalled" \in foreign' <=> "reinstalled" \in foreign)
    BY <1>24 DEF TerminalConnects, TwoFirsts
  <2>6. pc \in {"start", "look"} => "reinstalled" \in foreign
    <3>1. ASSUME pc \in {"start", "look"} PROVE known[want[1]] # want[2]
      <4>1. want[1] \in Types /\ want[2] # None
        BY <3>1, <1>want
      <4>2. QED
        BY <4>1, <2>2
    <3>2. QED
      BY <3>1
  <2>7. QED
    BY <1>24, <2>2, <2>4, <2>5, <2>6, <1>want DEF TerminalConnects
<1>25. CASE UNCHANGED vars
  BY <1>25 DEF vars, Another, TwoFirsts
<1>26. QED
  BY <1>1, <1>2, <1>3, <1>4, <1>5, <1>6, <1>7, <1>8, <1>9, <1>10, <1>11, <1>12, <1>13,
     <1>14, <1>15, <1>16, <1>17, <1>18, <1>19, <1>20, <1>21, <1>22, <1>23, <1>24, <1>25
     DEF Next, CallStep

\* What is said of the host key.
LEMMA NextBlames == IInv /\ [Next]_vars => Blames'
<1> SUFFICES ASSUME IInv, [Next]_vars PROVE Blames'
  OBVIOUS
<1>want. pc \in {"start", "look"} => want[1] \in Types /\ want[2] \in {Old, New}
  BY DEF IInv, Stage, Keys
<1>key. KeyTypeRight
  BY KeyTypeFacts DEF IInv, Stage
<1>connects. \A e \in Ends : SshConnects(e) => Connection(e)
  BY ConnectsFacts DEF IInv, Stage
<1> USE DEF IInv, TypeOK, Blames
<1>1. CASE Resolve
  BY <1>1 DEF Resolve, Differs
<1>2. CASE ResolveFails
  BY <1>2 DEF ResolveFails, Raise, Differs
<1>3. CASE StartCli
  BY <1>3 DEF StartCli, Differs
<1>4. CASE NoCli
  BY <1>4 DEF NoCli, Differs
<1>5. CASE LookEarly
  BY <1>5 DEF LookEarly, CliFailed, Differs
<1>6. CASE Connected
  BY <1>6 DEF Connected, Differs
<1>7. CASE WaitTimesOut
  BY <1>7 DEF WaitTimesOut, CliFailed, Terminated, Differs
<1>8. CASE LookUp
  BY <1>8 DEF LookUp, Differs
<1>9. CASE Fetch
  BY <1>9 DEF Fetch, Append, Differs
<1>10. CASE FetchFails
  BY <1>10 DEF FetchFails, Raise, Differs
<1>11. CASE Started
  BY <1>11 DEF Started, Differs
<1>12. CASE StartFails
  BY <1>12 DEF StartFails, Differs
<1>13. CASE LookAgain
  <2> DEFINE t == want[1]
  <2>1. t \in Types /\ want[2] # None
    BY <1>13, <1>want DEF LookAgain
  <2>2. known[t] = want[2] \/ "reinstalled" \in foreign
    BY <1>13 DEF LookAgain, Contacts
  <2>3. Changed => server[t] \notin {None, want[2]}
    BY DEF Changed, Offered
  <2> HIDE DEF t
  <2>4. Changed => Differs
    BY <2>1, <2>2, <2>3 DEF Differs
  <2>5. QED
    BY <1>13, <2>4 DEF LookAgain, Raise, Differs
<1>14. CASE LookFails
  BY <1>14 DEF LookFails, Raise, Differs
<1>15. CASE Prepare
  BY <1>15 DEF Prepare, Differs
<1>16. CASE PrepareFails
  BY <1>16 DEF PrepareFails, Raise, Differs
<1>17. CASE Use
  BY <1>17 DEF Use, Raise, Differs
<1>18. CASE Close
  BY <1>18 DEF Close, CloseTunnel, Ended, Differs
<1>19. ASSUME NEW e \in Ends, SshConnects(e) PROVE Blames'
  <2> DEFINE t == SshKeyType
  <2>1. t \in Types /\ server[t] \in {Old, New}
    BY <1>key DEF KeyTypeRight
  <2>2. CASE known[t] \in {None, server[t]}
    <3>1. /\ why' = why /\ UNCHANGED <<server, foreign, outcome>>
          /\ \A u \in Types : known[u] # None => known'[u] = known[u]
      BY <1>19, <2>2, <1>connects DEF SshConnects, Connection
    <3>2. Differs => Differs'
      BY <3>1 DEF Differs
    <3>3. QED
      BY <3>1, <3>2
  <2>3. CASE known[t] \notin {None, server[t]}
    <3>1. known' = known /\ UNCHANGED <<server, outcome>>
      BY <1>19, <2>3, <1>connects DEF SshConnects, Connection
    <3>2. Differs'
      BY <2>1, <2>3, <3>1 DEF Differs
    <3>3. QED
      BY <3>2
  <2>4. QED
    BY <2>2, <2>3
<1>20. ASSUME NEW e \in Ends, SshForwards(e) PROVE Blames'
  BY <1>20 DEF SshForwards, Exit, Differs
<1>21. ASSUME NEW e \in Ends, SshEnds(e) PROVE Blames'
  BY <1>21 DEF SshEnds, Exit, Differs
<1>22. ASSUME NEW e \in Ends, PortTaken(e) PROVE Blames'
  BY <1>22 DEF PortTaken, Differs
<1>23. CASE ServerReinstalled
  BY <1>23 DEF ServerReinstalled, Differs
<1>24. CASE TerminalConnects
  BY <1>24 DEF TerminalConnects, Append, Differs
<1>25. CASE UNCHANGED vars
  BY <1>25 DEF vars, Differs
<1>26. QED
  BY <1>1, <1>2, <1>3, <1>4, <1>5, <1>6, <1>7, <1>8, <1>9, <1>10, <1>11, <1>12, <1>13,
     <1>14, <1>15, <1>16, <1>17, <1>18, <1>19, <1>20, <1>21, <1>22, <1>23, <1>24, <1>25
     DEF Next, CallStep

\* Which keys are accepted.
LEMMA NextNoOtherKey == IInv /\ [Next]_vars => NoOtherKey'
<1> SUFFICES ASSUME IInv, [Next]_vars PROVE NoOtherKey'
  OBVIOUS
<1>want. pc \in {"start", "look"} => want[1] \in Types /\ want[2] \in {Old, New}
  BY DEF IInv, Stage, Keys
<1>key. KeyTypeRight
  BY KeyTypeFacts DEF IInv, Stage
<1>connects. \A e \in Ends : SshConnects(e) => Connection(e)
  BY ConnectsFacts DEF IInv, Stage
<1>right. NoOtherKey = \A k \in accepted : Right(k)
  BY DEF NoOtherKey, Right, TwoFirsts, Another
<1>right2. NoOtherKey' = \A k \in accepted' : Right(k)'
  BY DEF NoOtherKey, Right, TwoFirsts, Another
<1> USE DEF IInv, TypeOK, NoOtherKey
<1>1. CASE Resolve
  BY <1>1 DEF Resolve
<1>2. CASE ResolveFails
  BY <1>2 DEF ResolveFails
<1>3. CASE StartCli
  BY <1>3 DEF StartCli
<1>4. CASE NoCli
  BY <1>4 DEF NoCli
<1>5. CASE LookEarly
  BY <1>5 DEF LookEarly
<1>6. CASE Connected
  BY <1>6 DEF Connected
<1>7. CASE WaitTimesOut
  BY <1>7 DEF WaitTimesOut, Terminated, ListenerWithout
<1>8. CASE LookUp
  BY <1>8 DEF LookUp
<1>9. CASE Fetch
  <2> DEFINE t == Preferred(Stored(server))
  <2>1. t \in Types /\ server[t] \in {Old, New}
    BY PreferredStored DEF Stage
  <2> HIDE DEF t
  <2>2. \A u \in Types : known[u] # None => known'[u] = known[u]
    <3>1. known' = Append(known, t, server[t])
      BY <1>9 DEF Fetch, t
    <3>2. QED
      BY <2>1, <3>1, AppendFacts
  <2>3. ASSUME NEW k \in accepted PROVE Right(k)'
    BY <1>9, <2>2, <1>right, StaysRight DEF Fetch, TwoFirsts, Another
  <2>4. QED
    BY <1>9, <2>3, <1>right2 DEF Fetch
<1>10. CASE FetchFails
  BY <1>10 DEF FetchFails
<1>11. CASE Started
  <2>1. \A k \in accepted : Right(k)'
    BY <1>11, <1>right DEF Started, Right, TwoFirsts, Another
  <2>2. server[want[1]] = want[2] /\ accepted' = accepted \cup {<<want[1], want[2]>>}
    BY <1>11 DEF Started, KeyMatches
  <2>3. ASSUME NEW k, k = <<want[1], want[2]>> PROVE Right(k)'
    <3>1. k[1] = want[1] /\ k[2] = want[2]
      BY <2>3
    <3>2. known[k[1]] = k[2] \/ (before[k[1]] = None /\ "reinstalled" \in foreign /\ TwoFirsts)
      BY <1>11, <3>1 DEF Started, Contacts
    <3>3. before[k[1]] # None => known[k[1]] = before[k[1]]
      BY <1>11, <3>1, <1>want DEF Started, Contacts
    <3>4. QED
      BY <1>11, <3>2, <3>3 DEF Started, Right, TwoFirsts, Another
  <2>4. QED
    BY <2>1, <2>2, <2>3, <1>right2
<1>12. CASE StartFails
  BY <1>12 DEF StartFails
<1>13. CASE LookAgain
  BY <1>13 DEF LookAgain
<1>14. CASE LookFails
  BY <1>14 DEF LookFails
<1>15. CASE Prepare
  BY <1>15 DEF Prepare
<1>16. CASE PrepareFails
  BY <1>16 DEF PrepareFails
<1>17. CASE Use
  BY <1>17 DEF Use
<1>18. CASE Close
  BY <1>18 DEF Close, CloseTunnel, Ended, ListenerWithout
<1>19. ASSUME NEW e \in Ends, SshConnects(e) PROVE NoOtherKey'
  <2> DEFINE t == SshKeyType
  <2>1. t \in Types /\ server[t] \in {Old, New}
    BY <1>key DEF KeyTypeRight
  <2>2. UNCHANGED <<server, before, foreign, listener>>
    BY <1>19 DEF SshConnects
  <2>3. CASE known[t] \in {None, server[t]}
    <3>1. /\ accepted' = accepted \cup {<<t, server[t]>>}
          /\ \A u \in Types : known'[u] = IF u = t /\ known[t] = None THEN server[t] ELSE known[u]
      BY <1>19, <2>3, <1>connects DEF Connection
    <3> HIDE DEF t
    <3>2. \A u \in Types : known[u] # None => known'[u] = known[u]
      BY <3>1
    <3>3. ASSUME NEW k \in accepted PROVE Right(k)'
      BY <2>2, <3>2, <1>right, StaysRight DEF TwoFirsts, Another
    <3>4. ASSUME NEW k \in accepted', k \notin accepted PROVE Right(k)'
      <4>1. known'[t] = server[t] /\ (before[t] # None => known[t] = before[t])
        BY <2>1, <2>3, <3>1 DEF Contacts
      <4>2. k[1] = t /\ k[2] = server[t]
        BY <3>1, <3>4
      <4>3. QED
        BY <2>1, <2>2, <2>3, <4>1, <4>2 DEF Right
    <3>5. QED
      BY <3>3, <3>4, <1>right2
  <2>4. CASE known[t] \notin {None, server[t]}
    <3>1. known' = known /\ accepted' = accepted
      BY <1>19, <2>4, <1>connects DEF Connection
    <3>2. QED
      BY <2>2, <3>1
  <2>5. QED
    BY <2>3, <2>4
<1>20. ASSUME NEW e \in Ends, SshForwards(e) PROVE NoOtherKey'
  BY <1>20 DEF SshForwards
<1>21. ASSUME NEW e \in Ends, SshEnds(e) PROVE NoOtherKey'
  BY <1>21 DEF SshEnds, ListenerWithout
<1>22. ASSUME NEW e \in Ends, PortTaken(e) PROVE NoOtherKey'
  BY <1>22 DEF PortTaken
<1>23. CASE ServerReinstalled
  BY <1>23 DEF ServerReinstalled
<1>24. CASE TerminalConnects
  <2>1. PICK t \in Types : server[t] # None /\ known' = Append(known, t, server[t])
    BY <1>24 DEF TerminalConnects, Stored
  <2>2. \A u \in Types : known[u] # None => known'[u] = known[u]
    BY <2>1, AppendFacts
  <2>3. ASSUME NEW k \in accepted PROVE Right(k)'
    BY <1>24, <2>2, <1>right, StaysRight DEF TerminalConnects, TwoFirsts, Another
  <2>4. QED
    BY <1>24, <2>3, <1>right2 DEF TerminalConnects
<1>25. CASE UNCHANGED vars
  BY <1>25 DEF vars
<1>26. QED
  BY <1>1, <1>2, <1>3, <1>4, <1>5, <1>6, <1>7, <1>8, <1>9, <1>10, <1>11, <1>12, <1>13,
     <1>14, <1>15, <1>16, <1>17, <1>18, <1>19, <1>20, <1>21, <1>22, <1>23, <1>24, <1>25
     DEF Next, CallStep

\* What a server that has none of the stored keys can reach.
LEMMA NextUnderMismatch == IInv /\ [Next]_vars => UnderMismatch'
<1> SUFFICES ASSUME IInv, [Next]_vars PROVE UnderMismatch'
  OBVIOUS
<1>want. pc \in {"start", "look"} => want[1] \in Types /\ want[2] \in {Old, New}
  BY DEF IInv, Stage, Keys
<1>key. KeyTypeRight
  BY KeyTypeFacts DEF IInv, Stage
<1>connects. \A e \in Ends : SshConnects(e) => Connection(e)
  BY ConnectsFacts DEF IInv, Stage
<1> USE DEF IInv, TypeOK, UnderMismatch
<1>1. CASE Resolve
  BY <1>1 DEF Resolve, Mismatch, Another
<1>2. CASE ResolveFails
  BY <1>2 DEF ResolveFails, Raise, Mismatch, Another
<1>3. CASE StartCli
  BY <1>3 DEF StartCli, Mismatch, Another
<1>4. CASE NoCli
  BY <1>4 DEF NoCli, Mismatch, Another
<1>5. CASE LookEarly
  BY <1>5 DEF LookEarly, CliFailed, Raise, Mismatch, Another
<1>6. CASE Connected
  BY <1>6 DEF Connected, Mismatch, Another, Contacts
<1>7. CASE WaitTimesOut
  BY <1>7 DEF WaitTimesOut, CliFailed, Raise, Terminated, ListenerWithout, Mismatch, Another
<1>8. CASE LookUp
  BY <1>8 DEF LookUp, Mismatch, Another
<1>9. CASE Fetch
  <2>1. Stored(before) = {}
    BY <1>9 DEF Fetch, Contacts, Stored
  <2>2. QED
    BY <1>9, <2>1 DEF Fetch, Mismatch
<1>10. CASE FetchFails
  BY <1>10 DEF FetchFails, Mismatch, Contacts, Stored
<1>11. CASE Started
  <2>1. ~Mismatch
    BY <1>11, <1>want DEF Started, KeyMatches, Mismatch, Stored
  <2>2. QED
    BY <1>11, <2>1 DEF Started, Mismatch
<1>12. CASE StartFails
  BY <1>12 DEF StartFails, Mismatch, Another
<1>13. CASE LookAgain
  <2> DEFINE t == want[1]
  <2>1. t \in Types /\ want[2] # None /\ (Mismatch => before[t] = want[2])
    BY <1>13, <1>want DEF LookAgain
  <2>2. server[t] \notin {None, want[2]} => Changed
    BY DEF Changed, Offered
  <2> HIDE DEF t
  <2>3. Mismatch => Changed
    BY <2>1, <2>2 DEF Mismatch, Stored
  <2>4. QED
    BY <1>13, <2>3 DEF LookAgain, Raise, Mismatch, Another, Stage
<1>14. CASE LookFails
  BY <1>14 DEF LookFails, Raise, Mismatch, Another
<1>15. CASE Prepare
  BY <1>15 DEF Prepare, Mismatch, Another
<1>16. CASE PrepareFails
  BY <1>16 DEF PrepareFails, Raise, Mismatch, Another
<1>17. CASE Use
  BY <1>17 DEF Use, Raise, Mismatch, Another
<1>18. CASE Close
  BY <1>18 DEF Close, CloseTunnel, Ended, ListenerWithout, Mismatch, Another
<1>19. ASSUME NEW e \in Ends, SshConnects(e) PROVE UnderMismatch'
  <2>1. Mismatch' = Mismatch
    BY <1>19 DEF SshConnects, Mismatch
  <2>2. ASSUME Mismatch PROVE known[SshKeyType] \notin {None, server[SshKeyType]}
    <3>1. PICK u \in Types : before[u] # None
      <4>1. \E u \in Stored(before) : TRUE
        BY <2>2 DEF Mismatch
      <4>2. QED
        BY <4>1 DEF Stored
    <3>2. known[u] # None /\ server[u] # None
      BY <2>2, <3>1 DEF Mismatch, Stored
    <3>3. known[SshKeyType] # None /\ known = before
      BY <2>2, <3>2, <1>key DEF KeyTypeRight
    <3>4. QED
      BY <2>2, <1>key, <3>3 DEF Mismatch, Stored, KeyTypeRight
  <2>3. QED
    BY <1>19, <2>1, <2>2, <1>connects DEF SshConnects, Another, Connection
<1>20. ASSUME NEW e \in Ends, SshForwards(e) PROVE UnderMismatch'
  BY <1>20 DEF SshForwards, Mismatch, Another
<1>21. ASSUME NEW e \in Ends, SshEnds(e) PROVE UnderMismatch'
  BY <1>21 DEF SshEnds, ListenerWithout, Mismatch, Another
<1>22. ASSUME NEW e \in Ends, PortTaken(e) PROVE UnderMismatch'
  BY <1>22 DEF PortTaken, Mismatch, Another
<1>23. CASE ServerReinstalled
  BY <1>23 DEF ServerReinstalled, Mismatch
<1>24. CASE TerminalConnects
  BY <1>24 DEF TerminalConnects, Mismatch
<1>25. CASE UNCHANGED vars
  BY <1>25 DEF vars, Mismatch, Another
<1>26. QED
  BY <1>1, <1>2, <1>3, <1>4, <1>5, <1>6, <1>7, <1>8, <1>9, <1>10, <1>11, <1>12, <1>13,
     <1>14, <1>15, <1>16, <1>17, <1>18, <1>19, <1>20, <1>21, <1>22, <1>23, <1>24, <1>25
     DEF Next, CallStep

(***************************************************************************)
(* The theorems.                                                           *)
(***************************************************************************)
LEMMA InitInv == Init => IInv
<1> SUFFICES ASSUME Init PROVE IInv
  OBVIOUS
<1> USE DEF Init
<1>1. TypeOK
  <2>1. /\ server \in [Types -> {None, Old, New}] /\ known \in [Types -> {None, Old, New}]
        /\ before \in [Types -> {None, Old, New}]
    OBVIOUS
  <2>2. QED
    BY <2>1 DEF TypeOK, Ends
<1>2. Stage /\ Answered
  BY DEF Stage, Answered, Alive, Ends
<1>3. Contacts /\ NoOtherKey
  BY DEF Contacts, NoOtherKey, Ends
<1>4. Blames /\ UnderMismatch
  BY DEF Blames, UnderMismatch
<1>5. QED
  BY <1>1, <1>2, <1>3, <1>4 DEF IInv

LEMMA NextInv == IInv /\ [Next]_vars => IInv'
BY NextTypeOK, NextStage, NextAnswered, NextContacts, NextNoOtherKey, NextBlames,
   NextUnderMismatch DEF IInv

LEMMA Inductive == Spec => []IInv
BY InitInv, NextInv, PTL DEF Spec

\* TypeOK, for every set of host key types.
THEOREM TypeCorrect == Spec => []TypeOK
<1>1. IInv => TypeOK
  BY DEF IInv
<1>2. QED
  BY <1>1, Inductive, PTL

\* NoOtherKey: whatever the two backends, the other end's ssh and a terminal do to
\* known_hosts meanwhile, no connection of a call accepts another key than the stored one.
THEOREM OnlyStoredKeys == Spec => []NoOtherKey
<1>1. IInv => NoOtherKey
  BY DEF IInv
<1>2. QED
  BY <1>1, Inductive, PTL

\* HostKeyErrorIsTrue: the host key message is never said in error, and a server whose keys
\* have all changed is never taken for one that refuses a login.
THEOREM HostKeyErrorsAreTrue == Spec => []HostKeyErrorIsTrue
<1>1. IInv => HostKeyErrorIsTrue
  <2> SUFFICES ASSUME IInv PROVE HostKeyErrorIsTrue
    OBVIOUS
  <2>1. outcome = "host_key" => Differs
    BY DEF IInv, Blames
  <2>2. ASSUME Mismatch, outcome = "used", NEW e \in Ends
        PROVE  kind[e] = "direct" \/ Another(e)
    <3>1. e \in held
      BY <2>2 DEF IInv, Stage
    <3>2. QED
      BY <2>2, <3>1 DEF IInv, UnderMismatch
  <2>3. Mismatch => outcome # "error"
    BY DEF IInv, UnderMismatch
  <2>4. QED
    BY <2>1, <2>2, <2>3 DEF HostKeyErrorIsTrue, Differs, Another
<1>2. QED
  BY <1>1, Inductive, PTL

\* NothingLeft: the finally clause ends what the call opened, except the end whose TLS
\* settings were refused and an ssh that was given up while it started.
THEOREM NothingIsLeft == Spec => []NothingLeft
<1>1. IInv => NothingLeft
  BY DEF IInv, TypeOK, Answered, Alive, NothingLeft
<1>2. QED
  BY <1>1, Inductive, PTL

\* HandedOutIsOurs: an ssh tunnel that is handed out listens itself, after a key of the
\* server was accepted, or another program has its port.
THEOREM TunnelsAreOurs == Spec => HandedOutIsOurs
<1>1. IInv /\ [Next]_vars =>
        [\A e \in Ends :
           tunnel[e] = "none" /\ tunnel'[e] = "ssh-cli" =>
             listener[e] = "other_program" \/ (process[e] = "up" /\ accepted # {})]_vars
  <2> DEFINE Ours == \A e \in Ends :
               tunnel[e] = "none" /\ tunnel'[e] = "ssh-cli" =>
                 listener[e] = "other_program" \/ (process[e] = "up" /\ accepted # {})
  <2> SUFFICES ASSUME IInv, Next PROVE Ours
    BY DEF vars
  <2>1. CASE Connected
    <3>1. \A e \in Ends : e # at => tunnel'[e] = tunnel[e]
      BY <2>1 DEF Connected, IInv, TypeOK
    <3>2. Another(at) \/ (process[at] = "up" /\ accepted # {})
      BY <2>1 DEF Connected, Another, IInv, TypeOK, Contacts
    <3>3. QED
      BY <3>1, <3>2 DEF Another
  <2>2. CASE Started
    BY <2>2 DEF Started, IInv, TypeOK
  <2>3. CASE ~Connected /\ ~Started
    <3>1. UNCHANGED tunnel
      BY <2>3 DEF Next, CallStep, Resolve, ResolveFails, StartCli, NoCli, LookEarly, WaitTimesOut,
         LookUp, Fetch, FetchFails, StartFails, LookAgain, LookFails, Prepare, PrepareFails, Use,
         Close, SshConnects, SshForwards, SshEnds, PortTaken, ServerReinstalled, TerminalConnects
    <3>2. QED
      BY <3>1
  <2>4. QED
    BY <2>1, <2>2, <2>3
<1>2. QED
  BY <1>1, Inductive, PTL DEF Spec, HandedOutIsOurs
=============================================================================
