----------------------------- MODULE TablesInTurn -----------------------------
(***************************************************************************)
(* What a run over a scope of tables promises to those who read the        *)
(* destination.  It takes one table after the other; a table keeps what it *)
(* held until its turn, and what it got in its turn until the next run.    *)
(* A run that ends well has finished every table, one that is cancelled    *)
(* every table it began.  One that fails is half-way in a single table,    *)
(* which may change even afterwards: the server may still be at work on it.*)
(***************************************************************************)
EXTENDS Naturals, Sequences

CONSTANTS Tables, Scope

VARIABLES
  content,   \* what a table holds: "before", or "new" or "empty" as the run made it
  begun,     \* how many tables of Scope have had their turn
  finished,  \* how many of them count as copied
  told,      \* tables of which the log says that they were left as they were, or emptied
  outcome    \* how the run ended

Init ==
  /\ content = [t \in Tables |-> "before"] /\ begun = 0 /\ finished = 0
  /\ told = {} /\ outcome = "none"

AtHand == Scope[begun]
HalfDone == finished < begun

Begin ==
  /\ outcome = "none" /\ ~HalfDone /\ begun < Len(Scope)
  /\ begun' = begun + 1 /\ UNCHANGED <<content, finished, told, outcome>>

Change ==
  \/ UNCHANGED content
  \/ \E c \in {"new", "empty"} : content' = [content EXCEPT ![AtHand] = c]

\* A call for the table at hand, which may be the one the run fails at.
Work ==
  /\ HalfDone /\ Change
  /\ told' \in {told, told \cup {AtHand}} /\ outcome' \in {outcome, "failed"}
  /\ UNCHANGED <<begun, finished>>

Finish ==
  /\ HalfDone /\ outcome = "none" /\ Change
  /\ content'[AtHand] # "before" \/ AtHand \in told
  /\ finished' = begun /\ UNCHANGED <<begun, told, outcome>>

End ==
  /\ \/ outcome' \in {"failed", "killed"}
     \/ outcome = "none" /\ ~HalfDone /\ outcome' = "cancelled"
     \/ outcome = "none" /\ ~HalfDone /\ begun = Len(Scope) /\ outcome' = "success"
  /\ UNCHANGED <<content, begun, finished, told>>

\* The next run, for which "before" is what this one has left.
Restart == outcome # "none" /\ Init'

Next == Begin \/ Work \/ Finish \/ End \/ Restart

Spec == Init /\ [][Next]_<<content, begun, finished, told, outcome>>
=============================================================================
