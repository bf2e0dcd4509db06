------------------------- MODULE CalculationService -------------------------
(***************************************************************************)
(* What a dispatcher promises the client, whatever it is made of: the      *)
(* blocks of one calculation at a time are reported started, then done,    *)
(* each once, and the calculation ends either completed, with every block  *)
(* done, or aborted, with nothing reported after that.                     *)
(***************************************************************************)
EXTENDS Naturals

CONSTANTS Ids, Blocks

VARIABLES
    status,     \* status[id]: what has been reported of calculation id
    started,    \* started[id]: the blocks reported started
    done        \* done[id]: the blocks reported done

serviceVars == <<status, started, done>>

Status == {"none", "running", "completed", "aborted"}

ServiceTypeOK ==
    /\ status \in [Ids -> Status]
    /\ started \in [Ids -> SUBSET Blocks]
    /\ done \in [Ids -> SUBSET Blocks]

Init ==
    /\ status = [id \in Ids |-> "none"]
    /\ started = [id \in Ids |-> {}]
    /\ done = [id \in Ids |-> {}]

\* Some more blocks are reported, and the end if they are the last ones.
Report(id, newStarted, newDone) ==
    /\ newStarted \subseteq Blocks \ started[id]
    /\ newDone \subseteq started[id] \ done[id]
    /\ started' = [started EXCEPT ![id] = @ \cup newStarted]
    /\ done' = [done EXCEPT ![id] = @ \cup newDone]
    /\ status' = [status EXCEPT ![id] =
                     IF done'[id] = Blocks THEN "completed" ELSE "running"]

Begin(id) ==
    /\ status[id] = "none"
    /\ \A other \in Ids : status[other] # "running"
    /\ \E newStarted \in SUBSET Blocks : Report(id, newStarted, {})

Progress(id) ==
    /\ status[id] = "running"
    /\ \E newStarted, newDone \in SUBSET Blocks : Report(id, newStarted, newDone)

Abort(id) ==
    /\ status[id] = "running"
    /\ status' = [status EXCEPT ![id] = "aborted"]
    /\ UNCHANGED <<started, done>>

Next == \E id \in Ids : Begin(id) \/ Progress(id) \/ Abort(id)

Spec == Init /\ [][Next]_serviceVars
=============================================================================
