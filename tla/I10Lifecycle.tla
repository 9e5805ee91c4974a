----------------------------- MODULE I10Lifecycle -----------------------------
(***************************************************************************)
(* What a queue of the target promises each command of its host, stated   *)
(* without slots, lists, caravans or io_work.                              *)
(*                                                                         *)
(* The host issues commands in id order.  The target accepts a capsule,   *)
(* and then one of three things happens.                                   *)
(*   - It receives the command's data and executes it.                     *)
(*   - It executes the command at once, when the command brings no data.   *)
(*   - It rejects the command with an error.                               *)
(* An executed command completes.  Every completed command is answered    *)
(* with exactly one response.  One send may answer several commands, as   *)
(* a caravan does.  dataIn says that all of the command's data is in the  *)
(* target; a command is executed only then.                               *)
(***************************************************************************)
EXTENDS Naturals

CONSTANTS Ids          \* command ids, 1 .. n, in the order the host issues them

VARIABLES
  stage,               \* stage[id]: where command id is in its life
  dataIn               \* dataIn[id]: its data has all arrived

vars == << stage, dataIn >>

Stages == {"idle", "issued", "received", "executing", "completed", "answered"}

Init ==
  /\ stage = [id \in Ids |-> "idle"]
  /\ dataIn = [id \in Ids |-> FALSE]

\* The host sends the capsule of the next command.
Issue(id) ==
  /\ stage[id] = "idle"
  /\ id - 1 \in Ids => stage[id - 1] # "idle"
  /\ stage' = [stage EXCEPT ![id] = "issued"]
  /\ UNCHANGED dataIn

\* The target accepts a capsule whose data is still to come.
Accept(id) ==
  /\ stage[id] = "issued"
  /\ stage' = [stage EXCEPT ![id] = "received"]
  /\ UNCHANGED dataIn

\* The target accepts a capsule that brings no data and executes it.
AcceptAndExecute(id) ==
  /\ stage[id] = "issued"
  /\ stage' = [stage EXCEPT ![id] = "executing"]
  /\ dataIn' = [dataIn EXCEPT ![id] = TRUE]

\* The target refuses the capsule; the command completes with an error.
Reject(id) ==
  /\ stage[id] = "issued"
  /\ stage' = [stage EXCEPT ![id] = "completed"]
  /\ UNCHANGED dataIn

\* The last of the command's data arrives; it may be executed in the same
\* step, or after a trailer such as a data digest.
ReceiveData(id) ==
  /\ stage[id] = "received" /\ ~dataIn[id]
  /\ dataIn' = [dataIn EXCEPT ![id] = TRUE]
  /\ stage' \in {[stage EXCEPT ![id] = "received"],
                 [stage EXCEPT ![id] = "executing"]}

Execute(id) ==
  /\ stage[id] = "received" /\ dataIn[id]
  /\ stage' = [stage EXCEPT ![id] = "executing"]
  /\ UNCHANGED dataIn

\* Execution ends, successfully or not; the command's data is released.
Complete(id) ==
  /\ stage[id] = "executing"
  /\ stage' = [stage EXCEPT ![id] = "completed"]
  /\ dataIn' = [dataIn EXCEPT ![id] = FALSE]

\* One send carries the responses of the commands in S.
Answer(S) ==
  /\ S # {}
  /\ \A id \in S : stage[id] = "completed"
  /\ stage' = [id \in Ids |-> IF id \in S THEN "answered" ELSE stage[id]]
  /\ UNCHANGED dataIn

Next ==
  \/ \E id \in Ids :
       \/ Issue(id) \/ Accept(id) \/ AcceptAndExecute(id) \/ Reject(id)
       \/ ReceiveData(id) \/ Execute(id) \/ Complete(id)
  \/ \E S \in SUBSET Ids : Answer(S)

Spec == Init /\ [][Next]_vars
=============================================================================
