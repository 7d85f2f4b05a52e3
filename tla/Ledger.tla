------------------------------- MODULE Ledger -------------------------------
(***************************************************************************)
(* The ledger of one sandbox name (db/ledger.ts, db/schema.ts): at most    *)
(* one row carries the name, and the row's state moves along               *)
(* ALLOWED_TRANSITIONS.  Two writes bypass the table: a recorded shell     *)
(* death, and the reconciler's overwrite with an observed fact.            *)
(*                                                                         *)
(* Next is the specification the verbs of the daemon are held to;          *)
(* RepairedNext adds what the reconciler may write.                        *)
(***************************************************************************)
CONSTANT Ids  \* the ids ever minted for the name (a UUID per birth)

VARIABLE row  \* row[i]: the state of i's row, "absent" when it has none

SandboxStates == {"active", "frozen", "stopped", "archived", "restoring"}

(* ALLOWED_TRANSITIONS *)
Allowed ==
  {<<"active", "frozen">>, <<"active", "stopped">>,
   <<"frozen", "active">>, <<"frozen", "stopped">>,
   <<"stopped", "active">>, <<"stopped", "archived">>,
   <<"archived", "restoring">>,
   <<"restoring", "active">>, <<"restoring", "archived">>}

Rows == {i \in Ids : row[i] # "absent"}

Init == row = [i \in Ids |-> "absent"]

(* createSandbox: the name is unique in the table. *)
Insert(i) == Rows = {} /\ row' = [row EXCEPT ![i] = "active"]

(* transition: throws on an edge outside the table. *)
Move(i, to) == <<row[i], to>> \in Allowed /\ row' = [row EXCEPT ![i] = to]

(* writeShellDeath: a running shell ended under an active row. *)
Death(i) == row[i] = "active" /\ row' = [row EXCEPT ![i] = "stopped"]

(* deleteSandbox: legal from any state. *)
Delete(i) == i \in Rows /\ row' = [row EXCEPT ![i] = "absent"]

Next ==
  \E i \in Ids : \/ Insert(i)
                 \/ \E to \in SandboxStates : Move(i, to)
                 \/ Death(i)
                 \/ Delete(i)

Spec == Init /\ [][Next]_row

(* overwriteState and the reconciler's own deaths: a hot row records what
   its container is, a restoring row without a task what is left of it. *)
Observe(i, seen) ==
  /\ row[i] \in {"active", "frozen", "stopped", "restoring"}
  /\ seen \in {"active", "frozen", "stopped"} \/ (row[i] = "restoring" /\ seen = "archived")
  /\ row' = [row EXCEPT ![i] = seen]

RepairedNext == Next \/ \E i \in Ids, seen \in SandboxStates : Observe(i, seen)

RepairedSpec == Init /\ [][RepairedNext]_row
=============================================================================
