------------------------- MODULE OutgoingOperations -------------------------
(***************************************************************************)
(* The outgoing_operations table (database.py): the durable state of every *)
(* logical Signal write, by operation key, and the transactions on it.     *)
(* The tracker keeps its reports, edits and host reactions there, the      *)
(* command handler its replies.                                            *)
(***************************************************************************)

CONSTANT Key

Attempted == {"attempted_success", "attempted_failed", "attempted_uncertain"}
NotAttempted == {"not_due", "due_not_attempted"}
OpState == {"absent", "skipped"} \cup NotAttempted \cup Attempted

SkipOperations(ops, keys) ==
    [k \in Key |-> IF k \in keys /\ ops[k] \in NotAttempted
                   THEN "skipped" ELSE ops[k]]

(* INSERT OR IGNORE: a key that exists keeps its state. *)
PrepareOutgoing(ops, k, state) ==
    [ops EXCEPT ![k] = IF @ = "absent" THEN state ELSE @]

MarkOutgoingDue(ops, k) ==
    [ops EXCEPT ![k] = IF @ = "not_due" THEN "due_not_attempted" ELSE @]

(* Mutant: an uncertain attempt is retried. *)
Claimable_RetryUncertain(ops, k) ==
    ops[k] \in {"due_not_attempted", "attempted_uncertain"}

Claimable(ops, k) == ops[k] = "due_not_attempted"

(* Mutants: the claim writes a state the schema does not know, or is not   *)
(* committed before the RPC.                                               *)
ClaimOutgoing_UnknownState(ops, k) == [ops EXCEPT ![k] = "attempted"]
ClaimOutgoing_NotDurable(ops, k) == [ops EXCEPT ![k] = "due_not_attempted"]

ClaimOutgoing(ops, k) == [ops EXCEPT ![k] = "attempted_uncertain"]

FinishOutgoing(ops, k, state) ==
    [ops EXCEPT ![k] = IF @ = "attempted_uncertain" THEN state ELSE @]

(* What a state says of the attempt, as an entry of OutgoingLedger. *)
LedgerEntry(state) ==
    CASE state \in {"absent"} \cup NotAttempted -> "open"
      [] state = "attempted_uncertain" -> "claimed"
      [] OTHER -> state
=============================================================================
