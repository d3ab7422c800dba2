--------------------------- MODULE OutgoingLedger ---------------------------
(***************************************************************************)
(* What the outgoing_operations table promises its readers: "a crash       *)
(* leaves the operation durably uncertain" (claim_outgoing) and "at most   *)
(* one durable RPC attempt for a logical operation key"                    *)
(* (attempt_outgoing_once).                                                *)
(*                                                                         *)
(* A key is open until it is claimed or skipped.  A claimed key may be     *)
(* sent once, and its outcome, once recorded, is never revised.  A key     *)
(* whose outcome is never recorded, because the answer or the process was  *)
(* lost, stays claimed and is not sent again.                              *)
(***************************************************************************)
EXTENDS Naturals

CONSTANT Key

VARIABLES
    entry,  \* what the table says of each key
    sent    \* RPCs issued for each key

Entry == {"open", "claimed", "attempted_success", "attempted_failed", "skipped"}

LedgerInit ==
    /\ entry = [k \in Key |-> "open"]
    /\ sent = [k \in Key |-> 0]

Stays(k) == entry'[k] = entry[k] /\ sent'[k] = sent[k]

Claims(k) == entry[k] = "open" /\ entry'[k] = "claimed" /\ sent'[k] = sent[k]

Sends(k) ==
    /\ entry[k] = "claimed" /\ sent[k] = 0
    /\ entry'[k] = "claimed" /\ sent'[k] = 1

(* An acknowledged outcome presupposes the RPC. *)
Records(k) ==
    /\ entry[k] = "claimed" /\ sent[k] = 1
    /\ entry'[k] \in {"attempted_success", "attempted_failed"}
    /\ sent'[k] = 1

(* The breaker stops a claimed operation before its RPC. *)
Blocks(k) ==
    /\ entry[k] = "claimed" /\ sent[k] = 0
    /\ entry'[k] = "skipped" /\ sent'[k] = 0

(* Expiry, completion or a later report gives up what was not attempted. *)
Skips(k) == entry[k] = "open" /\ entry'[k] = "skipped" /\ sent'[k] = sent[k]

LedgerNext ==
    /\ entry' \in [Key -> Entry]
    /\ sent' \in [Key -> 0 .. 1]
    /\ \A k \in Key : \/ Stays(k) \/ Claims(k) \/ Sends(k)
                       \/ Records(k) \/ Blocks(k) \/ Skips(k)

LedgerSpec == LedgerInit /\ [][LedgerNext]_<<entry, sent>>
=============================================================================
