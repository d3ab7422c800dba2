-------------------------- MODULE MCCommandHandler --------------------------
(***************************************************************************)
(* Instances of CommandHandler for TLC.                                    *)
(***************************************************************************)
EXTENDS CommandHandler

CONSTANTS a, b, z       \* names; z is not on the roster

Message(token, names) == [token |-> token, names |-> names, wellformed |-> TRUE]

(* Updates that undo or repeat one another, and a /status, whose health    *)
(* check may meet the rate limit; z left the roster.                       *)
SafetyCommands == {Message("add", {a}), Message("del", {a, z}),
                   Message("status", {})}

(* A /check, which writes to Signal before its reply does, an update, and  *)
(* a /clearrt without its "confirm".                                       *)
LiveCommands == {Message("set", {a}), Message("check", {}),
                 [Message("clear", {}) EXCEPT !.wellformed = FALSE]}

TwoNames == {a, b}
Imported == {{b}}
BothTasks == {"main", "ticker"}
=============================================================================
