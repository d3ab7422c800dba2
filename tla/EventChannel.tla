---------------------------- MODULE EventChannel ----------------------------
(***************************************************************************)
(* What the main task may rely on of client.events(): "decoded SSE data    *)
(* objects, reconnecting forever".  Events come one by one, in the order   *)
(* in which signal-cli published them, none twice and none mixed with      *)
(* another.  While a connection lives it loses none; when it ends, it may  *)
(* lose the latest of those that were under way, and never one before an   *)
(* event that arrives.                                                     *)
(***************************************************************************)
EXTENDS Naturals, Sequences

VARIABLES
    live,       \* there is a connection, and it has not been cut
    flight,     \* events published on it and not yet yielded
    log         \* events yielded

ChannelInit == live = FALSE /\ flight = {} /\ log = <<>>

Connects ==
    /\ ~live /\ live' = TRUE
    /\ flight = {} /\ UNCHANGED <<flight, log>>

Publishes ==
    /\ live
    /\ \E e \in flight' : /\ \A n \in DOMAIN log : log[n] < e
                         /\ \A f \in flight : f < e
                         /\ flight' = flight \cup {e}
    /\ UNCHANGED <<live, log>>

Delivers ==
    /\ \E e \in flight : /\ \A f \in flight : e <= f
                        /\ log' = Append(log, e)
                        /\ flight' = flight \ {e}
    /\ UNCHANGED live

Breaks ==
    /\ live' = FALSE
    /\ flight' \subseteq flight
    /\ \A kept \in flight', lost \in flight \ flight' : kept < lost
    /\ UNCHANGED log

ChannelNext == Connects \/ Publishes \/ Delivers \/ Breaks

ChannelSpec == ChannelInit /\ [][ChannelNext]_<<live, flight, log>>
=============================================================================
