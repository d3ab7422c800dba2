--------------------------- MODULE MCAlertTracker ---------------------------
(***************************************************************************)
(* Instances of AlertTracker for TLC: the inputs of each run, by the name  *)
(* its configuration assigns to the constant.                              *)
(***************************************************************************)
EXTENDS AlertTracker

CONSTANTS ann, bob

Plus(m, p, t) == [target |-> m, named |-> TRUE, reactor |-> p,
                  removed |-> FALSE, ts |-> t]
Minus(m, p, t) == [Plus(m, p, t) EXCEPT !.removed = TRUE]
Unnamed(e) == [e EXCEPT !.named = FALSE]

(* core: one trigger; ann adds, removes and adds again, bob once, each     *)
(* time on a different side of a deadline.                                 *)
OneMessage == {1}
CoreSentAt == <<0>>
CoreText == <<"trigger">>
CoreReactions == {Plus(1, ann, 2), Minus(1, ann, 3), Plus(1, bob, 3), Plus(1, ann, 4)}
ReadableFiles == {{ann, bob}, {}}
BothReleased == {{ann, bob}}

(* crash: the deadline reports, a completion and the host reaction, cut at *)
(* every step; the sender's clock is ahead of ours, and the released list  *)
(* may be empty or unreadable.                                             *)
AheadSentAt == <<1>>
AheadReactions == {Plus(1, ann, 3)}
AnyFile == {{ann, bob}, {}, Unreadable}

(* uncertain_final: both members respond, one of them after the final      *)
(* deadline.                                                               *)
CrashReactions == {Plus(1, ann, 1), Plus(1, bob, 3)}

(* pair: two messages of one millisecond, of which one is a trigger and   *)
(* the other is taken up by /check <text>; reactions with and without an   *)
(* author, before and after the session exists.                            *)
TwoMessages == {1, 2}
PairSentAt == <<0, 0>>
PairText == <<"trigger", "other">>
PairReactions == {Unnamed(Plus(1, ann, 1)), Minus(2, ann, 2)}
OnlyA == {{ann}}

(* live: one member's addition and removal around the final deadline.      *)
LiveReactions == {Plus(1, ann, 1), Minus(1, ann, 3)}
=============================================================================
