-------------------------- MODULE MCReactionHistory --------------------------
(***************************************************************************)
(* Instances of ReactionHistory for TLC.                                   *)
(***************************************************************************)
EXTENDS ReactionHistory

CONSTANTS ann, bob, heart, check

Two == {ann, bob}
Emojis == {heart, check}
Times == 1 .. 3

React(p, emoji, removed, ts) ==
    [reactor |-> p, emoji |-> emoji, removed |-> removed, ts |-> ts]

(* ann adds a reaction, takes it back, and in the same millisecond adds    *)
(* another, which she also takes back; bob reacts once.                    *)
Sent == {React(ann, heart, FALSE, 1), React(ann, heart, TRUE, 2),
         React(ann, check, FALSE, 2), React(ann, check, TRUE, 3),
         React(bob, heart, FALSE, 2)}
=============================================================================
