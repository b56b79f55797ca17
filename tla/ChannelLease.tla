---------------------------- MODULE ChannelLease ----------------------------
(***************************************************************************)
(* What the audio transport promises its player: an I2S channel is deleted *)
(* only while nobody is inside a call that uses it.  `channel` is the      *)
(* channel that exists, `user` the one a player is inside a driver call    *)
(* with; 0 is neither.                                                     *)
(***************************************************************************)
EXTENDS Naturals

CONSTANT Channels    (* names a channel may have; 0 is not one of them *)

VARIABLES channel, user

vars == <<channel, user>>

Init == channel = 0 /\ user = 0

Create ==
    /\ channel = 0
    /\ channel' \in Channels
    /\ UNCHANGED user

Delete ==
    /\ channel # 0
    /\ user = 0
    /\ channel' = 0
    /\ UNCHANGED user

Borrow ==
    /\ user = 0
    /\ channel # 0
    /\ user' = channel
    /\ UNCHANGED channel

Return ==
    /\ user # 0
    /\ user' = 0
    /\ UNCHANGED channel

Next == Create \/ Delete \/ Borrow \/ Return

Spec == Init /\ [][Next]_vars
=============================================================================
