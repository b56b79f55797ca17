------------------------------ MODULE MCGpioNets ------------------------------
(* Three pins and a reserved one.  The boards are of two kinds: three       *)
(* wirings with nets held low or dragged down, all three pins on one net,   *)
(* another talker on the net of one pin, all with one load; and single nets *)
(* with pairs of loads, on chips whose internal pull-ups differ.            *)
EXTENDS GpioNets

MCPins     == {1, 2, 3, 4}
MCReserved == {4}
MCByHand   == {1}
MCReferences == {2, 4, 9}
MCRequests == {<<1, 2, 3>>, <<4, 7, 2, 2, 1>>}

Plain == [p \in MCPins |-> 1]

Wirings == {<<1, 2, 3, 3>>, <<1, 1, 2, 3>>, <<1, 2, 2, 3>>}

Pull(n, m) == {<<n, m>>}

(* held and drags *)
Faults ==
    {<<{}, {}>>, <<{1}, {}>>, <<{2}, {}>>, <<{1}, Pull(1, 2)>>,
     <<{}, Pull(1, 2)>>, <<{}, Pull(2, 1)>>,
     <<{}, Pull(1, 2) \cup Pull(2, 1)>>}

Wired ==
    {[net |-> w, held |-> f[1], drags |-> f[2], busy |-> {}, internal |-> 9, R |-> Plain, C |-> Plain] :
        w \in Wirings, f \in Faults}
    \cup {[net |-> <<1, 1, 1, 3>>, held |-> {}, drags |-> {}, busy |-> {}, internal |-> 9, R |-> Plain, C |-> Plain],
          [net |-> <<1, 2, 3, 3>>, held |-> {}, drags |-> {}, busy |-> {2}, internal |-> 9, R |-> Plain, C |-> Plain]}

(* <<R, C>> in units of 5k: none, a bare pad; 5k on a bare pad and on a     *)
(* net; 15k with little, with enough and with too much to charge; 30k.      *)
Loads == {<<0, 0>>, <<0, 2>>, <<1, 0>>, <<1, 2>>, <<3, 1>>, <<3, 4>>, <<3, 5>>, <<6, 2>>}

(* 35k, as measured on one chip, the nominal 45k, and 60k. *)
Internals == {7, 9, 12}

Loaded ==
    {[net |-> <<1, 2, 3, 3>>, held |-> {}, drags |-> {}, busy |-> {}, internal |-> r,
      R |-> <<a[1], b[1], 3, 1>>, C |-> <<a[2], b[2], 1, 1>>] :
        r \in Internals, a \in Loads, b \in {<<0, 2>>, <<1, 1>>, <<6, 1>>}}

MCBoards == Wired \cup Loaded
=============================================================================
