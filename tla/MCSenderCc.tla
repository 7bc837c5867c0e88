---------------------------- MODULE MCSenderCc ----------------------------
(***************************************************************************)
(* An instance of SenderCc: rates in units of 10 kbit/s, times in tenths   *)
(* of a second with the long ones shortened.                               *)
(***************************************************************************)
EXTENDS SenderCc

MCLimits == {[min |-> 4, start |-> 40, max |-> 100], [min |-> 10, start |-> 20, max |-> 30]}

MCMessages ==
    {[remb |-> 0, loss |-> 0, packets |-> 0], [remb |-> 60, loss |-> 0, packets |-> 20],
     [remb |-> 0, loss |-> 40, packets |-> 15]}

Sample(trend, rising) == [trend |-> trend, rising |-> rising, delta |-> 50]
MCSamples ==
    {<<Sample("within", TRUE), Sample("above", TRUE)>>,
     <<Sample("above", TRUE), Sample("above", TRUE)>>, <<Sample("below", FALSE)>>}

MCBeta     == <<17, 20>>
MCGrowth   == <<8, 100>>
MCReduceMs == <<1, 3>>
=============================================================================
