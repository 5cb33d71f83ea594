--------------------------- MODULE MCCapacityNotice ---------------------------
(***************************************************************************)
(* A small instance of CapacityNotice.                                     *)
(***************************************************************************)
EXTENDS CapacityNotice

\* The group is selected; nothing is selected and the periodic scan is off;
\* the group is selected twice, which is not valid.
MCConfigs ==
    {[selectors |-> <<"g">>, interval |-> 1],
     [selectors |-> <<>>, interval |-> 0],
     [selectors |-> <<"g", "g">>, interval |-> 1]}
=============================================================================
