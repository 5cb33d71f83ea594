------------------------------ MODULE MCFailover ------------------------------
(***************************************************************************)
(* Two pods with a claim each, of a class that allows them to be moved.    *)
(* The second forbids it and is on the same node, where a volume of it     *)
(* makes skipLv panic, or on the other; or it does not, with only the      *)
(* ticker at work.                                                         *)
(***************************************************************************)
EXTENDS Failover, TLC

MCClaimsOf == ("p" :> <<"a">>) @@ ("q" :> <<"b">>)
MCClassNote == ("a" :> "true") @@ ("b" :> "true")
Pod(note, extra, n) == [note |-> note, extra |-> extra, node |-> n]
Setup(q, rounds) == [pods |-> ("p" :> Pod("none", FALSE, "n1")) @@ ("q" :> q), rounds |-> rounds]
MCSetups ==
    {Setup(Pod("false", TRUE, "n1"), Rounds), Setup(Pod("false", FALSE, "n1"), Rounds),
     Setup(Pod("false", FALSE, "n2"), Rounds),
     Setup(Pod("none", FALSE, "n1"), {"tick"})}
=============================================================================
