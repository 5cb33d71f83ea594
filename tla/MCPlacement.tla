----------------------------- MODULE MCPlacement -----------------------------
(***************************************************************************)
(* Two nodes of different sizes, and scenarios of claims that get in each  *)
(* other's way: two claims of one pod in one group, a claim for the last   *)
(* space, a raw claim and an exclusive one, cached volumes, claims that do *)
(* not wait for a pod, a directory.  The name of the raw group is part of  *)
(* that of a group of LVM type, and the name of a disk of another's.       *)
(***************************************************************************)
EXTENDS Placement, TLC

MCPolicy == [g \in {"carina-vg-hdd", "rawfast", "raw", "dir"} |->
    CASE g = "raw" -> "raw" [] g = "dir" -> "host" [] OTHER -> "lvm"]

\* Four gibibytes of the reserve and half of one that rounding loses.
MCVgSize == [n \in Nodes |->
    IF n = "n1" THEN ("carina-vg-hdd" :> 11) @@ ("rawfast" :> 7)
    ELSE ("carina-vg-hdd" :> 9) @@ ("rawfast" :> 6)]
MCDiskSize == [n \in Nodes |->
    IF n = "n1" THEN (<<"raw", "sda">> :> 3) @@ (<<"raw", "sdaa">> :> 2) ELSE (<<"raw", "sda">> :> 2)]
MCOverlaps == {<< <<"rawfast", "">>, "raw">>, << <<"raw", "sdaa">>, "sda">>}

Plain(g) == [group |-> g, backend |-> "", cache |-> "", ratio |-> 0, exclusive |-> FALSE]
Bcache == [group |-> "", backend |-> "carina-vg-hdd", cache |-> "rawfast", ratio |-> 50, exclusive |-> FALSE]

MCClass ==
    [c \in {"a1", "a2", "b"} |-> Plain("hdd")]
    @@ ("any" :> Plain("")) @@ ("r" :> Plain("raw")) @@ ("now" :> Plain("raw"))
    @@ [c \in {"x", "y"} |-> [Plain("raw") EXCEPT !.exclusive = TRUE]]
    @@ ("k" :> Bcache) @@ ("know" :> Bcache) @@ ("h" :> Plain("dir"))
\* The claim y asks for exactly what the disk of n2 has.
MCBytes == [c \in DOMAIN MCClass |->
    CASE c \in {"a2", "y"} -> 3 [] c \in {"b", "k", "know"} -> 5 [] c \in {"any", "now"} -> 4 [] OTHER -> 2]
MCClaimsOf == ("pa" :> <<"a1", "a2">>) @@ ("pb" :> <<"b">>) @@ ("pr" :> <<"r", "x">>) @@ ("py" :> <<"y">>)
    @@ ("pk" :> <<"k">>) @@ ("ph" :> <<"h">>)
MCImmediate == {"any", "now", "know"}
MCTopology == [c \in DOMAIN MCClass |-> Nodes]
Both(cs) == [claims |-> cs, ready |-> Nodes]
MCScenarios == {Both({"a1", "a2", "b"}), Both({"r", "x"}), Both({"y", "now"}), Both({"k", "b"}),
    Both({"any", "b"}), Both({"h"}), [claims |-> {"any", "know"}, ready |-> {"n2"}]}
=============================================================================
