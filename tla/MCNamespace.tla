------------------------------- MODULE MCNamespace -------------------------------
(* Instances of Namespace for TLC. *)
EXTENDS Namespace, TLC

\* Trees an earlier session left: nothing; a directory d with the two names n and m
\* of a hard-linked file; the same directory after it was renamed from n.
Linkage(d, n, m, c) == InsertAll(Writer({}, Empty), {<<d, n>>, <<d, m>>},
                                 File(0, c, {<<n, n>>, <<n, m>>})).root

FreshOrLinked ==
    {Empty} \cup {Linkage(d, nm[1], nm[2], c) :
                      d \in Names, nm \in {q \in Names \X Names : q[1] # q[2]}, c \in Contents}
FreshOnly == {Empty}

Interchangeable == Permutations(Names) \cup Permutations(Contents)
================================================================================
