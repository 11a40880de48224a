---------------------------- MODULE MCIntegrity ----------------------------
(* A backup of three shards, one of them without frames, with two members, a   *)
(* file over two frames, which the second of the two other archives has too,   *)
(* and one that is a hard link in the first of them.                           *)
EXTENDS Integrity

MCTarget == {"t1", "t2", "t3"}
MCArchive == MCTarget \cup {"c1", "c2"}
MCCandidates == <<"c1", "c2">>

MCKind ==
    [a \in MCArchive |->
       CASE a = "t1" -> [file |-> "f", link |-> "none"]
         [] a = "t2" -> [file |-> "none", link |-> "f"]
         [] a = "c1" -> [file |-> "none", link |-> "h"]
         [] a = "c2" -> [file |-> "f", link |-> "none"]
         [] OTHER -> [file |-> "none", link |-> "none"]]
MCSpread ==
    [a \in MCArchive |->
       CASE a = "t1" -> [file |-> {1, 2}, link |-> {}]
         [] a = "t2" -> [file |-> {}, link |-> {2}]
         [] a = "c2" -> [file |-> {1}, link |-> {}]
         [] OTHER -> [file |-> {}, link |-> {}]]

=============================================================================
