--------------------------- MODULE MCArchiveView ---------------------------
(***************************************************************************)
(* Two plans with a backup of one name each.  In plan p it has two shards,  *)
(* one without its index, and cron adds another that is not mirrored yet.  *)
(***************************************************************************)
EXTENDS ArchiveView

Shard(p, b, s) == [plan |-> p, backup |-> b, shard |-> s]

MCArchive == {Shard("p", "x", 1), Shard("p", "x", 2), Shard("p", "y", 1),
              Shard("q", "x", 1)}
MCNeed == [a \in MCArchive |-> IF a = Shard("p", "x", 1) THEN "reindex"
                               ELSE IF a.backup = "y" THEN "mirror" ELSE "none"]
MCStored == {a \in MCArchive : a.backup = "x"}

=============================================================================
