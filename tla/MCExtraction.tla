---------------------------- MODULE MCExtraction ----------------------------
(* A directory 1 with the member 2 in it, and a file 3 beside it. *)
EXTENDS Extraction

MCBelow == <<{2}, {}, {}>>
MCKinds == <<{"d"}, {"f", "l", "h"}, {"f"}>>

\* The directory with what is in it; the file; both; and a path that is there
\* together with the directory alone.
MCRequests ==
    {{[path |-> 1, tree |-> TRUE]},
     {[path |-> 2, tree |-> FALSE]},
     {[path |-> 1, tree |-> TRUE], [path |-> 3, tree |-> FALSE]},
     {[path |-> 1, tree |-> FALSE], [path |-> 3, tree |-> FALSE]}}

=============================================================================
