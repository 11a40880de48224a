----------------------------- MODULE Extraction -----------------------------
(***************************************************************************)
(* One `--extract` of paths from a logical backup: the pre-flight of the   *)
(* destination, then shard by shard either the fast path, which reads only *)
(* the frames that hold the wanted members, or the naive one, which pipes  *)
(* the archive through zstdcat and tar.                                    *)
(*                                                                         *)
(* A byte of a shard's uncompressed stream is its position there, so that  *)
(* what is written can be compared with what was asked for.  Members are   *)
(* numbered in the order of their names; index and frame list describe the *)
(* archive (ShardWriter shows when they do).  Modes, times and owners are  *)
(* left out, except that a directory may be read-only.                     *)
(***************************************************************************)
EXTENDS Integers, Sequences, FiniteSets

CONSTANTS
    FrameSize,  \* bytes of a full frame
    MaxHeader,  \* bytes of a member's header at most
    Length,     \* bytes of each shard's stream
    Shards,     \* number of shards
    Below,      \* for each path those below it; DOMAIN Below is all paths
    Kinds,      \* for each path the types it may have
    Requests    \* what may be asked for: sets of [path, tree]

Path == DOMAIN Below
Types == {"f", "d", "l", "h"}
Pattern == [path : Path, tree : BOOLEAN]

ASSUME ExtractionAssumption ==
    /\ FrameSize \in Nat \ {0} /\ MaxHeader \in Nat \ {0}
    /\ Length \in Nat /\ Shards \in Nat \ {0}
    /\ Path \subseteq Nat /\ IsFiniteSet(Path)
    /\ \A p \in Path : Below[p] \subseteq {q \in Path : q > p}
    /\ Kinds \in [Path -> SUBSET Types]
    /\ Requests \subseteq SUBSET Pattern

VARIABLES
    layout,  \* where each member is: the logical backup
    request, \* the patterns asked for
    at,      \* the step: preflight, next, read, write, body, done
    asRoot,  \* run by the pkexec helper
    shard,   \* the shard at work
    todo,    \* matched members of it that are still to be written
    frames,  \* the frames decompressed, from their numbers to their bytes
    next,    \* while a file is put together: the next frame of it
    bytes,   \* and what there is of it
    disk,    \* what the destination has of each path
    locked,  \* directories restored read-only
    ignored, \* shards whose zstdcat failed while tar missed a pattern
    count,   \* files, directories and links reported
    rc       \* the exit code, once done

vars == <<layout, request, at, asRoot, shard, todo, frames, next, bytes,
          disk, locked, ignored, count, rc>>

Member == [shard : 1 .. Shards, type : Types,
           data_offset : 0 .. Length, size : 0 .. Length, readonly : BOOLEAN]

End(m) == m.data_offset + m.size

Fits(p, m) ==
    /\ m.type \in Kinds[p] /\ m.data_offset > 0 /\ End(m) <= Length
    /\ m.type # "f" => m.size = 0
    /\ m.readonly => m.type = "d"

\* Members of a shard follow each other without a gap, each behind a header,
\* the larger files first (partition_by_size).
Before(f, q, p) == f[q].shard = f[p].shard /\ End(f[q]) < f[p].data_offset
Packed(f) ==
    \A p \in Path :
       /\ \E from \in {0} \cup {End(f[q]) : q \in {r \in Path : Before(f, r, p)}} :
             f[p].data_offset - from \in 1 .. MaxHeader
       /\ \A q \in Path \ {p} :
             /\ f[q].shard = f[p].shard => Before(f, q, p) \/ Before(f, p, q)
             /\ Before(f, q, p) /\ f[q].type = "f" => f[q].size >= f[p].size

\* What a member holds, and what frame i of a shard holds.
Bytes(m) == [k \in 1 .. m.size |-> m.data_offset + k - 1]
FrameLength(i) ==
    IF (i + 1) * FrameSize <= Length THEN FrameSize ELSE Length - i * FrameSize
Frame(i) == [k \in 1 .. FrameLength(i) |-> i * FrameSize + k - 1]

Absent == [kind |-> "absent", by |-> "none", bytes |-> <<>>]
Put(kind, by, bs) == [kind |-> kind, by |-> by, bytes |-> bs]

-----------------------------------------------------------------------------
(* What is wanted, and where it is *)

\* _match_records: an exact path, or a path and everything below it.
Matches(p, pat) == p = pat.path \/ (pat.tree /\ p \in Below[pat.path])

\* tar takes every path it is given as a prefix.
TarMatches(p, pat) == p = pat.path \/ p \in Below[pat.path]

InShard(s) == {p \in Path : layout[p].shard = s}
Matched(s) == {p \in InShard(s) : \E pat \in request : Matches(p, pat)}

FirstFrame(m) == m.data_offset \div FrameSize
LastFrame(m) == (End(m) - 1) \div FrameSize

\* _frames_needed, for one record.
FramesNeeded(m) ==
    IF m.type # "f" \/ m.size = 0 THEN {} ELSE FirstFrame(m) .. LastFrame(m)

\* _coalesce_to_ranges: the maximal runs of adjacent frames.
Ranges(ids) ==
    {r \in ids \X ids : /\ r[1] <= r[2] /\ r[1] .. r[2] \subseteq ids
                        /\ r[1] - 1 \notin ids /\ r[2] + 1 \notin ids}

-----------------------------------------------------------------------------
(* action_extract *)

Init ==
    /\ layout \in {f \in [Path -> UNION {{m \in Member : Fits(p, m)} : p \in Path}] :
                     (\A p \in Path : Fits(p, f[p])) /\ Packed(f)}
    /\ request \in Requests
    /\ at = "preflight" /\ asRoot = FALSE /\ shard = 0 /\ todo = {}
    /\ frames = <<>> /\ next = 0 /\ bytes = <<>>
    /\ disk = [p \in Path |-> Absent]
    /\ locked = {} /\ ignored = {} /\ count = 0 /\ rc = 0

Exit(code) == at' = "done" /\ rc' = code

Unstarted == <<layout, request, shard, todo, frames, next, bytes, disk, locked,
               ignored, count>>

\* dest_needs_root: the nearest directory that exists can be written to.
PassPreflight ==
    /\ at = "preflight" /\ at' = "next"
    /\ UNCHANGED <<asRoot, rc, Unstarted>>

\* _restore_via_pkexec: it cannot, but it is "/" and the plan one of root's, so
\* that the helper runs the same command as root.
EscalateToHelper ==
    /\ at = "preflight" /\ at' = "next"
    /\ asRoot' = TRUE
    /\ UNCHANGED <<rc, Unstarted>>

\* The request is turned down, here or by the helper, before anything is
\* written.
Refuse ==
    /\ at = "preflight"
    /\ Exit(1)
    /\ UNCHANGED <<asRoot, Unstarted>>

\* Faulty variant of StartFast: one shard too many.
StartFastPastLast ==
    /\ at = "next" /\ shard <= Shards
    /\ shard' = shard + 1
    /\ todo' = Matched(shard + 1)
    /\ at' = IF Matched(shard + 1) = {} THEN "next" ELSE "read"
    /\ UNCHANGED <<layout, request, asRoot, frames, next, bytes, disk, locked,
                   ignored, count, rc>>

\* extract_files of the next shard, both sidecars being there.
StartFast ==
    /\ at = "next" /\ shard < Shards
    /\ shard' = shard + 1
    /\ todo' = Matched(shard + 1)
    /\ at' = IF Matched(shard + 1) = {} THEN "next" ELSE "read"
    /\ UNCHANGED <<layout, request, asRoot, frames, next, bytes, disk, locked,
                   ignored, count, rc>>

\* Faulty variant of ReadFrames: one read, from the first frame to the last.
ReadFirstRange ==
    /\ at = "read"
    /\ LET needed == UNION {FramesNeeded(layout[p]) : p \in todo}
           range == CHOOSE r \in Ranges(needed) \cup {<<1, 0>>} : TRUE
       IN  frames' = [i \in range[1] .. range[2] |-> Frame(i)]
    /\ at' = "write"
    /\ UNCHANGED <<layout, request, asRoot, shard, todo, next, bytes, disk,
                   locked, ignored, count, rc>>

\* _read_and_decompress_frames.
ReadFrames ==
    /\ at = "read"
    /\ LET needed == UNION {FramesNeeded(layout[p]) : p \in todo}
       IN  frames' = [i \in UNION {r[1] .. r[2] : r \in Ranges(needed)}
                        |-> Frame(i)]
    /\ at' = "write"
    /\ UNCHANGED <<layout, request, asRoot, shard, todo, next, bytes, disk,
                   locked, ignored, count, rc>>

\* A read fails, a frame does not decompress, or a write fails: an exception
\* that nobody catches.
Raise ==
    /\ at \in {"read", "write", "body"}
    /\ Exit(1)
    /\ UNCHANGED <<layout, request, asRoot, shard, todo, frames, next, bytes,
                   disk, locked, ignored, count>>

\* _write_records takes the members in the order of their names, so that a
\* directory comes before what is in it.
Turn(p) == p \in todo /\ \A q \in todo : p <= q
Blocked(p) == ~asRoot /\ \E d \in locked : p \in Below[d]

Done(p) ==
    /\ todo' = todo \ {p}
    /\ at' = IF todo = {p} THEN "next" ELSE "write"

WriteDirectory(p) ==
    /\ at = "write" /\ Turn(p) /\ layout[p].type = "d" /\ ~Blocked(p)
    /\ disk' = [disk EXCEPT ![p] = Put("d", "fast", <<>>)]
    /\ locked' = IF layout[p].readonly THEN locked \cup {p} ELSE locked
    /\ count' = count + 1
    /\ Done(p)
    /\ UNCHANGED <<layout, request, asRoot, shard, frames, next, bytes,
                   ignored, rc>>

WriteLink(p) ==
    /\ at = "write" /\ Turn(p) /\ layout[p].type = "l" /\ ~Blocked(p)
    /\ disk' = [disk EXCEPT ![p] = Put("l", "fast", <<>>)]
    /\ count' = count + 1
    /\ Done(p)
    /\ UNCHANGED <<layout, request, asRoot, shard, frames, next, bytes,
                   locked, ignored, rc>>

\* A hard link is counted apart and not written.
SkipHardLink(p) ==
    /\ at = "write" /\ Turn(p) /\ layout[p].type = "h"
    /\ Done(p)
    /\ UNCHANGED <<layout, request, asRoot, shard, frames, next, bytes, disk,
                   locked, ignored, count, rc>>

\* _slice_file_body within one frame, or the first of several.
SliceFirst(p) ==
    /\ at = "write" /\ Turn(p) /\ layout[p].type = "f"
    /\ LET m == layout[p]
           start == m.data_offset - FirstFrame(m) * FrameSize
       IN  /\ bytes' = IF m.size = 0 THEN <<>>
                       ELSE IF FirstFrame(m) = LastFrame(m)
                       THEN SubSeq(frames[FirstFrame(m)], start + 1,
                                   start + m.size)
                       ELSE SubSeq(frames[FirstFrame(m)], start + 1,
                                   Len(frames[FirstFrame(m)]))
           /\ next' = FirstFrame(m) + 1
    /\ at' = "body"
    /\ UNCHANGED <<layout, request, asRoot, shard, todo, frames, disk, locked,
                   ignored, count, rc>>

\* The frames between the first and the last one, whole.
SliceMiddle(p) ==
    /\ at = "body" /\ Turn(p) /\ next < LastFrame(layout[p])
    /\ bytes' = bytes \o frames[next]
    /\ next' = next + 1
    /\ UNCHANGED <<layout, request, at, asRoot, shard, todo, frames, disk,
                   locked, ignored, count, rc>>

\* Faulty variant of SliceLast: the last frame is taken whole.
SliceLastWhole(p) ==
    /\ at = "body" /\ Turn(p) /\ next = LastFrame(layout[p])
    /\ layout[p].size > 0
    /\ bytes' = bytes \o frames[next]
    /\ next' = next + 1
    /\ UNCHANGED <<layout, request, at, asRoot, shard, todo, frames, disk,
                   locked, ignored, count, rc>>

\* The beginning of the last one.
SliceLast(p) ==
    /\ at = "body" /\ Turn(p) /\ next = LastFrame(layout[p])
    /\ layout[p].size > 0
    /\ bytes' = bytes \o SubSeq(frames[next], 1,
                                End(layout[p]) - next * FrameSize)
    /\ next' = next + 1
    /\ UNCHANGED <<layout, request, at, asRoot, shard, todo, frames, disk,
                   locked, ignored, count, rc>>

WriteFile(p) ==
    /\ at = "body" /\ Turn(p) /\ ~Blocked(p)
    /\ layout[p].size = 0 \/ next > LastFrame(layout[p])
    /\ disk' = [disk EXCEPT ![p] = Put("f", "fast", bytes)]
    /\ count' = count + 1
    /\ Done(p)
    /\ UNCHANGED <<layout, request, asRoot, shard, frames, next, bytes,
                   locked, ignored, rc>>

\* What tar receives: everything, or, frame i being damaged, what comes before
\* that frame and perhaps the frame with its damage, before zstdcat gives up.
Damaged == 0 .. (Length - 1) \div FrameSize
Deliveries ==
    {[failed |-> FALSE, cut |-> Length, spoiled |-> {}]}
    \cup {[failed |-> TRUE, cut |-> i * FrameSize, spoiled |-> {}] :
              i \in Damaged}
    \cup {[failed |-> TRUE, cut |-> i * FrameSize + FrameLength(i),
           spoiled |-> {i}] : i \in Damaged}

\* A member as tar writes it from a delivery, -1 standing for a wrong byte.
FromTar(m, dl) ==
    Put(m.type, "tar",
        [k \in 1 .. (IF End(m) <= dl.cut THEN m.size
                     ELSE dl.cut - m.data_offset) |->
            IF (m.data_offset + k - 1) \div FrameSize \in dl.spoiled THEN -1
            ELSE m.data_offset + k - 1])

\* Faulty variant of TarFails: the status of zstdcat is never asked for.
TarFailsOnly(complaint, missing, dl) == complaint

\* What _extract_naive makes of the two exit codes and tar's diagnostics.
TarFails(complaint, missing, dl) == complaint \/ (~missing /\ dl.failed)

\* extract_files of the next shard through zstdcat and tar.  A pattern that
\* meets no member of this shard makes tar exit with 2 and a benign line.
ExtractNaive ==
    /\ at = "next" /\ shard < Shards
    /\ shard' = shard + 1
    /\ \E dl \in Deliveries, complains \in BOOLEAN :
         LET begun == {p \in InShard(shard + 1) :
                         layout[p].data_offset <= dl.cut}
             wanted == {p \in begun : \E pat \in request : TarMatches(p, pat)}
             missing == \E pat \in request :
                           \A p \in begun : ~TarMatches(p, pat)
             complaint == \/ complains
                          \/ \E p \in begun : End(layout[p]) > dl.cut
                          \/ \E p \in wanted : Blocked(p)
             written == {p \in wanted : ~Blocked(p)}
         IN  /\ disk' = [p \in Path |-> IF p \in written
                                        THEN FromTar(layout[p], dl)
                                        ELSE disk[p]]
             /\ locked' = locked \cup {p \in written : layout[p].readonly}
             /\ count' = count + Cardinality(written)
             /\ IF TarFails(complaint, missing, dl)
                THEN Exit(1) /\ UNCHANGED ignored
                ELSE /\ at' = "next"
                     /\ ignored' = IF dl.failed /\ missing
                                     THEN ignored \cup {shard + 1} ELSE ignored
                     /\ UNCHANGED rc
    /\ UNCHANGED <<layout, request, asRoot, todo, frames, next, bytes>>

Finish ==
    /\ at = "next" /\ shard = Shards
    /\ Exit(IF count = 0 THEN 1 ELSE 0)
    /\ UNCHANGED <<layout, request, asRoot, shard, todo, frames, next, bytes,
                   disk, locked, ignored, count>>

Next ==
    \/ PassPreflight \/ EscalateToHelper \/ Refuse
    \/ StartFast \/ ReadFrames \/ Raise \/ ExtractNaive \/ Finish
    \/ \E p \in Path : \/ WriteDirectory(p) \/ WriteLink(p) \/ SkipHardLink(p)
                       \/ SliceFirst(p) \/ SliceMiddle(p) \/ SliceLast(p)
                       \/ WriteFile(p)

Spec == Init /\ [][Next]_vars

-----------------------------------------------------------------------------
(* Properties *)

\* The types of the variables.
TypeOK ==
    /\ layout \in [Path -> Member] /\ request \in Requests
    /\ at \in {"preflight", "next", "read", "write", "body", "done"}
    /\ asRoot \in BOOLEAN /\ shard \in 0 .. Shards /\ todo \subseteq Path
    /\ next \in Nat /\ count \in Nat /\ rc \in {0, 1}
    /\ locked \subseteq Path /\ ignored \subseteq 1 .. Shards

\* A file the fast path has written holds the member's bytes, all of them, in
\* their order and nothing else, wherever it lies across frames, the last of
\* which may be short (_frames_needed, _slice_file_body).
WrittenIsMember ==
    \A p \in Path : disk[p].kind = "f" /\ disk[p].by = "fast"
                       => disk[p].bytes = Bytes(layout[p])

\* Every frame a slice is about to take has been read, though only ranges of
\* frames are (_coalesce_to_ranges, _read_and_decompress_frames).
FramesAreRead ==
    at \in {"write", "body"} =>
       \A p \in todo : \A i \in FramesNeeded(layout[p]) :
          i \in DOMAIN frames /\ frames[i] = Frame(i)

\* An extraction that exits with 0 has restored every member asked for, whole,
\* from whichever shard and by whichever path, but for two cases the code
\* knows: hard links on the fast path, and a shard whose zstdcat failed while
\* tar missed a pattern that another shard may hold.
SuccessIsWhole ==
    at = "done" /\ rc = 0 =>
       \A s \in (1 .. Shards) \ ignored : \A p \in Matched(s) :
          \/ layout[p].type = "h" /\ disk[p] = Absent
          \/ /\ disk[p].kind = layout[p].type
             /\ disk[p].bytes = Bytes(layout[p])

=============================================================================
