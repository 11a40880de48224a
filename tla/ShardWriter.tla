---------------------------- MODULE ShardWriter ----------------------------
(***************************************************************************)
(* The writing of one framed shard archive: pax.run_with_file_list, the    *)
(* frame thread it starts (framewriter.write_framed), the inline index     *)
(* thread (index.InlineIndexWriter) and the stderr pump                    *)
(* (pax._StderrCapture), around one external tar process.                  *)
(*                                                                         *)
(*   main thread --names--> tar --units--> frame thread --frames--> index  *)
(*                           \--diagnostics--> stderr pump                 *)
(*                                                                         *)
(* Every arrow is a bounded buffer.  The tar stream is a sequence of       *)
(* units: "part" ends inside a member, "whole" ends a member, "end" holds  *)
(* the end-of-archive marker and "pad" is tar's record padding after it.   *)
(* A frame is a sequence of at most FrameSize units; the index queue       *)
(* carries frame numbers, and Sentinel is _INDEX_SENTINEL.                 *)
(***************************************************************************)
EXTENDS Integers, Sequences, FiniteSets

CONSTANTS
    NFiles,      \* names the main thread feeds to tar
    PipeCap,     \* capacity of the stdin, stdout and stderr pipes
    QueueMax,    \* _INDEX_QUEUE_MAXSIZE
    FrameSize,   \* FRAME_SIZE, in units
    FlushEvery,  \* FLUSH_EVERY, in frames
    StderrKeep,  \* _PAX_STDERR_CAP, in diagnostics
    MaxFaults    \* bound on injected faults (I/O errors, a killed tar)

\* The end marker and its padding span at most two frames, so a queue of two
\* always has room for the trailing pad frame and the sentinel.
ASSUME ShardWriterAssumption ==
    /\ NFiles \in Nat
    /\ PipeCap \in Nat \ {0}
    /\ QueueMax \in Nat /\ QueueMax >= 2
    /\ FrameSize \in Nat \ {0}
    /\ FlushEvery \in Nat \ {0}
    /\ StderrKeep \in Nat
    /\ MaxFaults \in Nat

Unit == {"part", "whole", "end", "pad"}
Diag == {"changed", "vanished", "error"}
Benign == {"changed", "vanished"}
Sentinel == 0
Absent == -1
Signal == -1

MainPC == {"feed", "join", "wait", "capture", "returned", "raised"}
FramePC == {"open", "read", "feed", "flush", "finish", "abort", "joinok",
            "joinerr", "final", "unlink", "close", "closed"}
IndexPC == {"unborn", "start", "index", "close", "drain", "done"}

VARIABLES
    main,     \* run_with_file_list: where it is
    unfed,    \* names not written to tar's stdin yet
    names,    \* names in the stdin pipe
    tarRun,   \* the tar process is alive
    out,      \* units tar has still to write for the current name
    diags,    \* diagnostics tar has still to write
    rc,       \* tar's return code so far
    ended,    \* tar has generated the end-of-archive marker
    stdout,   \* units in tar's stdout pipe
    stderr,   \* diagnostics in tar's stderr pipe
    pumpRun,  \* the stderr pump is reading
    kept,     \* the diagnostics it kept, _StderrCapture._buf
    overflow, \* it dropped some, _StderrCapture._truncated
    frame,    \* write_framed: where it is
    buf,      \* units of the frame being read
    frames,   \* lengths of the frames, the in-memory `frames` list
    failed,   \* the frame thread ends with an exception
    built,    \* index_built
    archive,  \* frames on disk
    partial,  \* frame count in .frames.json.partial, or Absent
    final,    \* frame lengths in .frames.json
    framed,   \* .frames.json exists
    queue,    \* the index queue
    ix,       \* the index thread: where it is
    taken,    \* last frame it took off the queue
    ixError,  \* InlineIndexWriter._error is set
    eof,      \* it has read the sentinel
    tmp,      \* .idx.zst.tmp exists
    indexed,  \* .idx.zst exists
    sidecar,  \* the members it records
    faults    \* faults left to inject

mainVars == <<main, unfed, names>>
tarVars == <<tarRun, out, diags, rc, ended>>
pipeVars == <<stdout, stderr>>
pumpVars == <<pumpRun, kept, overflow>>
diskVars == <<archive, partial, final, framed>>
frameVars == <<frame, buf, frames, failed, built, diskVars>>
indexVars == <<ix, taken, ixError, eof, tmp, indexed, sidecar>>
vars == <<mainVars, tarVars, pipeVars, pumpVars, frameVars, queue, indexVars,
          faults>>

\* Positions <<frame, unit>> at which a member of the archive ends, over the
\* first n frames: the records an index of those frames holds.
Members(n) ==
    {p \in (1..n) \X (1..FrameSize) :
        p[2] \in DOMAIN archive[p[1]] /\ archive[p[1]][p[2]] = "whole"}

Holds(s, u) == \E i \in DOMAIN s : s[i] = u

Init ==
    /\ main = "feed" /\ unfed = NFiles /\ names = 0
    /\ tarRun = TRUE /\ out = <<>> /\ diags = <<>> /\ rc = 0 /\ ended = FALSE
    /\ stdout = <<>> /\ stderr = <<>>
    /\ pumpRun = TRUE /\ kept = <<>> /\ overflow = FALSE
    /\ frame = "open" /\ buf = <<>> /\ frames = <<>>
    /\ failed = FALSE /\ built = FALSE
    /\ archive = <<>> /\ partial = Absent /\ final = <<>> /\ framed = FALSE
    /\ queue = <<>>
    /\ ix = "unborn" /\ taken = 0 /\ ixError = FALSE /\ eof = FALSE
    /\ tmp = FALSE /\ indexed = FALSE /\ sidecar = {}
    /\ faults = MaxFaults

Fault == faults > 0 /\ faults' = faults - 1

-----------------------------------------------------------------------------
(* The main thread *)

\* Write one NUL-terminated name; the pipe blocks when it is full.
MainFeed ==
    /\ main = "feed" /\ unfed > 0 /\ names < PipeCap
    /\ unfed' = unfed - 1
    /\ names' = names + 1
    /\ UNCHANGED main

MainCloseStdin ==
    /\ main = "feed" /\ unfed = 0
    /\ main' = "join"
    /\ UNCHANGED <<unfed, names>>

\* BrokenPipeError out of write or close once tar is gone; the other threads
\* are not daemons and run on.
MainBrokenPipe ==
    /\ main = "feed" /\ ~tarRun
    /\ main' = "raised"
    /\ UNCHANGED <<unfed, names>>

\* ft.join(), pax.wait(), capture.join(), then the frame thread's exception
\* or the result.
MainJoin ==
    /\ \/ main = "join" /\ frame = "closed" /\ main' = "wait"
       \/ main = "wait" /\ ~tarRun /\ main' = "capture"
       \/ /\ main = "capture" /\ ~pumpRun
          /\ main' = IF failed THEN "raised" ELSE "returned"
    /\ UNCHANGED <<unfed, names>>

-----------------------------------------------------------------------------
(* The tar process *)

\* Read a name: archive the member in one or two units, warn that it changed
\* meanwhile, or skip it with a diagnostic.  A warning alone exits with 1.
TarTake ==
    /\ tarRun /\ out = <<>> /\ diags = <<>> /\ names > 0
    /\ names' = names - 1
    /\ \/ out' \in {<<"whole">>, <<"part", "whole">>} /\ UNCHANGED <<diags, rc>>
       \/ /\ out' = <<"whole">> /\ diags' = <<"changed">>
          /\ rc' = IF rc = 0 THEN 1 ELSE rc
       \/ /\ diags' \in {<<"vanished">>, <<"error">>}
          /\ rc' = 2
          /\ UNCHANGED out
    /\ UNCHANGED <<tarRun, ended, pipeVars, faults>>

Die(code) ==
    /\ tarRun' = FALSE /\ out' = <<>> /\ diags' = <<>> /\ rc' = code
    /\ UNCHANGED ended

\* A write to a pipe whose reader is closed is a SIGPIPE.
TarWriteOut ==
    /\ tarRun /\ out # <<>>
    /\ \/ /\ frame # "closed" /\ Len(stdout) < PipeCap
          /\ stdout' = Append(stdout, Head(out))
          /\ out' = Tail(out)
          /\ UNCHANGED <<tarRun, diags, rc, ended>>
       \/ frame = "closed" /\ Die(Signal) /\ UNCHANGED stdout
    /\ UNCHANGED <<names, stderr, faults>>

TarWriteErr ==
    /\ tarRun /\ diags # <<>>
    /\ \/ /\ pumpRun /\ Len(stderr) < PipeCap
          /\ stderr' = Append(stderr, Head(diags))
          /\ diags' = Tail(diags)
          /\ UNCHANGED <<tarRun, out, rc, ended>>
       \/ ~pumpRun /\ Die(Signal) /\ UNCHANGED stderr
    /\ UNCHANGED <<names, stdout, faults>>

\* End of the names: the end marker, with or without padding beyond it.
TarEnd ==
    /\ tarRun /\ ~ended /\ main # "feed" /\ names = 0
    /\ out = <<>> /\ diags = <<>>
    /\ out' \in {<<"end">>, <<"end", "pad">>}
    /\ ended' = TRUE
    /\ UNCHANGED <<names, tarRun, diags, rc, pipeVars, faults>>

TarExit ==
    /\ tarRun /\ ended /\ out = <<>>
    /\ Die(rc)
    /\ UNCHANGED <<names, pipeVars, faults>>

TarKilled ==
    /\ tarRun /\ Fault
    /\ Die(Signal)
    /\ UNCHANGED <<names, pipeVars>>

-----------------------------------------------------------------------------
(* The stderr pump *)

PumpRead ==
    /\ pumpRun /\ stderr # <<>>
    /\ stderr' = Tail(stderr)
    /\ \/ /\ Len(kept) < StderrKeep
          /\ kept' = Append(kept, Head(stderr))
          /\ UNCHANGED overflow
       \/ Len(kept) >= StderrKeep /\ overflow' = TRUE /\ UNCHANGED kept
    /\ UNCHANGED <<stdout, pumpRun, faults>>

\* End of file, or the run log cannot be written: the pipe is closed.
PumpStop ==
    /\ pumpRun
    /\ \/ stderr = <<>> /\ ~tarRun /\ UNCHANGED faults
       \/ Fault
    /\ pumpRun' = FALSE
    /\ UNCHANGED <<pipeVars, kept, overflow>>

-----------------------------------------------------------------------------
(* The frame thread *)

\* Faulty variant of StdoutEof: tar's exit is taken for the end of its output.
StdoutEofByExit == ~tarRun

StdoutEof == stdout = <<>> /\ ~tarRun

\* index_writer.start(), then open the archive.
FrameOpen ==
    /\ frame = "open"
    /\ ix' = "start"
    /\ \/ frame' = "read" /\ UNCHANGED faults
       \/ frame' = "abort" /\ Fault
    /\ UNCHANGED <<stdout, buf, frames, failed, built, diskVars, queue, taken,
                   ixError, eof, tmp, indexed, sidecar>>

\* _read_full: loop over short reads until the frame is full or the stream
\* ends.
FrameRead ==
    /\ frame = "read" /\ Len(buf) < FrameSize /\ stdout # <<>>
    /\ buf' = Append(buf, Head(stdout))
    /\ stdout' = Tail(stdout)
    /\ UNCHANGED <<frame, frames, failed, built, diskVars, queue, indexVars,
                   faults>>

\* Faulty variant of FrameWrite: one read() instead of _read_full's loop.
FrameWriteShort ==
    /\ frame = "read" /\ buf # <<>>
    /\ frames' = Append(frames, Len(buf))
    /\ buf' = <<>>
    /\ frame' = "feed"
    /\ archive' = Append(archive, buf)
    /\ UNCHANGED <<stdout, failed, built, partial, final, framed, queue,
                   indexVars, faults>>

\* Compress the chunk, record the frame, write it.
FrameWrite ==
    /\ frame = "read"
    /\ Len(buf) = FrameSize \/ (buf # <<>> /\ StdoutEof)
    /\ frames' = Append(frames, Len(buf))
    /\ buf' = <<>>
    /\ \/ frame' = "feed" /\ archive' = Append(archive, buf) /\ UNCHANGED faults
       \/ frame' = "abort" /\ UNCHANGED archive /\ Fault
    /\ UNCHANGED <<stdout, failed, built, partial, final, framed, queue,
                   indexVars>>

\* Faulty variant of FrameFeed: the queue has no maxsize.
FrameFeedUnbounded ==
    /\ frame = "feed"
    /\ queue' = Append(queue, Len(frames))
    /\ frame' = IF Len(frames) % FlushEvery = 0 THEN "flush" ELSE "read"
    /\ UNCHANGED <<stdout, buf, frames, failed, built, diskVars, indexVars,
                   faults>>

\* Faulty variant of FrameFeed: the flush is one frame early.
FrameFeedEarlyFlush ==
    /\ frame = "feed" /\ Len(queue) < QueueMax
    /\ queue' = Append(queue, Len(frames))
    /\ frame' = IF (Len(frames) + 1) % FlushEvery = 0 THEN "flush" ELSE "read"
    /\ UNCHANGED <<stdout, buf, frames, failed, built, diskVars, indexVars,
                   faults>>

\* index_writer.feed(chunk): blocks while the queue is full.
FrameFeed ==
    /\ frame = "feed" /\ Len(queue) < QueueMax
    /\ queue' = Append(queue, Len(frames))
    /\ frame' = IF Len(frames) % FlushEvery = 0 THEN "flush" ELSE "read"
    /\ UNCHANGED <<stdout, buf, frames, failed, built, diskVars, indexVars,
                   faults>>

\* The partial sidecar, every FlushEvery frames.
FrameFlush ==
    /\ frame = "flush"
    /\ \/ frame' = "read" /\ partial' = Len(frames) /\ UNCHANGED faults
       \/ frame' = "abort" /\ UNCHANGED partial /\ Fault
    /\ UNCHANGED <<stdout, buf, frames, failed, built, archive, final, framed,
                   queue, indexVars>>

\* End of the stream: flush and fsync the archive.
FrameSync ==
    /\ frame = "read" /\ buf = <<>> /\ StdoutEof
    /\ \/ frame' = "finish" /\ UNCHANGED faults
       \/ frame' = "abort" /\ Fault
    /\ UNCHANGED <<stdout, buf, frames, failed, built, diskVars, queue,
                   indexVars>>

\* finish() and abort() put the sentinel and join the index thread.
FrameSentinel ==
    /\ frame \in {"finish", "abort"} /\ Len(queue) < QueueMax
    /\ queue' = Append(queue, Sentinel)
    /\ frame' = IF frame = "finish" THEN "joinok" ELSE "joinerr"
    /\ UNCHANGED <<stdout, buf, frames, failed, built, diskVars, indexVars,
                   faults>>

FrameJoin ==
    /\ ix = "done"
    /\ \/ /\ frame = "joinok" /\ frame' = "final"
          /\ built' = ~ixError
          /\ UNCHANGED failed
       \/ /\ frame = "joinerr" /\ frame' = "close"
          /\ failed' = TRUE
          /\ UNCHANGED built
    /\ UNCHANGED <<stdout, buf, frames, diskVars, queue, indexVars, faults>>

\* The final frames.json replaces the staging file atomically.
FrameFinal ==
    /\ frame = "final"
    /\ \/ /\ frame' = "unlink" /\ final' = frames /\ framed' = TRUE
          /\ UNCHANGED <<failed, faults>>
       \/ /\ frame' = "close" /\ failed' = TRUE /\ Fault
          /\ UNCHANGED <<final, framed>>
    /\ UNCHANGED <<stdout, buf, frames, built, archive, partial, queue,
                   indexVars>>

FrameUnlink ==
    /\ frame = "unlink"
    /\ frame' = "close"
    /\ partial' = Absent
    /\ UNCHANGED <<stdout, buf, frames, failed, built, archive, final, framed,
                   queue, indexVars, faults>>

\* The thread's `finally: pax.stdout.close()`; what is left in the pipe is
\* lost.
FrameClose ==
    /\ frame = "close"
    /\ frame' = "closed"
    /\ stdout' = <<>>
    /\ UNCHANGED <<buf, frames, failed, built, diskVars, queue, indexVars,
                   faults>>

-----------------------------------------------------------------------------
(* The index thread *)

\* Faulty variants of IndexError: the error is not kept for finish(), or the
\* thread returns without draining.
IndexErrorSwallowed ==
    /\ ix' = "drain" /\ tmp' = FALSE
    /\ UNCHANGED <<taken, ixError, indexed, sidecar>>

IndexErrorNoDrain ==
    /\ ix' = "done" /\ ixError' = TRUE /\ tmp' = FALSE
    /\ UNCHANGED <<taken, indexed, sidecar>>

\* The except clause of _run: unlink the temporary file, then drain.
IndexError ==
    /\ ix' = "drain" /\ ixError' = TRUE /\ tmp' = FALSE
    /\ UNCHANGED <<taken, indexed, sidecar>>

IndexStart ==
    /\ ix = "start"
    /\ ix' = "index"
    /\ tmp' = TRUE
    /\ UNCHANGED <<queue, taken, ixError, eof, indexed, sidecar, faults>>

\* tarfile pulls the next frame through _QueueReader; it stops reading at the
\* end-of-archive marker, whatever the queue still holds.
IndexTake ==
    /\ ix = "index" /\ queue # <<>> /\ Head(queue) # Sentinel
    /\ queue' = Tail(queue)
    /\ taken' = Head(queue)
    /\ ix' = IF Holds(archive[Head(queue)], "end") THEN "close" ELSE "index"
    /\ UNCHANGED <<ixError, eof, tmp, indexed, sidecar, faults>>

\* tarfile accepts a stream that ends on a member boundary and raises
\* ReadError on an empty or a cut one.
AtBoundary ==
    /\ taken > 0
    /\ archive[taken][Len(archive[taken])] = "whole"

\* _QueueReader reads the sentinel: end of file.
IndexEof ==
    /\ ix = "index" /\ queue # <<>> /\ Head(queue) = Sentinel
    /\ queue' = Tail(queue)
    /\ eof' = TRUE
    /\ \/ /\ AtBoundary /\ ix' = "close"
          /\ UNCHANGED <<taken, ixError, tmp, indexed, sidecar>>
       \/ ~AtBoundary /\ IndexError
    /\ UNCHANGED faults

\* mkdir, open, a write, a bad header or the rename fails.
IndexFail ==
    /\ ix \in {"start", "index", "close"} /\ Fault
    /\ IndexError
    /\ UNCHANGED <<queue, eof>>

\* os.replace(tmp, sidecar)
IndexCommit ==
    /\ ix = "close"
    /\ ix' = "done"
    /\ tmp' = FALSE
    /\ indexed' = TRUE
    /\ sidecar' = Members(taken)
    /\ UNCHANGED <<queue, taken, ixError, eof, faults>>

\* _drain: discard until the sentinel.
IndexDrain ==
    /\ ix = "drain" /\ queue # <<>>
    /\ queue' = Tail(queue)
    /\ IF Head(queue) = Sentinel
       THEN ix' = "done" /\ eof' = TRUE
       ELSE UNCHANGED <<ix, eof>>
    /\ UNCHANGED <<taken, ixError, tmp, indexed, sidecar, faults>>

-----------------------------------------------------------------------------
MainNext ==
    /\ MainFeed \/ MainCloseStdin \/ MainBrokenPipe \/ MainJoin
    /\ UNCHANGED <<tarVars, pipeVars, pumpVars, frameVars, queue, indexVars,
                   faults>>

TarNext ==
    /\ \/ TarTake \/ TarWriteOut \/ TarWriteErr \/ TarEnd \/ TarExit
       \/ TarKilled
    /\ UNCHANGED <<main, unfed, pumpVars, frameVars, queue, indexVars>>

PumpNext ==
    /\ PumpRead \/ PumpStop
    /\ UNCHANGED <<mainVars, tarVars, stdout, frameVars, queue, indexVars>>

FrameNext ==
    /\ \/ FrameOpen \/ FrameRead \/ FrameWrite \/ FrameFeed \/ FrameFlush
       \/ FrameSync \/ FrameSentinel \/ FrameJoin \/ FrameFinal
       \/ FrameUnlink \/ FrameClose
    /\ UNCHANGED <<mainVars, tarVars, stderr, pumpVars>>

IndexNext ==
    /\ \/ IndexStart \/ IndexTake \/ IndexEof \/ IndexFail \/ IndexCommit
       \/ IndexDrain
    /\ UNCHANGED <<mainVars, tarVars, pipeVars, pumpVars, frameVars>>

Next == MainNext \/ TarNext \/ PumpNext \/ FrameNext \/ IndexNext

Spec == Init /\ [][Next]_vars

\* Each thread and tar are scheduled; a fault is never owed, and since a
\* fault uses up `faults` a process cannot live on faults alone.
FairSpec ==
    /\ Spec
    /\ WF_vars(MainNext) /\ WF_vars(TarNext) /\ WF_vars(PumpNext)
    /\ WF_vars(FrameNext) /\ WF_vars(IndexNext)
-----------------------------------------------------------------------------
ProcTypeOK ==
    /\ main \in MainPC /\ unfed \in 0..NFiles /\ names \in 0..PipeCap
    /\ out \in Seq(Unit) /\ diags \in Seq(Diag)
    /\ rc \in {Signal, 0, 1, 2}
    /\ stdout \in Seq(Unit) /\ Len(stdout) <= PipeCap
    /\ stderr \in Seq(Diag) /\ Len(stderr) <= PipeCap
    /\ kept \in Seq(Diag) /\ Len(kept) <= StderrKeep
    /\ faults \in 0..MaxFaults

FrameTypeOK ==
    /\ frame \in FramePC
    /\ buf \in Seq(Unit) /\ Len(buf) <= FrameSize
    /\ frames \in Seq(1..FrameSize)
    /\ archive \in Seq(Seq(Unit))
    /\ partial \in Nat \cup {Absent}
    /\ final \in Seq(1..FrameSize)

IndexTypeOK ==
    /\ queue \in Seq(Nat) /\ Len(queue) <= QueueMax
    /\ ix \in IndexPC
    /\ taken \in Nat
    /\ sidecar \in SUBSET (Nat \X Nat)

FlagTypeOK ==
    /\ tarRun \in BOOLEAN /\ ended \in BOOLEAN
    /\ pumpRun \in BOOLEAN /\ overflow \in BOOLEAN
    /\ failed \in BOOLEAN /\ built \in BOOLEAN /\ framed \in BOOLEAN
    /\ ixError \in BOOLEAN /\ eof \in BOOLEAN
    /\ tmp \in BOOLEAN /\ indexed \in BOOLEAN

TypeOK == ProcTypeOK /\ FrameTypeOK /\ IndexTypeOK /\ FlagTypeOK

\* An index reported as built records exactly the members in the archive on
\* disk, even when tar died, the stream was cut between two members, or the
\* thread stopped at the end marker with frames still queued (write_framed's
\* index_built and InlineIndexWriter.finish).
BuiltIndexIsComplete ==
    built => indexed /\ sidecar = Members(Len(archive))

\* A final .frames.json describes the archive frame for frame, and every
\* frame but the last is exactly FrameSize long, so that a byte offset can be
\* turned into a frame by division (write_framed, _read_full).
FinalDescribesArchive ==
    framed =>
        /\ Len(final) = Len(archive)
        /\ \A i \in 1..Len(final) : final[i] = Len(archive[i])
        /\ \A i \in 1..(Len(final) - 1) : final[i] = FrameSize

\* A crash at any moment leaves a partial sidecar that stops at a flush
\* boundary and lags the archive by at most one flush interval; no partial
\* ever describes a frame that is not on disk.
PartialCoversFlushed ==
    /\ partial # Absent =>
         /\ partial % FlushEvery = 0
         /\ partial <= Len(archive)
    /\ frame \in {"read", "feed", "flush"} =>
         Len(archive) - (IF partial = Absent THEN 0 ELSE partial)
            <= FlushEvery

\* A run that returns "ok" stored the whole stream: the end marker is on
\* disk.  (A tar killed by a signal returns a negative code.)
OkIsWhole ==
    (main = "returned" /\ rc >= 0) =>
        \E i \in DOMAIN archive : Holds(archive[i], "end")

\* The index thread has read the sentinel and is waiting for another one.
SentinelSpent == ix = "drain" /\ eof

Finished ==
    /\ main \in {"returned", "raised"} /\ frame = "closed"
    /\ ix = "done" /\ ~tarRun /\ ~pumpRun

\* No buffer ever locks the threads against one another: unless the index
\* thread has failed on a cut stream (SentinelSpent), every run ends whatever
\* pipe or queue fills up and whichever thread or process fails.
RunEnds == []~SentinelSpent => <>Finished

=============================================================================
