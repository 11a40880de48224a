-------------------------- MODULE ShardWriterProofs --------------------------
(***************************************************************************)
(* Proofs about ShardWriter for every number of names, pipe, frame and     *)
(* queue capacity, flush interval and number of faults.                    *)
(*                                                                         *)
(* The inductive invariant IInv has five parts beside the types: nothing   *)
(* but padding follows the end marker along tar -> archive (EndIsLast),    *)
(* the index queue carries the frames in order with none missing           *)
(* (QueueInOrder), what the index has covered when it closes (IndexCovers),*)
(* the in-memory frame list matches the disk (FramesMatch) and the end     *)
(* marker is never lost on a path to success (EndKept).  How far the       *)
(* partial list may be behind is an invariant of its own (Lag).            *)
(***************************************************************************)
EXTENDS ShardWriter, TLAPS, SequenceTheorems

Padding(s) == \A i \in DOMAIN s : s[i] = "pad"

\* A stretch of the stream in which only padding follows an end marker.
PadsAfterEnd(s) ==
    \A i, j \in DOMAIN s : (s[i] = "end" /\ i < j) => s[j] = "pad"

EndOnDisk == \E i \in DOMAIN archive : Holds(archive[i], "end")

\* Along archive, frame buffer, pipe and tar, only padding follows the end
\* marker, and tar generates it after the last name.
EndIsLast ==
    /\ \A i, j \in DOMAIN archive : (Holds(archive[i], "end") /\ i < j)
         => Padding(archive[j])
    /\ EndOnDisk => Padding(buf)
    /\ (EndOnDisk \/ Holds(buf, "end")) => Padding(stdout)
    /\ PadsAfterEnd(stdout)
    /\ (EndOnDisk \/ Holds(buf, "end") \/ Holds(stdout, "end"))
         => Padding(out)
    /\ PadsAfterEnd(out)
    /\ (EndOnDisk \/ Holds(buf, "end") \/ Holds(stdout, "end")
         \/ Holds(out, "end")) => ended
    /\ ended => main # "feed" /\ names = 0

SentinelSent ==
    frame \in {"joinok", "joinerr", "final", "unlink", "close", "closed"}

\* Frames put on the index queue so far.
Fed == IF frame = "feed" THEN Len(archive) - 1 ELSE Len(archive)
IndexLive == ix \in {"unborn", "start", "index"}
Writing == frame \in {"open", "read", "feed", "flush"}

\* While the index thread is still reading, the queue holds exactly the frames
\* written and not taken yet, in order, then the sentinel.
QueueInOrder ==
    /\ frame = "open" => ix = "unborn"
    /\ frame = "feed" => archive # <<>>
    /\ Writing => Len(frames) = Len(archive)
    /\ IndexLive =>
         /\ Len(queue) = Fed - taken + (IF SentinelSent THEN 1 ELSE 0)
         /\ \A i \in 1..(Fed - taken) : queue[i] = taken + i
         /\ SentinelSent => queue[Len(queue)] = Sentinel
         /\ taken <= Fed

\* What the index has seen contains the end marker or is the whole archive.
Covered ==
    /\ taken <= Fed
    /\ \/ taken > 0 /\ Holds(archive[taken], "end")
       \/ SentinelSent /\ taken = Len(archive)

\* An index thread that closes without an error has covered the archive.
IndexCovers ==
    /\ ix = "drain" => ixError
    /\ ix = "close" => Covered
    /\ (ix = "done" /\ ~ixError) =>
         Covered /\ indexed /\ sidecar = Members(taken)
    /\ built => ix = "done" /\ ~ixError /\ SentinelSent

Intact == Writing \/ frame \in {"finish", "joinok", "final"}

\* Until it aborts, the frame thread's list describes the archive; a short
\* frame is the last, because the stream has ended behind it.
FramesMatch ==
    /\ Intact =>
         /\ Len(frames) = Len(archive)
         /\ \A i \in 1..Len(archive) : frames[i] = Len(archive[i])
         /\ \A i \in 1..(Len(archive) - 1) : frames[i] = FrameSize
         /\ archive = <<>> \/ frames[Len(archive)] = FrameSize
              \/ (StdoutEof /\ buf = <<>>)
    /\ framed =>
         frame \in {"unlink", "close", "closed"} /\ FinalDescribesArchive

\* The frame thread has seen the end of the stream and did not fail.
Drained ==
    \/ frame \in {"finish", "joinok", "final", "unlink"}
    \/ frame \in {"close", "closed"} /\ ~failed
Aborted == frame \in {"abort", "joinerr"} \/ failed

\* The end marker a live or cleanly exited tar has generated is somewhere
\* between tar and the disk, unless the frame thread has given up.
EndKept ==
    /\ tarRun => rc # Signal
    /\ (~tarRun /\ rc # Signal) => ended /\ out = <<>>
    /\ main \in {"wait", "capture", "returned"} => frame = "closed"
    /\ main \in {"capture", "returned"} => ~tarRun
    /\ main = "returned" => ~failed
    /\ failed => frame \in {"close", "closed"}
    /\ Drained => StdoutEof /\ buf = <<>>
    /\ (ended /\ rc # Signal /\ ~Aborted) =>
         EndOnDisk \/ Holds(buf, "end") \/ Holds(stdout, "end")
           \/ Holds(out, "end")

IInv ==
    /\ TypeOK
    /\ EndIsLast /\ QueueInOrder /\ IndexCovers /\ FramesMatch /\ EndKept

-----------------------------------------------------------------------------
(* Sequences *)

\* The types and lengths of what Head, Tail and Append return.
LEMMA SeqFacts ==
  ASSUME NEW S
  PROVE  /\ <<>> \in Seq(S)
         /\ \A e \in S : <<e>> \in Seq(S) /\ Len(<<e>>) = 1
         /\ \A s \in Seq(S) : s # <<>> => 
              Head(s) \in S /\ Tail(s) \in Seq(S) /\ Len(s) > 0
                /\ Len(Tail(s)) = Len(s) - 1
         /\ \A s \in Seq(S), e \in S :
              Append(s, e) \in Seq(S) /\ Len(Append(s, e)) = Len(s) + 1
BY EmptySeq, HeadTailProperties, AppendProperties

\* What leaves a stream of units: its head, and a tail that keeps its shape.
LEMMA TailFacts ==
  ASSUME NEW s \in Seq(Unit), s # <<>>
  PROVE  /\ Holds(s, Head(s))
         /\ \A u : Holds(Tail(s), u) => Holds(s, u)
         /\ \A u : Holds(s, u) => u = Head(s) \/ Holds(Tail(s), u)
         /\ Padding(s) => Head(s) = "pad" /\ Padding(Tail(s))
         /\ PadsAfterEnd(s) => /\ PadsAfterEnd(Tail(s))
                               /\ Head(s) = "end" => Padding(Tail(s))
<1>1. /\ Tail(s) \in Seq(Unit) /\ Len(Tail(s)) = Len(s) - 1 /\ Len(s) > 0
      /\ \A i \in 1..Len(Tail(s)) : Tail(s)[i] = s[i+1]
      /\ Head(s) = s[1]
  BY HeadTailProperties
<1>2. DOMAIN s = 1..Len(s) /\ DOMAIN Tail(s) = 1..Len(Tail(s))
  BY <1>1
<1>3. Holds(s, Head(s))
  BY <1>1, <1>2 DEF Holds
<1>4. ASSUME NEW u, Holds(Tail(s), u) PROVE Holds(s, u)
  BY <1>1, <1>2, <1>4 DEF Holds
<1>5. ASSUME Padding(s) PROVE Head(s) = "pad" /\ Padding(Tail(s))
  BY <1>1, <1>2, <1>5 DEF Padding
<1>6. ASSUME PadsAfterEnd(s)
      PROVE PadsAfterEnd(Tail(s)) /\ (Head(s) = "end" => Padding(Tail(s)))
  BY <1>1, <1>2, <1>6 DEF Padding, PadsAfterEnd
<1>7. ASSUME NEW u, Holds(s, u) PROVE u = Head(s) \/ Holds(Tail(s), u)
  <2>1. PICK i \in 1..Len(s) : s[i] = u
    BY <1>2, <1>7 DEF Holds
  <2>2. i = 1 \/ (i - 1 \in 1..Len(Tail(s)) /\ Tail(s)[i - 1] = u)
    BY <1>1, <2>1
  <2> QED BY <1>1, <1>2, <2>1, <2>2 DEF Holds
<1> QED BY <1>3, <1>4, <1>5, <1>6, <1>7

\* What joins a stream of units.
LEMMA AppendFacts ==
  ASSUME NEW s \in Seq(Unit), NEW e \in Unit
  PROVE  /\ \A u : Holds(Append(s, e), u) <=> Holds(s, u) \/ e = u
         /\ Padding(s) /\ e = "pad" => Padding(Append(s, e))
         /\ PadsAfterEnd(s) /\ (Holds(s, "end") => e = "pad")
              => PadsAfterEnd(Append(s, e))
<1>1. /\ Append(s, e) \in Seq(Unit) /\ Len(Append(s, e)) = Len(s) + 1
      /\ \A i \in 1..Len(s) : Append(s, e)[i] = s[i]
      /\ Append(s, e)[Len(s) + 1] = e
  BY AppendProperties
<1>2. DOMAIN s = 1..Len(s) /\ DOMAIN Append(s, e) = 1..(Len(s) + 1)
  BY <1>1
<1>3. ASSUME NEW u PROVE Holds(Append(s, e), u) <=> Holds(s, u) \/ e = u
  BY <1>1, <1>2 DEF Holds
<1>4. ASSUME Padding(s), e = "pad" PROVE Padding(Append(s, e))
  BY <1>1, <1>2, <1>4 DEF Padding
<1>5. ASSUME PadsAfterEnd(s), Holds(s, "end") => e = "pad"
      PROVE PadsAfterEnd(Append(s, e))
  BY <1>1, <1>2, <1>5 DEF Holds, PadsAfterEnd
<1> QED BY <1>3, <1>4, <1>5

\* Streams without an end marker, and those tar ends with.
LEMMA NoEnd ==
  /\ Padding(<<>>) /\ PadsAfterEnd(<<>>) /\ \A u : ~Holds(<<>>, u)
  /\ \A s \in Seq(Unit) : ~Holds(s, "end") => PadsAfterEnd(s)
  /\ ~Holds(<<"whole">>, "end") /\ ~Holds(<<"part", "whole">>, "end")
  /\ PadsAfterEnd(<<"end">>) /\ PadsAfterEnd(<<"end", "pad">>)
<1>1. Padding(<<>>) /\ PadsAfterEnd(<<>>) /\ \A u : ~Holds(<<>>, u)
  BY DEF Padding, PadsAfterEnd, Holds
<1>2. \A s \in Seq(Unit) : ~Holds(s, "end") => PadsAfterEnd(s)
  BY DEF PadsAfterEnd, Holds
<1>3. ~Holds(<<"whole">>, "end") /\ ~Holds(<<"part", "whole">>, "end")
  BY DEF Holds
<1>4. PadsAfterEnd(<<"end">>) /\ PadsAfterEnd(<<"end", "pad">>)
  BY DEF PadsAfterEnd
<1> QED BY <1>1, <1>2, <1>3, <1>4

-----------------------------------------------------------------------------
(* Types *)

\* The initial state is well typed.
LEMMA InitTypes == Init => TypeOK
<1> SUFFICES ASSUME Init PROVE TypeOK
  OBVIOUS
<1> USE ShardWriterAssumption DEF Init
<1>1. ProcTypeOK
  BY DEF ProcTypeOK, MainPC, Unit, Diag, Signal
<1>2. FrameTypeOK
  BY DEF FrameTypeOK, FramePC, Unit, Absent
<1>3. IndexTypeOK
  BY DEF IndexTypeOK, IndexPC
<1>4. FlagTypeOK
  BY Zenon DEF FlagTypeOK
<1> QED BY <1>1, <1>2, <1>3, <1>4 DEF TypeOK

\* Main thread, tar, pump and pipes keep their types and capacities.
LEMMA ProcTypes == TypeOK /\ [Next]_vars => ProcTypeOK'
<1> SUFFICES ASSUME TypeOK, [Next]_vars PROVE ProcTypeOK'
  OBVIOUS
<1> USE ShardWriterAssumption DEF TypeOK, ProcTypeOK, Fault
<1>2. CASE TarNext
  <2> USE <1>2 DEF pipeVars, pumpVars
  <2>1. CASE TarTake
    <3>1. rc' \in {Signal, 0, 1, 2} /\ names' \in 0..PipeCap
      BY <2>1 DEF TarTake
    <3>2. out' \in Seq(Unit)
      <4>1. <<"whole">> \in Seq(Unit) /\ <<"part", "whole">> \in Seq(Unit)
        BY DEF Unit
      <4> QED BY <2>1, <4>1 DEF TarTake
    <3>3. diags' \in Seq(Diag)
      <4>1. \A d \in {"changed", "vanished", "error"} : <<d>> \in Seq(Diag)
        BY DEF Diag
      <4> QED BY <2>1, <4>1 DEF TarTake
    <3> QED BY <2>1, <3>1, <3>2, <3>3 DEF TarNext, TarTake
  <2>2. CASE TarWriteOut
    <3>1. out' \in Seq(Unit) /\ stdout' \in Seq(Unit)
            /\ Len(stdout') <= PipeCap
      <4>1. CASE out' = <<>> /\ stdout' = stdout
        BY <4>1, SeqFacts
      <4>2. CASE /\ Len(stdout) < PipeCap /\ out # <<>>
                 /\ out' = Tail(out) /\ stdout' = Append(stdout, Head(out))
        BY <4>2, SeqFacts
      <4> QED BY <2>2, <4>1, <4>2 DEF TarWriteOut, Die
    <3>2. diags' \in Seq(Diag) /\ rc' \in {Signal, 0, 1, 2}
      BY <2>2, SeqFacts DEF TarWriteOut, Die
    <3> QED BY <2>2, <3>1, <3>2 DEF TarNext, TarWriteOut
  <2>3. CASE TarWriteErr
    <3>1. diags' \in Seq(Diag) /\ stderr' \in Seq(Diag)
            /\ Len(stderr') <= PipeCap
      <4>1. CASE diags' = <<>> /\ stderr' = stderr
        BY <4>1, SeqFacts
      <4>2. CASE /\ Len(stderr) < PipeCap /\ diags # <<>>
                 /\ diags' = Tail(diags)
                      /\ stderr' = Append(stderr, Head(diags))
        BY <4>2, SeqFacts
      <4> QED BY <2>3, <4>1, <4>2 DEF TarWriteErr, Die
    <3>2. out' \in Seq(Unit) /\ rc' \in {Signal, 0, 1, 2}
      BY <2>3, SeqFacts DEF TarWriteErr, Die
    <3> QED BY <2>3, <3>1, <3>2 DEF TarNext, TarWriteErr
  <2>4. CASE TarEnd
    <3>1. <<"end">> \in Seq(Unit) /\ <<"end", "pad">> \in Seq(Unit)
      BY DEF Unit
    <3> QED BY <2>4, <3>1 DEF TarNext, TarEnd
  <2>5. CASE TarExit
    BY <2>5 DEF TarNext, TarExit, Die
  <2>6. CASE TarKilled
    BY <2>6 DEF TarNext, TarKilled, Die, Signal
  <2> QED BY <2>1, <2>2, <2>3, <2>4, <2>5, <2>6 DEF TarNext
<1>3. CASE PumpNext
  <2> USE <1>3 DEF PumpNext, mainVars, tarVars, pipeVars
  <2>1. CASE PumpRead
    <3>1. stderr' \in Seq(Diag) /\ Len(stderr') <= PipeCap
      <4>1. stderr # <<>> /\ stderr' = Tail(stderr)
        BY <2>1 DEF PumpRead
      <4> QED BY <4>1, SeqFacts
    <3>2. kept' \in Seq(Diag) /\ Len(kept') <= StderrKeep
      <4>1. CASE kept' = kept
        BY <4>1
      <4>2. CASE /\ stderr # <<>> /\ Len(kept) < StderrKeep
                 /\ kept' = Append(kept, Head(stderr))
        BY <4>2, SeqFacts
      <4> QED BY <2>1, <4>1, <4>2 DEF PumpRead
    <3> QED BY <2>1, <3>1, <3>2 DEF PumpRead
  <2>2. CASE PumpStop
    BY <2>2 DEF PumpStop
  <2> QED BY <2>1, <2>2
<1>4. CASE FrameNext
  <2>1. stdout' \in Seq(Unit) /\ Len(stdout') <= PipeCap
          /\ faults' \in 0..MaxFaults
   <3>1. CASE FrameClose
     BY <3>1, <1>4, SeqFacts DEF FrameClose
   <3>2. CASE FrameRead
     BY <3>2, <1>4, SeqFacts DEF FrameRead
   <3> QED
    BY <1>4, <3>1, <3>2, SeqFacts DEF FrameNext, FrameOpen, FrameWrite,
     FrameFeed, FrameFlush, FrameSync, FrameSentinel, FrameJoin,
       FrameFinal, FrameUnlink
  <2> QED BY <1>4, <2>1 DEF FrameNext, mainVars, tarVars, pumpVars
<1>1. CASE MainNext
  BY <1>1 DEF MainNext, MainFeed, MainCloseStdin, MainBrokenPipe, MainJoin,
     MainPC, tarVars, pipeVars, pumpVars
<1>5. CASE IndexNext
  BY <1>5 DEF IndexNext, mainVars, tarVars, pipeVars, pumpVars, IndexStart,
     IndexTake, IndexEof, IndexFail, IndexCommit, IndexDrain
<1>6. CASE UNCHANGED vars
  BY <1>6 DEF vars, mainVars, tarVars, pipeVars, pumpVars
<1> QED BY <1>1, <1>2, <1>3, <1>4, <1>5, <1>6 DEF Next

\* The frame thread and its files keep their types; a frame is never longer
\* than FrameSize.
LEMMA FrameTypes == TypeOK /\ [Next]_vars => FrameTypeOK'
<1> SUFFICES ASSUME TypeOK, [Next]_vars PROVE FrameTypeOK'
  OBVIOUS
<1> USE ShardWriterAssumption DEF FrameTypeOK, FramePC
<1>0. FrameTypeOK /\ stdout \in Seq(Unit)
  BY DEF TypeOK, ProcTypeOK
<1>1. CASE MainNext \/ TarNext \/ PumpNext \/ IndexNext \/ UNCHANGED vars
  BY <1>0, <1>1 DEF MainNext, TarNext, PumpNext, IndexNext, vars, frameVars,
     diskVars
<1>2. CASE FrameNext
  <2> USE <1>0 DEF diskVars
  <2>1. CASE FrameRead
    <3>1. buf' = Append(buf, Head(stdout)) /\ stdout # <<>>
            /\ Len(buf) < FrameSize
      BY <2>1 DEF FrameRead
    <3>2. buf' \in Seq(Unit) /\ Len(buf') <= FrameSize
      BY <3>1, SeqFacts
    <3> QED BY <2>1, <3>2 DEF FrameRead
  <2>2. CASE FrameWrite
    <3>1. Len(buf) \in 1..FrameSize
      BY <2>2, SeqFacts DEF FrameWrite
    <3>2. frames' \in Seq(1..FrameSize)
      BY <2>2, <3>1, SeqFacts DEF FrameWrite
    <3>3. archive' \in Seq(Seq(Unit))
      BY <2>2, SeqFacts DEF FrameWrite
    <3>4. buf' = <<>> /\ buf' \in Seq(Unit) /\ Len(buf') <= FrameSize
      BY <2>2, SeqFacts DEF FrameWrite
    <3> QED BY <2>2, <3>2, <3>3, <3>4 DEF FrameWrite
  <2>3. CASE FrameFlush
    BY <2>3 DEF FrameFlush
  <2>4. CASE FrameFinal
    BY <2>4 DEF FrameFinal
  <2>5. CASE FrameUnlink
    BY <2>5 DEF FrameUnlink
  <2>6. CASE FrameOpen \/ FrameFeed \/ FrameSync \/ FrameSentinel
             \/ FrameJoin \/ FrameClose
    BY <2>6 DEF FrameOpen, FrameFeed, FrameSync, FrameSentinel, FrameJoin,
       FrameClose
  <2> QED BY <1>2, <2>1, <2>2, <2>3, <2>4, <2>5, <2>6 DEF FrameNext
<1> QED BY <1>1, <1>2 DEF Next

\* The index queue keeps its bound, and the index thread its types.
LEMMA IndexTypes == TypeOK /\ [Next]_vars => IndexTypeOK'
<1> SUFFICES ASSUME TypeOK, [Next]_vars PROVE IndexTypeOK'
  OBVIOUS
<1> USE ShardWriterAssumption DEF IndexTypeOK, IndexPC
<1>0. IndexTypeOK /\ frames \in Seq(1..FrameSize)
  BY DEF TypeOK, FrameTypeOK
<1>1. CASE MainNext \/ TarNext \/ PumpNext \/ UNCHANGED vars
  BY <1>0, <1>1 DEF MainNext, TarNext, PumpNext, vars, indexVars
<1>2. CASE FrameNext
  <2> USE <1>0 DEF indexVars
  <2>1. CASE FrameFeed
    <3>1. queue' \in Seq(Nat) /\ Len(queue') <= QueueMax
      BY <2>1, SeqFacts DEF FrameFeed
    <3> QED BY <2>1, <3>1 DEF FrameFeed
  <2>2. CASE FrameSentinel
    <3>1. queue' \in Seq(Nat) /\ Len(queue') <= QueueMax
      BY <2>2, SeqFacts DEF FrameSentinel, Sentinel
    <3> QED BY <2>2, <3>1 DEF FrameSentinel
  <2>3. CASE FrameOpen
    BY <2>3 DEF FrameOpen
  <2>4. CASE FrameRead \/ FrameWrite \/ FrameFlush \/ FrameSync
             \/ FrameJoin \/ FrameFinal \/ FrameUnlink \/ FrameClose
    BY <2>4 DEF FrameRead, FrameWrite, FrameFlush, FrameSync, FrameJoin,
       FrameFinal, FrameUnlink, FrameClose
  <2> QED BY <1>2, <2>1, <2>2, <2>3, <2>4 DEF FrameNext
<1>3. CASE IndexNext
  <2> USE <1>0
  <2>1. CASE IndexTake
    <3>1. queue' \in Seq(Nat) /\ Len(queue') <= QueueMax /\ taken' \in Nat
      BY <2>1, SeqFacts DEF IndexTake
    <3> QED BY <2>1, <3>1 DEF IndexTake
  <2>2. CASE IndexEof
    <3>1. queue' \in Seq(Nat) /\ Len(queue') <= QueueMax
      BY <2>2, SeqFacts DEF IndexEof
    <3> QED BY <2>2, <3>1 DEF IndexEof, IndexError
  <2>3. CASE IndexDrain
    <3>1. queue' \in Seq(Nat) /\ Len(queue') <= QueueMax
      BY <2>3, SeqFacts DEF IndexDrain
    <3> QED BY <2>3, <3>1 DEF IndexDrain
  <2>4. CASE IndexCommit
    <3>1. sidecar' \in SUBSET (Nat \X Nat)
      BY <2>4 DEF IndexCommit, Members
    <3> QED BY <2>4, <3>1 DEF IndexCommit
  <2>5. CASE IndexStart \/ IndexFail
    BY <2>5 DEF IndexStart, IndexFail, IndexError
  <2> QED BY <1>3, <2>1, <2>2, <2>3, <2>4, <2>5 DEF IndexNext
<1> QED BY <1>1, <1>2, <1>3 DEF Next

\* The flags stay Boolean.
LEMMA FlagTypes == TypeOK /\ [Next]_vars => FlagTypeOK'
<1> SUFFICES ASSUME TypeOK, [Next]_vars PROVE FlagTypeOK'
  OBVIOUS
<1>0. FlagTypeOK
  BY DEF TypeOK
<1> USE <1>0 DEF FlagTypeOK
<1>1. CASE UNCHANGED vars
  BY <1>1, Zenon DEF vars, tarVars, pumpVars, frameVars, diskVars, indexVars
<1>2. CASE MainNext
  BY <1>2, Zenon DEF MainNext, tarVars, pumpVars, frameVars, diskVars,
     indexVars
<1>3. CASE TarNext
  <2> USE <1>3 DEF TarNext, pumpVars, frameVars, diskVars, indexVars
  <2>1. CASE TarTake
    BY <2>1, Zenon DEF TarTake
  <2>2. CASE TarWriteOut
    BY <2>2, Zenon DEF TarWriteOut, Die
  <2>3. CASE TarWriteErr
    BY <2>3, Zenon DEF TarWriteErr, Die
  <2>4. CASE TarEnd
    BY <2>4, Zenon DEF TarEnd
  <2>5. CASE TarExit \/ TarKilled
    BY <2>5, Zenon DEF TarExit, TarKilled, Die
  <2> QED BY <2>1, <2>2, <2>3, <2>4, <2>5, Zenon
<1>4. CASE PumpNext
  <2> USE <1>4 DEF PumpNext, tarVars, frameVars, diskVars, indexVars
  <2>1. CASE PumpRead
    BY <2>1, Zenon DEF PumpRead
  <2>2. CASE PumpStop
    BY <2>2, Zenon DEF PumpStop
  <2> QED BY <2>1, <2>2
<1>5. CASE FrameNext
  <2> USE <1>5 DEF FrameNext, tarVars, pumpVars
  <2>1. CASE FrameOpen
    BY <2>1, Zenon DEF FrameOpen, diskVars
  <2>2. CASE FrameJoin
    BY <2>2, Zenon DEF FrameJoin, diskVars, indexVars
  <2>3. CASE FrameFinal
    BY <2>3, Zenon DEF FrameFinal, indexVars
  <2>4. CASE FrameRead \/ FrameWrite \/ FrameFeed
    <3> USE DEF diskVars, indexVars
    <3>1. CASE FrameRead
      BY <3>1, Zenon DEF FrameRead
    <3>2. CASE FrameWrite
      BY <3>2, Zenon DEF FrameWrite
    <3>3. CASE FrameFeed
      BY <3>3, Zenon DEF FrameFeed
    <3> QED BY <2>4, <3>1, <3>2, <3>3
  <2>5. CASE FrameFlush \/ FrameSync \/ FrameSentinel
    <3> USE DEF diskVars, indexVars
    <3>1. CASE FrameFlush
      BY <3>1, Zenon DEF FrameFlush
    <3>2. CASE FrameSync
      BY <3>2, Zenon DEF FrameSync
    <3>3. CASE FrameSentinel
      BY <3>3, Zenon DEF FrameSentinel
    <3> QED BY <2>5, <3>1, <3>2, <3>3
  <2>6. CASE FrameUnlink \/ FrameClose
    <3> USE DEF diskVars, indexVars
    <3>1. CASE FrameUnlink
      BY <3>1, Zenon DEF FrameUnlink
    <3>2. CASE FrameClose
      BY <3>2, Zenon DEF FrameClose
    <3> QED BY <2>6, <3>1, <3>2
  <2> QED BY <2>1, <2>2, <2>3, <2>4, <2>5, <2>6, Zenon
<1>6. CASE IndexNext
  <2> USE <1>6 DEF IndexNext, tarVars, pumpVars, frameVars, diskVars
  <2>1. CASE IndexStart \/ IndexTake
    <3>1. CASE IndexStart
      BY <3>1, Zenon DEF IndexStart
    <3>2. CASE IndexTake
      BY <3>2, Zenon DEF IndexTake
    <3> QED BY <2>1, <3>1, <3>2
  <2>2. CASE IndexEof
    BY <2>2, Zenon DEF IndexEof, IndexError
  <2>3. CASE IndexFail
    BY <2>3, Zenon DEF IndexFail, IndexError
  <2>4. CASE IndexCommit
    BY <2>4, Zenon DEF IndexCommit
  <2>5. CASE IndexDrain
    <3>1. eof' \in BOOLEAN
      BY <2>5, Zenon DEF IndexDrain
    <3> QED BY <2>5, <3>1, Zenon DEF IndexDrain
  <2> QED BY <2>1, <2>2, <2>3, <2>4, <2>5, Zenon
<1> QED BY <1>1, <1>2, <1>3, <1>4, <1>5, <1>6 DEF Next

-----------------------------------------------------------------------------
(* The parts of the inductive invariant *)

\* Only padding follows the end marker.
LEMMA EndStep == TypeOK /\ EndIsLast /\ [Next]_vars => EndIsLast'
<1> SUFFICES ASSUME TypeOK, EndIsLast, [Next]_vars PROVE EndIsLast'
  OBVIOUS
<1> USE ShardWriterAssumption
<1>0. /\ out \in Seq(Unit) /\ stdout \in Seq(Unit) /\ buf \in Seq(Unit)
      /\ archive \in Seq(Seq(Unit)) /\ main \in MainPC /\ names \in 0..PipeCap
  BY DEF TypeOK, ProcTypeOK, FrameTypeOK
<1> DEFINE InDisk == \A i, j \in DOMAIN archive :
                       (Holds(archive[i], "end") /\ i < j)
                         => Padding(archive[j])
           Quiet == ~(EndOnDisk \/ Holds(buf, "end")
             \/ Holds(stdout, "end") \/ Holds(out, "end"))
<1>1. /\ InDisk
      /\ EndOnDisk => Padding(buf)
      /\ (EndOnDisk \/ Holds(buf, "end")) => Padding(stdout)
      /\ PadsAfterEnd(stdout)
      /\ (EndOnDisk \/ Holds(buf, "end") \/ Holds(stdout, "end"))
           => Padding(out)
      /\ PadsAfterEnd(out)
      /\ ~Quiet => ended
      /\ ended => main # "feed" /\ names = 0
  BY DEF EndIsLast
<1>a. CASE UNCHANGED <<archive, buf, stdout, out, ended>> /\ (ended =>
           main' # "feed" /\ names' = 0)
  BY <1>1, <1>a DEF EndIsLast, EndOnDisk
<1>2. CASE MainNext
  <2>1. UNCHANGED <<archive, buf, stdout, out, ended>>
    BY <1>2 DEF MainNext, tarVars, pipeVars, frameVars, diskVars
  <2>2. ended => main' # "feed" /\ names' = 0
    BY <1>0, <1>1, <1>2 DEF MainNext, MainFeed, MainCloseStdin,
       MainBrokenPipe, MainJoin
  <2> QED BY <1>a, <2>1, <2>2
<1>3. CASE TarNext
  <2>0. UNCHANGED <<main, archive, buf>> /\ EndOnDisk' = EndOnDisk
    BY <1>3 DEF TarNext, frameVars, diskVars, EndOnDisk
  <2>1. CASE TarTake
    <3>1. UNCHANGED <<stdout, ended>> /\ ~ended
      BY <2>1, <1>0, <1>1 DEF TarTake, pipeVars
    <3>2. out' \in Seq(Unit) /\ ~Holds(out', "end") 
      <4>1. <<"whole">> \in Seq(Unit) /\ <<"part", "whole">> \in Seq(Unit)
        BY DEF Unit
      <4>2. out' = out \/ out' = <<"whole">> \/ out' = <<"part", "whole">>
        BY <2>1 DEF TarTake
      <4> QED BY <1>0, <1>1, <3>1, <4>1, <4>2, NoEnd
    <3>3. PadsAfterEnd(out')
      BY <3>2, NoEnd
    <3> QED BY <1>1, <2>0, <3>1, <3>2, <3>3 DEF EndIsLast
  <2>2. CASE out' = <<>> /\ stdout' = stdout /\ ended' = ended
             /\ names' = names
    BY <1>1, <2>0, <2>2, NoEnd DEF EndIsLast
  <2>3. CASE TarWriteOut
    <3>1. CASE /\ out # <<>> /\ stdout' = Append(stdout, Head(out))
               /\ out' = Tail(out) /\ ended' = ended /\ names' = names
      <4>1. Head(out) \in Unit
        BY <1>0, <3>1
      <4> DEFINE e == Head(out)
      <4>2. Holds(out, e) /\ (Holds(out', "end") => Holds(out, "end"))
            /\ (Padding(out) => e = "pad" /\ Padding(out'))
            /\ PadsAfterEnd(out') /\ (e = "end" => Padding(out'))
        BY <1>0, <1>1, <3>1, TailFacts
      <4>3. (Holds(stdout', "end") => Holds(stdout, "end") \/ e = "end")
            /\ (Padding(stdout) /\ e = "pad" => Padding(stdout'))
            /\ ((Holds(stdout, "end") => e = "pad") => PadsAfterEnd(stdout'))
        BY <1>0, <1>1, <3>1, <4>1, AppendFacts
      <4> HIDE DEF e
      <4> QED BY <1>1, <2>0, <3>1, <4>2, <4>3 DEF EndIsLast
    <3> QED BY <2>2, <2>3, <3>1 DEF TarWriteOut, Die
  <2>4. CASE TarEnd
    <3>1. /\ UNCHANGED <<stdout, names>> /\ ~ended /\ ended'
               /\ names = 0 /\ main # "feed"
          /\ out' = <<"end">> \/ out' = <<"end", "pad">>
      BY <2>4 DEF TarEnd, pipeVars
    <3>2. PadsAfterEnd(out')
      BY <3>1, NoEnd
    <3> QED BY <1>1, <2>0, <3>1, <3>2 DEF EndIsLast
  <2>5. CASE TarWriteErr \/ TarExit \/ TarKilled
    BY <1>1, <2>0, <2>2, <2>5, <1>a DEF TarWriteErr, TarExit, TarKilled,
       Die, pipeVars
  <2> QED BY <1>3, <2>1, <2>3, <2>4, <2>5 DEF TarNext
<1>4. CASE PumpNext \/ IndexNext \/ UNCHANGED vars
  BY <1>1, <1>a, <1>4 DEF PumpNext, IndexNext, vars, mainVars, tarVars,
     pipeVars, frameVars, diskVars
<1>5. CASE FrameNext
  <2>0. UNCHANGED <<main, names, out, ended>>
    BY <1>5 DEF FrameNext, mainVars, tarVars
  <2>1. CASE FrameRead
    <3>1. stdout # <<>> /\ stdout' = Tail(stdout)
            /\ buf' = Append(buf, Head(stdout)) /\ archive' = archive
      BY <2>1 DEF FrameRead, diskVars
    <3> DEFINE e == Head(stdout)
    <3>2. e \in Unit
      BY <1>0, <3>1
    <3>3. Holds(stdout, e) /\ (Holds(stdout', "end") => Holds(stdout, "end"))
          /\ (Padding(stdout) => e = "pad" /\ Padding(stdout'))
          /\ PadsAfterEnd(stdout') /\ (e = "end" => Padding(stdout'))
      BY <1>0, <1>1, <3>1, TailFacts
    <3>4. (Holds(buf', "end") => Holds(buf, "end") \/ e = "end")
          /\ (Padding(buf) /\ e = "pad" => Padding(buf'))
      BY <1>0, <3>1, <3>2, AppendFacts
    <3>5. EndOnDisk' = EndOnDisk
      BY <3>1 DEF EndOnDisk
    <3> HIDE DEF e
    <3> QED BY <1>1, <2>0, <3>1, <3>3, <3>4, <3>5 DEF EndIsLast
  <2>2. CASE FrameWrite /\ archive' = Append(archive, buf)
    <3>1. buf' = <<>> /\ stdout' = stdout
      BY <2>2 DEF FrameWrite
    <3>2. /\ Len(archive') = Len(archive) + 1
               /\ DOMAIN archive' = 1..(Len(archive) + 1)
          /\ DOMAIN archive = 1..Len(archive)
               /\ archive'[Len(archive) + 1] = buf
          /\ \A i \in 1..Len(archive) : archive'[i] = archive[i]
      BY <1>0, <2>2
    <3>3. EndOnDisk' <=> (EndOnDisk \/ Holds(buf, "end"))
      BY <3>2 DEF EndOnDisk
    <3>4. InDisk'
      <4> SUFFICES ASSUME NEW i \in DOMAIN archive',
                   NEW j \in DOMAIN archive',
                          Holds(archive'[i], "end"), i < j
                   PROVE  Padding(archive'[j])
        OBVIOUS
      <4>1. i \in DOMAIN archive /\ Holds(archive[i], "end")
        BY <3>2
      <4>2. CASE j \in DOMAIN archive
        BY <1>1, <3>2, <4>1, <4>2
      <4>3. CASE j = Len(archive) + 1
        BY <1>1, <3>2, <4>1, <4>3 DEF EndOnDisk
      <4> QED BY <3>2, <4>2, <4>3
    <3>5. ~Holds(buf', "end") /\ Padding(buf')
      BY <3>1, NoEnd
    <3> QED BY <1>1, <2>0, <3>1, <3>3, <3>4, <3>5 DEF EndIsLast
  <2>3. CASE FrameWrite /\ archive' = archive
    <3>1. buf' = <<>> /\ stdout' = stdout /\ EndOnDisk' = EndOnDisk
      BY <2>3 DEF FrameWrite, EndOnDisk
    <3> QED BY <1>1, <2>0, <2>3, <3>1, NoEnd DEF EndIsLast
  <2>4. CASE FrameClose
    <3>1. stdout' = <<>> /\ UNCHANGED <<buf, archive>>
            /\ EndOnDisk' = EndOnDisk
      BY <2>4 DEF FrameClose, diskVars, EndOnDisk
    <3> QED BY <1>1, <2>0, <3>1, NoEnd DEF EndIsLast
  <2>5. CASE FrameOpen \/ FrameFeed \/ FrameFlush \/ FrameSync
    BY <1>1, <1>a, <2>0, <2>5 DEF FrameOpen, FrameFeed, FrameFlush,
       FrameSync, diskVars
  <2>6. CASE FrameSentinel \/ FrameJoin \/ FrameFinal \/ FrameUnlink
    BY <1>1, <1>a, <2>0, <2>6 DEF FrameSentinel, FrameJoin, FrameFinal,
       FrameUnlink, diskVars
  <2> QED BY <1>5, <2>1, <2>2, <2>3, <2>4, <2>5, <2>6 DEF FrameNext,
             FrameWrite
<1> QED BY <1>2, <1>3, <1>4, <1>5 DEF Next

\* The queue neither loses, repeats nor reorders a frame.
LEMMA QueueStep == TypeOK /\ QueueInOrder /\ [Next]_vars => QueueInOrder'
<1> SUFFICES ASSUME TypeOK, QueueInOrder, [Next]_vars PROVE QueueInOrder'
  OBVIOUS
<1>0. /\ frame \in FramePC /\ ix \in IndexPC /\ taken \in Nat
           /\ queue \in Seq(Nat)
      /\ frames \in Seq(1..FrameSize) /\ archive \in Seq(Seq(Unit))
           /\ buf \in Seq(Unit)
  BY DEF TypeOK, FrameTypeOK, IndexTypeOK
<1> DEFINE Live == 
         /\ Len(queue) = Fed - taken + (IF SentinelSent THEN 1 ELSE 0)
         /\ \A i \in 1..(Fed - taken) : queue[i] = taken + i
         /\ SentinelSent => queue[Len(queue)] = Sentinel
         /\ taken <= Fed
<1>1. /\ frame = "open" => ix = "unborn"
      /\ frame = "feed" => archive # <<>>
      /\ Writing => Len(frames) = Len(archive)
      /\ IndexLive => Live
  BY DEF QueueInOrder
<1>2. Len(archive) \in Nat /\ Fed \in Int /\ (frame = "feed" => Fed \in Nat)
  BY <1>0, <1>1 DEF Fed
<1>3. CASE UNCHANGED <<frame, frames, archive, queue, ix, taken>>
  BY <1>1, <1>3 DEF QueueInOrder, Fed, IndexLive, Writing, SentinelSent
<1>4. CASE MainNext \/ TarNext \/ PumpNext \/ UNCHANGED vars
  BY <1>3, <1>4 DEF MainNext, TarNext, PumpNext, vars, frameVars, diskVars,
     indexVars
<1>5. CASE FrameNext
  <2>1. CASE FrameOpen
    <3>1. /\ frame = "open" /\ frame' \in {"read", "abort"}
               /\ ix = "unborn" /\ ix' = "start"
          /\ UNCHANGED <<frames, archive, queue, taken>>
      BY <1>1, <2>1 DEF FrameOpen, diskVars
    <3>2. Live /\ Fed' = Fed /\ ~SentinelSent /\ ~SentinelSent'
      BY <1>1, <3>1 DEF IndexLive, Fed, SentinelSent
    <3>3. Live'
      BY <3>1, <3>2
    <3> QED BY <1>1, <3>1, <3>3 DEF QueueInOrder, Writing
  <2>2. CASE FrameWrite
    <3>1. /\ frame = "read" /\ UNCHANGED <<ix, queue, taken>>
               /\ frames' = Append(frames, Len(buf))
          /\ \/ frame' = "feed" /\ archive' = Append(archive, buf)
             \/ frame' = "abort" /\ UNCHANGED archive
      BY <2>2 DEF FrameWrite, indexVars
    <3>2. Fed' = Fed /\ ~SentinelSent /\ ~SentinelSent'
            /\ (frame' = "feed" => archive' # <<>>)
      BY <1>0, <3>1 DEF Fed, SentinelSent
    <3>3. IndexLive' => Live'
      BY <1>1, <3>1, <3>2 DEF IndexLive
    <3>4. Writing' => Len(frames') = Len(archive')
      BY <1>0, <1>1, <3>1 DEF Writing
    <3> QED BY <3>1, <3>2, <3>3, <3>4 DEF QueueInOrder
  <2>3. CASE FrameFeed
    <3>1. /\ frame = "feed" /\ frame' \in {"flush", "read"}
               /\ UNCHANGED <<ix, taken, frames, archive>>
          /\ queue' = Append(queue, Len(frames))
      BY <2>3 DEF FrameFeed, indexVars, diskVars
    <3>2. Fed' = Fed + 1 /\ Len(frames) = Fed + 1 /\ ~SentinelSent
            /\ ~SentinelSent'
      BY <1>0, <1>1, <3>1 DEF Fed, SentinelSent, Writing
    <3>3. ASSUME IndexLive' PROVE Live'
      <4>1. Live /\ Len(queue) = Fed - taken
        BY <1>0, <1>1, <1>2, <3>1, <3>2, <3>3 DEF IndexLive
      <4>2. Len(queue') = Len(queue) + 1 /\ queue'[Len(queue) + 1] = Fed + 1
            /\ \A i \in 1..Len(queue) : queue'[i] = queue[i]
        BY <1>0, <1>2, <3>1, <3>2
      <4> QED BY <1>0, <1>2, <3>1, <3>2, <4>1, <4>2
    <3> QED BY <1>1, <3>1, <3>3 DEF QueueInOrder, Writing
  <2>4. CASE FrameSentinel
    <3>1. /\ frame \in {"finish", "abort"} /\ frame' \in {"joinok", "joinerr"}
          /\ UNCHANGED <<ix, taken, frames, archive>>
          /\ queue' = Append(queue, Sentinel)
      BY <2>4 DEF FrameSentinel, indexVars, diskVars
    <3>2. Fed' = Fed /\ ~SentinelSent /\ SentinelSent'
      BY <3>1 DEF Fed, SentinelSent
    <3>3. ASSUME IndexLive' PROVE Live'
      <4>1. Live /\ Len(queue) = Fed - taken
        BY <1>1, <1>2, <1>0, <3>1, <3>2, <3>3 DEF IndexLive
      <4>2. Len(queue') = Len(queue) + 1 /\ queue'[Len(queue) + 1] = Sentinel
            /\ \A i \in 1..Len(queue) : queue'[i] = queue[i]
        BY <1>0, <3>1 DEF Sentinel
      <4> QED BY <1>0, <1>2, <3>1, <3>2, <4>1, <4>2
    <3> QED BY <1>1, <3>1, <3>3 DEF QueueInOrder, Writing
  <2>5. CASE FrameFlush \/ FrameSync
    <3>1. /\ frame \in {"flush", "read"}
               /\ frame' \in {"read", "abort", "finish"}
          /\ UNCHANGED <<ix, taken, frames, archive, queue>>
      BY <2>5 DEF FrameFlush, FrameSync, indexVars, diskVars
    <3> QED BY <1>1, <3>1 DEF QueueInOrder, Writing, IndexLive, Fed,
               SentinelSent
  <2>6. CASE FrameJoin \/ FrameFinal \/ FrameUnlink \/ FrameClose
    <3>1. /\ frame \in {"joinok", "joinerr", "final", "unlink", "close"} 
          /\ frame' \in {"final", "unlink", "close", "closed"}
          /\ UNCHANGED <<ix, taken, frames, archive, queue>>
      BY <2>6 DEF FrameJoin, FrameFinal, FrameUnlink, FrameClose, indexVars,
         diskVars
    <3> QED BY <1>1, <3>1 DEF QueueInOrder, Writing, IndexLive, Fed,
               SentinelSent
  <2>7. CASE FrameRead
    BY <1>3, <2>7 DEF FrameRead, indexVars, diskVars
  <2> QED BY <1>5, <2>1, <2>2, <2>3, <2>4, <2>5, <2>6, <2>7 DEF FrameNext
<1>6. CASE IndexNext
  <2>0. UNCHANGED <<frame, frames, archive>> /\ Fed' = Fed
          /\ SentinelSent' = SentinelSent
    BY <1>6 DEF IndexNext, frameVars, diskVars, Fed, SentinelSent
  <2>1. CASE IndexTake
    <3>1. /\ ix = "index" /\ queue # <<>> /\ Head(queue) # Sentinel
          /\ queue' = Tail(queue) /\ taken' = Head(queue)
               /\ ix' \in {"close", "index"}
      BY <2>1 DEF IndexTake
    <3>2. Live
      BY <1>1, <3>1 DEF IndexLive
    <3>3. /\ Len(queue) \in Nat /\ Len(queue) >= 1 /\ Head(queue) = queue[1]
          /\ Len(queue') = Len(queue) - 1
          /\ \A i \in 1..(Len(queue) - 1) : queue'[i] = queue[i + 1]
      BY <1>0, <3>1
    <3>4. Fed - taken >= 1
      BY <1>0, <1>2, <3>1, <3>2, <3>3
    <3>5. taken' = taken + 1
      BY <1>0, <1>2, <3>1, <3>2, <3>3, <3>4
    <3>6. Live'
      BY <1>0, <1>2, <2>0, <3>2, <3>3, <3>4, <3>5
    <3>7. frame # "open"
      BY <1>1, <3>1
    <3> QED BY <1>1, <2>0, <3>6, <3>7 DEF QueueInOrder, Writing
  <2>2. CASE IndexEof \/ IndexFail \/ IndexDrain \/ IndexCommit
    <3>1. ix \notin {"unborn"} /\ ix' \in {"close", "drain", "done"}
      BY <2>2 DEF IndexEof, IndexFail, IndexDrain, IndexCommit, IndexError
    <3> QED BY <1>1, <2>0, <3>1 DEF QueueInOrder, Writing, IndexLive
  <2>3. CASE IndexStart
    <3>1. ix = "start" /\ ix' = "index" /\ UNCHANGED <<queue, taken>>
      BY <2>3 DEF IndexStart
    <3> QED BY <1>1, <2>0, <3>1 DEF QueueInOrder, Writing, IndexLive
  <2> QED BY <1>6, <2>1, <2>2, <2>3 DEF IndexNext
<1> QED BY <1>4, <1>5, <1>6 DEF Next

\* A closed index covers the archive, and goes on doing so.
LEMMA CoverStep ==
  TypeOK /\ QueueInOrder /\ IndexCovers /\ [Next]_vars => IndexCovers'
<1> SUFFICES ASSUME TypeOK, QueueInOrder, IndexCovers, [Next]_vars
             PROVE IndexCovers'
  OBVIOUS
<1>0. /\ frame \in FramePC /\ ix \in IndexPC /\ taken \in Nat
           /\ queue \in Seq(Nat)
      /\ archive \in Seq(Seq(Unit)) /\ buf \in Seq(Unit)
  BY DEF TypeOK, FrameTypeOK, IndexTypeOK
<1>1. /\ ix = "drain" => ixError
      /\ ix = "close" => Covered
      /\ (ix = "done" /\ ~ixError) => Covered /\ indexed
           /\ sidecar = Members(taken)
      /\ built => ix = "done" /\ ~ixError /\ SentinelSent
  BY DEF IndexCovers
<1>2. CASE UNCHANGED <<frame, archive, built, ix, taken, ixError, indexed,
           sidecar>>
  BY <1>1, <1>2 DEF IndexCovers, Covered, Fed, SentinelSent, Members
<1>3. CASE MainNext \/ TarNext \/ PumpNext \/ UNCHANGED vars
  BY <1>2, <1>3 DEF MainNext, TarNext, PumpNext, vars, frameVars, diskVars,
     indexVars
<1>4. CASE FrameNext
  <2>1. CASE UNCHANGED <<archive, built, ix, taken, ixError, indexed,
             sidecar>> /\ (frame = "feed" <=> frame' = "feed")
             /\ (SentinelSent => SentinelSent')
    BY <1>0, <1>1, <2>1 DEF IndexCovers, Covered, Fed, Members
  <2>2. CASE FrameOpen
    BY <1>1, <2>2 DEF FrameOpen, IndexCovers, QueueInOrder, SentinelSent
  <2>3. CASE FrameWrite
    <3>1. frame = "read" /\ frame' \in {"feed", "abort"}
            /\ UNCHANGED <<built, ix, taken, ixError, indexed, sidecar>>
      BY <2>3 DEF FrameWrite, indexVars
    <3>2. CASE archive' = archive /\ frame' = "abort"
      BY <2>1, <3>1, <3>2 DEF SentinelSent
    <3>3. CASE archive' = Append(archive, buf) /\ frame' = "feed"
      <4>1. /\ Len(archive) \in Nat /\ Len(archive') = Len(archive) + 1 
            /\ \A i \in 1..Len(archive) : archive'[i] = archive[i]
        BY <1>0, <3>3
      <4>2. Fed' = Fed /\ Fed = Len(archive) /\ ~SentinelSent
              /\ ~SentinelSent'
        BY <3>1, <3>3, <4>1 DEF Fed, SentinelSent
      <4>3. Covered => Covered'
        <5> SUFFICES ASSUME Covered PROVE Covered'
          OBVIOUS
        <5>1. /\ taken \in 1..Len(archive) /\ Holds(archive[taken], "end")
          BY <1>0, <4>1, <4>2 DEF Covered
        <5>2. taken' > 0 /\ taken' <= Fed'
                /\ archive'[taken'] = archive[taken]
          BY <1>0, <3>1, <4>1, <4>2, <5>1
        <5> QED BY <5>1, <5>2 DEF Covered
      <4>4. Covered => Members(taken)' = Members(taken)
        <5> SUFFICES ASSUME Covered PROVE Members(taken)' = Members(taken)
          OBVIOUS
        <5>1. taken \in 0..Len(archive)
          BY <1>0, <4>1, <4>2 DEF Covered
        <5>2. \A i \in 1..taken : archive'[i] = archive[i]
          BY <4>1, <5>1
        <5> QED BY <3>1, <5>1, <5>2 DEF Members
      <4> QED BY <1>1, <3>1, <4>2, <4>3, <4>4 DEF IndexCovers
    <3> QED BY <2>3, <3>1, <3>2, <3>3 DEF FrameWrite
  <2>4. CASE FrameFeed
    <3>1. frame = "feed" /\ frame' \in {"flush", "read"}
            /\ UNCHANGED <<archive, built, ix, taken, ixError, indexed,
                 sidecar>>
      BY <2>4 DEF FrameFeed, indexVars, diskVars
    <3>2. Fed' = Fed + 1 /\ Fed \in Int /\ ~SentinelSent /\ ~SentinelSent'
      BY <1>0, <3>1 DEF Fed, SentinelSent
    <3>3. Covered => Covered'
      BY <1>0, <3>1, <3>2 DEF Covered
    <3>4. Members(taken)' = Members(taken)
      BY <3>1 DEF Members
    <3> QED BY <1>1, <3>1, <3>2, <3>3, <3>4 DEF IndexCovers
  <2>5. CASE FrameJoin
    <3>1. /\ ix = "done" /\ frame \in {"joinok", "joinerr"}
               /\ frame' \in {"final", "close"}
          /\ (built' = ~ixError \/ built' = built)
          /\ UNCHANGED <<archive, ix, taken, ixError, indexed, sidecar>>
      BY <2>5 DEF FrameJoin, indexVars, diskVars
    <3>2. SentinelSent /\ SentinelSent' /\ Fed' = Fed
      BY <3>1 DEF SentinelSent, Fed
    <3>3. Covered' = Covered /\ Members(taken)' = Members(taken)
      BY <3>1, <3>2 DEF Covered, Members
    <3>4. built' => ix' = "done" /\ ~ixError' /\ SentinelSent'
      BY <1>1, <3>1, <3>2
    <3> QED BY <1>1, <3>1, <3>2, <3>3, <3>4 DEF IndexCovers
  <2>6. CASE FrameRead \/ FrameFlush \/ FrameSync
    <3>1. frame' # "feed" /\ frame # "feed" /\ ~SentinelSent
            /\ UNCHANGED <<archive, built, ix, taken, ixError, indexed,
                 sidecar>>
      BY <2>6 DEF FrameRead, FrameFlush, FrameSync, indexVars, diskVars,
         SentinelSent
    <3> QED BY <2>1, <3>1
  <2>7. CASE FrameSentinel \/ FrameFinal \/ FrameUnlink \/ FrameClose
    <3>1. frame' # "feed" /\ frame # "feed" /\ SentinelSent'
            /\ UNCHANGED <<archive, built, ix, taken, ixError, indexed,
                 sidecar>>
      BY <2>7 DEF FrameSentinel, FrameFinal, FrameUnlink, FrameClose,
         indexVars, diskVars, SentinelSent
    <3> QED BY <2>1, <3>1
  <2> QED BY <1>4, <2>2, <2>3, <2>4, <2>5, <2>6, <2>7 DEF FrameNext
<1>5. CASE IndexNext
  <2>0. UNCHANGED <<frame, archive, built>> /\ Fed' = Fed
          /\ SentinelSent' = SentinelSent
    BY <1>5 DEF IndexNext, frameVars, diskVars, Fed, SentinelSent
  <2>1. CASE ix # "done" /\ ix' \in {"index", "drain"} /\ (ix' = "drain" =>
             ixError')
    BY <1>1, <2>0, <2>1 DEF IndexCovers
  <2>2. CASE IndexTake
    <3>1. /\ ix = "index" /\ taken' = Head(queue) /\ queue # <<>>
               /\ Head(queue) # Sentinel
          /\ ix' = IF Holds(archive[Head(queue)],
               "end") THEN "close" ELSE "index"
          /\ queue' = Tail(queue)
      BY <2>2 DEF IndexTake
    <3>2. /\ Len(queue) = Fed - taken + (IF SentinelSent THEN 1 ELSE 0)
          /\ \A i \in 1..(Fed - taken) : queue[i] = taken + i
          /\ SentinelSent => queue[Len(queue)] = Sentinel
          /\ taken <= Fed
      BY <3>1 DEF QueueInOrder, IndexLive
    <3>3. Fed \in Int /\ Len(queue) \in Nat /\ Len(queue) >= 1
            /\ Head(queue) = queue[1]
      BY <1>0, <3>1 DEF Fed
    <3>4. Fed - taken >= 1
      BY <1>0, <3>1, <3>2, <3>3
    <3>5. taken' = taken + 1
      BY <1>0, <3>1, <3>2, <3>3, <3>4
    <3>6. ix' = "close" => Covered'
      BY <1>0, <2>0, <3>1, <3>3, <3>4, <3>5 DEF Covered
    <3> QED BY <1>1, <2>0, <3>1, <3>6 DEF IndexCovers
  <2>3. CASE IndexEof
    <3>1. /\ ix = "index" /\ queue # <<>> /\ Head(queue) = Sentinel
               /\ ix' \in {"close", "drain"}
          /\ taken' = taken /\ (ix' = "drain" => ixError')
      BY <2>3 DEF IndexEof, IndexError
    <3>2. /\ Len(queue) = Fed - taken + (IF SentinelSent THEN 1 ELSE 0)
          /\ \A i \in 1..(Fed - taken) : queue[i] = taken + i
          /\ taken <= Fed
      BY <3>1 DEF QueueInOrder, IndexLive
    <3>3. Fed \in Int /\ Len(queue) \in Nat /\ Len(queue) >= 1
            /\ Head(queue) = queue[1]
      BY <1>0, <3>1 DEF Fed
    <3>4. Fed - taken = 0 
      BY <1>0, <3>1, <3>2, <3>3 DEF Sentinel
    <3>5. SentinelSent /\ taken = Len(archive)
      <4>1. SentinelSent
        BY <3>2, <3>3, <3>4
      <4> QED BY <1>0, <3>4, <4>1 DEF Fed, SentinelSent
    <3>6. Covered'
      BY <2>0, <3>1, <3>2, <3>5 DEF Covered
    <3> QED BY <1>1, <2>0, <3>1, <3>6 DEF IndexCovers
  <2>4. CASE IndexCommit
    <3>1. ix = "close" /\ ix' = "done" /\ indexed'
            /\ sidecar' = Members(taken) /\ UNCHANGED <<taken, ixError>>
      BY <2>4 DEF IndexCommit
    <3>2. Covered' /\ Members(taken)' = Members(taken)
      BY <1>1, <2>0, <3>1 DEF Covered, Members
    <3> QED BY <1>1, <2>0, <3>1, <3>2 DEF IndexCovers
  <2>5. CASE IndexStart \/ IndexFail
    BY <2>1, <2>5 DEF IndexStart, IndexFail, IndexError
  <2>6. CASE IndexDrain
    <3>1. ix = "drain" /\ UNCHANGED <<taken, ixError, indexed, sidecar>>
            /\ ix' \in {"drain", "done"}
      BY <2>6 DEF IndexDrain
    <3> QED BY <1>1, <2>0, <3>1 DEF IndexCovers
  <2> QED BY <1>5, <2>2, <2>3, <2>4, <2>5, <2>6 DEF IndexNext
<1> QED BY <1>3, <1>4, <1>5 DEF Next

\* Once tar is gone and its pipe is empty, both stay that way.
LEMMA EofStable == [Next]_vars /\ StdoutEof => StdoutEof'
<1> SUFFICES ASSUME [Next]_vars, StdoutEof PROVE StdoutEof'
  OBVIOUS
<1>0. stdout = <<>> /\ ~tarRun
  BY DEF StdoutEof
<1>1. CASE MainNext \/ PumpNext \/ IndexNext \/ UNCHANGED vars
  BY <1>0, <1>1 DEF MainNext, PumpNext, IndexNext, vars, tarVars, pipeVars,
     PumpRead, PumpStop, StdoutEof
<1>2. CASE TarNext
  BY <1>0, <1>2 DEF TarNext, TarTake, TarWriteOut, TarWriteErr, TarEnd,
     TarExit, TarKilled
<1>3. CASE FrameNext
  <2>1. tarRun' = tarRun
    BY <1>3 DEF FrameNext, tarVars
  <2>2. stdout' = stdout \/ stdout' = <<>>
    BY <1>0, <1>3 DEF FrameNext, FrameOpen, FrameRead, FrameWrite,
       FrameFeed, FrameFlush,
       FrameSync, FrameSentinel, FrameJoin, FrameFinal, FrameUnlink,
         FrameClose
  <2> QED BY <1>0, <2>1, <2>2 DEF StdoutEof
<1> QED BY <1>1, <1>2, <1>3 DEF Next

\* The frame list matches the archive, frame for frame.
LEMMA FramesStep == TypeOK /\ FramesMatch /\ [Next]_vars => FramesMatch'
<1> SUFFICES ASSUME TypeOK, FramesMatch, [Next]_vars PROVE FramesMatch'
  OBVIOUS
<1>0. /\ frame \in FramePC /\ frames \in Seq(1..FrameSize)
           /\ archive \in Seq(Seq(Unit))
      /\ buf \in Seq(Unit) /\ Len(buf) <= FrameSize
           /\ final \in Seq(1..FrameSize)
      /\ stdout \in Seq(Unit) /\ FrameSize \in Nat \ {0}
  BY ShardWriterAssumption DEF TypeOK, FrameTypeOK, ProcTypeOK
<1> DEFINE Match == 
         /\ Len(frames) = Len(archive)
         /\ \A i \in 1..Len(archive) : frames[i] = Len(archive[i])
         /\ \A i \in 1..(Len(archive) - 1) : frames[i] = FrameSize
           Last == \/ archive = <<>>
                   \/ frames[Len(archive)] = FrameSize
                   \/ StdoutEof /\ buf = <<>>
<1>1. /\ Intact => Match /\ Last
      /\ framed => frame \in {"unlink", "close", "closed"}
           /\ FinalDescribesArchive
  BY DEF FramesMatch
<1>2. ASSUME UNCHANGED <<frames, archive, framed, final>>, buf' = buf
      \/ ~StdoutEof,
             Intact' => Intact, framed
               => frame' \in {"unlink", "close", "closed"}
      PROVE  FramesMatch'
  <2>1. StdoutEof => StdoutEof'
    BY EofStable
  <2>2. (Match /\ Last)' = (Match /\ Last) \/ (Match /\ Last => Match'
          /\ Last')
    BY <1>2, <2>1
  <2>3. FinalDescribesArchive' = FinalDescribesArchive
    BY <1>2 DEF FinalDescribesArchive
  <2> QED BY <1>1, <1>2, <2>2, <2>3 DEF FramesMatch
<1>3. CASE MainNext \/ TarNext \/ PumpNext \/ IndexNext \/ UNCHANGED vars
  BY <1>1, <1>2, <1>3 DEF MainNext, TarNext, PumpNext, IndexNext, vars,
     frameVars, diskVars, Intact, Writing
<1>4. CASE FrameNext
  <2>1. CASE FrameRead
    <3>1. ~StdoutEof /\ frame = "read"
            /\ UNCHANGED <<frame, frames, archive, framed, final>>
      BY <2>1 DEF FrameRead, diskVars, StdoutEof
    <3> QED BY <1>1, <1>2, <3>1 DEF Intact, Writing
  <2>2. CASE FrameWrite
    <3>1. /\ frame = "read" /\ UNCHANGED <<final, framed>> /\ ~framed
               /\ buf' = <<>>
          /\ frames' = Append(frames, Len(buf))
          /\ Len(buf) = FrameSize \/ (buf # <<>> /\ StdoutEof)
      BY <1>1, <2>2 DEF FrameWrite
    <3>2. CASE frame' = "abort"
      BY <3>1, <3>2 DEF FramesMatch, Intact, Writing
    <3>3. CASE frame' = "feed" /\ archive' = Append(archive, buf)
      <4>0. Match /\ Last
        BY <1>1, <3>1 DEF Intact, Writing
      <4> DEFINE n == Len(archive)
      <4>1. /\ n \in Nat /\ Len(archive') = n + 1 /\ archive'[n + 1] = buf
            /\ \A i \in 1..n : archive'[i] = archive[i]
        BY <1>0, <3>3
      <4>2. /\ Len(frames') = n + 1 /\ frames'[n + 1] = Len(buf)
            /\ \A i \in 1..n : frames'[i] = frames[i]
        BY <1>0, <3>1, <4>0
      <4>3. n = 0 \/ frames[n] = FrameSize
        <5>1. ~(StdoutEof /\ buf = <<>>)
          BY <1>0, <3>1
        <5> QED BY <1>0, <4>0, <4>1, <5>1
      <4> HIDE DEF n
      <4>4. Match'
        <5>1. Len(frames') = Len(archive')
          BY <4>1, <4>2
        <5>2. \A i \in 1..(n + 1) : frames'[i] = Len(archive'[i])
          BY <4>0, <4>1, <4>2 DEF n
        <5>3. \A i \in 1..n : frames'[i] = FrameSize
          BY <4>0, <4>1, <4>2, <4>3 DEF n
        <5> QED BY <4>1, <5>1, <5>2, <5>3
      <4>5. Last'
        <5>1. StdoutEof => StdoutEof'
          BY EofStable
        <5> QED BY <3>1, <4>1, <4>2, <5>1
      <4> QED BY <3>1, <4>4, <4>5 DEF FramesMatch
    <3> QED BY <2>2, <3>2, <3>3 DEF FrameWrite
  <2>3. CASE FrameFinal
    <3>1. frame = "final" /\ frame' \in {"unlink", "close"}
            /\ UNCHANGED <<frames, archive>> /\ ~framed
      BY <1>1, <2>3 DEF FrameFinal
    <3>2. ~Intact' 
      BY <3>1 DEF Intact, Writing
    <3>3. CASE framed' = framed
      BY <3>1, <3>2, <3>3 DEF FramesMatch
    <3>4. CASE framed' /\ final' = frames
      <4>1. Match
        BY <1>1, <3>1 DEF Intact
      <4>2. FinalDescribesArchive'
        BY <3>1, <3>4, <4>1 DEF FinalDescribesArchive
      <4> QED BY <3>1, <3>2, <4>2 DEF FramesMatch
    <3> QED BY <2>3, <3>3, <3>4 DEF FrameFinal
  <2>4. CASE FrameUnlink \/ FrameClose
    <3>1. /\ UNCHANGED <<frames, archive, framed, final, buf>>
          /\ frame' \in {"close", "closed"}
      BY <2>4 DEF FrameUnlink, FrameClose, diskVars
    <3> QED BY <1>1, <1>2, <3>1 DEF Intact, Writing
  <2>5. CASE FrameOpen \/ FrameFeed \/ FrameFlush \/ FrameSync
    <3>1. /\ UNCHANGED <<frames, archive, framed, final, buf>> 
          /\ frame \in {"open", "feed", "flush", "read"}
      BY <2>5 DEF FrameOpen, FrameFeed, FrameFlush, FrameSync, diskVars
    <3> QED BY <1>1, <1>2, <3>1 DEF Intact, Writing
  <2>6. CASE FrameSentinel \/ FrameJoin
    <3>1. /\ UNCHANGED <<frames, archive, framed, final, buf>>
          /\ \/ frame = "finish" /\ frame' = "joinok"
             \/ frame = "abort" /\ frame' = "joinerr"
             \/ frame = "joinok" /\ frame' = "final"
             \/ frame = "joinerr" /\ frame' = "close"
      BY <2>6 DEF FrameSentinel, FrameJoin, diskVars
    <3> QED BY <1>1, <1>2, <3>1 DEF Intact, Writing
  <2> QED BY <1>4, <2>1, <2>2, <2>3, <2>4, <2>5, <2>6 DEF FrameNext
<1> QED BY <1>3, <1>4 DEF Next

\* The end marker is not lost on a path to success.
LEMMA EndKeptStep == TypeOK /\ EndKept /\ [Next]_vars => EndKept'
<1> SUFFICES ASSUME TypeOK, EndKept, [Next]_vars PROVE EndKept'
  OBVIOUS
<1>0. /\ frame \in FramePC /\ archive \in Seq(Seq(Unit)) /\ main \in MainPC
      /\ buf \in Seq(Unit) /\ stdout \in Seq(Unit) /\ out \in Seq(Unit)
      /\ rc \in {Signal, 0, 1, 2}
  BY DEF TypeOK, FrameTypeOK, ProcTypeOK
<1> DEFINE End == EndOnDisk \/ Holds(buf, "end") \/ Holds(stdout, "end")
             \/ Holds(out, "end")
<1>1. /\ tarRun => rc # Signal
      /\ (~tarRun /\ rc # Signal) => ended /\ out = <<>>
      /\ main \in {"wait", "capture", "returned"} => frame = "closed"
      /\ main \in {"capture", "returned"} => ~tarRun
      /\ main = "returned" => ~failed
      /\ failed => frame \in {"close", "closed"}
      /\ Drained => StdoutEof /\ buf = <<>>
      /\ (ended /\ rc # Signal /\ ~Aborted) => End
  BY DEF EndKept
<1>2. StdoutEof => StdoutEof'
  BY EofStable
<1>3. CASE MainNext
  <2>1. UNCHANGED <<tarVars, frameVars, pipeVars>>
    BY <1>3 DEF MainNext
  <2>2. UNCHANGED <<tarRun, out, rc, ended, frame, buf, failed, archive,
          stdout>>
    BY <2>1 DEF tarVars, frameVars, diskVars, pipeVars
  <2>3. /\ main' \in {"wait", "capture", "returned"} => frame = "closed"
        /\ main' \in {"capture", "returned"} => ~tarRun
        /\ main' = "returned" => ~failed
    BY <1>0, <1>1, <1>3 DEF MainNext, MainFeed, MainCloseStdin,
       MainBrokenPipe, MainJoin
  <2> QED BY <1>1, <2>2, <2>3 DEF EndKept, EndOnDisk, Aborted, Drained,
             StdoutEof
<1>4. CASE TarNext
  <2>0. UNCHANGED <<main, frame, buf, failed, archive>>
    BY <1>4 DEF TarNext, frameVars, diskVars
  <2>1. ASSUME UNCHANGED <<tarRun>>, rc' # Signal, tarRun, (ended'
        /\ ~Aborted) => End' PROVE EndKept'
    BY <1>1, <1>2, <2>0, <2>1 DEF EndKept, Aborted, Drained, EndOnDisk
  <2>2. ASSUME tarRun' = FALSE, out' = <<>>, ended' = ended,
        stdout' = stdout, rc' = Signal PROVE EndKept'
    BY <1>1, <1>2, <2>0, <2>2 DEF EndKept, Aborted, Drained, EndOnDisk
  <2>3. CASE TarTake
    <3>1. out = <<>> /\ UNCHANGED <<stdout, ended, tarRun>> /\ tarRun
            /\ rc' # Signal
      BY <1>1, <2>3 DEF TarTake, pipeVars, Signal
    <3>2. ~Holds(out, "end")
      BY <3>1 DEF Holds
    <3>3. (ended /\ ~Aborted) => End'
      BY <1>1, <2>0, <3>1, <3>2 DEF EndOnDisk
    <3> QED BY <2>1, <3>1, <3>3
  <2>4. CASE TarWriteOut
    <3>1. CASE /\ out # <<>> /\ stdout' = Append(stdout, Head(out)) /\ tarRun
               /\ out' = Tail(out) /\ UNCHANGED <<ended, rc, tarRun>>
      <4>1. Head(out) \in Unit
        BY <1>0, <3>1
      <4>2. Holds(out, "end") => "end" = Head(out) \/ Holds(out', "end")
        BY <1>0, <3>1, TailFacts
      <4>3. Holds(stdout', "end") <=> Holds(stdout, "end")
              \/ Head(out) = "end"
        BY <1>0, <3>1, <4>1, AppendFacts
      <4>4. (ended /\ ~Aborted) => End'
        BY <1>1, <2>0, <3>1, <4>2, <4>3 DEF EndOnDisk
      <4> QED BY <1>1, <2>1, <3>1, <4>4
    <3>2. CASE Die(Signal) /\ UNCHANGED stdout
      BY <2>2, <3>2 DEF Die
    <3> QED BY <2>4, <3>1, <3>2 DEF TarWriteOut
  <2>5. CASE TarWriteErr
    <3>1. CASE UNCHANGED <<tarRun, out, rc, ended, stdout>> /\ tarRun
      BY <1>1, <2>0, <2>1, <3>1 DEF EndOnDisk
    <3>2. CASE Die(Signal) /\ UNCHANGED stdout
      BY <2>2, <3>2 DEF Die
    <3> QED BY <2>5, <3>1, <3>2 DEF TarWriteErr
  <2>6. CASE TarEnd
    <3>1. tarRun /\ UNCHANGED <<tarRun, rc>> /\ (out' = <<"end">>
            \/ out' = <<"end", "pad">>)
      BY <2>6 DEF TarEnd
    <3>2. Holds(out', "end")
      BY <3>1 DEF Holds
    <3> QED BY <1>1, <2>1, <3>1, <3>2
  <2>7. CASE TarExit
    <3>1. tarRun /\ ended /\ out = <<>> /\ tarRun' = FALSE
            /\ UNCHANGED <<out, rc, ended, stdout>>
      BY <2>7 DEF TarExit, Die, pipeVars
    <3> QED BY <1>1, <1>2, <2>0, <3>1 DEF EndKept, Aborted, Drained, EndOnDisk
  <2>8. CASE TarKilled
    BY <2>2, <2>8 DEF TarKilled, Die, pipeVars
  <2> QED BY <1>4, <2>3, <2>4, <2>5, <2>6, <2>7, <2>8 DEF TarNext
<1>5. CASE PumpNext \/ IndexNext \/ UNCHANGED vars
  <2>1. UNCHANGED <<main, tarRun, out, rc, ended, frame, buf, failed,
          archive, stdout>>
    BY <1>5 DEF PumpNext, IndexNext, vars, mainVars, tarVars, pipeVars,
       frameVars, diskVars
  <2> QED BY <1>1, <2>1 DEF EndKept, EndOnDisk, Aborted, Drained, StdoutEof
<1>6. CASE FrameNext
  <2>0. UNCHANGED <<main, tarRun, out, rc, ended>>
    BY <1>6 DEF FrameNext, mainVars, tarVars
  <2>1. ASSUME frame # "closed", failed' => frame' \in {"close", "closed"},
               Drained' => StdoutEof' /\ buf' = <<>>,
               (End /\ ~Aborted /\ ~Aborted') => End', Aborted => Aborted'
        PROVE  EndKept'
    BY <1>1, <2>0, <2>1 DEF EndKept
  <2>2. CASE FrameRead
    <3>1. /\ frame = "read" /\ stdout # <<>>
               /\ UNCHANGED <<frame, failed, archive>>
          /\ stdout' = Tail(stdout) /\ buf' = Append(buf, Head(stdout))
      BY <2>2 DEF FrameRead, diskVars
    <3>2. Head(stdout) \in Unit
      BY <1>0, <3>1
    <3>3. Holds(stdout, "end") => "end" = Head(stdout)
            \/ Holds(stdout', "end")
      BY <1>0, <3>1, TailFacts
    <3>4. Holds(buf', "end") <=> Holds(buf, "end") \/ Head(stdout) = "end"
      BY <1>0, <3>1, <3>2, AppendFacts
    <3>5. End => End'
      BY <2>0, <3>1, <3>3, <3>4 DEF EndOnDisk
    <3> QED BY <1>1, <2>1, <3>1, <3>5 DEF Drained, Aborted
  <2>3. CASE FrameWrite
    <3>1. /\ frame = "read" /\ UNCHANGED <<failed, stdout>>
               /\ frame' \in {"feed", "abort"}
          /\ \/ frame' = "feed" /\ archive' = Append(archive, buf)
             \/ frame' = "abort" /\ UNCHANGED archive
      BY <2>3 DEF FrameWrite
    <3>2. frame' = "feed" => (EndOnDisk \/ Holds(buf, "end") => EndOnDisk')
      <4> SUFFICES ASSUME frame' = "feed" PROVE EndOnDisk \/ Holds(buf,
                   "end") => EndOnDisk'
        OBVIOUS
      <4>0. archive' = Append(archive, buf)
        BY <3>1
      <4>1. /\ DOMAIN archive' = 1..(Len(archive) + 1)
                 /\ archive'[Len(archive) + 1] = buf
            /\ DOMAIN archive = 1..Len(archive) /\ Len(archive) \in Nat
            /\ \A i \in 1..Len(archive) : archive'[i] = archive[i]
        BY <1>0, <4>0
      <4> QED BY <4>1 DEF EndOnDisk
    <3> QED BY <1>1, <2>0, <2>1, <3>1, <3>2 DEF Drained, Aborted
  <2>4. CASE FrameOpen \/ FrameFeed \/ FrameFlush \/ FrameSync
    <3>1. /\ UNCHANGED <<buf, failed, archive, stdout>>
               /\ frame \in {"open", "feed", "flush", "read"}
          /\ frame' \in {"read", "abort", "flush", "finish"}
          /\ frame' = "finish" => StdoutEof /\ buf = <<>>
      BY <2>4 DEF FrameOpen, FrameFeed, FrameFlush, FrameSync, diskVars
    <3> QED BY <1>1, <1>2, <2>0, <2>1, <3>1 DEF Drained, Aborted, EndOnDisk
  <2>5. CASE FrameSentinel \/ FrameJoin \/ FrameFinal \/ FrameUnlink
    <3>1. /\ UNCHANGED <<buf, archive, stdout>> 
          /\ \/ frame = "finish" /\ frame' = "joinok" /\ failed' = failed
             \/ frame = "abort" /\ frame' = "joinerr" /\ failed' = failed
             \/ frame = "joinok" /\ frame' = "final" /\ failed' = failed
             \/ frame = "joinerr" /\ frame' = "close" /\ failed'
             \/ frame = "final" /\ frame' = "unlink" /\ failed' = failed
             \/ frame = "final" /\ frame' = "close" /\ failed'
             \/ frame = "unlink" /\ frame' = "close" /\ failed' = failed
      BY <2>5 DEF FrameSentinel, FrameJoin, FrameFinal, FrameUnlink, diskVars
    <3> QED BY <1>1, <1>2, <2>0, <2>1, <3>1 DEF Drained, Aborted, EndOnDisk
  <2>6. CASE FrameClose
    <3>1. /\ frame = "close" /\ frame' = "closed" /\ stdout' = <<>>
          /\ UNCHANGED <<buf, archive, failed>>
      BY <2>6 DEF FrameClose, diskVars
    <3>2. ~failed => stdout' = stdout /\ StdoutEof /\ buf = <<>>
      BY <1>1, <3>1 DEF Drained, StdoutEof
    <3> QED BY <1>1, <1>2, <2>0, <2>1, <3>1, <3>2 DEF Drained, Aborted,
               EndOnDisk
  <2> QED BY <1>6, <2>2, <2>3, <2>4, <2>5, <2>6 DEF FrameNext
<1> QED BY <1>3, <1>4, <1>5, <1>6 DEF Next

-----------------------------------------------------------------------------
(* Theorems *)

\* Every reachable state satisfies the inductive invariant.
LEMMA InitIInv == Init => IInv
<1> SUFFICES ASSUME Init PROVE IInv
  OBVIOUS
<1>1. TypeOK
  BY InitTypes
<1>2. EndIsLast
  <2>1. ~EndOnDisk
    BY DEF Init, EndOnDisk
  <2> QED BY <2>1, NoEnd DEF Init, EndIsLast
<1>3. QueueInOrder
  BY DEF Init, QueueInOrder, Fed, Writing, IndexLive, SentinelSent
<1>4. IndexCovers
  BY DEF Init, IndexCovers
<1>5. FramesMatch
  BY DEF Init, FramesMatch
<1>6. EndKept
  BY DEF Init, EndKept, Drained, Signal
<1> QED BY <1>1, <1>2, <1>3, <1>4, <1>5, <1>6 DEF IInv

\* The types are an invariant of their own: every pipe and the index queue
\* respect their capacity, and no frame is longer than FrameSize.
THEOREM ShardWriterTypes == Spec => []TypeOK
<1>1. Init => TypeOK
  BY InitTypes
<1>2. TypeOK /\ [Next]_vars => TypeOK'
  BY ProcTypes, FrameTypes, IndexTypes, FlagTypes DEF TypeOK
<1> QED BY <1>1, <1>2, PTL DEF Spec

\* The conjunction of the parts is inductive.
THEOREM ShardWriterInvariant == Spec => []IInv
<1>1. Init => IInv
  BY InitIInv
<1>2. IInv /\ [Next]_vars => IInv'
  <2> SUFFICES ASSUME IInv, [Next]_vars PROVE IInv'
    OBVIOUS
  <2>1. TypeOK'
    BY ProcTypes, FrameTypes, IndexTypes, FlagTypes DEF IInv, TypeOK
  <2>2. EndIsLast' /\ QueueInOrder' /\ FramesMatch' /\ EndKept'
    BY EndStep, QueueStep, FramesStep, EndKeptStep DEF IInv
  <2>3. IndexCovers'
    BY CoverStep DEF IInv
  <2> QED BY <2>1, <2>2, <2>3 DEF IInv
<1> QED BY <1>1, <1>2, PTL DEF Spec

\* write_framed reports index_built only for an index of the whole archive:
\* the frames the index thread left in the queue hold padding alone.
THEOREM BuiltIndexTheorem == Spec => []BuiltIndexIsComplete
<1>1. IInv => BuiltIndexIsComplete
  <2> SUFFICES ASSUME IInv, built
               PROVE  indexed /\ sidecar = Members(Len(archive))
    BY DEF BuiltIndexIsComplete
  <2>1. Covered /\ indexed /\ sidecar = Members(taken) /\ SentinelSent
    BY DEF IInv, IndexCovers
  <2>2. archive \in Seq(Seq(Unit)) /\ taken \in Nat
    BY DEF IInv, TypeOK, FrameTypeOK, IndexTypeOK
  <2>3. taken <= Len(archive)
    BY <2>1 DEF Covered, Fed, SentinelSent
  <2>4. \A i \in DOMAIN archive : i > taken =>
          \A j \in DOMAIN archive[i] : archive[i][j] # "whole"
    <3>1. CASE taken = Len(archive)
      BY <2>2, <3>1
    <3>2. CASE taken > 0 /\ Holds(archive[taken], "end")
      BY <2>2, <2>3, <3>2 DEF IInv, EndIsLast, Padding
    <3> QED BY <2>1, <3>1, <3>2 DEF Covered
  <2>5. Members(taken) = Members(Len(archive))
    <3>1. Members(taken) \subseteq Members(Len(archive))
      BY <2>2, <2>3 DEF Members
    <3>2. ASSUME NEW p \in Members(Len(archive)) PROVE p \in Members(taken)
      <4>1. /\ p \in (1..Len(archive)) \X (1..FrameSize)
            /\ p[2] \in DOMAIN archive[p[1]] /\ archive[p[1]][p[2]] = "whole"
        BY DEF Members
      <4>2. p[1] \in DOMAIN archive /\ p[1] \in Nat
        BY <2>2, <4>1
      <4>3. p[1] <= taken
        BY <2>2, <2>4, <4>1, <4>2
      <4> QED BY <2>2, <4>1, <4>2, <4>3 DEF Members
    <3> QED BY <3>1, <3>2
  <2> QED BY <2>1, <2>5
<1> QED BY <1>1, ShardWriterInvariant, PTL

\* A final .frames.json describes the archive frame for frame, whatever the
\* short reads, cuts and faults on the way.
THEOREM FinalDescribesTheorem == Spec => []FinalDescribesArchive
<1>1. IInv => FinalDescribesArchive
  BY DEF IInv, FramesMatch, FinalDescribesArchive
<1> QED BY <1>1, ShardWriterInvariant, PTL

\* A run that returns with tar's own exit code has the end marker on disk.
THEOREM OkIsWholeTheorem == Spec => []OkIsWhole
<1>1. IInv => OkIsWhole
  <2> SUFFICES ASSUME IInv, main = "returned", rc >= 0 PROVE EndOnDisk
    BY DEF OkIsWhole, EndOnDisk
  <2>1. /\ frame = "closed" /\ ~failed /\ ~tarRun /\ rc # Signal
    BY DEF IInv, EndKept, Signal
  <2>2. ended /\ out = <<>> /\ stdout = <<>> /\ buf = <<>>
    BY <2>1 DEF IInv, EndKept, Drained, StdoutEof
  <2>3. EndOnDisk \/ Holds(buf, "end") \/ Holds(stdout, "end")
          \/ Holds(out, "end")
    BY <2>1, <2>2 DEF IInv, EndKept, Aborted
  <2> QED BY <2>2, <2>3, NoEnd
<1> QED BY <1>1, ShardWriterInvariant, PTL
-----------------------------------------------------------------------------
(* What a crash leaves *)

\* One more interval after a flush boundary is a flush boundary.
LEMMA NextBoundary ==
  ASSUME NEW f \in Nat \ {0}, NEW a \in Nat, a % f = 0
  PROVE  (a + f) % f = 0
<1> DEFINE q == a \div f
<1>1. q \in Nat /\ a = q * f
  OBVIOUS
<1>2. a + f = (q + 1) * f
  BY <1>1
<1>3. \A n, k \in Nat : n = k * f => n % f = 0
  OBVIOUS
<1> QED BY <1>1, <1>2, <1>3

\* The partial list lags by less than an interval while the next frame is read,
\* and a flush is due exactly at a boundary.
Flushed == IF partial = Absent THEN 0 ELSE partial
Lag ==
    /\ partial # Absent => partial % FlushEvery = 0
    /\ Flushed <= Len(archive)
    /\ frame \in {"open", "read"} => Len(archive) - Flushed < FlushEvery
    /\ frame = "flush" => Len(archive) % FlushEvery = 0
    /\ frame \in {"feed", "flush"} => Len(archive) - Flushed <= FlushEvery

LEMMA LagStep == TypeOK /\ FramesMatch /\ Lag /\ [Next]_vars => Lag'
<1> SUFFICES ASSUME TypeOK, FramesMatch, Lag, [Next]_vars PROVE Lag'
  OBVIOUS
<1> DEFINE n == Len(archive)
<1>0. /\ frame \in FramePC /\ partial \in Nat \cup {Absent}
      /\ archive \in Seq(Seq(Unit)) /\ buf \in Seq(Unit)
      /\ FlushEvery \in Nat \ {0} /\ n \in Nat /\ Flushed \in Nat
  BY ShardWriterAssumption DEF TypeOK, FrameTypeOK, Flushed
<1>1. /\ partial # Absent => partial % FlushEvery = 0
      /\ Flushed <= n
      /\ frame \in {"open", "read"} => n - Flushed < FlushEvery
      /\ frame = "flush" => n % FlushEvery = 0
      /\ frame \in {"feed", "flush"} => n - Flushed <= FlushEvery
  BY DEF Lag
<1>2. Writing => Len(frames) = n
  BY DEF FramesMatch, Intact
<1>3. Flushed % FlushEvery = 0
  <2>1. 0 % FlushEvery = 0
    BY <1>0
  <2> QED BY <1>1, <2>1 DEF Flushed
<1>4. ASSUME UNCHANGED <<archive, partial>>,
             frame' = frame \/ frame' \notin {"open", "read", "feed", "flush"}
                \/ (frame = "open" /\ frame' = "read")
      PROVE  Lag'
  BY <1>1, <1>4 DEF Lag, Flushed
<1>5. CASE MainNext \/ TarNext \/ PumpNext \/ IndexNext \/ UNCHANGED vars
  BY <1>4, <1>5 DEF MainNext, TarNext, PumpNext, IndexNext, vars,
     frameVars, diskVars
<1>6. CASE FrameWrite
  <2>1. frame = "read" /\ UNCHANGED partial
    BY <1>6 DEF FrameWrite
  <2>2. CASE frame' = "feed" /\ archive' = Append(archive, buf)
    <3>1. Len(archive') = n + 1
      BY <1>0, <2>2
    <3> HIDE DEF n
    <3> QED BY <1>0, <1>1, <2>1, <2>2, <3>1 DEF Lag, Flushed
  <2> QED BY <1>4, <1>6, <2>1, <2>2 DEF FrameWrite
<1>7. CASE FrameFeed
  <2>1. /\ frame = "feed" /\ UNCHANGED <<archive, partial>>
        /\ frame' = IF n % FlushEvery = 0 THEN "flush" ELSE "read"
    BY <1>2, <1>7 DEF FrameFeed, diskVars, Writing
  <2>2. n - Flushed # FlushEvery \/ n % FlushEvery = 0
    <3>1. (Flushed + FlushEvery) % FlushEvery = 0
      BY <1>0, <1>3, NextBoundary
    <3>2. n - Flushed = FlushEvery => n = Flushed + FlushEvery
      BY <1>0
    <3> QED BY <3>1, <3>2
  <2>3. n - Flushed <= FlushEvery
    BY <1>1, <2>1
  <2>4. n % FlushEvery # 0 => n - Flushed < FlushEvery
    <3> DEFINE mod == n % FlushEvery
    <3>1. mod = 0 \/ n - Flushed # FlushEvery
      BY <2>2
    <3> HIDE DEF mod
    <3>2. mod # 0 => n - Flushed < FlushEvery
      BY <1>0, <2>3, <3>1
    <3> QED BY <3>2 DEF mod
  <2> QED BY <1>1, <2>1, <2>3, <2>4 DEF Lag, Flushed
<1>8. CASE FrameFlush
  <2>1. frame = "flush" /\ archive' = archive
    BY <1>8 DEF FrameFlush
  <2>2. CASE frame' = "read" /\ partial' = Len(frames)
    <3>1. partial' = n /\ n % FlushEvery = 0
      BY <1>1, <1>2, <2>1, <2>2 DEF Writing
    <3>2. Flushed' = n
      BY <1>0, <3>1 DEF Flushed, Absent
    <3> HIDE DEF n
    <3>3. n - n < FlushEvery
      BY <1>0
    <3>4. Len(archive') = n
      BY <2>1 DEF n
    <3> QED BY <1>0, <2>1, <2>2, <3>1, <3>2, <3>3, <3>4 DEF Lag
  <2> QED BY <1>4, <1>8, <2>1, <2>2 DEF FrameFlush
<1>9. CASE FrameUnlink
  <2>1. frame' = "close" /\ archive' = archive /\ partial' = Absent
    BY <1>9 DEF FrameUnlink
  <2> QED BY <1>0, <2>1 DEF Lag, Flushed
<1>10. CASE FrameOpen \/ FrameRead \/ FrameSync \/ FrameSentinel \/ FrameJoin
            \/ FrameFinal \/ FrameClose
  <2>1. /\ UNCHANGED <<archive, partial>>
        /\ \/ frame' = frame \/ (frame = "open" /\ frame' = "read")
           \/ frame' \notin {"open", "read", "feed", "flush"}
    BY <1>10 DEF FrameOpen, FrameRead, FrameSync, FrameSentinel, FrameJoin,
       FrameFinal, FrameClose, diskVars
  <2> QED BY <1>4, <2>1
<1> QED BY <1>5, <1>6, <1>7, <1>8, <1>9, <1>10 DEF Next, FrameNext

\* Whenever the worker dies, the partial frame list ends at a flush boundary,
\* describes no frame that is not on disk, and while the stream is being read
\* lags by one flush interval at most.
THEOREM PartialFlushedTheorem == Spec => []PartialCoversFlushed
<1>1. Init => Lag
  <2> SUFFICES ASSUME Init PROVE Lag
    OBVIOUS
  <2>1. frame = "open" /\ Len(archive) = 0 /\ partial = Absent
    BY DEF Init
  <2> QED BY <2>1, ShardWriterAssumption DEF Lag, Flushed
<1>2. IInv /\ Lag /\ [Next]_vars => Lag'
  BY LagStep DEF IInv
<1>3. IInv /\ Lag => PartialCoversFlushed
  <2> SUFFICES ASSUME IInv, Lag PROVE PartialCoversFlushed
    OBVIOUS
  <2>1. /\ partial \in Nat \cup {Absent} /\ Len(archive) \in Nat
        /\ FlushEvery \in Nat \ {0}
    BY ShardWriterAssumption DEF IInv, TypeOK, FrameTypeOK
  <2>2. frame \in {"read", "feed", "flush"} => Len(archive) - Flushed <= FlushEvery
    BY <2>1 DEF Lag, Flushed
  <2> QED BY <2>1, <2>2 DEF Lag, PartialCoversFlushed, Flushed
<1> QED BY <1>1, <1>2, <1>3, ShardWriterInvariant, PTL DEF Spec

=============================================================================
