----------------------------- MODULE FrameVerify -----------------------------
(***************************************************************************)
(* heal.verify_frame_checksums: the frames of one archive are read back    *)
(* from the store and compared with their digests; a frame that does not   *)
(* match is read again at once, and once more after the whole archive has  *)
(* been swept, before it is called bad.                                    *)
(*                                                                         *)
(* The bytes of a frame are "good" (they match the digest), "bad" (what is *)
(* stored is damaged) or some noise, no two noises being equal.  A read is *)
(* served by the client's page cache, else by the store's memory, else by  *)
(* what is stored.  Only copies that differ from what is stored, or from   *)
(* what was stored before it rotted, are kept: "same" stands for a copy    *)
(* that makes no difference, be it there or not.                           *)
(***************************************************************************)
EXTENDS Integers, FiniteSets

CONSTANTS
    Archive,     \* archives on the mount
    Frames,      \* number of frames of each
    Retries,     \* immediate re-reads of a frame that does not match
    Noise,       \* faulty contents: one per fault
    SweepClears  \* a sweep and the pause after it empty the store's memory

Frame == 1 .. Frames
Spot == Archive \X Frame

ASSUME FrameVerifyAssumption ==
    /\ Frames \in Nat \ {0} /\ Retries \in Nat
    /\ "good" \notin Noise /\ "bad" \notin Noise /\ "same" \notin Noise
    /\ SweepClears \in BOOLEAN

VARIABLES
    media,   \* what is stored at each spot
    store,   \* the copy in the store's memory
    client,  \* the copy in the client's page cache
    noise,   \* faults left
    check    \* the verification under way

disks == <<media, store, client, noise>>

Bytes == {"good", "bad"} \cup Noise

\* Where a verification is (idle, sweep, retry, deferred, done), the archive,
\* whether the page cache is dropped first, the frame and the re-reads left of
\* it, the contents seen of it, and what was found: bad frames, frames that
\* were good when read again, frames that were different each time, and
\* suspects with the content that was seen of them.  `rotten` is no state of
\* the code: the frames that are damaged in the store at the outset.
NoCheck == [at |-> "idle", archive |-> "none", frame |-> 0, tries |-> 0,
            seen |-> {}, bad |-> {}, recovered |-> {}, unstable |-> {},
            suspects |-> {}, rotten |-> {}]

Served(s) == IF store[s] = "same" THEN media[s] ELSE store[s]

\* A read of spot s returns b, the page cache being `cached`; what it fetches
\* stays in the page cache.
Read(s, cached, b) ==
    IF cached[s] # "same"
    THEN b = cached[s] /\ client' = cached /\ UNCHANGED noise
    ELSE \/ /\ b = Served(s)
            /\ client' = [cached EXCEPT ![s] = IF b = media[s] THEN "same" ELSE b]
            /\ UNCHANGED noise
         \/ /\ b \in noise
            /\ noise' = noise \ {b}
            /\ client' = [cached EXCEPT ![s] = b]

\* The page cache without its copy of spot s, and of archive a.
Evict(s) == [client EXCEPT ![s] = "same"]
Drop(a) == [s \in Spot |-> IF s[1] = a THEN "same" ELSE client[s]]

DiskInit ==
    /\ media = [s \in Spot |-> "good"]
    /\ store = [s \in Spot |-> "same"]
    /\ client = [s \in Spot |-> "same"]
    /\ noise = Noise

-----------------------------------------------------------------------------
(* What happens to the disks *)

\* What is stored is damaged; copies of what it was may be left.
Rot(s) ==
    /\ noise # {} /\ media[s] = "good"
    /\ \E n \in noise : noise' = noise \ {n}
    /\ media' = [media EXCEPT ![s] = "bad"]
    /\ store' \in {store, [store EXCEPT ![s] = IF @ = "same" THEN "good" ELSE @]}
    /\ client' \in {client, [client EXCEPT ![s] = IF @ = "same" THEN "good" ELSE @]}
    /\ UNCHANGED check

\* The copy in the store's memory flips.
Flip(s) ==
    /\ \E n \in noise : noise' = noise \ {n} /\ store' = [store EXCEPT ![s] = n]
    /\ UNCHANGED <<media, client, check>>

\* The store drops its copy.
Forget(s) ==
    /\ store[s] # "same"
    /\ store' = [store EXCEPT ![s] = "same"]
    /\ UNCHANGED <<media, client, noise, check>>

-----------------------------------------------------------------------------
(* verify_frame_checksums *)

Begin(a, dropCache) ==
    /\ check.at = "idle"
    /\ check' = [NoCheck EXCEPT !.at = "sweep", !.archive = a, !.frame = 1,
                   !.rotten = {f \in Frame : Served(<<a, f>>) = "bad"}]
    /\ client' = IF dropCache THEN Drop(a) ELSE client
    /\ UNCHANGED <<media, store, noise>>

Here == <<check.archive, check.frame>>

\* The frame is settled: on to the next one, to the suspects, or to the end.
Onward(c) ==
    IF c.frame < Frames THEN [c EXCEPT !.at = "sweep", !.frame = @ + 1]
    ELSE IF c.suspects = {} THEN [c EXCEPT !.at = "done"]
    ELSE [c EXCEPT !.at = "deferred"]

\* The first read of a frame.
Sweep ==
    /\ check.at = "sweep"
    /\ \E b \in Bytes :
         /\ Read(Here, client, b)
         /\ check' = IF b = "good" THEN Onward(check)
                     ELSE IF Retries = 0
                     THEN Onward([check EXCEPT !.bad = @ \cup {check.frame}])
                     ELSE [check EXCEPT !.at = "retry", !.tries = Retries,
                                        !.seen = {b}]
    /\ UNCHANGED <<media, store>>

\* Faulty variant of Classified: a frame that read differently is a suspect too.
ClassifiedTwice(c) ==
    Onward([c EXCEPT !.suspects = @ \cup {<<c.frame, c.seen>>},
                     !.unstable = IF Cardinality(c.seen) > 1
                                  THEN @ \cup {c.frame} ELSE @])

\* What a frame is held to be after its last re-read.
Classified(c) ==
    IF Cardinality(c.seen) > 1
    THEN Onward([c EXCEPT !.unstable = @ \cup {c.frame}])
    ELSE Onward([c EXCEPT !.suspects = @ \cup {<<c.frame, c.seen>>}])

\* An immediate re-read, its range evicted from the page cache.
Retry ==
    /\ check.at = "retry"
    /\ \E b \in Bytes :
         /\ Read(Here, Evict(Here), b)
         /\ check' = IF b = "good"
                     THEN Onward([check EXCEPT !.recovered = @ \cup {check.frame}])
                     ELSE LET c == [check EXCEPT !.seen = @ \cup {b},
                                                 !.tries = @ - 1]
                          IN  IF c.tries = 0 THEN Classified(c) ELSE c
    /\ UNCHANGED <<media, store>>

\* The pause before the deferred pass.
Pause ==
    /\ check.at = "deferred"
    /\ store' = IF SweepClears
                THEN [s \in Spot |-> IF s[1] = check.archive THEN "same"
                                     ELSE store[s]]
                ELSE store
    /\ check' = [check EXCEPT !.at = "suspects"]
    /\ UNCHANGED <<media, client, noise>>

\* Faulty variant of Recheck: other bytes than before are held against it.
RecheckStrict ==
    /\ check.at = "suspects"
    /\ \E q \in check.suspects, b \in Bytes :
         LET s == <<check.archive, q[1]>>
             c == [check EXCEPT !.suspects = @ \ {q},
                                !.at = IF check.suspects = {q} THEN "done" ELSE @]
         IN  /\ Read(s, Evict(s), b)
             /\ check' = IF b = "good"
                         THEN [c EXCEPT !.recovered = @ \cup {q[1]}]
                         ELSE [c EXCEPT !.bad = @ \cup {q[1]}]
    /\ UNCHANGED <<media, store>>

\* A suspect is read once more.
Recheck ==
    /\ check.at = "suspects"
    /\ \E q \in check.suspects, b \in Bytes :
         LET s == <<check.archive, q[1]>>
             c == [check EXCEPT !.suspects = @ \ {q},
                                !.at = IF check.suspects = {q} THEN "done" ELSE @]
         IN  /\ Read(s, Evict(s), b)
             /\ check' = IF b = "good"
                         THEN [c EXCEPT !.recovered = @ \cup {q[1]}]
                         ELSE IF b \notin q[2]
                         THEN [c EXCEPT !.unstable = @ \cup {q[1]}]
                         ELSE [c EXCEPT !.bad = @ \cup {q[1]}]
    /\ UNCHANGED <<media, store>>

Reading == check.at \in {"sweep", "retry", "suspects"}

=============================================================================
