-------------------------- MODULE IntegrityProofs --------------------------
(***************************************************************************)
(* No healthy shard is called corrupt, no damage passes, and a heal that   *)
(* says so has lost nothing, for any number of shards, frames, re-reads,   *)
(* candidates and faults.                                                  *)
(*                                                                         *)
(* The inductive invariant says of the disks that no fault has happened    *)
(* before it happens (DiskOK), of the check that each frame is in one list *)
(* and those settled lie behind it (CheckOK), that bad frames are damaged  *)
(* (Confirmed), that rotten ones have not passed (Caught), and that the    *)
(* members in bad frames are on --heal's list (Healing).                   *)
(***************************************************************************)
EXTENDS Integrity, TLAPS

\* The frames that have been sorted out, or put off, by a check.
Deferred(c) == {q[1] : q \in c.suspects}
Settled(c) == c.bad \cup c.recovered \cup c.unstable \cup Deferred(c)

\* Each frame is in one list.
Sorted(c) ==
    /\ c.bad \cap (c.recovered \cup c.unstable) = {}
    /\ c.recovered \cap c.unstable = {}
    /\ Deferred(c) \cap (c.bad \cup c.recovered \cup c.unstable) = {}
    /\ \A q, r \in c.suspects : q[1] = r[1] => q = r

\* A check is well-formed: what it has settled lies behind it.
Good(c) ==
    /\ c \in Verified /\ Sorted(c)
    /\ c.at \in {"sweep", "retry"} =>
         c.frame \in Frame /\ \A f \in Settled(c) : f < c.frame
    /\ c.at = "retry" => c.tries > 0
    /\ c.at = "done" => c.suspects = {}

\* What it has seen is no fault that is still to come.
Unseen(c, left) ==
    /\ c.seen \cap left = {}
    /\ \A q \in c.suspects : q[2] \cap left = {}

\* The frames it found rotten, as far as it has got.
Kept(c) ==
    \A f \in c.rotten :
       \/ f \in c.bad \cup c.unstable \cup Deferred(c)
       \/ c.at \in {"sweep", "retry"} /\ f >= c.frame

-----------------------------------------------------------------------------
\* Two states of a check that has found the same.
SameFinds(d, c) ==
    /\ d.archive = c.archive /\ d.seen = c.seen /\ d.bad = c.bad
    /\ d.recovered = c.recovered /\ d.unstable = c.unstable
    /\ d.suspects = c.suspects /\ d.rotten = c.rotten

\* The same but for where the check is and its suspects.
SameLists(d, c) ==
    /\ d.archive = c.archive /\ d.seen = c.seen /\ d.bad = c.bad
    /\ d.recovered = c.recovered /\ d.unstable = c.unstable
    /\ d.rotten = c.rotten /\ d.frame = c.frame

LEMMA OnwardFacts ==
  ASSUME NEW c \in Verified, c.frame \in Frame
  PROVE  LET d == Onward(c) IN
         /\ d \in Verified /\ SameFinds(d, c)
         /\ \/ c.frame < Frames /\ d.at = "sweep" /\ d.frame = c.frame + 1
            \/ c.frame = Frames /\ d.at = "done" /\ c.suspects = {}
            \/ c.frame = Frames /\ d.at = "deferred"
<1> USE FrameVerifyAssumption DEF SameFinds
<1>1. CASE c.frame < Frames
  <2>1. c.frame + 1 \in 0 .. Frames
    BY <1>1 DEF Frame
  <2>2. Onward(c) = [c EXCEPT !.at = "sweep", !.frame = c.frame + 1]
    BY <1>1 DEF Onward
  <2> QED BY <1>1, <2>1, <2>2 DEF Verified
<1>2. CASE c.frame = Frames /\ c.suspects = {}
  <2>1. Onward(c) = [c EXCEPT !.at = "done"]
    BY <1>2 DEF Onward
  <2> QED BY <1>2, <2>1 DEF Verified
<1>3. CASE c.frame = Frames /\ c.suspects # {}
  <2>1. Onward(c) = [c EXCEPT !.at = "deferred"]
    BY <1>3 DEF Onward
  <2> QED BY <1>3, <2>1 DEF Verified
<1> QED BY <1>1, <1>2, <1>3 DEF Frame

\* When the frame at hand is in its list, the check goes on.
LEMMA OnwardGood ==
  ASSUME NEW c \in Verified, c.frame \in Frame, Sorted(c),
         \A f \in Settled(c) : f <= c.frame, NEW d, d = Onward(c)
  PROVE  /\ Good(d) /\ SameFinds(d, c) /\ d.at \notin {"idle", "suspects"}
         /\ (\A f \in c.rotten : f \in c.bad \cup c.unstable \cup Deferred(c)
                                 \/ f > c.frame)
            => Kept(d)
<1> DEFINE Passed == \A f \in c.rotten : f \in c.bad \cup c.unstable \cup Deferred(c)
                                         \/ f > c.frame
<1>2. /\ d \in Verified /\ SameFinds(d, c)
      /\ \/ c.frame < Frames /\ d.at = "sweep" /\ d.frame = c.frame + 1
         \/ c.frame = Frames /\ d.at = "done" /\ c.suspects = {}
         \/ c.frame = Frames /\ d.at = "deferred"
  BY OnwardFacts
<1>3. Sorted(d) /\ Settled(d) = Settled(c) /\ Deferred(d) = Deferred(c)
  BY <1>2 DEF Sorted, Settled, Deferred, SameFinds
<1>4. Settled(c) \subseteq Frame /\ c.rotten \subseteq Frame
  BY DEF Settled, Deferred, Verified
<1>5. ASSUME c.frame < Frames, d.at = "sweep", d.frame = c.frame + 1
      PROVE  Good(d) /\ (Passed => Kept(d))
  <2>1. d.frame \in Frame /\ \A f \in Settled(d) : f < d.frame
    BY <1>3, <1>4, <1>5, FrameVerifyAssumption DEF Frame
  <2>2. Good(d)
    BY <1>2, <1>3, <1>5, <2>1 DEF Good
  <2>3. Passed => Kept(d)
    BY <1>2, <1>3, <1>4, <1>5, FrameVerifyAssumption DEF Kept, SameFinds, Frame
  <2> QED BY <2>2, <2>3
<1>6. ASSUME c.frame = Frames, d.at = "deferred" \/ (d.at = "done" /\ c.suspects = {})
      PROVE  Good(d) /\ (Passed => Kept(d))
  <2>1. Good(d)
    BY <1>2, <1>3, <1>6 DEF Good, SameFinds
  <2>2. Passed => Kept(d)
    BY <1>2, <1>3, <1>4, <1>6, FrameVerifyAssumption DEF Kept, SameFinds, Frame
  <2> QED BY <2>1, <2>2
<1>7. Good(d) /\ (Passed => Kept(d))
  BY <1>2, <1>5, <1>6
<1> QED BY <1>2, <1>7

-----------------------------------------------------------------------------
(* Reading *)

Memory == {"same", "good"} \cup Noise

\* Only what is stored can be "bad"; a copy is good or noise, and no noise that
\* is to come is there already.
DiskOK ==
    /\ media \in [Spot -> {"good", "bad"}] /\ noise \subseteq Noise
    /\ store \in [Spot -> Memory] /\ client \in [Spot -> Memory]
    /\ \A s \in Spot : store[s] \notin noise /\ client[s] \notin noise

LEMMA ReadFacts ==
  ASSUME DiskOK, NEW s \in Spot, NEW cached \in [Spot -> Memory],
         \A x \in Spot : cached[x] \in {client[x], "same"},
         NEW b, Read(s, cached, b), UNCHANGED <<media, store>>
  PROVE  /\ DiskOK' /\ b \in Bytes /\ b \notin noise' /\ noise' \subseteq noise
         /\ \/ cached[s] # "same" /\ b = cached[s]
            \/ cached[s] = "same" /\ b \in noise \cup {Served(s)}
         /\ \A x \in Spot : client'[x] \in {cached[x], b}
<1> USE FrameVerifyAssumption DEF DiskOK, Memory, Bytes
<1>0. "same" \notin noise
  OBVIOUS
<1>1. CASE cached[s] # "same"
  BY <1>0, <1>1 DEF Read
<1>2. CASE /\ cached[s] = "same" /\ b = Served(s)
           /\ client' = [cached EXCEPT ![s] = IF b = media[s] THEN "same" ELSE b]
           /\ UNCHANGED noise
  <2>1. b = media[s] \/ (b = store[s] /\ store[s] # "same")
    BY <1>2 DEF Served
  <2>2. b \in Bytes
    <3>1. media[s] \in {"good", "bad"} /\ store[s] \in {"same", "good"} \cup Noise
      OBVIOUS
    <3> QED BY <2>1, <3>1
  <2>3. b \notin noise
    <3>1. media[s] \notin noise
      OBVIOUS
    <3>2. store[s] \notin noise
      OBVIOUS
    <3> QED BY <2>1, <3>1, <3>2
  <2>4. client' \in [Spot -> Memory] /\ \A x \in Spot : client'[x] \in {cached[x], b}
    BY <1>2, <2>1
  <2>5. \A x \in Spot : client'[x] \notin noise
    BY <1>0, <2>3, <2>4
  <2> QED BY <1>2, <2>2, <2>3, <2>4, <2>5
<1>3. CASE /\ cached[s] = "same" /\ b \in noise /\ noise' = noise \ {b}
           /\ client' = [cached EXCEPT ![s] = b]
  <2>1. client' \in [Spot -> Memory] /\ \A x \in Spot : client'[x] \in {cached[x], b}
    BY <1>3
  <2>2. \A x \in Spot : client'[x] \notin noise' /\ store'[x] \notin noise'
    BY <1>0, <1>3, <2>1
  <2> QED BY <1>3, <2>1, <2>2
<1> QED BY <1>1, <1>2, <1>3 DEF Read

\* A frame that is rotten, and of which there is no good copy, reads good from
\* nowhere.
Hopeless(c) ==
    \A f \in c.rotten : LET s == <<c.archive, f>>
                        IN  media[s] = "bad" /\ store[s] # "good" /\ client[s] # "good"

LEMMA ReadHopeless ==
  ASSUME DiskOK, NEW c, Hopeless(c), NEW f \in c.rotten, NEW cached,
         NEW s \in Spot, s = <<c.archive, f>>, cached[s] \in {client[s], "same"},
         NEW b, Read(s, cached, b)
  PROVE  b # "good"
<1>1. media[s] = "bad" /\ store[s] # "good" /\ client[s] # "good"
  BY DEF Hopeless
<1>2. Served(s) # "good"
  BY <1>1 DEF Served
<1>3. "good" \notin noise
  BY FrameVerifyAssumption DEF DiskOK
<1> QED BY <1>1, <1>2, <1>3 DEF Read

LEMMA StayHopeless ==
  ASSUME Hopeless(check), check'.archive = check.archive, check'.rotten = check.rotten,
         UNCHANGED <<media, store>>, check.archive \in Archive,
         check.rotten \subseteq Frame, NEW s \in Spot,
         NEW b, b = "good" => \A f \in check.rotten : s # <<check.archive, f>>,
         \A x \in Spot : client'[x] \in {client[x], "same"} \/ (x = s /\ client'[x] = b)
  PROVE  Hopeless(check)'
<1> SUFFICES ASSUME NEW f \in check.rotten
             PROVE  LET x == <<check.archive, f>>
                    IN  media[x] = "bad" /\ store[x] # "good" /\ client'[x] # "good"
  BY DEF Hopeless
<1>1. <<check.archive, f>> \in Spot
  BY DEF Spot
<1> QED BY <1>1 DEF Hopeless

-----------------------------------------------------------------------------
(* Checking a frame *)

CheckOK == Good(check) /\ Unseen(check, noise)

\* Frame f is put in one of the lists of check d, or in none, which gives c.
Puts(c, d, f) ==
    /\ c.archive = d.archive /\ c.rotten = d.rotten /\ c.frame = d.frame
    /\ \/ /\ c.bad = d.bad /\ c.recovered = d.recovered
          /\ c.unstable = d.unstable /\ c.suspects = d.suspects
       \/ /\ c.bad = d.bad \cup {f} /\ c.recovered = d.recovered
          /\ c.unstable = d.unstable /\ c.suspects = d.suspects
       \/ /\ c.bad = d.bad /\ c.recovered = d.recovered \cup {f}
          /\ c.unstable = d.unstable /\ c.suspects = d.suspects
       \/ /\ c.bad = d.bad /\ c.recovered = d.recovered
          /\ c.unstable = d.unstable \cup {f} /\ c.suspects = d.suspects
       \/ /\ c.bad = d.bad /\ c.recovered = d.recovered
          /\ c.unstable = d.unstable
          /\ \E x : c.suspects = d.suspects \cup {<<f, x>>}

\* The frame at hand is settled once, and the check goes on.
LEMMA FrameSettled ==
  ASSUME NEW d, Good(d), d.at \in {"sweep", "retry"},
         NEW c \in Verified, Puts(c, d, d.frame), NEW e, e = Onward(c)
  PROVE  /\ Good(e) /\ SameFinds(e, c) /\ e.at \notin {"idle", "suspects"}
         /\ Kept(d) /\ (d.frame \in d.rotten =>
                          d.frame \in c.bad \cup c.unstable \cup Deferred(c))
            => Kept(e)
<1> DEFINE f == d.frame
<1>1. /\ f \in Frame /\ \A g \in Settled(d) : g < f
      /\ Sorted(d) /\ d \in Verified
  BY DEF Good
<1>2. Settled(d) \subseteq Frame /\ d.rotten \subseteq Frame
  BY <1>1 DEF Settled, Deferred, Verified
<1>3. f \notin Settled(d)
  BY <1>1, FrameVerifyAssumption DEF Frame
<1>4. c.frame = f
  BY DEF Puts
<1>5. Deferred(c) \in {Deferred(d), Deferred(d) \cup {f}}
  <2>1. CASE c.suspects = d.suspects
    BY <2>1 DEF Deferred
  <2>2. CASE \E x : c.suspects = d.suspects \cup {<<f, x>>}
    BY <2>2 DEF Deferred
  <2> QED BY <2>1, <2>2 DEF Puts
<1>6. Settled(c) \subseteq Settled(d) \cup {f}
  BY <1>5 DEF Settled, Puts
<1>7. \A g \in Settled(c) : g <= c.frame
  BY <1>1, <1>2, <1>4, <1>6, FrameVerifyAssumption DEF Frame
<1>8. Sorted(c)
  <2>1. CASE c.suspects = d.suspects
    <3>1. Deferred(c) = Deferred(d)
      BY <2>1 DEF Deferred
    <3>2. \A q, r \in c.suspects : q[1] = r[1] => q = r
      BY <1>1, <2>1 DEF Sorted
    <3>3. f \notin d.bad \cup d.recovered \cup d.unstable \cup Deferred(d)
      BY <1>3 DEF Settled
    <3>4. \/ c.bad = d.bad /\ c.recovered = d.recovered /\ c.unstable = d.unstable
          \/ c.bad = d.bad \cup {f} /\ c.recovered = d.recovered /\ c.unstable = d.unstable
          \/ c.bad = d.bad /\ c.recovered = d.recovered \cup {f} /\ c.unstable = d.unstable
          \/ c.bad = d.bad /\ c.recovered = d.recovered /\ c.unstable = d.unstable \cup {f}
      BY DEF Puts
    <3> QED BY <1>1, <3>1, <3>2, <3>3, <3>4 DEF Sorted
  <2>2. CASE /\ c.bad = d.bad /\ c.recovered = d.recovered /\ c.unstable = d.unstable
             /\ \E x : c.suspects = d.suspects \cup {<<f, x>>}
    <3>1. PICK x : c.suspects = d.suspects \cup {<<f, x>>}
      BY <2>2
    <3>2. \A q \in d.suspects : q[1] # f
      BY <1>3 DEF Settled, Deferred
    <3>3. \A q, r \in c.suspects : q[1] = r[1] => q = r
      BY <1>1, <3>1, <3>2 DEF Sorted
    <3>4. f \notin d.bad \cup d.recovered \cup d.unstable
      BY <1>3 DEF Settled
    <3> QED BY <1>1, <1>5, <2>2, <3>3, <3>4 DEF Sorted
  <2> QED BY <2>1, <2>2 DEF Puts
<1>9. /\ c.bad \cup c.unstable \cup Deferred(c)
           \in {d.bad \cup d.unstable \cup Deferred(d),
                d.bad \cup d.unstable \cup Deferred(d) \cup {f}}
      /\ c.rotten = d.rotten
  <2>1. d.bad \cup d.unstable \cup Deferred(d)
          \subseteq c.bad \cup c.unstable \cup Deferred(c)
    BY <1>5 DEF Puts
  <2>2. c.bad \cup c.unstable \cup Deferred(c)
          \subseteq d.bad \cup d.unstable \cup Deferred(d) \cup {f}
    BY <1>5 DEF Puts
  <2> QED BY <2>1, <2>2 DEF Puts
<1>10. Kept(d) /\ (f \in d.rotten => f \in c.bad \cup c.unstable \cup Deferred(c))
       => \A g \in c.rotten : g \in c.bad \cup c.unstable \cup Deferred(c)
                              \/ g > c.frame
  BY <1>1, <1>2, <1>4, <1>9, FrameVerifyAssumption DEF Kept, Frame
<1> QED BY <1>1, <1>4, <1>7, <1>8, <1>10, OnwardGood

-----------------------------------------------------------------------------
(* The steps of a check *)

\* What every step of a check comes to.
Moved ==
    /\ DiskOK' /\ CheckOK' /\ UNCHANGED media
    /\ check'.archive = check.archive /\ check'.rotten = check.rotten
    /\ check'.at # "idle"
    /\ Hopeless(check) /\ Kept(check) => Hopeless(check)' /\ Kept(check')

\* A frame is read, which gives b, and is settled or not, in check c.
LEMMA FrameRead ==
  ASSUME DiskOK, CheckOK, check.at \in {"sweep", "retry"}, check.archive \in Archive,
         NEW cached \in {client, Evict(Here)}, NEW b, Read(Here, cached, b),
         UNCHANGED <<media, store>>
  PROVE  /\ DiskOK' /\ b \in Bytes /\ b \notin noise' /\ noise' \subseteq noise
         /\ Hopeless(check) =>
              /\ b = "good" => check.frame \notin check.rotten
              /\ check'.archive = check.archive /\ check'.rotten = check.rotten
                 => Hopeless(check)'
<1>1. check.frame \in Frame /\ check \in Verified /\ check.rotten \subseteq Frame
  BY DEF CheckOK, Good, Verified
<1>2. Here \in Spot /\ Here = <<check.archive, check.frame>>
  BY <1>1 DEF Here, Spot
<1>3. cached \in [Spot -> Memory] /\ \A x \in Spot : cached[x] \in {client[x], "same"}
  BY DEF DiskOK, Memory, Evict
<1>4. /\ DiskOK' /\ b \in Bytes /\ b \notin noise' /\ noise' \subseteq noise
      /\ \A x \in Spot : client'[x] \in {cached[x], b}
      /\ \A x \in Spot \ {Here} : client'[x] = cached[x]
  <2>1. /\ DiskOK' /\ b \in Bytes /\ b \notin noise' /\ noise' \subseteq noise
        /\ \A x \in Spot : client'[x] \in {cached[x], b}
    BY <1>2, <1>3, ReadFacts
  <2>2. \A x \in Spot \ {Here} : client'[x] = cached[x]
    BY <1>3 DEF Read
  <2> QED BY <2>1, <2>2
<1>5. ASSUME Hopeless(check), check.frame \in check.rotten PROVE b # "good"
  BY <1>2, <1>3, <1>5, ReadHopeless
<1>6. ASSUME Hopeless(check), check'.archive = check.archive,
             check'.rotten = check.rotten
      PROVE  Hopeless(check)'
  <2>1. b = "good" => \A f \in check.rotten : Here # <<check.archive, f>>
    BY <1>2, <1>5, <1>6
  <2>2. \A x \in Spot : client'[x] \in {client[x], "same"}
                        \/ (x = Here /\ client'[x] = b)
    BY <1>3, <1>4
  <2> QED BY <1>1, <1>2, <1>6, <2>1, <2>2, StayHopeless
<1> QED BY <1>4, <1>5, <1>6

\* A frame is read and settled in check c.
LEMMA SettleStep ==
  ASSUME DiskOK, CheckOK, check.at \in {"sweep", "retry"}, check.archive \in Archive,
         NEW cached \in {client, Evict(Here)}, NEW b, Read(Here, cached, b),
         UNCHANGED <<media, store>>,
         NEW c \in Verified, Puts(c, check, check.frame), Unseen(c, noise'),
         b # "good" => check.frame \in c.bad \cup c.unstable \cup Deferred(c),
         check' = Onward(c)
  PROVE  Moved /\ check'.at # "suspects" /\ check'.bad = c.bad
<1>1. /\ DiskOK'
      /\ Hopeless(check) =>
           /\ b = "good" => check.frame \notin check.rotten
           /\ check'.archive = check.archive /\ check'.rotten = check.rotten
              => Hopeless(check)'
  BY FrameRead
<1>2. /\ Good(check') /\ SameFinds(check', c) /\ check'.at \notin {"idle", "suspects"}
      /\ Kept(check) /\ (check.frame \in check.rotten =>
                            check.frame \in c.bad \cup c.unstable \cup Deferred(c))
         => Kept(check')
  BY FrameSettled DEF CheckOK
<1>3. CheckOK'
  BY <1>2 DEF CheckOK, SameFinds, Unseen
<1>4. check'.archive = check.archive /\ check'.rotten = check.rotten
      /\ check'.bad = c.bad
  BY <1>2 DEF SameFinds, Puts
<1> QED BY <1>1, <1>2, <1>3, <1>4 DEF Moved

LEMMA SweepStep ==
  ASSUME DiskOK, CheckOK, check.archive \in Archive, Sweep
  PROVE  /\ Moved /\ check'.at # "suspects"
         /\ Retries > 0 => check'.bad = check.bad
<1>0. check \in Verified /\ check.frame \in Frame /\ Unseen(check, noise)
  BY DEF CheckOK, Good, Sweep
<1>1. PICK b \in Bytes :
        /\ Read(Here, client, b)
        /\ check' = IF b = "good" THEN Onward(check)
                    ELSE IF Retries = 0
                    THEN Onward([check EXCEPT !.bad = @ \cup {check.frame}])
                    ELSE [check EXCEPT !.at = "retry", !.tries = Retries, !.seen = {b}]
  BY DEF Sweep
<1>2. /\ check.at = "sweep" /\ UNCHANGED <<media, store>>
  BY DEF Sweep
<1>3. noise' \subseteq noise /\ b \notin noise'
  BY <1>1, <1>2, FrameRead
<1>4. CASE b = "good"
  <2>1. Puts(check, check, check.frame) /\ Unseen(check, noise')
    BY <1>0, <1>3 DEF Puts, Unseen
  <2> QED BY <1>0, <1>1, <1>2, <1>4, <2>1, SettleStep
<1>5. CASE b # "good" /\ Retries = 0
  <2>1. PICK c : c = [check EXCEPT !.bad = @ \cup {check.frame}]
    OBVIOUS
  <2>2. c \in Verified /\ Puts(c, check, check.frame) /\ c.seen = check.seen
        /\ c.bad = check.bad \cup {check.frame} /\ c.suspects = check.suspects
    BY <1>0, <2>1 DEF Verified, Puts
  <2>3. Unseen(c, noise')
    BY <1>0, <1>3, <2>2 DEF Unseen
  <2>4. check' = Onward(c) /\ check.frame \in c.bad
    BY <1>1, <1>5, <2>1, <2>2
  <2>5. Moved /\ check'.at # "suspects"
    BY <1>1, <1>2, <2>2, <2>3, <2>4, SettleStep
  <2>6. ~(Retries > 0)
    BY <1>5
  <2> QED BY <2>5, <2>6
<1>6. CASE b # "good" /\ Retries # 0
  <2>1. PICK c : c = [check EXCEPT !.at = "retry", !.tries = Retries, !.seen = {b}]
    OBVIOUS
  <2>2. /\ c \in Verified /\ c.at = "retry" /\ c.tries = Retries /\ c.seen = {b}
        /\ c.archive = check.archive /\ c.bad = check.bad
        /\ c.recovered = check.recovered /\ c.unstable = check.unstable
        /\ c.suspects = check.suspects /\ c.rotten = check.rotten
        /\ c.frame = check.frame
    <3>1. {b} \in SUBSET Bytes /\ Retries \in 0 .. Retries
      BY FrameVerifyAssumption
    <3> QED BY <1>0, <2>1, <3>1 DEF Verified
  <2>3. check' = c
    BY <1>1, <1>6, <2>1
  <2>4. Good(c)
    BY <1>2, <1>6, <2>2, FrameVerifyAssumption
    DEF CheckOK, Good, Sorted, Settled, Deferred
  <2>5. Unseen(c, noise')
    BY <1>0, <1>3, <2>2 DEF Unseen
  <2>6. Kept(check) => Kept(c)
    BY <1>2, <2>2 DEF Kept, Deferred
  <2>7. DiskOK' /\ (Hopeless(check) => Hopeless(check)')
    BY <1>1, <1>2, <2>2, <2>3, FrameRead
  <2>8. CheckOK'
    BY <2>3, <2>4, <2>5 DEF CheckOK
  <2> QED BY <1>2, <2>2, <2>3, <2>6, <2>7, <2>8 DEF Moved
<1> QED BY <1>4, <1>5, <1>6, FrameVerifyAssumption

LEMMA RetryStep ==
  ASSUME DiskOK, CheckOK, check.archive \in Archive, Retry
  PROVE  Moved /\ check'.at # "suspects" /\ check'.bad = check.bad
<1>0. /\ check \in Verified /\ check.frame \in Frame /\ Unseen(check, noise)
      /\ check.tries \in 1 .. Retries
  BY DEF CheckOK, Good, Retry, Verified
<1>1. PICK b \in Bytes :
        /\ Read(Here, Evict(Here), b)
        /\ check' = IF b = "good"
                    THEN Onward([check EXCEPT !.recovered = @ \cup {check.frame}])
                    ELSE LET c == [check EXCEPT !.seen = @ \cup {b}, !.tries = @ - 1]
                         IN  IF c.tries = 0 THEN Classified(c) ELSE c
  BY DEF Retry
<1>2. /\ check.at = "retry" /\ UNCHANGED <<media, store>>
  BY DEF Retry
<1>3. noise' \subseteq noise /\ b \notin noise'
  BY <1>1, <1>2, FrameRead
<1>4. CASE b = "good"
  <2>1. PICK c : c = [check EXCEPT !.recovered = @ \cup {check.frame}]
    OBVIOUS
  <2>2. c \in Verified /\ Puts(c, check, check.frame) /\ c.seen = check.seen
        /\ c.bad = check.bad /\ c.suspects = check.suspects
    BY <1>0, <2>1 DEF Verified, Puts
  <2>3. Unseen(c, noise')
    BY <1>0, <1>3, <2>2 DEF Unseen
  <2>4. check' = Onward(c)
    BY <1>1, <1>4, <2>1
  <2> QED BY <1>1, <1>2, <1>4, <2>2, <2>3, <2>4, SettleStep
<1>5. CASE b # "good"
  <2>1. PICK c : c = [check EXCEPT !.seen = @ \cup {b}, !.tries = @ - 1]
    OBVIOUS
  <2>2. /\ c \in Verified /\ c.at = "retry" /\ c.tries = check.tries - 1
        /\ c.seen = check.seen \cup {b}
        /\ c.archive = check.archive /\ c.bad = check.bad
        /\ c.recovered = check.recovered /\ c.unstable = check.unstable
        /\ c.suspects = check.suspects /\ c.rotten = check.rotten
        /\ c.frame = check.frame
    <3>1. check.seen \cup {b} \in SUBSET Bytes /\ check.tries - 1 \in 0 .. Retries
      BY <1>0, FrameVerifyAssumption DEF Verified
    <3> QED BY <1>0, <1>2, <2>1, <3>1 DEF Verified
  <2>3. check' = IF c.tries = 0 THEN Classified(c) ELSE c
    BY <1>1, <1>5, <2>1
  <2>4. Unseen(c, noise')
    BY <1>0, <1>3, <2>2 DEF Unseen
  <2>5. CASE c.tries # 0
    <3>1. check' = c
      BY <2>3, <2>5
    <3>2. Good(c)
      BY <1>0, <1>2, <2>2, <2>5 DEF CheckOK, Good, Sorted, Settled, Deferred
    <3>3. Kept(check) => Kept(c)
      BY <1>2, <2>2 DEF Kept, Deferred
    <3>4. DiskOK' /\ (Hopeless(check) => Hopeless(check)')
      BY <1>1, <1>2, <2>2, <3>1, FrameRead
    <3> QED BY <1>2, <2>2, <2>4, <3>1, <3>2, <3>3, <3>4 DEF Moved, CheckOK
  <2>6. CASE c.tries = 0 /\ Cardinality(c.seen) > 1
    <3>1. PICK e : e = [c EXCEPT !.unstable = @ \cup {c.frame}]
      OBVIOUS
    <3>2. e \in Verified /\ Puts(e, check, check.frame) /\ e.seen = c.seen
          /\ e.bad = check.bad /\ e.suspects = c.suspects
          /\ check.frame \in e.unstable
      BY <1>0, <2>2, <3>1 DEF Verified, Puts
    <3>3. Unseen(e, noise')
      BY <2>4, <3>2 DEF Unseen
    <3>4. check' = Onward(e)
      BY <2>3, <2>6, <3>1 DEF Classified
    <3> QED BY <1>1, <1>2, <3>2, <3>3, <3>4, SettleStep
  <2>7. CASE c.tries = 0 /\ ~(Cardinality(c.seen) > 1)
    <3>1. PICK e : e = [c EXCEPT !.suspects = @ \cup {<<c.frame, c.seen>>}]
      OBVIOUS
    <3>2. <<c.frame, c.seen>> \in Frame \X SUBSET Bytes
      BY <1>0, <2>2 DEF Verified
    <3>7. e \in Verified /\ SameLists(e, c)
          /\ e.suspects = c.suspects \cup {<<c.frame, c.seen>>}
      <4>1. c.suspects \cup {<<c.frame, c.seen>>} \in SUBSET (Frame \X SUBSET Bytes)
        BY <2>2, <3>2 DEF Verified
      <4> QED BY <2>2, <3>1, <4>1 DEF Verified, SameLists
    <3>3. Puts(e, check, check.frame) /\ e.seen = c.seen /\ e.bad = check.bad
      BY <2>2, <3>7 DEF Puts, SameLists
    <3>4. Unseen(e, noise')
      BY <2>4, <3>7, <3>3 DEF Unseen
    <3>5. check' = Onward(e)
      BY <2>3, <2>7, <3>1 DEF Classified
    <3>6. check.frame \in Deferred(e)
      <4>1. <<c.frame, c.seen>> \in e.suspects /\ <<c.frame, c.seen>>[1] = check.frame
        BY <2>2, <3>7
      <4> QED BY <4>1 DEF Deferred
    <3> QED BY <1>1, <1>2, <3>7, <3>3, <3>4, <3>5, <3>6, SettleStep
  <2> QED BY <2>5, <2>6, <2>7
<1> QED BY <1>4, <1>5

LEMMA PauseStep ==
  ASSUME DiskOK, CheckOK, check.archive \in Archive, Pause
  PROVE  /\ Moved /\ check'.bad = check.bad /\ check'.suspects = check.suspects
         /\ SweepClears => \A f \in Frame : store'[<<check.archive, f>>] = "same"
<1>1. check \in Verified
  BY DEF CheckOK, Good
<1>2. /\ check'.at = "suspects" /\ check' \in Verified /\ SameFinds(check', check)
  BY <1>1 DEF Pause, Verified, SameFinds
<1>3. CheckOK'
  BY <1>2 DEF CheckOK, Good, Unseen, Pause, SameFinds, Sorted, Deferred
<1>4. /\ \A x \in Spot : store'[x] \in {store[x], "same"}
      /\ store' \in [Spot -> Memory]
  BY DEF Pause, DiskOK, Memory
<1>5. DiskOK'
  BY <1>4, FrameVerifyAssumption DEF DiskOK, Pause
<1>6. Hopeless(check) => Hopeless(check)'
  <2>1. \A f \in check.rotten : <<check.archive, f>> \in Spot
    BY <1>1 DEF Verified, Spot
  <2> QED BY <1>2, <1>4, <2>1 DEF Hopeless, Pause, SameFinds
<1>7. Kept(check) => Kept(check')
  BY <1>2 DEF Kept, Pause, Deferred, SameFinds
<1>8. SweepClears => \A f \in Frame : store'[<<check.archive, f>>] = "same"
  BY DEF Pause, Spot
<1> QED BY <1>2, <1>3, <1>5, <1>6, <1>7, <1>8 DEF Moved, Pause, SameFinds

LEMMA RecheckStep ==
  ASSUME DiskOK, CheckOK, check.archive \in Archive, Recheck
  PROVE  /\ Moved /\ store' = store /\ check'.suspects \subseteq check.suspects
         /\ (\A q \in check.suspects :
               store[<<check.archive, q[1]>>] \notin q[2] \ {"good"})
            => \A f \in check'.bad \ check.bad : media[<<check.archive, f>>] = "bad"
<1>0. check \in Verified /\ Unseen(check, noise) /\ Sorted(check)
  BY DEF CheckOK, Good
<1>1. PICK q \in check.suspects, b \in Bytes :
        LET s == <<check.archive, q[1]>>
            c == [check EXCEPT !.suspects = @ \ {q},
                               !.at = IF check.suspects = {q} THEN "done" ELSE @]
        IN  /\ Read(s, Evict(s), b)
            /\ check' = IF b = "good"
                        THEN [c EXCEPT !.recovered = @ \cup {q[1]}]
                        ELSE IF b \notin q[2]
                        THEN [c EXCEPT !.unstable = @ \cup {q[1]}]
                        ELSE [c EXCEPT !.bad = @ \cup {q[1]}]
  BY DEF Recheck
<1> DEFINE f == q[1]
<1>2. PICK s : s = <<check.archive, f>>
  OBVIOUS
<1>3. f \in Frame /\ s \in Spot /\ q[2] \subseteq Bytes
  BY <1>0, <1>2 DEF Verified, Spot
<1>4. PICK c : c = [check EXCEPT !.suspects = @ \ {q},
                                 !.at = IF check.suspects = {q} THEN "done" ELSE @]
  OBVIOUS
<1>5. check.at = "suspects" /\ UNCHANGED <<media, store>>
  BY DEF Recheck
<1>6. /\ c \in Verified /\ c.suspects = check.suspects \ {q}
      /\ c.at \in {"suspects", "done"} /\ (c.at = "done" => c.suspects = {})
      /\ c.archive = check.archive /\ c.bad = check.bad /\ c.rotten = check.rotten
      /\ c.recovered = check.recovered /\ c.unstable = check.unstable
      /\ c.seen = check.seen
  BY <1>0, <1>4, <1>5 DEF Verified
<1>7. /\ Read(s, Evict(s), b)
      /\ \/ b = "good" /\ check' = [c EXCEPT !.recovered = @ \cup {f}]
         \/ b # "good" /\ b \notin q[2] /\ check' = [c EXCEPT !.unstable = @ \cup {f}]
         \/ b # "good" /\ b \in q[2] /\ check' = [c EXCEPT !.bad = @ \cup {f}]
  BY <1>1, <1>2, <1>4
<1>8. /\ check' \in Verified /\ check'.suspects = c.suspects /\ check'.at = c.at
      /\ check'.archive = c.archive /\ check'.rotten = c.rotten /\ check'.seen = c.seen
      /\ \/ /\ b = "good" /\ check'.bad = c.bad /\ check'.unstable = c.unstable
            /\ check'.recovered = c.recovered \cup {f}
         \/ /\ b # "good" /\ check'.bad = c.bad /\ check'.recovered = c.recovered
            /\ check'.unstable = c.unstable \cup {f}
         \/ /\ b # "good" /\ b \in q[2] /\ check'.recovered = c.recovered
            /\ check'.unstable = c.unstable /\ check'.bad = c.bad \cup {f}
  BY <1>3, <1>6, <1>7 DEF Verified
<1>9. f \in Deferred(check) /\ f \notin check.bad \cup check.recovered \cup check.unstable
  BY <1>0, <1>1 DEF Sorted, Deferred
<1>10. Deferred(check') = Deferred(check) \ {f}
  <2>1. \A r \in check.suspects : r[1] = f => r = q
    BY <1>0, <1>1 DEF Sorted
  <2> QED BY <1>6, <1>8, <2>1 DEF Deferred
<1>11. Sorted(check')
  <2>1. \A q1, q2 \in check'.suspects : q1[1] = q2[1] => q1 = q2
    BY <1>0, <1>6, <1>8 DEF Sorted
  <2>2. /\ check.bad \cap (check.recovered \cup check.unstable) = {}
        /\ check.recovered \cap check.unstable = {}
        /\ Deferred(check) \cap (check.bad \cup check.recovered \cup check.unstable) = {}
    BY <1>0 DEF Sorted
  <2> QED BY <1>6, <1>8, <1>9, <1>10, <2>1, <2>2 DEF Sorted
<1>12. Evict(s) \in [Spot -> Memory] /\ \A x \in Spot : Evict(s)[x] \in {client[x], "same"}
       /\ Evict(s)[s] = "same"
  BY <1>3 DEF DiskOK, Memory, Evict
<1>13. /\ DiskOK' /\ noise' \subseteq noise /\ b \in noise \cup {Served(s)}
       /\ \A x \in Spot : client'[x] \in {Evict(s)[x], b}
  BY <1>3, <1>5, <1>7, <1>12, ReadFacts
<1>14. CheckOK'
  BY <1>0, <1>6, <1>8, <1>11, <1>13 DEF CheckOK, Good, Unseen
<1>15. ASSUME Hopeless(check) PROVE Hopeless(check)'
  <2>1. f \in check.rotten => b # "good"
    BY <1>2, <1>3, <1>7, <1>12, <1>15, ReadHopeless
  <2>2. b = "good" => \A g \in check.rotten : s # <<check.archive, g>>
    BY <1>2, <2>1
  <2>3. \A x \in Spot : client'[x] \in {client[x], "same"} \/ (x = s /\ client'[x] = b)
    BY <1>3, <1>7, <1>12, <1>13 DEF Read
  <2>4. check'.archive = check.archive /\ check'.rotten = check.rotten
        /\ check.rotten \subseteq Frame
    BY <1>0, <1>6, <1>8 DEF Verified
  <2> QED BY <1>3, <1>5, <1>15, <2>2, <2>3, <2>4, StayHopeless
<1>16. ASSUME Hopeless(check), Kept(check) PROVE Kept(check')
  <2>1. f \in check.rotten => b # "good"
    BY <1>2, <1>3, <1>7, <1>12, <1>16, ReadHopeless
  <2>2. \A g \in check.rotten : g \in check.bad \cup check.unstable \cup Deferred(check)
    BY <1>5, <1>16 DEF Kept
  <2>3. \A g \in check'.rotten :
          g \in check'.bad \cup check'.unstable \cup Deferred(check')
    BY <1>6, <1>8, <1>10, <2>1, <2>2
  <2> QED BY <2>3 DEF Kept
<1>17. ASSUME \A r \in check.suspects :
                store[<<check.archive, r[1]>>] \notin r[2] \ {"good"},
              NEW g \in check'.bad \ check.bad
       PROVE  media[<<check.archive, g>>] = "bad"
  <2>1. g = f /\ b # "good" /\ b \in q[2]
    BY <1>6, <1>8, <1>17
  <2>2. b \notin noise
    BY <1>0, <1>1, <2>1 DEF Unseen
  <2>3. b = Served(s)
    BY <1>13, <2>2
  <2>4. store[s] \notin q[2] \ {"good"}
    BY <1>1, <1>2, <1>17
  <2>5. b = media[s]
    BY <2>1, <2>3, <2>4 DEF Served
  <2>6. media[s] \in {"good", "bad"}
    BY <1>3 DEF DiskOK
  <2> QED BY <1>2, <2>1, <2>5, <2>6
<1> QED BY <1>5, <1>6, <1>8, <1>13, <1>14, <1>15, <1>16, <1>17 DEF Moved

-----------------------------------------------------------------------------
(* What happens to the disks *)

LEMMA DiskStep ==
  ASSUME DiskOK, CheckOK, NEW s \in Spot, Rot(s) \/ Flip(s) \/ Forget(s)
  PROVE  /\ DiskOK' /\ CheckOK' /\ check' = check
         /\ \A x \in Spot : media[x] = "bad" => media'[x] = "bad"
         /\ \A x \in Spot : store'[x] \in {store[x], "same", "good"} \cup noise
         /\ check.archive \in Archive /\ Hopeless(check) => Hopeless(check)'
<1>0. \A f \in check.rotten : check.archive \in Archive => <<check.archive, f>> \in Spot
  BY DEF CheckOK, Good, Verified, Spot
<1>1. /\ "same" \notin noise /\ "good" \notin noise /\ "bad" \notin noise
      /\ noise \subseteq Memory
  BY FrameVerifyAssumption DEF DiskOK, Memory
<1>2. /\ noise' \subseteq noise /\ check' = check
      /\ media' \in [Spot -> {"good", "bad"}]
      /\ \A x \in Spot : media[x] = "bad" => media'[x] = "bad"
  BY DEF Rot, Flip, Forget, DiskOK
<1>3. /\ store' \in [Spot -> Memory] /\ client' \in [Spot -> Memory]
      /\ \A x \in Spot : store'[x] \notin noise' /\ client'[x] \notin noise'
      /\ \A x \in Spot : store'[x] \in {store[x], "same", "good"} \cup noise
      /\ \A x \in Spot : media[x] = "bad" =>
           /\ store'[x] = "good" => store[x] = "good"
           /\ client'[x] = "good" => client[x] = "good"
  <2>1. CASE Rot(s)
    BY <1>1, <2>1 DEF Rot, DiskOK, Memory
  <2>2. CASE Flip(s)
    BY <1>1, <2>2 DEF Flip, DiskOK, Memory
  <2>3. CASE Forget(s)
    BY <1>1, <2>3 DEF Forget, DiskOK, Memory
  <2> QED BY <2>1, <2>2, <2>3
<1>4. DiskOK'
  BY <1>2, <1>3 DEF DiskOK
<1>5. CheckOK'
  BY <1>2 DEF CheckOK, Unseen
<1>6. check.archive \in Archive /\ Hopeless(check) => Hopeless(check)'
  BY <1>0, <1>2, <1>3 DEF Hopeless
<1> QED BY <1>2, <1>3, <1>4, <1>5, <1>6

-----------------------------------------------------------------------------
(* The invariant *)

Finding == [state : {"none", "verified", "unverified", "disabled", "error"},
            bad : SUBSET Frame, unstable : SUBSET Frame, rotten : SUBSET Frame]
Rows == [status : {"ok", "corrupt"}, flagged : BOOLEAN,
         verify : {"", "verified", "unverified", "disabled", "error"}]

\* A check is of a shard the command has still to check, and a command starts
\* from nothing.
Commands ==
    /\ row \in [Target -> Rows] /\ found \in [Target -> Finding]
    /\ cmd \in {"none", "backup", "verify", "heal", "copy", "healed"}
    /\ todo \subseteq Target
    /\ check.at # "idle" => check.archive \in todo
    /\ cmd \in {"none", "copy", "healed"} => todo = {}
    /\ cmd = "none" => found = NoFind
    /\ cmd = "backup" => \A t \in Target \ todo : found[t].state # "none"

\* What --heal has at the destination.
Copies ==
    /\ damaged \subseteq Member /\ DOMAIN from \subseteq damaged
    /\ DOMAIN out \subseteq DOMAIN from
    /\ turn \in 1 .. Len(Candidates) + 1 /\ rc \in 0 .. 2

\* What is held to be bad is damaged in the store, and a suspect is not read
\* again from the store's memory.
Careful == Retries > 0 /\ SweepClears = TRUE
Confirmed ==
    /\ check.at # "idle" => \A f \in check.bad : media[<<check.archive, f>>] = "bad"
    /\ check.at = "suspects" => \A q \in check.suspects :
         store[<<check.archive, q[1]>>] \notin q[2] \ {"good"}
    /\ \A t \in Target : \A f \in found[t].bad : media[<<t, f>>] = "bad"
    /\ CorruptIsDamaged

\* What was rotten at the outset has not passed.
Caught ==
    /\ check.at # "idle" /\ cmd # "verify" => Hopeless(check) /\ Kept(check)
    /\ cmd # "verify" =>
         \A t \in Target : found[t].rotten \subseteq found[t].bad \cup found[t].unstable

\* The members of the bad frames are damaged, and dealt with in the end.
Healing ==
    /\ cmd \in {"heal", "copy", "healed"} =>
         \A t \in Target \ NoIndex, m \in Member :
           Kind[t][m] = "f" /\ Spread[t][m] \cap found[t].bad # {} => m \in damaged
    /\ cmd = "healed" =>
         /\ damaged \subseteq DOMAIN from
         /\ rc = 0 => \A m \in damaged : from[m] # "none"

IInv == DiskOK /\ CheckOK /\ Commands /\ Copies /\ (Careful => Confirmed) /\ Caught /\ Healing

LEMMA NothingIsFinding == Nothing \in Finding /\ NoFind \in [Target -> Finding]
BY DEF Nothing, Finding, NoFind

LEMMA NoCheckIsGood ==
  /\ Good(NoCheck) /\ Unseen(NoCheck, noise) /\ NoCheck.at = "idle"
  /\ NoCheck.suspects = {} /\ NoCheck.bad = {}
<1>1. NoCheck \in Verified
  BY FrameVerifyAssumption DEF NoCheck, Verified, Frame
<1>2. NoCheck.at = "idle" /\ NoCheck.suspects = {} /\ NoCheck.bad = {}
      /\ NoCheck.recovered = {} /\ NoCheck.unstable = {} /\ NoCheck.seen = {}
  BY DEF NoCheck
<1> QED BY <1>1, <1>2 DEF Good, Sorted, Deferred, Unseen

LEMMA FirstTurn == 1 \in 1 .. Len(Candidates) + 1
<1>1. Len(Candidates) \in Nat
  BY IntegrityAssumption
<1> QED BY <1>1

LEMMA InitIInv == Init => IInv
<1> SUFFICES ASSUME Init PROVE IInv
  OBVIOUS
<1>1. DiskOK
  BY FrameVerifyAssumption DEF Init, DiskInit, DiskOK, Memory
<1>2. CheckOK
  BY NoCheckIsGood DEF Init, CheckOK
<1>3. \A t \in Target : row[t] = Row("ok", FALSE, "") /\ row[t].status = "ok"
      /\ found[t] = Nothing /\ found[t].bad = {} /\ found[t].rotten = {}
  BY DEF Init, Row, NoFind, Nothing
<1>4. row \in [Target -> Rows]
  BY DEF Init, Row, Rows
<1>5. Commands
  BY <1>4, NoCheckIsGood, NothingIsFinding DEF Init, Commands
<1>6. Copies
  <2>1. DOMAIN None = {}
    BY DEF None
  <2>2. damaged = {} /\ from = None /\ out = None /\ turn = 1 /\ rc = 0
    BY DEF Init
  <2> QED BY <2>1, <2>2, FirstTurn DEF Copies
<1>7. Confirmed
  BY <1>3, NoCheckIsGood DEF Init, Confirmed, CorruptIsDamaged
<1>8. Caught
  BY <1>3, NoCheckIsGood DEF Init, Caught
<1>9. Healing
  BY DEF Init, Healing
<1> QED BY <1>1, <1>2, <1>5, <1>6, <1>7, <1>8, <1>9 DEF IInv

-----------------------------------------------------------------------------
(* The steps keep it: checking and the disks *)

LEMMA CheckedArchive ==
  ASSUME IInv, check.at # "idle"
  PROVE  check.archive \in Archive /\ check.archive \in Target
BY IntegrityAssumption DEF IInv, Commands

LEMMA CheckStep ==
  ASSUME IInv, Sweep \/ Retry \/ Pause \/ Recheck,
         UNCHANGED <<row, cmd, todo, found, healing>>
  PROVE  IInv'
<1>0. DiskOK /\ CheckOK /\ check.archive \in Archive /\ check.at # "idle"
  BY CheckedArchive DEF IInv, Sweep, Retry, Pause, Recheck
<1>1. Moved
  BY <1>0, SweepStep, RetryStep, PauseStep, RecheckStep
<1>2. Commands' /\ Copies' /\ Healing'
  BY <1>0, <1>1 DEF IInv, Moved, Commands, Copies, Healing, healing
<1>3. Caught'
  BY <1>0, <1>1 DEF IInv, Moved, Caught
<1>4. ASSUME Careful PROVE Confirmed'
  <2>1. Confirmed
    BY <1>4 DEF IInv
  <2>2. \A t \in Target : \A f \in found'[t].bad : media'[<<t, f>>] = "bad"
    BY <1>1, <2>1 DEF Confirmed, Moved
  <2>3. CorruptIsDamaged'
    BY <1>1, <2>1 DEF Confirmed, Moved, CorruptIsDamaged
  <2>4. CASE Sweep \/ Retry
    <3>1. check'.bad = check.bad /\ check'.at # "suspects"
      BY <1>0, <1>4, <2>4, SweepStep, RetryStep DEF Careful
    <3> QED BY <1>0, <1>1, <2>1, <2>2, <2>3, <3>1 DEF Confirmed, Moved
  <2>5. CASE Pause
    <3>1. /\ check'.bad = check.bad /\ check'.suspects = check.suspects
          /\ \A f \in Frame : store'[<<check.archive, f>>] = "same"
      BY <1>0, <1>4, <2>5, PauseStep DEF Careful
    <3>2. \A q \in check.suspects : q[1] \in Frame /\ q[2] \subseteq Bytes
      BY <1>0 DEF CheckOK, Good, Verified
    <3>3. "same" \notin Bytes
      BY FrameVerifyAssumption DEF Bytes
    <3> QED BY <1>0, <1>1, <2>1, <2>2, <2>3, <3>1, <3>2, <3>3 DEF Confirmed, Moved
  <2>6. CASE Recheck
    <3>1. check.at = "suspects"
      BY <2>6 DEF Recheck
    <3>2. /\ store' = store /\ check'.suspects \subseteq check.suspects
          /\ \A f \in check'.bad \ check.bad : media[<<check.archive, f>>] = "bad"
      BY <1>0, <2>1, <2>6, <3>1, RecheckStep DEF Confirmed
    <3> QED BY <1>0, <1>1, <2>1, <2>2, <2>3, <3>1, <3>2 DEF Confirmed, Moved
  <2> QED BY <2>4, <2>5, <2>6
<1> QED BY <1>1, <1>2, <1>3, <1>4 DEF IInv, Moved

LEMMA DisksStep ==
  ASSUME IInv, NEW s \in Spot, Rot(s) \/ Flip(s) \/ Forget(s),
         UNCHANGED <<row, cmd, todo, found, healing>>
  PROVE  IInv'
<1>1. /\ DiskOK' /\ CheckOK' /\ check' = check
      /\ \A x \in Spot : media[x] = "bad" => media'[x] = "bad"
      /\ \A x \in Spot : store'[x] \in {store[x], "same", "good"} \cup noise
      /\ check.archive \in Archive /\ Hopeless(check) => Hopeless(check)'
  BY DiskStep DEF IInv
<1>2. Commands' /\ Copies' /\ Healing'
  BY <1>1 DEF IInv, Commands, Copies, Healing, healing
<1>3. Caught'
  BY <1>1, CheckedArchive DEF IInv, Caught
<1>4. \A t \in Target, f \in Frame : <<t, f>> \in Spot
  BY IntegrityAssumption DEF Spot
<1>5. ASSUME Careful PROVE Confirmed'
  <2>1. Confirmed
    BY <1>5 DEF IInv
  <2>2. \A t \in Target : \A f \in found'[t].bad : media'[<<t, f>>] = "bad"
    <3>1. \A t \in Target : found[t].bad \subseteq Frame
      BY DEF IInv, Commands, Finding
    <3> QED BY <1>1, <1>4, <2>1, <3>1 DEF Confirmed
  <2>3. CorruptIsDamaged'
    BY <1>1, <1>4, <2>1 DEF Confirmed, CorruptIsDamaged
  <2>4. check.bad \subseteq Frame
        /\ \A q \in check.suspects : /\ q[1] \in Frame /\ q[2] \subseteq Bytes
                                     /\ q[2] \cap noise = {}
    BY DEF IInv, CheckOK, Good, Verified, Unseen
  <2>5. check.at # "idle" => \A f \in check.bad : media'[<<check.archive, f>>] = "bad"
    BY <1>1, <1>4, <2>1, <2>4, CheckedArchive DEF Confirmed
  <2>6. ASSUME check.at = "suspects", NEW q \in check.suspects
        PROVE  store'[<<check.archive, q[1]>>] \notin q[2] \ {"good"}
    <3>1. PICK x : x = <<check.archive, q[1]>>
      OBVIOUS
    <3>2. x \in Spot
      BY <1>4, <2>4, <2>6, <3>1, CheckedArchive
    <3>3. store[x] \notin q[2] \ {"good"}
      BY <2>1, <2>6, <3>1 DEF Confirmed
    <3>4. "same" \notin q[2]
      BY <2>4, FrameVerifyAssumption DEF Bytes
    <3>5. store'[x] \notin q[2] \ {"good"}
      BY <1>1, <2>4, <3>2, <3>3, <3>4
    <3> QED BY <3>1, <3>5
  <2> QED BY <1>1, <2>2, <2>3, <2>5, <2>6 DEF Confirmed
<1> QED BY <1>1, <1>2, <1>3, <1>5 DEF IInv

\* A command's own steps.
LEMMA SameDisks ==
  ASSUME DiskOK, CheckOK, UNCHANGED <<disks, check>>
  PROVE  DiskOK' /\ CheckOK'
BY DEF DiskOK, CheckOK, disks

LEMMA CheckShardStep ==
  ASSUME IInv, NEW t \in Target, CheckShard(t)
  PROVE  IInv'
<1>1. /\ t \in todo /\ check.at = "idle" /\ UNCHANGED <<row, cmd, todo, found, healing>>
      /\ UNCHANGED <<media, store, noise>> /\ t \in Archive
      /\ client' = IF DropsCache THEN Drop(t) ELSE client
  BY IntegrityAssumption DEF CheckShard, Begin
<1>2. PICK R : R = {f \in Frame : Served(<<t, f>>) = "bad"}
  OBVIOUS
<1>3. check' = [NoCheck EXCEPT !.at = "sweep", !.archive = t, !.frame = 1, !.rotten = R]
  BY <1>2 DEF CheckShard, Begin
<1>4. /\ check' \in Verified /\ check'.at = "sweep" /\ check'.archive = t
      /\ check'.frame = 1 /\ check'.rotten = R /\ check'.bad = {}
      /\ check'.recovered = {} /\ check'.unstable = {} /\ check'.suspects = {}
      /\ check'.seen = {}
  <2>1. check' = [at |-> "sweep", archive |-> t, frame |-> 1, tries |-> 0,
                  seen |-> {}, bad |-> {}, recovered |-> {}, unstable |-> {},
                  suspects |-> {}, rotten |-> R]
    BY <1>3 DEF NoCheck
  <2>2. 1 \in 0 .. Frames /\ 0 \in 0 .. Retries /\ R \subseteq Frame
    BY <1>2, FrameVerifyAssumption
  <2> QED BY <1>1, <2>1, <2>2 DEF Verified
<1>5. CheckOK'
  <2>1. Sorted(check') /\ Settled(check') = {}
    BY <1>4 DEF Sorted, Settled, Deferred
  <2>2. 1 \in Frame
    BY FrameVerifyAssumption DEF Frame
  <2> QED BY <1>4, <2>1, <2>2 DEF CheckOK, Good, Unseen
<1>6. DiskOK'
  BY <1>1, FrameVerifyAssumption DEF IInv, DiskOK, Memory, Drop
<1>7. Commands' /\ Copies' /\ Healing'
  BY <1>1, <1>4 DEF IInv, Commands, Copies, Healing, healing
<1>8. Careful => Confirmed'
  BY <1>1, <1>4 DEF IInv, Confirmed, CorruptIsDamaged
<1>9. Caught'
  <2>1. ASSUME cmd # "verify" PROVE Hopeless(check)' /\ Kept(check')
    <3>1. cmd \in {"backup", "heal"}
      BY <1>1, <2>1 DEF IInv, Commands
    <3>2. client' = Drop(t)
      BY <1>1, <3>1 DEF DropsCache
    <3>3. \A f \in R : f \in Frame /\ <<t, f>> \in Spot /\ Served(<<t, f>>) = "bad"
      BY <1>1, <1>2 DEF Spot
    <3>4. \A f \in R : client'[<<t, f>>] = "same"
      BY <3>2, <3>3 DEF Drop
    <3>5. \A f \in R : store[<<t, f>>] = "same" /\ media[<<t, f>>] = "bad"
      BY <3>3, FrameVerifyAssumption DEF Served, IInv, DiskOK, Memory
    <3>6. Hopeless(check)'
      BY <1>1, <1>4, <3>4, <3>5 DEF Hopeless
    <3>7. Kept(check')
      <4>1. \A f \in Frame : f >= 1
        BY FrameVerifyAssumption DEF Frame
      <4> QED BY <1>4, <3>3, <4>1 DEF Kept
    <3> QED BY <3>6, <3>7
  <2> QED BY <1>1, <2>1 DEF IInv, Caught
<1> QED BY <1>5, <1>6, <1>7, <1>8, <1>9 DEF IInv

-----------------------------------------------------------------------------
(* The steps keep it: the commands *)

LEMMA VerdictFacts ==
  ASSUME NEW s \in {"unverified", "disabled", "error"}
  PROVE  /\ Verdict(s) \in Finding /\ Verdict(s).state = s
         /\ Verdict(s).bad = {} /\ Verdict(s).rotten = {}
BY DEF Verdict, Nothing, Finding

LEMMA NoFindFacts ==
  \A t \in Target : NoFind[t].bad = {} /\ NoFind[t].rotten = {}
BY DEF NoFind, Nothing

\* What has been found of one shard is kept; the check is over.
LEMMA FoundStep ==
  ASSUME IInv, NEW t \in todo, NEW r \in Finding, r.state # "none",
         todo' = todo \ {t}, found' = [found EXCEPT ![t] = r],
         UNCHANGED <<disks, row, cmd, from, out, turn, rc>>, check' = NoCheck,
         damaged \subseteq damaged', damaged' \subseteq Member,
         Careful => \A f \in r.bad : media[<<t, f>>] = "bad",
         cmd # "verify" => r.rotten \subseteq r.bad \cup r.unstable,
         cmd = "heal" /\ t \notin NoIndex =>
           \A m \in Member : Kind[t][m] = "f" /\ Spread[t][m] \cap r.bad # {}
                             => m \in damaged'
  PROVE  IInv'
<1>0. /\ t \in Target /\ found \in [Target -> Finding] /\ cmd \notin {"none", "copy", "healed"}
      /\ found'[t] = r /\ \A x \in Target : x # t => found'[x] = found[x]
  BY DEF IInv, Commands
<1>1. DiskOK' /\ CheckOK' /\ check'.at = "idle"
  BY NoCheckIsGood DEF IInv, DiskOK, CheckOK, disks
<1>2. Commands'
  BY <1>0, <1>1 DEF IInv, Commands
<1>3. Copies'
  BY DEF IInv, Copies
<1>4. ASSUME Careful PROVE Confirmed'
  <2>1. Confirmed
    BY <1>4 DEF IInv
  <2>2. CorruptIsDamaged'
    BY <2>1 DEF Confirmed, CorruptIsDamaged, disks
  <2>3. \A x \in Target : \A f \in found'[x].bad : media'[<<x, f>>] = "bad"
    BY <1>0, <1>4, <2>1 DEF Confirmed, disks
  <2> QED BY <1>1, <2>2, <2>3 DEF Confirmed
<1>5. Caught'
  BY <1>0, <1>1 DEF IInv, Caught
<1>6. Healing'
  BY <1>0 DEF IInv, Healing
<1> QED BY <1>1, <1>2, <1>3, <1>4, <1>5, <1>6 DEF IInv

LEMMA PassOverStep ==
  ASSUME IInv, NEW t \in Target, PassOver(t)
  PROVE  IInv'
<1>0. /\ t \in todo /\ todo' = todo \ {t} /\ check.at = "idle"
      /\ found' = [found EXCEPT ![t] = Verdict("unverified")]
      /\ UNCHANGED <<disks, check, row, cmd, damaged, from, out, turn, rc>>
  BY DEF PassOver, healing
<1>2. PICK r \in Finding : r = Verdict("unverified") /\ r.state = "unverified"
                           /\ r.bad = {} /\ r.rotten = {}
  BY VerdictFacts
<1>3. DiskOK' /\ CheckOK'
  BY <1>0, SameDisks DEF IInv
<1>4. /\ t \in Target /\ found \in [Target -> Finding]
      /\ found'[t] = r /\ \A x \in Target : x # t => found'[x] = found[x]
  BY <1>0, <1>2 DEF IInv, Commands
<1>5. Commands'
  BY <1>0, <1>2, <1>4 DEF IInv, Commands
<1>6. Copies'
  BY <1>0 DEF IInv, Copies
<1>7. Careful => Confirmed'
  BY <1>0, <1>2, <1>4 DEF IInv, Confirmed, CorruptIsDamaged, disks
<1>8. Caught'
  BY <1>0, <1>2, <1>4 DEF IInv, Caught
<1>9. Healing'
  BY <1>0, <1>2, <1>4 DEF IInv, Healing
<1> QED BY <1>3, <1>5, <1>6, <1>7, <1>8, <1>9 DEF IInv

LEMMA EndCheckStep ==
  ASSUME IInv, EndCheck
  PROVE  IInv'
<1>1. PICK t : t = check.archive
  OBVIOUS
<1>2. PICK r : r = [state |-> "verified", bad |-> check.bad,
                    unstable |-> check.unstable, rotten |-> check.rotten]
  OBVIOUS
<1>3. /\ check.at = "done" /\ check \in Verified /\ check.suspects = {}
      /\ t \in todo /\ t \in Target /\ t \in Archive
  BY <1>1, IntegrityAssumption DEF EndCheck, IInv, CheckOK, Good, Commands
<1>4. /\ r \in Finding /\ r.state = "verified" /\ r.bad = check.bad
      /\ r.unstable = check.unstable /\ r.rotten = check.rotten
  BY <1>2, <1>3 DEF Finding, Verified
<1>5. /\ todo' = todo \ {t} /\ found' = [found EXCEPT ![t] = r]
      /\ UNCHANGED <<disks, row, cmd, from, out, turn, rc>> /\ check' = NoCheck
      /\ damaged' = IF cmd = "heal" THEN damaged \cup FramesToFiles(t, check.bad)
                    ELSE damaged
  BY <1>1, <1>2 DEF EndCheck
<1>6. damaged \subseteq damaged' /\ damaged' \subseteq Member
  BY <1>5 DEF IInv, Copies, FramesToFiles
<1>7. Careful => \A f \in r.bad : media[<<t, f>>] = "bad"
  BY <1>1, <1>3, <1>4 DEF IInv, Confirmed
<1>8. cmd # "verify" => r.rotten \subseteq r.bad \cup r.unstable
  BY <1>3, <1>4 DEF IInv, Caught, Kept, Deferred
<1>9. cmd = "heal" /\ t \notin NoIndex =>
        \A m \in Member : Kind[t][m] = "f" /\ Spread[t][m] \cap r.bad # {}
                          => m \in damaged'
  BY <1>4, <1>5 DEF FramesToFiles
<1>10. r.state # "none"
  BY <1>4
<1> QED BY <1>3, <1>4, <1>5, <1>6, <1>7, <1>8, <1>9, <1>10, FoundStep

\* A command ends, with nothing under way.
LEMMA FinishStep ==
  ASSUME IInv, Finish, DiskOK', CheckOK', check'.at = "idle",
         row' \in [Target -> Rows], media' = media, Careful => CorruptIsDamaged', Copies'
  PROVE  IInv'
<1>1. Commands'
  BY NothingIsFinding DEF Finish, Commands
<1>2. Careful => Confirmed'
  BY NoFindFacts DEF Finish, Confirmed
<1>3. Caught'
  BY NoFindFacts DEF Finish, Caught
<1>4. Healing'
  BY DEF Finish, Healing
<1> QED BY <1>1, <1>2, <1>3, <1>4 DEF IInv

LEMMA ReadErrorStep ==
  ASSUME IInv, ReadError
  PROVE  IInv'
<1>1. /\ check.at # "idle" /\ check' = NoCheck
      /\ UNCHANGED <<disks, row, damaged, from, out, turn>>
  BY DEF ReadError, Reading
<1>2. check.archive \in todo /\ check.archive \in Target
  BY <1>1 DEF IInv, Commands
<1>3. CASE cmd = "backup"
  <2>1. PICK r \in Finding : r = Verdict("error") /\ r.state = "error"
                             /\ r.bad = {} /\ r.rotten = {}
    BY VerdictFacts
  <2>2. /\ todo' = todo \ {check.archive} /\ UNCHANGED <<cmd, rc>>
        /\ found' = [found EXCEPT ![check.archive] = r]
    BY <1>3, <2>1 DEF ReadError
  <2>3. damaged \subseteq damaged' /\ damaged' \subseteq Member
    BY <1>1 DEF IInv, Copies
  <2>4. r.state # "none"
    BY <2>1
  <2>5. /\ Careful => \A f \in r.bad : media[<<check.archive, f>>] = "bad"
        /\ r.rotten \subseteq r.bad \cup r.unstable /\ cmd # "heal"
    BY <1>3, <2>1
  <2> QED BY <1>1, <1>2, <2>1, <2>2, <2>3, <2>4, <2>5, FoundStep
<1>4. CASE cmd # "backup"
  <2>1. Finish /\ rc' = 1
    BY <1>4 DEF ReadError
  <2>2. DiskOK' /\ CheckOK' /\ check'.at = "idle"
    BY <1>1, NoCheckIsGood DEF IInv, DiskOK, CheckOK, disks
  <2>3. Copies'
    BY <1>1, <2>1 DEF IInv, Copies
  <2>4. row' \in [Target -> Rows] /\ media' = media
    BY <1>1 DEF IInv, Commands, disks
  <2>5. Careful => CorruptIsDamaged /\ CorruptIsDamaged'
    BY <1>1 DEF IInv, Confirmed, CorruptIsDamaged, disks
  <2> QED BY <2>1, <2>2, <2>3, <2>4, <2>5, FinishStep
<1> QED BY <1>3, <1>4

\* No check is under way when there is nothing to check.
LEMMA NothingToCheck ==
  ASSUME IInv, todo = {}
  PROVE  check.at = "idle"
BY DEF IInv, Commands

LEMMA SkipVerifyStep ==
  ASSUME IInv, SkipVerify
  PROVE  IInv'
<1>0. /\ cmd = "backup" /\ todo' = {} /\ check.at = "idle"
      /\ found' = [t \in Target |-> Verdict("disabled")]
      /\ UNCHANGED <<disks, check, row, cmd, damaged, from, out, turn, rc>>
  BY DEF SkipVerify, healing
<1>1. DiskOK' /\ CheckOK'
  BY <1>0, SameDisks DEF IInv
<1>2. PICK r \in Finding : r = Verdict("disabled") /\ r.state = "disabled"
                           /\ r.bad = {} /\ r.rotten = {}
  BY VerdictFacts
<1>3. found' \in [Target -> Finding] /\ \A t \in Target : found'[t] = r
  BY <1>0, <1>2
<1>4. Commands'
  BY <1>0, <1>2, <1>3 DEF IInv, Commands
<1>5. Copies'
  BY <1>0 DEF IInv, Copies
<1>6. Careful => Confirmed'
  BY <1>0, <1>2, <1>3 DEF IInv, Confirmed, CorruptIsDamaged, disks
<1>7. Caught'
  BY <1>0, <1>2, <1>3 DEF IInv, Caught
<1>8. Healing'
  BY <1>0 DEF Healing
<1> QED BY <1>1, <1>4, <1>5, <1>6, <1>7, <1>8 DEF IInv

LEMMA RowFacts ==
  ASSUME NEW s \in {"ok", "corrupt"}, NEW f \in BOOLEAN,
         NEW v \in {"", "verified", "unverified", "disabled", "error"}
  PROVE  Row(s, f, v) \in Rows /\ Row(s, f, v).status = s
BY DEF Row, Rows

LEMMA RecordBackupStep ==
  ASSUME IInv, RecordBackup
  PROVE  IInv'
<1>0. /\ cmd = "backup" /\ todo = {} /\ Finish /\ check.at = "idle"
      /\ UNCHANGED <<disks, check, damaged, from, out, turn, rc>>
  BY NothingToCheck DEF RecordBackup, healing
<1>1. DiskOK' /\ CheckOK' /\ check'.at = "idle" /\ media' = media
  BY <1>0, SameDisks DEF IInv, disks
<1>2. \A t \in Target :
        /\ found[t].state \in {"verified", "unverified", "disabled", "error"}
        /\ row[t] \in Rows
  BY <1>0 DEF IInv, Commands, Finding
<1>3. \A t \in Target :
        row'[t] = IF found[t].bad = {} THEN [row[t] EXCEPT !.verify = found[t].state]
                  ELSE Row("corrupt", TRUE, found[t].state)
  BY DEF RecordBackup
<1>4. ASSUME NEW t \in Target
      PROVE  row'[t] \in Rows /\ (row'[t].status = "corrupt" =>
                                    row[t].status = "corrupt" \/ found[t].bad # {})
  <2>1. CASE found[t].bad = {}
    <3>1. row'[t] = [row[t] EXCEPT !.verify = found[t].state]
      BY <1>3, <2>1
    <3> QED BY <1>2, <3>1 DEF Rows
  <2>2. CASE found[t].bad # {}
    <3>1. row'[t] = Row("corrupt", TRUE, found[t].state)
      BY <1>3, <2>2
    <3>2. found[t].state \in {"", "verified", "unverified", "disabled", "error"}
      BY <1>2
    <3> QED BY <2>2, <3>1, <3>2, RowFacts
  <2> QED BY <2>1, <2>2
<1>5. row' \in [Target -> Rows]
  <2>1. DOMAIN row' = Target /\ row' = [t \in Target |-> row'[t]]
    BY DEF RecordBackup
  <2> QED BY <1>4, <2>1
<1>6. ASSUME Careful PROVE CorruptIsDamaged'
  <2>1. ASSUME NEW t \in Target, row'[t].status = "corrupt"
        PROVE  \E f \in Frame : media[<<t, f>>] = "bad"
    <3>1. CASE row[t].status = "corrupt"
      BY <1>6, <3>1 DEF IInv, Confirmed, CorruptIsDamaged
    <3>2. CASE found[t].bad # {}
      <4>1. PICK f \in found[t].bad : TRUE
        BY <3>2
      <4>2. f \in Frame
        BY <4>1 DEF IInv, Commands, Finding
      <4>3. media[<<t, f>>] = "bad"
        BY <1>6, <4>1 DEF IInv, Confirmed
      <4> QED BY <4>2, <4>3
    <3> QED BY <1>4, <2>1, <3>1, <3>2
  <2> QED BY <1>1, <2>1 DEF CorruptIsDamaged
<1>7. Copies'
  BY <1>0 DEF IInv, Copies
<1> QED BY <1>0, <1>1, <1>5, <1>6, <1>7, FinishStep

LEMMA ReconcileStep ==
  ASSUME IInv, Reconcile
  PROVE  IInv'
<1>0. /\ todo = {} /\ Finish /\ check.at = "idle"
      /\ UNCHANGED <<disks, check, damaged, from, out, turn, rc>>
  BY NothingToCheck DEF Reconcile, healing
<1>1. DiskOK' /\ CheckOK' /\ check'.at = "idle" /\ media' = media
  BY <1>0, SameDisks DEF IInv, disks
<1>2. \A t \in Target : row[t] \in Rows
  BY DEF IInv, Commands
<1>3. \A t \in Target :
        \/ row'[t] = row[t]
        \/ row'[t] = Row("ok", FALSE, "verified")
        \/ row'[t] = Row("corrupt", FALSE, "verified") /\ found[t].bad # {}
  BY DEF Reconcile, Reconciled
<1>4. \A t \in Target :
        row'[t] \in Rows /\ (row'[t].status = "corrupt" =>
                               row[t].status = "corrupt" \/ found[t].bad # {})
  BY <1>2, <1>3, RowFacts
<1>5. row' \in [Target -> Rows]
  <2>1. DOMAIN row' = Target /\ row' = [t \in Target |-> row'[t]]
    BY DEF Reconcile
  <2> QED BY <1>4, <2>1
<1>6. ASSUME Careful PROVE CorruptIsDamaged'
  <2>1. ASSUME NEW t \in Target, row'[t].status = "corrupt"
        PROVE  \E f \in Frame : media[<<t, f>>] = "bad"
    <3>1. CASE row[t].status = "corrupt"
      BY <1>6, <3>1 DEF IInv, Confirmed, CorruptIsDamaged
    <3>2. CASE found[t].bad # {}
      <4>1. PICK f \in found[t].bad : TRUE
        BY <3>2
      <4>2. f \in Frame
        BY <4>1 DEF IInv, Commands, Finding
      <4>3. media[<<t, f>>] = "bad"
        BY <1>6, <4>1 DEF IInv, Confirmed
      <4> QED BY <4>2, <4>3
    <3> QED BY <1>4, <2>1, <3>1, <3>2
  <2> QED BY <1>1, <2>1 DEF CorruptIsDamaged
<1>7. Copies'
  BY <1>0 DEF IInv, Copies
<1> QED BY <1>0, <1>1, <1>5, <1>6, <1>7, FinishStep

LEMMA StartStep ==
  ASSUME IInv, StartVerify \/ StartHeal
  PROVE  IInv'
<1>0. /\ cmd = "none" /\ found = NoFind /\ todo = {} /\ check.at = "idle"
      /\ UNCHANGED <<disks, check, row, found>>
      /\ cmd' \in {"verify", "heal"} /\ todo' \subseteq Target
  BY NothingToCheck DEF IInv, Commands, StartVerify, StartHeal, ToCheck
<1>1. DiskOK' /\ CheckOK'
  BY <1>0, SameDisks DEF IInv
<1>2. Commands'
  BY <1>0 DEF IInv, Commands
<1>3. Copies'
  <2>1. DOMAIN None = {}
    BY DEF None
  <2>2. CASE StartVerify
    BY <2>2 DEF IInv, Copies, StartVerify, healing
  <2>3. CASE StartHeal
    <3>1. damaged' = {} /\ from' = None /\ out' = None /\ turn' = 1 /\ rc' = 0
      BY <2>3 DEF StartHeal
    <3> QED BY <2>1, <3>1, FirstTurn DEF Copies
  <2> QED BY <2>2, <2>3
<1>4. Careful => Confirmed'
  BY <1>0 DEF IInv, Confirmed, CorruptIsDamaged, disks
<1>5. Caught'
  BY <1>0, NoFindFacts DEF Caught
<1>6. Healing'
  BY <1>0, NoFindFacts DEF Healing
<1> QED BY <1>1, <1>2, <1>3, <1>4, <1>5, <1>6 DEF IInv

\* --heal goes on, with the checks behind it.
LEMMA HealStep ==
  ASSUME IInv, cmd \in {"heal", "copy"}, todo = {}, cmd' \in {"copy", "healed"},
         DiskOK', CheckOK', UNCHANGED <<media, store, check, row, todo, found, damaged>>,
         Copies',
         cmd' = "healed" => /\ damaged \subseteq DOMAIN from'
                            /\ rc' = 0 => \A m \in damaged : from'[m] # "none"
  PROVE  IInv'
<1>0. check.at = "idle"
  BY NothingToCheck
<1>1. Commands'
  BY <1>0 DEF IInv, Commands
<1>2. Careful => Confirmed'
  BY <1>0 DEF IInv, Confirmed, CorruptIsDamaged
<1>3. Caught'
  BY <1>0 DEF IInv, Caught
<1>4. Healing'
  BY DEF IInv, Healing
<1> QED BY <1>1, <1>2, <1>3, <1>4 DEF IInv

LEMMA SeekStep ==
  ASSUME IInv, Seek
  PROVE  IInv'
<1>1. DiskOK' /\ CheckOK'
  BY SameDisks DEF IInv, Seek
<1>2. Copies'
  BY DEF IInv, Copies, Seek, healing
<1> QED BY <1>1, <1>2, HealStep DEF Seek, disks, healing

LEMMA PassCandidateStep ==
  ASSUME IInv, NEW m, PassCandidate(m)
  PROVE  IInv'
<1>1. /\ cmd = "copy" /\ turn <= Len(Candidates) /\ turn' = turn + 1
      /\ noise' \subseteq noise
      /\ UNCHANGED <<media, store, client, check, row, cmd, todo, found, damaged,
                     from, out, rc>>
  BY DEF PassCandidate, Tried
<1>2. DiskOK' /\ CheckOK'
  BY <1>1 DEF IInv, DiskOK, CheckOK, Unseen
<1>3. turn' \in 1 .. Len(Candidates) + 1
  <2>1. turn \in 1 .. Len(Candidates) + 1
    BY DEF IInv, Copies
  <2>2. Len(Candidates) \in Nat
    BY IntegrityAssumption
  <2> QED BY <1>1, <2>1, <2>2
<1>4. Copies'
  BY <1>1, <1>3 DEF IInv, Copies
<1>5. todo = {}
  BY <1>1 DEF IInv, Commands
<1> QED BY <1>1, <1>2, <1>4, <1>5, HealStep

LEMMA TakeOrGiveUpStep ==
  ASSUME IInv, NEW m, TakeCopy(m) \/ GiveUp(m)
  PROVE  IInv'
<1>1. /\ cmd = "copy" /\ m \in damaged /\ turn' = 1 /\ rc' = rc
      /\ UNCHANGED <<disks, check, row, cmd, todo, found, damaged>>
  BY DEF TakeCopy, GiveUp, Lost
<1>2. /\ DOMAIN from' = DOMAIN from \cup {m}
      /\ DOMAIN out' \subseteq DOMAIN out \cup {m}
  BY DEF TakeCopy, GiveUp
<1>3. DiskOK' /\ CheckOK'
  BY <1>1, SameDisks DEF IInv
<1>4. /\ damaged' \subseteq Member /\ DOMAIN from' \subseteq damaged'
      /\ DOMAIN out' \subseteq DOMAIN from' /\ rc' \in 0 .. 2
  BY <1>1, <1>2 DEF IInv, Copies
<1>5. Copies'
  BY <1>1, <1>4, FirstTurn DEF Copies
<1>6. todo = {}
  BY <1>1 DEF IInv, Commands
<1> QED BY <1>1, <1>3, <1>5, <1>6, HealStep DEF disks

LEMMA CopyFailsStep ==
  ASSUME IInv, NEW m, CopyFails(m)
  PROVE  IInv'
<1>1. /\ cmd = "copy" /\ Finish /\ rc' = 1
      /\ UNCHANGED <<disks, check, row, damaged, from, out, turn>>
  BY DEF CopyFails
<1>2. check.at = "idle"
  BY <1>1, NothingToCheck DEF IInv, Commands
<1>3. DiskOK' /\ CheckOK' /\ check'.at = "idle" /\ media' = media
  BY <1>1, <1>2, SameDisks DEF IInv, disks
<1>4. Copies'
  BY <1>1 DEF IInv, Copies
<1>5. row' \in [Target -> Rows]
  BY <1>1 DEF IInv, Commands
<1>6. Careful => CorruptIsDamaged'
  BY <1>1, <1>3 DEF IInv, Confirmed, CorruptIsDamaged
<1> QED BY <1>1, <1>3, <1>4, <1>5, <1>6, FinishStep

LEMMA EndHealStep ==
  ASSUME IInv, EndHeal
  PROVE  IInv'
<1>1. /\ cmd = "copy" /\ cmd' = "healed" /\ damaged \subseteq DOMAIN from
      /\ UNCHANGED <<disks, check, row, todo, found, damaged, from, out, turn>>
      /\ rc' \in {0, 2}
      /\ rc' = 0 => \A m \in damaged : from[m] # "none"
  BY DEF EndHeal, Lost
<1>2. DiskOK' /\ CheckOK'
  BY <1>1, SameDisks DEF IInv
<1>3. Copies'
  BY <1>1 DEF IInv, Copies
<1>4. todo = {}
  BY <1>1 DEF IInv, Commands
<1> QED BY <1>1, <1>2, <1>3, <1>4, HealStep DEF disks

LEMMA LeaveStep ==
  ASSUME IInv, Leave
  PROVE  IInv'
<1>1. /\ cmd = "healed" /\ Finish /\ damaged' = {} /\ from' = None /\ out' = None
      /\ turn' = 1 /\ UNCHANGED <<disks, check, row, rc>>
  BY DEF Leave
<1>2. check.at = "idle"
  BY <1>1, NothingToCheck DEF IInv, Commands
<1>3. DiskOK' /\ CheckOK' /\ check'.at = "idle" /\ media' = media
  BY <1>1, <1>2, SameDisks DEF IInv, disks
<1>4. Copies'
  <2>1. DOMAIN None = {}
    BY DEF None
  <2>2. rc' \in 0 .. 2
    BY <1>1 DEF IInv, Copies
  <2> QED BY <1>1, <2>1, <2>2, FirstTurn DEF Copies
<1>5. row' \in [Target -> Rows]
  BY <1>1 DEF IInv, Commands
<1>6. Careful => CorruptIsDamaged'
  BY <1>1, <1>3 DEF IInv, Confirmed, CorruptIsDamaged
<1> QED BY <1>1, <1>3, <1>4, <1>5, <1>6, FinishStep

-----------------------------------------------------------------------------
(* What follows *)

LEMMA IInvStep == IInv /\ [Next]_vars => IInv'
<1> SUFFICES ASSUME IInv, [Next]_vars PROVE IInv'
  OBVIOUS
<1>1. CASE (Sweep \/ Retry \/ Pause \/ Recheck)
           /\ UNCHANGED <<row, cmd, todo, found, healing>>
  BY <1>1, CheckStep
<1>2. CASE (\E s \in Spot : Rot(s) \/ Flip(s) \/ Forget(s))
           /\ UNCHANGED <<row, cmd, todo, found, healing>>
  BY <1>2, DisksStep
<1>3. CASE \E t \in Target : CheckShard(t) \/ PassOver(t)
  BY <1>3, CheckShardStep, PassOverStep
<1>4. CASE EndCheck BY <1>4, EndCheckStep
<1>5. CASE ReadError BY <1>5, ReadErrorStep
<1>6. CASE SkipVerify BY <1>6, SkipVerifyStep
<1>7. CASE RecordBackup BY <1>7, RecordBackupStep
<1>8. CASE StartVerify \/ StartHeal BY <1>8, StartStep
<1>9. CASE Reconcile BY <1>9, ReconcileStep
<1>10. CASE Seek BY <1>10, SeekStep
<1>11. CASE EndHeal BY <1>11, EndHealStep
<1>12. CASE Leave BY <1>12, LeaveStep
<1>13. CASE \E m \in Member : PassCandidate(m) \/ TakeCopy(m) \/ CopyFails(m) \/ GiveUp(m)
  BY <1>13, PassCandidateStep, TakeOrGiveUpStep, CopyFailsStep
<1>14. CASE UNCHANGED vars
  <2>1. DiskOK' /\ CheckOK'
    BY <1>14, SameDisks DEF IInv, vars
  <2>2. Commands' /\ Copies' /\ Caught' /\ Healing'
    BY <1>14
    DEF IInv, vars, disks, Commands, Copies, Caught, Healing, Hopeless
  <2>3. Careful => Confirmed'
    BY <1>14 DEF IInv, vars, disks, Confirmed, CorruptIsDamaged
  <2> QED BY <2>1, <2>2, <2>3 DEF IInv
<1> QED BY <1>1, <1>2, <1>3, <1>4, <1>5, <1>6, <1>7, <1>8, <1>9, <1>10, <1>11,
           <1>12, <1>13, <1>14 DEF Next

\* The inductive invariant holds for every value of the constants.
THEOREM IInvAlways == Spec => []IInv
BY InitIInv, IInvStep, PTL DEF Spec

\* Everything keeps its type, and verify_frame_checksums sorts each frame into
\* one list, once, for any number of frames, re-reads, shards and faults.
THEOREM IntegrityTypes == Spec => []TypeOK
<1>1. IInv => TypeOK
  <2> SUFFICES ASSUME IInv PROVE TypeOK
    OBVIOUS
  <2>1. media \in [Spot -> {"good", "bad"}] /\ noise \subseteq Noise
    BY DEF IInv, DiskOK
  <2>2. {store, client} \subseteq [Spot -> Bytes \cup {"same"}]
    <3>1. Memory \subseteq Bytes \cup {"same"}
      BY DEF Memory, Bytes
    <3> QED BY <3>1 DEF IInv, DiskOK
  <2>3. check \in Verified
        /\ check.bad \cap (check.recovered \cup check.unstable) = {}
        /\ check.recovered \cap check.unstable = {}
    BY DEF IInv, CheckOK, Good, Sorted
  <2>4. \A q \in check.suspects :
          q[1] \notin check.bad \cup check.recovered \cup check.unstable
    BY DEF IInv, CheckOK, Good, Sorted, Deferred
  <2>5. row \in [Target -> [status : {"ok", "corrupt"}, flagged : BOOLEAN,
                            verify : {"", "verified", "unverified", "disabled",
                                      "error"}]]
    BY DEF IInv, Commands, Rows
  <2>6. /\ cmd \in {"none", "backup", "verify", "heal", "copy", "healed"}
        /\ todo \subseteq Target /\ DOMAIN found = Target
        /\ check.at # "idle" => check.archive \in todo
    BY DEF IInv, Commands
  <2>7. /\ damaged \subseteq Member /\ DOMAIN from \subseteq damaged
        /\ DOMAIN out \subseteq DOMAIN from
        /\ turn \in 1 .. Len(Candidates) + 1 /\ rc \in 0 .. 2
    BY DEF IInv, Copies
  <2> QED BY <2>1, <2>2, <2>3, <2>4, <2>5, <2>6, <2>7 DEF TypeOK
<1> QED BY <1>1, IInvAlways, PTL

\* With at least one re-read, and if a sweep and the pause empty the store's
\* memory, no healthy shard is ever called corrupt, whatever the faults.
THEOREM NoFalseAlarm ==
  ASSUME Retries > 0, SweepClears = TRUE
  PROVE  Spec => []CorruptIsDamaged
<1>1. IInv => CorruptIsDamaged
  BY DEF IInv, Careful, Confirmed
<1> QED BY <1>1, IInvAlways, PTL

\* What was damaged when a check that drops the page cache began is found, for
\* any number of re-reads, none included, whatever the store's memory does.
THEOREM DamageFound == Spec => []DamageIsFound
<1>1. IInv => DamageIsFound
  BY DEF IInv, CheckOK, Good, Caught, Kept, Deferred, DamageIsFound
<1> QED BY <1>1, IInvAlways, PTL

\* A heal that ends well has dealt with every file with data in a frame whose
\* damage its check could confirm, for any backup and any candidates.
THEOREM HealIsTrue == Spec => []HealEndsTrue
<1>1. IInv => HealEndsTrue
  <2> SUFFICES ASSUME IInv, cmd = "healed", rc = 0, NEW t \in Target \ NoIndex,
                      NEW m \in Member,
                      Spread[t][m] \cap (found[t].rotten \ found[t].unstable) # {}
               PROVE  m \in DOMAIN from /\ from[m] # "none"
    BY DEF HealEndsTrue
  <2>1. found[t].rotten \ found[t].unstable \subseteq found[t].bad
    BY DEF IInv, Caught
  <2>2. t \in Archive
    BY IntegrityAssumption
  <2>3. Kind[t][m] = "f"
    BY <2>2, IntegrityAssumption
  <2>4. m \in damaged
    BY <2>1, <2>3 DEF IInv, Healing
  <2> QED BY <2>4 DEF IInv, Healing
<1> QED BY <1>1, IInvAlways, PTL
=============================================================================
