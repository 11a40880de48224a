-------------------------- MODULE ExtractionProofs --------------------------
(***************************************************************************)
(* A file that the fast path writes is the member, and an extraction that  *)
(* reports success is whole, for any frame size, any stream, any layout of *)
(* any members over any shards and any request.                            *)
(*                                                                         *)
(* What the fast path computes is arithmetic: a member's first and last    *)
(* frame, the ranges that are read, and the slices of the frames.  The     *)
(* lemmas of the first three parts say what it comes to; the invariant     *)
(* then says how far a run has got.                                        *)
(***************************************************************************)
EXTENDS Extraction, TLAPS, SequenceTheorems, FiniteSetTheorems,
        NaturalsInduction, WellFoundedInduction

\* The n bytes from x on.
Run(x, n) == [k \in 1 .. n |-> x + k - 1]

\* Operators on sequences by names of our own, for a step in which nothing need
\* be known of them.
Slice(s, a, b) == SubSeq(s, a, b)
Cat(s, t) == s \o t

-----------------------------------------------------------------------------
(* Runs of bytes *)

LEMMA RunLen ==
  ASSUME NEW x \in Int, NEW n \in Nat
  PROVE  /\ Run(x, n) \in Seq(Int) /\ Len(Run(x, n)) = n
         /\ \A k \in 1 .. n : Run(x, n)[k] = x + k - 1
BY DEF Run

\* A slice of a run is a run.
LEMMA RunSlice ==
  ASSUME NEW x \in Nat, NEW n \in Nat, NEW a \in Nat \ {0}, NEW b \in Nat,
         a <= b + 1, b <= n, NEW y, y = x + a - 1, NEW c, c = b - a + 1
  PROVE  Slice(Run(x, n), a, b) = Run(y, c)
<1> DEFINE r == Run(x, n)
           s == SubSeq(r, a, b)
           m == b - a + 1
<1>1. m \in Nat /\ a \in Int /\ b \in Int /\ x \in Int
  OBVIOUS
<1>2. \A i \in a .. b : i \in 1 .. n /\ r[i] = x + i - 1 /\ r[i] \in Int
  BY RunLen
<1>3. /\ s \in Seq(Int) /\ Len(s) = IF a <= b THEN b - a + 1 ELSE 0
      /\ \A i \in 1 .. m : s[i] = r[a + i - 1]
  BY <1>1, <1>2, SubSeqProperties
<1>4. Len(s) = m
  BY <1>3
<1>5. \A i \in 1 .. m : s[i] = (x + a - 1) + i - 1
  <2> SUFFICES ASSUME NEW i \in 1 .. m PROVE s[i] = (x + a - 1) + i - 1
    OBVIOUS
  <2>1. s[i] = r[a + i - 1] /\ a + i - 1 \in a .. b
    BY <1>3
  <2> HIDE DEF s, r
  <2> QED BY <1>2, <2>1
<1> HIDE DEF s
<1>6. s = [i \in 1 .. m |-> (x + a - 1) + i - 1]
  BY <1>3, <1>4, <1>5
<1> QED BY <1>6 DEF Run, s, Slice

\* Two runs that meet are one.
LEMMA RunConcat ==
  ASSUME NEW x \in Nat, NEW n \in Nat, NEW m \in Nat,
         NEW y, y = x + n, NEW l, l = n + m
  PROVE  Cat(Run(x, n), Run(y, m)) = Run(x, l)
<1> DEFINE s == Run(x, n)
           t == Run(y, m)
           u == s \o t
<1>1. /\ s \in Seq(Int) /\ Len(s) = n /\ \A k \in 1 .. n : s[k] = x + k - 1
      /\ t \in Seq(Int) /\ Len(t) = m /\ \A k \in 1 .. m : t[k] = x + n + k - 1
  BY RunLen
<1> HIDE DEF s, t
<1>2. /\ u \in Seq(Int) /\ Len(u) = n + m
      /\ \A i \in 1 .. n + m : u[i] = IF i <= n THEN s[i] ELSE t[i - n]
  BY <1>1, ConcatProperties
<1> HIDE DEF u
<1>3. \A i \in 1 .. n + m : u[i] = x + i - 1
  <2> SUFFICES ASSUME NEW i \in 1 .. n + m PROVE u[i] = x + i - 1
    OBVIOUS
  <2>1. CASE i <= n
    BY <1>1, <1>2, <2>1
  <2>2. CASE i > n
    BY <1>1, <1>2, <2>2
  <2> QED BY <2>1, <2>2
<1>4. u = [i \in 1 .. n + m |-> x + i - 1]
  BY <1>2, <1>3
<1> QED BY <1>4 DEF Run, u, s, t, Cat

LEMMA RunEmpty == ASSUME NEW x PROVE Run(x, 0) = <<>>
BY DEF Run

-----------------------------------------------------------------------------
(* Members and frames *)

\* Division, as the lemmas below need it.
LEMMA Quotient ==
  ASSUME NEW a \in Nat, NEW f \in Nat \ {0}
  PROVE  /\ a \div f \in Nat /\ (a \div f) * f <= a /\ a < (a \div f) * f + f
OBVIOUS

\* What lies between multiples.
LEMMA Multiples ==
  ASSUME NEW f \in Nat \ {0}, NEW p \in Nat, NEW q \in Nat
  PROVE  /\ p * f \in Nat /\ q * f \in Nat /\ (p + 1) * f = p * f + f
         /\ p < q => p * f + f <= q * f
OBVIOUS

\* A member and the frames it lies in: the first one holds its first byte, the
\* last one its last, and all but the last of them are full.
LEMMA Spans ==
  ASSUME NEW m \in Member, End(m) <= Length, m.data_offset > 0
  PROVE  /\ FirstFrame(m) \in Nat
         /\ FirstFrame(m) * FrameSize <= m.data_offset
         /\ m.data_offset < FirstFrame(m) * FrameSize + FrameSize
         /\ LastFrame(m) \in Nat
         /\ LastFrame(m) * FrameSize <= End(m) - 1
         /\ End(m) <= LastFrame(m) * FrameSize + FrameSize
         /\ m.size > 0 => FirstFrame(m) <= LastFrame(m)
         /\ m.size = 0 => LastFrame(m) <= FirstFrame(m)
<1> DEFINE F == FirstFrame(m)
           L == LastFrame(m)
           o == m.data_offset
           e == End(m)
<1>1. /\ o \in Nat /\ m.size \in Nat /\ e = o + m.size /\ e \in Nat /\ o > 0
      /\ FrameSize \in Nat \ {0}
  BY ExtractionAssumption DEF Member, End
<1>2. F \in Nat /\ F * FrameSize <= o /\ o < F * FrameSize + FrameSize
  BY <1>1, Quotient DEF FirstFrame
<1>3. L \in Nat /\ L * FrameSize <= e - 1 /\ e - 1 < L * FrameSize + FrameSize
  <2>1. e - 1 \in Nat
    BY <1>1
  <2> HIDE DEF e
  <2> QED BY <1>1, <2>1, Quotient DEF LastFrame, e
<1> HIDE DEF F, L, o, e
<1>4. /\ F * FrameSize \in Nat /\ L * FrameSize \in Nat
      /\ F < L => F * FrameSize + FrameSize <= L * FrameSize
      /\ L < F => L * FrameSize + FrameSize <= F * FrameSize
  BY <1>1, <1>2, <1>3, Multiples
<1>5. /\ m.size > 0 => F <= L
      /\ m.size = 0 => L <= F
      /\ e <= L * FrameSize + FrameSize
  BY <1>1, <1>2, <1>3, <1>4
<1> QED BY <1>1, <1>2, <1>3, <1>5 DEF F, L, o, e

\* A frame is a run of bytes; one that a member goes beyond is full, and the
\* one it ends in holds its end.
LEMMA FrameIsRun ==
  ASSUME NEW i \in Nat
  PROVE  Frame(i) = Run(i * FrameSize, FrameLength(i))
BY DEF Frame, Run

LEMMA FullFrame ==
  ASSUME NEW m \in Member, End(m) <= Length, m.data_offset > 0,
         NEW i \in Nat, i < LastFrame(m)
  PROVE  FrameLength(i) = FrameSize /\ i * FrameSize + FrameSize <= LastFrame(m) * FrameSize
<1>1. /\ LastFrame(m) \in Nat /\ LastFrame(m) * FrameSize <= End(m) - 1
      /\ FrameSize \in Nat \ {0} /\ Length \in Nat /\ End(m) \in Nat
  BY Spans, ExtractionAssumption DEF Member, End
<1>2. /\ i * FrameSize + FrameSize <= LastFrame(m) * FrameSize
      /\ (i + 1) * FrameSize = i * FrameSize + FrameSize
      /\ i * FrameSize \in Nat /\ LastFrame(m) * FrameSize \in Nat
  BY <1>1, Multiples
<1>3. (i + 1) * FrameSize <= Length
  BY <1>1, <1>2
<1> QED BY <1>2, <1>3 DEF FrameLength

LEMMA EndInFrame ==
  ASSUME NEW m \in Member, End(m) <= Length, m.data_offset > 0
  PROVE  /\ FrameLength(LastFrame(m)) \in Nat
         /\ End(m) - LastFrame(m) * FrameSize <= FrameLength(LastFrame(m))
<1> DEFINE L == LastFrame(m)
<1>1. /\ L \in Nat /\ L * FrameSize <= End(m) - 1
      /\ End(m) <= L * FrameSize + FrameSize
      /\ FrameSize \in Nat \ {0} /\ Length \in Nat /\ End(m) \in Nat
  BY Spans, ExtractionAssumption DEF Member, End
<1> SUFFICES FrameLength(L) \in Nat /\ End(m) - L * FrameSize <= FrameLength(L)
  OBVIOUS
<1> HIDE DEF L
<1>2. (L + 1) * FrameSize = L * FrameSize + FrameSize /\ L * FrameSize \in Nat
  BY <1>1, Multiples
<1>3. CASE (L + 1) * FrameSize <= Length
  BY <1>1, <1>2, <1>3 DEF FrameLength
<1>4. CASE ~((L + 1) * FrameSize <= Length)
  BY <1>1, <1>2, <1>4 DEF FrameLength
<1> QED BY <1>3, <1>4

-----------------------------------------------------------------------------
(* What is read *)

\* A set of numbers has a least one.
LEMMA Least ==
  ASSUME NEW S, S \subseteq Nat, S # {}
  PROVE  \E x \in S : \A y \in S : x <= y
<1>1. PICK x \in S : \A y \in S : ~ (<<y, x>> \in OpToRel(<, Nat))
  BY WFMin, NatLessThanWellFounded, Zenon
<1>2. \A y, z \in Nat : ~ (<<y, z>> \in OpToRel(<, Nat)) => ~(y < z)
  BY Zenon DEF OpToRel
<1>3. \A y \in S : ~(y < x)
  BY <1>1, <1>2, Zenon
<1> QED BY <1>3

\* Every frame that is needed lies in one of the ranges.
LEMMA RangesCover ==
  ASSUME NEW ids, NEW b \in Nat, ids \subseteq 0 .. b, NEW i \in ids
  PROVE  \E r \in Ranges(ids) : i \in r[1] .. r[2]
<1> DEFINE Above == {d \in Nat : i + d \notin ids}
           Under == {d \in Nat : i - d \notin ids}
<1>1. PICK e \in Above : \A d \in Above : e <= d
  <2>1. b + 1 - i \in Above
    OBVIOUS
  <2>2. Above \subseteq Nat /\ Above # {}
    BY <2>1
  <2> HIDE DEF Above
  <2> QED BY <2>2, Least
<1>2. PICK a \in Under : \A d \in Under : a <= d
  <2>1. i + 1 \in Under
    OBVIOUS
  <2>2. Under \subseteq Nat /\ Under # {}
    BY <2>1
  <2> HIDE DEF Under
  <2> QED BY <2>2, Least
<1> DEFINE r == <<i - a + 1, i + e - 1>>
<1>3. e \in Nat /\ a \in Nat /\ e >= 1 /\ a >= 1
  OBVIOUS
<1>4. \A x \in r[1] .. r[2] : x \in ids
  <2> SUFFICES ASSUME NEW x \in r[1] .. r[2], x \notin ids PROVE FALSE
    OBVIOUS
  <2>1. CASE x >= i
    <3>1. x - i \in Above /\ x - i < e
      BY <1>3, <2>1
    <3> QED BY <1>1, <1>3, <3>1
  <2>2. CASE x < i
    <3>1. i - x \in Under /\ i - x < a
      BY <1>3, <2>2
    <3> QED BY <1>2, <1>3, <3>1
  <2> QED BY <2>1, <2>2
<1>5. r[1] - 1 \notin ids /\ r[2] + 1 \notin ids
  BY <1>3
<1>6. i \in r[1] .. r[2] /\ r[1] <= r[2]
  BY <1>3
<1>7. r[1] \in ids /\ r[2] \in ids
  BY <1>4, <1>6
<1>8. r \in Ranges(ids)
  BY <1>4, <1>5, <1>6, <1>7 DEF Ranges
<1> QED BY <1>6, <1>8

\* The frames of a member are among those of the shard's stream.
LEMMA NeededBounded ==
  ASSUME NEW m \in Member, End(m) <= Length, m.data_offset > 0
  PROVE  FramesNeeded(m) \subseteq 0 .. Length
<1>1. /\ FirstFrame(m) \in Nat /\ LastFrame(m) \in Nat
      /\ LastFrame(m) * FrameSize <= End(m) - 1
      /\ FrameSize \in Nat \ {0} /\ Length \in Nat /\ End(m) \in Nat
  BY Spans, ExtractionAssumption DEF Member, End
<1>2. LastFrame(m) <= LastFrame(m) * FrameSize /\ LastFrame(m) * FrameSize \in Nat
  <2>1. \A q \in Nat, f \in Nat \ {0} : q <= q * f /\ q * f \in Nat
    OBVIOUS
  <2> QED BY <1>1, <2>1
<1>3. LastFrame(m) <= Length
  BY <1>1, <1>2
<1> QED BY <1>1, <1>3 DEF FramesNeeded

-----------------------------------------------------------------------------
(* What is put together *)

\* A member's bytes up to frame k.
Upto(m, k) ==
    Run(m.data_offset, (IF k <= LastFrame(m) THEN k * FrameSize ELSE End(m))
                         - m.data_offset)

LEMMA BytesAreRun == ASSUME NEW m PROVE Bytes(m) = Run(m.data_offset, m.size)
BY DEF Bytes, Run

LEMMA UptoEnd ==
  ASSUME NEW m \in Member
  PROVE  Upto(m, LastFrame(m) + 1) = Bytes(m)
<1>1. m.size = End(m) - m.data_offset
  BY DEF Member, End
<1>2. ~(LastFrame(m) + 1 <= LastFrame(m))
  BY ExtractionAssumption DEF Member, LastFrame, End
<1> QED BY <1>1, <1>2, BytesAreRun DEF Upto

\* A member within one frame.
LEMMA SliceWithin ==
  ASSUME NEW m \in Member, End(m) <= Length, m.data_offset > 0, m.size > 0,
         FirstFrame(m) = LastFrame(m),
         NEW start, start = m.data_offset - FirstFrame(m) * FrameSize
  PROVE  SubSeq(Frame(FirstFrame(m)), start + 1, start + m.size)
           = Upto(m, FirstFrame(m) + 1)
<1> DEFINE F == FirstFrame(m)
           x == F * FrameSize
           n == FrameLength(F)
<1>1. /\ F \in Nat /\ x <= m.data_offset /\ FrameSize \in Nat
      /\ m.data_offset \in Nat /\ m.size \in Nat /\ End(m) = m.data_offset + m.size
  BY Spans, ExtractionAssumption DEF Member, End
<1>2. n \in Nat /\ End(m) - x <= n
  BY EndInFrame
<1>3. x \in Nat
  BY <1>1
<1>4. Frame(F) = Run(x, n)
  BY <1>1, FrameIsRun
<1>5. Upto(m, F + 1) = Run(m.data_offset, m.size)
  BY UptoEnd, BytesAreRun
<1> HIDE DEF F, x, n
<1>6. start \in Nat /\ start + m.size <= n /\ x + start = m.data_offset
  BY <1>1, <1>2, <1>3 DEF x, F
<1> DEFINE a == start + 1
           b == start + m.size
<1>7. /\ a \in Nat \ {0} /\ b \in Nat /\ a <= b + 1 /\ b <= n
      /\ m.data_offset = x + a - 1 /\ m.size = b - a + 1
  BY <1>1, <1>3, <1>6
<1> HIDE DEF a, b
<1>8. Slice(Run(x, n), a, b) = Run(m.data_offset, m.size)
  BY <1>2, <1>3, <1>7, RunSlice
<1> QED BY <1>4, <1>5, <1>8 DEF F, a, b, Slice

\* The first of several frames.
LEMMA SliceFromFirst ==
  ASSUME NEW m \in Member, End(m) <= Length, m.data_offset > 0, m.size > 0,
         FirstFrame(m) # LastFrame(m),
         NEW start, start = m.data_offset - FirstFrame(m) * FrameSize
  PROVE  SubSeq(Frame(FirstFrame(m)), start + 1, Len(Frame(FirstFrame(m))))
           = Upto(m, FirstFrame(m) + 1)
<1> DEFINE F == FirstFrame(m)
           x == F * FrameSize
<1>1. /\ F \in Nat /\ x <= m.data_offset /\ m.data_offset < x + FrameSize
      /\ F < LastFrame(m) /\ FrameSize \in Nat /\ m.data_offset \in Nat
  BY Spans, ExtractionAssumption DEF Member
<1>0. F + 1 <= LastFrame(m)
  <2>1. F \in Nat /\ LastFrame(m) \in Nat /\ F < LastFrame(m)
    BY <1>1, Spans
  <2> HIDE DEF F
  <2> QED BY <2>1
<1>2. FrameLength(F) = FrameSize
  BY <1>1, FullFrame
<1>3. x \in Nat /\ (F + 1) * FrameSize = x + FrameSize
  BY <1>1, Multiples, ExtractionAssumption
<1>4. Frame(F) = Run(x, FrameSize) /\ Len(Frame(F)) = FrameSize
  BY <1>1, <1>2, <1>3, FrameIsRun, RunLen
<1>5. Upto(m, F + 1) = Run(m.data_offset, (x + FrameSize) - m.data_offset)
  <2> DEFINE y == (F + 1) * FrameSize
             z == x + FrameSize
             o == m.data_offset
  <2>1. y \in Nat /\ z \in Nat /\ o \in Nat /\ y = z
    BY <1>1, <1>3
  <2>2. Upto(m, F + 1) = Run(o, y - o)
    BY <1>0, Zenon DEF Upto
  <2> HIDE DEF F, x, y, z, o
  <2>3. y - o = z - o
    BY <2>1
  <2>4. Upto(m, F + 1) = Run(o, z - o)
    BY <2>2, <2>3, Zenon
  <2> QED BY <2>4 DEF o, z
<1>6. start = m.data_offset - x
  OBVIOUS
<1> SUFFICES SubSeq(Frame(F), start + 1, Len(Frame(F))) = Upto(m, F + 1)
  OBVIOUS
<1> HIDE DEF F, x
<1>7. start \in Nat /\ start <= FrameSize /\ x + start = m.data_offset
  BY <1>1, <1>3, <1>6
<1> DEFINE a == start + 1
           c == (x + FrameSize) - m.data_offset
<1>8. /\ a \in Nat \ {0} /\ a <= FrameSize + 1
      /\ m.data_offset = x + a - 1 /\ c = FrameSize - a + 1
  BY <1>1, <1>3, <1>7
<1> HIDE DEF a, c
<1>9. Slice(Run(x, FrameSize), a, FrameSize) = Run(m.data_offset, c)
  BY <1>1, <1>3, <1>8, RunSlice
<1> QED BY <1>4, <1>5, <1>9 DEF a, c, Slice

\* A frame in between.
LEMMA SliceOn ==
  ASSUME NEW m \in Member, End(m) <= Length, m.data_offset > 0,
         NEW k \in Nat, FirstFrame(m) < k, k < LastFrame(m)
  PROVE  Upto(m, k) \o Frame(k) = Upto(m, k + 1)
<1> DEFINE x == k * FrameSize
           o == m.data_offset
<1>1. /\ FirstFrame(m) \in Nat /\ LastFrame(m) \in Nat
      /\ o < FirstFrame(m) * FrameSize + FrameSize
      /\ FrameSize \in Nat \ {0} /\ o \in Nat
  BY Spans, ExtractionAssumption DEF Member
<1>2. /\ FirstFrame(m) * FrameSize + FrameSize <= x /\ x \in Nat
      /\ FirstFrame(m) * FrameSize \in Nat
      /\ (k + 1) * FrameSize = x + FrameSize
  BY <1>1, Multiples
<1>3. Frame(k) = Run(x, FrameSize)
  BY FullFrame, FrameIsRun
<1>4. Upto(m, k) = Run(o, x - o) /\ Upto(m, k + 1) = Run(o, x + FrameSize - o)
  BY <1>1, <1>2 DEF Upto
<1> HIDE DEF x, o
<1> DEFINE n == x - o
           l == x + FrameSize - o
<1>5. n \in Nat /\ x = o + n /\ l = n + FrameSize
  BY <1>1, <1>2
<1> HIDE DEF n, l
<1>6. Cat(Run(o, n), Run(x, FrameSize)) = Run(o, l)
  BY <1>1, <1>5, RunConcat
<1> QED BY <1>3, <1>4, <1>6 DEF n, l, Cat

\* The last of several frames.
LEMMA SliceToEnd ==
  ASSUME NEW m \in Member, End(m) <= Length, m.data_offset > 0, m.size > 0,
         FirstFrame(m) < LastFrame(m)
  PROVE  Upto(m, LastFrame(m)) \o SubSeq(Frame(LastFrame(m)), 1,
                                         End(m) - LastFrame(m) * FrameSize)
           = Upto(m, LastFrame(m) + 1)
<1> DEFINE L == LastFrame(m)
           x == L * FrameSize
           o == m.data_offset
           e == End(m)
           n == FrameLength(L)
<1>1. /\ FirstFrame(m) \in Nat /\ L \in Nat
      /\ o < FirstFrame(m) * FrameSize + FrameSize
      /\ x <= e - 1 /\ FrameSize \in Nat \ {0} /\ o \in Nat /\ e \in Nat
      /\ m.size = e - o
  BY Spans, ExtractionAssumption DEF Member, End
<1>2. /\ FirstFrame(m) * FrameSize + FrameSize <= x /\ x \in Nat
      /\ FirstFrame(m) * FrameSize \in Nat
  BY <1>1, Multiples
<1>3. n \in Nat /\ e - x <= n
  BY EndInFrame
<1>4. Frame(L) = Run(x, n)
  BY <1>1, FrameIsRun
<1>5. Upto(m, L) = Run(o, x - o) /\ Upto(m, L + 1) = Run(o, e - o)
  BY <1>1, UptoEnd, BytesAreRun DEF Upto
<1> SUFFICES Upto(m, L) \o SubSeq(Frame(L), 1, e - x) = Upto(m, L + 1)
  OBVIOUS
<1> HIDE DEF L, x, o, e, n
<1> DEFINE b == e - x
           c == x - o
           l == e - o
<1>6. /\ b \in Nat /\ c \in Nat /\ x = o + c /\ l = c + b /\ b <= n
      /\ x = x + 1 - 1 /\ b = b - 1 + 1 /\ 1 <= b + 1 /\ 1 \in Nat \ {0}
  BY <1>1, <1>2, <1>3
<1> HIDE DEF b, c, l
<1>7. Slice(Run(x, n), 1, b) = Run(x, b)
  BY <1>2, <1>3, <1>6, RunSlice
<1>8. Cat(Run(o, c), Run(x, b)) = Run(o, l)
  BY <1>1, <1>6, RunConcat
<1> QED BY <1>4, <1>5, <1>7, <1>8 DEF b, c, l, Slice, Cat

-----------------------------------------------------------------------------
(* The invariant *)

Restored(p) ==
    \/ layout[p].type = "h" /\ disk[p] = Absent
    \/ disk[p].kind = layout[p].type /\ disk[p].bytes = Bytes(layout[p])

Fitting == \A p \in Path : Fits(p, layout[p])

\* What is left to be written, at which step, and the exit code.
Stages ==
    /\ at \in {"preflight", "next"} => todo = {}
    /\ at # "done" => rc = 0
    /\ at = "done" /\ rc = 0 => shard = Shards /\ todo = {}
    /\ \A p \in todo : layout[p].shard = shard

\* Nothing is written ahead of its turn.
Untouched ==
    /\ disk = [p \in Path |-> disk[p]]
    /\ \A p \in Path : p \in todo \/ layout[p].shard > shard => disk[p] = Absent

\* The file under way is what it is up to the next frame.
Sliced(m) ==
    /\ m.type = "f"
    /\ m.size = 0 => bytes = <<>> /\ next > LastFrame(m)
    /\ m.size > 0 => /\ next \in FirstFrame(m) + 1 .. LastFrame(m) + 1
                     /\ bytes = Upto(m, next)

InBody == at = "body" => \A p \in Path : Turn(p) => Sliced(layout[p])

\* Of the shards done with, all that was asked for is there.
Progress ==
    rc = 0 => \A s \in (1 .. shard) \ ignored : \A p \in Matched(s) :
                 p \in todo \/ Restored(p)

EInv == /\ TypeOK /\ Fitting /\ Stages /\ Untouched
        /\ FramesAreRead /\ InBody /\ WrittenIsMember /\ Progress

\* A member of the backup, as the lemmas above want it.
LEMMA MemberFits ==
  ASSUME EInv, NEW p \in Path
  PROVE  /\ layout[p] \in Member /\ End(layout[p]) <= Length
         /\ layout[p].data_offset > 0
         /\ layout[p].type # "f" => layout[p].size = 0
BY DEF EInv, TypeOK, Fitting, Fits

LEMMA OneTurn ==
  ASSUME NEW p \in Path, NEW q \in Path, Turn(p), Turn(q)
  PROVE  p = q
BY ExtractionAssumption DEF Turn

LEMMA EmptyIsBytes ==
  ASSUME NEW m, m.size = 0
  PROVE  Bytes(m) = <<>>
BY BytesAreRun, RunEmpty

-----------------------------------------------------------------------------
(* Its steps *)

LEMMA InitStep == Init => EInv
<1> SUFFICES ASSUME Init PROVE EInv
  OBVIOUS
<1>1. layout \in [Path -> Member] /\ Fitting
  <2>1. layout \in [Path -> UNION {{m \in Member : Fits(p, m)} : p \in Path}]
    BY DEF Init
  <2>2. UNION {{m \in Member : Fits(p, m)} : p \in Path} \subseteq Member
    OBVIOUS
  <2>3. Fitting
    BY DEF Init, Fitting
  <2> QED BY <2>1, <2>2, <2>3
<1>2. TypeOK
  <2>1. /\ request \in Requests /\ at = "preflight" /\ asRoot = FALSE
        /\ shard = 0 /\ todo = {} /\ next = 0 /\ count = 0 /\ rc = 0
        /\ locked = {} /\ ignored = {}
    BY DEF Init
  <2>2. Shards \in Nat
    BY ExtractionAssumption
  <2>3. asRoot \in BOOLEAN
    BY <2>1, Zenon
  <2>4. shard \in 0 .. Shards /\ next \in Nat /\ count \in Nat /\ rc \in {0, 1}
    BY <2>1, <2>2
  <2> QED BY <1>1, <2>1, <2>3, <2>4, Zenon DEF TypeOK
<1>3. Stages /\ Untouched
  BY ExtractionAssumption DEF Init, Stages, Untouched
<1>4. FramesAreRead /\ InBody /\ WrittenIsMember
  BY DEF Init, FramesAreRead, InBody, WrittenIsMember, Absent
<1>5. Progress
  BY DEF Init, Progress
<1> QED BY <1>1, <1>2, <1>3, <1>4, <1>5 DEF EInv

\* A step that leaves the backup, the shard and the destination alone.
LEMMA QuietStep ==
  ASSUME EInv, TypeOK',
         UNCHANGED <<layout, request, shard, todo, disk, ignored>>,
         at' # "body", at' = "write" => FramesAreRead',
         at' \in {"preflight", "next"} => at \in {"preflight", "next"},
         rc' = 0 => rc = 0, at' # "done" => rc' = 0,
         at' = "done" /\ rc' = 0 => shard = Shards /\ todo = {}
  PROVE  EInv'
<1>1. Fitting' /\ Untouched' /\ WrittenIsMember'
  BY DEF EInv, Fitting, Fits, Untouched, WrittenIsMember
<1>2. Stages' /\ InBody'
  BY DEF EInv, Stages, InBody
<1>3. Progress'
  BY DEF EInv, Progress, Matched, InShard, Restored
<1>4. FramesAreRead'
  BY DEF FramesAreRead
<1> QED BY <1>1, <1>2, <1>3, <1>4 DEF EInv

LEMMA PreflightStep ==
  ASSUME EInv, PassPreflight \/ EscalateToHelper \/ Refuse
  PROVE  EInv'
<1>1. /\ at = "preflight" /\ UNCHANGED Unstarted
      /\ \/ at' = "next" /\ rc' = rc
         \/ at' = "done" /\ rc' = 1
      /\ asRoot' \in {asRoot, TRUE}
  BY DEF PassPreflight, EscalateToHelper, Refuse, Exit
<1>2. TypeOK'
  BY <1>1 DEF EInv, TypeOK, Unstarted
<1>3. rc = 0
  BY <1>1 DEF EInv, Stages
<1> QED BY <1>1, <1>2, <1>3, QuietStep DEF Unstarted

LEMMA RaiseStep ==
  ASSUME EInv, Raise
  PROVE  EInv'
<1>1. TypeOK'
  BY DEF EInv, TypeOK, Raise, Exit
<1> QED BY <1>1, QuietStep DEF Raise, Exit

LEMMA FinishStep ==
  ASSUME EInv, Finish
  PROVE  EInv'
<1>1. TypeOK'
  BY DEF EInv, TypeOK, Finish, Exit
<1>2. todo = {} /\ rc = 0
  BY DEF EInv, Stages, Finish
<1> QED BY <1>1, <1>2, QuietStep DEF Finish, Exit

LEMMA ReadStep ==
  ASSUME EInv, ReadFrames
  PROVE  EInv'
<1> DEFINE needed == UNION {FramesNeeded(layout[p]) : p \in todo}
           ids == UNION {r[1] .. r[2] : r \in Ranges(needed)}
<1>1. frames' = [i \in ids |-> Frame(i)]
  BY DEF ReadFrames
<1>2. needed \subseteq 0 .. Length
  BY MemberFits, NeededBounded DEF EInv, TypeOK
<1>3. needed \subseteq ids
  <2> SUFFICES ASSUME NEW i \in needed PROVE i \in ids
    OBVIOUS
  <2> HIDE DEF needed
  <2>1. PICK r \in Ranges(needed) : i \in r[1] .. r[2]
    BY <1>2, RangesCover, ExtractionAssumption
  <2> QED BY <2>1
<1>4. FramesAreRead'
  <2> SUFFICES ASSUME NEW p \in todo, NEW i \in FramesNeeded(layout[p])
               PROVE  i \in DOMAIN frames' /\ frames'[i] = Frame(i)
    BY DEF FramesAreRead, ReadFrames
  <2>1. i \in needed
    OBVIOUS
  <2> QED BY <1>1, <1>3, <2>1
<1>5. TypeOK'
  BY DEF EInv, TypeOK, ReadFrames
<1>6. rc = 0
  BY DEF EInv, Stages, ReadFrames
<1> QED BY <1>4, <1>5, <1>6, QuietStep DEF ReadFrames

LEMMA StartStep ==
  ASSUME EInv, StartFast
  PROVE  EInv'
<1>1. /\ at = "next" /\ shard < Shards /\ shard' = shard + 1
      /\ todo' = Matched(shard + 1) /\ at' \in {"next", "read"}
      /\ at' = "next" => todo' = {}
      /\ UNCHANGED <<layout, request, asRoot, frames, next, bytes, disk,
                     locked, ignored, count, rc>>
  BY DEF StartFast
<1>2. todo = {} /\ rc = 0 /\ shard \in Nat /\ Shards \in Nat
  BY <1>1, ExtractionAssumption DEF EInv, Stages, TypeOK
<1>3. TypeOK'
  BY <1>1, <1>2 DEF EInv, TypeOK, Matched, InShard
<1>4. Fitting' /\ WrittenIsMember' /\ FramesAreRead' /\ InBody'
  BY <1>1 DEF EInv, Fitting, Fits, WrittenIsMember, FramesAreRead, InBody
<1>5. Stages'
  BY <1>1, <1>2 DEF Stages, Matched, InShard
<1>6. Untouched'
  BY <1>1, <1>2 DEF EInv, TypeOK, Member, Untouched, Matched, InShard
<1>7. Progress'
  <2> SUFFICES ASSUME NEW s \in (1 .. shard + 1) \ ignored,
                      NEW p \in Matched(s)
               PROVE  p \in Matched(shard + 1) \/ Restored(p)
    BY <1>1 DEF Progress, Matched, InShard, Restored
  <2>1. CASE s = shard + 1
    BY <2>1
  <2>2. CASE s # shard + 1
    BY <1>2, <2>2 DEF EInv, Progress
  <2> QED BY <2>1, <2>2
<1> QED BY <1>3, <1>4, <1>5, <1>6, <1>7 DEF EInv

\* A member that is done with.
LEMMA DoneStep ==
  ASSUME EInv, NEW p \in Path, Turn(p), at \in {"write", "body"}, Done(p),
         NEW v, disk' = [disk EXCEPT ![p] = v],
         UNCHANGED <<layout, request, asRoot, shard, frames, next, bytes,
                     ignored, rc>>,
         locked' \subseteq Path, count' \in Nat,
         v.kind = "f" /\ v.by = "fast" => v.bytes = Bytes(layout[p]),
         \/ layout[p].type = "h" /\ v = Absent
         \/ v.kind = layout[p].type /\ v.bytes = Bytes(layout[p])
  PROVE  EInv'
<1>1. /\ todo' = todo \ {p} /\ at' \in {"next", "write"} /\ p \in todo
      /\ at' = "next" => todo' = {}
  BY DEF Done, Turn
<1>2. /\ disk' = [q \in Path |-> disk'[q]] /\ disk'[p] = v
      /\ \A q \in Path \ {p} : disk'[q] = disk[q]
  BY DEF EInv, Untouched
<1>3. TypeOK'
  BY <1>1 DEF EInv, TypeOK
<1>4. Fitting' /\ InBody' /\ Stages'
  BY <1>1 DEF EInv, Fitting, Fits, InBody, Stages
<1>5. Untouched' /\ WrittenIsMember'
  <2>1. layout[p].shard = shard /\ shard \in Nat /\ ~(shard > shard)
    BY <1>1, ExtractionAssumption DEF EInv, Stages, TypeOK
  <2>2. Untouched'
    BY <1>1, <1>2, <2>1 DEF EInv, Untouched
  <2>3. WrittenIsMember'
    BY <1>2 DEF EInv, WrittenIsMember
  <2> QED BY <2>2, <2>3
<1>6. FramesAreRead'
  BY <1>1 DEF EInv, FramesAreRead
<1>7. Progress'
  <2> SUFFICES ASSUME rc = 0, NEW s \in (1 .. shard) \ ignored,
                      NEW q \in Matched(s)
               PROVE  q \in todo' \/ Restored(q)'
    BY DEF Progress, Matched, InShard
  <2>1. q \in Path /\ (q \in todo \/ Restored(q))
    BY DEF EInv, Progress, Matched, InShard
  <2>2. CASE q = p
    BY <1>2, <2>2 DEF Restored
  <2>3. CASE q # p
    BY <1>1, <1>2, <2>1, <2>3 DEF Restored
  <2> QED BY <2>2, <2>3
<1> QED BY <1>3, <1>4, <1>5, <1>6, <1>7 DEF EInv

LEMMA WriteStep ==
  ASSUME EInv, NEW p \in Path, WriteDirectory(p) \/ WriteLink(p)
  PROVE  EInv'
<1>1. PICK kind \in {"d", "l"} :
         /\ layout[p].type = kind /\ at = "write" /\ Turn(p) /\ Done(p)
         /\ disk' = [disk EXCEPT ![p] = Put(kind, "fast", <<>>)]
         /\ locked' \in {locked, locked \cup {p}} /\ count' = count + 1
         /\ UNCHANGED <<layout, request, asRoot, shard, frames, next, bytes,
                        ignored, rc>>
  BY DEF WriteDirectory, WriteLink
<1>2. Bytes(layout[p]) = <<>>
  BY <1>1, MemberFits, EmptyIsBytes
<1>3. locked' \subseteq Path /\ count' \in Nat
  BY <1>1 DEF EInv, TypeOK
<1> DEFINE v == Put(kind, "fast", <<>>)
<1>4. v.kind = layout[p].type /\ v.bytes = Bytes(layout[p]) /\ v.kind # "f"
  BY <1>1, <1>2 DEF Put
<1>5. disk' = [disk EXCEPT ![p] = v]
  BY <1>1
<1> HIDE DEF v
<1> QED BY <1>1, <1>3, <1>4, <1>5, DoneStep

LEMMA SkipStep ==
  ASSUME EInv, NEW p \in Path, SkipHardLink(p)
  PROVE  EInv'
<1>1. /\ layout[p].type = "h" /\ at = "write" /\ Turn(p) /\ Done(p)
      /\ UNCHANGED <<layout, request, asRoot, shard, frames, next, bytes,
                     disk, locked, ignored, count, rc>>
  BY DEF SkipHardLink
<1>2. disk[p] = Absent /\ disk' = [disk EXCEPT ![p] = Absent]
  BY <1>1 DEF EInv, Untouched, Turn
<1>3. locked' \subseteq Path /\ count' \in Nat /\ Absent.kind # "f"
  BY <1>1 DEF EInv, TypeOK, Absent
<1> QED BY <1>1, <1>2, <1>3, DoneStep

LEMMA WriteFileStep ==
  ASSUME EInv, NEW p \in Path, WriteFile(p)
  PROVE  EInv'
<1> DEFINE m == layout[p]
           v == Put("f", "fast", bytes)
<1>1. /\ at = "body" /\ Turn(p) /\ Done(p) /\ count' = count + 1
      /\ m.size = 0 \/ next > LastFrame(m)
      /\ disk' = [disk EXCEPT ![p] = v]
      /\ UNCHANGED <<layout, request, asRoot, shard, frames, next, bytes,
                     locked, ignored, rc>>
  BY DEF WriteFile
<1>2. locked' \subseteq Path /\ count' \in Nat
  BY <1>1 DEF EInv, TypeOK
<1>3. /\ m \in Member /\ LastFrame(m) \in Nat /\ FirstFrame(m) \in Nat
      /\ m.size \in Nat /\ Sliced(m)
  BY <1>1, MemberFits, Spans, ExtractionAssumption DEF EInv, InBody, Member
<1>4. bytes = Bytes(m) /\ m.type = "f"
  <2>1. CASE m.size = 0
    BY <1>3, <2>1, EmptyIsBytes DEF Sliced
  <2>2. CASE m.size > 0
    <3>1. next = LastFrame(m) + 1 /\ bytes = Upto(m, next)
      BY <1>1, <1>3, <2>2 DEF Sliced
    <3> QED BY <1>3, <3>1, UptoEnd DEF Sliced
  <2> QED BY <1>3, <2>1, <2>2
<1>5. v.kind = "f" /\ v.bytes = bytes
  BY DEF Put
<1> HIDE DEF v
<1> QED BY <1>1, <1>2, <1>4, <1>5, DoneStep

\* A step within a file.
LEMMA SliceStep ==
  ASSUME EInv, NEW p \in Path, Turn(p), at \in {"write", "body"}, at' = "body",
         UNCHANGED <<layout, request, asRoot, shard, todo, frames, disk,
                     locked, ignored, count, rc>>,
         next' \in Nat, Sliced(layout[p])'
  PROVE  EInv'
<1>1. TypeOK'
  BY DEF EInv, TypeOK
<1>2. Fitting' /\ Untouched' /\ WrittenIsMember' /\ Stages'
  BY DEF EInv, Fitting, Fits, Untouched, WrittenIsMember, Stages
<1>3. FramesAreRead'
  BY DEF EInv, FramesAreRead
<1>4. Progress'
  BY DEF EInv, Progress, Matched, InShard, Restored
<1>5. InBody'
  <2> SUFFICES ASSUME NEW q \in Path, Turn(q)' PROVE Sliced(layout[q])'
    BY DEF InBody
  <2>1. Turn(q)
    BY DEF Turn
  <2>2. q = p
    BY <2>1, OneTurn
  <2> QED BY <2>2
<1> QED BY <1>1, <1>2, <1>3, <1>4, <1>5 DEF EInv

\* What is about to be sliced has been read.
LEMMA FrameAtHand ==
  ASSUME EInv, NEW p \in Path, Turn(p), at \in {"write", "body"},
         layout[p].type = "f", layout[p].size > 0,
         NEW i \in FirstFrame(layout[p]) .. LastFrame(layout[p])
  PROVE  frames[i] = Frame(i)
<1>1. i \in FramesNeeded(layout[p]) /\ p \in todo
  BY MemberFits, ExtractionAssumption DEF FramesNeeded, Turn, Member
<1> QED BY <1>1 DEF EInv, FramesAreRead

LEMMA SliceFirstStep ==
  ASSUME EInv, NEW p \in Path, SliceFirst(p)
  PROVE  EInv'
<1> DEFINE m == layout[p]
           F == FirstFrame(m)
           L == LastFrame(m)
<1>1. /\ at = "write" /\ at' = "body" /\ Turn(p) /\ m.type = "f"
      /\ next' = F + 1
      /\ UNCHANGED <<layout, request, asRoot, shard, todo, frames, disk,
                     locked, ignored, count, rc>>
  BY DEF SliceFirst
<1>2. /\ m \in Member /\ End(m) <= Length /\ m.data_offset > 0
      /\ m.size \in Nat /\ F \in Nat /\ L \in Nat
      /\ m.size > 0 => F <= L
      /\ m.size = 0 => L <= F
  BY MemberFits, Spans, ExtractionAssumption DEF Member
<1>3. CASE m.size = 0
  <2>1. bytes' = <<>>
    BY <1>3 DEF SliceFirst
  <2>2. next' > L /\ next' \in Nat
    <3> HIDE DEF F, L
    <3> QED BY <1>1, <1>2, <1>3
  <2>3. Sliced(m)'
    BY <1>1, <1>3, <2>1, <2>2 DEF Sliced, LastFrame, FirstFrame, End
  <2> QED BY <1>1, <2>2, <2>3, SliceStep
<1>4. CASE m.size > 0
  <2>1. frames[F] = Frame(F)
    <3>1. F \in F .. L
      <4> HIDE DEF F, L
      <4> QED BY <1>2, <1>4
    <3> QED BY <1>1, <1>4, <3>1, FrameAtHand
  <2> DEFINE start == m.data_offset - F * FrameSize
  <2>2. bytes' = IF F = L
                 THEN SubSeq(Frame(F), start + 1, start + m.size)
                 ELSE SubSeq(Frame(F), start + 1, Len(Frame(F)))
    BY <1>4, <2>1 DEF SliceFirst
  <2>3. bytes' = Upto(m, F + 1)
    <3>1. CASE F = L
      BY <1>2, <1>4, <2>2, <3>1, SliceWithin
    <3>2. CASE F # L
      BY <1>2, <1>4, <2>2, <3>2, SliceFromFirst
    <3> QED BY <3>1, <3>2
  <2>4. next' \in F + 1 .. L + 1 /\ next' \in Nat
    <3> HIDE DEF F, L
    <3> QED BY <1>1, <1>2, <1>4
  <2>5. bytes' = Upto(m, next')
    BY <1>1, <2>3
  <2>6. Sliced(m)'
    <3>1. m' = m /\ F' = F /\ L' = L
      BY <1>1 DEF FirstFrame, LastFrame, End
    <3>2. Upto(m, next)' = Upto(m, next')
      BY <1>1 DEF Upto, LastFrame, End, Run
    <3> QED BY <1>1, <1>4, <2>4, <2>5, <3>1, <3>2 DEF Sliced
  <2> QED BY <1>1, <2>4, <2>6, SliceStep
<1> QED BY <1>2, <1>3, <1>4

\* The next frame is added to a file under way.
LEMMA SliceOnStep ==
  ASSUME EInv, NEW p \in Path, Turn(p), at = "body", at' = "body",
         UNCHANGED <<layout, request, asRoot, shard, todo, frames, disk,
                     locked, ignored, count, rc>>,
         layout[p].size > 0, next <= LastFrame(layout[p]), next' = next + 1,
         bytes' = Upto(layout[p], next + 1)
  PROVE  EInv'
<1> DEFINE m == layout[p]
           F == FirstFrame(m)
           L == LastFrame(m)
<1>1. F \in Nat /\ L \in Nat /\ next \in F + 1 .. L + 1 /\ m.type = "f"
  BY MemberFits, Spans DEF EInv, InBody, Sliced
<1>2. next' \in F + 1 .. L + 1 /\ next' \in Nat
  <2>1. next <= L /\ next' = next + 1
    OBVIOUS
  <2> HIDE DEF F, L
  <2> QED BY <1>1, <2>1
<1>3. Sliced(m)'
  <2>1. m' = m /\ F' = F /\ L' = L
    BY DEF FirstFrame, LastFrame, End
  <2>2. Upto(m, next)' = Upto(m, next')
    BY DEF Upto, LastFrame, End, Run
  <2>3. m.size # 0
    BY MemberFits, ExtractionAssumption DEF Member
  <2> QED BY <1>1, <1>2, <2>1, <2>2, <2>3 DEF Sliced
<1> QED BY <1>2, <1>3, SliceStep

LEMMA SliceMiddleStep ==
  ASSUME EInv, NEW p \in Path, SliceMiddle(p)
  PROVE  EInv'
<1> DEFINE m == layout[p]
           F == FirstFrame(m)
           L == LastFrame(m)
<1>1. /\ at = "body" /\ at' = "body" /\ Turn(p) /\ next < L
      /\ bytes' = bytes \o frames[next] /\ next' = next + 1
      /\ UNCHANGED <<layout, request, asRoot, shard, todo, frames, disk,
                     locked, ignored, count, rc>>
  BY DEF SliceMiddle
<1>2. /\ m \in Member /\ End(m) <= Length /\ m.data_offset > 0
      /\ m.size \in Nat /\ F \in Nat /\ L \in Nat /\ next \in Nat /\ Sliced(m)
  BY <1>1, MemberFits, Spans, ExtractionAssumption
  DEF Member, EInv, InBody, TypeOK
<1>3. m.size > 0
  <2> SUFFICES ASSUME m.size = 0 PROVE FALSE
    BY <1>2
  <2>1. next > L
    BY <1>2 DEF Sliced
  <2> HIDE DEF L
  <2> QED BY <1>1, <1>2, <2>1
<1>4. next \in F + 1 .. L + 1 /\ bytes = Upto(m, next) /\ m.type = "f"
  BY <1>2, <1>3 DEF Sliced
<1>5. next \in F .. L /\ F < next /\ next <= L
  <2> HIDE DEF F, L
  <2> QED BY <1>1, <1>2, <1>4
<1>6. frames[next] = Frame(next)
  BY <1>1, <1>3, <1>4, <1>5, FrameAtHand
<1>7. bytes' = Upto(m, next + 1)
  BY <1>1, <1>2, <1>4, <1>5, <1>6, SliceOn
<1> QED BY <1>1, <1>3, <1>5, <1>7, SliceOnStep

LEMMA SliceLastStep ==
  ASSUME EInv, NEW p \in Path, SliceLast(p)
  PROVE  EInv'
<1> DEFINE m == layout[p]
           F == FirstFrame(m)
           L == LastFrame(m)
<1>1. /\ at = "body" /\ at' = "body" /\ Turn(p) /\ next = L /\ m.size > 0
      /\ bytes' = bytes \o SubSeq(frames[L], 1, End(m) - L * FrameSize)
      /\ next' = L + 1
      /\ UNCHANGED <<layout, request, asRoot, shard, todo, frames, disk,
                     locked, ignored, count, rc>>
  BY DEF SliceLast
<1>2. /\ m \in Member /\ End(m) <= Length /\ m.data_offset > 0
      /\ F \in Nat /\ L \in Nat /\ Sliced(m)
  BY <1>1, MemberFits, Spans DEF EInv, InBody
<1>3. next \in F + 1 .. L + 1 /\ bytes = Upto(m, L) /\ m.type = "f"
  BY <1>1, <1>2 DEF Sliced
<1>4. L \in F .. L /\ F < L /\ next <= L
  <2>1. next = L
    BY <1>1
  <2> HIDE DEF F, L
  <2> QED BY <1>2, <1>3, <2>1
<1>5. frames[L] = Frame(L)
  BY <1>1, <1>3, <1>4, FrameAtHand
<1>6. bytes' = Upto(m, next + 1)
  BY <1>1, <1>2, <1>3, <1>4, <1>5, SliceToEnd
<1>7. next' = next + 1
  BY <1>1
<1> QED BY <1>1, <1>4, <1>6, <1>7, SliceOnStep

-----------------------------------------------------------------------------
(* The naive path *)

\* What tar writes of a whole delivery is the member.
LEMMA TarIsWhole ==
  ASSUME NEW m \in Member, End(m) <= Length, NEW dl, dl.cut = Length,
         dl.spoiled = {}
  PROVE  FromTar(m, dl) = Put(m.type, "tar", Bytes(m))
BY DEF FromTar, Bytes

LEMMA TarWrites == ASSUME NEW m, NEW dl PROVE FromTar(m, dl).by = "tar"
BY DEF FromTar, Put

LEMMA Delivered ==
  ASSUME NEW dl \in Deliveries, ~dl.failed
  PROVE  dl.cut = Length /\ dl.spoiled = {}
BY DEF Deliveries

LEMMA NaiveStep ==
  ASSUME EInv, ExtractNaive
  PROVE  EInv'
<1> DEFINE begun(dl) == {p \in InShard(shard + 1) :
                           layout[p].data_offset <= dl.cut}
           wanted(dl) == {p \in begun(dl) :
                            \E pat \in request : TarMatches(p, pat)}
           missing(dl) == \E pat \in request :
                             \A p \in begun(dl) : ~TarMatches(p, pat)
           complaint(dl, complains) ==
              \/ complains
              \/ \E p \in begun(dl) : End(layout[p]) > dl.cut
              \/ \E p \in wanted(dl) : Blocked(p)
           written(dl) == {p \in wanted(dl) : ~Blocked(p)}
<1>1. PICK dl \in Deliveries, complains \in BOOLEAN :
         /\ disk' = [p \in Path |-> IF p \in written(dl)
                                    THEN FromTar(layout[p], dl) ELSE disk[p]]
         /\ locked' = locked \cup {p \in written(dl) : layout[p].readonly}
         /\ count' = count + Cardinality(written(dl))
         /\ IF TarFails(complaint(dl, complains), missing(dl), dl)
            THEN Exit(1) /\ UNCHANGED ignored
            ELSE /\ at' = "next"
                 /\ ignored' = IF dl.failed /\ missing(dl)
                               THEN ignored \cup {shard + 1} ELSE ignored
                 /\ UNCHANGED rc
  BY DEF ExtractNaive
<1>2. /\ at = "next" /\ shard < Shards /\ shard' = shard + 1
      /\ UNCHANGED <<layout, request, asRoot, todo, frames, next, bytes>>
  BY DEF ExtractNaive
<1>3. todo = {} /\ rc = 0 /\ shard \in Nat /\ Shards \in Nat
  BY <1>2, ExtractionAssumption DEF EInv, Stages, TypeOK
<1>4. written(dl) \subseteq InShard(shard + 1) /\ written(dl) \subseteq Path
  BY DEF InShard
<1>5. Cardinality(written(dl)) \in Nat
  BY <1>4, ExtractionAssumption, FS_Subset, FS_CardinalityType
<1>6. /\ ignored' \subseteq ignored \cup {shard + 1}
      /\ ignored \subseteq ignored'
      /\ \/ at' = "next" /\ rc' = rc
         \/ at' = "done" /\ rc' = 1
  BY <1>1 DEF Exit
<1>7. \A p \in Path : /\ p \in written(dl) => disk'[p] = FromTar(layout[p], dl)
                      /\ p \notin written(dl) => disk'[p] = disk[p]
  BY <1>1
<1>8. rc' = 0 => \/ shard + 1 \in ignored'
                 \/ /\ dl.cut = Length /\ dl.spoiled = {}
                    /\ ~complaint(dl, complains)
  BY <1>1, <1>3, Delivered DEF TarFails, Exit
<1>9. \A p \in Matched(shard + 1) :
         rc' = 0 /\ shard + 1 \notin ignored' => p \in written(dl)
  <2> SUFFICES ASSUME NEW p \in Matched(shard + 1), rc' = 0,
                      shard + 1 \notin ignored'
               PROVE  p \in written(dl)
    OBVIOUS
  <2>1. p \in Path /\ p \in InShard(shard + 1)
    BY DEF Matched, InShard
  <2>2. \E pat \in request : TarMatches(p, pat)
    BY DEF Matched, Matches, TarMatches
  <2>3. layout[p].data_offset <= dl.cut
    BY <1>8, <2>1, MemberFits, ExtractionAssumption DEF Member, End
  <2>4. p \in wanted(dl)
    BY <2>1, <2>2, <2>3
  <2> QED BY <1>8, <2>4
<1> HIDE DEF begun, wanted, missing, complaint, written
<1>10. TypeOK'
  BY <1>1, <1>2, <1>3, <1>4, <1>5, <1>6 DEF EInv, TypeOK
<1>11. Fitting' /\ Stages' /\ FramesAreRead' /\ InBody'
  BY <1>2, <1>3, <1>6 DEF EInv, Fitting, Fits, Stages, FramesAreRead, InBody
<1>12. Untouched'
  <2>1. disk' = [p \in Path |-> disk'[p]]
    BY <1>1
  <2> SUFFICES ASSUME NEW p \in Path, layout[p].shard > shard + 1
               PROVE  disk'[p] = Absent
    BY <1>2, <1>3, <2>1 DEF Untouched
  <2>2. layout[p].shard \in Nat
    BY ExtractionAssumption DEF EInv, TypeOK, Member
  <2>3. p \notin written(dl)
    BY <1>3, <1>4, <2>2 DEF InShard
  <2>4. disk[p] = Absent
    BY <1>3, <2>2 DEF EInv, Untouched
  <2> QED BY <1>7, <2>3, <2>4
<1>13. WrittenIsMember'
  <2> SUFFICES ASSUME NEW p \in Path, disk'[p].kind = "f",
                      disk'[p].by = "fast"
               PROVE  disk'[p].bytes = Bytes(layout[p])
    BY <1>2 DEF WrittenIsMember
  <2>1. p \notin written(dl)
    BY <1>7, TarWrites
  <2> QED BY <1>7, <2>1 DEF EInv, WrittenIsMember
<1>14. Progress'
  <2> SUFFICES ASSUME rc' = 0, NEW s \in (1 .. shard + 1) \ ignored',
                      NEW p \in Matched(s)
               PROVE  Restored(p)'
    BY <1>2 DEF Progress, Matched, InShard
  <2>1. p \in Path /\ layout[p].shard = s
    BY DEF Matched, InShard
  <2>2. CASE s = shard + 1
    <3>1. p \in written(dl) /\ dl.cut = Length /\ dl.spoiled = {}
      BY <1>8, <1>9, <2>2
    <3>2. disk'[p] = Put(layout[p].type, "tar", Bytes(layout[p]))
      BY <1>7, <2>1, <3>1, MemberFits, TarIsWhole
    <3> QED BY <1>2, <3>2 DEF Restored, Put
  <2>3. CASE s # shard + 1
    <3>1. p \notin written(dl)
      BY <1>4, <2>1, <2>3 DEF InShard
    <3>2. s \in (1 .. shard) \ ignored
      BY <1>3, <1>6, <2>3
    <3>3. Restored(p)
      BY <1>3, <3>2 DEF EInv, Progress
    <3> QED BY <1>2, <1>7, <2>1, <3>1, <3>3 DEF Restored
  <2> QED BY <2>2, <2>3
<1> QED BY <1>10, <1>11, <1>12, <1>13, <1>14 DEF EInv

-----------------------------------------------------------------------------
(* Theorems *)

LEMMA NextStep ==
  ASSUME EInv, [Next]_vars
  PROVE  EInv'
<1>1. CASE PassPreflight \/ EscalateToHelper \/ Refuse
  BY <1>1, PreflightStep
<1>2. CASE StartFast
  BY <1>2, StartStep
<1>3. CASE ReadFrames
  BY <1>3, ReadStep
<1>4. CASE Raise
  BY <1>4, RaiseStep
<1>5. CASE ExtractNaive
  BY <1>5, NaiveStep
<1>6. CASE Finish
  BY <1>6, FinishStep
<1>7. ASSUME NEW p \in Path, WriteDirectory(p) \/ WriteLink(p)
      PROVE  EInv'
  BY <1>7, WriteStep
<1>8. ASSUME NEW p \in Path, SkipHardLink(p)
      PROVE  EInv'
  BY <1>8, SkipStep
<1>9. ASSUME NEW p \in Path, SliceFirst(p)
      PROVE  EInv'
  BY <1>9, SliceFirstStep
<1>10. ASSUME NEW p \in Path, SliceMiddle(p)
       PROVE  EInv'
  BY <1>10, SliceMiddleStep
<1>11. ASSUME NEW p \in Path, SliceLast(p)
       PROVE  EInv'
  BY <1>11, SliceLastStep
<1>12. ASSUME NEW p \in Path, WriteFile(p)
       PROVE  EInv'
  BY <1>12, WriteFileStep
<1>13. CASE UNCHANGED vars
  <2>1. TypeOK'
    BY <1>13 DEF EInv, TypeOK, vars
  <2>2. Fitting' /\ Stages' /\ Untouched' /\ FramesAreRead'
    BY <1>13 DEF EInv, Fitting, Fits, Stages, Untouched, FramesAreRead, vars
  <2>3. InBody'
    BY <1>13 DEF EInv, InBody, Turn, Sliced, vars
  <2>4. WrittenIsMember' /\ Progress'
    BY <1>13
    DEF EInv, WrittenIsMember, Progress, Matched, InShard, Restored, vars
  <2> QED BY <2>1, <2>2, <2>3, <2>4 DEF EInv
<1> QED
  BY <1>1, <1>2, <1>3, <1>4, <1>5, <1>6, <1>7, <1>8, <1>9, <1>10, <1>11,
     <1>12, <1>13
  DEF Next

\* The invariant holds throughout an extraction, from the pre-flight to the
\* exit, on either path and across both (action_extract, extract_files).
THEOREM Invariant == Spec => []EInv
BY InitStep, NextStep, PTL DEF Spec

\* The variables keep their types.
THEOREM ExtractionTypes == Spec => []TypeOK
<1>1. EInv => TypeOK
  BY DEF EInv
<1> QED BY <1>1, Invariant, PTL

\* A file the fast path has written holds the member's bytes, all of them and
\* nothing else, wherever it lies across the frames (_slice_file_body).
THEOREM SlicesAreMembers == Spec => []WrittenIsMember
<1>1. EInv => WrittenIsMember
  BY DEF EInv
<1> QED BY <1>1, Invariant, PTL

\* Every frame a slice takes has been read, though only ranges of frames are
\* (_frames_needed, _coalesce_to_ranges, _read_and_decompress_frames).
THEOREM NeededFramesRead == Spec => []FramesAreRead
<1>1. EInv => FramesAreRead
  BY DEF EInv
<1> QED BY <1>1, Invariant, PTL

\* An extraction that exits with 0 has restored every member asked for, whole,
\* but for hard links on the fast path and for shards whose zstdcat failed
\* while tar missed a pattern (action_extract, _extract_naive).
THEOREM SuccessTheorem == Spec => []SuccessIsWhole
<1>1. EInv => SuccessIsWhole
  BY DEF EInv, Stages, Progress, Restored, SuccessIsWhole
<1> QED BY <1>1, Invariant, PTL

=============================================================================
