-------------------------- MODULE AtomicSaveProofs --------------------------
(***************************************************************************)
(* Saves that do not overlap implement SavedFile, for any number of        *)
(* writers, manifests and inodes.                                          *)
(***************************************************************************)
EXTENDS AtomicSave, TLAPS

\* At most one writer has a file open: the temporary one, which is not the
\* manifest's, and which holds the whole of what it saves once it is written.
Exclusive ==
    /\ content[manifest] \in Value
    /\ tmp # manifest
    /\ \A w \in Writer : at[w] # "idle" =>
        /\ fd[w] = tmp /\ tmp # Nothing
        /\ content[tmp] = IF at[w] = "written" THEN saving[w] ELSE Partial
        /\ \A o \in Writer \ {w} : at[o] = "idle"

SInv == TypeOK /\ Exclusive

LEMMA InitSInv == Init => SInv
  BY AtomicSaveAssumption DEF Init, SInv, TypeOK, Exclusive

\* Each step keeps the invariant and is a step of SavedFile or none.
LEMMA StepSInv ==
  ASSUME OneAtATime = TRUE, SInv, [Next]_vars
  PROVE  SInv' /\ [Saved!Next]_<<content[manifest], saving>>
<1> USE AtomicSaveAssumption DEF SInv, TypeOK, Exclusive
<1>1. CASE UNCHANGED vars
  BY <1>1 DEF vars
<1>2. ASSUME NEW w \in Writer, Open(w)
      PROVE  SInv' /\ Saved!Next
  <2> PICK i \in Inode :
        /\ IF tmp = Nothing THEN ~InUse(i) ELSE i = tmp
        /\ tmp' = i
        /\ fd' = [fd EXCEPT ![w] = i]
        /\ content' = [content EXCEPT ![i] = Partial]
    BY <1>2 DEF Open
  <2>1. i # manifest
    BY <1>2 DEF Open, InUse
  <2>2. content'[manifest'] = content[manifest]
    BY <1>2, <2>1 DEF Open
  <2>3. SInv'
    BY <1>2, <2>1, <2>2 DEF Open
  <2>4. Saved!Begin(w)
    BY <1>2, <2>2 DEF Open, Saved!Begin
  <2> QED BY <2>3, <2>4 DEF Saved!Next
<1>3. ASSUME NEW w \in Writer, Write(w)
      PROVE  SInv' /\ UNCHANGED <<content[manifest], saving>>
  <2>1. \A o \in Writer \ {w} : fd[o] # fd[w]
    BY <1>3 DEF Write
  <2>2. content' = [content EXCEPT ![tmp] = saving[w]]
    BY <1>3, <2>1 DEF Write
  <2>3. content'[manifest'] = content[manifest]
    BY <1>3, <2>2 DEF Write
  <2> QED BY <1>3, <2>2, <2>3 DEF Write
<1>4. ASSUME NEW w \in Writer, Rename(w)
      PROVE  SInv' /\ Saved!Next
  <2>1. content'[manifest'] = saving[w]
    BY <1>4 DEF Rename
  <2>2. SInv'
    BY <1>4, <2>1 DEF Rename, Leave
  <2>3. Saved!Commit(w)
    BY <1>4, <2>1 DEF Rename, Leave, Saved!Commit
  <2> QED BY <2>2, <2>3 DEF Saved!Next
<1>5. ASSUME NEW w \in Writer, Die(w)
      PROVE  SInv' /\ Saved!Next
  <2>1. SInv'
    BY <1>5 DEF Die, Leave
  <2>2. Saved!Abandon(w)
    BY <1>5 DEF Die, Leave, Saved!Abandon
  <2> QED BY <2>1, <2>2 DEF Saved!Next
<1> QED BY <1>1, <1>2, <1>3, <1>4, <1>5 DEF Next

\* Writers open, write, rename and die in any order, several at a time if they
\* may, and the names refer to inodes: a writer has a file open exactly while it
\* saves.
THEOREM TypeCorrect == Spec => []TypeOK
<1>1. Init => TypeOK
  BY AtomicSaveAssumption DEF Init, TypeOK
<1>2. TypeOK /\ [Next]_vars => TypeOK'
  <2> SUFFICES ASSUME TypeOK, [Next]_vars PROVE TypeOK'
    OBVIOUS
  <2> USE AtomicSaveAssumption DEF TypeOK
  <2>1. CASE UNCHANGED vars
    BY <2>1 DEF vars
  <2>2. ASSUME NEW w \in Writer, Open(w) PROVE TypeOK'
    BY <2>2 DEF Open
  <2>3. ASSUME NEW w \in Writer, Write(w) PROVE TypeOK'
    <3>1. /\ UNCHANGED <<manifest, tmp, fd, saving>>
          /\ at[w] = "opened" /\ at' = [at EXCEPT ![w] = "written"]
      BY <2>3 DEF Write
    <3>2. content' \in [Inode -> Value \cup {Partial}]
      BY <2>3 DEF Write
    <3> QED BY <3>1, <3>2
  <2>4. ASSUME NEW w \in Writer, Rename(w) PROVE TypeOK'
    BY <2>4 DEF Rename, Leave
  <2>5. ASSUME NEW w \in Writer, Die(w) PROVE TypeOK'
    BY <2>5 DEF Die, Leave
  <2> QED BY <2>1, <2>2, <2>3, <2>4, <2>5 DEF Next
<1> QED BY <1>1, <1>2, PTL DEF Spec

\* Saves that do not overlap keep the file whole at every moment, and a reader
\* finds what the last completed save has written.
THEOREM SavesAreAtomicTheorem ==
  ASSUME OneAtATime = TRUE
  PROVE  Spec => SavesAreAtomic
<1>1. Init => Saved!Init
  BY AtomicSaveAssumption DEF Init, Saved!Init
<1> QED BY <1>1, InitSInv, StepSInv, PTL DEF Spec, SavesAreAtomic, Saved!Spec
=============================================================================
