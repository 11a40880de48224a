----------------------------- MODULE AtomicSave -----------------------------
(***************************************************************************)
(* manifest.save: open manifest.json.tmp, write it, rename it over         *)
(* manifest.json.  The temporary name is the same for every process.       *)
(*                                                                         *)
(* A name refers to an inode; opening a name that exists truncates its     *)
(* inode, and a process that has opened an inode writes to it whatever it  *)
(* is called by then.                                                      *)
(***************************************************************************)
CONSTANTS
    Writer,     \* processes that save
    Value,      \* manifests
    First,      \* the manifest there is at the start
    Nothing,    \* no manifest, no inode
    Partial,    \* the content of a file that is no whole manifest
    Inode,      \* inodes
    OneAtATime  \* no save starts while another is under way

ASSUME AtomicSaveAssumption ==
    /\ First \in Value
    /\ Nothing \notin Value \cup Inode
    /\ Partial \notin Value
    /\ OneAtATime \in BOOLEAN

VARIABLES
    manifest, \* the inode of manifest.json
    tmp,      \* the inode of manifest.json.tmp, or Nothing
    content,  \* what each inode holds
    at,       \* where each writer is
    fd,       \* the inode it has opened
    saving    \* what it saves

vars == <<manifest, tmp, content, at, fd, saving>>

Init ==
    /\ manifest \in Inode
    /\ tmp = Nothing
    /\ content = [i \in Inode |-> IF i = manifest THEN First ELSE Partial]
    /\ at = [w \in Writer |-> "idle"]
    /\ fd = [w \in Writer |-> Nothing]
    /\ saving = [w \in Writer |-> Nothing]

InUse(i) == i \in {manifest, tmp} \/ \E w \in Writer : fd[w] = i

\* Faulty variant of Open: the file is written in place.
OpenInPlace(w) ==
    /\ at[w] = "idle"
    /\ OneAtATime => \A o \in Writer : at[o] = "idle"
    /\ tmp' = manifest
    /\ fd' = [fd EXCEPT ![w] = manifest]
    /\ content' = [content EXCEPT ![manifest] = Partial]
    /\ at' = [at EXCEPT ![w] = "opened"]
    /\ \E v \in Value : saving' = [saving EXCEPT ![w] = v]
    /\ UNCHANGED manifest

\* open(tmp, "w")
Open(w) ==
    /\ at[w] = "idle"
    /\ OneAtATime => \A o \in Writer : at[o] = "idle"
    /\ \E i \in Inode :
        /\ IF tmp = Nothing THEN ~InUse(i) ELSE i = tmp
        /\ tmp' = i
        /\ fd' = [fd EXCEPT ![w] = i]
        /\ content' = [content EXCEPT ![i] = Partial]
    /\ at' = [at EXCEPT ![w] = "opened"]
    /\ \E v \in Value : saving' = [saving EXCEPT ![w] = v]
    /\ UNCHANGED manifest

\* json.dump, flush, fsync: the text of another process that has written to
\* the inode, or writes to it still, may be left in it.
Write(w) ==
    /\ at[w] = "opened"
    /\ LET i == fd[w]
           alone == /\ content[i] = Partial
                    /\ \A o \in Writer \ {w} : fd[o] # i
       IN  \E c \in {saving[w]} \cup (IF alone THEN {} ELSE {Partial}) :
               content' = [content EXCEPT ![i] = c]
    /\ at' = [at EXCEPT ![w] = "written"]
    /\ UNCHANGED <<manifest, tmp, fd, saving>>

\* Faulty variant of Leave: the file is not closed.
LeaveOpen(w) ==
    /\ at' = [at EXCEPT ![w] = "idle"]
    /\ saving' = [saving EXCEPT ![w] = Nothing]
    /\ UNCHANGED fd

Leave(w) ==
    /\ at' = [at EXCEPT ![w] = "idle"]
    /\ fd' = [fd EXCEPT ![w] = Nothing]
    /\ saving' = [saving EXCEPT ![w] = Nothing]

\* tmp.replace(path): whatever inode has the temporary name is renamed; if
\* there is none any more the process ends with FileNotFoundError.
Rename(w) ==
    /\ at[w] = "written"
    /\ manifest' = IF tmp = Nothing THEN manifest ELSE tmp
    /\ tmp' = Nothing
    /\ Leave(w)
    /\ UNCHANGED content

\* A write fails, or the process dies; the temporary file stays.
Die(w) ==
    /\ at[w] # "idle"
    /\ Leave(w)
    /\ UNCHANGED <<manifest, tmp, content>>

Next == \E w \in Writer : Open(w) \/ Write(w) \/ Rename(w) \/ Die(w)

Spec == Init /\ [][Next]_vars

-----------------------------------------------------------------------------
\* The names refer to inodes, and a writer has one open while it saves.
TypeOK ==
    /\ manifest \in Inode /\ tmp \in Inode \cup {Nothing}
    /\ content \in [Inode -> Value \cup {Partial}]
    /\ at \in [Writer -> {"idle", "opened", "written"}]
    /\ fd \in [Writer -> Inode \cup {Nothing}]
    /\ saving \in [Writer -> Value \cup {Nothing}]
    /\ \A w \in Writer :
        /\ at[w] = "idle" <=> fd[w] = Nothing
        /\ at[w] = "idle" <=> saving[w] = Nothing

Saved == INSTANCE SavedFile WITH value <- content[manifest]

\* As long as saves do not overlap, a reader finds at every moment the whole
\* of the manifest whose save took effect last, also when writers die between
\* any two steps and leave the temporary file behind (manifest.save).
SavesAreAtomic == Saved!Spec
=============================================================================
