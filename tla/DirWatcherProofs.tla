-------------------------- MODULE DirWatcherProofs --------------------------
(***************************************************************************)
(* Proofs about DirWatcher, for any number of overlapping watchers, any    *)
(* depth of rotation, and any bounds.                                      *)
(***************************************************************************)
EXTENDS DirIngestion, FiniteSetTheorems, TLAPS

USE DEF counts

-----------------------------------------------------------------------------
(* Type correctness.                                                       *)

Reading == {"read", "insert", "upsert"}

\* TypeOK is not inductive: the offset read up to is that of an open file,
\* and the row written has the inode of a file that was there.
TypeInv ==
    /\ TypeOK
    /\ \A w \in Watchers :
          /\ pc[w] # "idle" => info[w].inode \in Inodes
          /\ pc[w] \in Reading => fd[w] \in Inodes

\* handleFile's return leaves every local well typed.
LEMMA ReturnType ==
    ASSUME TypeInv, NEW w \in Watchers, Return(w)
    PROVE  /\ pc' \in [Watchers -> Steps]
           /\ path' \in [Watchers -> Paths]
           /\ info' \in [Watchers -> [inode : Inodes \cup {NoFile}, size : 0..MaxLen]]
           /\ prev' \in [Watchers -> FileStates \cup {NoRow}]
           /\ curFP' \in [Watchers -> Fingerprints]
           /\ fd' \in [Watchers -> Inodes \cup {NoFile}]
           /\ pos' \in [Watchers -> 0..MaxLen]
           /\ batch' \in [Watchers -> SUBSET Lines]
           /\ eof' \in [Watchers -> BOOLEAN]
           /\ \A x \in Watchers :
                 /\ pc'[x] # "idle" => info'[x].inode \in Inodes
                 /\ pc'[x] \in Reading => fd'[x] \in Inodes
  <1>1. /\ 0 \in Paths /\ 0 \in 0..MaxLen
        /\ NoInfo \in [inode : Inodes \cup {NoFile}, size : 0..MaxLen]
        /\ NoFP \in Fingerprints
    BY WatcherConstants DEF Paths, NoInfo, NoFP, Fingerprints
  <1>2. QED
    BY <1>1 DEF Return, TypeInv, TypeOK, Steps, Reading

\* A fingerprint has the type the file_state table stores.
LEMMA FingerprintType ==
    ASSUME TypeOK, NEW i \in Inodes
    PROVE  Fingerprint(i) \in Fingerprints
  BY WatcherConstants DEF TypeOK, Fingerprint, Fingerprints

\* The offset handleFile resumes at lies within the file it looked at.
LEMMA ResumeOffsetType ==
    ASSUME NEW row \in FileStates \cup {NoRow}, NEW inode, NEW size \in 0..MaxLen, NEW fp
    PROVE  /\ ResumeOffset(row, inode, size, fp) \in 0..MaxLen
           /\ ResumeOffset(row, inode, size, fp) <= size
  BY WatcherConstants, RowSentinel DEF ResumeOffset, FileStates

\* The row handleFile writes is well typed.
LEMMA WriteRowType ==
    ASSUME TypeInv, NEW w \in Watchers, pc[w] # "idle", WriteRow(w)
    PROVE  fileState' \in [Paths -> FileStates \cup {NoRow}]
  BY DEF TypeInv, TypeOK, WriteRow, FileStates

\* Counting a second reading keeps the count of each generation a number.
LEMMA AgainType ==
    ASSUME TypeInv, NEW g, Again(g) \/ UNCHANGED again
    PROVE  /\ again' \in [Gens -> Nat]
           /\ \A h \in Gens : again[h] <= again'[h]
  BY DEF TypeInv, TypeOK, Again

\* A step of the log writer or of logrotate preserves the types.
LEMMA EnvironmentType ==
    ASSUME TypeInv, Environment
    PROVE  TypeInv'
  <1>0. \A S \in SUBSET Watchers : Cardinality(S) \in Nat
    BY WatcherConstants, FS_Subset, FS_CardinalityType
  <1>1. ASSUME NEW p \in Paths, Append(p) PROVE TypeInv'
    BY <1>1, WatcherConstants DEF Append, TypeInv, TypeOK, dbVars, locals, Reading
  <1>2. ASSUME NEW p \in Paths, Rotate(p) PROVE TypeInv'
    <2>1. raced' \in Nat
      BY <1>0, <1>2 DEF Rotate, TypeInv, TypeOK, Handling
    <2>2. dir' \in [Paths -> Inodes \cup {NoFile}]
      BY <1>2 DEF Rotate, TypeInv, TypeOK
    <2>3. QED
      BY <1>2, <2>1, <2>2 DEF Rotate, TypeInv, TypeOK, dbVars, locals, Reading
  <1>3. ASSUME NEW i \in Inodes, Create(i) PROVE TypeInv'
    <2>1. lastGen + 1 \in 0..MaxGen /\ 0 \in 0..MaxLen
      BY <1>3, WatcherConstants DEF Create, TypeInv, TypeOK
    <2>2. /\ dir' \in [Paths -> Inodes \cup {NoFile}]
          /\ lastGen' \in 0..MaxGen
          /\ gen' \in [Inodes -> 0..MaxGen]
          /\ len' \in [Inodes -> 0..MaxLen]
      <3>1. /\ dir' = [dir EXCEPT ![0] = i]
            /\ lastGen' = lastGen + 1
            /\ gen' = [gen EXCEPT ![i] = lastGen + 1]
            /\ len' = [len EXCEPT ![i] = 0]
        BY <1>3 DEF Create
      <3>2. QED
        BY <2>1, <3>1 DEF TypeInv, TypeOK
    <2>3. QED
      BY <1>3, <2>2 DEF Create, TypeInv, TypeOK, dbVars, locals, Reading
  <1>4. ASSUME CopyTruncate PROVE TypeInv'
    <2>1. raced' \in Nat
      BY <1>0, <1>4 DEF CopyTruncate, Replaced, TypeInv, TypeOK, Handling
    <2>2. lastGen + 1 \in 0..MaxGen /\ 0 \in 0..MaxLen
      BY <1>4, WatcherConstants DEF CopyTruncate, TypeInv, TypeOK
    <2>3. /\ lastGen' \in 0..MaxGen
          /\ gen' \in [Inodes -> 0..MaxGen]
          /\ len' \in [Inodes -> 0..MaxLen]
      <3>1. /\ lastGen' = lastGen + 1
            /\ gen' = [gen EXCEPT ![dir[0]] = lastGen + 1]
            /\ len' = [len EXCEPT ![dir[0]] = 0]
        BY <1>4 DEF CopyTruncate
      <3>2. QED
        BY <2>2, <3>1 DEF TypeInv, TypeOK
    <2>4. QED
      BY <1>4, <2>1, <2>3 DEF CopyTruncate, TypeInv, TypeOK, dbVars, locals, Reading
  <1>5. QED
    BY <1>1, <1>2, <1>3, <1>4 DEF Environment

\* A step of a watcher preserves the types.
LEMMA WatchType ==
    ASSUME TypeInv, NEW w \in Watchers, Watch(w) \/ Cancel(w) \/ Fail(w)
    PROVE  TypeInv'
  <1>1. CASE Scan(w)
    BY <1>1 DEF Scan, TypeInv, TypeOK, fsVars, dbVars, locals, Reading
  <1>2. CASE Cancel(w)
    BY <1>2 DEF Cancel, TypeInv, TypeOK, fsVars, dbVars, locals, Reading
  <1>3. ASSUME NEW p \in Paths, Stat(w, p) PROVE TypeInv'
    <2>1. CASE dir[p] = NoFile
      BY <1>3, <2>1 DEF Stat, TypeInv, TypeOK, fsVars, dbVars, Reading
    <2>2. CASE dir[p] # NoFile
      <3> DEFINE found == [inode |-> dir[p], size |-> len[dir[p]]]
      <3>1. /\ found \in [inode : Inodes \cup {NoFile}, size : 0..MaxLen]
            /\ found.inode \in Inodes
        BY <2>2 DEF TypeInv, TypeOK
      <3>2. /\ pc' = [pc EXCEPT ![w] = "state"]
            /\ path' = [path EXCEPT ![w] = p]
            /\ info' = [info EXCEPT ![w] = found]
            /\ todo' = [todo EXCEPT ![w] = @ \ {p}]
            /\ UNCHANGED <<fsVars, dbVars, prev, curFP, fd, pos, batch, eof, counts>>
        BY <1>3, <2>2 DEF Stat, Goto
      <3> HIDE DEF found
      <3>3. QED
        BY <3>1, <3>2 DEF TypeInv, TypeOK, Steps, fsVars, dbVars, Reading
    <2>3. QED
      BY <2>1, <2>2
  <1>4. CASE GetFileState(w)
    BY <1>4 DEF GetFileState, Goto, TypeInv, TypeOK, Steps, fsVars, dbVars, Reading
  <1>5. CASE ReadHead(w)
    <2> DEFINE fp == Fingerprint(dir[path[w]])
               offset == ResumeOffset(prev[w], info[w].inode, info[w].size, fp)
    <2>1. fp \in Fingerprints
      BY <1>5, FingerprintType DEF ReadHead, TypeInv, TypeOK
    <2>2. offset \in 0..MaxLen
      BY ResumeOffsetType DEF TypeInv, TypeOK
    <2>3. /\ curFP' = [curFP EXCEPT ![w] = fp]
          /\ pos' = [pos EXCEPT ![w] = offset]
          /\ pc' = [pc EXCEPT ![w] = IF offset = info[w].size THEN "refresh" ELSE "open"]
          /\ pc[w] = "head"
          /\ Again(gen[dir[path[w]]]) \/ UNCHANGED again
          /\ UNCHANGED <<fsVars, dbVars, todo, path, info, prev, fd, batch, eof,
                         errors, crashes, raced>>
      BY <1>5 DEF ReadHead, Goto
    <2> HIDE DEF fp, offset
    <2>4. again' \in [Gens -> Nat]
      BY <2>3, AgainType
    <2>5. QED
      BY <2>1, <2>2, <2>3, <2>4 DEF TypeInv, TypeOK, Steps, fsVars, dbVars, Reading
  <1>6. CASE Vanished(w)
    BY <1>6, ReturnType DEF Vanished, TypeInv, TypeOK, fsVars, dbVars
  <1>7. CASE Unchanged(w)
    BY <1>7, ReturnType DEF Unchanged, TypeInv, TypeOK, fsVars, dbVars
  <1>8. CASE Refresh(w)
    BY <1>8, ReturnType, WriteRowType DEF Refresh, TypeInv, TypeOK, fsVars
  <1>9. CASE Open(w)
    BY <1>9 DEF Open, Goto, TypeInv, TypeOK, Steps, fsVars, dbVars, Reading
  <1>10. CASE ReadBatch(w)
    <2>1. PICK to \in (pos[w] + 1)..len[fd[w]] :
             /\ batch' = [batch EXCEPT ![w] = Ahead(w, to)]
             /\ pos' = [pos EXCEPT ![w] = to]
      BY <1>10 DEF ReadBatch
    <2>2. fd[w] \in Inodes
      BY <1>10 DEF ReadBatch, TypeInv, Reading
    <2>3. to \in 0..MaxLen /\ Ahead(w, to) \in SUBSET Lines
      BY <2>2, WatcherConstants DEF TypeInv, TypeOK, Ahead, LinesIn
    <2>4. QED
      BY <1>10, <2>1, <2>2, <2>3
         DEF ReadBatch, Goto, TypeInv, TypeOK, Steps, fsVars, dbVars, Reading
  <1>11. CASE ReadEOF(w)
    <2>1. fd[w] \in Inodes
      BY <1>11 DEF ReadEOF, TypeInv, Reading
    <2>2. /\ Ahead(w, len[fd[w]]) \in SUBSET Lines
          /\ len[fd[w]] \in 0..MaxLen
      BY <2>1 DEF TypeInv, TypeOK, Ahead, LinesIn
    <2>3. QED
      BY <1>11, <2>1, <2>2
         DEF ReadEOF, Goto, TypeInv, TypeOK, Steps, fsVars, dbVars, Reading
  <1>12. CASE ReadTooLong(w)
    <2>1. Again(gen[fd[w]]) \/ UNCHANGED again
      BY <1>12 DEF ReadTooLong
    <2>2. again' \in [Gens -> Nat]
      BY <2>1, AgainType
    <2>3. QED
      BY <1>12, <2>2, ReturnType DEF ReadTooLong, TypeInv, TypeOK, fsVars, dbVars
  <1>13. CASE Insert(w)
    <2>1. requests' \in [Lines -> Nat]
      BY <1>13 DEF Insert, TypeInv, TypeOK
    <2>2. QED
      BY <1>13, <2>1 DEF Insert, Goto, TypeInv, TypeOK, Steps, fsVars, Reading
  <1>14. CASE Upsert(w)
    BY <1>14, ReturnType, WriteRowType DEF Upsert, TypeInv, TypeOK, fsVars
  <1>15. CASE Fail(w)
    BY <1>15, ReturnType, WatcherConstants DEF Fail, TypeInv, TypeOK, fsVars, dbVars
  <1>16. QED
    BY <1>1, <1>2, <1>3, <1>4, <1>5, <1>6, <1>7, <1>8, <1>9, <1>10, <1>11,
       <1>12, <1>13, <1>14, <1>15 DEF Watch

\* Every watcher idle, as at start and after a crash, is well typed.
LEMMA IdleType ==
    /\ 0 \in Paths /\ 0 \in 0..MaxLen /\ 0 \in 0..MaxGen
    /\ 0 \in 0..MaxErrors /\ 0 \in 0..MaxCrashes
    /\ NoInfo \in [inode : Inodes \cup {NoFile}, size : 0..MaxLen]
    /\ NoFP \in Fingerprints
  BY WatcherConstants DEF Paths, NoInfo, NoFP, Fingerprints

LEMMA NextType ==
    ASSUME TypeInv, [Next]_vars
    PROVE  TypeInv'
  <1>1. CASE Environment
    BY <1>1, EnvironmentType
  <1>2. ASSUME NEW w \in Watchers, Watch(w) \/ Cancel(w) \/ Fail(w) PROVE TypeInv'
    BY <1>2, WatchType
  <1>3. CASE Crash
    BY <1>3, IdleType, WatcherConstants
       DEF Crash, TypeInv, TypeOK, Steps, Reading, fsVars, dbVars
  <1>4. CASE UNCHANGED vars
    BY <1>4 DEF vars, fsVars, dbVars, locals, TypeInv, TypeOK, Reading
  <1>5. QED
    BY <1>1, <1>2, <1>3, <1>4 DEF Next

LEMMA InitType == Init => TypeInv
  BY IdleType DEF Init, TypeInv, TypeOK, Steps, Reading

\* The files, the tables and the locals of handleFile keep their types: the
\* offset stored never exceeds the largest file, whatever the interleaving.
THEOREM TypeCorrect == Spec => []TypeOK
  <1>1. Spec => []TypeInv
    BY InitType, NextType, PTL DEF Spec
  <1>2. TypeInv => TypeOK
    BY DEF TypeInv
  <1>3. QED
    BY <1>1, <1>2, PTL

-----------------------------------------------------------------------------
(* The checkpoint.                                                         *)

\* The path p holds generation g.
Holds(p, g) == dir[p] # NoFile /\ gen[dir[p]] = g

\* Two paths never hold the same generation.
OneHolder ==
    /\ \A p \in Paths : dir[p] # NoFile => gen[dir[p]] \in 1..lastGen
    /\ \A p, q \in Paths :
          dir[p] # NoFile /\ dir[q] # NoFile /\ gen[dir[p]] = gen[dir[q]] => p = q

\* The fingerprint fp was read at p: its generation, if it has one, is at p, at
\* a later name, or gone, and so never comes to p again.
Seen(p, fp) ==
    fp.n > 0 =>
        /\ fp.head \in 1..lastGen
        /\ \A q \in Paths : Holds(q, fp.head) => p <= q

\* The lines of generation g up to an offset are in the requests table, or in
\* the batch b.
Stored(g, offset, b) ==
    \A l \in Lines : l[1] = g /\ l[2] <= offset => requests[l] > 0 \/ l \in b

\* The offset recorded with the fingerprint fp of p covers only stored lines,
\* as long as p holds the file fp was read from.
Covered(p, fp, offset, b) ==
    /\ fp.n = 0 => offset = 0
    /\ fp.n > 0 /\ Holds(p, fp.head) => Stored(fp.head, offset, b)

\* What one file_state row of p, stored or held by a watcher, stands for.
RowInv(p, row) ==
    row # NoRow => /\ Seen(p, row.fingerprint)
                   /\ Covered(p, row.fingerprint, row.offset, {})

\* What the locals of w stand for, at each step of handleFile.
CursorInv(w) ==
    /\ RowInv(path[w], prev[w])
    /\ Seen(path[w], curFP[w])
    /\ pc[w] = "idle" => prev[w] = NoRow /\ curFP[w].n = 0
    /\ pc[w] # "insert" => batch[w] = {}
    /\ pc[w] \in {"state", "head"} /\ info[w].size > 0 /\ dir[path[w]] # NoFile
         => len[dir[path[w]]] > 0
    /\ pc[w] \in {"refresh", "open"} \cup Reading
         => Covered(path[w], curFP[w], pos[w], batch[w])
    /\ pc[w] \in {"open"} \cup Reading => curFP[w].n > 0
    /\ pc[w] \in Reading /\ Holds(path[w], curFP[w].head) => fd[w] = dir[path[w]]

CheckpointInv ==
    /\ TypeInv
    /\ OneHolder
    /\ \A p \in Paths : RowInv(p, fileState[p])
    /\ \A w \in Watchers : CursorInv(w)

\* The writer writes whole lines, no two files start alike, and a file does
\* not become empty between os.Stat and readFingerprint.
WellBehaved == LineLen = 1 /\ UniqueHeads /\ ~StatWindow

\* A step of the writer or of logrotate keeps generations apart.
LEMMA OneHolderStep ==
    ASSUME TypeInv, OneHolder, Environment
    PROVE  OneHolder'
  <1>1. ASSUME NEW p \in Paths, Append(p) PROVE OneHolder'
    BY <1>1 DEF Append, OneHolder
  <1>2. ASSUME NEW p \in Paths, Rotate(p) PROVE OneHolder'
    BY <1>2 DEF Rotate, OneHolder
  <1>3. ASSUME NEW i \in Inodes, Create(i) PROVE OneHolder'
    <2>1. /\ dir \in [Paths -> Inodes \cup {NoFile}] /\ gen \in [Inodes -> 0..MaxGen]
          /\ lastGen \in Nat /\ 0 \in Paths
      BY WatcherConstants DEF TypeInv, TypeOK, Paths
    <2>2. /\ \A p \in Paths : dir[p] # i
          /\ lastGen' = lastGen + 1
          /\ dir' = [dir EXCEPT ![0] = i] /\ gen' = [gen EXCEPT ![i] = lastGen + 1]
      BY <1>3 DEF Create
    <2>3. QED
      BY <2>1, <2>2 DEF OneHolder
  <1>4. CASE CopyTruncate
    <2>1. /\ dir \in [Paths -> Inodes \cup {NoFile}] /\ gen \in [Inodes -> 0..MaxGen]
          /\ lastGen \in Nat /\ 0 \in Paths
      BY WatcherConstants DEF TypeInv, TypeOK, Paths
    <2>2. /\ dir' = dir /\ dir[0] # NoFile /\ lastGen' = lastGen + 1
          /\ gen' = [gen EXCEPT ![dir[0]] = lastGen + 1]
      BY <1>4 DEF CopyTruncate
    <2>3. QED
      BY <2>1, <2>2 DEF OneHolder
  <1>5. QED
    BY <1>1, <1>2, <1>3, <1>4 DEF Environment

\* A generation once seen at p can only leave p for a later name.
LEMMA SeenStep ==
    ASSUME TypeInv, OneHolder, Environment,
           NEW p \in Paths, NEW fp \in Fingerprints, Seen(p, fp)
    PROVE  /\ Seen(p, fp)'
           /\ fp.n > 0 /\ Holds(p, fp.head)' => Holds(p, fp.head) /\ dir'[p] = dir[p]
  <1> DEFINE Goal == /\ Seen(p, fp)'
                     /\ fp.n > 0 /\ Holds(p, fp.head)'
                          => Holds(p, fp.head) /\ dir'[p] = dir[p]
  <1>1. ASSUME NEW q \in Paths, Append(q) PROVE Goal
    BY <1>1 DEF Append, Seen, Holds
  <1>2. ASSUME NEW q \in Paths, Rotate(q) PROVE Goal
    BY <1>2, WatcherConstants DEF Rotate, Seen, Holds, Paths
  <1>3. ASSUME NEW i \in Inodes, Create(i) PROVE Goal
    BY <1>3, WatcherConstants DEF Create, Seen, Holds, TypeInv, TypeOK, Paths
  <1>4. CASE CopyTruncate
    BY <1>4, WatcherConstants DEF CopyTruncate, Seen, Holds, OneHolder, TypeInv, TypeOK, Paths
  <1>5. QED
    BY <1>1, <1>2, <1>3, <1>4 DEF Environment

\* A file some watcher is about to fingerprint does not become empty.
LEMMA WindowStep ==
    ASSUME WellBehaved, TypeInv, OneHolder, Environment,
           NEW w \in Watchers, CursorInv(w),
           pc[w] \in {"state", "head"}, info[w].size > 0, dir'[path[w]] # NoFile
    PROVE  len'[dir'[path[w]]] > 0
  <1>1. ~MayEmpty(path[w])
    <2>1. w \in Handling(path[w])
      BY DEF Handling
    <2>2. info[w].size # 0
      BY DEF TypeInv, TypeOK
    <2>3. QED
      BY <2>1, <2>2 DEF MayEmpty, WellBehaved
  <1>2. path[w] \in Paths /\ (dir[path[w]] # NoFile => len[dir[path[w]]] > 0)
    BY DEF CursorInv, TypeInv, TypeOK
  <1>3. ASSUME NEW p \in Paths, Append(p) PROVE len'[dir'[path[w]]] > 0
    BY <1>2, <1>3 DEF Append, TypeInv, TypeOK
  <1>4. ASSUME NEW p \in Paths, Rotate(p) PROVE len'[dir'[path[w]]] > 0
    <2>1. /\ len' = len
          /\ dir'[path[w]] = IF path[w] = p THEN NoFile
                             ELSE IF path[w] = p + 1 THEN dir[p] ELSE dir[path[w]]
          /\ p + 1 \in Paths => MayEmpty(p + 1)
      BY <1>2, <1>4 DEF Rotate
    <2>2. QED
      BY <1>1, <1>2, <2>1
  <1>5. ASSUME NEW i \in Inodes, Create(i) PROVE len'[dir'[path[w]]] > 0
    BY <1>1, <1>2, <1>5 DEF Create, TypeInv, TypeOK
  <1>6. CASE CopyTruncate
    <2>1. path[w] # 0 /\ 0 \in Paths
      BY <1>1, <1>6, IdleType DEF CopyTruncate
    <2>2. dir' = dir /\ dir[path[w]] # dir[0]
      BY <1>2, <1>6, <2>1 DEF CopyTruncate, OneHolder
    <2>3. QED
      BY <1>2, <1>6, <2>2 DEF CopyTruncate, TypeInv, TypeOK
  <1>7. QED
    BY <1>3, <1>4, <1>5, <1>6 DEF Environment

\* Nothing the writer or logrotate does touches a row, a local or a request.
LEMMA EnvironmentUnchanged ==
    ASSUME Environment
    PROVE  UNCHANGED <<requests, fileState, pc, path, info, prev, curFP, fd, pos, batch>>
  BY DEF Environment, Append, Rotate, Create, CopyTruncate, dbVars, locals

LEMMA EnvironmentCheckpoint ==
    ASSUME WellBehaved, CheckpointInv, Environment
    PROVE  CheckpointInv'
  <1>1. TypeInv' /\ OneHolder'
    BY EnvironmentType, OneHolderStep DEF CheckpointInv
  <1> USE EnvironmentUnchanged
  <1>2. ASSUME NEW p \in Paths, NEW row \in FileStates \cup {NoRow}, RowInv(p, row)
        PROVE  RowInv(p, row)'
    <2>1. row # NoRow => row.fingerprint \in Fingerprints
      BY DEF FileStates
    <2>2. QED
      BY <1>2, <2>1, SeenStep DEF RowInv, Covered, Stored, CheckpointInv
  <1>3. ASSUME NEW p \in Paths PROVE RowInv(p, fileState[p])'
    <2>1. fileState[p] \in FileStates \cup {NoRow} /\ RowInv(p, fileState[p])
      BY DEF CheckpointInv, TypeInv, TypeOK
    <2>2. QED
      BY <2>1, <1>2 DEF RowInv, Seen, Covered, Stored, Holds
  <1>4. ASSUME NEW w \in Watchers PROVE CursorInv(w)'
    <2>1. /\ CursorInv(w) /\ path[w] \in Paths
          /\ prev[w] \in FileStates \cup {NoRow} /\ curFP[w] \in Fingerprints
      BY DEF CheckpointInv, TypeInv, TypeOK
    <2>2. RowInv(path[w], prev[w])'
      BY <2>1, <1>2 DEF RowInv, Seen, Covered, Stored, Holds, CursorInv
    <2>3. /\ Seen(path[w], curFP[w])'
          /\ curFP[w].n > 0 /\ Holds(path[w], curFP[w].head)'
               => /\ Holds(path[w], curFP[w].head)
                  /\ dir'[path[w]] = dir[path[w]]
      BY <2>1, SeenStep DEF CheckpointInv, CursorInv, Seen, Holds
    <2>4. pc[w] \in {"state", "head"} /\ info[w].size > 0 /\ dir'[path[w]] # NoFile
            => len'[dir'[path[w]]] > 0
      BY <2>1, WindowStep DEF CheckpointInv
    <2>5. QED
      BY <2>1, <2>2, <2>3, <2>4 DEF CursorInv, Covered, Stored
  <1>5. QED
    BY <1>1, <1>3, <1>4 DEF CheckpointInv

\* What every step of w leaves alone: the files, the other watchers, and the
\* rows of the requests table, to which it may only add.
StepOf(w) ==
    /\ UNCHANGED <<dir, gen, len, lastGen>>
    /\ \A l \in Lines : requests[l] > 0 => requests'[l] > 0
    /\ \A x \in Watchers \ {w} :
          /\ pc'[x] = pc[x] /\ path'[x] = path[x] /\ info'[x] = info[x]
          /\ prev'[x] = prev[x] /\ curFP'[x] = curFP[x] /\ fd'[x] = fd[x]
          /\ pos'[x] = pos[x] /\ batch'[x] = batch[x]

LEMMA WatchStep ==
    ASSUME TypeInv, NEW w \in Watchers, Watch(w) \/ Cancel(w) \/ Fail(w)
    PROVE  StepOf(w)
  <1>1. ASSUME Scan(w) \/ Cancel(w) PROVE StepOf(w)
    BY <1>1 DEF Scan, Cancel, StepOf, fsVars, dbVars, locals
  <1>2. ASSUME NEW p \in Paths, Stat(w, p) PROVE StepOf(w)
    BY <1>2 DEF Stat, Goto, StepOf, fsVars, dbVars, TypeInv, TypeOK
  <1>3. ASSUME GetFileState(w) \/ ReadHead(w) \/ Open(w) \/ ReadBatch(w) \/ ReadEOF(w)
        PROVE  StepOf(w)
    BY <1>3 DEF GetFileState, ReadHead, Open, ReadBatch, ReadEOF, Goto, StepOf,
                fsVars, dbVars, TypeInv, TypeOK
  <1>4. ASSUME Return(w), requests' = requests, UNCHANGED fsVars PROVE StepOf(w)
    BY <1>4 DEF Return, StepOf, fsVars, TypeInv, TypeOK
  <1>5. ASSUME Vanished(w) \/ Unchanged(w) \/ Refresh(w) \/ ReadTooLong(w)
               \/ Upsert(w) \/ Fail(w)
        PROVE  StepOf(w)
    BY <1>4, <1>5 DEF Vanished, Unchanged, Refresh, ReadTooLong, Upsert, Fail, dbVars
  <1>6. CASE Insert(w)
    BY <1>6 DEF Insert, Goto, StepOf, fsVars, TypeInv, TypeOK
  <1>7. QED
    BY <1>1, <1>2, <1>3, <1>5, <1>6 DEF Watch

\* The other watchers' locals, and any row, stand for what they stood for.
LEMMA StepOfOthers ==
    ASSUME CheckpointInv, NEW w \in Watchers, StepOf(w)
    PROVE  /\ OneHolder'
           /\ \A x \in Watchers \ {w} : CursorInv(x)'
           /\ \A p \in Paths, row \in FileStates \cup {NoRow} :
                 RowInv(p, row) => RowInv(p, row)'
  <1>1. OneHolder'
    BY DEF CheckpointInv, OneHolder, StepOf
  <1>2. ASSUME NEW p, NEW row, RowInv(p, row) PROVE RowInv(p, row)'
    BY <1>2 DEF RowInv, Seen, Covered, Stored, Holds, StepOf
  <1>3. ASSUME NEW x \in Watchers \ {w} PROVE CursorInv(x)'
    <2>1. /\ CursorInv(x)
          /\ pc'[x] = pc[x] /\ path'[x] = path[x] /\ info'[x] = info[x]
          /\ prev'[x] = prev[x] /\ curFP'[x] = curFP[x] /\ fd'[x] = fd[x]
          /\ pos'[x] = pos[x] /\ batch'[x] = batch[x]
          /\ UNCHANGED <<dir, gen, len, lastGen>>
          /\ \A l \in Lines : requests[l] > 0 => requests'[l] > 0
      BY <1>3 DEF CheckpointInv, StepOf
    <2>2. QED
      BY <2>1 DEF CursorInv, RowInv, Seen, Covered, Stored, Holds
  <1>4. QED
    BY <1>1, <1>2, <1>3

\* What is left of a step of w to show, once its types and StepOf are known.
LEMMA StepOfCheckpoint ==
    ASSUME CheckpointInv, NEW w \in Watchers, Watch(w) \/ Cancel(w) \/ Fail(w),
           CursorInv(w)',
           \A p \in Paths : fileState'[p] = fileState[p] \/ RowInv(p, fileState[p])'
    PROVE  CheckpointInv'
  <1>1. TypeInv /\ TypeInv'
    BY WatchType DEF CheckpointInv
  <1>2. StepOf(w)
    BY <1>1, WatchStep
  <1>3. ASSUME NEW p \in Paths PROVE RowInv(p, fileState[p])'
    <2>1. CASE fileState'[p] = fileState[p]
      <3>1. fileState[p] \in FileStates \cup {NoRow} /\ RowInv(p, fileState[p])
        BY <1>1 DEF CheckpointInv, TypeInv, TypeOK
      <3>2. QED
        BY <1>2, <2>1, <3>1 DEF RowInv, Seen, Covered, Stored, Holds, StepOf
    <2>2. QED
      BY <2>1
  <1>4. QED
    BY <1>1, <1>2, <1>3, StepOfOthers DEF CheckpointInv

\* After handleFile returns, its locals stand for nothing.
LEMMA ReturnCursor ==
    ASSUME TypeInv, NEW w \in Watchers, Return(w)
    PROVE  CursorInv(w)'
  BY DEF TypeInv, TypeOK, Return, NoInfo, NoFP, CursorInv, RowInv, Seen, Covered, Reading

\* A row written when what has been read is stored stands for what it should.
LEMMA WriteRowCovers ==
    ASSUME CheckpointInv, NEW w \in Watchers, StepOf(w), WriteRow(w),
           pc[w] \in {"refresh", "upsert"}
    PROVE  \A p \in Paths : fileState'[p] = fileState[p] \/ RowInv(p, fileState[p])'
  <1>1. /\ CursorInv(w) /\ path[w] \in Paths
        /\ fileState' = [fileState EXCEPT ![path[w]] =
             [inode |-> info[w].inode, size |-> info[w].size,
              offset |-> pos[w], fingerprint |-> curFP[w]]]
        /\ fileState \in [Paths -> FileStates \cup {NoRow}]
    BY DEF CheckpointInv, TypeInv, TypeOK, WriteRow
  <1>2. \A p \in Paths \ {path[w]} : fileState'[p] = fileState[p]
    BY <1>1
  <1>3. /\ fileState'[path[w]].offset = pos[w]
        /\ fileState'[path[w]].fingerprint = curFP[w]
    BY <1>1
  <1>4. /\ Seen(path[w], curFP[w])
        /\ Covered(path[w], curFP[w], pos[w], {})
    BY <1>1 DEF CursorInv, Reading
  <1>5. ASSUME NEW p \in Paths, p = path[w] PROVE RowInv(p, fileState[p])'
    BY <1>5, <1>3, <1>4 DEF RowInv, Seen, Covered, Stored, Holds, StepOf
  <1>6. QED
    BY <1>2, <1>5

-----------------------------------------------------------------------------
(* One lemma for each step of handleFile that reads the file or the table. *)

LEMMA StatCursor ==
    ASSUME CheckpointInv, NEW w \in Watchers, NEW p \in Paths, Stat(w, p)
    PROVE  CursorInv(w)'
  <1>1. CursorInv(w) /\ TypeOK
    BY DEF CheckpointInv, TypeInv
  <1>2. CASE dir[p] = NoFile
    BY <1>1, <1>2 DEF Stat, CursorInv, RowInv, Seen, Covered, Stored, Holds, Reading,
                      fsVars, dbVars
  <1>3. CASE dir[p] # NoFile
    <2>1. /\ pc'[w] = "state" /\ path'[w] = p
          /\ info'[w].size = len[dir[p]]
          /\ prev'[w] = NoRow /\ curFP'[w].n = 0 /\ batch'[w] = {}
          /\ dir' = dir /\ len' = len
      BY <1>1, <1>3 DEF Stat, Goto, CursorInv, TypeOK, fsVars
    <2>2. QED
      BY <2>1 DEF CursorInv, RowInv, Seen, Reading
  <1>4. QED
    BY <1>2, <1>3

LEMMA GetFileStateCursor ==
    ASSUME CheckpointInv, NEW w \in Watchers, GetFileState(w)
    PROVE  CursorInv(w)'
  <1>1. /\ CursorInv(w) /\ RowInv(path[w], fileState[path[w]])
        /\ pc'[w] = "head" /\ prev'[w] = fileState[path[w]] /\ pc[w] = "state"
        /\ UNCHANGED <<dir, gen, len, lastGen, requests, path, info, curFP, fd, pos, batch>>
    BY DEF CheckpointInv, TypeInv, TypeOK, GetFileState, Goto, fsVars, dbVars
  <1>2. QED
    BY <1>1 DEF CursorInv, RowInv, Seen, Covered, Stored, Holds, Reading

\* The offset chosen covers only stored lines of the file just fingerprinted.
LEMMA ReadHeadCursor ==
    ASSUME WellBehaved, CheckpointInv, NEW w \in Watchers, ReadHead(w)
    PROVE  CursorInv(w)'
  <1> DEFINE p == path[w]
             fp == Fingerprint(dir[p])
             offset == ResumeOffset(prev[w], info[w].inode, info[w].size, fp)
  <1>1. /\ CursorInv(w) /\ OneHolder
        /\ pc[w] = "head" /\ p \in Paths /\ dir[p] \in Inodes /\ dir[p] # NoFile
        /\ len[dir[p]] \in 0..MaxLen /\ gen[dir[p]] \in 0..MaxGen
        /\ info[w].size \in 0..MaxLen
        /\ prev[w] \in FileStates \cup {NoRow}
    BY DEF CheckpointInv, TypeInv, TypeOK, ReadHead
  <1>2. /\ pc'[w] = IF offset = info[w].size THEN "refresh" ELSE "open"
        /\ curFP'[w] = fp /\ pos'[w] = offset
        /\ batch'[w] = {}
        /\ UNCHANGED <<dir, gen, len, lastGen, requests, path, info, prev, fd>>
    BY <1>1 DEF CheckpointInv, TypeInv, TypeOK, ReadHead, Goto, fsVars, dbVars, CursorInv
  <1>3. fp.n \in Nat /\ (fp.n > 0 => fp.head = gen[dir[p]])
    BY <1>1, WatcherConstants DEF Fingerprint, WellBehaved
  <1>4. Seen(p, fp)
    <2> HIDE DEF fp
    <2>1. /\ gen[dir[p]] \in 1..lastGen
          /\ \A q \in Paths : Holds(q, gen[dir[p]]) => p <= q
      BY <1>1, WatcherConstants DEF OneHolder, Holds, Paths
    <2>2. QED
      BY <1>3, <2>1 DEF Seen
  <1>5. offset \in 0..MaxLen /\ offset <= info[w].size
    BY <1>1, ResumeOffsetType
  <1>6. fp.n = 0 => offset = 0 /\ info[w].size = 0
    <2>1. fp.n = 0 => len[dir[p]] = 0
      BY <1>1, WatcherConstants DEF Fingerprint
    <2>2. QED
      BY <1>1, <1>5, <2>1 DEF CursorInv
  <1>7. fp.n > 0 => Stored(fp.head, offset, {})
    <2>1. CASE offset = 0
      BY <2>1, <1>5 DEF Stored, Lines
    <2>2. CASE offset # 0
      <3>1. /\ prev[w] # NoRow /\ offset = prev[w].offset
            /\ prev[w].fingerprint.n > 0 => fp = prev[w].fingerprint
        BY <2>2 DEF ResumeOffset
      <3>2. prev[w].fingerprint.n \in Nat
        BY <1>1, <3>1, WatcherConstants DEF FileStates, Fingerprints
      <3>3. Covered(p, prev[w].fingerprint, offset, {})
        BY <1>1, <3>1 DEF CursorInv, RowInv
      <3>4. QED
        BY <1>1, <1>3, <2>2, <3>1, <3>2, <3>3 DEF Covered, Holds
    <2>3. QED
      BY <2>1, <2>2
  <1> HIDE DEF fp, offset
  <1>8. /\ RowInv(path[w], prev[w])'
        /\ Seen(path[w], curFP[w])'
    BY <1>1, <1>2, <1>4 DEF CursorInv, RowInv, Seen, Covered, Stored, Holds
  <1>9. Covered(path[w], curFP[w], pos[w], batch[w])'
    BY <1>2, <1>3, <1>6, <1>7 DEF Covered, Stored, Holds
  <1>10. pc'[w] = "open" => fp.n > 0
    BY <1>2, <1>3, <1>6
  <1>11. QED
    BY <1>2, <1>8, <1>9, <1>10 DEF CursorInv, Reading

LEMMA OpenCursor ==
    ASSUME CheckpointInv, NEW w \in Watchers, Open(w)
    PROVE  CursorInv(w)'
  <1>1. /\ CursorInv(w) /\ pc[w] = "open"
        /\ pc'[w] = "read" /\ fd'[w] = dir[path[w]]
        /\ UNCHANGED <<dir, gen, len, lastGen, requests, path, info, prev, curFP, pos, batch>>
    BY DEF CheckpointInv, TypeInv, TypeOK, Open, Goto, fsVars, dbVars
  <1>2. QED
    BY <1>1 DEF CursorInv, RowInv, Seen, Covered, Stored, Holds, Reading

\* Reading on to a chunk leaves no line between what is stored and the batch.
LEMMA ReadCursor ==
    ASSUME WellBehaved, CheckpointInv, NEW w \in Watchers, pc[w] = "read",
           NEW to \in Int, NEW step \in {"insert", "upsert"},
           batch'[w] = Ahead(w, to),
           pos'[w] = IF pos[w] < to THEN to ELSE pos[w],
           pc'[w] = step, step = "upsert" => batch'[w] = {},
           UNCHANGED <<dir, gen, len, lastGen, requests, path, info, prev, curFP, fd>>
    PROVE  CursorInv(w)'
  <1>1. /\ CursorInv(w) /\ batch[w] = {} /\ curFP[w].n > 0
        /\ fd[w] \in Inodes /\ len[fd[w]] \in 0..MaxLen /\ pos[w] \in 0..MaxLen
    BY DEF CheckpointInv, TypeInv, TypeOK, CursorInv, Reading
  <1>2. ASSUME Holds(path[w], curFP[w].head), NEW l \in Lines,
               l[1] = curFP[w].head, l[2] <= pos'[w]
        PROVE  requests[l] > 0 \/ l \in batch'[w]
    <2>1. fd[w] = dir[path[w]] /\ gen[fd[w]] = curFP[w].head
      BY <1>1, <1>2 DEF CursorInv, Holds, Reading
    <2>2. CASE l[2] <= pos[w]
      BY <1>1, <1>2, <2>2 DEF CursorInv, Covered, Stored, Reading
    <2>3. CASE ~(l[2] <= pos[w])
      <3>1. l[2] \in Nat
        BY DEF Lines
      <3>2. pos[w] <= (l[2] - 1) * LineLen /\ l[2] * LineLen <= to
        BY <1>1, <1>2, <2>3, <3>1 DEF WellBehaved
      <3>3. l \in Ahead(w, to)
        BY <1>2, <2>1, <3>2 DEF Ahead, LinesIn
      <3>4. QED
        BY <1>1, <3>3
    <2>4. QED
      BY <2>2, <2>3
  <1>3. Covered(path[w], curFP[w], pos[w], batch[w])'
    BY <1>1, <1>2 DEF Covered, Stored, Holds
  <1>4. QED
    BY <1>1, <1>3 DEF CursorInv, RowInv, Seen, Covered, Stored, Holds, Reading

LEMMA ReadBatchCursor ==
    ASSUME WellBehaved, CheckpointInv, NEW w \in Watchers, ReadBatch(w)
    PROVE  CursorInv(w)'
  <1>1. PICK to \in (pos[w] + 1)..len[fd[w]] :
           /\ batch' = [batch EXCEPT ![w] = Ahead(w, to)]
           /\ pos' = [pos EXCEPT ![w] = to]
    BY DEF ReadBatch
  <1>2. /\ batch'[w] = Ahead(w, to) /\ pos'[w] = to
        /\ pc[w] = "read" /\ pc'[w] = "insert"
        /\ UNCHANGED <<dir, gen, len, lastGen, requests, path, info, prev, curFP, fd>>
        /\ pos[w] \in 0..MaxLen /\ len[fd[w]] \in 0..MaxLen
    BY <1>1 DEF ReadBatch, Goto, fsVars, dbVars, CheckpointInv, TypeInv, TypeOK, Reading
  <1>3. QED
    BY <1>1, <1>2, ReadCursor

LEMMA ReadEOFCursor ==
    ASSUME WellBehaved, CheckpointInv, NEW w \in Watchers, ReadEOF(w)
    PROVE  CursorInv(w)'
  <1> DEFINE to == len[fd[w]]
  <1>1. /\ batch'[w] = Ahead(w, to)
        /\ pos'[w] = IF pos[w] < to THEN to ELSE pos[w]
        /\ pc[w] = "read"
        /\ pc'[w] = IF Ahead(w, to) = {} THEN "upsert" ELSE "insert"
        /\ UNCHANGED <<dir, gen, len, lastGen, requests, path, info, prev, curFP, fd>>
        /\ to \in Int
    BY DEF ReadEOF, Goto, fsVars, dbVars, CheckpointInv, TypeInv, TypeOK, Reading
  <1> HIDE DEF to
  <1>2. to = len[fd[w]]
    BY DEF to
  <1>3. CASE Ahead(w, to) = {}
    BY <1>1, <1>2, <1>3, ReadCursor
  <1>4. CASE Ahead(w, to) # {}
    BY <1>1, <1>2, <1>4, ReadCursor
  <1>5. QED
    BY <1>3, <1>4

\* The transaction commits: what was in the batch is stored.
LEMMA InsertCursor ==
    ASSUME CheckpointInv, NEW w \in Watchers, Insert(w)
    PROVE  CursorInv(w)'
  <1>1. /\ CursorInv(w) /\ pc[w] = "insert" /\ batch'[w] = {}
        /\ pc'[w] \in {"read", "upsert"}
        /\ UNCHANGED <<dir, gen, len, lastGen, path, info, prev, curFP, fd, pos>>
        /\ batch[w] \in SUBSET Lines
        /\ \A l \in Lines : (requests[l] > 0 \/ l \in batch[w]) => requests'[l] > 0
    BY DEF CheckpointInv, TypeInv, TypeOK, Insert, Goto, fsVars
  <1>2. QED
    BY <1>1 DEF CursorInv, RowInv, Seen, Covered, Stored, Holds, Reading

-----------------------------------------------------------------------------

LEMMA WatchCheckpoint ==
    ASSUME WellBehaved, CheckpointInv,
           NEW w \in Watchers, Watch(w) \/ Cancel(w) \/ Fail(w)
    PROVE  CheckpointInv'
  <1> DEFINE RowsKept == \A p \in Paths : fileState'[p] = fileState[p] \/ RowInv(p, fileState[p])'
  <1>0. TypeInv /\ StepOf(w) /\ CursorInv(w)
    BY WatchStep DEF CheckpointInv
  <1>1. ASSUME Scan(w) \/ Cancel(w) PROVE CursorInv(w)' /\ RowsKept
    BY <1>0, <1>1 DEF Scan, Cancel, fsVars, dbVars, locals, CursorInv, RowInv, Seen,
                      Covered, Stored, Holds
  <1>2. ASSUME NEW p \in Paths, Stat(w, p) PROVE CursorInv(w)' /\ RowsKept
    BY <1>2, StatCursor DEF Stat, dbVars
  <1>3. CASE GetFileState(w)
    BY <1>3, GetFileStateCursor, StepOfCheckpoint DEF GetFileState, dbVars
  <1>4. CASE ReadHead(w)
    BY <1>4, ReadHeadCursor, StepOfCheckpoint DEF ReadHead, dbVars
  <1>5. CASE Vanished(w)
    BY <1>0, <1>5, ReturnCursor, StepOfCheckpoint DEF Vanished, dbVars
  <1>6. CASE Unchanged(w)
    BY <1>0, <1>6, ReturnCursor, StepOfCheckpoint DEF Unchanged, dbVars
  <1>7. CASE Refresh(w)
    BY <1>0, <1>7, ReturnCursor, WriteRowCovers, StepOfCheckpoint DEF Refresh
  <1>8. CASE Open(w)
    BY <1>8, OpenCursor, StepOfCheckpoint DEF Open, dbVars
  <1>9. CASE ReadBatch(w)
    BY <1>9, ReadBatchCursor, StepOfCheckpoint DEF ReadBatch, dbVars
  <1>10. CASE ReadEOF(w)
    BY <1>10, ReadEOFCursor, StepOfCheckpoint DEF ReadEOF, dbVars
  <1>11. CASE ReadTooLong(w)
    BY <1>0, <1>11, ReturnCursor, StepOfCheckpoint DEF ReadTooLong, dbVars
  <1>12. CASE Insert(w)
    BY <1>12, InsertCursor, StepOfCheckpoint DEF Insert
  <1>13. CASE Upsert(w)
    BY <1>0, <1>13, ReturnCursor, WriteRowCovers, StepOfCheckpoint DEF Upsert
  <1>14. CASE Fail(w)
    BY <1>0, <1>14, ReturnCursor, StepOfCheckpoint DEF Fail, dbVars
  <1>15. QED
    BY <1>1, <1>2, <1>3, <1>4, <1>5, <1>6, <1>7, <1>8, <1>9, <1>10, <1>11, <1>12,
       <1>13, <1>14, StepOfCheckpoint DEF Watch

\* A crash forgets the locals and keeps the tables.
LEMMA CrashCheckpoint ==
    ASSUME CheckpointInv, Crash
    PROVE  CheckpointInv'
  <1>1. TypeInv'
    BY NextType DEF CheckpointInv, Next
  <1>2. OneHolder' /\ \A p \in Paths : RowInv(p, fileState[p])'
    BY DEF CheckpointInv, Crash, fsVars, dbVars, OneHolder, RowInv, Seen, Covered,
           Stored, Holds
  <1>3. ASSUME NEW w \in Watchers PROVE CursorInv(w)'
    BY <1>3 DEF Crash, CursorInv, RowInv, Seen, Covered, NoInfo, NoFP, Reading
  <1>4. QED
    BY <1>1, <1>2, <1>3 DEF CheckpointInv

LEMMA NextCheckpoint ==
    ASSUME WellBehaved, CheckpointInv, [Next]_vars
    PROVE  CheckpointInv'
  <1>1. CASE UNCHANGED vars
    <2>1. TypeInv'
      BY NextType DEF CheckpointInv
    <2>2. QED
      BY <1>1, <2>1 DEF vars, fsVars, dbVars, locals, CheckpointInv, OneHolder,
                        CursorInv, RowInv, Seen, Covered, Stored, Holds
  <1>2. QED
    BY <1>1, EnvironmentCheckpoint, WatchCheckpoint, CrashCheckpoint DEF Next

LEMMA InitCheckpoint == Init => CheckpointInv
  BY InitType DEF Init, CheckpointInv, OneHolder, CursorInv, RowInv, Seen, Covered,
                  NoInfo, NoFP, Reading

\* The invariant says what the next scan would do with each row.
LEMMA CheckpointSuffices ==
    ASSUME WellBehaved, CheckpointInv
    PROVE  NoLineSkipped
  <1> SUFFICES ASSUME NEW p \in Paths, dir[p] # NoFile,
                      NEW l \in Lines, l[1] = gen[dir[p]],
                      l[2] * LineLen <= ResumeOffset(fileState[p], dir[p], len[dir[p]],
                                                     Fingerprint(dir[p]))
               PROVE  requests[l] > 0
    BY DEF NoLineSkipped
  <1> DEFINE row == fileState[p]
             fp == Fingerprint(dir[p])
  <1>1. l[2] \in Nat /\ l[2] > 0
    BY DEF Lines
  <1>2. /\ row # NoRow /\ l[2] <= row.offset
        /\ row.fingerprint.n > 0 => fp = row.fingerprint
    BY <1>1 DEF ResumeOffset, WellBehaved
  <1>3. /\ row \in FileStates /\ RowInv(p, row) /\ dir[p] \in Inodes
    BY <1>2 DEF CheckpointInv, TypeInv, TypeOK
  <1>4. row.offset \in Nat /\ row.fingerprint.n \in Nat
    BY <1>3, WatcherConstants DEF FileStates, Fingerprints
  <1>5. row.fingerprint.n > 0
    BY <1>1, <1>2, <1>3, <1>4 DEF RowInv, Covered
  <1>6. Holds(p, row.fingerprint.head)
    BY <1>2, <1>5 DEF Holds, Fingerprint, WellBehaved
  <1>7. QED
    BY <1>2, <1>3, <1>5, <1>6 DEF RowInv, Covered, Stored, Holds

\* A checkpoint never runs ahead of the data, whatever the number of watchers
\* that share the table and wherever a crash or a failed call falls, if the
\* writer writes whole lines, no two files start with the same bytes, and no
\* file becomes empty between os.Stat and readFingerprint.
THEOREM CheckpointSafe ==
    ASSUME WellBehaved
    PROVE  Spec => []NoLineSkipped
  <1>1. CheckpointInv /\ [Next]_vars => CheckpointInv'
    BY NextCheckpoint
  <1>2. Spec => []CheckpointInv
    BY InitCheckpoint, <1>1, PTL DEF Spec
  <1>3. CheckpointInv => NoLineSkipped
    BY CheckpointSuffices
  <1>4. QED
    BY <1>2, <1>3, PTL

-----------------------------------------------------------------------------
(* The place kept by one watcher.  What follows speaks of paths that no    *)
(* second source shares.                                                   *)

OneWatcher == \A v, w \in Watchers : v = w

\* The row keeps a place in a file: it has been read beyond its start.
Keeps(row) == row # NoRow /\ row.offset > 0

\* A row that keeps a place in the file at p has its inode, and lies within it.
RowFits(p) ==
    Keeps(fileState[p]) /\ Holds(p, fileState[p].fingerprint.head) =>
        /\ fileState[p].inode = dir[p]
        /\ fileState[p].offset <= len[dir[p]]

\* The steps of handleFile after the offset was chosen.
After == {"refresh", "open"} \cup Reading

\* What handleFile knows of the file and of the row it will replace.
CursorFits(w) ==
    LET p   == path[w]
        row == fileState[path[w]]
    IN  /\ pc[w] \in {"state", "head"} /\ info[w].size > 0 /\ dir[p] # NoFile
             => info[w].inode = dir[p]
        /\ pc[w] \in After /\ Holds(p, curFP[w].head) =>
             /\ pos[w] <= len[dir[p]]
             /\ pc[w] # "refresh" \/ pos[w] > 0 => info[w].inode = dir[p]
        /\ pc[w] \notin {"idle", "state"} => prev[w] = row
        /\ pc[w] # "idle" /\ Keeps(row) /\ Holds(p, row.fingerprint.head)
             => info[w].inode = dir[p] /\ row.offset <= info[w].size
        /\ pc[w] \in After /\ Keeps(row) /\ row.fingerprint = curFP[w] =>
             /\ row.offset <= pos[w]
             /\ \A l \in batch[w] : row.offset < l[2]
        /\ pc[w] \in After /\ Keeps(row) /\ Holds(p, row.fingerprint.head)
             => (pc[w] = "refresh" \/ FPLen = 1 => curFP[w] = row.fingerprint)

PlaceInv ==
    /\ \A p \in Paths : RowFits(p)
    /\ \A w \in Watchers : CursorFits(w)

\* A row that keeps a place has the fingerprint of a generation.
LEMMA KeptRow ==
    ASSUME CheckpointInv, NEW p \in Paths, Keeps(fileState[p])
    PROVE  /\ fileState[p] \in FileStates
           /\ fileState[p].offset \in Nat /\ fileState[p].inode \in Inodes
           /\ fileState[p].fingerprint \in Fingerprints
           /\ fileState[p].fingerprint.n > 0
           /\ Seen(p, fileState[p].fingerprint)
  <1>1. fileState[p] \in FileStates /\ RowInv(p, fileState[p])
    BY DEF CheckpointInv, TypeInv, TypeOK, Keeps
  <1>2. /\ fileState[p].offset \in 0..MaxLen
        /\ fileState[p].fingerprint \in Fingerprints /\ fileState[p].inode \in Inodes
    BY <1>1 DEF FileStates
  <1>3. fileState[p].fingerprint.n \in Nat
    BY <1>2, WatcherConstants DEF Fingerprints
  <1>4. QED
    BY <1>1, <1>2, <1>3, WatcherConstants DEF RowInv, Covered, Keeps

\* A file stays where it is, and only grows, as long as it holds what it held.
LEMMA GrowStep ==
    ASSUME TypeInv, OneHolder, Environment,
           NEW p \in Paths, NEW fp \in Fingerprints, Seen(p, fp), fp.n > 0,
           Holds(p, fp.head)'
    PROVE  /\ Holds(p, fp.head) /\ dir'[p] = dir[p]
           /\ len[dir[p]] <= len'[dir[p]]
  <1>1. Holds(p, fp.head) /\ dir'[p] = dir[p]
    BY SeenStep
  <1>2. dir[p] \in Inodes /\ len[dir[p]] \in Nat
    BY <1>1, WatcherConstants DEF Holds, TypeInv, TypeOK
  <1>3. ASSUME NEW q \in Paths, Append(q) PROVE len[dir[p]] <= len'[dir[p]]
    BY <1>2, <1>3 DEF Append, TypeInv, TypeOK
  <1>4. ASSUME NEW q \in Paths, Rotate(q) PROVE len[dir[p]] <= len'[dir[p]]
    BY <1>2, <1>4 DEF Rotate
  <1>5. ASSUME NEW i \in Inodes, Create(i) PROVE len[dir[p]] <= len'[dir[p]]
    BY <1>2, <1>5 DEF Create, TypeInv, TypeOK
  <1>6. CASE CopyTruncate
    <2>1. gen[dir[p]] \in 1..lastGen /\ gen'[dir[p]] = gen[dir[p]]
      BY <1>1 DEF Holds, OneHolder
    <2>2. dir[p] # dir[0]
      BY <1>2, <1>6, <2>1, WatcherConstants DEF CopyTruncate, TypeInv, TypeOK
    <2>3. len' = [len EXCEPT ![dir[0]] = 0] /\ len \in [Inodes -> 0..MaxLen]
      BY <1>6 DEF CopyTruncate, TypeInv, TypeOK
    <2>4. len'[dir[p]] = len[dir[p]]
      BY <1>2, <2>2, <2>3
    <2>5. QED
      BY <1>1, <1>2, <2>4
  <1>7. QED
    BY <1>1, <1>3, <1>4, <1>5, <1>6 DEF Environment

\* A path os.Stat found a file with contents at is not given another file
\* before its fingerprint is read.
LEMMA StatHolds ==
    ASSUME WellBehaved, TypeInv, Environment, NEW w \in Watchers,
           pc[w] \in {"state", "head"}, info[w].size > 0, dir'[path[w]] # NoFile
    PROVE  dir'[path[w]] = dir[path[w]]
  <1>1. ~MayEmpty(path[w])
    <2>1. w \in Handling(path[w])
      BY DEF Handling
    <2>2. info[w].size # 0
      BY DEF TypeInv, TypeOK
    <2>3. QED
      BY <2>1, <2>2 DEF MayEmpty, WellBehaved
  <1>2. path[w] \in Paths
    BY DEF TypeInv, TypeOK
  <1>3. ASSUME NEW p \in Paths, Append(p) \/ Rotate(p) PROVE dir'[path[w]] = dir[path[w]]
    BY <1>1, <1>2, <1>3 DEF Append, Rotate
  <1>4. ASSUME NEW i \in Inodes, Create(i) PROVE dir'[path[w]] = dir[path[w]]
    BY <1>1, <1>2, <1>4 DEF Create, TypeInv, TypeOK
  <1>5. CASE CopyTruncate
    BY <1>5 DEF CopyTruncate
  <1>6. QED
    BY <1>3, <1>4, <1>5 DEF Environment

LEMMA EnvironmentPlace ==
    ASSUME WellBehaved, CheckpointInv, PlaceInv, Environment
    PROVE  PlaceInv'
  <1>0. /\ UNCHANGED <<fileState, pc, path, info, prev, curFP, pos, batch>>
        /\ TypeInv /\ OneHolder /\ TypeInv'
    BY EnvironmentUnchanged, EnvironmentType DEF CheckpointInv
  <1>01. ASSUME NEW p \in Paths, NEW fp \in Fingerprints, Seen(p, fp), fp.n > 0,
               dir'[p] # NoFile, gen'[dir'[p]] = fp.head
        PROVE  /\ Holds(p, fp.head) /\ dir'[p] = dir[p]
               /\ len[dir[p]] <= len'[dir[p]]
    BY <1>0, <1>01, GrowStep DEF Holds
  <1>1. ASSUME NEW p \in Paths, Keeps(fileState[p]),
               dir'[p] # NoFile, gen'[dir'[p]] = fileState[p].fingerprint.head
        PROVE  /\ Holds(p, fileState[p].fingerprint.head) /\ dir'[p] = dir[p]
               /\ len[dir[p]] <= len'[dir[p]]
    BY <1>1, <1>01, KeptRow
  <1>2. ASSUME NEW p \in Paths PROVE RowFits(p)'
    <2>1. SUFFICES ASSUME Keeps(fileState[p])', Holds(p, fileState[p].fingerprint.head)'
                   PROVE  /\ fileState'[p].inode = dir'[p]
                          /\ fileState'[p].offset <= len'[dir'[p]]
      BY DEF RowFits
    <2>2. /\ Keeps(fileState[p])
          /\ dir'[p] # NoFile /\ gen'[dir'[p]] = fileState[p].fingerprint.head
      BY <1>0, <2>1 DEF Keeps, Holds
    <2>3. /\ Holds(p, fileState[p].fingerprint.head) /\ dir'[p] = dir[p]
          /\ len[dir[p]] <= len'[dir[p]]
      BY <1>1, <2>2
    <2>4. fileState[p].inode = dir[p] /\ fileState[p].offset <= len[dir[p]]
      BY <2>2, <2>3 DEF PlaceInv, RowFits
    <2>5. len[dir[p]] \in Nat /\ len'[dir[p]] \in Nat /\ fileState[p].offset \in Nat
      BY <1>0, <2>2, <2>3, KeptRow, WatcherConstants DEF Holds, TypeInv, TypeOK
    <2>6. QED
      BY <1>0, <2>3, <2>4, <2>5
  <1>3. ASSUME NEW w \in Watchers PROVE CursorFits(w)'
    <2> DEFINE p == path[w]
               row == fileState[path[w]]
    <2>0. p \in Paths /\ CursorFits(w) /\ CursorInv(w)
      BY DEF CheckpointInv, PlaceInv, TypeInv, TypeOK
    <2>1. pc[w] \in {"state", "head"} /\ info[w].size > 0 /\ dir'[p] # NoFile
            => info[w].inode = dir'[p]
      BY <1>0, <2>0, StatHolds DEF CursorFits
    <2>2. ASSUME pc[w] \in After, Holds(p, curFP[w].head)'
          PROVE  /\ pos[w] <= len'[dir'[p]]
                 /\ pc[w] # "refresh" \/ pos[w] > 0 => info[w].inode = dir'[p]
      <3>1. curFP[w] \in Fingerprints /\ pos[w] \in Nat /\ Seen(p, curFP[w])
        BY <1>0, <2>0, WatcherConstants DEF TypeInv, TypeOK, CursorInv
      <3>2. CASE curFP[w].n > 0
        <4>1. /\ Holds(p, curFP[w].head) /\ dir'[p] = dir[p]
              /\ len[dir[p]] <= len'[dir[p]]
          BY <1>0, <2>0, <2>2, <3>1, <3>2, GrowStep DEF Holds
        <4>2. len[dir[p]] \in Nat /\ len'[dir[p]] \in Nat
          BY <1>0, <2>0, <4>1, WatcherConstants DEF Holds, TypeInv, TypeOK
        <4>3. QED
          BY <2>0, <2>2, <3>1, <4>1, <4>2 DEF CursorFits
      <3>3. CASE ~(curFP[w].n > 0)
        <4>1. curFP[w].n = 0 /\ pc[w] = "refresh" /\ pos[w] = 0
          BY <2>0, <2>2, <3>1, <3>3, WatcherConstants
             DEF Fingerprints, CursorInv, Covered, After
        <4>2. len'[dir'[p]] \in Nat
          BY <1>0, <2>0, <2>2, WatcherConstants DEF Holds, TypeInv, TypeOK
        <4>3. QED
          BY <4>1, <4>2
      <3>4. QED
        BY <3>2, <3>3
    <2>3. Keeps(row) /\ dir'[p] # NoFile /\ gen'[dir'[p]] = row.fingerprint.head
            => Holds(p, row.fingerprint.head) /\ dir'[p] = dir[p]
      BY <1>1, <2>0
    <2>4. QED
      BY <1>0, <2>0, <2>1, <2>2, <2>3 DEF CursorFits, Keeps, Holds
  <1>4. QED
    BY <1>2, <1>3 DEF PlaceInv

\* A step of handleFile that leaves the files and the rows alone.
LEMMA LocalPlace ==
    ASSUME OneWatcher, PlaceInv, NEW w \in Watchers,
           UNCHANGED <<dir, gen, len, fileState>>, CursorFits(w)'
    PROVE  PlaceInv'
  <1>1. \A p \in Paths : RowFits(p)'
    BY DEF PlaceInv, RowFits, Holds, Keeps
  <1>2. \A x \in Watchers : CursorFits(x)'
    BY DEF OneWatcher
  <1>3. QED
    BY <1>1, <1>2 DEF PlaceInv

\* A watcher between two files remembers nothing.
LEMMA IdlePlace ==
    ASSUME NEW w \in Watchers, pc'[w] = "idle"
    PROVE  CursorFits(w)'
  BY DEF CursorFits, After, Reading

LEMMA ReturnPlace ==
    ASSUME TypeInv, NEW w \in Watchers, Return(w)
    PROVE  CursorFits(w)'
  BY IdlePlace DEF TypeInv, TypeOK, Return

\* The row written speaks of what was read of the file it names.
LEMMA WriteRowPlace ==
    ASSUME OneWatcher, CheckpointInv, PlaceInv, NEW w \in Watchers,
           pc[w] \in {"refresh", "upsert"}, WriteRow(w), Return(w), UNCHANGED <<dir, gen, len>>
    PROVE  PlaceInv'
  <1>1. /\ CursorFits(w) /\ path[w] \in Paths /\ CursorFits(w)'
        /\ fileState' = [fileState EXCEPT ![path[w]] =
             [inode |-> info[w].inode, size |-> info[w].size,
              offset |-> pos[w], fingerprint |-> curFP[w]]]
        /\ fileState \in [Paths -> FileStates \cup {NoRow}]
    BY ReturnPlace DEF CheckpointInv, PlaceInv, TypeInv, TypeOK, WriteRow
  <1>2. /\ fileState'[path[w]].offset = pos[w] /\ fileState'[path[w]].inode = info[w].inode
        /\ fileState'[path[w]].fingerprint = curFP[w]
        /\ \A p \in Paths \ {path[w]} : fileState'[p] = fileState[p]
    BY <1>1
  <1>3. ASSUME NEW p \in Paths PROVE RowFits(p)'
    <2>1. CASE p = path[w]
      BY <1>1, <1>2, <2>1 DEF RowFits, Keeps, Holds, CursorFits, After, Reading
    <2>2. CASE p # path[w]
      BY <1>2, <2>2 DEF PlaceInv, RowFits, Keeps, Holds
    <2>3. QED
      BY <2>1, <2>2
  <1>4. \A x \in Watchers : CursorFits(x)'
    BY <1>1 DEF OneWatcher
  <1>5. QED
    BY <1>3, <1>4 DEF PlaceInv

LEMMA StatPlace ==
    ASSUME CheckpointInv, PlaceInv, NEW w \in Watchers, NEW p \in Paths, Stat(w, p)
    PROVE  CursorFits(w)'
  <1>1. CASE dir[p] = NoFile
    BY <1>1, IdlePlace DEF Stat
  <1>2. CASE dir[p] # NoFile
    <2>1. /\ pc'[w] = "state" /\ path'[w] = p
          /\ info'[w].inode = dir[p] /\ info'[w].size = len[dir[p]]
          /\ UNCHANGED <<dir, gen, len, fileState>>
      BY <1>2 DEF Stat, Goto, CheckpointInv, TypeInv, TypeOK, fsVars, dbVars
    <2>2. RowFits(p)
      BY DEF PlaceInv
    <2>3. QED
      BY <2>1, <2>2 DEF CursorFits, RowFits, After, Reading, Holds, Keeps
  <1>3. QED
    BY <1>1, <1>2

LEMMA GetFileStatePlace ==
    ASSUME CheckpointInv, PlaceInv, NEW w \in Watchers, GetFileState(w)
    PROVE  CursorFits(w)'
  <1>1. /\ pc[w] = "state" /\ pc'[w] = "head" /\ prev'[w] = fileState[path[w]]
        /\ UNCHANGED <<dir, gen, len, fileState, path, info>>
        /\ CursorFits(w)
    BY DEF GetFileState, Goto, CheckpointInv, PlaceInv, TypeInv, TypeOK, fsVars, dbVars
  <1>2. QED
    BY <1>1 DEF CursorFits, After, Reading, Holds, Keeps

\* handleFile goes on from the place the row keeps, if it keeps one in this file.
LEMMA ReadHeadPlace ==
    ASSUME WellBehaved, CheckpointInv, PlaceInv, NEW w \in Watchers, ReadHead(w)
    PROVE  CursorFits(w)'
  <1> DEFINE p == path[w]
             row == fileState[path[w]]
             fp == Fingerprint(dir[p])
             offset == ResumeOffset(prev[w], info[w].inode, info[w].size, fp)
  <1>1. /\ pc[w] = "head" /\ p \in Paths /\ dir[p] \in Inodes /\ dir[p] # NoFile
        /\ len[dir[p]] \in Nat /\ info[w].size \in 0..MaxLen
        /\ prev[w] = row /\ row \in FileStates \cup {NoRow} /\ batch[w] = {}
        /\ CursorFits(w) /\ CursorInv(w) /\ RowFits(p)
    <2>1. /\ TypeInv /\ CursorFits(w) /\ CursorInv(w) /\ pc[w] = "head" /\ dir[p] # NoFile
      BY DEF CheckpointInv, PlaceInv, ReadHead
    <2>2. /\ p \in Paths /\ dir[p] \in Inodes /\ info[w].size \in 0..MaxLen
          /\ row \in FileStates \cup {NoRow}
      BY <2>1 DEF TypeInv, TypeOK
    <2>3. len[dir[p]] \in Nat
      BY <2>1, <2>2, WatcherConstants DEF TypeInv, TypeOK
    <2>4. prev[w] = row /\ batch[w] = {}
      BY <2>1 DEF CursorFits, CursorInv
    <2>5. QED
      BY <2>1, <2>2, <2>3, <2>4 DEF PlaceInv
  <1>2. /\ pc'[w] = IF offset = info[w].size THEN "refresh" ELSE "open"
        /\ curFP'[w] = fp /\ pos'[w] = offset
        /\ UNCHANGED <<dir, gen, len, fileState, path, info, prev, batch>>
    BY DEF CheckpointInv, TypeInv, TypeOK, ReadHead, Goto, fsVars, dbVars
  <1>3. /\ fp.n \in Nat /\ (len[dir[p]] > 0 => fp.n > 0) /\ (fp.n > 0 => fp.head = gen[dir[p]])
        /\ FPLen = 1 /\ len[dir[p]] > 0 => fp.n = 1
        /\ fp = [head |-> fp.head, n |-> fp.n]
    BY <1>1, WatcherConstants DEF Fingerprint, WellBehaved
  <1>4. offset \in 0..MaxLen /\ offset <= info[w].size
    BY <1>1, ResumeOffsetType
  <1>5. Keeps(row) => /\ row \in FileStates /\ row.offset \in Nat
                      /\ row.fingerprint \in Fingerprints /\ row.fingerprint.n > 0
    BY <1>1, KeptRow
  <1>6. ASSUME offset > 0
        PROVE  offset <= len[dir[p]]
    <2>1. Keeps(row) /\ offset = row.offset /\ info[w].inode = row.inode
      BY <1>1, <1>6 DEF ResumeOffset, Keeps
    <2>2. fp = row.fingerprint /\ fp.n > 0
      BY <1>1, <1>5, <1>6, <2>1 DEF ResumeOffset
    <2>3. Holds(p, row.fingerprint.head)
      BY <1>1, <1>3, <2>2 DEF Holds
    <2>4. QED
      BY <1>1, <2>1, <2>3 DEF RowFits
  <1>7. ASSUME Keeps(row), Holds(p, row.fingerprint.head), row.fingerprint = fp
        PROVE  offset = row.offset
    <2>1. row.inode = dir[p] /\ info[w].inode = dir[p] /\ row.offset <= info[w].size
      BY <1>1, <1>7 DEF RowFits, CursorFits
    <2>2. row # NoRow /\ ~(info[w].size < row.offset)
      BY <1>1, <1>5, <1>7, <2>1, WatcherConstants DEF Keeps
    <2>3. QED
      BY <1>1, <1>7, <2>1, <2>2 DEF ResumeOffset
  <1>8. ASSUME Keeps(row), row.fingerprint = fp PROVE offset = row.offset
    BY <1>1, <1>3, <1>5, <1>7, <1>8 DEF Holds
  <1>9. ASSUME Keeps(row), Holds(p, row.fingerprint.head), FPLen = 1
        PROVE  fp = row.fingerprint
    <2>1. len[dir[p]] > 0
      BY <1>1, <1>5, <1>9 DEF RowFits, Keeps
    <2>2. fp.n = 1 /\ fp.head = row.fingerprint.head
      BY <1>3, <1>9, <2>1 DEF Holds
    <2>3. row.fingerprint.n = 1 /\ row.fingerprint = [head |-> row.fingerprint.head, n |-> row.fingerprint.n]
      BY <1>5, <1>9 DEF Fingerprints
    <2>4. QED
      BY <1>3, <2>2, <2>3
  <1>91. ASSUME Keeps(row), Holds(p, row.fingerprint.head), offset = info[w].size
         PROVE  fp = row.fingerprint
    <2>1. row.offset <= info[w].size /\ row.offset > 0 /\ row.offset \in Nat
      BY <1>1, <1>5, <1>91 DEF CursorFits, Keeps
    <2>2. offset # 0
      BY <1>91, <2>1
    <2>3. QED
      BY <1>1, <1>5, <2>2, <1>91 DEF ResumeOffset
  <1>10. offset # info[w].size \/ offset > 0 => info[w].inode = dir[p]
    BY <1>1, <1>4, WatcherConstants DEF CursorFits
  <1>11. offset <= len[dir[p]]
    BY <1>1, <1>4, <1>6, WatcherConstants
  <1> HIDE DEF fp, offset
  <1>12. pc'[w] \in After /\ pc'[w] \notin {"state", "head", "idle"}
         /\ (pc'[w] # "refresh" => offset # info[w].size)
         /\ (pc'[w] = "refresh" => offset = info[w].size)
    BY <1>2 DEF After
  <1>13. QED
    BY <1>1, <1>2, <1>5, <1>8, <1>9, <1>91, <1>10, <1>11, <1>12 DEF CursorFits, Holds, Keeps

LEMMA OpenPlace ==
    ASSUME CheckpointInv, PlaceInv, NEW w \in Watchers, Open(w)
    PROVE  CursorFits(w)'
  <1>1. /\ pc[w] = "open" /\ pc'[w] = "read"
        /\ UNCHANGED <<dir, gen, len, fileState, path, info, prev, curFP, pos, batch>>
        /\ CursorFits(w)
    BY DEF Open, Goto, CheckpointInv, PlaceInv, TypeInv, TypeOK, fsVars, dbVars
  <1>2. QED
    BY <1>1 DEF CursorFits, After, Reading, Holds, Keeps

\* Reading on keeps to the open file and to the lines behind the row's place.
LEMMA ReadPlace ==
    ASSUME WellBehaved, CheckpointInv, PlaceInv, NEW w \in Watchers, pc[w] = "read",
           NEW to \in Int, to <= len[fd[w]], NEW step \in {"insert", "upsert"},
           batch'[w] = Ahead(w, to),
           pos'[w] = IF pos[w] < to THEN to ELSE pos[w],
           pc'[w] = step,
           UNCHANGED <<dir, gen, len, fileState, path, info, prev, curFP, fd>>
    PROVE  CursorFits(w)'
  <1>1. /\ CursorFits(w) /\ CursorInv(w) /\ path[w] \in Paths
        /\ pos[w] \in Nat /\ fd[w] \in Inodes /\ len[fd[w]] \in Nat
    BY WatcherConstants DEF CheckpointInv, PlaceInv, TypeInv, TypeOK, Reading
  <1>2. pos'[w] \in Int /\ pos[w] <= pos'[w]
    BY <1>1
  <1>3. Holds(path[w], curFP[w].head) => pos'[w] <= len[dir[path[w]]]
    BY <1>1 DEF CursorFits, CursorInv, After, Reading
  <1>4. ASSUME NEW l \in batch'[w] PROVE pos[w] < l[2] /\ l[2] \in Int
    BY <1>1, <1>4 DEF Ahead, LinesIn, Lines, WellBehaved
  <1>5. ASSUME Keeps(fileState[path[w]]), fileState[path[w]].fingerprint = curFP[w]
        PROVE  /\ fileState[path[w]].offset <= pos'[w]
               /\ \A l \in batch'[w] : fileState[path[w]].offset < l[2]
    <2>1. fileState[path[w]].offset \in Nat /\ fileState[path[w]].offset <= pos[w]
      BY <1>1, <1>5, KeptRow DEF CursorFits, After, Reading
    <2>2. QED
      BY <1>1, <1>2, <1>4, <2>1
  <1>6. pc'[w] \in After /\ pc'[w] \notin {"state", "head", "idle", "refresh"}
    BY DEF After, Reading
  <1>7. QED
    BY <1>1, <1>3, <1>5, <1>6 DEF CursorFits, Holds, Keeps, After, Reading

LEMMA ReadBatchPlace ==
    ASSUME WellBehaved, CheckpointInv, PlaceInv, NEW w \in Watchers, ReadBatch(w)
    PROVE  CursorFits(w)'
  <1>1. PICK to \in (pos[w] + 1)..len[fd[w]] :
           /\ batch' = [batch EXCEPT ![w] = Ahead(w, to)]
           /\ pos' = [pos EXCEPT ![w] = to]
    BY DEF ReadBatch
  <1>2. /\ batch'[w] = Ahead(w, to) /\ pos'[w] = to
        /\ pc[w] = "read" /\ pc'[w] = "insert"
        /\ UNCHANGED <<dir, gen, len, fileState, path, info, prev, curFP, fd>>
        /\ pos[w] \in 0..MaxLen /\ len[fd[w]] \in 0..MaxLen
    BY <1>1 DEF ReadBatch, Goto, fsVars, dbVars, CheckpointInv, TypeInv, TypeOK, Reading
  <1>3. QED
    BY <1>1, <1>2, ReadPlace

LEMMA ReadEOFPlace ==
    ASSUME WellBehaved, CheckpointInv, PlaceInv, NEW w \in Watchers, ReadEOF(w)
    PROVE  CursorFits(w)'
  <1> DEFINE to == len[fd[w]]
  <1>1. /\ batch'[w] = Ahead(w, to)
        /\ pos'[w] = IF pos[w] < to THEN to ELSE pos[w]
        /\ pc[w] = "read"
        /\ pc'[w] = IF Ahead(w, to) = {} THEN "upsert" ELSE "insert"
        /\ UNCHANGED <<dir, gen, len, fileState, path, info, prev, curFP, fd>>
        /\ to \in Int /\ to <= len[fd[w]]
    BY DEF ReadEOF, Goto, fsVars, dbVars, CheckpointInv, TypeInv, TypeOK, Reading
  <1> HIDE DEF to
  <1>2. CASE Ahead(w, to) = {}
    BY <1>1, <1>2, ReadPlace
  <1>3. CASE Ahead(w, to) # {}
    BY <1>1, <1>3, ReadPlace
  <1>4. QED
    BY <1>2, <1>3

LEMMA InsertPlace ==
    ASSUME CheckpointInv, PlaceInv, NEW w \in Watchers, Insert(w)
    PROVE  CursorFits(w)'
  <1>1. /\ pc[w] = "insert" /\ pc'[w] \in {"read", "upsert"} /\ batch'[w] = {}
        /\ UNCHANGED <<dir, gen, len, fileState, path, info, prev, curFP, pos>>
        /\ CursorFits(w)
    BY DEF Insert, Goto, CheckpointInv, PlaceInv, TypeInv, TypeOK, fsVars
  <1>2. QED
    BY <1>1 DEF CursorFits, After, Reading, Holds, Keeps

LEMMA WatchPlace ==
    ASSUME WellBehaved, OneWatcher, CheckpointInv, PlaceInv,
           NEW w \in Watchers, Watch(w) \/ Cancel(w) \/ Fail(w)
    PROVE  PlaceInv'
  <1>0. TypeInv /\ UNCHANGED <<dir, gen, len>>
    BY WatchStep DEF CheckpointInv, StepOf
  <1>1. ASSUME Scan(w) \/ Cancel(w) PROVE PlaceInv'
    BY <1>0, <1>1, IdlePlace, LocalPlace DEF Scan, Cancel, dbVars, TypeInv, TypeOK
  <1>2. ASSUME NEW p \in Paths, Stat(w, p) PROVE PlaceInv'
    BY <1>0, <1>2, StatPlace, LocalPlace DEF Stat, dbVars
  <1>3. CASE GetFileState(w)
    BY <1>0, <1>3, GetFileStatePlace, LocalPlace DEF GetFileState, dbVars
  <1>4. CASE ReadHead(w)
    BY <1>0, <1>4, ReadHeadPlace, LocalPlace DEF ReadHead, dbVars
  <1>5. ASSUME Vanished(w) \/ Unchanged(w) \/ ReadTooLong(w) \/ Fail(w) PROVE PlaceInv'
    BY <1>0, <1>5, ReturnPlace, LocalPlace DEF Vanished, Unchanged, ReadTooLong, Fail, dbVars
  <1>6. ASSUME Refresh(w) \/ Upsert(w) PROVE PlaceInv'
    BY <1>0, <1>6, WriteRowPlace DEF Refresh, Upsert
  <1>7. CASE Open(w)
    BY <1>0, <1>7, OpenPlace, LocalPlace DEF Open, dbVars
  <1>8. CASE ReadBatch(w)
    BY <1>0, <1>8, ReadBatchPlace, LocalPlace DEF ReadBatch, dbVars
  <1>9. CASE ReadEOF(w)
    BY <1>0, <1>9, ReadEOFPlace, LocalPlace DEF ReadEOF, dbVars
  <1>10. CASE Insert(w)
    BY <1>0, <1>10, InsertPlace, LocalPlace DEF Insert
  <1>11. QED
    BY <1>1, <1>2, <1>3, <1>4, <1>5, <1>6, <1>7, <1>8, <1>9, <1>10 DEF Watch

LEMMA NextPlace ==
    ASSUME WellBehaved, OneWatcher, CheckpointInv, PlaceInv, [Next]_vars
    PROVE  PlaceInv'
  <1>1. CASE Crash
    <2>1. \A w \in Watchers : CursorFits(w)'
      BY <1>1, IdlePlace DEF Crash
    <2>2. \A p \in Paths : RowFits(p)'
      BY <1>1 DEF Crash, fsVars, dbVars, PlaceInv, RowFits, Keeps, Holds
    <2>3. QED
      BY <2>1, <2>2 DEF PlaceInv
  <1>2. CASE UNCHANGED vars
    BY <1>2 DEF vars, fsVars, dbVars, locals, PlaceInv, RowFits, CursorFits, Keeps, Holds
  <1>3. QED
    BY <1>1, <1>2, EnvironmentPlace, WatchPlace DEF Next

LEMMA InitPlace == Init => PlaceInv
  BY DEF Init, PlaceInv, RowFits, CursorFits, Keeps, After, Reading

LEMMA PlaceKept ==
    ASSUME WellBehaved, OneWatcher
    PROVE  Spec => [](CheckpointInv /\ PlaceInv)
  <1>1. CheckpointInv /\ PlaceInv /\ [Next]_vars => (CheckpointInv /\ PlaceInv)'
    BY NextCheckpoint, NextPlace
  <1>2. QED
    BY InitCheckpoint, InitPlace, <1>1, PTL DEF Spec

-----------------------------------------------------------------------------
(* Offsets advance.                                                        *)

\* Only handleFile's return writes a row.
LEMMA OnlyReturnWrites ==
    ASSUME Next
    PROVE  \/ fileState' = fileState
           \/ \E w \in Watchers : /\ pc[w] \in {"refresh", "upsert"} /\ WriteRow(w)
                                  /\ UNCHANGED <<dir, gen, len, requests>>
  <1>1. CASE Environment \/ Crash
    BY <1>1, EnvironmentUnchanged DEF Crash, dbVars
  <1>2. ASSUME NEW w \in Watchers, Watch(w) \/ Cancel(w) \/ Fail(w),
               ~(Refresh(w) \/ Upsert(w))
        PROVE  fileState' = fileState
    BY <1>2 DEF Watch, Cancel, Fail, Scan, GetFileState, ReadHead, Vanished, Stat, Unchanged,
                Open, ReadBatch, ReadEOF, ReadTooLong, Insert, dbVars
  <1>3. ASSUME NEW w \in Watchers, Refresh(w) \/ Upsert(w)
        PROVE  /\ pc[w] \in {"refresh", "upsert"} /\ WriteRow(w)
               /\ UNCHANGED <<dir, gen, len, requests>>
    BY <1>3 DEF Refresh, Upsert, fsVars
  <1>4. QED
    BY <1>1, <1>2, <1>3 DEF Next

LEMMA AdvanceStep ==
    ASSUME CheckpointInv, PlaceInv, [Next]_vars,
           NEW p \in Paths, fileState[p] # NoRow, fileState'[p] # NoRow,
           fileState'[p].fingerprint = fileState[p].fingerprint
    PROVE  fileState'[p].offset >= fileState[p].offset
  <1>1. fileState[p].offset \in 0..MaxLen
    BY DEF CheckpointInv, TypeInv, TypeOK, FileStates
  <1>2. CASE fileState' = fileState
    BY <1>1, <1>2, WatcherConstants
  <1>3. ASSUME NEW w \in Watchers, pc[w] \in {"refresh", "upsert"}, WriteRow(w)
        PROVE  fileState'[p].offset >= fileState[p].offset
    <2>1. /\ CursorFits(w) /\ pos[w] \in 0..MaxLen
          /\ fileState' = [fileState EXCEPT ![path[w]] =
               [inode |-> info[w].inode, size |-> info[w].size,
                offset |-> pos[w], fingerprint |-> curFP[w]]]
          /\ fileState \in [Paths -> FileStates \cup {NoRow}]
      BY <1>3 DEF CheckpointInv, PlaceInv, TypeInv, TypeOK, WriteRow
    <2>2. CASE p = path[w]
      <3>1. fileState'[p].offset = pos[w] /\ fileState'[p].fingerprint = curFP[w]
        BY <2>1, <2>2
      <3>2. fileState[p].offset > 0 => fileState[p].offset <= pos[w]
        BY <1>3, <2>1, <2>2, <3>1 DEF CursorFits, Keeps, After, Reading
      <3>3. QED
        BY <1>1, <2>1, <3>1, <3>2, WatcherConstants
    <2>3. CASE p # path[w]
      <3>1. fileState'[p] = fileState[p]
        BY <2>1, <2>3
      <3>2. QED
        BY <1>1, <3>1, WatcherConstants
    <2>4. QED
      BY <2>2, <2>3
  <1>4. CASE UNCHANGED vars
    BY <1>2, <1>4 DEF vars, dbVars
  <1>5. QED
    BY <1>2, <1>3, <1>4, OnlyReturnWrites

\* With one source on its paths, a scan that raced a rotation never moves back
\* the offset recorded for a file head (handleFile and UpsertFileState), at any
\* depth of rotation and wherever calls fail or the process ends.
THEOREM OffsetsNeverBack ==
    ASSUME WellBehaved, OneWatcher
    PROVE  Spec => OffsetAdvances
  <1>1. CheckpointInv /\ PlaceInv /\ [Next]_vars =>
          [\A p \in Paths :
              /\ fileState[p] # NoRow /\ fileState'[p] # NoRow
              /\ fileState'[p].fingerprint = fileState[p].fingerprint
              /\ fileState[p].fingerprint.n > 0
              => fileState'[p].offset >= fileState[p].offset]_vars
    BY AdvanceStep
  <1>2. QED
    BY <1>1, PlaceKept, PTL DEF Spec, OffsetAdvances

-----------------------------------------------------------------------------
(* The refinement of Ingestion.                                            *)

\* The live log only, whose first line is the head that is fingerprinted.
LiveLog == Depth = 0 /\ FPLen = 1

\* What the refinement's variables are when the invariants hold.
WrittenIs ==
    \A l : l \in Written <=> /\ l \in Lines /\ dir[0] # NoFile
                             /\ l[1] = gen[dir[0]] /\ l[2] <= len[dir[0]]

PassedByIs ==
    \A l : l \in PassedBy <=> /\ l \in Lines /\ Keeps(fileState[0])
                              /\ Holds(0, fileState[0].fingerprint.head)
                              /\ l[1] = fileState[0].fingerprint.head
                              /\ l[2] <= fileState[0].offset

ShipperInv ==
    /\ WrittenIs /\ PassedByIs
    /\ PassedBy \subseteq Written
    /\ \A l \in PassedBy : requests[l] > 0

\* A scan resumes where the row says, if the row keeps a place in the file.
LEMMA ResumesAtRow ==
    ASSUME WellBehaved, LiveLog, CheckpointInv, PlaceInv, NEW p \in Paths, dir[p] # NoFile
    PROVE  ResumeAt(p) = IF Keeps(fileState[p]) /\ Holds(p, fileState[p].fingerprint.head)
                         THEN fileState[p].offset ELSE 0
  <1> DEFINE row == fileState[p]
             fp == Fingerprint(dir[p])
  <1>1. /\ dir[p] \in Inodes /\ len[dir[p]] \in Nat /\ row \in FileStates \cup {NoRow}
        /\ RowFits(p)
    BY WatcherConstants DEF CheckpointInv, PlaceInv, TypeInv, TypeOK
  <1>2. /\ len[dir[p]] > 0 => fp.n = 1
        /\ fp.n > 0 => fp.head = gen[dir[p]]
        /\ fp = [head |-> fp.head, n |-> fp.n]
    BY <1>1, WatcherConstants DEF Fingerprint, WellBehaved, LiveLog
  <1>3. ASSUME Keeps(row)
        PROVE  /\ row.offset \in Nat /\ row.fingerprint.n = 1 /\ row # NoRow
               /\ row.fingerprint = [head |-> row.fingerprint.head, n |-> row.fingerprint.n]
    BY <1>3, KeptRow DEF Fingerprints, LiveLog, Keeps
  <1>4. CASE Keeps(row) /\ Holds(p, row.fingerprint.head)
    <2>1. row.inode = dir[p] /\ row.offset <= len[dir[p]] /\ len[dir[p]] > 0
      BY <1>1, <1>3, <1>4 DEF RowFits, Keeps
    <2>2. fp = row.fingerprint
      BY <1>2, <1>3, <1>4, <2>1 DEF Holds
    <2>3. ~(len[dir[p]] < row.offset)
      BY <1>1, <1>3, <1>4, <2>1
    <2>4. QED
      BY <1>3, <1>4, <2>1, <2>2, <2>3 DEF ResumeAt, ResumeOffset
  <1>5. CASE Keeps(row) /\ ~Holds(p, row.fingerprint.head)
    <2>1. fp # row.fingerprint /\ row.fingerprint.n > 0
      BY <1>2, <1>3, <1>5 DEF Holds
    <2>2. QED
      BY <1>5, <2>1 DEF ResumeAt, ResumeOffset
  <1>6. CASE ~Keeps(row)
    <2>1. row # NoRow => row.offset = 0
      BY <1>1, <1>6, WatcherConstants DEF Keeps, FileStates
    <2>2. QED
      BY <1>6, <2>1 DEF ResumeAt, ResumeOffset
  <1>7. QED
    BY <1>4, <1>5, <1>6

LEMMA ShipperState ==
    ASSUME WellBehaved, LiveLog
    PROVE  CheckpointInv /\ PlaceInv => ShipperInv
  <1> SUFFICES ASSUME CheckpointInv, PlaceInv PROVE ShipperInv
    OBVIOUS
  <1>1. Paths = {0} /\ LineLen = 1
    BY DEF Paths, LiveLog, WellBehaved
  <1>2. \A l \in Lines : l[2] \in Nat /\ l[2] > 0 /\ l[2] * LineLen = l[2]
    BY <1>1 DEF Lines
  <1>3. Linked = IF dir[0] = NoFile THEN {} ELSE {0}
    BY <1>1 DEF Linked
  <1>4. /\ Written = IF dir[0] = NoFile THEN {} ELSE LinesUpTo(0, len[dir[0]])
        /\ PassedBy = IF dir[0] = NoFile THEN {} ELSE LinesUpTo(0, ResumeAt(0))
    BY <1>3 DEF Written, PassedBy
  <1>5. WrittenIs
    BY <1>2, <1>4 DEF WrittenIs, LinesUpTo
  <1>6. dir[0] # NoFile =>
          ResumeAt(0) = IF Keeps(fileState[0]) /\ Holds(0, fileState[0].fingerprint.head)
                        THEN fileState[0].offset ELSE 0
    BY <1>1, ResumesAtRow
  <1>7. PassedByIs
    BY <1>2, <1>4, <1>6 DEF PassedByIs, LinesUpTo, Holds
  <1>8. ASSUME NEW l, l \in PassedBy PROVE l \in Written /\ requests[l] > 0
    <2>1. /\ l \in Lines /\ Keeps(fileState[0]) /\ Holds(0, fileState[0].fingerprint.head)
          /\ l[1] = fileState[0].fingerprint.head /\ l[2] <= fileState[0].offset
      BY <1>7, <1>8 DEF PassedByIs
    <2>2. /\ fileState[0].offset \in Nat /\ fileState[0].fingerprint.n > 0
          /\ RowInv(0, fileState[0]) /\ RowFits(0)
      BY <1>1, <2>1, KeptRow DEF CheckpointInv, PlaceInv
    <2>3. requests[l] > 0
      BY <2>1, <2>2 DEF RowInv, Covered, Stored, Keeps
    <2>4. dir[0] \in Inodes /\ len[dir[0]] \in Nat
      BY <1>1, <2>1, WatcherConstants DEF CheckpointInv, TypeInv, TypeOK, Holds
    <2>5. l[2] <= len[dir[0]]
      BY <1>2, <2>1, <2>2, <2>4 DEF RowFits
    <2>6. QED
      BY <1>5, <2>1, <2>3, <2>5 DEF WrittenIs, Holds
  <1>9. QED
    BY <1>5, <1>7, <1>8 DEF ShipperInv

\* Logs are written, rotated or emptied: nothing that stays is forgotten.
LEMMA EnvironmentShips ==
    ASSUME CheckpointInv, Environment, ShipperInv, ShipperInv'
    PROVE  Shipper!Change
  <1>0. UNCHANGED <<requests, fileState>> /\ TypeInv /\ OneHolder /\ 0 \in Paths
    BY EnvironmentUnchanged, IdleType DEF CheckpointInv
  <1>1. Written' \in SUBSET Lines
    BY DEF ShipperInv, WrittenIs
  <1>2. ASSUME NEW l, l \in PassedBy' PROVE l \in PassedBy /\ l \in Written'
    <2>1. /\ l \in Lines /\ Keeps(fileState[0])
          /\ dir'[0] # NoFile /\ gen'[dir'[0]] = fileState[0].fingerprint.head
          /\ l[1] = fileState[0].fingerprint.head /\ l[2] <= fileState[0].offset
      BY <1>0, <1>2 DEF ShipperInv, PassedByIs, Keeps, Holds
    <2>2. \A fp \in Fingerprints :
             Seen(0, fp) /\ fp.n > 0 /\ gen'[dir'[0]] = fp.head => Holds(0, fp.head)
      BY <1>0, <2>1, SeenStep DEF Holds
    <2>3. Holds(0, fileState[0].fingerprint.head)
      BY <1>0, <2>1, <2>2, KeptRow
    <2>4. QED
      BY <1>2, <2>1, <2>3 DEF ShipperInv, PassedByIs
  <1>3. ASSUME NEW l, l \in PassedBy, l \in Written' PROVE l \in PassedBy'
    BY <1>0, <1>3 DEF ShipperInv, PassedByIs, WrittenIs, Keeps, Holds
  <1>4. PassedBy' = PassedBy \cap Written'
    BY <1>2, <1>3
  <1>5. QED
    BY <1>0, <1>1, <1>4 DEF Shipper!Change

\* A batch holds no line a scan would not read again.
LEMMA InsertShips ==
    ASSUME LiveLog, CheckpointInv, PlaceInv, NEW w \in Watchers, Insert(w),
           ShipperInv, ShipperInv'
    PROVE  [Shipper!Next]_Shipper!vars
  <1>1. /\ CursorFits(w) /\ path[w] = 0 /\ pc[w] = "insert" /\ 0 \in Paths
        /\ batch[w] \in SUBSET Lines /\ requests \in [Lines -> Nat]
        /\ requests' = [l \in Lines |-> requests[l] + IF l \in batch[w] THEN 1 ELSE 0]
        /\ UNCHANGED <<dir, gen, len, fileState>>
    BY DEF CheckpointInv, PlaceInv, TypeInv, TypeOK, Insert, fsVars, LiveLog, Paths
  <1>2. Written' = Written
    BY <1>1 DEF ShipperInv, WrittenIs
  <1>3. PassedBy' = PassedBy
    BY <1>1 DEF ShipperInv, PassedByIs, Keeps, Holds
  <1>4. batch[w] \cap PassedBy = {}
    <2>1. ASSUME NEW l \in batch[w], l \in PassedBy PROVE FALSE
      <3>1. /\ Keeps(fileState[0]) /\ Holds(0, fileState[0].fingerprint.head)
            /\ l[2] <= fileState[0].offset
        BY <2>1 DEF ShipperInv, PassedByIs
      <3>2. fileState[0].offset < l[2]
        BY <1>1, <3>1 DEF CursorFits, After, Reading, LiveLog
      <3>3. l[2] \in Nat /\ fileState[0].offset \in Nat
        BY <1>1, <3>1, KeptRow DEF Lines
      <3>4. QED
        BY <3>1, <3>2, <3>3
    <2>2. QED
      BY <2>1
  <1>5. CASE batch[w] = {}
    <2>1. requests' = requests
      BY <1>1, <1>5
    <2>2. QED
      BY <1>2, <1>3, <2>1 DEF Shipper!vars
  <1>6. CASE batch[w] # {}
    <2>1. Shipper!Ship(batch[w])
      BY <1>1, <1>2, <1>3, <1>4, <1>6 DEF Shipper!Ship
    <2>2. QED
      BY <1>1, <2>1 DEF Shipper!Next
  <1>7. QED
    BY <1>5, <1>6

\* The row written is a row, and not the mark for none.
LEMMA ShipperRow ==
    ASSUME TypeInv, NEW w \in Watchers, pc[w] # "idle"
    PROVE  [inode |-> info[w].inode, size |-> info[w].size,
            offset |-> pos[w], fingerprint |-> curFP[w]] # NoRow
  BY RowSentinel DEF TypeInv, TypeOK, FileStates

\* A row moves forward, over lines that are in the table.
LEMMA WriteRowShips ==
    ASSUME LiveLog, CheckpointInv, PlaceInv, NEW w \in Watchers,
           pc[w] \in {"refresh", "upsert"}, WriteRow(w), UNCHANGED <<dir, gen, len, requests>>,
           ShipperInv, ShipperInv'
    PROVE  Shipper!Next
  <1>1. /\ CursorFits(w) /\ path[w] = 0 /\ 0 \in Paths
        /\ fileState' = [fileState EXCEPT ![0] =
             [inode |-> info[w].inode, size |-> info[w].size,
              offset |-> pos[w], fingerprint |-> curFP[w]]]
        /\ fileState \in [Paths -> FileStates \cup {NoRow}] /\ pos[w] \in Nat
    <2>1. path[w] = 0 /\ 0 \in Paths
      BY DEF CheckpointInv, TypeInv, TypeOK, LiveLog, Paths
    <2>2. QED
      BY <2>1, WatcherConstants DEF CheckpointInv, PlaceInv, TypeInv, TypeOK, WriteRow
  <1>2. fileState'[0].offset = pos[w] /\ fileState'[0].fingerprint = curFP[w]
    BY <1>1
  <1>3. Written' = Written
    BY DEF ShipperInv, WrittenIs
  <1>4. ASSUME NEW l, l \in PassedBy PROVE l \in PassedBy'
    <2>1. /\ l \in Lines /\ Keeps(fileState[0]) /\ Holds(0, fileState[0].fingerprint.head)
          /\ l[1] = fileState[0].fingerprint.head /\ l[2] <= fileState[0].offset
      BY <1>4 DEF ShipperInv, PassedByIs
    <2>2. /\ curFP[w] = fileState[0].fingerprint /\ fileState[0].offset <= pos[w]
      BY <1>1, <2>1 DEF CursorFits, After, Reading, LiveLog
    <2>3. l[2] \in Nat /\ fileState[0].offset \in Nat /\ fileState[0].offset > 0
      BY <1>1, <2>1, KeptRow DEF Lines, Keeps
    <2>4. Keeps(fileState[0])'
      <3>1. fileState'[0] # NoRow
        BY <1>1, ShipperRow DEF CheckpointInv
      <3>2. QED
        BY <1>1, <1>2, <2>2, <2>3, <3>1 DEF Keeps
    <2>5. QED
      BY <1>1, <1>2, <2>1, <2>2, <2>3, <2>4 DEF ShipperInv, PassedByIs, Holds
  <1>5. /\ PassedBy' \subseteq Written
        /\ \A l \in PassedBy' : requests[l] > 0
    BY <1>3 DEF ShipperInv
  <1>6. PassedBy' = PassedBy \cup PassedBy' /\ PassedBy' \in SUBSET Lines
    BY <1>4 DEF ShipperInv, PassedByIs
  <1>7. Shipper!Checkpoint(PassedBy')
    BY <1>3, <1>5, <1>6 DEF Shipper!Checkpoint
  <1>8. QED
    BY <1>6, <1>7 DEF Shipper!Next

\* Every other step leaves the files, the rows and the requests alone.
LEMMA OtherSteps ==
    ASSUME Next
    PROVE  \/ Environment
           \/ \E w \in Watchers : Insert(w)
           \/ \E w \in Watchers : /\ pc[w] \in {"refresh", "upsert"} /\ WriteRow(w)
                                  /\ UNCHANGED <<dir, gen, len, requests>>
           \/ UNCHANGED <<dir, gen, len, requests, fileState>>
  <1>1. CASE Crash
    BY <1>1 DEF Crash, fsVars, dbVars
  <1>2. ASSUME NEW w \in Watchers, Watch(w) \/ Cancel(w) \/ Fail(w),
               ~(Refresh(w) \/ Upsert(w) \/ Insert(w))
        PROVE  UNCHANGED <<dir, gen, len, requests, fileState>>
    BY <1>2 DEF Watch, Cancel, Fail, Scan, GetFileState, ReadHead, Vanished, Stat, Unchanged,
                Open, ReadBatch, ReadEOF, ReadTooLong, fsVars, dbVars
  <1>3. ASSUME NEW w \in Watchers, Refresh(w) \/ Upsert(w)
        PROVE  /\ pc[w] \in {"refresh", "upsert"} /\ WriteRow(w)
               /\ UNCHANGED <<dir, gen, len, requests>>
    BY <1>3 DEF Refresh, Upsert, fsVars
  <1>4. QED
    BY <1>1, <1>2, <1>3 DEF Next

LEMMA ShipperStep ==
    ASSUME LiveLog, CheckpointInv, PlaceInv, ShipperInv, ShipperInv', [Next]_vars
    PROVE  [Shipper!Next]_Shipper!vars
  <1>1. CASE Environment
    BY <1>1, EnvironmentShips DEF Shipper!Next
  <1>2. ASSUME NEW w \in Watchers, Insert(w) PROVE [Shipper!Next]_Shipper!vars
    BY <1>2, InsertShips
  <1>3. ASSUME NEW w \in Watchers, pc[w] \in {"refresh", "upsert"}, WriteRow(w),
               UNCHANGED <<dir, gen, len, requests>>
        PROVE  [Shipper!Next]_Shipper!vars
    BY <1>3, WriteRowShips
  <1>4. CASE UNCHANGED <<dir, gen, len, requests, fileState>>
    <2>1. Written' = Written
      BY <1>4 DEF ShipperInv, WrittenIs
    <2>2. PassedBy' = PassedBy
      BY <1>4 DEF ShipperInv, PassedByIs, Keeps, Holds
    <2>3. QED
      BY <1>4, <2>1, <2>2 DEF Shipper!vars
  <1>5. UNCHANGED vars => UNCHANGED <<dir, gen, len, requests, fileState>>
    BY DEF vars, fsVars, dbVars
  <1>6. QED
    BY <1>1, <1>2, <1>3, <1>4, <1>5, OtherSteps

LEMMA ShipperInit == Init => Shipper!Init
  <1> SUFFICES ASSUME Init PROVE Shipper!Init
    OBVIOUS
  <1>1. Linked = {}
    BY DEF Init, Linked
  <1>2. Written = {} /\ PassedBy = {}
    BY <1>1 DEF Written, PassedBy
  <1>3. QED
    BY <1>2 DEF Init, Shipper!Init

\* One source on the live log implements Ingestion, for any number of
\* generations, lines, batches, failed calls and crashes: it ships only what its
\* row does not cover, its row covers only what has arrived (handleFile,
\* consumeRange and UpsertFileState), and forgets a line only with its file.
THEOREM Ships ==
    ASSUME WellBehaved, OneWatcher, LiveLog
    PROVE  Spec => ShipsAtLeastOnce
  <1>1. CheckpointInv /\ PlaceInv => ShipperInv
    BY ShipperState
  <1>2. /\ CheckpointInv /\ PlaceInv /\ ShipperInv /\ ShipperInv' /\ [Next]_vars
        => [Shipper!Next]_Shipper!vars
    BY ShipperStep
  <1>3. QED
    BY <1>1, <1>2, ShipperInit, PlaceKept, PTL DEF Spec, ShipsAtLeastOnce, Shipper!Spec

-----------------------------------------------------------------------------
(* Every extra copy has its cause.                                         *)

\* The log under one name: what follows holds for heads of any length.
OneLog == Depth = 0

Causes == errors + crashes + raced

\* What the copies of a line after the first have been paid with.
Paid(l) == Causes + again[l[1]]

\* The steps at which handleFile has lines still to read or to insert.
Chosen == {"open"} \cup Reading

\* The row's place covers the line.
Passed(l) ==
    /\ Keeps(fileState[0]) /\ Holds(0, fileState[0].fingerprint.head)
    /\ l[1] = fileState[0].fingerprint.head /\ l[2] <= fileState[0].offset

\* The handling in progress may insert the line, ...
InHand(w, l) ==
    /\ pc[w] \in Chosen
    /\ \/ l \in batch[w]
       \/ /\ l[2] > pos[w]
          /\ \/ l[1] = curFP[w].head
             \/ pc[w] = "open" /\ Holds(0, l[1])
             \/ pc[w] \in Reading /\ gen[fd[w]] = l[1]

\* ... and a later one may: the line is in the log or still to be written, and
\* is not covered by the row or by the row that will replace it.
ToCome(w, l) ==
    /\ l[1] > lastGen \/ Holds(0, l[1])
    /\ IF pc[w] \in Chosen THEN l[1] # curFP[w].head ELSE ~Passed(l)

\* A copy in the table and a copy that may come without a cause: one of them is
\* free, each of the others has been paid for.
Accounted(w, l) ==
    /\ requests[l] <= 1 + Paid(l)
    /\ InHand(w, l) \/ ToCome(w, l) => requests[l] <= Paid(l)
    /\ InHand(w, l) /\ ToCome(w, l) => requests[l] < Paid(l)

GenInv ==
    /\ \A i \in Inodes : gen[i] <= lastGen
    /\ \A w \in Watchers : \A l \in batch[w] : l[1] <= lastGen /\ l[2] <= pos[w]
    /\ \A l \in Lines : l[1] > lastGen => requests[l] = 0

CauseInv ==
    \A w \in Watchers :
        /\ pc[w] \in Chosen /\ ~Holds(0, curFP[w].head) => Causes > 0
        /\ \A l \in Lines : Accounted(w, l)

\* The log only loses what it holds to a generation never seen before.
LEMMA EnvironmentGens ==
    ASSUME OneLog, TypeInv, GenInv, Environment
    PROVE  /\ GenInv' /\ lastGen <= lastGen'
           /\ \A g \in Int : g <= lastGen /\ dir'[0] # NoFile /\ gen'[dir'[0]] = g => Holds(0, g)
           /\ \A w \in Watchers : pc[w] \in Reading =>
                 gen'[fd[w]] = gen[fd[w]] \/ gen'[fd[w]] > lastGen
  <1>1. Paths = {0} /\ lastGen \in Nat /\ gen \in [Inodes -> 0..MaxGen]
        /\ dir \in [Paths -> Inodes \cup {NoFile}]
    BY WatcherConstants DEF OneLog, Paths, TypeInv, TypeOK
  <1>2. /\ lastGen <= lastGen' /\ \A i \in Inodes : gen'[i] = gen[i] \/ gen'[i] = lastGen'
        /\ lastGen' \in Int
        /\ \A i \in Inodes : gen'[i] # gen[i] => gen'[i] > lastGen
        /\ dir'[0] # NoFile => dir'[0] = dir[0] \/ gen'[dir'[0]] > lastGen
    <2>1. ASSUME NEW p \in Paths, Append(p)
          PROVE  UNCHANGED <<dir, gen, lastGen>>
      BY <2>1 DEF Append
    <2>2. ASSUME NEW p \in Paths, Rotate(p)
          PROVE  UNCHANGED <<gen, lastGen>> /\ dir'[0] = NoFile
      BY <1>1, <2>2 DEF Rotate
    <2>3. ASSUME NEW i \in Inodes, Create(i)
          PROVE  /\ lastGen' = lastGen + 1 /\ gen' = [gen EXCEPT ![i] = lastGen + 1]
                 /\ dir'[0] = i
      BY <1>1, <2>3 DEF Create
    <2>4. CASE CopyTruncate
      BY <1>1, <2>4 DEF CopyTruncate
    <2>5. QED
      BY <1>1, <2>1, <2>2, <2>3, <2>4 DEF Environment
  <1>3. UNCHANGED <<requests, batch, pos, fd>>
    BY EnvironmentUnchanged
  <1>4. \A i \in Inodes : gen'[i] <= lastGen'
    BY <1>1, <1>2 DEF GenInv
  <1>5. ASSUME NEW w \in Watchers, NEW l \in batch'[w] PROVE l[1] <= lastGen' /\ l[2] <= pos'[w]
    <2>1. l \in batch[w] /\ l \in Lines /\ l[1] \in Int
      BY <1>3, <1>5 DEF TypeInv, TypeOK, Lines, Gens
    <2>2. QED
      BY <1>1, <1>2, <1>3, <2>1 DEF GenInv
  <1>6. ASSUME NEW l \in Lines, l[1] > lastGen' PROVE requests'[l] = 0
    BY <1>1, <1>2, <1>3, <1>6 DEF GenInv, Lines, Gens
  <1>7. GenInv'
    BY <1>4, <1>5, <1>6 DEF GenInv
  <1>8. ASSUME NEW g \in Int, g <= lastGen, dir'[0] # NoFile, gen'[dir'[0]] = g PROVE Holds(0, g)
    <2>1. dir'[0] = dir[0] /\ dir[0] \in Inodes /\ gen[dir[0]] \in Int /\ gen'[dir[0]] \in Int
      BY <1>1, <1>2, <1>8
    <2>2. QED
      BY <1>1, <1>2, <1>8, <2>1 DEF Holds
  <1>9. ASSUME NEW w \in Watchers, pc[w] \in Reading
        PROVE  gen'[fd[w]] = gen[fd[w]] \/ gen'[fd[w]] > lastGen
    BY <1>2, <1>9 DEF TypeInv
  <1>10. QED
    BY <1>2, <1>7, <1>8, <1>9

\* A file replaced under handleFile is counted.
LEMMA RaceCounted ==
    ASSUME OneLog, TypeInv, Environment
    PROVE  /\ raced' \in Nat /\ raced <= raced' /\ UNCHANGED <<errors, crashes, again>>
           /\ \A w \in Watchers : \A g : pc[w] # "idle" /\ Holds(0, g) =>
                 raced' > 0 \/ (dir'[0] # NoFile /\ gen'[dir'[0]] = g)
  <1>1. Paths = {0} /\ raced \in Nat /\ \A w \in Watchers : path[w] = 0
    BY DEF OneLog, Paths, TypeInv, TypeOK
  <1>2. ASSUME NEW S \in SUBSET Watchers
        PROVE  Cardinality(S) \in Nat /\ (S # {} => Cardinality(S) > 0)
    <2>1. IsFiniteSet(S)
      BY WatcherConstants, FS_Subset
    <2>2. Cardinality(S) \in Nat /\ (Cardinality(S) = 0 <=> S = {})
      BY <2>1, FS_CardinalityType, FS_EmptySet
    <2>3. QED
      BY <2>2
  <1>3. \A w \in Watchers : pc[w] # "idle" => w \in Handling(0)
    BY <1>1 DEF Handling
  <1>4. Handling(0) \in SUBSET Watchers /\ Handling(0) \cup Handling(1) \in SUBSET Watchers
    BY DEF Handling
  <1>5. ASSUME NEW p \in Paths, Append(p)
        PROVE  UNCHANGED <<dir, gen, errors, crashes, raced, again>>
    BY <1>5 DEF Append
  <1>6. ASSUME NEW p \in Paths, Rotate(p)
        PROVE  /\ UNCHANGED <<errors, crashes, again>>
               /\ raced' = raced + Cardinality(Handling(0) \cup Handling(1))
    BY <1>1, <1>6 DEF Rotate
  <1>7. ASSUME NEW i \in Inodes, Create(i)
        PROVE  UNCHANGED <<errors, crashes, raced, again>> /\ dir[0] = NoFile
    BY <1>7 DEF Create
  <1>8. CASE CopyTruncate
    <2>1. UNCHANGED <<errors, crashes, again>> /\ raced' = raced + Cardinality(Handling(0))
      BY <1>8 DEF CopyTruncate, Replaced
    <2>2. QED
      BY <1>1, <1>2, <1>3, <1>4, <2>1
  <1>9. ASSUME NEW p \in Paths, Rotate(p)
        PROVE  /\ raced' \in Nat /\ raced <= raced'
               /\ \A w \in Watchers : pc[w] # "idle" => raced' > 0
    <2>1. \A w \in Watchers : pc[w] # "idle" => Handling(0) \cup Handling(1) # {}
      BY <1>3
    <2>2. /\ Cardinality(Handling(0) \cup Handling(1)) \in Nat
          /\ Handling(0) \cup Handling(1) # {} => Cardinality(Handling(0) \cup Handling(1)) > 0
      BY <1>2, <1>4
    <2>3. raced' = raced + Cardinality(Handling(0) \cup Handling(1))
      BY <1>6, <1>9
    <2>4. QED
      BY <1>1, <2>1, <2>2, <2>3
  <1>10. QED
    BY <1>1, <1>5, <1>6, <1>7, <1>8, <1>9 DEF Environment, Holds

\* The causes are counted in natural numbers.
LEMMA CausesType == TypeInv => errors \in Nat /\ crashes \in Nat /\ raced \in Nat
  BY WatcherConstants DEF TypeInv, TypeOK

\* What has been paid with is a number, no less than the faults.
LEMMA PaidType ==
    ASSUME TypeInv, NEW l \in Lines
    PROVE  Paid(l) \in Nat /\ Causes \in Nat /\ Causes <= Paid(l)
  <1>1. l[1] \in Gens
    BY DEF Lines
  <1>2. again[l[1]] \in Nat
    BY <1>1 DEF TypeInv, TypeOK
  <1>3. QED
    BY <1>2, CausesType DEF Paid, Causes

LEMMA PaidSame ==
    ASSUME UNCHANGED <<errors, crashes, raced, again>>
    PROVE  Causes' = Causes /\ \A l \in Lines : Paid(l)' = Paid(l)
  BY DEF Paid, Causes

\* One cause is a cause.
LEMMA OneCause ==
    ASSUME NEW a \in Nat, NEW b \in Nat, NEW c \in Nat, c > 0
    PROVE  a + b + c > 0
  OBVIOUS

LEMMA EnvironmentCauses ==
    ASSUME OneLog, CheckpointInv, CheckpointInv', GenInv, CauseInv, Environment
    PROVE  CauseInv'
  <1>0. /\ UNCHANGED <<requests, fileState, pc, path, info, prev, curFP, fd, pos, batch>>
        /\ TypeInv /\ TypeInv' /\ 0 \in Paths
    BY EnvironmentUnchanged, IdleType DEF CheckpointInv
  <1>1. /\ errors \in Nat /\ crashes \in Nat /\ raced \in Nat /\ raced' \in Nat
        /\ raced <= raced' /\ UNCHANGED <<errors, crashes, again>>
    BY <1>0, CausesType, RaceCounted
  <1>11. ASSUME NEW l \in Lines
         PROVE  /\ Paid(l) \in Nat /\ Paid(l)' \in Nat /\ Paid(l) <= Paid(l)'
                /\ errors + crashes + raced' <= Paid(l)'
    <2>1. again[l[1]] \in Nat
      BY <1>0 DEF TypeInv, TypeOK, Lines
    <2>2. QED
      BY <1>1, <2>1 DEF Paid, Causes
  <1>2. lastGen \in Nat /\ lastGen' \in Nat /\ lastGen <= lastGen'
    BY <1>0, EnvironmentGens, WatcherConstants DEF TypeInv, TypeOK
  <1>3. ASSUME NEW w \in Watchers, pc[w] \in Chosen,
               ~(dir'[0] # NoFile /\ gen'[dir'[0]] = curFP[w].head)
        PROVE  errors + crashes + raced' > 0
    <2>1. CASE Holds(0, curFP[w].head)
      <3>1. pc[w] # "idle"
        BY <1>3 DEF Chosen, Reading
      <3>2. raced' > 0 \/ (dir'[0] # NoFile /\ gen'[dir'[0]] = curFP[w].head)
        BY <1>0, <2>1, <3>1, RaceCounted
      <3>3. raced' > 0
        BY <1>3, <3>2
      <3>4. QED
        BY <1>1, <3>3, OneCause, Zenon
    <2>2. CASE ~Holds(0, curFP[w].head)
      BY <1>1, <1>3, <2>2 DEF CauseInv, Causes
    <2>3. QED
      BY <2>1, <2>2
  <1>4. ASSUME NEW w \in Watchers, NEW l \in Lines PROVE Accounted(w, l)'
    <2>0. /\ l[1] \in Nat /\ l[2] \in Nat /\ requests[l] \in Nat /\ Accounted(w, l)
          /\ batch[w] \in SUBSET Lines /\ path[w] = 0
      <3>1. Accounted(w, l)
        BY DEF CauseInv
      <3>2. l[1] \in Nat /\ l[2] \in Nat
        BY DEF Lines, Gens
      <3>3. TypeInv
        BY <1>0
      <3>4. requests[l] \in Nat /\ batch[w] \in SUBSET Lines /\ path[w] = 0
        BY <3>3 DEF TypeInv, TypeOK, OneLog, Paths
      <3>5. QED
        BY <3>1, <3>2, <3>4
    <2>1. CASE l[1] <= lastGen
      <3>1. dir'[0] # NoFile /\ gen'[dir'[0]] = l[1] => Holds(0, l[1])
        BY <1>0, <2>0, <2>1, EnvironmentGens
      <3>2. pc[w] \in Reading /\ gen'[fd[w]] = l[1] => gen[fd[w]] = l[1]
        BY <1>0, <1>2, <2>0, <2>1, EnvironmentGens
      <3>3. InHand(w, l)' => InHand(w, l)
        BY <1>0, <3>1, <3>2 DEF InHand, Holds
      <3>4. ToCome(w, l)' => ToCome(w, l)
        <4>1. ~(l[1] > lastGen')
          BY <1>2, <2>0, <2>1
        <4>2. Passed(l) /\ dir'[0] # NoFile /\ gen'[dir'[0]] = l[1] => Passed(l)'
          BY <1>0 DEF Passed, Keeps, Holds
        <4>3. QED
          BY <1>0, <3>1, <4>1, <4>2 DEF ToCome, Holds
      <3>5. QED
        BY <1>0, <1>11, <2>0, <3>3, <3>4 DEF Accounted
    <2>2. CASE ~(l[1] <= lastGen)
      <3>1. requests[l] = 0
        BY <1>2, <2>0, <2>2 DEF GenInv
      <3>2. ASSUME InHand(w, l)', ToCome(w, l)' PROVE errors + crashes + raced' > 0
        <4>1. pc[w] \in Chosen /\ l[1] # curFP[w].head
          BY <1>0, <3>2 DEF InHand, ToCome
        <4>2. l \notin batch[w]
          BY <1>2, <2>0, <2>2 DEF GenInv
        <4>3. \/ pc[w] = "open" /\ dir'[0] # NoFile /\ gen'[dir'[0]] = l[1]
              \/ pc[w] \in Reading /\ gen'[fd[w]] = l[1]
          BY <1>0, <3>2, <4>1, <4>2 DEF InHand, Holds
        <4>4. pc[w] \in Reading /\ dir'[0] # NoFile /\ gen'[dir'[0]] = curFP[w].head
                => fd[w] = dir'[0]
          BY <1>0, <2>0 DEF CheckpointInv, CursorInv, Holds
        <4>5. QED
          BY <1>3, <4>1, <4>3, <4>4
      <3>3. /\ requests'[l] = 0
            /\ errors' \in Nat /\ crashes' \in Nat /\ raced' \in Nat
        <4>1. requests' = requests
          BY <1>0
        <4>2. QED
          BY <1>1, <3>1, <4>1
      <3>4. requests'[l] <= Paid(l)' /\ requests'[l] <= 1 + Paid(l)'
        BY <1>11, <3>3
      <3>5. ASSUME InHand(w, l)', ToCome(w, l)' PROVE requests'[l] < Paid(l)'
        <4>1. errors + crashes + raced' > 0 /\ errors + crashes + raced' <= Paid(l)'
          BY <1>11, <3>2, <3>5
        <4>11. \A a, b, c \in Nat : a + b + c \in Nat
          OBVIOUS
        <4>12. errors + crashes + raced' \in Nat
          BY <1>1, <4>11, Zenon
        <4>2. errors + crashes + raced' \in Nat /\ Paid(l)' \in Nat
          BY <1>11, <4>12
        <4>3. \A a \in Nat : \A b \in Nat : a > 0 /\ a <= b => 0 < b
          OBVIOUS
        <4>4. 0 < Paid(l)'
          BY <4>1, <4>2, <4>3, Zenon
        <4>5. QED
          BY <3>3, <4>4
      <3>6. QED
        BY <3>4, <3>5 DEF Accounted
    <2>3. QED
      BY <2>1, <2>2
  <1>5. QED
    BY <1>0, <1>1, <1>3, <1>4 DEF CauseInv, Causes, Holds

\* A step of handleFile that keeps the accounts.
LEMMA LocalCauses ==
    ASSUME OneWatcher, CauseInv, NEW w \in Watchers,
           UNCHANGED <<dir, gen, lastGen, requests, errors, crashes, raced, again>>,
           pc'[w] \in Chosen => \/ pc[w] \in Chosen /\ curFP'[w] = curFP[w]
                                \/ Holds(0, curFP'[w].head),
           \A l \in Lines :
              /\ InHand(w, l)' \/ ToCome(w, l)' => InHand(w, l) \/ ToCome(w, l)
              /\ InHand(w, l)' /\ ToCome(w, l)' => InHand(w, l) /\ ToCome(w, l)
    PROVE  CauseInv'
  <1>1. \A l \in Lines : Accounted(w, l)'
    BY PaidSame DEF CauseInv, Accounted
  <1>2. pc'[w] \in Chosen /\ ~Holds(0, curFP[w].head)' => Causes' > 0
    BY DEF CauseInv, Causes, Holds
  <1>3. QED
    BY <1>1, <1>2 DEF OneWatcher, CauseInv

LEMMA LocalGens ==
    ASSUME OneWatcher, GenInv, NEW w \in Watchers, UNCHANGED <<gen, lastGen>>,
           \A l \in batch'[w] : l[1] <= lastGen /\ l[2] <= pos'[w],
           \A l \in Lines : requests'[l] = requests[l] \/ l \in batch[w],
           TypeInv
    PROVE  GenInv'
  <1>1. ASSUME NEW l \in Lines, l[1] > lastGen PROVE requests'[l] = 0
    <2>1. l \notin batch[w]
      BY <1>1, WatcherConstants DEF GenInv, TypeInv, TypeOK, Lines, Gens
    <2>2. QED
      BY <1>1, <2>1 DEF GenInv
  <1>2. \A i \in Inodes : gen'[i] <= lastGen'
    BY DEF GenInv
  <1>3. \A x \in Watchers : \A l \in batch'[x] : l[1] <= lastGen' /\ l[2] <= pos'[x]
    BY DEF OneWatcher
  <1>4. QED
    BY <1>1, <1>2, <1>3 DEF GenInv

\* Between two files, or before the offset is chosen, nothing is in hand.
LEMMA QuietCauses ==
    ASSUME OneWatcher, OneLog, CheckpointInv, GenInv, CauseInv, NEW w \in Watchers,
           pc[w] \notin Chosen, pc'[w] \notin Chosen, batch'[w] = {},
           UNCHANGED <<dir, gen, lastGen, requests, fileState, errors, crashes, raced, again>>
    PROVE  GenInv' /\ CauseInv'
  <1>1. \A l \in Lines : ~InHand(w, l)' /\ (ToCome(w, l)' => ToCome(w, l))
    BY DEF InHand, ToCome, Passed, Keeps, Holds
  <1>2. CauseInv'
    BY <1>1, LocalCauses
  <1>3. QED
    BY <1>2, LocalGens DEF CheckpointInv

\* A handling whose log is gone has nothing left but what is still to be written.
LEMMA VanishedCauses ==
    ASSUME OneWatcher, OneLog, CheckpointInv, GenInv, CauseInv, NEW w \in Watchers,
           Vanished(w)
    PROVE  GenInv' /\ CauseInv'
  <1>1. /\ path[w] = 0 /\ pc[w] \in {"head", "open"} /\ dir[0] = NoFile /\ CursorInv(w)
        /\ pc'[w] = "idle" /\ batch'[w] = {}
        /\ UNCHANGED <<dir, gen, lastGen, requests, fileState, errors, crashes, raced, again>>
    BY DEF CheckpointInv, TypeInv, TypeOK, OneLog, Paths, Vanished, Return, fsVars, dbVars
  <1>2. CASE pc[w] = "head"
    BY <1>1, <1>2, QuietCauses DEF Chosen, Reading
  <1>3. CASE pc[w] = "open"
    <2>1. curFP[w].head \in 1..lastGen /\ lastGen \in Nat
      BY <1>1, <1>3, WatcherConstants
         DEF CursorInv, Seen, Reading, CheckpointInv, TypeInv, TypeOK
    <2>2. \A l \in Lines : ~InHand(w, l)' /\ (ToCome(w, l)' => ToCome(w, l))
      BY <1>1, <1>3, <2>1 DEF InHand, ToCome, Holds, Chosen, Reading
    <2>3. CauseInv'
      BY <1>1, <2>2, LocalCauses DEF Chosen, Reading
    <2>4. QED
      BY <1>1, <2>3, LocalGens DEF CheckpointInv
  <1>4. QED
    BY <1>1, <1>2, <1>3

\* What the offset leaves ahead is what the row did not cover, unless the head
\* the row recorded was short and has grown.
LEMMA ReadHeadCauses ==
    ASSUME WellBehaved, OneWatcher, OneLog, CheckpointInv, PlaceInv, CheckpointInv', PlaceInv',
           GenInv, CauseInv, NEW w \in Watchers, ReadHead(w)
    PROVE  GenInv' /\ CauseInv'
  <1> DEFINE fp  == Fingerprint(dir[0])
             row == fileState[0]
             g   == gen[dir[0]]
  <1>1. /\ path[w] = 0 /\ pc[w] = "head" /\ dir[0] # NoFile /\ dir[0] \in Inodes
        /\ pc'[w] \in {"refresh", "open"} /\ curFP'[w] = fp
        /\ batch[w] = {} /\ path' = path /\ 0 \in Paths
        /\ UNCHANGED <<dir, gen, len, lastGen, requests, fileState, info, batch,
                       errors, crashes, raced>>
    BY IdleType DEF CheckpointInv, TypeInv, TypeOK, CursorInv, OneLog, Paths, ReadHead, Goto,
           fsVars, dbVars
  <1>2. prev[w] = row /\ (Keeps(row) /\ Holds(0, row.fingerprint.head)
                            => info[w].inode = row.inode)
    BY <1>1 DEF PlaceInv, CursorFits, RowFits
  <1>3. IF HeadGrew(row, info[w].inode, fp) THEN Again(g) ELSE UNCHANGED again
    BY <1>1, <1>2 DEF ReadHead
  <1>4. ASSUME NEW l \in Lines
        PROVE  /\ Paid(l) \in Nat /\ Paid(l)' \in Nat /\ Paid(l) <= Paid(l)'
               /\ HeadGrew(row, info[w].inode, fp) /\ l[1] = g => Paid(l)' > Paid(l)
               /\ requests[l] \in Nat /\ requests'[l] = requests[l] /\ Accounted(w, l)
    <2>1. TypeInv /\ l[1] \in Gens /\ again[l[1]] \in Nat /\ again \in [Gens -> Nat]
      BY DEF CheckpointInv, TypeInv, TypeOK, Lines
    <2>2. again'[l[1]] \in Nat /\ again[l[1]] <= again'[l[1]]
      BY <1>3, <2>1, AgainType
    <2>3. HeadGrew(row, info[w].inode, fp) /\ l[1] = g => again'[l[1]] = again[l[1]] + 1
      BY <1>3, <2>1 DEF Again
    <2>4. errors \in Nat /\ crashes \in Nat /\ raced \in Nat
      BY <2>1, CausesType
    <2>5. /\ Paid(l) = errors + crashes + raced + again[l[1]]
          /\ Paid(l)' = errors + crashes + raced + again'[l[1]]
      BY <1>1 DEF Paid, Causes
    <2>6. QED
      BY <1>1, <2>1, <2>2, <2>3, <2>4, <2>5 DEF CauseInv, TypeInv, TypeOK
  <1>5. GenInv'
    BY <1>1, LocalGens DEF CheckpointInv
  <1>6. CASE pc'[w] = "refresh"
    <2>1. ASSUME NEW l \in Lines PROVE Accounted(w, l)'
      <3>1. ~InHand(w, l)' /\ (ToCome(w, l)' => ToCome(w, l))
        BY <1>1, <1>6 DEF InHand, ToCome, Passed, Keeps, Holds, Chosen, Reading
      <3>2. QED
        BY <1>4, <3>1 DEF Accounted
    <2>2. QED
      BY <1>5, <1>6, <2>1 DEF OneWatcher, CauseInv, Chosen, Reading
  <1>7. CASE pc'[w] = "open"
    <2>1. CursorFits(w)' /\ CursorInv(w)'
      BY DEF CheckpointInv, PlaceInv
    <2>2. fp.head = g
      <3>1. fp.n > 0
        BY <1>1, <1>7, <2>1 DEF CursorInv, Reading
      <3>2. QED
        BY <3>1 DEF Fingerprint, WellBehaved
    <2>3. g <= lastGen /\ g \in Nat /\ lastGen \in Nat
      BY <1>1, WatcherConstants DEF GenInv, CheckpointInv, TypeInv, TypeOK
    <2>4. ASSUME NEW l \in Lines, l[2] > pos'[w], Passed(l)
          PROVE  HeadGrew(row, info[w].inode, fp)
      <3>1. /\ Keeps(row) /\ Holds(0, row.fingerprint.head) /\ l[2] <= row.offset
        BY <2>4 DEF Passed
      <3>2. ASSUME row.fingerprint = fp PROVE FALSE
        <4>1. row.offset <= pos'[w]
          BY <1>1, <1>7, <2>1, <3>1, <3>2 DEF CursorFits, After, Keeps
        <4>2. pos'[w] \in 0..MaxLen
          BY DEF CheckpointInv, TypeInv, TypeOK
        <4>3. l[2] \in Int /\ row.offset \in Int /\ pos'[w] \in Int
          BY <1>1, <3>1, <4>2, KeptRow, WatcherConstants DEF Lines
        <4>4. QED
          BY <2>4, <3>1, <4>1, <4>3
      <3>3. row.fingerprint.head = fp.head
        BY <2>2, <3>1 DEF Holds
      <3>4. QED
        BY <1>2, <3>1, <3>2, <3>3 DEF HeadGrew, Keeps
    <2>5. ASSUME NEW l \in Lines PROVE Accounted(w, l)'
      <3>1. InHand(w, l)' => l[1] = g /\ l[2] > pos'[w]
        BY <1>1, <1>7, <2>2 DEF InHand, Reading, Holds
      <3>2. ToCome(w, l)' => l[1] # g /\ l[1] > lastGen
        BY <1>1, <1>7, <2>2 DEF ToCome, Holds, Chosen
      <3>3. ToCome(w, l)' => ToCome(w, l)
        BY <1>1, <2>3, <3>2 DEF ToCome, Passed, Holds, Chosen, Reading
      <3>4. InHand(w, l)' => ToCome(w, l) \/ Paid(l)' > Paid(l)
        BY <1>1, <1>4, <2>4, <3>1 DEF ToCome, Holds, Chosen, Reading
      <3>5. QED
        BY <1>4, <3>1, <3>2, <3>3, <3>4 DEF Accounted
    <2>6. Holds(0, curFP[w].head)'
      BY <1>1, <2>2 DEF Holds
    <2>7. QED
      BY <1>5, <2>5, <2>6 DEF OneWatcher, CauseInv
  <1>8. QED
    BY <1>1, <1>6, <1>7

\* Opening the log and reading on bring nothing into the hand that was not there.
LEMMA OpenCauses ==
    ASSUME OneWatcher, OneLog, CheckpointInv, GenInv, CauseInv, NEW w \in Watchers, Open(w)
    PROVE  GenInv' /\ CauseInv'
  <1>1. /\ path[w] = 0 /\ pc[w] = "open" /\ pc'[w] = "read" /\ dir[0] # NoFile
        /\ fd'[w] = dir[0] /\ batch[w] = {}
        /\ UNCHANGED <<dir, gen, lastGen, requests, fileState, curFP, pos, batch,
                       errors, crashes, raced, again>>
    <2>1. TypeInv /\ CursorInv(w)
      BY DEF CheckpointInv
    <2>2. path[w] = 0
      BY <2>1 DEF TypeInv, TypeOK, OneLog, Paths
    <2>3. pc \in [Watchers -> Steps] /\ fd \in [Watchers -> Inodes \cup {NoFile}]
      BY <2>1 DEF TypeInv, TypeOK
    <2>4. pc[w] = "open" /\ dir[0] # NoFile /\ fd' = [fd EXCEPT ![w] = dir[0]]
      BY <2>2 DEF Open
    <2>5. pc' = [pc EXCEPT ![w] = "read"]
      BY DEF Open, Goto
    <2>6. batch[w] = {}
      BY <2>1, <2>4 DEF CursorInv
    <2>7. UNCHANGED <<dir, gen, lastGen, requests, fileState, curFP, pos, batch,
                      errors, crashes, raced, again>>
      BY DEF Open, fsVars, dbVars
    <2>8. pc'[w] = "read" /\ fd'[w] = dir[0]
      BY <2>3, <2>4, <2>5
    <2>9. QED
      BY <2>2, <2>4, <2>6, <2>7, <2>8
  <1>2. \A l \in Lines : /\ InHand(w, l)' => InHand(w, l)
                         /\ ToCome(w, l)' => ToCome(w, l)
    BY <1>1 DEF InHand, ToCome, Holds, Chosen, Reading
  <1>3. CauseInv'
    BY <1>1, <1>2, LocalCauses DEF Chosen
  <1>4. QED
    BY <1>1, <1>3, LocalGens DEF CheckpointInv

LEMMA ReadCauses ==
    ASSUME WellBehaved, OneWatcher, OneLog, CheckpointInv, GenInv, CauseInv,
           NEW w \in Watchers, pc[w] = "read",
           NEW to \in Int, NEW step \in {"insert", "upsert"},
           batch'[w] = Ahead(w, to),
           pos'[w] = IF pos[w] < to THEN to ELSE pos[w],
           pc'[w] = step,
           UNCHANGED <<dir, gen, lastGen, requests, fileState, curFP, fd, errors, crashes, raced, again>>
    PROVE  GenInv' /\ CauseInv'
  <1>1. pos[w] \in Nat /\ fd[w] \in Inodes /\ batch[w] = {}
    <2>1. TypeInv /\ CursorInv(w)
      BY DEF CheckpointInv
    <2>2. pos[w] \in 0..MaxLen
      BY <2>1 DEF TypeInv, TypeOK
    <2>3. fd[w] \in Inodes
      BY <2>1 DEF TypeInv, Reading
    <2>4. batch[w] = {}
      BY <2>1 DEF CursorInv
    <2>5. QED
      BY <2>2, <2>3, <2>4, WatcherConstants
  <1>2. ASSUME NEW l \in batch'[w]
        PROVE  /\ l \in Lines /\ l[2] \in Int /\ l[1] = gen[fd[w]]
               /\ l[2] > pos[w] /\ l[2] <= pos'[w] /\ l[1] <= lastGen
    BY <1>1, <1>2 DEF Ahead, LinesIn, Lines, WellBehaved, GenInv
  <1>3. pos'[w] \in Int /\ pos[w] <= pos'[w]
    BY <1>1
  <1>4. ASSUME NEW l \in Lines
        PROVE  /\ InHand(w, l)' => InHand(w, l)
               /\ ToCome(w, l)' => ToCome(w, l)
    <2>1. l[2] \in Int /\ (l[2] > pos'[w] => l[2] > pos[w])
      BY <1>1, <1>3 DEF Lines
    <2>2. InHand(w, l)' => InHand(w, l)
      BY <1>2, <2>1 DEF InHand, Holds, Chosen, Reading
    <2>3. ToCome(w, l)' => ToCome(w, l)
      BY DEF ToCome, Holds, Chosen, Reading
    <2>4. QED
      BY <2>2, <2>3
  <1>5. CauseInv'
    BY <1>4, LocalCauses DEF Chosen, Reading
  <1>6. QED
    BY <1>2, <1>5, LocalGens DEF CheckpointInv

\* What is inserted was in hand, and is behind the cursor from then on.
LEMMA InsertCauses ==
    ASSUME OneWatcher, OneLog, CheckpointInv, GenInv, CauseInv, NEW w \in Watchers, Insert(w)
    PROVE  GenInv' /\ CauseInv'
  <1>1. /\ pc[w] = "insert" /\ pc'[w] \in {"read", "upsert"} /\ batch'[w] = {}
        /\ batch[w] \in SUBSET Lines /\ requests \in [Lines -> Nat] /\ pos[w] \in Nat
        /\ requests' = [l \in Lines |-> requests[l] + IF l \in batch[w] THEN 1 ELSE 0]
        /\ UNCHANGED <<dir, gen, lastGen, fileState, curFP, pos, fd, errors, crashes, raced, again>>
    BY WatcherConstants DEF CheckpointInv, TypeInv, TypeOK, Insert, Goto, fsVars
  <1>2. \A l \in Lines : Paid(l) \in Nat /\ Paid(l)' = Paid(l)
    BY <1>1, PaidType, PaidSame DEF CheckpointInv
  <1>3. ASSUME NEW l \in Lines PROVE Accounted(w, l)'
    <2>1. Accounted(w, l) /\ l[2] \in Int /\ requests[l] \in Nat
      BY <1>1 DEF CauseInv, Lines
    <2>2. ToCome(w, l)' => ToCome(w, l)
      BY <1>1 DEF ToCome, Holds, Chosen, Reading
    <2>3. CASE l \in batch[w]
      <3>1. InHand(w, l) /\ ~(l[2] > pos[w])
        BY <1>1, <2>1, <2>3 DEF InHand, Chosen, Reading, GenInv
      <3>2. ~InHand(w, l)'
        BY <1>1, <3>1 DEF InHand
      <3>3. requests'[l] = requests[l] + 1
        BY <1>1, <2>3
      <3>4. QED
        BY <1>1, <1>2, <2>1, <2>2, <3>1, <3>2, <3>3 DEF Accounted
    <2>4. CASE l \notin batch[w]
      <3>1. InHand(w, l)' => InHand(w, l)
        BY <1>1 DEF InHand, Holds, Chosen, Reading
      <3>2. requests'[l] = requests[l]
        BY <1>1, <2>1, <2>4
      <3>3. QED
        BY <1>1, <1>2, <2>1, <2>2, <3>1, <3>2 DEF Accounted
    <2>5. QED
      BY <2>3, <2>4
  <1>4. pc'[w] \in Chosen /\ ~Holds(0, curFP[w].head)' => Causes' > 0
    BY <1>1 DEF CauseInv, Causes, Holds, Chosen, Reading
  <1>5. CauseInv'
    BY <1>3, <1>4 DEF OneWatcher, CauseInv
  <1>6. GenInv'
    <2>1. \A l \in Lines : requests'[l] = requests[l] \/ l \in batch[w]
      BY <1>1
    <2>2. QED
      BY <1>1, <2>1, LocalGens DEF CheckpointInv
  <1>7. QED
    BY <1>5, <1>6

\* The row written covers what is behind the cursor and what the old row covered.
LEMMA WriteRowCauses ==
    ASSUME OneWatcher, OneLog, CheckpointInv, PlaceInv, GenInv, CauseInv, NEW w \in Watchers,
           pc[w] \in {"refresh", "upsert"}, WriteRow(w), Return(w),
           UNCHANGED <<dir, gen, lastGen, requests, errors, crashes, raced, again>>
    PROVE  GenInv' /\ CauseInv'
  <1>0. path[w] = 0 /\ 0 \in Paths
    BY DEF CheckpointInv, TypeInv, TypeOK, OneLog, Paths
  <1>1. /\ CursorFits(w) /\ CursorInv(w) /\ pc'[w] = "idle" /\ batch'[w] = {}
        /\ fileState' = [fileState EXCEPT ![0] =
             [inode |-> info[w].inode, size |-> info[w].size,
              offset |-> pos[w], fingerprint |-> curFP[w]]]
        /\ fileState \in [Paths -> FileStates \cup {NoRow}] /\ pos[w] \in Nat
        /\ lastGen \in Nat
    BY <1>0, WatcherConstants
       DEF CheckpointInv, PlaceInv, TypeInv, TypeOK, WriteRow, Return
  <1>2. /\ fileState'[0].offset = pos[w] /\ fileState'[0].fingerprint = curFP[w]
        /\ fileState'[0] # NoRow
    BY <1>0, <1>1, ShipperRow DEF CheckpointInv
  <1>3. ASSUME NEW l \in Lines, l[1] = curFP[w].head, Holds(0, curFP[w].head), l[2] <= pos[w]
        PROVE  Passed(l)'
    <2>1. pos[w] > 0
      BY <1>1, <1>3 DEF Lines
    <2>2. QED
      BY <1>2, <1>3, <2>1 DEF Passed, Keeps, Holds
  <1>4. ASSUME NEW l \in Lines, ToCome(w, l)' PROVE InHand(w, l) \/ ToCome(w, l)
    <2>1. (l[1] > lastGen \/ Holds(0, l[1])) /\ ~Passed(l)' /\ l[2] \in Int
      BY <1>1, <1>4 DEF ToCome, Holds, Chosen, Reading, Lines
    <2>2. CASE pc[w] = "upsert"
      <3>1. curFP[w].head \in 1..lastGen
        BY <1>1, <2>2 DEF CursorInv, Seen, Reading
      <3>2. CASE l[1] = curFP[w].head
        <4>1. Holds(0, curFP[w].head)
          BY <1>1, <2>1, <3>1, <3>2
        <4>2. l[2] > pos[w]
          BY <1>1, <1>3, <2>1, <3>2, <4>1
        <4>3. QED
          BY <2>2, <3>2, <4>2 DEF InHand, Chosen, Reading
      <3>3. CASE l[1] # curFP[w].head
        BY <2>1, <2>2, <3>3 DEF ToCome, Chosen, Reading
      <3>4. QED
        BY <3>2, <3>3
    <2>3. CASE pc[w] = "refresh"
      <3>1. ASSUME Passed(l) PROVE FALSE
        <4>1. /\ Keeps(fileState[0]) /\ Holds(0, fileState[0].fingerprint.head)
              /\ l[1] = fileState[0].fingerprint.head /\ l[2] <= fileState[0].offset
          BY <3>1 DEF Passed
        <4>2. curFP[w] = fileState[0].fingerprint /\ fileState[0].offset <= pos[w]
          BY <1>0, <1>1, <2>3, <4>1 DEF CursorFits, After
        <4>3. fileState[0].offset \in Nat
          BY <1>0, <4>1, KeptRow
        <4>4. QED
          BY <1>1, <1>3, <2>1, <4>1, <4>2, <4>3
      <3>2. QED
        BY <2>1, <2>3, <3>1 DEF ToCome, Chosen, Reading
    <2>4. QED
      BY <2>2, <2>3
  <1>5. \A l \in Lines : ~InHand(w, l)'
    BY <1>1 DEF InHand, Chosen, Reading
  <1>6. CauseInv'
    BY <1>1, <1>4, <1>5, LocalCauses DEF Chosen, Reading
  <1>7. QED
    BY <1>1, <1>6, LocalGens DEF CheckpointInv

\* A failed call, a crash or a second reading left to do is a cause of its own.
LEMMA FaultCauses ==
    ASSUME CauseInv, NEW w \in Watchers, NEW l \in Lines,
           pc'[w] = "idle", requests'[l] = requests[l], requests[l] \in Nat,
           Paid(l) \in Nat, Paid(l)' \in Nat, Paid(l)' > Paid(l)
    PROVE  Accounted(w, l)'
  <1>1. requests[l] <= 1 + Paid(l)
    BY DEF CauseInv, Accounted
  <1>2. ~InHand(w, l)'
    BY DEF InHand, Chosen, Reading
  <1>3. requests'[l] <= Paid(l)' /\ requests'[l] <= 1 + Paid(l)'
    BY <1>1
  <1>4. QED
    BY <1>2, <1>3 DEF Accounted

\* A failed call and a crash count for every line.
LEMMA FaultPaid ==
    ASSUME TypeInv, UNCHANGED <<raced, again>>,
           \/ errors' = errors + 1 /\ crashes' = crashes
           \/ errors' = errors /\ crashes' = crashes + 1
    PROVE  \A l \in Lines : Paid(l) \in Nat /\ Paid(l)' \in Nat /\ Paid(l)' > Paid(l)
  <1> SUFFICES ASSUME NEW l \in Lines
               PROVE  Paid(l) \in Nat /\ Paid(l)' \in Nat /\ Paid(l)' > Paid(l)
    OBVIOUS
  <1>1. again[l[1]] \in Nat
    BY DEF TypeInv, TypeOK, Lines
  <1>2. QED
    BY <1>1, CausesType DEF Paid, Causes

\* What a scan that ended at an oversized line leaves to be read again.
LEMMA TooLongCauses ==
    ASSUME OneWatcher, OneLog, CheckpointInv, PlaceInv, GenInv, CauseInv,
           NEW w \in Watchers, ReadTooLong(w)
    PROVE  GenInv' /\ CauseInv'
  <1>1. TypeInv /\ CursorInv(w) /\ CursorFits(w)
    BY DEF CheckpointInv, PlaceInv
  <1>2. /\ path[w] = 0 /\ 0 \in Paths /\ pc[w] = "read" /\ batch[w] = {} /\ pos[w] \in Nat
        /\ fd[w] \in Inodes /\ curFP[w].n > 0 /\ prev[w] = fileState[0]
        /\ fileState[0] \in FileStates \cup {NoRow} /\ lastGen \in Nat
    <2>1. path[w] = 0 /\ 0 \in Paths
      BY <1>1, IdleType DEF TypeInv, TypeOK, OneLog, Paths
    <2>2. pc[w] = "read" /\ pos[w] \in Nat /\ lastGen \in Nat
      BY <1>1, WatcherConstants DEF ReadTooLong, TypeInv, TypeOK
    <2>3. fd[w] \in Inodes /\ curFP[w].n > 0 /\ batch[w] = {}
      BY <1>1, <2>2 DEF TypeInv, CursorInv, Reading
    <2>4. prev[w] = fileState[0] /\ fileState[0] \in FileStates \cup {NoRow}
      BY <1>1, <2>1, <2>2 DEF CursorFits, TypeInv, TypeOK
    <2>5. QED
      BY <2>1, <2>2, <2>3, <2>4
  <1>3. /\ pc'[w] = "idle" /\ batch'[w] = {}
        /\ UNCHANGED <<dir, gen, lastGen, requests, fileState, errors, crashes, raced>>
        /\ Again(gen[fd[w]]) \/ UNCHANGED again
    BY <1>1 DEF ReadTooLong, Return, TypeInv, TypeOK, fsVars, dbVars
  <1>4. ASSUME NEW l \in Lines
        PROVE  Paid(l) \in Nat /\ Paid(l)' \in Nat /\ Paid(l) <= Paid(l)'
    <2>1. l[1] \in Gens /\ again[l[1]] \in Nat
      BY <1>1 DEF TypeInv, TypeOK, Lines
    <2>2. again'[l[1]] \in Nat /\ again[l[1]] <= again'[l[1]]
      BY <1>1, <1>3, <2>1, AgainType
    <2>3. QED
      BY <1>1, <1>3, <2>1, <2>2, CausesType DEF Paid, Causes
  <1>5. ASSUME NEW l \in Lines, l[1] = curFP[w].head, Holds(0, l[1]), pos[w] > Start(w)
        PROVE  Paid(l)' > Paid(l)
    <2>1. gen[fd[w]] = l[1] /\ l[1] \in Gens /\ again[l[1]] \in Nat
      BY <1>1, <1>2, <1>5 DEF CursorInv, Reading, Holds, TypeInv, TypeOK, Lines
    <2>2. again' = [again EXCEPT ![l[1]] = @ + 1]
      BY <1>5, <2>1 DEF ReadTooLong, Again
    <2>3. again'[l[1]] = again[l[1]] + 1
      BY <1>1, <2>1, <2>2 DEF TypeInv, TypeOK
    <2>4. QED
      BY <1>1, <1>3, <2>1, <2>3, CausesType DEF Paid, Causes
  <1>6. ASSUME NEW l \in Lines, l[1] = curFP[w].head, Holds(0, l[1]),
               ~(pos[w] > Start(w)), l[2] <= pos[w]
        PROVE  Passed(l)
    <2> DEFINE row == fileState[0]
    <2>1. l[2] \in Nat /\ l[2] > 0
      BY DEF Lines
    <2>2. Start(w) # 0
      BY <1>2, <1>6, <2>1
    <2>3. /\ row # NoRow /\ Start(w) = row.offset
          /\ ~(row.fingerprint.n > 0 /\ curFP[w] # row.fingerprint)
      BY <1>2, <2>2 DEF Start, ResumeOffset
    <2>4. row.offset \in Nat
      BY <1>2, <2>3, WatcherConstants DEF FileStates
    <2>5. l[2] <= row.offset /\ row.offset > 0
      BY <1>2, <1>6, <2>1, <2>3, <2>4
    <2>6. Keeps(row)
      BY <2>3, <2>5 DEF Keeps
    <2>7. curFP[w] = row.fingerprint
      BY <1>2, <2>3, <2>6, KeptRow
    <2>8. QED
      BY <1>6, <2>5, <2>6, <2>7 DEF Passed
  <1>7. ASSUME NEW l \in Lines PROVE Accounted(w, l)'
    <2>1. Accounted(w, l) /\ requests[l] \in Nat /\ l[2] \in Nat /\ requests'[l] = requests[l]
      BY <1>1, <1>3 DEF CauseInv, TypeInv, TypeOK, Lines
    <2>2. ~InHand(w, l)'
      BY <1>3 DEF InHand, Chosen, Reading
    <2>3. CASE Paid(l)' > Paid(l)
      BY <1>3, <1>4, <2>1, <2>3, FaultCauses
    <2>4. CASE ~(Paid(l)' > Paid(l))
      <3>1. ASSUME ToCome(w, l)' PROVE InHand(w, l) \/ ToCome(w, l)
        <4>1. (l[1] > lastGen \/ Holds(0, l[1])) /\ ~Passed(l)
          BY <1>3, <3>1 DEF ToCome, Passed, Keeps, Holds, Chosen, Reading
        <4>2. CASE l[1] # curFP[w].head
          BY <1>2, <4>1, <4>2 DEF ToCome, Chosen, Reading
        <4>3. CASE l[1] = curFP[w].head
          <5>1. curFP[w].head \in 1..lastGen
            BY <1>1, <1>2 DEF CursorInv, Seen
          <5>2. Holds(0, l[1])
            BY <1>2, <4>1, <4>3, <5>1
          <5>3. l[2] > pos[w]
            BY <1>2, <1>5, <1>6, <2>1, <2>4, <4>1, <4>3, <5>2
          <5>4. QED
            BY <1>2, <4>3, <5>3 DEF InHand, Chosen, Reading
        <4>4. QED
          BY <4>2, <4>3
      <3>2. QED
        BY <1>4, <2>1, <2>2, <3>1 DEF Accounted
    <2>5. QED
      BY <2>3, <2>4
  <1>8. CauseInv'
    BY <1>3, <1>7 DEF OneWatcher, CauseInv, Chosen, Reading
  <1>9. QED
    BY <1>1, <1>3, <1>8, LocalGens

LEMMA WatchCauses ==
    ASSUME WellBehaved, OneWatcher, OneLog, CheckpointInv, PlaceInv, CheckpointInv', PlaceInv', GenInv, CauseInv,
           NEW w \in Watchers, Watch(w) \/ Cancel(w) \/ Fail(w)
    PROVE  GenInv' /\ CauseInv'
  <1>0. TypeInv /\ CursorInv(w) /\ UNCHANGED <<dir, gen, len, lastGen>>
    BY WatchStep DEF CheckpointInv, StepOf
  <1>1. ASSUME Return(w) PROVE pc'[w] = "idle" /\ batch'[w] = {}
    BY <1>0, <1>1 DEF Return, TypeInv, TypeOK
  <1>2. ASSUME Scan(w) \/ Cancel(w) PROVE GenInv' /\ CauseInv'
    BY <1>0, <1>2, QuietCauses DEF Scan, Cancel, dbVars, locals, CursorInv, Chosen, Reading
  <1>3. ASSUME NEW p \in Paths, Stat(w, p) PROVE GenInv' /\ CauseInv'
    <2>1. /\ pc[w] = "idle" /\ pc'[w] \in {"idle", "state"} /\ batch'[w] = {}
          /\ UNCHANGED <<requests, fileState, errors, crashes, raced, again>>
      BY <1>0, <1>3 DEF Stat, Goto, dbVars, CursorInv, TypeInv, TypeOK
    <2>2. QED
      BY <1>0, <2>1, QuietCauses DEF Chosen, Reading
  <1>4. CASE GetFileState(w)
    <2>1. /\ pc[w] = "state" /\ pc'[w] = "head" /\ batch'[w] = {}
          /\ UNCHANGED <<requests, fileState, errors, crashes, raced, again>>
      BY <1>0, <1>4 DEF GetFileState, Goto, dbVars, CursorInv, TypeInv, TypeOK
    <2>2. QED
      BY <1>0, <2>1, QuietCauses DEF Chosen, Reading
  <1>5. CASE ReadHead(w)
    BY <1>5, ReadHeadCauses
  <1>6. CASE Vanished(w)
    BY <1>6, VanishedCauses
  <1>7. CASE Unchanged(w)
    BY <1>0, <1>1, <1>7, QuietCauses DEF Unchanged, dbVars, Chosen, Reading
  <1>8. ASSUME Refresh(w) \/ Upsert(w) PROVE GenInv' /\ CauseInv'
    BY <1>0, <1>8, WriteRowCauses DEF Refresh, Upsert
  <1>9. CASE Open(w)
    BY <1>9, OpenCauses
  <1>10. CASE ReadBatch(w)
    <2>1. PICK to \in (pos[w] + 1)..len[fd[w]] :
             /\ batch' = [batch EXCEPT ![w] = Ahead(w, to)]
             /\ pos' = [pos EXCEPT ![w] = to]
      BY <1>10 DEF ReadBatch
    <2>2. /\ batch'[w] = Ahead(w, to) /\ pos'[w] = to
          /\ pc[w] = "read" /\ pc'[w] = "insert"
          /\ UNCHANGED <<requests, fileState, curFP, fd, errors, crashes, raced, again>>
          /\ pos[w] \in 0..MaxLen /\ len[fd[w]] \in 0..MaxLen
      BY <1>0, <1>10, <2>1 DEF ReadBatch, Goto, dbVars, TypeInv, TypeOK, Reading
    <2>3. QED
      BY <1>0, <2>1, <2>2, ReadCauses
  <1>11. CASE ReadEOF(w)
    <2> DEFINE to == len[fd[w]]
    <2>1. /\ batch'[w] = Ahead(w, to)
          /\ pos'[w] = IF pos[w] < to THEN to ELSE pos[w]
          /\ pc[w] = "read"
          /\ pc'[w] = IF Ahead(w, to) = {} THEN "upsert" ELSE "insert"
          /\ UNCHANGED <<requests, fileState, curFP, fd, errors, crashes, raced, again>>
          /\ to \in Int
      BY <1>0, <1>11 DEF ReadEOF, Goto, dbVars, TypeInv, TypeOK, Reading
    <2> HIDE DEF to
    <2>2. CASE Ahead(w, to) = {}
      BY <1>0, <2>1, <2>2, ReadCauses
    <2>3. CASE Ahead(w, to) # {}
      BY <1>0, <2>1, <2>3, ReadCauses
    <2>4. QED
      BY <2>2, <2>3
  <1>12. CASE ReadTooLong(w)
    BY <1>12, TooLongCauses
  <1>13. CASE Insert(w)
    BY <1>13, InsertCauses
  <1>14. CASE Fail(w)
    <2>1. /\ pc'[w] = "idle" /\ batch'[w] = {} /\ errors' = errors + 1
          /\ UNCHANGED <<requests, crashes, raced, again>>
      BY <1>1, <1>14 DEF Fail, dbVars
    <2>2. CauseInv'
      <3>1. \A l \in Lines : Accounted(w, l)'
        BY <1>0, <2>1, FaultPaid, FaultCauses DEF TypeInv, TypeOK
      <3>2. QED
        BY <2>1, <3>1 DEF OneWatcher, CauseInv, Chosen, Reading
    <2>3. QED
      BY <1>0, <2>1, <2>2, LocalGens
  <1>15. QED
    BY <1>2, <1>3, <1>4, <1>5, <1>6, <1>7, <1>8, <1>9, <1>10, <1>11, <1>12, <1>13,
       <1>14 DEF Watch

LEMMA NextCauses ==
    ASSUME WellBehaved, OneWatcher, OneLog, CheckpointInv, PlaceInv, CheckpointInv', PlaceInv', GenInv, CauseInv, [Next]_vars
    PROVE  GenInv' /\ CauseInv'
  <1>1. CASE Environment
    BY <1>1, EnvironmentGens, EnvironmentCauses DEF CheckpointInv
  <1>2. CASE Crash
    <2>1. /\ UNCHANGED <<gen, lastGen, requests, errors, raced, again>>
          /\ crashes' = crashes + 1
          /\ \A w \in Watchers : pc'[w] = "idle" /\ batch'[w] = {}
      BY <1>2 DEF Crash, fsVars, dbVars
    <2>2. CauseInv'
      <3>1. \A w \in Watchers : \A l \in Lines : Accounted(w, l)'
        BY <2>1, FaultPaid, FaultCauses DEF CheckpointInv, TypeInv, TypeOK
      <3>2. QED
        BY <2>1, <3>1 DEF CauseInv, Chosen, Reading
    <2>3. GenInv'
      BY <2>1 DEF GenInv
    <2>4. QED
      BY <2>2, <2>3
  <1>3. CASE UNCHANGED vars
    BY <1>3 DEF vars, fsVars, dbVars, locals, GenInv, CauseInv, Accounted, InHand, ToCome,
                Passed, Keeps, Holds, Paid, Causes
  <1>4. QED
    BY <1>1, <1>2, <1>3, WatchCauses DEF Next

LEMMA InitCauses == Init => GenInv /\ CauseInv
  <1> SUFFICES ASSUME Init PROVE GenInv /\ CauseInv
    OBVIOUS
  <1>1. GenInv
    BY DEF Init, GenInv
  <1>2. ASSUME NEW w \in Watchers, NEW l \in Lines
        PROVE  Accounted(w, l) /\ pc[w] \notin Chosen
    <2>1. pc[w] = "idle" /\ requests[l] = 0 /\ Paid(l) = 0
      BY DEF Init, Paid, Causes, Lines
    <2>2. pc[w] \notin Chosen
      BY <2>1 DEF Chosen, Reading
    <2>3. ~InHand(w, l)
      BY <2>2 DEF InHand
    <2>4. QED
      BY <2>1, <2>2, <2>3 DEF Accounted
  <1>3. \A w \in Watchers : pc[w] \notin Chosen
    BY DEF Init, Chosen, Reading
  <1>4. QED
    BY <1>1, <1>2, <1>3 DEF CauseInv

\* With one source on the live log, a line is inserted a second time only by a
\* crash, a failed call, a file replaced while handleFile was at it, a scan ended
\* by an oversized line after batches, or a recorded head that was short and has
\* grown, and each accounts for one copy at most; for any number of generations,
\* lines and batches, any oversized lines and heads of any length.
THEOREM CopiesHaveACause ==
    ASSUME WellBehaved, OneWatcher, OneLog, Watchers # {}
    PROVE  Spec => []DuplicatesHaveACause
  <1>1. /\ CheckpointInv /\ PlaceInv /\ (CheckpointInv /\ PlaceInv)'
        /\ GenInv /\ CauseInv /\ [Next]_vars
        => (GenInv /\ CauseInv)'
    BY NextCauses
  <1>2. CheckpointInv /\ CauseInv => DuplicatesHaveACause
    <2> SUFFICES ASSUME CheckpointInv, CauseInv, NEW l \in Lines
                 PROVE  requests[l] <= 1 + errors + crashes + raced + again[l[1]]
      BY DEF DuplicatesHaveACause
    <2>1. requests[l] <= 1 + Paid(l)
      BY DEF CauseInv, Accounted
    <2>2. errors \in Nat /\ crashes \in Nat /\ raced \in Nat /\ again[l[1]] \in Nat
      BY CausesType DEF CheckpointInv, TypeInv, TypeOK, Lines
    <2>3. QED
      BY <2>1, <2>2 DEF Paid, Causes
  <1>3. QED
    BY <1>1, <1>2, InitCauses, PlaceKept, PTL DEF Spec
=============================================================================
