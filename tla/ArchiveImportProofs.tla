------------------------ MODULE ArchiveImportProofs ------------------------
(***************************************************************************)
(* Proofs about ArchiveImport, for any number of sources, commands, names  *)
(* and archives.                                                           *)
(***************************************************************************)
EXTENDS ArchiveImport, FiniteSetTheorems, TLAPS

-----------------------------------------------------------------------------
(* Type correctness.                                                       *)

Steps == {"off", "list", "idle", "state", "open", "read", "upsert"}

\* TypeOK is not inductive: what is written to the table and to the row is what
\* a reader has open and what it found out about it.
JobTypes(w) ==
    /\ pc[w] = "read" => job[w].fd \in Archives
    /\ pc[w] \in {"state", "open", "upsert"} =>
          /\ w \in DirSources /\ job[w].path \in Paths /\ job[w].info \in Stats
    /\ pc[w] = "read" /\ w \in DirSources => job[w].path \in Paths /\ job[w].info \in Stats
    /\ pc[w] \in {"off", "list", "idle"} => job[w] = NoJob

TypeInv == TypeOK /\ \A w \in Readers : JobTypes(w)

LEMMA BumpType ==
    ASSUME NEW most \in Nat, NEW n \in 0..most
    PROVE  Bump(n, most) \in 0..most /\ Bump(n, most) >= n
  BY DEF Bump

LEMMA ExcuseType ==
    ASSUME TypeOK, NEW S, Excuse(S)
    PROVE  excuses' \in [Archives -> 0..(MaxCount - 1)]
  <1>1. MaxCount - 1 \in Nat
    BY ArchiveConstants
  <1>2. \A a \in Archives : Bump(excuses[a], MaxCount - 1) \in 0..(MaxCount - 1)
    BY <1>1, BumpType DEF TypeOK
  <1>3. QED
    BY <1>2 DEF Excuse, TypeOK

LEMMA ExcuseTwiceType ==
    ASSUME TypeOK, NEW S, ExcuseTwice(S)
    PROVE  excuses' \in [Archives -> 0..(MaxCount - 1)]
  <1>1. MaxCount - 1 \in Nat
    BY ArchiveConstants
  <1>2. \A a \in Archives : Bump(excuses[a], MaxCount - 1) \in 0..(MaxCount - 1)
    BY <1>1, BumpType DEF TypeOK
  <1>3. \A a \in Archives : Bump(Bump(excuses[a], MaxCount - 1), MaxCount - 1) \in 0..(MaxCount - 1)
    BY <1>1, <1>2, BumpType
  <1>4. QED
    BY <1>3 DEF ExcuseTwice, TypeOK

LEMMA StatType ==
    ASSUME TypeOK, NEW a \in Archives
    PROVE  Stat(a) \in Stats
  BY ArchiveConstants DEF TypeOK, Stat, Size, Stats

LEMMA InsertLinesType ==
    ASSUME TypeOK, NEW a, NEW from, NEW to, InsertLines(a, from, to)
    PROVE  /\ requests' \in [Lines -> 0..MaxCount]
           /\ \A l \in Lines : requests'[l] >= requests[l]
  <1>1. \A l \in Lines : Bump(requests[l], MaxCount) \in 0..MaxCount
                         /\ Bump(requests[l], MaxCount) >= requests[l]
    BY ArchiveConstants, BumpType DEF TypeOK
  <1>2. \A l \in Lines : requests[l] \in 0..MaxCount /\ requests[l] >= requests[l]
    BY ArchiveConstants DEF TypeOK
  <1>3. QED
    BY <1>1, <1>2 DEF InsertLines

\* What handleFile and importGzip leave behind.
LEMMA ReturnType ==
    ASSUME TypeInv, NEW w \in Readers, Return(w)
    PROVE  /\ pc' \in [Readers -> Steps] /\ job' \in [Readers -> Jobs]
           /\ \A v \in Readers : JobTypes(v)'
  <1>1. NoJob \in Jobs
    BY ArchiveConstants DEF NoJob, Jobs
  <1>2. pc' \in [Readers -> Steps] /\ pc'[w] \in {"off", "idle"}
    BY DEF Return, TypeInv, TypeOK, Steps
  <1>3. job' \in [Readers -> Jobs] /\ job'[w] = NoJob
    BY <1>1 DEF Return, TypeInv, TypeOK
  <1>4. \A v \in Readers \ {w} : pc'[v] = pc[v] /\ job'[v] = job[v]
    BY DEF Return, TypeInv, TypeOK
  <1>5. QED
    BY <1>2, <1>3, <1>4 DEF TypeInv, JobTypes

\* What opening an archive leaves behind.
LEMMA OpenedType ==
    ASSUME TypeInv, NEW w \in Readers, NEW p \in Paths, Readable(p), Opened(w, p),
           w \in DirSources => job[w].info \in Stats
    PROVE  /\ pc' \in [Readers -> Steps] /\ job' \in [Readers -> Jobs]
           /\ \A v \in Readers : JobTypes(v)'
  <1> DEFINE opened == [path |-> p, info |-> job[w].info, fd |-> dir[p], pos |-> 0]
  <1>1. dir[p] \in Archives /\ job[w] \in Jobs
    BY DEF Readable, TypeInv, TypeOK
  <1>2. opened \in Jobs /\ opened.fd \in Archives /\ opened.path = p /\ opened.info = job[w].info
    BY <1>1, ArchiveConstants DEF Jobs
  <1>3. pc' = [pc EXCEPT ![w] = "read"] /\ job' = [job EXCEPT ![w] = opened]
    BY DEF Opened
  <1> HIDE DEF opened
  <1>4. pc' \in [Readers -> Steps] /\ job' \in [Readers -> Jobs]
    BY <1>2, <1>3 DEF TypeInv, TypeOK, Steps
  <1>5. pc'[w] = "read" /\ job'[w] = opened
    BY <1>3 DEF TypeInv, TypeOK
  <1>6. \A v \in Readers \ {w} : pc'[v] = pc[v] /\ job'[v] = job[v]
    BY <1>3 DEF TypeInv, TypeOK
  <1>7. QED
    BY <1>2, <1>4, <1>5, <1>6 DEF TypeInv, JobTypes

\* logrotate's steps.
LEMMA LogrotateType == TypeInv /\ Logrotate => TypeInv'
  <1> SUFFICES ASSUME TypeInv, Logrotate PROVE TypeInv'
    OBVIOUS
  <1>0. ASSUME UNCHANGED <<dbVars, pc, todo, job, control>>,
               dir' \in [Paths -> Archives \cup {NoFile}], made' \in 0..MaxArchives,
               blocks' \in [Archives -> 0..MaxLines], ended' \in [Archives -> BOOLEAN],
               NEW S, Excuse(S) \/ ExcuseTwice(S)
        PROVE  TypeInv'
    <2>1. excuses' \in [Archives -> 0..(MaxCount - 1)]
      BY <1>0, ExcuseType, ExcuseTwiceType DEF TypeInv
    <2>2. QED
      BY <1>0, <2>1 DEF TypeInv, TypeOK, JobTypes, dbVars, control
  <1>1. CASE Create
    <2>1. made + 1 \in Archives
      BY <1>1, ArchiveConstants DEF Create, TypeInv, TypeOK, Archives
    <2>2. dir' = [dir EXCEPT ![1] = made + 1] /\ made' = made + 1
      BY <1>1 DEF Create
    <2>3. dir' \in [Paths -> Archives \cup {NoFile}]
      BY <2>1, <2>2 DEF TypeInv, TypeOK
    <2>4. made' \in 0..MaxArchives
      BY <2>1, <2>2, ArchiveConstants DEF Archives
    <2>5. PICK S : Excuse(S)
      BY <1>1 DEF Create
    <2>6. UNCHANGED <<blocks, ended, dbVars, pc, todo, job, control>>
      BY <1>1 DEF Create
    <2>7. QED
      BY <1>0, <2>3, <2>4, <2>5, <2>6 DEF TypeInv, TypeOK
  <1>2. ASSUME NEW a \in Archives, Grow(a) PROVE TypeInv'
    <2>1. blocks' = [blocks EXCEPT ![a] = @ + 1] /\ blocks[a] < MaxLines
      BY <1>2 DEF Grow
    <2>2. blocks' \in [Archives -> 0..MaxLines]
      BY <2>1, ArchiveConstants DEF TypeInv, TypeOK
    <2>3. PICK S : Excuse(S)
      BY <1>2 DEF Grow, Grown
    <2>4. UNCHANGED <<dir, made, ended, dbVars, pc, todo, job, control>>
      BY <1>2 DEF Grow
    <2>5. QED
      BY <1>0, <2>2, <2>3, <2>4 DEF TypeInv, TypeOK
  <1>3. ASSUME NEW a \in Archives, Finish(a) PROVE TypeInv'
    <2>1. ended' = [ended EXCEPT ![a] = TRUE]
      BY <1>3 DEF Finish
    <2>2. ended' \in [Archives -> BOOLEAN]
      BY <2>1 DEF TypeInv, TypeOK
    <2>3. PICK S : Excuse(S)
      BY <1>3 DEF Finish, Grown
    <2>4. UNCHANGED <<dir, made, blocks, dbVars, pc, todo, job, control>>
      BY <1>3 DEF Finish
    <2>5. QED
      BY <1>0, <2>2, <2>3, <2>4 DEF TypeInv, TypeOK
  <1>4. ASSUME NEW p \in Paths, Rotate(p) PROVE TypeInv'
    <2>1. dir' \in [Paths -> Archives \cup {NoFile}]
      BY <1>4 DEF Rotate, TypeInv, TypeOK
    <2>2. /\ Excuse({dir[p]}) \/ ExcuseTwice({dir[p]})
          /\ UNCHANGED <<made, blocks, ended, dbVars, pc, todo, job, control>>
      BY <1>4 DEF Rotate
    <2>3. QED
      BY <1>0, <2>1, <2>2 DEF TypeInv, TypeOK
  <1>5. QED
    BY <1>1, <1>2, <1>3, <1>4 DEF Logrotate

\* A reader's steps.
LEMMA ReaderType ==
    ASSUME TypeInv, NEW w \in Readers,
           \/ Run(w) \/ Start(w) \/ Cancel(w) \/ Exit(w) \/ Fail(w)
           \/ \E p \in Paths : Import(w, p)
    PROVE  TypeInv'
  <1> USE ArchiveConstants
  \* A step that keeps to the types where it is, and changes no control.
  <1>1. ASSUME UNCHANGED <<fsVars, control>>,
               pc' \in [Readers -> Steps], job' \in [Readers -> Jobs],
               \A v \in Readers : JobTypes(v)',
               requests' \in [Lines -> 0..MaxCount], row' \in [Paths -> Stats \cup {NoRow}],
               todo' \in [Readers -> SUBSET Paths],
               excuses' \in [Archives -> 0..(MaxCount - 1)]
        PROVE  TypeInv'
    BY <1>1 DEF TypeInv, TypeOK, fsVars, control, Steps
  <1>2. CASE Scan(w) \/ SkipAll(w)
    <2>1. todo' \in [Readers -> SUBSET Paths]
      BY <1>2 DEF Scan, SkipAll, TypeInv, TypeOK
    <2>2. UNCHANGED <<fsVars, dbVars, pc, job, control, excuses>>
      BY <1>2 DEF Scan, SkipAll
    <2>3. QED
      BY <1>1, <2>1, <2>2 DEF TypeInv, TypeOK, dbVars, JobTypes, Steps
  <1>3. ASSUME NEW p \in Paths, Visit(w, p) PROVE TypeInv'
    <2>1. todo' \in [Readers -> SUBSET Paths]
      BY <1>3 DEF Visit, TypeInv, TypeOK
    <2>2. w \in DirSources /\ pc[w] = "idle" /\ UNCHANGED <<fsVars, dbVars, control, excuses>>
      BY <1>3 DEF Visit
    <2>3. CASE dir[p] = NoFile
      <3>1. UNCHANGED <<pc, job>>
        BY <1>3, <2>3 DEF Visit
      <3>2. QED
        BY <1>1, <2>1, <2>2, <3>1 DEF TypeInv, TypeOK, dbVars, JobTypes, Steps
    <2>4. CASE dir[p] # NoFile
      <3> DEFINE found == [NoJob EXCEPT !.path = p, !.info = Stat(dir[p])]
      <3>1. Stat(dir[p]) \in Stats
        BY <2>4, StatType DEF TypeInv, TypeOK
      <3>2. found \in Jobs /\ found.path = p /\ found.info \in Stats
        <4>1. NoJob \in Jobs
          BY DEF NoJob, Jobs
        <4>2. QED
          BY <3>1, <4>1 DEF Jobs
      <3>3. pc' = [pc EXCEPT ![w] = "state"] /\ job' = [job EXCEPT ![w] = found]
        BY <1>3, <2>4 DEF Visit
      <3> HIDE DEF found
      <3>4. pc' \in [Readers -> Steps] /\ job' \in [Readers -> Jobs]
        BY <3>2, <3>3 DEF TypeInv, TypeOK, Steps
      <3>5. pc'[w] = "state" /\ job'[w] = found
        BY <3>3 DEF TypeInv, TypeOK
      <3>6. \A v \in Readers \ {w} : pc'[v] = pc[v] /\ job'[v] = job[v]
        BY <3>3 DEF TypeInv, TypeOK
      <3>7. \A v \in Readers : JobTypes(v)'
        BY <2>2, <3>2, <3>5, <3>6 DEF TypeInv, JobTypes
      <3>8. QED
        BY <1>1, <2>1, <2>2, <3>4, <3>7 DEF TypeInv, TypeOK, dbVars
    <2>5. QED
      BY <2>3, <2>4
  <1>4. CASE GetFileState(w)
    <2>1. UNCHANGED <<fsVars, dbVars, todo, control, excuses>> /\ pc[w] = "state"
      BY <1>4 DEF GetFileState
    <2>2. CASE Return(w)
      BY <1>1, <2>1, <2>2, ReturnType DEF TypeInv, TypeOK, dbVars
    <2>3. CASE pc' = [pc EXCEPT ![w] = "open"] /\ UNCHANGED job
      <3>1. pc' \in [Readers -> Steps] /\ job' \in [Readers -> Jobs]
        BY <2>3 DEF TypeInv, TypeOK, Steps
      <3>2. \A v \in Readers : JobTypes(v)'
        BY <2>1, <2>3 DEF TypeInv, TypeOK, JobTypes
      <3>3. QED
        BY <1>1, <2>1, <3>1, <3>2 DEF TypeInv, TypeOK, dbVars
    <2>4. QED
      BY <1>4, <2>2, <2>3 DEF GetFileState
  <1>5. CASE Open(w)
    <2>1. /\ UNCHANGED <<fsVars, dbVars, todo, cancelled, starts, errors, excuses>>
          /\ w \in DirSources /\ job[w].path \in Paths /\ job[w].info \in Stats
      BY <1>5 DEF Open, TypeInv, JobTypes
    <2>2. late' \in [DirSources -> Nat]
      BY <1>5, <2>1 DEF Open, TypeInv, TypeOK
    <2>3. /\ pc' \in [Readers -> Steps] /\ job' \in [Readers -> Jobs]
          /\ \A v \in Readers : JobTypes(v)'
      BY <1>5, <2>1, OpenedType, ReturnType DEF Open
    <2>4. QED
      BY <2>1, <2>2, <2>3 DEF TypeInv, TypeOK, fsVars, dbVars, Steps
  <1>6. CASE Upsert(w)
    <2>1. /\ UNCHANGED <<fsVars, requests, todo, control, excuses>>
          /\ row' = [row EXCEPT ![job[w].path] = job[w].info] /\ Return(w)
          /\ job[w].info \in Stats
      BY <1>6 DEF Upsert, TypeInv, JobTypes
    <2>2. row' \in [Paths -> Stats \cup {NoRow}]
      BY <2>1 DEF TypeInv, TypeOK
    <2>3. QED
      BY <1>1, <2>1, <2>2, ReturnType DEF TypeInv, TypeOK
  <1>7. CASE ListSiblings(w)
    <2>1. /\ UNCHANGED <<fsVars, dbVars, job, control, excuses>>
          /\ pc[w] = "list" /\ pc' = [pc EXCEPT ![w] = "idle"]
      BY <1>7 DEF ListSiblings
    <2>2. todo' \in [Readers -> SUBSET Paths]
      BY <1>7 DEF ListSiblings, TypeInv, TypeOK
    <2>3. pc' \in [Readers -> Steps] /\ \A v \in Readers : JobTypes(v)'
      BY <2>1 DEF TypeInv, TypeOK, JobTypes, Steps
    <2>4. QED
      BY <1>1, <2>1, <2>2, <2>3 DEF TypeInv, TypeOK, dbVars
  <1>8. ASSUME NEW p \in Paths, OpenSibling(w, p) PROVE TypeInv'
    <2>1. todo' \in [Readers -> SUBSET Paths]
      BY <1>8 DEF OpenSibling, TypeInv, TypeOK
    <2>2. /\ UNCHANGED <<fsVars, dbVars, control>>
          /\ w \notin DirSources
      BY <1>8 DEF OpenSibling
    <2>3. CASE Readable(p)
      <3>1. Opened(w, p) /\ Excuse({dir[p]})
        BY <1>8, <2>3 DEF OpenSibling
      <3>2. excuses' \in [Archives -> 0..(MaxCount - 1)]
        BY <3>1, ExcuseType DEF TypeInv
      <3>3. QED
        BY <1>1, <2>1, <2>2, <2>3, <3>1, <3>2, OpenedType DEF TypeInv, TypeOK, dbVars
    <2>4. CASE ~Readable(p)
      <3>1. UNCHANGED <<pc, job, excuses>>
        BY <1>8, <2>4 DEF OpenSibling
      <3>2. QED
        BY <1>1, <2>1, <2>2, <3>1 DEF TypeInv, TypeOK, dbVars, JobTypes, Steps
    <2>5. QED
      BY <2>3, <2>4
  <1>9. CASE ReadBatch(w)
    <2> DEFINE read == [job[w] EXCEPT !.pos = job[w].pos + BatchSize]
    <2>1. /\ pc[w] = "read" /\ job[w].fd \in Archives /\ job[w] \in Jobs
          /\ job[w].pos + BatchSize <= blocks[job[w].fd]
          /\ UNCHANGED <<fsVars, row, pc, todo, control, excuses>>
      BY <1>9 DEF ReadBatch, TypeInv, TypeOK, JobTypes
    <2>2. job[w].pos + BatchSize \in 0..MaxLines
      <3>1. job[w].pos \in 0..MaxLines /\ blocks[job[w].fd] \in 0..MaxLines
        BY <2>1 DEF TypeInv, TypeOK, Jobs
      <3>2. QED
        BY <2>1, <3>1
    <2>3. /\ read \in Jobs /\ read.fd = job[w].fd /\ read.path = job[w].path
          /\ read.info = job[w].info
      BY <2>1, <2>2 DEF Jobs
    <2>4. job' = [job EXCEPT ![w] = read]
      BY <1>9 DEF ReadBatch
    <2> HIDE DEF read
    <2>5. job' \in [Readers -> Jobs] /\ \A v \in Readers : JobTypes(v)'
      BY <2>1, <2>3, <2>4 DEF TypeInv, TypeOK, JobTypes
    <2>6. requests' \in [Lines -> 0..MaxCount]
      BY <1>9, InsertLinesType DEF ReadBatch, TypeInv
    <2>7. QED
      BY <1>1, <2>1, <2>5, <2>6 DEF TypeInv, TypeOK, Steps
  <1>10. CASE ReadRest(w)
    <2>0. PICK n \in job[w].pos..MaxLines : InsertLines(job[w].fd, job[w].pos, n) /\ EndRead(w, n)
      BY <1>10 DEF ReadRest
    <2>1. /\ pc[w] = "read" /\ UNCHANGED <<fsVars, row, todo, control>>
          /\ \/ w \in DirSources /\ pc' = [pc EXCEPT ![w] = "upsert"] /\ UNCHANGED job
             \/ Return(w)
      BY <1>10, <2>0 DEF ReadRest, EndRead
    <2>2. requests' \in [Lines -> 0..MaxCount]
      BY <2>0, InsertLinesType DEF TypeInv
    <2>3. PICK S : Excuse(S)
      BY <2>0 DEF EndRead
    <2>4. excuses' \in [Archives -> 0..(MaxCount - 1)]
      BY <2>3, ExcuseType DEF TypeInv
    <2>5. CASE w \in DirSources /\ pc' = [pc EXCEPT ![w] = "upsert"] /\ UNCHANGED job
      <3>1. pc' \in [Readers -> Steps] /\ \A v \in Readers : JobTypes(v)'
        BY <2>1, <2>5 DEF TypeInv, TypeOK, JobTypes, Steps
      <3>2. QED
        BY <1>1, <2>1, <2>2, <2>4, <2>5, <3>1 DEF TypeInv, TypeOK
    <2>6. CASE Return(w)
      BY <1>1, <2>1, <2>2, <2>4, <2>6, ReturnType DEF TypeInv, TypeOK
    <2>7. QED
      BY <2>1, <2>5, <2>6
  <1>11. CASE Start(w)
    <2>1. /\ w \in Sources /\ pc[w] = "off" /\ starts' = starts + 1 /\ starts < MaxStarts
          /\ pc' \in {[pc EXCEPT ![w] = "list"], [pc EXCEPT ![w] = "idle"]}
          /\ cancelled' = [cancelled EXCEPT ![w] = FALSE]
          /\ UNCHANGED <<fsVars, dbVars, todo, job, errors, excuses>>
      BY <1>11 DEF Start
    <2>2. late' \in [DirSources -> Nat]
      BY <1>11 DEF Start, TypeInv, TypeOK
    <2>3. pc' \in [Readers -> Steps] /\ \A v \in Readers : JobTypes(v)'
      BY <2>1 DEF TypeInv, TypeOK, JobTypes, Steps
    <2>4. cancelled' \in [Sources -> BOOLEAN]
      BY <2>1 DEF TypeInv, TypeOK
    <2>5. starts' \in 0..MaxStarts
      BY <2>1 DEF TypeInv, TypeOK
    <2>6. QED
      BY <2>1, <2>2, <2>3, <2>4, <2>5 DEF TypeInv, TypeOK, fsVars, dbVars, Steps
  <1>12. CASE Cancel(w)
    <2>1. cancelled' = [cancelled EXCEPT ![w] = TRUE]
      BY <1>12 DEF Cancel
    <2>2. cancelled' \in [Sources -> BOOLEAN]
      BY <2>1 DEF TypeInv, TypeOK
    <2>3. QED
      BY <1>12, <2>2 DEF Cancel, TypeInv, TypeOK, fsVars, dbVars, JobTypes
  <1>13. CASE Exit(w)
    <2>1. /\ pc[w] = "idle" /\ pc' = [pc EXCEPT ![w] = "off"]
          /\ todo' = [todo EXCEPT ![w] = {}]
          /\ cancelled' = [cancelled EXCEPT ![w] = FALSE]
          /\ UNCHANGED <<fsVars, dbVars, job, starts, errors, late, excuses>>
      BY <1>13 DEF Exit
    <2>2. pc' \in [Readers -> Steps] /\ \A v \in Readers : JobTypes(v)'
      BY <2>1 DEF TypeInv, TypeOK, JobTypes, Steps
    <2>3. cancelled' \in [Sources -> BOOLEAN] /\ todo' \in [Readers -> SUBSET Paths]
      BY <2>1 DEF TypeInv, TypeOK
    <2>4. QED
      BY <2>1, <2>2, <2>3 DEF TypeInv, TypeOK, fsVars, dbVars, Steps
  <1>14. CASE Fail(w)
    <2>1. /\ errors < MaxErrors /\ errors' = errors + 1 /\ Return(w)
          /\ UNCHANGED <<fsVars, dbVars, todo, cancelled, starts, late>>
      BY <1>14 DEF Fail
    <2>2. PICK S : Excuse(S)
      BY <1>14 DEF Fail
    <2>3. excuses' \in [Archives -> 0..(MaxCount - 1)]
      BY <2>2, ExcuseType DEF TypeInv
    <2>4. errors' \in 0..MaxErrors
      BY <2>1 DEF TypeInv, TypeOK
    <2>5. QED
      BY <2>1, <2>3, <2>4, ReturnType DEF TypeInv, TypeOK, fsVars, dbVars, Steps
  <1>15. ASSUME NEW p \in Paths, Import(w, p) PROVE TypeInv'
    <2>1. /\ Readable(p) /\ Opened(w, p) /\ Excuse({dir[p]}) /\ w \notin DirSources
          /\ starts < MaxStarts /\ starts' = starts + 1
          /\ UNCHANGED <<fsVars, dbVars, todo, cancelled, errors, late>>
      BY <1>15 DEF Import, Sources
    <2>2. excuses' \in [Archives -> 0..(MaxCount - 1)]
      BY <2>1, ExcuseType DEF TypeInv
    <2>3. starts' \in 0..MaxStarts
      BY <2>1 DEF TypeInv, TypeOK
    <2>4. QED
      BY <2>1, <2>2, <2>3, OpenedType DEF TypeInv, TypeOK, fsVars, dbVars, Steps
  <1>16. QED
    BY <1>2, <1>3, <1>4, <1>5, <1>6, <1>7, <1>8, <1>9, <1>10, <1>11, <1>12, <1>13, <1>14, <1>15
       DEF Run

LEMMA CrashType == TypeInv /\ Crash => TypeInv'
  <1> SUFFICES ASSUME TypeInv, Crash PROVE TypeInv'
    OBVIOUS
  <1>1. /\ pc' = [w \in Readers |-> IF w \in Sources THEN "off" ELSE pc[w]]
        /\ todo' = [w \in Readers |-> IF w \in Sources THEN {} ELSE todo[w]]
        /\ job' = [w \in Readers |-> IF w \in Sources THEN NoJob ELSE job[w]]
        /\ cancelled' = [w \in Sources |-> FALSE]
        /\ UNCHANGED <<fsVars, dbVars, starts, errors, late>>
    BY DEF Crash
  <1>2. NoJob \in Jobs
    BY ArchiveConstants DEF NoJob, Jobs
  <1>3. pc' \in [Readers -> Steps] /\ job' \in [Readers -> Jobs]
    BY <1>1, <1>2 DEF TypeInv, TypeOK, Steps
  <1>4. \A w \in Readers : JobTypes(w)'
    BY <1>1 DEF TypeInv, JobTypes
  <1>5. todo' \in [Readers -> SUBSET Paths] /\ cancelled' \in [Sources -> BOOLEAN]
    BY <1>1 DEF TypeInv, TypeOK
  <1>6. PICK S : Excuse(S)
    BY DEF Crash
  <1>7. excuses' \in [Archives -> 0..(MaxCount - 1)]
    BY <1>6, ExcuseType DEF TypeInv
  <1>8. QED
    BY <1>1, <1>3, <1>4, <1>5, <1>7 DEF TypeInv, TypeOK, fsVars, dbVars, Steps

LEMMA TypeInit == Init => TypeInv
  <1>1. NoJob \in Jobs
    BY ArchiveConstants DEF NoJob, Jobs
  <1>2. QED
    BY <1>1, ArchiveConstants DEF Init, TypeInv, TypeOK, JobTypes

LEMMA TypeStep == TypeInv /\ [Next]_vars => TypeInv'
  <1> SUFFICES ASSUME TypeInv, [Next]_vars PROVE TypeInv'
    OBVIOUS
  <1>1. CASE UNCHANGED vars
    BY <1>1 DEF vars, fsVars, dbVars, control, TypeInv, TypeOK, JobTypes
  <1>2. QED
    BY <1>1, LogrotateType, CrashType, ReaderType DEF Next

\* The readers and logrotate keep to their types, and the readers to the steps
\* of handleFile, importGzip and importLogFile that each of them has.
THEOREM ImportTypes == Spec => []TypeOK
  <1>1. TypeInv => TypeOK
    BY DEF TypeInv
  <1>2. QED
    BY <1>1, TypeInit, TypeStep, PTL DEF Spec

-----------------------------------------------------------------------------
(* What is skipped is in the table.                                        *)

\* The first n lines of archive a are in the table.
Stored(a, n) == \A i \in 1..n : requests[<<a, i>>] > 0

\* Archive a is not at p and never will be again, or it is there, and if so P.
AtMostAt(a, p) == a \in 1..made /\ \A q \in Paths : q < p => dir[q] # a

\* An archive has one name, and was made.
NamesInv ==
    /\ \A p \in Paths : dir[p] # NoFile => dir[p] \in 1..made
    /\ \A p, q \in Paths : dir[p] # NoFile /\ dir[p] = dir[q] => p = q

\* A row of the archive now at its path was written when that archive was
\* complete and in the table.
RowsInv ==
    \A p \in Paths, a \in Archives : row[p] # NoRow /\ row[p].file = a =>
        /\ AtMostAt(a, p)
        /\ dir[p] = a => ended[a] /\ Stored(a, blocks[a])

\* A directory source has open the archive it looked at, as long as that one is
\* where it was; the lines it has read are in the table.
JobInv(w) ==
    /\ pc[w] = "read" => Stored(job[w].fd, job[w].pos)
    /\ pc[w] \in {"state", "open", "read", "upsert"} =>
          \A a \in Archives : job[w].info.file = a =>
              /\ AtMostAt(a, job[w].path)
              /\ pc[w] \in {"read", "upsert"} /\ dir[job[w].path] = a => job[w].fd = a
              /\ pc[w] = "upsert" /\ dir[job[w].path] = a =>
                    ended[a] /\ Stored(a, blocks[a])

ImportInv == NamesInv /\ RowsInv /\ \A w \in DirSources : JobInv(w)

\* logrotate only moves archives to later names, and does not touch complete
\* ones otherwise.
LEMMA LogrotateKeeps ==
    ASSUME TypeInv, ImportInv, UNCHANGED <<requests, row, pc, job>>, NamesInv',
           \A a \in Archives : ended[a] => ended'[a] /\ blocks'[a] = blocks[a],
           \A a \in Archives, p \in Paths : AtMostAt(a, p) =>
               AtMostAt(a, p)' /\ (dir'[p] = a => dir[p] = a)
    PROVE  ImportInv'
  <1>1. RowsInv'
    BY DEF ImportInv, RowsInv, Stored
  <1>2. ASSUME NEW w \in DirSources PROVE JobInv(w)'
    <2>1. JobInv(w) /\ pc'[w] = pc[w] /\ job'[w] = job[w]
      BY DEF ImportInv
    <2>2. pc[w] \in {"state", "open", "read", "upsert"} => job[w].path \in Paths
      BY DEF TypeInv, JobTypes, Readers, Sources
    <2>3. QED
      BY <2>1, <2>2 DEF JobInv, Stored
  <1>3. QED
    BY <1>1, <1>2 DEF ImportInv

LEMMA LogrotateImport == TypeInv /\ ImportInv /\ Logrotate => ImportInv'
  <1> SUFFICES ASSUME TypeInv, ImportInv, Logrotate PROVE ImportInv'
    OBVIOUS
  <1>0. /\ NamesInv /\ made \in 0..MaxArchives /\ dir \in [Paths -> Archives \cup {NoFile}]
        /\ blocks \in [Archives -> 0..MaxLines] /\ ended \in [Archives -> BOOLEAN]
        /\ NoFile \notin Archives /\ Archives \subseteq Nat /\ Paths \subseteq Nat
    BY ArchiveConstants DEF TypeInv, TypeOK, ImportInv, Archives, Paths
  <1>1. CASE Create
    <2>1. /\ dir[1] = NoFile /\ made' = made + 1 /\ dir' = [dir EXCEPT ![1] = made + 1]
          /\ UNCHANGED <<blocks, ended, requests, row, pc, job>>
      BY <1>1 DEF Create, dbVars
    <2>2. \A p \in Paths : dir'[p] = IF p = 1 THEN made + 1 ELSE dir[p]
      BY <1>0, <2>1
    <2>3. NamesInv'
      BY <1>0, <2>1, <2>2 DEF NamesInv
    <2>4. \A a \in Archives, p \in Paths : AtMostAt(a, p) =>
              AtMostAt(a, p)' /\ (dir'[p] = a => dir[p] = a)
      BY <1>0, <2>1, <2>2 DEF AtMostAt
    <2>5. QED
      BY <2>1, <2>3, <2>4, LogrotateKeeps
  <1>2. ASSUME NEW a \in Archives, Grow(a) PROVE ImportInv'
    <2>1. /\ ~ended[a] /\ blocks' = [blocks EXCEPT ![a] = @ + 1]
          /\ UNCHANGED <<dir, made, ended, requests, row, pc, job>>
      BY <1>2 DEF Grow, dbVars
    <2>2. \A b \in Archives : ended[b] => ended'[b] /\ blocks'[b] = blocks[b]
      BY <1>0, <2>1
    <2>3. NamesInv' /\ \A b \in Archives, p \in Paths : AtMostAt(b, p) => AtMostAt(b, p)'
      BY <1>0, <2>1 DEF NamesInv, AtMostAt
    <2>4. QED
      BY <2>1, <2>2, <2>3, LogrotateKeeps
  <1>3. ASSUME NEW a \in Archives, Finish(a) PROVE ImportInv'
    <2>1. /\ ended' = [ended EXCEPT ![a] = TRUE]
          /\ UNCHANGED <<dir, made, blocks, requests, row, pc, job>>
      BY <1>3 DEF Finish, dbVars
    <2>2. \A b \in Archives : ended[b] => ended'[b] /\ blocks'[b] = blocks[b]
      BY <1>0, <2>1
    <2>3. NamesInv' /\ \A b \in Archives, p \in Paths : AtMostAt(b, p) => AtMostAt(b, p)'
      BY <1>0, <2>1 DEF NamesInv, AtMostAt
    <2>4. QED
      BY <2>1, <2>2, <2>3, LogrotateKeeps
  <1>4. ASSUME NEW r \in Paths, Rotate(r) PROVE ImportInv'
    <2>1. /\ dir[r] # NoFile /\ UNCHANGED <<made, blocks, ended, requests, row, pc, job>>
      BY <1>4 DEF Rotate, dbVars
    <2>2. \A p \in Paths : dir'[p] = IF p = r THEN NoFile ELSE IF p = r + 1 THEN dir[r] ELSE dir[p]
      BY <1>4 DEF Rotate
    <2>3. NamesInv'
      BY <1>0, <2>1, <2>2 DEF NamesInv
    <2>4. ASSUME NEW a \in Archives, NEW p \in Paths, AtMostAt(a, p)
          PROVE  AtMostAt(a, p)' /\ (dir'[p] = a => dir[p] = a)
      BY <1>0, <2>1, <2>2, <2>4 DEF AtMostAt
    <2>5. QED
      BY <2>1, <2>3, <2>4, LogrotateKeeps
  <1>5. QED
    BY <1>1, <1>2, <1>3, <1>4 DEF Logrotate

\* A reader adds to the table; the other readers are where they were.
LEMMA ReaderKeeps ==
    ASSUME TypeInv, ImportInv, UNCHANGED fsVars,
           \A l \in Lines : requests'[l] >= requests[l],
           requests' \in [Lines -> 0..MaxCount]
    PROVE  /\ NamesInv'
           /\ \A a \in Archives, p \in Paths : AtMostAt(a, p) => AtMostAt(a, p)'
           /\ UNCHANGED row => RowsInv'
           /\ \A w \in DirSources :
                 \/ pc'[w] \in {"idle", "off"}
                 \/ pc'[w] = pc[w] /\ job'[w] = job[w]
                 => JobInv(w)'
  <1>0. UNCHANGED <<dir, made, blocks, ended>>
    BY DEF fsVars
  <1>1. \A a \in Archives, n \in 0..MaxLines : Stored(a, n) => Stored(a, n)'
    <2> SUFFICES ASSUME NEW a \in Archives, NEW n \in 0..MaxLines, Stored(a, n),
                        NEW i \in 1..n
                 PROVE  requests'[<<a, i>>] > 0
      BY DEF Stored
    <2>1. <<a, i>> \in Lines
      BY ArchiveConstants DEF Lines
    <2>2. requests[<<a, i>>] > 0 /\ requests[<<a, i>>] \in Int /\ requests'[<<a, i>>] \in Int
      BY <2>1, ArchiveConstants DEF Stored, TypeInv, TypeOK
    <2>3. QED
      BY <2>1, <2>2
  <1>2. NamesInv' /\ \A a \in Archives, p \in Paths : AtMostAt(a, p) => AtMostAt(a, p)'
    BY <1>0 DEF ImportInv, NamesInv, AtMostAt
  <1>3. \A a \in Archives : Stored(a, blocks[a]) => Stored(a, blocks[a])'
    <2>1. \A a \in Archives : blocks[a] \in 0..MaxLines /\ blocks'[a] = blocks[a]
      BY <1>0 DEF TypeInv, TypeOK
    <2>2. QED
      BY <1>1, <2>1 DEF Stored
  <1>4. UNCHANGED row => RowsInv'
    BY <1>0, <1>2, <1>3 DEF ImportInv, RowsInv
  <1>5. ASSUME NEW w \in DirSources, pc'[w] = pc[w], job'[w] = job[w] PROVE JobInv(w)'
    <2>1. JobInv(w) /\ JobTypes(w) /\ job[w] \in Jobs
      BY DEF ImportInv, TypeInv, TypeOK, Readers, Sources
    <2>2. pc[w] = "read" => Stored(job[w].fd, job[w].pos)'
      <3> SUFFICES ASSUME pc[w] = "read" PROVE Stored(job[w].fd, job[w].pos)'
        OBVIOUS
      <3>1. job[w].fd \in Archives /\ job[w].pos \in 0..MaxLines /\ Stored(job[w].fd, job[w].pos)
        BY <2>1 DEF JobTypes, JobInv, Jobs
      <3>2. QED
        BY <1>1, <1>5, <3>1 DEF Stored
    <2>3. pc[w] \in {"state", "open", "read", "upsert"} => job[w].path \in Paths
      BY <2>1, <1>5 DEF JobTypes
    <2>4. QED
      BY <1>0, <1>2, <1>3, <1>5, <2>1, <2>2, <2>3 DEF JobInv
  <1>6. ASSUME NEW w \in DirSources, pc'[w] \in {"idle", "off"} PROVE JobInv(w)'
    BY <1>6 DEF JobInv
  <1>7. QED
    BY <1>2, <1>4, <1>5, <1>6

\* What is inserted is in the table.
LEMMA Inserted ==
    ASSUME TypeInv, NEW a \in Archives, NEW from \in 0..MaxLines, NEW to \in 0..MaxLines,
           Stored(a, from), InsertLines(a, from, to)
    PROVE  Stored(a, to)'
  <1> SUFFICES ASSUME NEW i \in 1..to PROVE requests'[<<a, i>>] > 0
    BY DEF Stored
  <1>1. <<a, i>> \in Lines /\ <<a, i>>[1] = a /\ <<a, i>>[2] = i
    BY ArchiveConstants DEF Lines
  <1>2. requests[<<a, i>>] \in 0..MaxCount
    BY <1>1 DEF TypeInv, TypeOK
  <1>3. Bump(requests[<<a, i>>], MaxCount) > 0
    BY <1>2, ArchiveConstants DEF Bump
  <1>4. i \in 1..from \/ i \in (from + 1)..to
    OBVIOUS
  <1>5. CASE i \in (from + 1)..to
    BY <1>1, <1>3, <1>5 DEF InsertLines
  <1>6. CASE i \in 1..from /\ i \notin (from + 1)..to
    BY <1>1, <1>6 DEF InsertLines, Stored
  <1>7. QED
    BY <1>4, <1>5, <1>6

LEMMA ReaderImport ==
    ASSUME TypeInv, ImportInv, NEW w \in Readers,
           \/ Run(w) \/ Start(w) \/ Cancel(w) \/ Exit(w) \/ Fail(w)
           \/ \E p \in Paths : Import(w, p)
    PROVE  ImportInv'
  <1>0. /\ \A l \in Lines : requests[l] \in 0..MaxCount /\ requests[l] >= requests[l]
        /\ requests \in [Lines -> 0..MaxCount] /\ DirSources \subseteq Readers
        /\ pc \in [Readers -> Steps] /\ job \in [Readers -> Jobs]
    BY ArchiveConstants DEF TypeInv, TypeOK, Steps, Readers, Sources
  \* A step that inserts nothing and leaves w outside handleFile.
  <1>1. ASSUME UNCHANGED <<fsVars, requests, row>>,
               \A v \in DirSources : v # w => pc'[v] = pc[v] /\ job'[v] = job[v],
               w \in DirSources => \/ pc'[w] \in {"idle", "off"}
                                   \/ pc'[w] = pc[w] /\ job'[w] = job[w]
        PROVE  ImportInv'
    BY <1>0, <1>1, ReaderKeeps DEF ImportInv
  <1>2. ASSUME Return(w), UNCHANGED <<fsVars, requests, row>> PROVE ImportInv'
    <2>1. pc'[w] \in {"idle", "off"} /\ \A v \in DirSources : v # w => pc'[v] = pc[v] /\ job'[v] = job[v]
      BY <1>0, <1>2 DEF Return
    <2>2. QED
      BY <1>1, <1>2, <2>1
  <1>3. CASE Scan(w) \/ SkipAll(w) \/ Cancel(w)
    BY <1>1, <1>3 DEF Scan, SkipAll, Cancel, dbVars
  <1>4. CASE Start(w) \/ Exit(w) \/ ListSiblings(w)
    <2>1. UNCHANGED <<fsVars, requests, row, job>>
      BY <1>4 DEF Start, Exit, ListSiblings, dbVars
    <2>2. pc' \in {[pc EXCEPT ![w] = "list"], [pc EXCEPT ![w] = "idle"], [pc EXCEPT ![w] = "off"]}
      BY <1>4 DEF Start, Exit, ListSiblings
    <2>3. w \in DirSources => pc'[w] \in {"idle", "off"}
      BY <1>0, <1>4, ArchiveConstants DEF Start, Exit, ListSiblings, TypeInv, JobTypes
    <2>4. QED
      BY <1>0, <1>1, <2>1, <2>2, <2>3
  <1>5. CASE Fail(w)
    BY <1>2, <1>5 DEF Fail, dbVars
  <1>6. ASSUME NEW p \in Paths, Import(w, p) \/ OpenSibling(w, p) PROVE ImportInv'
    <2>1. w \notin DirSources /\ UNCHANGED <<fsVars, requests, row>>
      BY <1>6, ArchiveConstants DEF Import, OpenSibling, Sources, dbVars
    <2>2. \/ UNCHANGED <<pc, job>>
          \/ Opened(w, p)
      BY <1>6 DEF Import, OpenSibling
    <2>3. \A v \in DirSources : v # w => pc'[v] = pc[v] /\ job'[v] = job[v]
      BY <1>0, <2>2 DEF Opened
    <2>4. QED
      BY <1>1, <2>1, <2>3
  <1>7. ASSUME NEW p \in Paths, Visit(w, p) PROVE ImportInv'
    <2>1. w \in DirSources /\ UNCHANGED <<fsVars, requests, row>>
      BY <1>7 DEF Visit, dbVars
    <2>2. CASE dir[p] = NoFile
      BY <1>1, <1>7, <2>1, <2>2 DEF Visit
    <2>3. CASE dir[p] # NoFile
      <3> DEFINE found == [NoJob EXCEPT !.path = p, !.info = Stat(dir[p])]
      <3>1. pc' = [pc EXCEPT ![w] = "state"] /\ job' = [job EXCEPT ![w] = found]
        BY <1>7, <2>3 DEF Visit
      <3>2. found.path = p /\ found.info.file = dir[p]
        BY DEF NoJob, Stat
      <3> HIDE DEF found
      <3>3. /\ pc'[w] = "state" /\ job'[w].path = p /\ job'[w].info.file = dir[p]
            /\ \A v \in DirSources : v # w => pc'[v] = pc[v] /\ job'[v] = job[v]
        BY <1>0, <3>1, <3>2
      <3>4. dir[p] \in Archives /\ AtMostAt(dir[p], p)
        <4>1. dir[p] \in Archives
          BY <2>3 DEF TypeInv, TypeOK
        <4>2. \A q \in Paths : q < p => q # p
          BY ArchiveConstants DEF Paths
        <4>3. QED
          BY <2>3, <4>1, <4>2 DEF ImportInv, NamesInv, AtMostAt
      <3>5. \A a \in Archives : dir[p] = a => AtMostAt(a, p)'
        BY <1>0, <2>1, <3>4, ReaderKeeps
      <3>6. JobInv(w)'
        BY <3>3, <3>5 DEF JobInv
      <3>7. QED
        BY <1>0, <2>1, <3>3, <3>6, ReaderKeeps DEF ImportInv
    <2>4. QED
      BY <2>2, <2>3
  <1>8. CASE GetFileState(w)
    <2>1. UNCHANGED <<fsVars, requests, row>>
      BY <1>8 DEF GetFileState, dbVars
    <2>2. CASE Return(w)
      BY <1>2, <2>1, <2>2
    <2>3. CASE pc' = [pc EXCEPT ![w] = "open"] /\ UNCHANGED job
      <3>1. /\ pc[w] = "state" /\ pc'[w] = "open" /\ w \in DirSources /\ job'[w] = job[w]
            /\ job[w].path \in Paths
            /\ \A v \in DirSources : v # w => pc'[v] = pc[v] /\ job'[v] = job[v]
        BY <1>0, <1>8, <2>3 DEF GetFileState, TypeInv, JobTypes
      <3>2. \A a \in Archives : job[w].info.file = a => AtMostAt(a, job[w].path)'
        BY <1>0, <2>1, <3>1, ReaderKeeps DEF ImportInv, JobInv
      <3>3. JobInv(w)'
        BY <3>1, <3>2 DEF JobInv
      <3>4. QED
        BY <1>0, <2>1, <3>1, <3>3, ReaderKeeps DEF ImportInv
    <2>4. QED
      BY <1>8, <2>2, <2>3 DEF GetFileState
  <1>9. CASE Open(w)
    <2>1. /\ pc[w] = "open" /\ UNCHANGED <<fsVars, requests, row>>
          /\ w \in DirSources /\ job[w].path \in Paths
      BY <1>9 DEF Open, dbVars, TypeInv, JobTypes
    <2>2. CASE Return(w)
      BY <1>2, <2>1, <2>2
    <2>3. CASE Opened(w, job[w].path)
      <3> DEFINE opened == [path |-> job[w].path, info |-> job[w].info,
                            fd |-> dir[job[w].path], pos |-> 0]
      <3>1. pc' = [pc EXCEPT ![w] = "read"] /\ job' = [job EXCEPT ![w] = opened]
        BY <2>3 DEF Opened
      <3>2. /\ opened.path = job[w].path /\ opened.info = job[w].info
            /\ opened.fd = dir[job[w].path] /\ opened.pos = 0
        OBVIOUS
      <3> HIDE DEF opened
      <3>3. /\ pc'[w] = "read" /\ job'[w] = opened
            /\ \A v \in DirSources : v # w => pc'[v] = pc[v] /\ job'[v] = job[v]
        BY <1>0, <3>1
      <3>4. \A a \in Archives : job[w].info.file = a => AtMostAt(a, job[w].path)
        BY <2>1 DEF ImportInv, JobInv
      <3>5. \A i \in 1..job'[w].pos : requests'[<<job'[w].fd, i>>] > 0
        BY <3>2, <3>3
      <3>6. dir' = dir /\ made' = made
        BY <2>1 DEF fsVars
      <3>7. JobInv(w)'
        BY <3>2, <3>3, <3>4, <3>5, <3>6 DEF JobInv, AtMostAt, Stored
      <3>8. QED
        BY <1>0, <2>1, <3>3, <3>7, ReaderKeeps DEF ImportInv
    <2>4. QED
      BY <1>9, <2>2, <2>3 DEF Open
  <1>10. CASE Upsert(w)
    <2>1. /\ pc[w] = "upsert" /\ UNCHANGED <<fsVars, requests>> /\ Return(w)
          /\ row' = [row EXCEPT ![job[w].path] = job[w].info]
          /\ w \in DirSources /\ job[w].path \in Paths
      BY <1>10 DEF Upsert, TypeInv, JobTypes
    <2>2. /\ pc'[w] \in {"idle", "off"}
          /\ \A v \in DirSources : v # w => pc'[v] = pc[v] /\ job'[v] = job[v]
      BY <1>0, <2>1 DEF Return
    <2>3. UNCHANGED <<dir, made, blocks, ended>>
      BY <2>1 DEF fsVars
    <2>4. ASSUME NEW p \in Paths, NEW a \in Archives, row'[p] # NoRow, row'[p].file = a
          PROVE  /\ AtMostAt(a, p)
                 /\ dir[p] = a => ended[a] /\ Stored(a, blocks[a])
      <3>1. CASE p = job[w].path
        <4>1. row'[p] = job[w].info
          BY <2>1, <3>1 DEF TypeInv, TypeOK
        <4>2. QED
          BY <2>1, <2>4, <3>1, <4>1 DEF ImportInv, JobInv
      <3>2. CASE p # job[w].path
        <4>1. row'[p] = row[p]
          BY <2>1, <3>2 DEF TypeInv, TypeOK
        <4>2. QED
          BY <2>4, <4>1 DEF ImportInv, RowsInv
      <3>3. QED
        BY <3>1, <3>2
    <2>5. RowsInv'
      BY <2>1, <2>3, <2>4 DEF RowsInv, AtMostAt, Stored
    <2>6. NamesInv' /\ \A v \in DirSources : JobInv(v)'
      BY <1>0, <2>1, <2>2, ReaderKeeps
    <2>7. QED
      BY <2>5, <2>6 DEF ImportInv
  <1>11. CASE ReadBatch(w)
    <2> DEFINE read == [job[w] EXCEPT !.pos = job[w].pos + BatchSize]
    <2>1. /\ pc[w] = "read" /\ job[w] \in Jobs /\ job[w].fd \in Archives
          /\ job[w].pos + BatchSize <= blocks[job[w].fd]
          /\ InsertLines(job[w].fd, job[w].pos, job[w].pos + BatchSize)
          /\ UNCHANGED <<fsVars, row, pc>>
      BY <1>0, <1>11 DEF ReadBatch, TypeInv, JobTypes
    <2>2. job' = [job EXCEPT ![w] = read]
      BY <1>11 DEF ReadBatch
    <2>3. /\ read.fd = job[w].fd /\ read.path = job[w].path /\ read.info = job[w].info
          /\ read.pos = job[w].pos + BatchSize
      BY <2>1 DEF Jobs
    <2> HIDE DEF read
    <2>4. job'[w] = read /\ \A v \in DirSources : v # w => pc'[v] = pc[v] /\ job'[v] = job[v]
      BY <1>0, <2>1, <2>2
    <2>5. /\ requests' \in [Lines -> 0..MaxCount]
          /\ \A l \in Lines : requests'[l] >= requests[l]
      BY <2>1, InsertLinesType DEF TypeInv
    <2>6. ASSUME w \in DirSources PROVE JobInv(w)'
      <3>1. /\ job[w].pos \in 0..MaxLines /\ job[w].pos + BatchSize \in 0..MaxLines
        <4>1. job[w].pos \in 0..MaxLines /\ blocks[job[w].fd] \in 0..MaxLines
          BY <2>1 DEF TypeInv, TypeOK, Jobs
        <4>2. QED
          BY <2>1, <4>1, ArchiveConstants
      <3>2. \A i \in 1..(job[w].pos + BatchSize) : requests'[<<job[w].fd, i>>] > 0
        <4> DEFINE to == job[w].pos + BatchSize
        <4>1. Stored(job[w].fd, job[w].pos) /\ to \in 0..MaxLines
          BY <2>1, <2>6, <3>1 DEF ImportInv, JobInv
        <4>2. InsertLines(job[w].fd, job[w].pos, to)
          BY <2>1
        <4> HIDE DEF to
        <4>3. \A i \in 1..to : requests'[<<job[w].fd, i>>] > 0
          BY <2>1, <3>1, <4>1, <4>2, Inserted DEF Stored
        <4>4. QED
          BY <4>3 DEF to
      <3>3. \A i \in 1..job'[w].pos : requests'[<<job'[w].fd, i>>] > 0
        BY <2>3, <2>4, <3>2
      <3>4. \A a \in Archives : job[w].info.file = a =>
                /\ AtMostAt(a, job[w].path)
                /\ dir[job[w].path] = a => job[w].fd = a
        BY <2>1, <2>6 DEF ImportInv, JobInv
      <3>5. dir' = dir /\ made' = made /\ pc'[w] = "read"
        BY <2>1 DEF fsVars
      <3>6. QED
        BY <2>3, <2>4, <3>3, <3>4, <3>5 DEF JobInv, AtMostAt, Stored
    <2>7. QED
      BY <2>1, <2>4, <2>5, <2>6, ReaderKeeps DEF ImportInv
  <1>12. CASE ReadRest(w)
    <2> DEFINE a == job[w].fd
    <2>1. /\ pc[w] = "read" /\ job[w] \in Jobs /\ a \in Archives
          /\ UNCHANGED <<fsVars, row>>
      BY <1>0, <1>12 DEF ReadRest, TypeInv, JobTypes
    <2>0. PICK n \in job[w].pos..MaxLines : InsertLines(a, job[w].pos, n) /\ EndRead(w, n)
      BY <1>12 DEF ReadRest
    <2>2. \/ /\ w \in DirSources /\ ended[a] /\ n = blocks[a]
             /\ pc' = [pc EXCEPT ![w] = "upsert"] /\ UNCHANGED job
          \/ Return(w)
      BY <2>0 DEF EndRead, AtEnd
    <2>3. /\ requests' \in [Lines -> 0..MaxCount]
          /\ \A l \in Lines : requests'[l] >= requests[l]
      BY <2>0, InsertLinesType DEF TypeInv
    <2>4. CASE Return(w)
      <3>1. pc'[w] \in {"idle", "off"} /\ \A v \in DirSources : v # w => pc'[v] = pc[v] /\ job'[v] = job[v]
        BY <1>0, <2>4 DEF Return
      <3>2. QED
        BY <2>1, <2>3, <3>1, ReaderKeeps DEF ImportInv
    <2>5. CASE /\ w \in DirSources /\ ended[a] /\ n = blocks[a]
               /\ pc' = [pc EXCEPT ![w] = "upsert"] /\ UNCHANGED job
      <3>1. /\ pc'[w] = "upsert" /\ job'[w] = job[w] /\ job[w].path \in Paths
            /\ \A v \in DirSources : v # w => pc'[v] = pc[v] /\ job'[v] = job[v]
        BY <1>0, <2>1, <2>5 DEF TypeInv, JobTypes
      <3>2. UNCHANGED <<dir, blocks, ended>>
        BY <2>1 DEF fsVars
      <3>3. Stored(a, blocks[a])'
        <4>1. /\ job[w].pos \in 0..MaxLines /\ blocks[a] \in 0..MaxLines
              /\ Stored(a, job[w].pos)
          BY <2>1, <2>5 DEF TypeInv, TypeOK, Jobs, ImportInv, JobInv
        <4>2. \A i \in 1..n : requests'[<<a, i>>] > 0
          <5> HIDE DEF a
          <5>1. n \in 0..MaxLines
            BY <2>5, <4>1
          <5>2. QED
            BY <2>0, <2>1, <4>1, <5>1, Inserted DEF Stored
        <4>3. QED
          BY <2>5, <3>1, <3>2, <4>2 DEF Stored
      <3>4. \A b \in Archives : job[w].info.file = b =>
                /\ AtMostAt(b, job[w].path)'
                /\ dir[job[w].path] = b => a = b
        BY <2>1, <2>3, <2>5, <3>1, ReaderKeeps DEF ImportInv, JobInv
      <3>5. JobInv(w)'
        BY <2>5, <3>1, <3>2, <3>3, <3>4 DEF JobInv, Stored
      <3>6. QED
        BY <2>1, <2>3, <3>1, <3>5, ReaderKeeps DEF ImportInv
    <2>6. QED
      BY <2>2, <2>4, <2>5
  <1>13. QED
    BY <1>3, <1>4, <1>5, <1>6, <1>7, <1>8, <1>9, <1>10, <1>11, <1>12 DEF Run

LEMMA ImportStep == TypeInv /\ ImportInv /\ [Next]_vars => ImportInv'
  <1> SUFFICES ASSUME TypeInv, ImportInv, [Next]_vars PROVE ImportInv'
    OBVIOUS
  <1>0. /\ \A l \in Lines : requests[l] >= requests[l]
        /\ requests \in [Lines -> 0..MaxCount]
    BY ArchiveConstants DEF TypeInv, TypeOK
  <1>1. CASE Crash
    <2>1. UNCHANGED <<fsVars, requests, row>> /\ \A w \in DirSources : pc'[w] = "off"
      BY <1>1 DEF Crash, dbVars, Readers, Sources
    <2>2. QED
      BY <1>0, <2>1, ReaderKeeps DEF ImportInv
  <1>2. CASE UNCHANGED vars
    BY <1>0, <1>2, ReaderKeeps DEF ImportInv, vars, dbVars
  <1>3. QED
    BY <1>1, <1>2, LogrotateImport, ReaderImport DEF Next

\* An archive that handleFile leaves alone for its row (dir.go) is in the table
\* with all of its lines, or is taken for an earlier one that had its name and its
\* inode: for any number of sources and commands that read it, any rotation between
\* their calls and any choice of inodes.
THEOREM ImportSafe == Spec => []SkippedIsImported
  <1>1. Init => ImportInv
    BY DEF Init, ImportInv, NamesInv, RowsInv, JobInv, Readers, Sources
  <1>2. TypeInv /\ ImportInv => SkippedIsImported
    <2> SUFFICES ASSUME TypeInv, ImportInv, NEW p \in Paths, dir[p] # NoFile,
                        Imported(row[p], Stat(dir[p]))
                 PROVE  InTable(dir[p]) \/ Mistaken(p)
      BY DEF SkippedIsImported
    <2>1. dir[p] \in Archives
      BY DEF TypeInv, TypeOK
    <2>2. row[p] # NoRow /\ InodeOf[row[p].file] = InodeOf[dir[p]]
      BY DEF Imported, Stat
    <2>3. CASE row[p].file = dir[p]
      BY <2>1, <2>2, <2>3 DEF ImportInv, RowsInv, Stored, InTable
    <2>4. CASE row[p].file # dir[p]
      BY <2>2, <2>4 DEF Mistaken
    <2>5. QED
      BY <2>3, <2>4
  <1>3. QED
    BY TypeInit, TypeStep, <1>1, ImportStep, <1>2, PTL DEF Spec

-----------------------------------------------------------------------------
(* A cancelled source opens at most one more archive.                      *)

\* Once it has, it is past os.Open of importCompressed, and walkFn, which looks
\* at the context, does not let it come back there.
LateInv ==
    \A w \in DirSources :
        /\ late[w] \in {0, 1}
        /\ pc[w] \in {"state", "open"} => late[w] = 0
        /\ pc[w] # "off" /\ ~cancelled[w] => late[w] = 0


LEMMA LateReader ==
    ASSUME TypeInv, LateInv, NEW w \in Readers,
           \/ Run(w) \/ Start(w) \/ Cancel(w) \/ Exit(w) \/ Fail(w)
           \/ \E p \in Paths : Import(w, p)
    PROVE  LateInv'
  <1>0. /\ DirSources \subseteq Readers /\ DirSources \subseteq Sources
        /\ DirSources \cap Commands = {} /\ DirSources \cap FileSources = {}
        /\ pc \in [Readers -> Steps] /\ cancelled \in [Sources -> BOOLEAN]
        /\ late \in [DirSources -> Nat]
    BY ArchiveConstants DEF TypeInv, TypeOK, Steps, Readers, Sources
  \* A step of a running reader from one place in its code to another.
  <1>1. ASSUME UNCHANGED <<late, cancelled>>, NEW s, pc' = [pc EXCEPT ![w] = s],
               w \in DirSources => pc[w] # "off",
               s \in {"state", "open"} /\ w \in DirSources =>
                   pc[w] \in {"state", "open"} \/ ~cancelled[w]
        PROVE  LateInv'
    <2>1. ASSUME NEW v \in DirSources
          PROVE  /\ late'[v] \in {0, 1}
                 /\ pc'[v] \in {"state", "open"} => late'[v] = 0
                 /\ pc'[v] # "off" /\ ~cancelled'[v] => late'[v] = 0
      <3>1. CASE v = w
        BY <1>0, <1>1, <3>1 DEF LateInv
      <3>2. CASE v # w
        BY <1>0, <1>1, <3>2 DEF LateInv
      <3>3. QED
        BY <3>1, <3>2
    <2>2. QED
      BY <2>1 DEF LateInv
  <1>2. ASSUME UNCHANGED <<late, cancelled, pc>> PROVE LateInv'
    BY <1>2 DEF LateInv
  <1>3. ASSUME Return(w), UNCHANGED <<late, cancelled>>, w \in DirSources => pc[w] # "off"
        PROVE  LateInv'
    BY <1>1, <1>3 DEF Return
  <1>4. CASE Scan(w) \/ SkipAll(w)
    BY <1>2, <1>4 DEF Scan, SkipAll, control
  <1>5. CASE ReadBatch(w)
    BY <1>2, <1>5 DEF ReadBatch, control
  <1>6. CASE ReadRest(w)
    <2>1. UNCHANGED <<late, cancelled>> /\ pc[w] = "read"
      BY <1>6 DEF ReadRest, control
    <2>2. pc' = [pc EXCEPT ![w] = "upsert"] \/ Return(w)
      BY <1>6 DEF ReadRest, EndRead
    <2>3. QED
      BY <1>1, <1>3, <2>1, <2>2
  <1>7. ASSUME NEW p \in Paths, Visit(w, p) PROVE LateInv'
    <2>1. UNCHANGED <<late, cancelled>> /\ pc[w] = "idle" /\ ~cancelled[w]
      BY <1>7 DEF Visit, control
    <2>2. UNCHANGED pc \/ pc' = [pc EXCEPT ![w] = "state"]
      BY <1>7 DEF Visit
    <2>3. QED
      BY <1>1, <1>2, <2>1, <2>2
  <1>8. CASE GetFileState(w)
    <2>1. UNCHANGED <<late, cancelled>> /\ pc[w] = "state"
      BY <1>8 DEF GetFileState, control
    <2>2. pc' = [pc EXCEPT ![w] = "open"] \/ Return(w)
      BY <1>8 DEF GetFileState
    <2>3. QED
      BY <1>1, <1>3, <2>1, <2>2
  <1>9. CASE Open(w)
    <2>1. UNCHANGED cancelled /\ pc[w] = "open" /\ w \in DirSources
      BY <1>9 DEF Open, TypeInv, JobTypes
    <2>2. CASE UNCHANGED late /\ Return(w)
      BY <1>3, <2>1, <2>2
    <2>3. CASE /\ Opened(w, job[w].path)
               /\ late' = [late EXCEPT ![w] = IF cancelled[w] THEN @ + 1 ELSE @]
      <3>1. pc' = [pc EXCEPT ![w] = "read"]
        BY <2>3 DEF Opened
      <3>2. late[w] = 0 /\ (cancelled[w] \/ late'[w] = 0) /\ late'[w] \in {0, 1}
        BY <1>0, <2>1, <2>3 DEF LateInv
      <3>3. \A v \in DirSources : v # w => late'[v] = late[v] /\ pc'[v] = pc[v]
        BY <1>0, <2>3, <3>1
      <3>4. pc'[w] = "read"
        BY <1>0, <3>1
      <3>5. QED
        BY <2>1, <3>2, <3>3, <3>4 DEF LateInv
    <2>4. QED
      BY <1>9, <2>2, <2>3 DEF Open
  <1>10. CASE Upsert(w)
    BY <1>3, <1>10 DEF Upsert, control
  <1>11. CASE ListSiblings(w)
    BY <1>1, <1>11 DEF ListSiblings, control
  <1>12. ASSUME NEW p \in Paths, OpenSibling(w, p) \/ Import(w, p) PROVE LateInv'
    <2>1. UNCHANGED <<late, cancelled>> /\ w \notin DirSources
      BY <1>0, <1>12 DEF OpenSibling, Import, control
    <2>2. UNCHANGED pc \/ pc' = [pc EXCEPT ![w] = "read"]
      BY <1>12 DEF OpenSibling, Import, Opened
    <2>3. QED
      BY <1>1, <1>2, <2>1, <2>2
  <1>13. CASE Fail(w)
    BY <1>3, <1>13 DEF Fail
  <1>14. CASE Start(w)
    <2>1. late' = [v \in DirSources |-> IF v = w THEN 0 ELSE late[v]]
      BY <1>14 DEF Start
    <2>2. /\ \A v \in DirSources : v # w => pc'[v] = pc[v] /\ cancelled'[v] = cancelled[v]
          /\ w \in DirSources => pc'[w] = "idle"
      BY <1>0, <1>14 DEF Start
    <2>3. QED
      BY <2>1, <2>2 DEF LateInv
  <1>15. CASE Cancel(w)
    <2>1. UNCHANGED <<late, pc>> /\ \A v \in DirSources : cancelled'[v] = cancelled[v] \/ cancelled'[v]
      BY <1>0, <1>15 DEF Cancel
    <2>2. QED
      BY <2>1 DEF LateInv
  <1>16. CASE Exit(w)
    <2>1. /\ UNCHANGED late
          /\ \A v \in DirSources : v # w => pc'[v] = pc[v] /\ cancelled'[v] = cancelled[v]
          /\ pc'[w] = "off"
      BY <1>0, <1>16 DEF Exit
    <2>2. QED
      BY <2>1 DEF LateInv
  <1>17. QED
    BY <1>4, <1>5, <1>6, <1>7, <1>8, <1>9, <1>10, <1>11, <1>12, <1>13, <1>14, <1>15, <1>16 DEF Run

\* However often a source is started, cancelled and its context looked at, a
\* cancelled directory source opens at most one more archive (handleFile, dir.go).
THEOREM ImportLate == Spec => []OneLateArchive
  <1>1. Init => LateInv
    BY DEF Init, LateInv, Readers, Sources
  <1>2. TypeInv /\ LateInv /\ [Next]_vars => LateInv'
    <2> SUFFICES ASSUME TypeInv, LateInv, [Next]_vars PROVE LateInv'
      OBVIOUS
    <2>1. CASE Logrotate
      <3>1. UNCHANGED <<pc, control>>
        BY <2>1 DEF Logrotate, Create, Grow, Finish, Rotate
      <3>2. QED
        BY <3>1 DEF LateInv, control
    <2>2. CASE Crash
      <3>1. UNCHANGED late /\ \A w \in DirSources : pc'[w] = "off"
        BY <2>2 DEF Crash, Readers, Sources
      <3>2. QED
        BY <3>1 DEF LateInv
    <2>3. CASE UNCHANGED vars
      BY <2>3 DEF LateInv, vars, control
    <2>4. QED
      BY <2>1, <2>2, <2>3, LateReader DEF Next
  <1>3. LateInv => OneLateArchive
    BY DEF LateInv, OneLateArchive
  <1>4. QED
    BY TypeInit, TypeStep, <1>1, <1>2, <1>3, PTL DEF Spec

-----------------------------------------------------------------------------
(* Nothing is read again without a reason.                                 *)

\* Readers that have still to insert line l.
Pending(l) == {w \in Readers : pc[w] = "read" /\ job[w].fd = l[1] /\ job[w].pos < l[2]}

Debt(l) == requests[l] + Cardinality(Pending(l))

\* Line l may be inserted n times more, besides by the readers that are at it.
Room(l, n) == excuses[l[1]] = MaxCount - 1 \/ Debt(l) + n <= 1 + excuses[l[1]]

\* Row r is of the archive info is of, as long.  handleFile, which compares
\* inodes, leaves it alone then.
Known(r, info) == r # NoRow /\ r.file = info.file /\ r.size >= info.size

\* The source w is about to open what is then at p, unless it takes what it looked
\* at for an earlier archive.
ToOpen(w, p) ==
    /\ pc[w] \in {"state", "open"} /\ job[w].path = p
    /\ pc[w] = "state" => ~Known(row[p], job[w].info)

\* The row of p when w is done with the archive it handles.
Left(w, p) ==
    IF job[w].path = p /\ (pc[w] \in {"open", "read", "upsert"} \/ ToOpen(w, p))
    THEN job[w].info ELSE row[p]

\* How often w will at most open the archive now at p, if nothing happens to it.
Unread(r, p) == IF Known(r, Stat(dir[p])) THEN 0 ELSE 1
Coming(w, p) == (IF ToOpen(w, p) THEN 1 ELSE 0) + Unread(Left(w, p), p)

\* There is room for what the scans will insert, and for one import of an
\* archive that is not made yet.
CauseInv(l) ==
    /\ Room(l, 0)
    /\ l[1] > made => Room(l, 1)
    /\ \A w \in DirSources, p \in Paths : dir[p] = l[1] => Room(l, Coming(w, p))

CausesInv == \A l \in Lines : CauseInv(l)

\* Archive a has been excused n times in this step.
Excused(a, n) == excuses'[a] = MaxCount - 1 \/ excuses'[a] >= excuses[a] + n

LEMMA ExcuseBumps ==
    ASSUME TypeOK, NEW S, NEW a \in Archives
    PROVE  /\ Excuse(S) => Excused(a, 0) /\ (a \in S => Excused(a, 1))
           /\ ExcuseTwice(S) => Excused(a, 0) /\ (a \in S => Excused(a, 2))
           /\ UNCHANGED excuses => Excused(a, 0)
  <1>1. excuses[a] \in 0..(MaxCount - 1) /\ MaxCount - 1 \in Nat
    BY ArchiveConstants DEF TypeOK
  <1>2. Excuse(S) => excuses'[a] = IF a \in S THEN Bump(excuses[a], MaxCount - 1) ELSE excuses[a]
    BY DEF Excuse
  <1>3. ExcuseTwice(S) => excuses'[a] = IF a \in S THEN Bump(Bump(excuses[a], MaxCount - 1), MaxCount - 1)
                                        ELSE excuses[a]
    BY DEF ExcuseTwice
  <1>4. QED
    BY <1>1, <1>2, <1>3 DEF Excused, Bump

\* The terms of an inequality about a line.
LEMMA CauseTypes ==
    ASSUME TypeInv, NEW l \in Lines
    PROVE  /\ l[1] \in Archives /\ l[2] \in 1..MaxLines
           /\ requests[l] \in 0..MaxCount /\ excuses[l[1]] \in 0..(MaxCount - 1)
           /\ IsFiniteSet(Pending(l)) /\ Cardinality(Pending(l)) \in Nat /\ Debt(l) \in Nat
  <1>1. l[1] \in Archives /\ l[2] \in 1..MaxLines
    BY DEF Lines
  <1>2. requests[l] \in 0..MaxCount /\ excuses[l[1]] \in 0..(MaxCount - 1)
    BY <1>1 DEF TypeInv, TypeOK
  <1>3. IsFiniteSet(Pending(l))
    BY ArchiveConstants, FS_Subset DEF Pending
  <1>4. Cardinality(Pending(l)) \in Nat
    BY <1>3, FS_CardinalityType
  <1>5. QED
    BY <1>1, <1>2, <1>3, <1>4 DEF Debt

LEMMA CauseTypesNext ==
    ASSUME TypeInv', NEW l \in Lines
    PROVE  /\ requests'[l] \in 0..MaxCount /\ excuses'[l[1]] \in 0..(MaxCount - 1)
           /\ IsFiniteSet(Pending(l)') /\ Cardinality(Pending(l)') \in Nat /\ Debt(l)' \in Nat
  <1>1. requests'[l] \in 0..MaxCount /\ excuses'[l[1]] \in 0..(MaxCount - 1)
    BY DEF TypeInv, TypeOK, Lines
  <1>2. IsFiniteSet(Pending(l)')
    BY ArchiveConstants, FS_Subset DEF Pending
  <1>3. Cardinality(Pending(l)') \in Nat
    BY <1>2, FS_CardinalityType
  <1>4. QED
    BY <1>1, <1>2, <1>3 DEF Debt

LEMMA ComingType ==
    ASSUME NEW w, NEW p
    PROVE  Coming(w, p) \in 0..2 /\ Coming(w, p)' \in 0..2
  BY DEF Coming, Unread

\* Room for n insertions is room for m after d more, if it was excused e times.
LEMMA RoomKeeps ==
    ASSUME TypeInv, TypeInv', NEW l \in Lines, NEW n \in Nat, NEW m \in Nat,
           NEW d \in Nat, NEW e \in Nat,
           Room(l, n), Debt(l)' <= Debt(l) + d, Excused(l[1], e), m + d <= n + e
    PROVE  excuses'[l[1]] = MaxCount - 1 \/ Debt(l)' + m <= 1 + excuses'[l[1]]
  <1>1. Debt(l) \in Nat /\ Debt(l)' \in Nat
    BY CauseTypes, CauseTypesNext
  <1>2. excuses[l[1]] \in 0..(MaxCount - 1) /\ excuses'[l[1]] \in 0..(MaxCount - 1) /\ MaxCount - 1 \in Nat
    BY CauseTypes, CauseTypesNext, ArchiveConstants
  <1>3. QED
    BY <1>1, <1>2 DEF Room, Excused

\* The readers that have still to insert l are no more than before.
LEMMA DebtKeeps ==
    ASSUME TypeInv, TypeInv', NEW l \in Lines, requests'[l] = requests[l],
           Pending(l)' \subseteq Pending(l)
    PROVE  Debt(l)' <= Debt(l)
  <1>1. Cardinality(Pending(l)') <= Cardinality(Pending(l))
    BY CauseTypes, FS_Subset
  <1>2. Cardinality(Pending(l)') \in Nat /\ Cardinality(Pending(l)) \in Nat /\ requests[l] \in Int
    BY CauseTypes, CauseTypesNext
  <1>3. QED
    BY <1>1, <1>2 DEF Debt

\* One reader more.
LEMMA DebtOpened ==
    ASSUME TypeInv, TypeInv', NEW l \in Lines, NEW w, requests'[l] = requests[l],
           Pending(l)' \subseteq Pending(l) \cup {w}
    PROVE  Debt(l)' <= Debt(l) + 1
  <1>1. IsFiniteSet(Pending(l)) /\ Cardinality(Pending(l)) \in Nat
    BY CauseTypes
  <1>2. /\ IsFiniteSet(Pending(l) \cup {w})
        /\ \/ Cardinality(Pending(l) \cup {w}) = Cardinality(Pending(l))
           \/ Cardinality(Pending(l) \cup {w}) = Cardinality(Pending(l)) + 1
    BY <1>1, FS_AddElement
  <1>3. Cardinality(Pending(l)') <= Cardinality(Pending(l) \cup {w})
    BY <1>2, FS_Subset
  <1>4. Cardinality(Pending(l)') \in Nat /\ requests[l] \in Int
    BY CauseTypes, CauseTypesNext
  <1>5. QED
    BY <1>1, <1>2, <1>3, <1>4 DEF Debt

\* A reader inserts lines that it had still to insert.
LEMMA DebtRead ==
    ASSUME TypeInv, TypeInv', NEW l \in Lines, NEW w \in Readers, NEW to \in Int,
           pc[w] = "read", InsertLines(job[w].fd, job[w].pos, to),
           Pending(l)' \subseteq Pending(l),
           l[2] <= to => w \notin Pending(l)'
    PROVE  Debt(l)' <= Debt(l)
  <1>1. CASE l[1] = job[w].fd /\ l[2] \in (job[w].pos + 1)..to
    <2>1. job[w].pos \in Int /\ l[2] \in Int
      BY CauseTypes, ArchiveConstants DEF TypeInv, TypeOK, Jobs
    <2>2. w \in Pending(l) /\ w \notin Pending(l)'
      BY <1>1, <2>1 DEF Pending
    <2>3. Cardinality(Pending(l) \ {w}) = Cardinality(Pending(l)) - 1
      BY <2>2, CauseTypes, FS_RemoveElement
    <2>4. IsFiniteSet(Pending(l) \ {w})
      BY CauseTypes, FS_Subset
    <2>5. Cardinality(Pending(l)') <= Cardinality(Pending(l) \ {w})
      BY <2>2, <2>4, FS_Subset
    <2>6. requests'[l] <= requests[l] + 1 /\ requests'[l] \in Int /\ requests[l] \in Int
      BY <1>1, CauseTypes DEF InsertLines, Bump
    <2>7. Cardinality(Pending(l)') \in Nat /\ Cardinality(Pending(l)) \in Nat
      BY CauseTypes, CauseTypesNext
    <2>8. QED
      BY <2>3, <2>5, <2>6, <2>7 DEF Debt
  <1>2. CASE ~(l[1] = job[w].fd /\ l[2] \in (job[w].pos + 1)..to)
    <2>1. requests'[l] = requests[l]
      BY <1>2 DEF InsertLines
    <2>2. QED
      BY <2>1, DebtKeeps
  <1>3. QED
    BY <1>1, <1>2

\* A step that has nobody open an archive, after which no source is going to
\* open the archive of l more often, or once more with an excuse.
LEMMA CauseKeeps ==
    ASSUME TypeInv, TypeInv', NEW l \in Lines, CauseInv(l), made' = made,
           Debt(l)' <= Debt(l), Excused(l[1], 0),
           \A w \in DirSources, p \in Paths : dir'[p] = l[1] =>
               /\ dir[p] = l[1]
               /\ \/ Coming(w, p)' <= Coming(w, p)
                  \/ Coming(w, p)' <= Coming(w, p) + 1 /\ Excused(l[1], 1)
    PROVE  CauseInv(l)'
  <1>1. Debt(l)' <= Debt(l) + 0
    BY CauseTypes
  <1>2. Room(l, 0)'
    BY <1>1, RoomKeeps DEF CauseInv, Room
  <1>3. l[1] > made' => Room(l, 1)'
    BY <1>1, RoomKeeps DEF CauseInv, Room
  <1>4. ASSUME NEW w \in DirSources, NEW p \in Paths, dir'[p] = l[1]
        PROVE  Room(l, Coming(w, p))'
    <2>1. Room(l, Coming(w, p))
      BY <1>4 DEF CauseInv
    <2>2. Coming(w, p) \in 0..2 /\ Coming(w, p)' \in 0..2
      BY ComingType
    <2>3. CASE Coming(w, p)' <= Coming(w, p)
      <3>1. Coming(w, p)' + 0 <= Coming(w, p) + 0
        BY <2>2, <2>3
      <3>2. QED
        BY <1>1, <2>1, <2>2, <3>1, RoomKeeps DEF Room
    <2>4. CASE Coming(w, p)' <= Coming(w, p) + 1 /\ Excused(l[1], 1)
      <3>1. Coming(w, p)' + 0 <= Coming(w, p) + 1
        BY <2>2, <2>4
      <3>2. QED
        BY <1>1, <2>1, <2>2, <2>4, <3>1, RoomKeeps DEF Room
    <2>5. QED
      BY <1>4, <2>3, <2>4
  <1>5. QED
    BY <1>2, <1>3, <1>4 DEF CauseInv

\* logrotate changes what the names stand for, and what the rows say of them.
LEMMA CauseLogrotate ==
    ASSUME TypeInv, TypeInv', ImportInv, NEW l \in Lines, CauseInv(l), Logrotate
    PROVE  CauseInv(l)'
  <1>0. /\ dir \in [Paths -> Archives \cup {NoFile}] /\ made \in 0..MaxArchives
        /\ blocks \in [Archives -> 0..MaxLines] /\ ended \in [Archives -> BOOLEAN]
        /\ NoFile \notin Archives /\ Archives \subseteq Nat /\ Paths \subseteq Nat
        /\ l[1] \in Archives
        /\ \A p \in Paths : dir[p] # NoFile => dir[p] \in 1..made
        /\ DirSources \subseteq Readers
    <2>1. l[1] \in Archives
      BY CauseTypes
    <2>2. \A p \in Paths : dir[p] # NoFile => dir[p] \in 1..made
      BY DEF ImportInv, NamesInv
    <2>3. Archives \subseteq Nat /\ Paths \subseteq Nat /\ DirSources \subseteq Readers
      BY ArchiveConstants DEF Archives, Paths, Readers, Sources
    <2>4. QED
      BY <2>1, <2>2, <2>3, ArchiveConstants DEF TypeInv, TypeOK
  <1>1. UNCHANGED <<requests, row, pc, job>>
    BY DEF Logrotate, Create, Grow, Finish, Rotate, dbVars
  <1>2. Pending(l)' \subseteq Pending(l) /\ requests'[l] = requests[l]
    BY <1>1 DEF Pending
  <1>3. Debt(l)' <= Debt(l)
    BY <1>2, DebtKeeps
  <1>4. Debt(l)' <= Debt(l) + 0
    BY <1>3, CauseTypes
  <1>5. \A w \in DirSources, p \in Paths : ToOpen(w, p)' <=> ToOpen(w, p)
    BY <1>1 DEF ToOpen, Known
  <1>6. \A w \in DirSources, p \in Paths : Left(w, p)' = Left(w, p)
    BY <1>1, <1>5 DEF Left
  <1>7. CASE Create
    <2>1. /\ dir[1] = NoFile /\ made' = made + 1 /\ dir' = [dir EXCEPT ![1] = made + 1]
          /\ Excuse(IF Handling(1) = {} THEN {} ELSE {made + 1})
          /\ UNCHANGED <<blocks, ended>>
      BY <1>7 DEF Create
    <2>2. \A p \in Paths : dir'[p] = IF p = 1 THEN made + 1 ELSE dir[p]
      BY <1>0, <2>1
    <2>3. Excused(l[1], 0) /\ (l[1] = made + 1 /\ Handling(1) # {} => Excused(l[1], 1))
      BY <1>0, <2>1, ExcuseBumps DEF TypeInv
    <2>4. Room(l, 0)'
      BY <1>4, <2>3, RoomKeeps DEF CauseInv, Room
    <2>5. l[1] > made' => Room(l, 1)'
      <3>1. l[1] > made' => l[1] > made
        <4>1. l[1] \in Nat
          BY <1>0
        <4>2. made \in Nat
          BY ArchiveConstants DEF TypeInv, TypeOK
        <4>3. QED
          BY <2>1, <4>1, <4>2
      <3>2. l[1] > made' => Room(l, 1)
        BY <3>1 DEF CauseInv
      <3>3. QED
        BY <1>4, <2>3, <3>2, RoomKeeps DEF Room
    <2>6. ASSUME NEW w \in DirSources, NEW p \in Paths, dir'[p] = l[1]
          PROVE  Room(l, Coming(w, p))'
      <3>1. CASE p # 1
        <4>1. dir[p] = l[1] /\ dir'[p] = dir[p]
          BY <2>2, <2>6, <3>1
        <4>2. Coming(w, p)' = Coming(w, p)
          BY <1>5, <1>6, <2>1, <4>1 DEF Coming, Unread, Stat, Size
        <4>3. Coming(w, p) \in 0..2 /\ Room(l, Coming(w, p))
          BY <4>1, ComingType DEF CauseInv
        <4>4. QED
          BY <1>4, <2>3, <4>2, <4>3, RoomKeeps DEF Room
      <3>2. CASE p = 1
        <4>1. l[1] = made + 1 /\ Room(l, 1)
          BY <1>0, <2>2, <2>6, <3>2 DEF CauseInv
        <4>2. Coming(w, p)' \in 0..2
          BY ComingType
        <4>3. CASE Handling(1) = {}
          <5>1. ~ToOpen(w, p)
            BY <3>2, <4>3 DEF Handling, ToOpen
          <5>2. Coming(w, p)' \in 0..1
            BY <1>5, <5>1 DEF Coming, Unread
          <5>3. QED
            BY <1>4, <2>3, <4>1, <5>2, RoomKeeps DEF Room
        <4>4. CASE Handling(1) # {}
          BY <1>4, <2>3, <4>1, <4>2, <4>4, RoomKeeps DEF Room
        <4>5. QED
          BY <4>3, <4>4
      <3>3. QED
        BY <3>1, <3>2
    <2>7. QED
      BY <2>4, <2>5, <2>6 DEF CauseInv
  <1>8. ASSUME NEW a \in Archives, Grow(a) \/ Finish(a) PROVE CauseInv(l)'
    <2>1. /\ UNCHANGED <<dir, made>> /\ ~ended[a] /\ Grown(a)
          /\ \A b \in Archives : b # a => blocks'[b] = blocks[b] /\ ended'[b] = ended[b]
      BY <1>0, <1>8 DEF Grow, Finish
    <2>2. Excused(l[1], 0)
      BY <1>0, <2>1, ExcuseBumps DEF TypeInv, Grown
    <2>3. ASSUME NEW w \in DirSources, NEW p \in Paths, dir'[p] = l[1]
          PROVE  /\ dir[p] = l[1]
                 /\ \/ Coming(w, p)' <= Coming(w, p)
                    \/ Coming(w, p)' <= Coming(w, p) + 1 /\ Excused(l[1], 1)
      <3>1. dir[p] = l[1]
        BY <2>1, <2>3
      <3>2. Coming(w, p) \in 0..2 /\ Coming(w, p)' \in 0..2
        BY ComingType
      <3>3. CASE l[1] # a
        <4>1. Stat(dir[p])' = Stat(dir[p])
          BY <1>0, <2>1, <3>1, <3>3 DEF Stat, Size
        <4>2. Coming(w, p)' = Coming(w, p)
          BY <1>5, <1>6, <4>1 DEF Coming, Unread
        <4>3. QED
          BY <3>1, <3>2, <4>2
      <3>4. CASE l[1] = a /\ job[w].info # NoRow /\ job[w].info.file = a
        <4>1. Excuse({a})
          BY <2>1, <3>4 DEF Grown
        <4>2. Excused(l[1], 1)
          BY <1>0, <3>4, <4>1, ExcuseBumps DEF TypeInv
        <4>3. Coming(w, p)' <= Coming(w, p) + 1
          BY <1>5 DEF Coming, Unread
        <4>4. QED
          BY <3>1, <4>2, <4>3
      <3>5. CASE l[1] = a /\ ~(job[w].info # NoRow /\ job[w].info.file = a)
        <4>1. ~Known(row[p], Stat(a))
          BY <2>1, <3>1, <3>5 DEF Known, Stat, ImportInv, RowsInv
        <4>2. ~Known(job[w].info, Stat(a))
          BY <3>5 DEF Known, Stat
        <4>3. Unread(Left(w, p), p) = 1
          BY <3>1, <3>5, <4>1, <4>2 DEF Unread, Left
        <4>4. Coming(w, p)' <= Coming(w, p)
          BY <1>5, <4>3 DEF Coming, Unread
        <4>5. QED
          BY <3>1, <4>4
      <3>6. QED
        BY <3>3, <3>4, <3>5
    <2>4. QED
      BY <1>3, <2>1, <2>2, <2>3, CauseKeeps
  <1>9. ASSUME NEW r \in Paths, Rotate(r) PROVE CauseInv(l)'
    <2>1. /\ dir[r] # NoFile /\ UNCHANGED <<made, blocks, ended>>
          /\ IF Handling(r + 1) = {} THEN Excuse({dir[r]}) ELSE ExcuseTwice({dir[r]})
      BY <1>9 DEF Rotate
    <2>2. \A p \in Paths : dir'[p] = IF p = r THEN NoFile ELSE IF p = r + 1 THEN dir[r] ELSE dir[p]
      BY <1>9 DEF Rotate
    <2>3. /\ Excused(l[1], 0)
          /\ l[1] = dir[r] => Excused(l[1], 1) /\ (Handling(r + 1) # {} => Excused(l[1], 2))
      <3>1. Excused(l[1], 2) => Excused(l[1], 1)
        BY CauseTypes, CauseTypesNext DEF Excused
      <3>2. QED
        BY <1>0, <2>1, <3>1, ExcuseBumps DEF TypeInv
    <2>4. Room(l, 0)'
      BY <1>4, <2>3, RoomKeeps DEF CauseInv, Room
    <2>5. l[1] > made' => Room(l, 1)'
      BY <1>0, <1>4, <2>1, <2>3, RoomKeeps DEF CauseInv, Room
    <2>6. ASSUME NEW w \in DirSources, NEW p \in Paths, dir'[p] = l[1]
          PROVE  Room(l, Coming(w, p))'
      <3>0. p # r
        BY <1>0, <2>2, <2>6
      <3>1. CASE p # r + 1
        <4>1. dir[p] = l[1] /\ dir'[p] = dir[p]
          BY <2>2, <2>6, <3>0, <3>1
        <4>2. Coming(w, p)' = Coming(w, p)
          BY <1>5, <1>6, <2>1, <4>1 DEF Coming, Unread, Stat, Size
        <4>3. Coming(w, p) \in 0..2 /\ Room(l, Coming(w, p))
          BY <4>1, ComingType DEF CauseInv
        <4>4. QED
          BY <1>4, <2>3, <4>2, <4>3, RoomKeeps DEF Room
      <3>2. CASE p = r + 1
        <4>1. l[1] = dir[r] /\ Room(l, 0)
          BY <1>0, <2>2, <2>6, <3>0, <3>2 DEF CauseInv
        <4>2. Coming(w, p)' \in 0..2
          BY ComingType
        <4>3. CASE Handling(r + 1) = {}
          <5>1. ~ToOpen(w, p)
            BY <3>2, <4>3 DEF Handling, ToOpen
          <5>2. Coming(w, p)' \in 0..1
            BY <1>5, <5>1 DEF Coming, Unread
          <5>3. QED
            BY <1>4, <2>3, <4>1, <5>2, RoomKeeps DEF Room
        <4>4. CASE Handling(r + 1) # {}
          BY <1>4, <2>3, <4>1, <4>2, <4>4, RoomKeeps DEF Room
        <4>5. QED
          BY <4>3, <4>4
      <3>3. QED
        BY <3>1, <3>2
    <2>7. QED
      BY <2>4, <2>5, <2>6 DEF CauseInv
  <1>10. QED
    BY <1>7, <1>8, <1>9 DEF Logrotate

\* Where a source leaves an archive that it has not come to the end of, it will
\* open it once more at most, and with an excuse if it was at it.
LEMMA CauseReturns ==
    ASSUME TypeInv, ImportInv, NEW w \in DirSources, NEW p \in Paths, NEW a \in Archives,
           UNCHANGED <<fsVars, row>>, dir[p] = a, pc'[w] \in {"off", "list", "idle"},
           pc[w] \in {"read", "upsert"} /\ job[w].fd = a => Excused(a, 1)
    PROVE  \/ Coming(w, p)' <= Coming(w, p)
           \/ Coming(w, p)' <= Coming(w, p) + 1 /\ Excused(a, 1)
  <1>0. UNCHANGED <<dir, blocks, ended, row>>
    BY DEF fsVars
  <1>1. Stat(dir[p])' = Stat(dir[p])
    BY <1>0 DEF Stat, Size
  <1>2. Coming(w, p)' = Unread(row[p], p)
    <2>1. ~ToOpen(w, p)'
      BY DEF ToOpen
    <2>2. Left(w, p)' = row[p]
      BY <1>0, <2>1 DEF Left
    <2>3. Unread(Left(w, p), p)' = Unread(row[p], p)
      BY <1>1, <2>2 DEF Unread
    <2>4. QED
      BY <2>1, <2>3 DEF Coming, Unread
  <1>3. CASE Left(w, p) = row[p]
    BY <1>2, <1>3 DEF Coming, Unread
  <1>4. CASE ToOpen(w, p)
    BY <1>2, <1>4 DEF Coming, Unread
  <1>5. CASE Left(w, p) # row[p] /\ ~ToOpen(w, p)
    <2>1. job[w].path = p /\ pc[w] \in {"read", "upsert"} /\ Left(w, p) = job[w].info
      <3>1. job[w].path = p /\ pc[w] \in {"open", "read", "upsert"}
        BY <1>5 DEF Left
      <3>2. pc[w] # "open"
        BY <1>5, <3>1 DEF ToOpen
      <3>3. QED
        BY <3>1, <3>2 DEF Left
    <2>2. CASE Known(job[w].info, Stat(dir[p]))
      <3>1. job[w].info.file = a
        BY <2>2 DEF Known, Stat
      <3>2. job[w].fd = a
        BY <2>1, <3>1 DEF ImportInv, JobInv
      <3>3. Coming(w, p)' <= Coming(w, p) + 1
        BY <1>2 DEF Coming, Unread
      <3>4. QED
        BY <2>1, <3>2, <3>3
    <2>3. CASE ~Known(job[w].info, Stat(dir[p]))
      <3>1. Unread(Left(w, p), p) = 1
        BY <2>1, <2>3 DEF Unread
      <3>2. QED
        BY <1>2, <3>1 DEF Coming, Unread
    <2>4. QED
      BY <2>2, <2>3
  <1>6. QED
    BY <1>3, <1>4, <1>5

\* A source that is where it was will open what it would have.
LEMMA CauseSame ==
    ASSUME NEW w, NEW p, UNCHANGED <<fsVars, row>>, pc'[w] = pc[w],
           job'[w].path = job[w].path, job'[w].info = job[w].info
    PROVE  Coming(w, p)' = Coming(w, p)
  <1>0. UNCHANGED <<dir, blocks, ended, row>>
    BY DEF fsVars
  <1>1. Stat(dir[p])' = Stat(dir[p])
    BY <1>0 DEF Stat, Size
  <1>2. ToOpen(w, p)' <=> ToOpen(w, p)
    BY <1>0 DEF ToOpen, Known
  <1>3. Left(w, p)' = Left(w, p)
    BY <1>0, <1>2 DEF Left
  <1>4. QED
    BY <1>1, <1>2, <1>3 DEF Coming, Unread

LEMMA CauseCrash ==
    ASSUME TypeInv, TypeInv', ImportInv, NEW l \in Lines, CauseInv(l), Crash
    PROVE  CauseInv(l)'
  <1>0. l[1] \in Archives /\ DirSources \subseteq Readers /\ DirSources \subseteq Sources /\ NoFile \notin Archives
    BY CauseTypes, ArchiveConstants DEF Readers, Sources
  <1>1. /\ UNCHANGED <<fsVars, requests, row, made, dir>>
        /\ pc' = [w \in Readers |-> IF w \in Sources THEN "off" ELSE pc[w]]
        /\ job' = [w \in Readers |-> IF w \in Sources THEN NoJob ELSE job[w]]
        /\ Excuse({job[w].fd : w \in DirSources} \ {NoFile})
    BY DEF Crash, dbVars, fsVars
  <1>2. Pending(l)' \subseteq Pending(l) /\ requests'[l] = requests[l]
    BY <1>1 DEF Pending
  <1>3. Debt(l)' <= Debt(l)
    BY <1>2, DebtKeeps
  <1>4. Excused(l[1], 0) /\ \A w \in DirSources : job[w].fd = l[1] => Excused(l[1], 1)
    BY <1>0, <1>1, ExcuseBumps DEF TypeInv
  <1>5. \A w \in DirSources : pc'[w] = "off"
    BY <1>0, <1>1
  <1>6. ASSUME NEW w \in DirSources, NEW p \in Paths, dir'[p] = l[1]
        PROVE  /\ dir[p] = l[1]
               /\ \/ Coming(w, p)' <= Coming(w, p)
                  \/ Coming(w, p)' <= Coming(w, p) + 1 /\ Excused(l[1], 1)
    <2>1. dir[p] = l[1] /\ UNCHANGED <<fsVars, row>>
      BY <1>1, <1>6
    <2>2. pc'[w] \in {"off", "list", "idle"}
      BY <1>5
    <2>3. QED
      BY <1>0, <1>4, <2>1, <2>2, CauseReturns
  <1>7. QED
    BY <1>1, <1>3, <1>4, <1>6, CauseKeeps

\* At most one directory source matches the archives.
OneDirSource == \A v, w \in DirSources : v = w

\* The source w opens the archive of l, or one that is not the archive of l.
LEMMA CauseOpen ==
    ASSUME OneDirSource, TypeInv, TypeInv', ImportInv, NEW l \in Lines, CauseInv(l),
           NEW w \in DirSources, NEW p \in Paths, pc[w] = "open", job[w].path = p,
           Readable(p), UNCHANGED <<fsVars, dbVars, excuses>>, Opened(w, p)
    PROVE  CauseInv(l)'
  <1>0. l[1] \in Archives /\ w \in Readers /\ Excused(l[1], 0) /\ made' = made /\ dir' = dir
    BY CauseTypes, ArchiveConstants, ExcuseBumps DEF Readers, Sources, TypeInv, fsVars
  <1>1. /\ pc'[w] = "read" /\ job'[w].path = p /\ job'[w].info = job[w].info /\ job'[w].fd = dir[p]
        /\ \A v \in Readers : v # w => pc'[v] = pc[v] /\ job'[v] = job[v]
    BY <1>0 DEF Opened, TypeInv, TypeOK
  <1>2. requests'[l] = requests[l] /\ Pending(l)' \subseteq Pending(l) \cup {w}
    BY <1>1 DEF Pending, dbVars
  <1>3. \A v \in DirSources : v = w
    BY DEF OneDirSource
  <1>4. ~ToOpen(w, p)' /\ \A q \in Paths : ~ToOpen(w, q)'
    BY <1>1 DEF ToOpen
  <1>5. UNCHANGED <<fsVars, row>> /\ UNCHANGED <<dir, blocks, ended>>
    BY DEF fsVars, dbVars
  <1>6. CASE dir[p] = l[1]
    <2>1. ToOpen(w, p) /\ Left(w, p) = job[w].info /\ Left(w, p)' = job[w].info
      BY <1>1 DEF ToOpen, Left
    <2>2. Unread(Left(w, p), p)' = Unread(Left(w, p), p)
      BY <1>5, <2>1 DEF Unread, Stat, Size
    <2>3. Coming(w, p)' \in 0..1 /\ Coming(w, p) = Coming(w, p)' + 1
      BY <1>4, <2>1, <2>2 DEF Coming, Unread
    <2>4. Room(l, Coming(w, p)) /\ Debt(l)' <= Debt(l) + 1
      BY <1>2, <1>6, DebtOpened DEF CauseInv
    <2>5. Room(l, 0)'
      BY <1>0, <2>3, <2>4, RoomKeeps DEF Room
    <2>6. ~(l[1] > made')
      <3>1. l[1] \in 1..made
        BY <1>0, <1>6, ArchiveConstants DEF ImportInv, NamesInv
      <3>2. made \in Nat /\ l[1] \in Nat
        BY <3>1, ArchiveConstants DEF TypeInv, TypeOK
      <3>3. QED
        BY <1>0, <3>1, <3>2
    <2>7. ASSUME NEW q \in Paths, dir'[q] = l[1]
          PROVE  Room(l, Coming(w, q))'
      <3>1. q = p
        BY <1>0, <1>6, <2>7, ArchiveConstants DEF ImportInv, NamesInv
      <3>2. Coming(w, p)' + 1 <= Coming(w, p) + 0
        BY <2>3
      <3>3. Room(l, Coming(w, p))'
        BY <1>0, <2>3, <2>4, <3>2, RoomKeeps DEF Room
      <3>4. QED
        BY <3>1, <3>3
    <2>8. QED
      BY <1>3, <2>5, <2>6, <2>7 DEF CauseInv
  <1>7. CASE dir[p] # l[1]
    <2>1. w \notin Pending(l)'
      BY <1>1, <1>7 DEF Pending
    <2>2. Debt(l)' <= Debt(l)
      BY <1>2, <2>1, DebtKeeps
    <2>3. ASSUME NEW q \in Paths, dir'[q] = l[1]
          PROVE  dir[q] = l[1] /\ Coming(w, q)' <= Coming(w, q)
      <3>1. dir[q] = l[1] /\ q # p
        BY <1>0, <1>7, <2>3
      <3>2. ~ToOpen(w, q) /\ Left(w, q) = row[q] /\ Left(w, q)' = row[q]
        BY <1>1, <1>5, <3>1 DEF ToOpen, Left
      <3>3. Unread(Left(w, q), q)' = Unread(Left(w, q), q)
        BY <1>5, <3>2 DEF Unread, Stat, Size
      <3>4. QED
        BY <1>4, <3>1, <3>2, <3>3 DEF Coming, Unread
    <2>4. QED
      BY <1>0, <1>3, <2>2, <2>3, CauseKeeps
  <1>8. QED
    BY <1>6, <1>7

\* A file source or a command opens an archive, and has an excuse.
LEMMA CauseAsked ==
    ASSUME TypeInv, TypeInv', ImportInv, NEW l \in Lines, CauseInv(l),
           NEW w \in Readers \ DirSources, NEW p \in Paths, Readable(p),
           UNCHANGED <<fsVars, dbVars>>, Opened(w, p), Excuse({dir[p]})
    PROVE  CauseInv(l)'
  <1>0. /\ l[1] \in Archives /\ Excused(l[1], 0) /\ (dir[p] = l[1] => Excused(l[1], 1))
        /\ made' = made /\ dir' = dir /\ UNCHANGED <<fsVars, row>>
        /\ DirSources \subseteq Readers
    BY CauseTypes, ArchiveConstants, ExcuseBumps DEF Readers, Sources, TypeInv, fsVars, dbVars
  <1>1. /\ pc'[w] = "read" /\ job'[w].fd = dir[p]
        /\ \A v \in Readers : v # w => pc'[v] = pc[v] /\ job'[v] = job[v]
    BY <1>0 DEF Opened, TypeInv, TypeOK
  <1>2. requests'[l] = requests[l] /\ Pending(l)' \subseteq Pending(l) \cup {w}
    BY <1>1 DEF Pending, dbVars
  <1>3. \A v \in DirSources, q \in Paths : Coming(v, q)' = Coming(v, q)
    BY <1>0, <1>1, CauseSame
  <1>4. CASE dir[p] = l[1]
    <2>1. Debt(l)' <= Debt(l) + 1
      BY <1>2, DebtOpened
    <2>2. Room(l, 0)'
      BY <1>0, <1>4, <2>1, RoomKeeps DEF CauseInv, Room
    <2>3. l[1] > made' => Room(l, 1)'
      <3>1. l[1] > made' => Room(l, 1)
        BY <1>0 DEF CauseInv
      <3>2. QED
        BY <1>0, <1>4, <2>1, <3>1, RoomKeeps DEF Room
    <2>4. ASSUME NEW v \in DirSources, NEW q \in Paths, dir'[q] = l[1]
          PROVE  Room(l, Coming(v, q))'
      <3>1. Room(l, Coming(v, q)) /\ Coming(v, q) \in 0..2
        BY <1>0, <2>4, ComingType DEF CauseInv
      <3>2. Coming(v, q) + 1 <= Coming(v, q) + 1
        BY <3>1
      <3>3. QED
        BY <1>0, <1>3, <1>4, <2>1, <3>1, <3>2, RoomKeeps DEF Room
    <2>5. QED
      BY <2>2, <2>3, <2>4 DEF CauseInv
  <1>5. CASE dir[p] # l[1]
    <2>1. w \notin Pending(l)'
      BY <1>1, <1>5 DEF Pending
    <2>2. Debt(l)' <= Debt(l)
      BY <1>2, <2>1, DebtKeeps
    <2>3. \A v \in DirSources, q \in Paths : Coming(v, q)' <= Coming(v, q)
      BY <1>3, ComingType
    <2>4. QED
      BY <1>0, <2>2, <2>3, CauseKeeps
  <1>6. QED
    BY <1>4, <1>5

\* The other steps of a reader.
LEMMA CauseReader ==
    ASSUME OneDirSource, TypeInv, TypeInv', ImportInv, NEW l \in Lines, CauseInv(l), NEW w \in Readers,
           \/ Run(w) \/ Start(w) \/ Cancel(w) \/ Exit(w) \/ Fail(w)
           \/ \E p \in Paths : Import(w, p)
    PROVE  CauseInv(l)'
  <1>0. /\ l[1] \in Archives /\ DirSources \subseteq Readers /\ DirSources \subseteq Sources
        /\ DirSources \cap Commands = {} /\ DirSources \cap FileSources = {}
        /\ pc \in [Readers -> Steps] /\ job \in [Readers -> Jobs]
    <2>1. l[1] \in Archives
      BY CauseTypes
    <2>2. QED
      BY <2>1, ArchiveConstants DEF TypeInv, TypeOK, Steps, Readers, Sources
  \* A step that leaves the other readers where they are.
  <1>1. ASSUME UNCHANGED <<fsVars, row>>, Debt(l)' <= Debt(l), Excused(l[1], 0),
               \A v \in Readers : v # w => pc'[v] = pc[v] /\ job'[v] = job[v],
               w \in DirSources => \A p \in Paths : dir[p] = l[1] =>
                   \/ Coming(w, p)' <= Coming(w, p)
                   \/ Coming(w, p)' <= Coming(w, p) + 1 /\ Excused(l[1], 1)
        PROVE  CauseInv(l)'
    <2>1. made' = made /\ dir' = dir
      BY <1>1 DEF fsVars
    <2>2. ASSUME NEW v \in DirSources, NEW p \in Paths, dir[p] = l[1]
          PROVE  \/ Coming(v, p)' <= Coming(v, p)
                 \/ Coming(v, p)' <= Coming(v, p) + 1 /\ Excused(l[1], 1)
      <3>1. CASE v = w
        BY <1>1, <2>2, <3>1
      <3>2. CASE v # w
        <4>1. Coming(v, p)' = Coming(v, p)
          BY <1>0, <1>1, <3>2, CauseSame
        <4>2. QED
          BY <4>1, ComingType
      <3>3. QED
        BY <3>1, <3>2
    <2>3. QED
      BY <1>1, <2>1, <2>2, CauseKeeps
  \* A step after which a directory source is where it may list or stop.
  <1>2. ASSUME UNCHANGED <<fsVars, row>>, Debt(l)' <= Debt(l), Excused(l[1], 0),
               \A v \in Readers : v # w => pc'[v] = pc[v] /\ job'[v] = job[v],
               w \in DirSources => /\ pc'[w] \in {"off", "list", "idle"}
                                   /\ pc[w] \in {"read", "upsert"} /\ job[w].fd = l[1] => Excused(l[1], 1)
        PROVE  CauseInv(l)'
    <2>1. ASSUME w \in DirSources, NEW p \in Paths, dir[p] = l[1]
          PROVE  \/ Coming(w, p)' <= Coming(w, p)
                 \/ Coming(w, p)' <= Coming(w, p) + 1 /\ Excused(l[1], 1)
      BY <1>0, <1>2, <2>1, CauseReturns
    <2>2. QED
      BY <1>1, <1>2, <2>1
  \* A step that inserts nothing: a reader starts, stops, lists or looks.
  <1>3. ASSUME UNCHANGED <<requests, pc, job>> PROVE Debt(l)' <= Debt(l)
    <2>1. Pending(l)' \subseteq Pending(l) /\ requests'[l] = requests[l]
      BY <1>3 DEF Pending
    <2>2. QED
      BY <2>1, DebtKeeps
  <1>4. ASSUME UNCHANGED requests, \A v \in Readers : v # w => pc'[v] = pc[v] /\ job'[v] = job[v],
               pc'[w] # "read"
        PROVE  Debt(l)' <= Debt(l)
    <2>1. Pending(l)' \subseteq Pending(l) /\ requests'[l] = requests[l]
      BY <1>4 DEF Pending
    <2>2. QED
      BY <2>1, DebtKeeps
  <1>5. UNCHANGED excuses => Excused(l[1], 0)
    BY <1>0, ExcuseBumps DEF TypeInv
  <1>6. ASSUME Return(w)
        PROVE  /\ \A v \in Readers : v # w => pc'[v] = pc[v] /\ job'[v] = job[v]
               /\ pc'[w] \in {"off", "idle"}
    BY <1>0, <1>6 DEF Return
  <1>7. CASE Scan(w) \/ SkipAll(w) \/ Cancel(w)
    <2>1. UNCHANGED <<fsVars, row, requests, pc, job, excuses>>
      BY <1>7 DEF Scan, SkipAll, Cancel, dbVars
    <2>2. \A p \in Paths : Coming(w, p)' <= Coming(w, p)
      BY <2>1, CauseSame, ComingType
    <2>3. QED
      BY <1>1, <1>3, <1>5, <2>1, <2>2
  <1>8. CASE Start(w) \/ Exit(w) \/ ListSiblings(w)
    <2>1. /\ UNCHANGED <<fsVars, row, requests, job, excuses>>
          /\ pc[w] \in {"off", "list", "idle"}
      BY <1>8 DEF Start, Exit, ListSiblings, dbVars
    <2>2. pc' \in {[pc EXCEPT ![w] = "list"], [pc EXCEPT ![w] = "idle"], [pc EXCEPT ![w] = "off"]}
      BY <1>8 DEF Start, Exit, ListSiblings
    <2>3. /\ pc'[w] \in {"off", "list", "idle"}
          /\ \A v \in Readers : v # w => pc'[v] = pc[v] /\ job'[v] = job[v]
      BY <1>0, <2>1, <2>2
    <2>4. QED
      BY <1>2, <1>4, <1>5, <2>1, <2>3
  <1>9. CASE Fail(w)
    <2>1. /\ UNCHANGED <<fsVars, row, requests>> /\ Return(w)
          /\ Excuse(IF w \in DirSources THEN {job[w].fd} \ {NoFile} ELSE {})
      BY <1>9 DEF Fail, dbVars
    <2>2. Excused(l[1], 0) /\ (w \in DirSources /\ job[w].fd = l[1] => Excused(l[1], 1))
      BY <1>0, <2>1, ArchiveConstants, ExcuseBumps DEF TypeInv
    <2>3. QED
      BY <1>2, <1>4, <1>6, <2>1, <2>2
  <1>10. ASSUME NEW p \in Paths, Import(w, p) \/ OpenSibling(w, p) PROVE CauseInv(l)'
    <2>1. w \notin DirSources /\ UNCHANGED <<fsVars, dbVars>>
      BY <1>0, <1>10 DEF Import, OpenSibling
    <2>2. CASE Readable(p) /\ Opened(w, p) /\ Excuse({dir[p]})
      BY <2>1, <2>2, CauseAsked
    <2>3. CASE UNCHANGED <<pc, job, excuses>>
      BY <1>1, <1>3, <1>5, <2>1, <2>3 DEF dbVars
    <2>4. QED
      BY <1>10, <2>2, <2>3 DEF Import, OpenSibling
  <1>11. ASSUME NEW p \in Paths, Visit(w, p) PROVE CauseInv(l)'
    <2>1. UNCHANGED <<fsVars, row, requests, excuses>> /\ pc[w] = "idle"
      BY <1>11 DEF Visit, dbVars
    <2>2. CASE dir[p] = NoFile
      <3>1. UNCHANGED <<pc, job>>
        BY <1>11, <2>2 DEF Visit
      <3>2. \A q \in Paths : Coming(w, q)' <= Coming(w, q)
        BY <2>1, <3>1, CauseSame, ComingType
      <3>3. QED
        BY <1>1, <1>3, <1>5, <2>1, <3>1, <3>2
    <2>3. CASE dir[p] # NoFile
      <3> DEFINE found == [NoJob EXCEPT !.path = p, !.info = Stat(dir[p])]
      <3>1. pc' = [pc EXCEPT ![w] = "state"] /\ job' = [job EXCEPT ![w] = found]
        BY <1>11, <2>3 DEF Visit
      <3>2. found.path = p /\ found.info = Stat(dir[p])
        BY DEF NoJob
      <3> HIDE DEF found
      <3>3. /\ pc'[w] = "state" /\ job'[w].path = p /\ job'[w].info = Stat(dir[p])
            /\ \A v \in Readers : v # w => pc'[v] = pc[v] /\ job'[v] = job[v]
        BY <1>0, <3>1, <3>2
      <3>4. UNCHANGED <<dir, blocks, ended, row>>
        BY <2>1 DEF fsVars
      <3>5. ASSUME NEW q \in Paths PROVE Coming(w, q)' <= Coming(w, q)
        <4>1. ~ToOpen(w, q) /\ Left(w, q) = row[q]
          BY <2>1 DEF ToOpen, Left
        <4>2. CASE q # p \/ Known(row[q], Stat(dir[q]))
          <5>1. ~ToOpen(w, q)'
            BY <3>3, <3>4, <4>2 DEF ToOpen, Known
          <5>2. Left(w, q)' = row[q]
            BY <3>3, <3>4, <5>1 DEF Left
          <5>3. Unread(Left(w, q), q)' = Unread(Left(w, q), q)
            BY <3>4, <4>1, <5>2 DEF Unread, Stat, Size
          <5>4. QED
            BY <4>1, <5>1, <5>3 DEF Coming, Unread
        <4>3. CASE q = p /\ ~Known(row[q], Stat(dir[q]))
          <5>1. Coming(w, q) = 1
            BY <4>1, <4>3 DEF Coming, Unread
          <5>2. ToOpen(w, q)'
            BY <3>3, <3>4, <4>3 DEF ToOpen, Known
          <5>3. Left(w, q)' = Stat(dir[q])
            BY <3>3, <4>3, <5>2 DEF Left
          <5>4. Stat(dir[q]) \in Stats
            BY <2>3, <4>3, StatType DEF TypeInv, TypeOK
          <5>5. Stat(dir[q]) # NoRow /\ Stat(dir[q]).size >= Stat(dir[q]).size
            BY <5>4, ArchiveConstants DEF Stats
          <5>6. Unread(Left(w, q), q)' = 0
            BY <3>4, <5>3, <5>5 DEF Unread, Known, Stat, Size
          <5>7. QED
            BY <5>1, <5>6 DEF Coming
        <4>4. QED
          BY <4>2, <4>3
      <3>6. Debt(l)' <= Debt(l)
        BY <1>4, <2>1, <3>3
      <3>7. QED
        BY <1>1, <1>5, <2>1, <3>3, <3>5, <3>6
    <2>4. QED
      BY <2>2, <2>3
  <1>12. CASE GetFileState(w)
    <2>1. UNCHANGED <<fsVars, row, requests, excuses>> /\ pc[w] = "state"
      BY <1>12 DEF GetFileState, dbVars
    <2>2. CASE Return(w)
      BY <1>2, <1>4, <1>5, <1>6, <2>1, <2>2
    <2>3. CASE ~Imported(row[job[w].path], job[w].info) /\ pc' = [pc EXCEPT ![w] = "open"] /\ UNCHANGED job
      <3>1. /\ pc'[w] = "open" /\ job'[w] = job[w]
            /\ \A v \in Readers : v # w => pc'[v] = pc[v] /\ job'[v] = job[v]
        BY <1>0, <2>3
      <3>2. UNCHANGED <<dir, blocks, ended, row>>
        BY <2>1 DEF fsVars
      <3>3. ASSUME NEW p \in Paths PROVE Coming(w, p)' <= Coming(w, p)
        <4>1. ToOpen(w, p)' <=> ToOpen(w, p)
          BY <2>1, <2>3, <3>1 DEF ToOpen, Known, Imported
        <4>2. Left(w, p)' = Left(w, p)
          BY <2>1, <2>3, <3>1, <3>2, <4>1 DEF Left, ToOpen
        <4>3. Stat(dir[p])' = Stat(dir[p])
          BY <3>2 DEF Stat, Size
        <4>4. QED
          BY <4>1, <4>2, <4>3 DEF Coming, Unread
      <3>4. Debt(l)' <= Debt(l)
        BY <1>4, <2>1, <3>1
      <3>5. QED
        BY <1>1, <1>5, <2>1, <3>1, <3>3, <3>4
    <2>4. QED
      BY <1>12, <2>2, <2>3 DEF GetFileState
  <1>13. CASE Open(w)
    <2>1. /\ UNCHANGED <<fsVars, dbVars, excuses>> /\ pc[w] = "open"
          /\ w \in DirSources /\ job[w].path \in Paths
      BY <1>13 DEF Open, TypeInv, JobTypes
    <2>2. CASE Return(w)
      BY <1>2, <1>4, <1>5, <1>6, <2>1, <2>2 DEF dbVars
    <2>3. CASE Readable(job[w].path) /\ Opened(w, job[w].path)
      BY <2>1, <2>3, CauseOpen
    <2>4. QED
      BY <1>13, <2>2, <2>3 DEF Open
  <1>14. CASE Upsert(w)
    <2>1. /\ UNCHANGED <<fsVars, requests, excuses>> /\ Return(w) /\ pc[w] = "upsert"
          /\ row' = [row EXCEPT ![job[w].path] = job[w].info]
          /\ w \in DirSources /\ job[w].path \in Paths
      BY <1>14 DEF Upsert, TypeInv, JobTypes
    <2>2. Debt(l)' <= Debt(l)
      BY <1>4, <1>6, <2>1
    <2>3. UNCHANGED <<dir, made, blocks, ended>>
      BY <2>1 DEF fsVars
    <2>4. ASSUME NEW p \in Paths PROVE Coming(w, p)' <= Coming(w, p)
      <3>1. ~ToOpen(w, p) /\ ~ToOpen(w, p)'
        BY <1>6, <2>1 DEF ToOpen
      <3>2. Left(w, p)' = Left(w, p)
        BY <1>6, <2>1, <3>1 DEF Left, TypeInv, TypeOK
      <3>3. Stat(dir[p])' = Stat(dir[p])
        BY <2>3 DEF Stat, Size
      <3>4. QED
        BY <3>1, <3>2, <3>3 DEF Coming, Unread
    <2>5. \A v \in DirSources : v = w
      BY <2>1 DEF OneDirSource
    <2>6. QED
      BY <1>5, <2>1, <2>2, <2>3, <2>4, <2>5, CauseKeeps
  <1>15. CASE ReadBatch(w)
    <2> DEFINE read == [job[w] EXCEPT !.pos = job[w].pos + BatchSize]
    <2>1. /\ pc[w] = "read" /\ job[w] \in Jobs
          /\ InsertLines(job[w].fd, job[w].pos, job[w].pos + BatchSize)
          /\ UNCHANGED <<fsVars, row, pc, excuses>>
      BY <1>0, <1>15 DEF ReadBatch
    <2>2. job' = [job EXCEPT ![w] = read]
      BY <1>15 DEF ReadBatch
    <2>3. /\ read.fd = job[w].fd /\ read.path = job[w].path /\ read.info = job[w].info
          /\ read.pos = job[w].pos + BatchSize
      BY <2>1 DEF Jobs
    <2> HIDE DEF read
    <2>4. job'[w] = read /\ \A v \in Readers : v # w => pc'[v] = pc[v] /\ job'[v] = job[v]
      BY <1>0, <2>1, <2>2
    <2>5. job[w].pos \in Int /\ BatchSize \in Nat /\ l[2] \in Int
      BY <2>1, CauseTypes, ArchiveConstants DEF Jobs
    <2>6. Pending(l)' \subseteq Pending(l) /\ (l[2] <= job[w].pos + BatchSize => w \notin Pending(l)')
      BY <2>1, <2>3, <2>4, <2>5 DEF Pending
    <2>7. Debt(l)' <= Debt(l)
      BY <2>1, <2>5, <2>6, DebtRead
    <2>8. \A p \in Paths : Coming(w, p)' <= Coming(w, p)
      BY <2>1, <2>3, <2>4, CauseSame, ComingType
    <2>9. QED
      BY <1>1, <1>5, <2>1, <2>4, <2>7, <2>8
  <1>16. CASE ReadRest(w)
    <2> DEFINE a == job[w].fd
    <2>0. PICK n \in job[w].pos..MaxLines : InsertLines(a, job[w].pos, n) /\ EndRead(w, n)
      BY <1>16 DEF ReadRest
    <2>1. /\ pc[w] = "read" /\ a \in Archives
          /\ InsertLines(a, job[w].pos, n)
          /\ UNCHANGED <<fsVars, row>>
          /\ Excuse(IF w \in DirSources /\ ~AtEnd(a, n) THEN {a} ELSE {})
      BY <1>16, <2>0 DEF ReadRest, EndRead, TypeInv, JobTypes
    <2>2. \/ w \in DirSources /\ AtEnd(a, n) /\ pc' = [pc EXCEPT ![w] = "upsert"] /\ UNCHANGED job
          \/ ~(w \in DirSources /\ AtEnd(a, n)) /\ Return(w)
      BY <2>0 DEF EndRead
    <2>3. /\ pc'[w] # "read"
          /\ \A v \in Readers : v # w => pc'[v] = pc[v] /\ job'[v] = job[v]
      BY <1>0, <1>6, <2>2
    <2>4. Debt(l)' <= Debt(l)
      <3>1. Pending(l)' \subseteq Pending(l) /\ w \notin Pending(l)'
        BY <2>3 DEF Pending
      <3>2. n \in Int
        OBVIOUS
      <3>3. QED
        BY <2>1, <3>1, <3>2, DebtRead
    <2>5. Excused(l[1], 0) /\ (w \in DirSources /\ ~AtEnd(a, n) /\ a = l[1] => Excused(l[1], 1))
      BY <1>0, <2>1, ExcuseBumps DEF TypeInv
    <2>6. CASE Return(w) /\ ~(w \in DirSources /\ AtEnd(a, n))
      BY <1>2, <1>6, <2>1, <2>3, <2>4, <2>5, <2>6
    <2>7. CASE w \in DirSources /\ AtEnd(a, n) /\ pc' = [pc EXCEPT ![w] = "upsert"] /\ UNCHANGED job
      <3>1. pc'[w] = "upsert" /\ job'[w] = job[w]
        BY <1>0, <2>7
      <3>2. UNCHANGED <<dir, blocks, ended, row>>
        BY <2>1 DEF fsVars
      <3>3. ASSUME NEW p \in Paths PROVE Coming(w, p)' <= Coming(w, p)
        <4>1. ~ToOpen(w, p) /\ ~ToOpen(w, p)'
          BY <2>1, <3>1 DEF ToOpen
        <4>2. Left(w, p)' = Left(w, p)
          BY <2>1, <3>1, <3>2, <4>1 DEF Left
        <4>3. Stat(dir[p])' = Stat(dir[p])
          BY <3>2 DEF Stat, Size
        <4>4. QED
          BY <4>1, <4>2, <4>3 DEF Coming, Unread
      <3>4. QED
        BY <1>1, <2>1, <2>3, <2>4, <2>5, <3>3
    <2>8. QED
      BY <2>2, <2>6, <2>7
  <1>17. QED
    BY <1>7, <1>8, <1>9, <1>10, <1>11, <1>12, <1>13, <1>14, <1>15, <1>16 DEF Run

LEMMA CausesInit == Init => CausesInv
  <1> SUFFICES ASSUME Init, NEW l \in Lines PROVE CauseInv(l)
    BY DEF CausesInv
  <1>1. TypeInv
    BY TypeInit
  <1>2. Pending(l) = {} /\ requests[l] = 0 /\ excuses[l[1]] = 0
    BY CauseTypes, <1>1 DEF Init, Pending
  <1>3. Debt(l) = 0
    BY <1>2, FS_EmptySet DEF Debt
  <1>4. Room(l, 0) /\ Room(l, 1)
    BY <1>2, <1>3 DEF Room
  <1>5. \A p \in Paths : dir[p] # l[1]
    BY <1>1, CauseTypes, ArchiveConstants DEF Init
  <1>6. QED
    BY <1>4, <1>5 DEF CauseInv

\* A line of an archive is inserted again only with a reason, however the scans,
\* the other readers and logrotate interleave, which inodes are used again and
\* which lines are too long, if one directory source matches it (handleFile and
\* importCompressed, dir.go).
THEOREM ImportCauses == OneDirSource => (Spec => []RepeatsHaveACause)
  <1> SUFFICES ASSUME OneDirSource PROVE Spec => []RepeatsHaveACause
    OBVIOUS
  <1>1. Init => ImportInv
    BY DEF Init, ImportInv, NamesInv, RowsInv, JobInv, Readers, Sources
  <1>2. TypeInv /\ TypeInv' /\ ImportInv /\ CausesInv /\ [Next]_vars => CausesInv'
    <2> SUFFICES ASSUME TypeInv, TypeInv', ImportInv, CausesInv, [Next]_vars, NEW l \in Lines
                 PROVE  CauseInv(l)'
      BY DEF CausesInv
    <2>0. CauseInv(l)
      BY DEF CausesInv
    <2>1. CASE UNCHANGED vars
      <3>1. UNCHANGED <<fsVars, row, requests, pc, job, made, dir, excuses>>
        BY <2>1 DEF vars, fsVars, dbVars
      <3>2. Pending(l)' \subseteq Pending(l) /\ requests'[l] = requests[l]
        BY <3>1 DEF Pending
      <3>3. Debt(l)' <= Debt(l) /\ Excused(l[1], 0)
        BY <3>1, <3>2, DebtKeeps, ExcuseBumps, CauseTypes DEF TypeInv
      <3>4. \A w \in DirSources, p \in Paths : Coming(w, p)' <= Coming(w, p)
        BY <3>1, CauseSame, ComingType
      <3>5. QED
        BY <2>0, <3>1, <3>3, <3>4, CauseKeeps
    <2>2. CASE Logrotate
      BY <2>0, <2>2, CauseLogrotate
    <2>3. CASE Crash
      BY <2>0, <2>3, CauseCrash
    <2>4. QED
      BY <2>0, <2>1, <2>2, <2>3, CauseReader DEF Next
  <1>3. TypeInv /\ CausesInv => RepeatsHaveACause
    <2> SUFFICES ASSUME TypeInv, CausesInv, NEW l \in Lines PROVE requests[l] <= 1 + excuses[l[1]]
      BY DEF RepeatsHaveACause
    <2>1. Room(l, 0)
      BY DEF CausesInv, CauseInv
    <2>2. QED
      BY <2>1, CauseTypes, ArchiveConstants DEF Room, Debt
  <1>4. QED
    BY TypeInit, TypeStep, <1>1, ImportStep, CausesInit, <1>2, <1>3, PTL DEF Spec
=============================================================================
