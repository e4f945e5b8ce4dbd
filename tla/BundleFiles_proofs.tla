-------------------------- MODULE BundleFiles_proofs --------------------------
(***************************************************************************)
(* Proofs about BundleFiles, for any number of transforms, of modules and  *)
(* of worklets with the same hash, and any lengths of files.               *)
(*                                                                         *)
(* A file that several contents of one length claim is what its last       *)
(* writer has left: the inductive invariant says how long it can be while  *)
(* it has writers, and that it is a whole content when it has none.        *)
(***************************************************************************)
EXTENDS BundleFiles, SequenceTheorems, TLAPS

EmittedFile == [hash : Hashes, content : Contents]

(* What a transform has written, and the file it has open, are there.      *)
OpenedPresent ==
  \A t \in Transforms :
    /\ pc[t] # "idle" => \A i \in 1..(index[t] - 1) : disk[Files[job[t]][i].hash] # Absent
    /\ pc[t] = "write" => disk[File(t).hash] # Absent

ServedPresent == \A m \in served : \A f \in FilesOf(m) : disk[f.hash] # Absent

(* All that would be written to a file has one length.                     *)
Uniform(h) == \A c, d \in Claims(h) : Size[c] = Size[d]

UniformFiles ==
  \A h \in Hashes :
    Uniform(h) /\ disk[h] # Absent =>
      /\ \A c \in Claims(h) : Len(disk[h]) <= Size[c]
      /\ Writers(h) = {} /\ h \notin spoiled => \E c \in Claims(h) : disk[h] = Whole(c)

IInv == TypeOK /\ OpenedPresent /\ ServedPresent /\ UniformFiles

-----------------------------------------------------------------------------
(* The files of a module, and that each claims its name.                   *)
LEMMA ModuleFiles ==
  ASSUME NEW m \in Modules
  PROVE  /\ Files[m] \in Seq(EmittedFile) /\ Len(Files[m]) \in Nat
         /\ \A i \in 1..Len(Files[m]) :
              /\ Files[m][i] \in EmittedFile /\ Files[m][i] \in FilesOf(m)
              /\ Files[m][i].content \in Claims(Files[m][i].hash)
<1>1. Files[m] \in Seq(EmittedFile) /\ Len(Files[m]) \in Nat
  <2>1. Files \in [Modules -> Seq(EmittedFile)]
    BY FilesAssumption DEF EmittedFile
  <2>2. Files[m] \in Seq(EmittedFile)
    BY <2>1
  <2> QED
    BY <2>2, LenProperties
<1>2. DOMAIN Files[m] = 1..Len(Files[m])
  BY <1>1
<1>3. ASSUME NEW i \in 1..Len(Files[m])
      PROVE  Files[m][i] \in EmittedFile /\ Files[m][i] \in FilesOf(m)
  BY <1>1, <1>2 DEF FilesOf
<1>4. ASSUME NEW i \in 1..Len(Files[m])
      PROVE  Files[m][i].content \in Claims(Files[m][i].hash)
  BY <1>3 DEF Claims
<1> QED
  BY <1>1, <1>3, <1>4

(* A claim is a content, and its length positive.                          *)
LEMMA ClaimedContent ==
  ASSUME NEW h \in Hashes, NEW c \in Claims(h)
  PROVE  c \in Contents /\ Size[c] \in Nat \ {0}
<1>1. PICK m \in Modules : \E f \in FilesOf(m) : f.content = c
  BY DEF Claims
<1>2. PICK f \in FilesOf(m) : f.content = c
  BY <1>1
<1>3. f \in EmittedFile
  BY ModuleFiles DEF FilesOf
<1> QED
  BY <1>2, <1>3, SizeAssumption DEF EmittedFile

(* The file that a transform is at.                                        *)
LEMMA CurrentFile ==
  ASSUME TypeOK, NEW t \in Transforms, pc[t] # "idle"
  PROVE  /\ job[t] \in Modules /\ index[t] \in 1..Len(Files[job[t]])
         /\ File(t) \in EmittedFile /\ File(t).hash \in Hashes /\ File(t).content \in Contents
         /\ File(t).content \in Claims(File(t).hash)
         /\ Size[File(t).content] \in Nat \ {0}
<1>1. job[t] \in Modules /\ index[t] \in 1..Len(Files[job[t]])
  BY DEF TypeOK
<1>2. File(t) \in EmittedFile /\ File(t).content \in Claims(File(t).hash)
  BY <1>1, ModuleFiles DEF File
<1> QED
  BY <1>1, <1>2, SizeAssumption DEF EmittedFile

(* Blocks at the start of a file.                                          *)
LEMMA OverwrittenFile ==
  ASSUME NEW old \in Seq(Contents), NEW c \in Contents, NEW blocks \in Nat
  PROVE  /\ Overwritten(old, c, blocks) \in Seq(Contents)
         /\ Len(old) <= blocks => Overwritten(old, c, blocks) = [i \in 1..blocks |-> c]
         /\ \A n \in Nat : Len(old) <= n /\ blocks <= n => Len(Overwritten(old, c, blocks)) <= n
<1>1. Len(old) \in Nat /\ \A i \in 1..Len(old) : old[i] \in Contents
  OBVIOUS
<1>2. CASE Len(old) <= blocks
  <2>1. Overwritten(old, c, blocks) = [i \in 1..blocks |-> c]
    <3>1. (IF Len(old) > blocks THEN Len(old) ELSE blocks) = blocks
      BY <1>1, <1>2
    <3> QED
      BY <3>1 DEF Overwritten
  <2>2. [i \in 1..blocks |-> c] \in Seq(Contents) /\ Len([i \in 1..blocks |-> c]) = blocks
    OBVIOUS
  <2> QED
    BY <2>1, <2>2
<1>3. CASE ~(Len(old) <= blocks)
  <2> DEFINE new == [i \in 1..Len(old) |-> IF i <= blocks THEN c ELSE old[i]]
  <2>1. Overwritten(old, c, blocks) = new
    <3>1. (IF Len(old) > blocks THEN Len(old) ELSE blocks) = Len(old)
      BY <1>1, <1>3
    <3> QED
      BY <3>1 DEF Overwritten
  <2>2. new \in Seq(Contents) /\ Len(new) = Len(old)
    BY <1>1
  <2> QED
    BY <1>1, <1>3, <2>1, <2>2
<1> QED
  BY <1>2, <1>3

-----------------------------------------------------------------------------
(* Types.                                                                  *)
LEMMA InitType == Init => TypeOK
  BY DEF Init, TypeOK

(* The end of a file, in a successful write.                               *)
LEMMA NextFileType ==
  ASSUME TypeOK, NEW t \in Transforms, pc[t] = "write", NextFile(t), job' = job
  PROVE  /\ pc' \in [Transforms -> {"idle", "create", "open", "write"}]
         /\ index' \in [Transforms -> Nat]
         /\ \A u \in Transforms : pc'[u] # "idle" => index'[u] \in 1..Len(Files[job'[u]])
         /\ served' \subseteq Modules
<1>1. job[t] \in Modules /\ index[t] \in 1..Len(Files[job[t]])
  BY CurrentFile
<1>2. Len(Files[job[t]]) \in Nat
  BY <1>1, ModuleFiles
<1>3. CASE index[t] = Len(Files[job[t]])
  BY <1>1, <1>3 DEF NextFile, TypeOK
<1>4. CASE index[t] # Len(Files[job[t]])
  <2>1. /\ pc' = [pc EXCEPT ![t] = "create"] /\ index' = [index EXCEPT ![t] = @ + 1]
        /\ served' = served
    BY <1>4 DEF NextFile
  <2>2. index[t] + 1 \in 1..Len(Files[job[t]])
    BY <1>1, <1>2, <1>4
  <2>3. ASSUME NEW u \in Transforms, pc'[u] # "idle" PROVE index'[u] \in 1..Len(Files[job'[u]])
    <3>1. CASE u = t
      BY <2>1, <2>2, <3>1 DEF TypeOK
    <3>2. CASE u # t
      BY <2>1, <2>3, <3>2 DEF TypeOK
    <3> QED
      BY <3>1, <3>2
  <2> QED
    BY <2>1, <2>3, <1>1 DEF TypeOK
<1> QED
  BY <1>3, <1>4

(* A block-wise write to the open file.                                    *)
LEMMA DiskType ==
  ASSUME TypeOK, OpenedPresent, NEW t \in Transforms, pc[t] = "write", NEW blocks \in Nat,
         disk' = [disk EXCEPT ![File(t).hash] = Overwritten(@, File(t).content, blocks)]
  PROVE  /\ disk' \in [Hashes -> Seq(Contents) \cup {Absent}]
         /\ \A h \in Hashes : disk[h] # Absent => disk'[h] # Absent
<1>1. File(t).hash \in Hashes /\ File(t).content \in Contents
  BY CurrentFile
<1>2. disk[File(t).hash] \in Seq(Contents)
  BY <1>1 DEF TypeOK, OpenedPresent
<1>3. Overwritten(disk[File(t).hash], File(t).content, blocks) \in Seq(Contents)
  BY <1>1, <1>2, OverwrittenFile
<1> QED
  BY <1>1, <1>3, AbsentAssumption DEF TypeOK

(* Every step keeps the types.                                             *)
LEMMA StepType == TypeOK /\ OpenedPresent /\ [Next]_vars => TypeOK'
<1> SUFFICES ASSUME TypeOK, OpenedPresent, [Next]_vars PROVE TypeOK'
  OBVIOUS
<1>1. ASSUME NEW t \in Transforms, NEW m \in Modules, Begin(t, m) PROVE TypeOK'
  <2>1. Files[m] = << >> \/ 1 \in 1..Len(Files[m])
    BY ModuleFiles, EmptySeq
  <2> QED
    BY <1>1, <2>1 DEF Begin, TypeOK
<1>2. ASSUME NEW t \in Transforms, CreateDirectory(t) PROVE TypeOK'
  BY <1>2 DEF CreateDirectory, TypeOK
<1>3. ASSUME NEW t \in Transforms, Open(t) PROVE TypeOK'
  <2>1. File(t).hash \in Hashes
    BY <1>3, CurrentFile DEF Open
  <2> QED
    BY <1>3, <2>1 DEF Open, TypeOK
<1>4. ASSUME NEW t \in Transforms, Write(t) PROVE TypeOK'
  <2>1. pc[t] = "write" /\ job' = job /\ NextFile(t) /\ Size[File(t).content] \in Nat
    BY <1>4, CurrentFile DEF Write
  <2>2. disk' \in [Hashes -> Seq(Contents) \cup {Absent}]
    BY <1>4, <2>1, DiskType DEF Write
  <2> QED
    BY <1>4, <2>1, <2>2, NextFileType DEF Write, TypeOK
<1>5. ASSUME NEW t \in Transforms, Fail(t) PROVE TypeOK'
  <2>1. File(t).hash \in Hashes /\ Size[File(t).content] \in Nat \ {0}
    BY <1>5, CurrentFile DEF Fail, LeaveFile
  <2>2. disk' \in [Hashes -> Seq(Contents) \cup {Absent}]
    <3>1. CASE pc[t] = "write"
      <4>1. PICK blocks \in 0..(Size[File(t).content] - 1) :
              disk' = [disk EXCEPT ![File(t).hash] = Overwritten(@, File(t).content, blocks)]
        BY <1>5, <3>1 DEF Fail, LeaveFile
      <4>2. blocks \in Nat
        BY <2>1
      <4> QED
        BY <3>1, <4>1, <4>2, DiskType
    <3>2. CASE pc[t] # "write"
      BY <1>5, <3>2 DEF Fail, LeaveFile, TypeOK
    <3> QED
      BY <3>1, <3>2
  <2> QED
    BY <1>5, <2>1, <2>2 DEF Fail, LeaveFile, TypeOK
<1>6. CASE UNCHANGED vars
  BY <1>6 DEF vars, TypeOK
<1> QED
  BY <1>1, <1>2, <1>3, <1>4, <1>5, <1>6 DEF Next

-----------------------------------------------------------------------------
(* Files that are there stay there.                                        *)
LEMMA FilesStay ==
  ASSUME TypeOK, OpenedPresent, [Next]_vars, NEW h \in Hashes, disk[h] # Absent
  PROVE  disk'[h] # Absent
<1>1. ASSUME NEW t \in Transforms, Open(t) PROVE disk'[h] # Absent
  <2>1. << >> # Absent
    BY AbsentAssumption, EmptySeq
  <2> QED
    BY <1>1, <2>1 DEF Open, TypeOK
<1>2. ASSUME NEW t \in Transforms, Write(t) PROVE disk'[h] # Absent
  <2>1. pc[t] = "write" /\ Size[File(t).content] \in Nat
    BY <1>2, CurrentFile DEF Write
  <2> QED
    BY <1>2, <2>1, DiskType DEF Write
<1>3. ASSUME NEW t \in Transforms, Fail(t) PROVE disk'[h] # Absent
  <2>1. CASE pc[t] = "write"
    <3>1. PICK blocks \in 0..(Size[File(t).content] - 1) :
            disk' = [disk EXCEPT ![File(t).hash] = Overwritten(@, File(t).content, blocks)]
      BY <1>3, <2>1 DEF Fail, LeaveFile
    <3>2. blocks \in Nat
      BY <2>1, CurrentFile
    <3> QED
      BY <2>1, <3>1, <3>2, DiskType
  <2> QED
    BY <1>3, <2>1 DEF Fail, LeaveFile
<1>4. ASSUME UNCHANGED disk PROVE disk'[h] # Absent
  BY <1>4
<1> QED
  BY <1>1, <1>2, <1>3, <1>4 DEF Next, Begin, CreateDirectory, vars

(* A transform writes to the files that it has gone past.                  *)
LEMMA OpenedStep == TypeOK /\ OpenedPresent /\ [Next]_vars => OpenedPresent'
<1> SUFFICES ASSUME TypeOK, OpenedPresent, [Next]_vars, NEW u \in Transforms
             PROVE  /\ pc'[u] # "idle" =>
                         \A i \in 1..(index'[u] - 1) : disk'[Files[job'[u]][i].hash] # Absent
                    /\ pc'[u] = "write" => disk'[Files[job'[u]][index'[u]].hash] # Absent
  BY DEF OpenedPresent, File
<1> DEFINE Past   == \A i \in 1..(index'[u] - 1) : disk'[Files[job'[u]][i].hash] # Absent
           Opened == pc'[u] = "write" => disk'[Files[job'[u]][index'[u]].hash] # Absent
<1>1. ASSUME pc[u] # "idle" PROVE \A i \in 1..Len(Files[job[u]]) : Files[job[u]][i].hash \in Hashes
  BY <1>1, CurrentFile, ModuleFiles DEF EmittedFile
<1>2. ASSUME pc[u] # "idle", job'[u] = job[u], index'[u] = index[u] PROVE Past
  <2>1. index[u] \in 1..Len(Files[job[u]]) /\ Len(Files[job[u]]) \in Nat
    BY <1>2, CurrentFile, ModuleFiles
  <2>2. \A i \in 1..(index[u] - 1) : i \in 1..Len(Files[job[u]])
    BY <2>1
  <2> QED
    BY <1>1, <1>2, <2>2, FilesStay DEF OpenedPresent
<1>3. ASSUME pc[u] = "write", job'[u] = job[u], index'[u] = index[u] PROVE Opened
  BY <1>3, CurrentFile, FilesStay DEF OpenedPresent, File
<1>4. ASSUME UNCHANGED <<job, pc, index>> PROVE (pc'[u] # "idle" => Past) /\ Opened
  BY <1>2, <1>3, <1>4
<1>5. ASSUME NEW t \in Transforms, t # u,
             job'[u] = job[u], pc'[u] = pc[u], index'[u] = index[u]
      PROVE  (pc'[u] # "idle" => Past) /\ Opened
  BY <1>2, <1>3, <1>5
<1>6. ASSUME NEW t \in Transforms, NEW m \in Modules, Begin(t, m)
      PROVE  (pc'[u] # "idle" => Past) /\ Opened
  <2>1. CASE t = u
    <3>1. index'[u] = 1 /\ pc'[u] # "write"
      BY <1>6, <2>1 DEF Begin, TypeOK
    <3> QED
      BY <3>1
  <2>2. CASE t # u
    BY <1>5, <1>6, <2>2 DEF Begin, TypeOK
  <2> QED
    BY <2>1, <2>2
<1>7. ASSUME NEW t \in Transforms, CreateDirectory(t)
      PROVE  (pc'[u] # "idle" => Past) /\ Opened
  <2>1. CASE t = u
    BY <1>2, <1>7, <2>1 DEF CreateDirectory, TypeOK
  <2>2. CASE t # u
    BY <1>5, <1>7, <2>2 DEF CreateDirectory, TypeOK
  <2> QED
    BY <2>1, <2>2
<1>8. ASSUME NEW t \in Transforms, Open(t)
      PROVE  (pc'[u] # "idle" => Past) /\ Opened
  <2>1. CASE t = u
    <3>1. pc[u] = "open" /\ job' = job /\ index' = index
      BY <1>8, <2>1 DEF Open
    <3>2. File(u).hash \in Hashes /\ disk'[File(u).hash] = << >>
      BY <1>8, <2>1, <3>1, CurrentFile DEF Open, TypeOK
    <3>3. << >> # Absent
      BY AbsentAssumption, EmptySeq
    <3> QED
      BY <1>2, <3>1, <3>2, <3>3 DEF File
  <2>2. CASE t # u
    BY <1>5, <1>8, <2>2 DEF Open, TypeOK
  <2> QED
    BY <2>1, <2>2
<1>9. ASSUME NEW t \in Transforms, Write(t)
      PROVE  (pc'[u] # "idle" => Past) /\ Opened
  <2>1. CASE t = u
    <3>1. pc[u] = "write" /\ job' = job /\ NextFile(u) /\ pc'[u] # "write"
      BY <1>9, <2>1 DEF Write, NextFile, TypeOK
    <3>2. CASE index[u] = Len(Files[job[u]])
      BY <3>1, <3>2 DEF NextFile, TypeOK
    <3>3. CASE index[u] # Len(Files[job[u]])
      <4>1. index'[u] = index[u] + 1
        BY <3>1, <3>3 DEF NextFile, TypeOK
      <4>2. index[u] \in 1..Len(Files[job[u]]) /\ index[u] \in Nat
        BY <3>1, CurrentFile DEF TypeOK
      <4>3. ASSUME NEW i \in 1..(index'[u] - 1) PROVE disk'[Files[job[u]][i].hash] # Absent
        <5>1. i \in 1..(index[u] - 1) \/ i = index[u]
          BY <4>1, <4>2
        <5>2. i \in 1..Len(Files[job[u]])
          BY <4>2, <5>1, <3>1, CurrentFile, ModuleFiles
        <5>3. disk[Files[job[u]][i].hash] # Absent
          BY <3>1, <5>1 DEF OpenedPresent, File
        <5> QED
          BY <1>1, <3>1, <5>2, <5>3, FilesStay
      <4> QED
        BY <3>1, <4>3
    <3> QED
      BY <3>2, <3>3
  <2>2. CASE t # u
    BY <1>5, <1>9, <2>2 DEF Write, NextFile, TypeOK
  <2> QED
    BY <2>1, <2>2
<1>10. ASSUME NEW t \in Transforms, Fail(t)
       PROVE  (pc'[u] # "idle" => Past) /\ Opened
  <2>1. CASE t = u
    BY <1>10, <2>1 DEF Fail, LeaveFile, TypeOK
  <2>2. CASE t # u
    BY <1>5, <1>10, <2>2 DEF Fail, LeaveFile, TypeOK
  <2> QED
    BY <2>1, <2>2
<1> QED
  BY <1>4, <1>6, <1>7, <1>8, <1>9, <1>10 DEF Next, vars

(* A module is served when its transform has gone past all its files.      *)
LEMMA ServedStep == TypeOK /\ OpenedPresent /\ ServedPresent /\ [Next]_vars => ServedPresent'
<1> SUFFICES ASSUME TypeOK, OpenedPresent, ServedPresent, [Next]_vars,
                    NEW m \in served', NEW f \in FilesOf(m)
             PROVE  disk'[f.hash] # Absent
  BY DEF ServedPresent, FilesOf
<1>1. served' \subseteq Modules
  BY StepType DEF TypeOK
<1>2. PICK i \in 1..Len(Files[m]) : f = Files[m][i]
  BY <1>1, ModuleFiles DEF FilesOf
<1>3. f.hash \in Hashes
  BY <1>1, <1>2, ModuleFiles DEF EmittedFile
<1>4. CASE m \in served
  BY <1>3, <1>4, FilesStay DEF ServedPresent
<1>5. CASE m \notin served
  <2>1. ASSUME NEW t \in Transforms, Begin(t, m) PROVE FALSE
    BY <1>2, <1>5, <2>1, EmptySeq DEF Begin
  <2>2. ASSUME NEW t \in Transforms, Write(t) PROVE disk[f.hash] # Absent
    <3>1. pc[t] = "write" /\ m = job[t] /\ index[t] = Len(Files[m])
      BY <1>5, <2>2 DEF Write, NextFile
    <3>2. i \in 1..(index[t] - 1) \/ i = index[t]
      BY <1>2, <3>1, CurrentFile, ModuleFiles
    <3> QED
      BY <1>2, <3>1, <3>2 DEF OpenedPresent, File
  <2>3. disk[f.hash] # Absent
    <3>1. ASSUME NEW t \in Transforms, NEW n \in Modules, Begin(t, n), n # m PROVE m \in served
      BY <3>1 DEF Begin
    <3>2. CASE UNCHANGED served
      BY <1>5, <3>2
    <3> QED
      BY <1>5, <2>1, <2>2, <3>1, <3>2 DEF Next, CreateDirectory, Open, Fail, vars
  <2> QED
    BY <1>3, <2>3, FilesStay
<1> QED
  BY <1>4, <1>5

-----------------------------------------------------------------------------
(* The writers of a file after a step of a transform that has it open or   *)
(* opens it, or not.                                                       *)
LEMMA OtherWriters ==
  ASSUME NEW t \in Transforms, NEW h \in Hashes,
         \A u \in Transforms \ {t} : pc'[u] = pc[u] /\ job'[u] = job[u] /\ index'[u] = index[u],
         ~(pc[t] = "write" /\ File(t).hash = h), ~(pc'[t] = "write" /\ File(t)'.hash = h)
  PROVE  Writers(h)' = Writers(h)
<1>1. ASSUME NEW u \in Transforms \ {t} PROVE u \in Writers(h)' <=> u \in Writers(h)
  BY DEF Writers, File
<1>2. t \notin Writers(h) /\ t \notin Writers(h)'
  BY DEF Writers
<1> QED
  BY <1>1, <1>2 DEF Writers

(* A file that one length is claimed of, when a write to it was whole, or  *)
(* stopped.                                                                *)
LEMMA UniformWrite ==
  ASSUME TypeOK, OpenedPresent, UniformFiles, NEW t \in Transforms, pc[t] = "write",
         Uniform(File(t).hash), NEW blocks \in 0..Size[File(t).content],
         disk' = [disk EXCEPT ![File(t).hash] = Overwritten(@, File(t).content, blocks)]
  PROVE  LET h == File(t).hash IN
         /\ \A c \in Claims(h) : Len(disk'[h]) <= Size[c]
         /\ blocks = Size[File(t).content] => disk'[h] = Whole(File(t).content)
<1> DEFINE h == File(t).hash
           c == File(t).content
<1>1. h \in Hashes /\ c \in Contents /\ c \in Claims(h) /\ Size[c] \in Nat \ {0}
  BY CurrentFile
<1>2. disk[h] \in Seq(Contents) /\ disk[h] # Absent
  BY <1>1 DEF TypeOK, OpenedPresent
<1>3. Len(disk[h]) <= Size[c]
  BY <1>1, <1>2 DEF UniformFiles
<1>4. blocks \in Nat /\ blocks <= Size[c]
  BY <1>1
<1>5. disk'[h] = Overwritten(disk[h], c, blocks)
  BY <1>1 DEF TypeOK
<1>6. Len(disk'[h]) <= Size[c]
  BY <1>1, <1>2, <1>3, <1>4, <1>5, OverwrittenFile
<1>7. \A d \in Claims(h) : Size[d] = Size[c]
  BY <1>1 DEF Uniform
<1>8. ASSUME blocks = Size[c] PROVE disk'[h] = Whole(c)
  <2>1. Len(disk[h]) <= blocks
    BY <1>3, <1>8
  <2>2. Overwritten(disk[h], c, blocks) = [i \in 1..blocks |-> c]
    <3> HIDE DEF h, c
    <3> QED
      BY <1>1, <1>2, <1>4, <2>1, OverwrittenFile
  <2>3. Whole(c) = [i \in 1..blocks |-> c]
    BY <1>8 DEF Whole
  <2> QED
    BY <1>5, <2>2, <2>3
<1> QED
  BY <1>6, <1>7, <1>8

(* A file's length and content: what UniformFiles says of one file.        *)
LEMMA SameFile ==
  ASSUME UniformFiles, NEW h \in Hashes, Uniform(h), disk'[h] # Absent,
         disk'[h] = disk[h], Writers(h)' = Writers(h), h \in spoiled' <=> h \in spoiled
  PROVE  /\ \A c \in Claims(h) : Len(disk'[h]) <= Size[c]
         /\ Writers(h)' = {} /\ h \notin spoiled' => \E c \in Claims(h) : disk'[h] = Whole(c)
BY DEF UniformFiles

(* The length claimed of a file bounds it while it has writers, and it is  *)
(* whole when they have finished.                                          *)
LEMMA UniformStep == TypeOK /\ OpenedPresent /\ UniformFiles /\ [Next]_vars => UniformFiles'
<1> SUFFICES ASSUME TypeOK, OpenedPresent, UniformFiles, [Next]_vars,
                    NEW h \in Hashes, Uniform(h), disk'[h] # Absent
             PROVE  /\ \A c \in Claims(h) : Len(disk'[h]) <= Size[c]
                    /\ Writers(h)' = {} /\ h \notin spoiled' =>
                         \E c \in Claims(h) : disk'[h] = Whole(c)
  BY DEF UniformFiles, Uniform, Claims, FilesOf, Whole
<1> DEFINE Goal == /\ \A c \in Claims(h) : Len(disk'[h]) <= Size[c]
                   /\ Writers(h)' = {} /\ h \notin spoiled' =>
                        \E c \in Claims(h) : disk'[h] = Whole(c)
<1>1. ASSUME NEW t \in Transforms, NEW m \in Modules, Begin(t, m) PROVE Goal
  <2>1. pc[t] # "write" /\ pc'[t] # "write"
    BY <1>1 DEF Begin, TypeOK
  <2>2. Writers(h)' = Writers(h)
    BY <1>1, <2>1, OtherWriters DEF Begin, TypeOK
  <2> QED
    BY <1>1, <2>2, SameFile DEF Begin
<1>2. ASSUME NEW t \in Transforms, CreateDirectory(t) PROVE Goal
  <2>1. pc[t] # "write" /\ pc'[t] # "write"
    BY <1>2 DEF CreateDirectory, TypeOK
  <2>2. Writers(h)' = Writers(h)
    BY <1>2, <2>1, OtherWriters DEF CreateDirectory, TypeOK
  <2> QED
    BY <1>2, <2>2, SameFile DEF CreateDirectory
<1>3. ASSUME NEW t \in Transforms, Open(t) PROVE Goal
  <2>1. pc[t] = "open" /\ pc'[t] = "write" /\ File(t)' = File(t) /\ File(t).hash \in Hashes
    BY <1>3, CurrentFile DEF Open, TypeOK, File
  <2>2. CASE File(t).hash = h
    <3>1. t \in Writers(h)'
      BY <2>1, <2>2 DEF Writers
    <3>2. disk'[h] = << >> /\ Len(<< >>) = 0
      BY <1>3, <2>2, EmptySeq DEF Open, TypeOK
    <3>3. \A c \in Claims(h) : 0 <= Size[c]
      BY ClaimedContent
    <3> QED
      BY <3>1, <3>2, <3>3
  <2>3. CASE File(t).hash # h
    <3>1. Writers(h)' = Writers(h)
      BY <1>3, <2>1, <2>3, OtherWriters DEF Open, TypeOK
    <3> QED
      BY <1>3, <2>1, <2>3, <3>1, SameFile DEF Open, TypeOK
  <2> QED
    BY <2>2, <2>3
<1>4. ASSUME NEW t \in Transforms, Write(t) PROVE Goal
  <2>1. pc[t] = "write" /\ pc'[t] # "write" /\ job' = job /\ File(t).hash \in Hashes
        /\ File(t).content \in Claims(File(t).hash)
        /\ Size[File(t).content] \in 0..Size[File(t).content]
        /\ disk' = [disk EXCEPT ![File(t).hash] =
                      Overwritten(@, File(t).content, Size[File(t).content])]
    BY <1>4, CurrentFile DEF Write, NextFile, TypeOK
  <2>2. CASE File(t).hash = h
    BY <2>1, <2>2, UniformWrite
  <2>3. CASE File(t).hash # h
    <3>1. \A u \in Transforms \ {t} : pc'[u] = pc[u] /\ job'[u] = job[u] /\ index'[u] = index[u]
      BY <1>4 DEF Write, NextFile, TypeOK
    <3>2. Writers(h)' = Writers(h)
      BY <2>1, <2>3, <3>1, OtherWriters
    <3>3. disk'[h] = disk[h] /\ (h \in spoiled' <=> h \in spoiled)
      BY <1>4, <2>1, <2>3 DEF Write, TypeOK
    <3> QED
      BY <3>2, <3>3, SameFile
  <2> QED
    BY <2>2, <2>3
<1>5. ASSUME NEW t \in Transforms, Fail(t) PROVE Goal
  <2>1. pc[t] # "idle" /\ pc'[t] = "idle" /\ UNCHANGED <<job, index>> /\ File(t).hash \in Hashes
        /\ Size[File(t).content] \in Nat \ {0}
        /\ \A u \in Transforms \ {t} : pc'[u] = pc[u]
    BY <1>5, CurrentFile DEF Fail, LeaveFile, TypeOK
  <2>2. CASE pc[t] = "write" /\ File(t).hash = h
    <3>1. PICK blocks \in 0..(Size[File(t).content] - 1) :
            disk' = [disk EXCEPT ![File(t).hash] = Overwritten(@, File(t).content, blocks)]
      BY <1>5, <2>2 DEF Fail, LeaveFile
    <3>2. blocks \in 0..Size[File(t).content]
      BY <2>1
    <3>3. h \in spoiled'
      BY <1>5, <2>2 DEF Fail, LeaveFile
    <3> QED
      BY <2>2, <3>1, <3>2, <3>3, UniformWrite
  <2>3. CASE ~(pc[t] = "write" /\ File(t).hash = h)
    <3>1. Writers(h)' = Writers(h)
      BY <2>1, <2>3, OtherWriters
    <3>2. disk'[h] = disk[h] /\ (h \in spoiled' <=> h \in spoiled)
      <4>1. CASE pc[t] = "write"
        BY <1>5, <2>1, <2>3, <4>1 DEF Fail, LeaveFile, TypeOK
      <4>2. CASE pc[t] # "write"
        BY <1>5, <4>2 DEF Fail, LeaveFile
      <4> QED
        BY <4>1, <4>2
    <3> QED
      BY <3>1, <3>2, SameFile
  <2> QED
    BY <2>2, <2>3
<1>6. CASE UNCHANGED vars
  <2>1. Writers(h)' = Writers(h)
    BY <1>6 DEF vars, Writers, File
  <2> QED
    BY <1>6, <2>1, SameFile DEF vars
<1> QED
  BY <1>1, <1>2, <1>3, <1>4, <1>5, <1>6 DEF Next

-----------------------------------------------------------------------------
(* No file is there, and no module served, in the beginning.               *)
LEMMA InitIInv == Init => IInv
<1> SUFFICES ASSUME Init PROVE IInv
  OBVIOUS
<1>1. TypeOK
  BY InitType
<1>2. OpenedPresent
  BY DEF Init, OpenedPresent
<1>3. ServedPresent
  BY DEF Init, ServedPresent
<1>4. UniformFiles
  BY DEF Init, UniformFiles
<1> QED
  BY <1>1, <1>2, <1>3, <1>4 DEF IInv

(* The inductive invariant holds always.                                   *)
LEMMA IInvAlways == Spec => []IInv
<1>1. IInv /\ [Next]_vars => IInv'
  BY StepType, OpenedStep, ServedStep, UniformStep DEF IInv
<1> QED
  BY InitIInv, <1>1, PTL DEF Spec

(* A transform that is not idle is at a file of its module, and the disk   *)
(* holds files made of blocks of contents.                                 *)
THEOREM FilesTypeCorrect == Spec => []TypeOK
<1>1. IInv => TypeOK
  BY DEF IInv
<1> QED
  BY IInvAlways, <1>1, PTL

(* What a served module requires is there, and is what it emitted once     *)
(* nobody writes it, unless the hash is claimed for something else.        *)
THEOREM ServedAlwaysReadable == Spec => []ServedFilesReadable
<1>1. IInv => ServedFilesReadable
  <2> SUFFICES ASSUME IInv, NEW m \in served, NEW f \in FilesOf(m)
               PROVE  /\ disk[f.hash] # Absent
                      /\ Writers(f.hash) = {} /\ f.hash \notin spoiled
                           /\ Claims(f.hash) = {f.content} =>
                           disk[f.hash] = Whole(f.content)
    BY DEF ServedFilesReadable
  <2>1. disk[f.hash] # Absent
    BY DEF IInv, ServedPresent
  <2>2. m \in Modules
    BY DEF IInv, TypeOK
  <2>3. f.hash \in Hashes
    BY <2>2, ModuleFiles DEF FilesOf, EmittedFile
  <2>4. Claims(f.hash) = {f.content} => Uniform(f.hash)
    BY DEF Uniform
  <2> QED
    BY <2>1, <2>3, <2>4 DEF IInv, UniformFiles
<1> QED
  BY IInvAlways, <1>1, PTL

(* A file that nobody writes, that no writer has left unfinished, and of   *)
(* which one length only is claimed, is one whole content.                 *)
THEOREM TornAlwaysExplained == Spec => []TornFilesExplained
<1>1. IInv => TornFilesExplained
  <2> SUFFICES ASSUME IInv, NEW h \in Hashes, disk[h] # Absent, Uniform(h),
                      Writers(h) = {}, h \notin spoiled
               PROVE  \E c \in Contents : disk[h] = Whole(c)
    BY DEF TornFilesExplained, Uniform
  <2>1. PICK c \in Claims(h) : disk[h] = Whole(c)
    BY DEF IInv, UniformFiles
  <2> QED
    BY <2>1, ClaimedContent
<1> QED
  BY IInvAlways, <1>1, PTL
===============================================================================
