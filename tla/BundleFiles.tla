----------------------------- MODULE BundleFiles -----------------------------
(***************************************************************************)
(* Several Bundle Mode transforms that write into one .worklets directory  *)
(* (finish_bundle_files and write_worklet_file).  A bundler transforms     *)
(* modules in parallel and again whenever they change; nothing in the code *)
(* keeps two transforms from the same file.                                *)
(*                                                                         *)
(* The name of a file is the hash of the worklet's code.  Its content also *)
(* has the imports that were forwarded to it and the requires that were    *)
(* rebased, which the hash does not cover, and of the module's path the    *)
(* code has the last component only.  So two modules may name one file     *)
(* and differ in its content.                                              *)
(***************************************************************************)
EXTENDS Naturals, Sequences, FiniteSets

CONSTANTS
  Transforms,   \* the transforms that run at a time
  Modules,      \* the modules that are transformed
  Hashes,       \* the hashes of their worklets
  Contents,     \* contents of worklet files
  Files,        \* Files[m]: the files that the visitor emits for module m
  Size,         \* Size[c]: the length of a content, in blocks
  Absent        \* no such file

ASSUME FilesAssumption ==
  Files \in [Modules -> Seq([hash : Hashes, content : Contents])]
ASSUME SizeAssumption   == Size \in [Contents -> Nat \ {0}]
ASSUME AbsentAssumption == Absent \notin Seq(Contents)

VARIABLES
  job,       \* the module a transform works on
  pc,        \* "idle" | "create" | "open" | "write"
  index,     \* the file of emitted_files it is at
  directory, \* .worklets: "missing" | "directory" | "file"
  disk,      \* each file in .worklets: of which content its blocks are
  served,    \* history: modules whose transform returned Ok
  spoiled    \* history: files that a writer left without finishing

vars == <<job, pc, index, directory, disk, served, spoiled>>

File(t) == Files[job[t]][index[t]]

Init ==
  /\ job \in [Transforms -> Modules]
  /\ pc = [t \in Transforms |-> "idle"]
  /\ index = [t \in Transforms |-> 1]
  /\ directory \in {"missing", "directory", "file"}
  /\ disk = [h \in Hashes |-> Absent]
  /\ served = {}
  /\ spoiled = {}

(* Mutant: a transform starts where its predecessor stopped.               *)
BeginWhereLeft(t, m) ==
  /\ pc[t] = "idle" /\ Files[m] # << >>
  /\ job' = [job EXCEPT ![t] = m]
  /\ pc' = [pc EXCEPT ![t] = "create"]
  /\ UNCHANGED <<index, served, directory, disk, spoiled>>

(* The visitor has emitted the files of a module without error, and starts *)
(* to write them.                                                          *)
Begin(t, m) ==
  /\ pc[t] = "idle"
  /\ job' = [job EXCEPT ![t] = m]
  /\ index' = [index EXCEPT ![t] = 1]
  /\ IF Files[m] = << >>
     THEN served' = served \cup {m} /\ UNCHANGED pc
     ELSE pc' = [pc EXCEPT ![t] = "create"] /\ UNCHANGED served
  /\ UNCHANGED <<directory, disk, spoiled>>

(* create_dir_all succeeds if the directory is there.                      *)
CreateDirectory(t) ==
  /\ pc[t] = "create" /\ directory # "file"
  /\ directory' = "directory"
  /\ pc' = [pc EXCEPT ![t] = "open"]
  /\ UNCHANGED <<job, index, disk, served, spoiled>>

(* std::fs::write opens the file, which empties it, ...                    *)
Open(t) ==
  /\ pc[t] = "open"
  /\ disk' = [disk EXCEPT ![File(t).hash] = << >>]
  /\ pc' = [pc EXCEPT ![t] = "write"]
  /\ UNCHANGED <<job, index, directory, served, spoiled>>

(* ... and writes blocks from its start.  What another transform has       *)
(* written further back remains.                                           *)
Overwritten(old, c, blocks) ==
  [i \in 1..(IF Len(old) > blocks THEN Len(old) ELSE blocks) |-> IF i <= blocks THEN c ELSE old[i]]

(* The file of t is done.                                                  *)
NextFile(t) ==
  IF index[t] = Len(Files[job[t]])
  THEN /\ pc' = [pc EXCEPT ![t] = "idle"]
       /\ served' = served \cup {job[t]}
       /\ UNCHANGED index
  ELSE /\ pc' = [pc EXCEPT ![t] = "create"]
       /\ index' = [index EXCEPT ![t] = @ + 1]
       /\ UNCHANGED served

(* Mutant: a write that stops early counts as done.                        *)
WriteSome(t) ==
  /\ pc[t] = "write"
  /\ LET f == File(t)
     IN \E blocks \in 0..Size[f.content] :
          disk' = [disk EXCEPT ![f.hash] = Overwritten(@, f.content, blocks)]
  /\ spoiled' = spoiled \ {File(t).hash}
  /\ NextFile(t)
  /\ UNCHANGED <<job, directory>>

Write(t) ==
  /\ pc[t] = "write"
  /\ LET f == File(t)
     IN disk' = [disk EXCEPT ![f.hash] = Overwritten(@, f.content, Size[f.content])]
  /\ spoiled' = spoiled \ {File(t).hash}
  /\ NextFile(t)
  /\ UNCHANGED <<job, directory>>

(* Any of the three calls fails, or the process ends: what has been        *)
(* written stays.                                                          *)
LeaveFile(t) ==
  /\ pc[t] \in {"create", "open", "write"}
  /\ pc' = [pc EXCEPT ![t] = "idle"]
  /\ IF pc[t] = "write"
     THEN /\ \E blocks \in 0..(Size[File(t).content] - 1) :
               disk' = [disk EXCEPT ![File(t).hash] = Overwritten(@, File(t).content, blocks)]
          /\ spoiled' = spoiled \cup {File(t).hash}
     ELSE UNCHANGED <<disk, spoiled>>
  /\ UNCHANGED <<job, index, directory>>

(* Mutant: an error of a write is dropped, and the result is Ok.           *)
FailSilently(t) == LeaveFile(t) /\ served' = served \cup {job[t]}

(* The loop over the files ends and the transform returns the error.       *)
Fail(t) == LeaveFile(t) /\ UNCHANGED served

Next ==
  \E t \in Transforms :
    \/ \E m \in Modules : Begin(t, m)
    \/ CreateDirectory(t) \/ Open(t) \/ Write(t) \/ Fail(t)

Spec == Init /\ [][Next]_vars

-----------------------------------------------------------------------------
TypeOK ==
  /\ job \in [Transforms -> Modules]
  /\ pc \in [Transforms -> {"idle", "create", "open", "write"}]
  /\ index \in [Transforms -> Nat]
  /\ \A t \in Transforms : pc[t] # "idle" => index[t] \in 1..Len(Files[job[t]])
  /\ directory \in {"missing", "directory", "file"}
  /\ disk \in [Hashes -> Seq(Contents) \cup {Absent}]
  /\ served \subseteq Modules
  /\ spoiled \subseteq Hashes

-----------------------------------------------------------------------------
(* Properties.                                                             *)

FilesOf(m) == {Files[m][i] : i \in DOMAIN Files[m]}
Whole(c)   == [i \in 1..Size[c] |-> c]

(* The transforms that have opened a file and not finished it, and all     *)
(* that any module would write to it.                                      *)
Writers(h) == {t \in Transforms : pc[t] = "write" /\ File(t).hash = h}
Claims(h)  == {f.content : f \in UNION {{g \in FilesOf(m) : g.hash = h} : m \in Modules}}

(* A file that is not one whole content is being written, or its last      *)
(* writer failed, or modules of different content share its hash and two   *)
(* of them have been writing at the same time.                             *)
TornFilesExplained ==
  \A h \in Hashes :
    disk[h] # Absent /\ (\A c \in Contents : disk[h] # Whole(c)) =>
      \/ Writers(h) # {} \/ h \in spoiled
      \/ \E c, d \in Claims(h) : Size[c] # Size[d]

(* Once the transform of a module has returned Ok, the files that its code *)
(* requires exist, whatever other transforms do; and each holds what this  *)
(* transform emitted unless another one is writing it, failed at it, or    *)
(* emits something else under the same hash.                               *)
ServedFilesReadable ==
  \A m \in served : \A f \in FilesOf(m) :
    /\ disk[f.hash] # Absent
    /\ Writers(f.hash) = {} /\ f.hash \notin spoiled /\ Claims(f.hash) = {f.content} =>
         disk[f.hash] = Whole(f.content)
=============================================================================
