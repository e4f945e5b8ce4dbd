------------------------ MODULE WorkletResults_proofs ------------------------
(***************************************************************************)
(* Proofs about what WorkletPass leaves behind, for every value of its     *)
(* constants: the files of Bundle Mode, and the init data of legacy builds.*)
(***************************************************************************)
EXTENDS WorkletPass_proofs, WellFoundedInduction

-----------------------------------------------------------------------------
(* Files.                                                                  *)

FileNames(files) == {files[i].file : i \in 1..Len(files)}

(* A file needs only files before it.                                      *)
InOrder(files) ==
  \A i \in 1..Len(files) : files[i].needs \subseteq {files[j].file : j \in 1..(i - 1)}

(* Names that a stack of nodes, or a list of items, mentions.              *)
NodesMention(s, N)     == \A i \in 1..Len(s) : s[i].inParams \cup s[i].inBody \subseteq N
ItemsMention(items, N) == \A i \in 1..Len(items) : items[i].mentions \subseteq N

(* The pass runs in Bundle Mode or it emits no file; emitted files are in  *)
(* order; until the module is done its code mentions emitted files only.   *)
EmittedFirst  == InOrder(emitted_files) /\ (emitted_files # << >> => PackageDir)
MentionsFiles ==
  BundleMode /\ phase # "done" =>
    /\ NodesMention(stack, FileNames(emitted_files)) /\ escaped \subseteq FileNames(emitted_files)
    /\ ItemsMention(out, FileNames(emitted_files))

(* The disk holds a prefix of the emitted files; only the last one may be  *)
(* truncated, and then an error has been reported.                         *)
PrefixOf(d, files) == Len(d) <= Len(files) /\ \A i \in 1..Len(d) : d[i].file = files[i].file
AllWhole(d, n)     == \A i \in 1..n : d[i].whole
WrittenFirst ==
  /\ InOrder(disk) /\ AllWhole(disk, Len(disk) - 1)
  /\ error = None => AllWhole(disk, Len(disk))
  /\ phase # "done" => PrefixOf(disk, emitted_files)

(* Nothing has been emitted when the pass starts.                          *)
Underway == phase = "start" => emitted_files = << >>

FilesInv == EmittedFirst /\ MentionsFiles /\ WrittenFirst /\ Underway /\ ResultUsable

(* Adding a file that needs only the files before it.                      *)
LEMMA FileAppend ==
  ASSUME NEW T, NEW s \in Seq(T), NEW f \in T
  PROVE  /\ FileNames(Append(s, f)) = FileNames(s) \cup {f.file}
         /\ InOrder(s) /\ f.needs \subseteq FileNames(s) => InOrder(Append(s, f))
<1> DEFINE t == Append(s, f)
<1>1. /\ Len(t) = Len(s) + 1 /\ t[Len(s) + 1] = f /\ Len(s) \in Nat
      /\ \A i \in 1..Len(s) : t[i] = s[i]
  OBVIOUS
<1> HIDE DEF t
<1>2. FileNames(t) = FileNames(s) \cup {f.file}
  <2>1. ASSUME NEW x \in FileNames(t) PROVE x \in FileNames(s) \cup {f.file}
    BY <1>1 DEF FileNames
  <2>2. FileNames(s) \subseteq FileNames(t)
    BY <1>1 DEF FileNames
  <2>3. f.file \in FileNames(t)
    <3>1. Len(s) + 1 \in 1..Len(t)
      BY <1>1
    <3>2. QED
      BY <1>1, <3>1 DEF FileNames
  <2>4. QED
    BY <2>1, <2>2, <2>3
<1>3. ASSUME InOrder(s), f.needs \subseteq FileNames(s), NEW i \in 1..Len(t)
      PROVE  t[i].needs \subseteq {t[j].file : j \in 1..(i - 1)}
  <2>1. CASE i = Len(s) + 1
    <3>1. {t[j].file : j \in 1..(i - 1)} = FileNames(s)
      BY <1>1, <2>1 DEF FileNames
    <3>2. QED
      BY <1>1, <1>3, <2>1, <3>1
  <2>2. CASE i # Len(s) + 1
    <3>1. i \in 1..Len(s) /\ t[i] = s[i]
      BY <1>1, <1>3, <2>2
    <3>2. {t[j].file : j \in 1..(i - 1)} = {s[j].file : j \in 1..(i - 1)}
      BY <1>1, <3>1
    <3>3. s[i].needs \subseteq {s[j].file : j \in 1..(i - 1)}
      BY <1>3, <3>1 DEF InOrder
    <3>4. QED
      BY <3>1, <3>2, <3>3
  <2>3. QED
    BY <2>1, <2>2
<1>4. QED
  BY <1>2, <1>3 DEF InOrder, t

(* A stack mentions no more than before, and what is returned to it.       *)
LEMMA ReturnMentions ==
  ASSUME IInv, phase = "walk", NEW refs \in SUBSET Name, Return(refs), NEW N,
         NodesMention(stack, N), refs \subseteq N, escaped \subseteq N
  PROVE  NodesMention(stack', N) /\ escaped' \subseteq N
<1> DEFINE outer == Front(stack)
<1>1. stack \in Seq(Node) /\ stack # << >>
  BY TopFacts DEF IInv, TypeOK
<1>2. /\ outer \in Seq(Node) /\ Len(outer) = Len(stack) - 1 /\ Len(stack) \in Nat
      /\ \A i \in 1..(Len(stack) - 1) : outer[i] = stack[i]
  BY <1>1, FramesFront
<1>3. escaped' \subseteq N
  BY DEF Return
<1>4. CASE outer = << >>
  <2>1. stack' = << >>
    BY <1>4 DEF Return
  <2>2. QED
    BY <1>3, <2>1 DEF NodesMention
<1>5. CASE outer # << >>
  <2> DEFINE d == Len(outer)
             m == Mention(outer[d], refs, Top.bound \cup Spliced)
  <2>1. stack' = [outer EXCEPT ![d] = m] /\ d \in 1..d
    BY <1>2, <1>5 DEF Return
  <2>2. outer[d] \in Node /\ outer[d] = stack[d] /\ d \in 1..Len(stack)
    BY <1>2, <2>1
  <2>3. m.inParams \cup m.inBody \subseteq N
    <3>1. stack[d].inParams \cup stack[d].inBody \subseteq N
      BY <2>2 DEF NodesMention
    <3>2. QED
      BY <2>2, <3>1 DEF Mention, Node
  <2> HIDE DEF m
  <2>4. /\ Len(stack') = d /\ stack'[d] = m
        /\ \A i \in 1..d : i # d => stack'[i] = outer[i]
    BY <1>2, <2>1
  <2>5. ASSUME NEW i \in 1..Len(stack') PROVE stack'[i].inParams \cup stack'[i].inBody \subseteq N
    <3>1. CASE i = d
      BY <2>3, <2>4, <3>1
    <3>2. CASE i # d
      <4>1. stack'[i] = stack[i] /\ i \in 1..Len(stack)
        BY <1>2, <2>4, <3>2
      <4>2. QED
        BY <4>1 DEF NodesMention
    <3>3. QED
      BY <3>1, <3>2
  <2>6. QED
    BY <1>3, <2>5 DEF NodesMention
<1>6. QED
  BY <1>4, <1>5

(* What a node mentions beyond itself it mentions.                         *)
LEMMA FreeMentioned ==
  ASSUME IInv, phase = "walk", NEW N, NodesMention(stack, N)
  PROVE  Free(Top, Spliced) \subseteq N
<1>1. Top = stack[Len(stack)] /\ Len(stack) \in 1..Len(stack)
  BY TopFacts DEF Top
<1>2. QED
  BY <1>1 DEF NodesMention, Free

(* Entering a node adds one that mentions nothing.                         *)
LEMMA PushMentions ==
  ASSUME IInv, NEW k \in Kinds, NEW dirs \in SUBSET Directives, NEW b \in BOOLEAN,
         Push(k, dirs, b), NEW N, NodesMention(stack, N)
  PROVE  NodesMention(stack', N)
<1> DEFINE n == [kind |-> k, dirs |-> dirs,
                 part |-> IF k \in FnKinds THEN "params" ELSE "body",
                 old |-> b, inParams |-> {}, inBody |-> {}, bound |-> {}]
<1>1. stack \in Seq(Node) /\ stack' = Append(stack, n)
  BY DEF IInv, TypeOK, Push
<1>2. n.inParams \cup n.inBody = {}
  OBVIOUS
<1> HIDE DEF n
<1>3. ASSUME NEW i \in 1..Len(stack') PROVE stack'[i].inParams \cup stack'[i].inBody \subseteq N
  <2>1. (i \in 1..Len(stack) /\ stack'[i] = stack[i]) \/ stack'[i] = n
    BY <1>1
  <2>2. QED
    BY <1>2, <2>1 DEF NodesMention
<1>4. QED
  BY <1>3 DEF NodesMention

(* The invariant of the files holds before the walk.                       *)
LEMMA FilesInit == Init => FilesInv
<1> SUFFICES ASSUME Init PROVE FilesInv
  OBVIOUS
<1>1. /\ stack = << >> /\ out = << >> /\ disk = << >> /\ emitted_files = << >>
      /\ escaped = {} /\ phase = "start"
  BY DEF Init
<1>2. Len(<< >>) = 0
  OBVIOUS
<1>3. EmittedFirst /\ MentionsFiles
  BY <1>1, <1>2 DEF EmittedFirst, MentionsFiles, InOrder, NodesMention, ItemsMention
<1>4. WrittenFirst /\ Underway /\ ResultUsable
  BY <1>1, <1>2 DEF WrittenFirst, Underway, ResultUsable, InOrder, AllWhole, PrefixOf
<1>5. QED
  BY <1>3, <1>4 DEF FilesInv

(* Steps that touch neither the files nor the disk.                        *)
LEMMA FilesSame ==
  ASSUME FilesInv, phase # "done", phase' \notin {"start", "done"},
         UNCHANGED <<options, emitted_files, disk>>, error' = None => error = None
  PROVE  /\ EmittedFirst' /\ WrittenFirst' /\ Underway' /\ ResultUsable'
         /\ FileNames(emitted_files') = FileNames(emitted_files)
         /\ BundleMode' = BundleMode
<1>1. EmittedFirst'
  BY DEF FilesInv, EmittedFirst, PackageDir
<1>2. WrittenFirst'
  BY DEF FilesInv, WrittenFirst
<1>3. Underway' /\ ResultUsable'
  BY DEF Underway, ResultUsable
<1>4. QED
  BY <1>1, <1>2, <1>3 DEF BundleMode

(* Leaving a node that adds no file: in Bundle Mode its code is returned   *)
(* as it is.                                                               *)
LEMMA FilesReturn ==
  ASSUME IInv, FilesInv, phase = "walk", NEW refs \in SUBSET Name, Return(refs),
         BundleMode => refs \subseteq Free(Top, Spliced),
         UNCHANGED <<options, emitted_files, disk, out>>, error' = None => error = None
  PROVE  FilesInv'
<1>1. phase' \in {"walk", "item"}
  BY ReturnFacts
<1>2. /\ EmittedFirst' /\ WrittenFirst' /\ Underway' /\ ResultUsable' /\ BundleMode' = BundleMode
      /\ FileNames(emitted_files') = FileNames(emitted_files)
  BY <1>1, FilesSame
<1>3. ASSUME BundleMode
      PROVE  /\ NodesMention(stack', FileNames(emitted_files))
             /\ escaped' \subseteq FileNames(emitted_files)
             /\ ItemsMention(out', FileNames(emitted_files))
  <2>1. /\ NodesMention(stack, FileNames(emitted_files)) /\ escaped \subseteq FileNames(emitted_files)
        /\ ItemsMention(out, FileNames(emitted_files))
    BY <1>3 DEF FilesInv, MentionsFiles
  <2>2. refs \subseteq FileNames(emitted_files)
    BY <1>3, <2>1, FreeMentioned
  <2>3. QED
    BY <2>1, <2>2, ReturnMentions
<1>4. MentionsFiles'
  BY <1>2, <1>3 DEF MentionsFiles
<1>5. QED
  BY <1>2, <1>4 DEF FilesInv
(* Every step preserves the invariant about files.                         *)
LEMMA FilesNext == IInv /\ FilesInv /\ [Next]_vars => FilesInv'
<1> SUFFICES ASSUME IInv, FilesInv, [Next]_vars PROVE FilesInv'
  OBVIOUS
<1>t. TypeOK
  BY DEF IInv
<1>r. \A e \in Errors : Reported(e) = None => error = None
  BY NoneAssumption DEF Reported
<1>1. CASE BeginModule \/ BeginScript
  <2>1. /\ UNCHANGED <<options, emitted_files, disk, out, stack, escaped>> /\ phase = "start"
        /\ error' \in {error, Reported("unsupported"), Reported("callbacks")}
        /\ phase' = "module" \/ (phase' = "done" /\ result' = "original")
    BY <1>1 DEF BeginModule, BeginScript, Begin, history
  <2>2. error' = None => error = None
    BY <1>r, <2>1 DEF Errors
  <2>3. emitted_files = << >> /\ emitted_files' = << >>
    BY <2>1 DEF FilesInv, Underway
  <2>4. EmittedFirst'
    BY <2>1 DEF FilesInv, EmittedFirst, PackageDir
  <2>5. WrittenFirst'
    BY <2>1, <2>2 DEF FilesInv, WrittenFirst
  <2>6. ResultUsable' /\ Underway'
    BY <2>1, <2>3 DEF ResultUsable, Underway
  <2>7. MentionsFiles'
    BY <2>1 DEF FilesInv, MentionsFiles, BundleMode
  <2>8. QED
    BY <2>4, <2>5, <2>6, <2>7 DEF FilesInv
<1>2. ASSUME NEW k \in program.shapes, NEW dirs \in Prologues \cup {{}},
             OpenItem(k, dirs) \/ Enter(k, dirs)
      PROVE  FilesInv'
  <2>1. k \in Kinds /\ dirs \in SUBSET Directives /\ parent_is_scopable \in BOOLEAN
    BY <1>t, ProgramAssumption, PrologueAssumption DEF TypeOK, Family
  <2>2. /\ Push(k, dirs, TRUE) \/ Push(k, dirs, parent_is_scopable)
        /\ phase \in {"module", "walk"} /\ phase' = "walk"
        /\ UNCHANGED <<options, emitted_files, disk, out, escaped>> /\ error' = error
    BY <1>2 DEF OpenItem, Enter, history
  <2>3. /\ EmittedFirst' /\ WrittenFirst' /\ Underway' /\ ResultUsable' /\ BundleMode' = BundleMode
        /\ FileNames(emitted_files') = FileNames(emitted_files)
    BY <2>2, FilesSame
  <2>4. NodesMention(stack, FileNames(emitted_files)) => NodesMention(stack', FileNames(emitted_files))
    BY <2>1, <2>2, PushMentions
  <2>5. MentionsFiles'
    BY <2>2, <2>3, <2>4 DEF FilesInv, MentionsFiles
  <2>6. QED
    BY <2>3, <2>5 DEF FilesInv
<1>3. CASE RejectAccessor
  <2>1. /\ UNCHANGED <<options, emitted_files, disk, out, escaped, stack, phase>> /\ phase = "walk"
        /\ error' = Reported("accessor")
    BY <1>3 DEF RejectAccessor
  <2>2. error' = None => error = None
    BY <1>r, <2>1 DEF Errors
  <2>3. /\ EmittedFirst' /\ WrittenFirst' /\ Underway' /\ ResultUsable' /\ BundleMode' = BundleMode
    BY <2>1, <2>2, FilesSame
  <2>4. MentionsFiles'
    BY <2>1, <2>3 DEF FilesInv, MentionsFiles
  <2>5. QED
    BY <2>3, <2>4 DEF FilesInv
<1>4. CASE EnterBody
  <2> DEFINE d == Len(stack)
             n == [stack[d] EXCEPT !.part = "body", !.old = parent_is_scopable]
             N == FileNames(emitted_files)
  <2>1. /\ UNCHANGED <<options, emitted_files, disk, out, escaped, phase>> /\ phase = "walk"
        /\ error' = error
    BY <1>4 DEF EnterBody, history
  <2>2. Top \in Node /\ Top = stack[d] /\ stack \in Seq(Node) /\ d \in Nat \ {0}
    BY <1>t, <2>1, TopFacts DEF TypeOK, Top
  <2>3. n.inParams = stack[d].inParams /\ n.inBody = stack[d].inBody
    BY <2>2 DEF Node
  <2>4. stack' = [stack EXCEPT ![d] = n]
    BY <1>4, <2>2 DEF EnterBody
  <2> HIDE DEF n
  <2>5. /\ Len(stack') = d
        /\ \A i \in 1..d : stack'[i].inParams = stack[i].inParams /\ stack'[i].inBody = stack[i].inBody
    BY <2>2, <2>3, <2>4
  <2>6. NodesMention(stack, N) => NodesMention(stack', N)
    BY <2>5 DEF NodesMention
  <2>7. /\ EmittedFirst' /\ WrittenFirst' /\ Underway' /\ ResultUsable' /\ BundleMode' = BundleMode
        /\ FileNames(emitted_files') = N
    BY <2>1, FilesSame
  <2>8. MentionsFiles'
    BY <2>1, <2>6, <2>7 DEF FilesInv, MentionsFiles
  <2>9. QED
    BY <2>7, <2>8 DEF FilesInv
<1>5. CASE LeavePlain
  <2>1. /\ phase = "walk" /\ Return(Free(Top, Spliced)) /\ Free(Top, Spliced) \in SUBSET Name
        /\ UNCHANGED <<options, emitted_files, disk, out>> /\ error' = error
    BY <1>5, TopFacts DEF LeavePlain, Leaving
  <2>2. QED
    BY <2>1, FilesReturn
<1>6. CASE LeaveBodiless
  <2>1. /\ phase = "walk" /\ Return({}) /\ {} \in SUBSET Name
        /\ UNCHANGED <<options, emitted_files, disk, out>> /\ error' = error
    BY <1>6 DEF LeaveBodiless
  <2>2. QED
    BY <2>1, FilesReturn
<1>7. CASE LeaveWithoutData
  <2>1. /\ phase = "walk" /\ Return(Free(Top, Spliced)) /\ Free(Top, Spliced) \in SUBSET Name
        /\ UNCHANGED <<options, emitted_files, disk, out>> /\ error' = error
    BY <1>7, TopFacts DEF LeaveWithoutData, Leaving
  <2>2. QED
    BY <2>1, FilesReturn
<1>8. ASSUME NEW e \in {"shadows", "print"}, LeaveUnserialized(e)
      PROVE  FilesInv'
  <2>1. /\ phase = "walk" /\ Return(Free(Top, Spliced)) /\ Free(Top, Spliced) \in SUBSET Name
        /\ UNCHANGED <<options, emitted_files, disk, out>> /\ error' = Reported(e) /\ e \in Errors
    BY <1>8, TopFacts DEF LeaveUnserialized, Leaving, Errors
  <2>2. QED
    BY <1>r, <2>1, FilesReturn
<1>9. ASSUME NEW name \in Candidates PROVE name \in Name
  <2>1. 1..(Cardinality(used_names) + 1) \subseteq Nat \ {0}
    OBVIOUS
  <2>2. QED
    BY <2>1 DEF Candidates, Name
<1>10. ASSUME NEW name \in Candidates, LeaveHoisting(name)
       PROVE  FilesInv'
  <2> DEFINE refs == Free(Top, Spliced) \cup {name}
  <2>1. /\ phase = "walk" /\ Return(refs) /\ refs \in SUBSET Name /\ ~BundleMode
        /\ UNCHANGED <<options, emitted_files, disk, out>> /\ error' = error
    BY <1>9, <1>10, TopFacts DEF LeaveHoisting, Leaving
  <2>2. QED
    BY <2>1, FilesReturn
<1>11. ASSUME NEW name \in Candidates, LeaveUnhoistable(name)
       PROVE  FilesInv'
  <2>1. /\ phase = "walk" /\ Return(Free(Top, Spliced)) /\ Free(Top, Spliced) \in SUBSET Name
        /\ UNCHANGED <<options, emitted_files, disk, out>> /\ error' = Reported("no frame")
        /\ "no frame" \in Errors
    BY <1>11, TopFacts DEF LeaveUnhoistable, Leaving, Errors
  <2>2. QED
    BY <1>r, <2>1, FilesReturn
<1>12. ASSUME NEW name \in Candidates, LeaveToFile(name)
       PROVE  FilesInv'
  <2>1. /\ phase = "walk" /\ name \in Name /\ Free(Top, Spliced) \in SUBSET Name
        /\ UNCHANGED <<options, disk, out, result>> /\ BundleMode
    BY <1>9, <1>12, TopFacts DEF LeaveToFile, Leaving
  <2>2. CASE ~PackageDir
    <3>1. /\ Return(Free(Top, Spliced)) /\ error' = Reported("no package")
          /\ emitted_files' = emitted_files /\ "no package" \in Errors
      BY <1>12, <2>2 DEF LeaveToFile, Errors
    <3>2. QED
      BY <1>r, <2>1, <3>1, FilesReturn
  <2>3. CASE PackageDir
    <3> DEFINE f == [file |-> name, needs |-> Free(Top, Spliced)]
               N == FileNames(emitted_files)
               M == FileNames(emitted_files')
    <3>1. /\ Return({name}) /\ {name} \in SUBSET Name /\ error' = error
          /\ emitted_files' = Append(emitted_files, f)
      BY <1>12, <2>1, <2>3 DEF LeaveToFile
    <3>2. /\ f \in File /\ f.file = name /\ f.needs = Free(Top, Spliced)
          /\ emitted_files \in Seq(File)
      BY <1>t, <2>1 DEF File, TypeOK
    <3>3. NodesMention(stack, N) /\ escaped \subseteq N /\ ItemsMention(out, N) /\ InOrder(emitted_files)
      BY <2>1 DEF FilesInv, MentionsFiles, EmittedFirst
    <3>4. f.needs \subseteq N
      BY <2>1, <3>2, <3>3, FreeMentioned
    <3> HIDE DEF f
    <3>5. M = N \cup {name} /\ InOrder(emitted_files')
      <4>1. /\ FileNames(Append(emitted_files, f)) = FileNames(emitted_files) \cup {f.file}
            /\ InOrder(emitted_files) /\ f.needs \subseteq FileNames(emitted_files)
                 => InOrder(Append(emitted_files, f))
        BY <3>2, FileAppend
      <4>2. QED
        BY <3>1, <3>2, <3>3, <3>4, <4>1
    <3>6. phase' \in {"walk", "item"}
      BY <2>1, <3>1, ReturnFacts
    <3>7. EmittedFirst'
      BY <2>1, <2>3, <3>5 DEF EmittedFirst, PackageDir
    <3>8. MentionsFiles'
      <4> HIDE DEF N, M
      <4>1. NodesMention(stack, M) /\ escaped \subseteq M /\ {name} \subseteq M
        BY <3>3, <3>5 DEF NodesMention
      <4>2. NodesMention(stack', M) /\ escaped' \subseteq M
        BY <2>1, <3>1, <4>1, ReturnMentions
      <4>3. ItemsMention(out', M)
        BY <2>1, <3>3, <3>5 DEF ItemsMention
      <4>4. QED
        BY <4>2, <4>3 DEF MentionsFiles, M
    <3>9. WrittenFirst'
      <4>1. Len(emitted_files') = Len(emitted_files) + 1 /\ Len(emitted_files) \in Nat
            /\ Len(disk) \in Nat /\ \A i \in 1..Len(emitted_files) : emitted_files'[i] = emitted_files[i]
        BY <1>t, <3>1, <3>2 DEF TypeOK
      <4>2. PrefixOf(disk, emitted_files)
        BY <2>1 DEF FilesInv, WrittenFirst
      <4>3. PrefixOf(disk, emitted_files')
        BY <4>1, <4>2 DEF PrefixOf
      <4>4. QED
        BY <2>1, <3>1, <4>3 DEF FilesInv, WrittenFirst
    <3>10. ResultUsable' /\ Underway'
      BY <3>6 DEF ResultUsable, Underway
    <3>11. QED
      BY <3>7, <3>8, <3>9, <3>10 DEF FilesInv
  <2>4. QED
    BY <2>2, <2>3
<1>13. CASE EndItem
  <2> DEFINE item == [prepends |-> pending_prepends, mentions |-> escaped]
             N == FileNames(emitted_files)
  <2>1. /\ UNCHANGED <<options, emitted_files, disk, stack>> /\ error' = error
        /\ phase = "item" /\ phase' = "module" /\ escaped' = {} /\ out' = Append(out, item)
    BY <1>13 DEF EndItem
  <2>2. /\ EmittedFirst' /\ WrittenFirst' /\ Underway' /\ ResultUsable' /\ BundleMode' = BundleMode
        /\ FileNames(emitted_files') = N
    BY <2>1, FilesSame
  <2>3. ASSUME BundleMode PROVE NodesMention(stack', N) /\ escaped' \subseteq N /\ ItemsMention(out', N)
    <3>1. NodesMention(stack, N) /\ escaped \subseteq N /\ ItemsMention(out, N)
      BY <2>1, <2>3 DEF FilesInv, MentionsFiles
    <3>2. item.mentions = escaped /\ out \in Seq(Item)
      BY <1>t DEF TypeOK
    <3> HIDE DEF item
    <3>3. ASSUME NEW i \in 1..Len(out') PROVE out'[i].mentions \subseteq N
      <4>1. (i \in 1..Len(out) /\ out'[i] = out[i]) \/ out'[i] = item
        BY <2>1, <3>2
      <4>2. QED
        BY <3>1, <3>2, <4>1 DEF ItemsMention
    <3>4. QED
      BY <2>1, <3>1, <3>3 DEF ItemsMention
  <2>4. MentionsFiles'
    BY <2>2, <2>3 DEF MentionsFiles
  <2>5. QED
    BY <2>2, <2>4 DEF FilesInv
<1>14. CASE EndModule
  <2>1. /\ UNCHANGED <<options, emitted_files, disk, out, escaped, stack>> /\ error' = error
        /\ phase = "module" /\ phase' = "write"
    BY <1>14 DEF EndModule, visitor
  <2>2. /\ EmittedFirst' /\ WrittenFirst' /\ Underway' /\ ResultUsable' /\ BundleMode' = BundleMode
    BY <2>1, FilesSame
  <2>3. MentionsFiles'
    BY <2>1, <2>2 DEF FilesInv, MentionsFiles
  <2>4. QED
    BY <2>2, <2>3 DEF FilesInv
<1>15. CASE WriteFile
  <2> DEFINE d == Len(disk)
             next == emitted_files[d + 1]
             Put(whole) == [file |-> next.file, needs |-> next.needs, whole |-> whole]
  <2>1. /\ UNCHANGED <<options, emitted_files, out, escaped, stack, phase>> /\ phase = "write"
        /\ error = None /\ d < Len(emitted_files)
        /\ \/ disk' = Append(disk, Put(TRUE))
           \/ disk' \in {disk, Append(disk, Put(FALSE))} /\ error' = Reported("write")
    BY <1>15 DEF WriteFile, WritesLeft
  <2>2. error' # None \/ disk' = Append(disk, Put(TRUE))
    BY <2>1, NoneAssumption DEF Reported, Errors
  <2>3. EmittedFirst' /\ MentionsFiles' /\ Underway' /\ ResultUsable'
    BY <2>1 DEF FilesInv, EmittedFirst, MentionsFiles, Underway, ResultUsable, BundleMode, PackageDir
  <2>4. /\ disk \in Seq(Written) /\ emitted_files \in Seq(File) /\ d \in Nat
        /\ Len(emitted_files) \in Nat /\ d + 1 \in 1..Len(emitted_files) /\ next \in File
    BY <1>t, <2>1 DEF TypeOK
  <2>5. /\ InOrder(disk) /\ InOrder(emitted_files) /\ PrefixOf(disk, emitted_files) /\ AllWhole(disk, d)
    BY <2>1 DEF FilesInv, WrittenFirst, EmittedFirst
  <2>6. next.needs \subseteq FileNames(disk)
    <3>1. next.needs \subseteq {emitted_files[j].file : j \in 1..(d + 1 - 1)}
      BY <2>4, <2>5 DEF InOrder
    <3>2. \A j \in 1..(d + 1 - 1) : j \in 1..d /\ emitted_files[j].file = disk[j].file
      BY <2>4, <2>5 DEF PrefixOf
    <3>3. QED
      BY <3>1, <3>2 DEF FileNames
  <2>7. ASSUME NEW whole \in BOOLEAN, disk' = Append(disk, Put(whole)), whole \/ error' # None
        PROVE  WrittenFirst'
    <3> DEFINE f == Put(whole)
    <3>1. f \in Written /\ f.file = next.file /\ f.needs = next.needs /\ f.whole = whole
      BY <2>4 DEF File, Written
    <3> HIDE DEF f
    <3>2. /\ disk' = Append(disk, f) /\ Len(disk') = d + 1 /\ disk'[d + 1] = f
          /\ \A i \in 1..d : disk'[i] = disk[i]
      BY <2>4, <2>7 DEF f
    <3>3. InOrder(disk')
      <4>1. InOrder(disk) /\ f.needs \subseteq FileNames(disk) => InOrder(Append(disk, f))
        BY <2>4, <3>1, FileAppend
      <4>2. QED
        BY <2>5, <2>6, <3>1, <3>2, <4>1
    <3>4. AllWhole(disk', d) /\ Len(disk') - 1 = d
      BY <2>4, <2>5, <3>2 DEF AllWhole
    <3>5. error' = None => AllWhole(disk', Len(disk'))
      <4>1. ASSUME whole, NEW i \in 1..(d + 1) PROVE disk'[i].whole
        <5>1. CASE i = d + 1
          BY <3>1, <3>2, <4>1, <5>1
        <5>2. CASE i # d + 1
          BY <2>4, <3>4, <5>2 DEF AllWhole
        <5>3. QED
          BY <5>1, <5>2
      <4>2. QED
        BY <2>7, <3>2, <4>1 DEF AllWhole
    <3>6. PrefixOf(disk', emitted_files')
      <4>1. ASSUME NEW i \in 1..(d + 1) PROVE disk'[i].file = emitted_files[i].file
        <5>1. CASE i = d + 1
          BY <3>1, <3>2, <5>1
        <5>2. CASE i # d + 1
          BY <2>4, <2>5, <3>2, <5>2 DEF PrefixOf
        <5>3. QED
          BY <5>1, <5>2
      <4>2. QED
        BY <2>1, <2>4, <3>2, <4>1 DEF PrefixOf
    <3>7. QED
      BY <3>3, <3>4, <3>5, <3>6 DEF WrittenFirst
  <2>8. ASSUME disk' = disk, error' # None PROVE WrittenFirst'
    <3>1. InOrder(disk) /\ AllWhole(disk, Len(disk) - 1) /\ PrefixOf(disk, emitted_files)
      BY <2>1 DEF FilesInv, WrittenFirst
    <3>2. InOrder(disk') /\ AllWhole(disk', Len(disk') - 1) /\ PrefixOf(disk', emitted_files')
      BY <2>1, <2>8, <3>1
    <3>3. QED
      BY <2>8, <3>2 DEF WrittenFirst
  <2>9. WrittenFirst'
    <3>1. CASE disk' = Append(disk, Put(TRUE))
      BY <2>7, <3>1
    <3>2. CASE disk' = disk /\ error' # None
      BY <2>8, <3>2
    <3>3. CASE disk' = Append(disk, Put(FALSE)) /\ error' # None
      BY <2>7, <3>3
    <3>4. QED
      BY <2>1, <2>2, <3>1, <3>2, <3>3
  <2>10. QED
    BY <2>3, <2>9 DEF FilesInv
<1>16. CASE Finish
  <2>1. /\ UNCHANGED <<options, out, escaped, stack, disk>> /\ error' = error
        /\ phase = "write" /\ phase' = "done" /\ ~WritesLeft
        /\ result' = IF error = None THEN "rewritten" ELSE "original"
        /\ emitted_files' = IF error = None THEN emitted_files ELSE << >>
    BY <1>16 DEF Finish
  <2>2. MentionsFiles' /\ Underway'
    BY <2>1 DEF MentionsFiles, Underway
  <2>3. WrittenFirst'
    BY <2>1 DEF FilesInv, WrittenFirst
  <2>4. EmittedFirst'
    <3>1. InOrder(<< >>)
      BY DEF InOrder
    <3>2. QED
      BY <2>1, <3>1 DEF FilesInv, EmittedFirst, PackageDir
  <2>5. ResultUsable'
    <3>1. ASSUME error = None, BundleMode, NEW i \in DOMAIN out
          PROVE  out[i].mentions \subseteq {disk[j].file : j \in {k \in DOMAIN disk : disk[k].whole}}
      <4>1. out[i].mentions \subseteq FileNames(emitted_files)
        <5>1. i \in 1..Len(out)
          BY <1>t, <3>1 DEF TypeOK
        <5>2. QED
          BY <2>1, <3>1, <5>1 DEF FilesInv, MentionsFiles, ItemsMention
      <4>2. /\ disk \in Seq(Written) /\ emitted_files \in Seq(File) /\ DOMAIN disk = 1..Len(disk)
        BY <1>t DEF TypeOK
      <4>3. PrefixOf(disk, emitted_files) /\ AllWhole(disk, Len(disk))
        BY <2>1, <3>1 DEF FilesInv, WrittenFirst
      <4>4. CASE PackageDir
        <5>1. Len(emitted_files) = Len(disk)
          BY <2>1, <3>1, <4>2, <4>3, <4>4 DEF WritesLeft, PrefixOf
        <5>2. \A j \in 1..Len(disk) : disk[j].file = emitted_files[j].file /\ disk[j].whole
          BY <4>3 DEF PrefixOf, AllWhole
        <5>3. QED
          BY <4>1, <4>2, <5>1, <5>2 DEF FileNames
      <4>5. CASE ~PackageDir
        <5>1. emitted_files = << >> /\ Len(<< >>) = 0
          BY <4>5 DEF FilesInv, EmittedFirst
        <5>2. FileNames(emitted_files) = {}
          BY <5>1 DEF FileNames
        <5>3. QED
          BY <4>1, <5>2
      <4>6. QED
        BY <4>4, <4>5
    <3>2. CASE error = None
      BY <2>1, <3>1, <3>2 DEF ResultUsable, BundleMode
    <3>3. CASE error # None
      BY <2>1, <3>3 DEF ResultUsable
    <3>4. QED
      BY <3>2, <3>3
  <2>6. QED
    BY <2>2, <2>3, <2>4, <2>5 DEF FilesInv
<1>17. CASE UNCHANGED vars
  <2>1. UNCHANGED <<options, emitted_files, disk, out, escaped, stack, phase, error, result>>
    BY <1>17 DEF vars, visitor, history
  <2>2. EmittedFirst' /\ MentionsFiles' /\ WrittenFirst'
    BY <2>1 DEF FilesInv, EmittedFirst, MentionsFiles, WrittenFirst, BundleMode, PackageDir
  <2>3. Underway' /\ ResultUsable'
    BY <2>1 DEF FilesInv, Underway, ResultUsable, BundleMode
  <2>4. QED
    BY <2>2, <2>3 DEF FilesInv
<1>18. QED
  BY <1>1, <1>2, <1>3, <1>4, <1>5, <1>6, <1>7, <1>8, <1>10, <1>11, <1>12, <1>13, <1>14, <1>15,
     <1>16, <1>17 DEF Next, LeaveWorklet, Terminated

(* Wherever the writing of files stops, every whole file on disk finds the *)
(* files it requires whole on disk.                                        *)
THEOREM DiskAlwaysClosed == Spec => []DiskClosed
<1>1. ASSUME IInv, FilesInv PROVE DiskClosed
  <2> SUFFICES ASSUME NEW i \in DOMAIN disk, disk[i].whole
               PROVE  disk[i].needs \subseteq {disk[j].file : j \in {k \in DOMAIN disk : disk[k].whole}}
    BY DEF DiskClosed
  <2>1. DOMAIN disk = 1..Len(disk) /\ Len(disk) \in Nat
    BY <1>1 DEF IInv, TypeOK
  <2>2. disk[i].needs \subseteq {disk[j].file : j \in 1..(i - 1)}
    BY <1>1, <2>1 DEF FilesInv, WrittenFirst, InOrder
  <2>3. \A j \in 1..(i - 1) : j \in DOMAIN disk /\ disk[j].whole
    BY <1>1, <2>1 DEF FilesInv, WrittenFirst, AllWhole
  <2>4. QED
    BY <2>2, <2>3
<1>2. QED
  BY <1>1, InitIInv, NextIInv, FilesInit, FilesNext, PTL DEF Spec

(* The caller gets a rewritten module with every file it requires whole on *)
(* disk, or the original module and no file.                               *)
THEOREM ResultAlwaysUsable == Spec => []ResultUsable
<1>1. FilesInv => ResultUsable
  BY DEF FilesInv
<1>2. QED
  BY <1>1, InitIInv, NextIInv, FilesInit, FilesNext, PTL DEF Spec
-----------------------------------------------------------------------------
(* Lists of names.                                                         *)

Names(lists) == UNION {ToSet(lists[i]) : i \in 1..Len(lists)}

(* Equal names of distinct lists stand in one place.                       *)
LEMMA DistinctAt ==
  ASSUME NEW s, Distinct(s), NEW i \in DOMAIN s, NEW j \in DOMAIN s,
         NEW a \in DOMAIN s[i], NEW b \in DOMAIN s[j], s[i][a] = s[j][b]
  PROVE  i = j /\ a = b
  BY DEF Distinct

(* A name is the element of one of the lists.                              *)
LEMMA NameAt ==
  ASSUME NEW s \in Seq(Seq(Name)), NEW m
  PROVE  m \in Names(s) <=> \E i \in DOMAIN s : \E a \in DOMAIN s[i] : m = s[i][a]
  BY DEF Names, ToSet

(* The lists of a concatenation.                                           *)
LEMMA ConcatAt ==
  ASSUME NEW s \in Seq(Seq(Name)), NEW t \in Seq(Seq(Name))
  PROVE  /\ s \o t \in Seq(Seq(Name))
         /\ \A i \in DOMAIN s : i \in DOMAIN (s \o t) /\ (s \o t)[i] = s[i]
         /\ \A j \in DOMAIN t : Len(s) + j \in DOMAIN (s \o t) /\ (s \o t)[Len(s) + j] = t[j]
         /\ \A k \in DOMAIN (s \o t) : k \in DOMAIN s \/ \E j \in DOMAIN t : k = Len(s) + j
         /\ \A i \in DOMAIN s, j \in DOMAIN t : i # Len(s) + j
<1>1. /\ s \o t \in Seq(Seq(Name)) /\ Len(s \o t) = Len(s) + Len(t)
      /\ \A i \in 1..(Len(s) + Len(t)) : (s \o t)[i] = IF i <= Len(s) THEN s[i] ELSE t[i - Len(s)]
  BY ConcatProperties
<1>2. /\ Len(s) \in Nat /\ Len(t) \in Nat
      /\ DOMAIN s = 1..Len(s) /\ DOMAIN t = 1..Len(t) /\ DOMAIN (s \o t) = 1..(Len(s) + Len(t))
  BY <1>1
<1>3. ASSUME NEW i \in DOMAIN s PROVE i \in DOMAIN (s \o t) /\ (s \o t)[i] = s[i]
  BY <1>1, <1>2
<1>4. ASSUME NEW j \in DOMAIN t
      PROVE  Len(s) + j \in DOMAIN (s \o t) /\ (s \o t)[Len(s) + j] = t[j]
  <2>1. Len(s) + j \in 1..(Len(s) + Len(t)) /\ ~(Len(s) + j <= Len(s)) /\ Len(s) + j - Len(s) = j
    BY <1>2
  <2>2. (s \o t)[Len(s) + j] = t[Len(s) + j - Len(s)]
    BY <1>1, <2>1
  <2>3. QED
    BY <1>2, <2>1, <2>2
<1>5. ASSUME NEW k \in DOMAIN (s \o t), k \notin DOMAIN s PROVE \E j \in DOMAIN t : k = Len(s) + j
  <2>1. k - Len(s) \in DOMAIN t /\ k = Len(s) + (k - Len(s))
    BY <1>2, <1>5
  <2>2. QED
    BY <2>1
<1>6. \A i \in DOMAIN s, j \in DOMAIN t : i # Len(s) + j
  BY <1>2
<1>7. QED
  BY <1>1, <1>3, <1>4, <1>5, <1>6

(* Two lists of lists are concatenated: the names are those of both, and   *)
(* they are distinct when they are in each and no name is in both.         *)
LEMMA ConcatLists ==
  ASSUME NEW s \in Seq(Seq(Name)), NEW t \in Seq(Seq(Name))
  PROVE  /\ Names(s \o t) = Names(s) \cup Names(t)
         /\ Distinct(s \o t) <=> Distinct(s) /\ Distinct(t) /\ Names(s) \cap Names(t) = {}
<1> DEFINE u == s \o t
           n == Len(s)
<1>1. /\ u \in Seq(Seq(Name))
      /\ \A i \in DOMAIN s : i \in DOMAIN u /\ u[i] = s[i]
      /\ \A j \in DOMAIN t : n + j \in DOMAIN u /\ u[n + j] = t[j]
      /\ \A k \in DOMAIN u : k \in DOMAIN s \/ \E j \in DOMAIN t : k = n + j
      /\ \A i \in DOMAIN s, j \in DOMAIN t : i # n + j
  BY ConcatAt
<1>a. \A j, k \in DOMAIN t : n + j = n + k => j = k
  OBVIOUS
<1> HIDE DEF u, n
<1>2. Names(u) = Names(s) \cup Names(t)
  <2>1. ASSUME NEW m \in Names(u) PROVE m \in Names(s) \cup Names(t)
    <3>1. PICK k \in DOMAIN u : \E a \in DOMAIN u[k] : m = u[k][a]
      BY <1>1, <2>1, NameAt
    <3>2. CASE k \in DOMAIN s
      <4>1. m \in Names(s)
        BY <1>1, <3>1, <3>2, NameAt
      <4>2. QED
        BY <4>1
    <3>3. CASE \E j \in DOMAIN t : k = n + j
      <4>1. PICK j \in DOMAIN t : k = n + j
        BY <3>3
      <4>2. u[k] = t[j]
        BY <1>1, <4>1
      <4>3. m \in Names(t)
        BY <3>1, <4>1, <4>2, NameAt
      <4>4. QED
        BY <4>3
    <3>4. QED
      BY <1>1, <3>2, <3>3
  <2>2. ASSUME NEW m \in Names(s) PROVE m \in Names(u)
    <3>1. PICK i \in DOMAIN s : \E a \in DOMAIN s[i] : m = s[i][a]
      BY <2>2, NameAt
    <3>2. i \in DOMAIN u /\ u[i] = s[i]
      BY <1>1
    <3>3. QED
      BY <1>1, <3>1, <3>2, NameAt
  <2>3. ASSUME NEW m \in Names(t) PROVE m \in Names(u)
    <3>1. PICK j \in DOMAIN t : \E a \in DOMAIN t[j] : m = t[j][a]
      BY <2>3, NameAt
    <3>2. n + j \in DOMAIN u /\ u[n + j] = t[j]
      BY <1>1
    <3>3. QED
      BY <1>1, <3>1, <3>2, NameAt
  <2>4. QED
    BY <2>1, <2>2, <2>3
<1>3. ASSUME Distinct(u) PROVE Distinct(s) /\ Distinct(t) /\ Names(s) \cap Names(t) = {}
  <2>1. ASSUME NEW i \in DOMAIN s, NEW j \in DOMAIN s, NEW a \in DOMAIN s[i], NEW b \in DOMAIN s[j],
               s[i][a] = s[j][b]
        PROVE  i = j /\ a = b
    <3>1. /\ i \in DOMAIN u /\ u[i] = s[i] /\ j \in DOMAIN u /\ u[j] = s[j]
      BY <1>1
    <3>2. QED
      BY <1>3, <2>1, <3>1, DistinctAt
  <2>2. ASSUME NEW i \in DOMAIN t, NEW j \in DOMAIN t, NEW a \in DOMAIN t[i], NEW b \in DOMAIN t[j],
               t[i][a] = t[j][b]
        PROVE  i = j /\ a = b
    <3>1. /\ n + i \in DOMAIN u /\ u[n + i] = t[i] /\ n + j \in DOMAIN u /\ u[n + j] = t[j]
      BY <1>1
    <3>2. n + i = n + j /\ a = b
      BY <1>3, <2>2, <3>1, DistinctAt
    <3>3. QED
      BY <1>a, <3>2
  <2>3. ASSUME NEW m \in Names(s), m \in Names(t) PROVE FALSE
    <3>1. PICK i \in DOMAIN s : \E a \in DOMAIN s[i] : m = s[i][a]
      BY <2>3, NameAt
    <3>2. PICK a \in DOMAIN s[i] : m = s[i][a]
      BY <3>1
    <3>3. PICK j \in DOMAIN t : \E b \in DOMAIN t[j] : m = t[j][b]
      BY <2>3, NameAt
    <3>4. PICK b \in DOMAIN t[j] : m = t[j][b]
      BY <3>3
    <3>5. /\ i \in DOMAIN u /\ u[i] = s[i] /\ n + j \in DOMAIN u /\ u[n + j] = t[j]
      BY <1>1
    <3>6. a \in DOMAIN u[i] /\ b \in DOMAIN u[n + j] /\ u[i][a] = u[n + j][b]
      BY <3>2, <3>4, <3>5
    <3> DEFINE l == n + j
    <3> HIDE DEF l
    <3>a. i = l
      <4>1. l \in DOMAIN u /\ b \in DOMAIN u[l] /\ u[i][a] = u[l][b]
        BY <3>5, <3>6 DEF l
      <4>2. QED
        BY <1>3, <3>5, <3>6, <4>1, DistinctAt
    <3>7. QED
      BY <1>1, <3>a DEF l
  <2>4. QED
    BY <2>1, <2>2, <2>3 DEF Distinct
<1>4. ASSUME Distinct(s), Distinct(t), Names(s) \cap Names(t) = {} PROVE Distinct(u)
  <2>1. ASSUME NEW i \in DOMAIN s, NEW a \in DOMAIN s[i] PROVE s[i][a] \in Names(s) /\ s[i][a] \notin Names(t)
    <3>1. s[i][a] \in Names(s)
      BY NameAt
    <3>2. QED
      BY <1>4, <3>1
  <2>2. ASSUME NEW j \in DOMAIN t, NEW b \in DOMAIN t[j] PROVE t[j][b] \in Names(t)
    BY NameAt
  <2>3. ASSUME NEW k \in DOMAIN u, NEW l \in DOMAIN u, NEW a \in DOMAIN u[k], NEW b \in DOMAIN u[l],
               u[k][a] = u[l][b]
        PROVE  k = l /\ a = b
    <3>1. CASE k \in DOMAIN s /\ l \in DOMAIN s
      <4>1. u[k] = s[k] /\ u[l] = s[l]
        BY <1>1, <3>1
      <4>2. QED
        BY <1>4, <2>3, <3>1, <4>1, DistinctAt
    <3>2. ASSUME NEW i \in DOMAIN t, NEW j \in DOMAIN t, k = n + i, l = n + j PROVE k = l /\ a = b
      <4>1. u[k] = t[i] /\ u[l] = t[j]
        BY <1>1, <3>2
      <4>2. i = j /\ a = b
        BY <1>4, <2>3, <4>1, DistinctAt
      <4>3. QED
        BY <3>2, <4>2
    <3>3. ASSUME k \in DOMAIN s, NEW j \in DOMAIN t, l = n + j PROVE FALSE
      <4>1. u[k] = s[k] /\ u[l] = t[j]
        BY <1>1, <3>3
      <4>2. QED
        BY <2>1, <2>2, <2>3, <3>3, <4>1
    <3>4. ASSUME l \in DOMAIN s, NEW i \in DOMAIN t, k = n + i PROVE FALSE
      <4>1. u[l] = s[l] /\ u[k] = t[i]
        BY <1>1, <3>4
      <4>2. QED
        BY <2>1, <2>2, <2>3, <3>4, <4>1
    <3>5. QED
      BY <1>1, <3>1, <3>2, <3>3, <3>4
  <2>4. QED
    BY <2>3 DEF Distinct
<1>5. QED
  BY <1>2, <1>3, <1>4 DEF u

(* One more list.                                                          *)
LEMMA AppendList ==
  ASSUME NEW s \in Seq(Seq(Name)), NEW P \in Seq(Name)
  PROVE  /\ Append(s, P) \in Seq(Seq(Name))
         /\ Names(Append(s, P)) = Names(s) \cup ToSet(P)
         /\ Distinct(Append(s, P)) <=> Distinct(s) /\ IsInjective(P) /\ Names(s) \cap ToSet(P) = {}
<1> DEFINE one == <<P>>
<1>1. one \in Seq(Seq(Name)) /\ DOMAIN one = {1} /\ one[1] = P /\ Append(s, P) = s \o one
  OBVIOUS
<1> HIDE DEF one
<1>2. Len(one) = 1 /\ Names(one) = ToSet(P)
  <2>1. Len(one) = 1
    BY <1>1
  <2>2. 1..1 = {1}
    OBVIOUS
  <2>3. QED
    BY <1>1, <2>1, <2>2 DEF Names
<1>3. Distinct(one) <=> IsInjective(P)
  BY <1>1 DEF Distinct, IsInjective
<1>4. QED
  BY <1>1, <1>2, <1>3, ConcatLists

(* The lists of an empty sequence.                                         *)
LEMMA NoLists == Names(<< >>) = {} /\ Distinct(<< >>) /\ ToSet(<< >>) = {} /\ IsInjective(<< >>)
  BY DEF Names, Distinct, ToSet, IsInjective

(* One more name in a list.                                                *)
LEMMA AppendName ==
  ASSUME NEW P \in Seq(Name), NEW x \in Name
  PROVE  /\ Append(P, x) \in Seq(Name) /\ ToSet(Append(P, x)) = ToSet(P) \cup {x}
         /\ IsInjective(P) /\ x \notin ToSet(P) => IsInjective(Append(P, x))
<1> DEFINE Q == Append(P, x)
           n == Len(P)
<1>1. /\ Q \in Seq(Name) /\ n \in Nat /\ DOMAIN P = 1..n /\ DOMAIN Q = 1..(n + 1)
      /\ Q[n + 1] = x /\ \A i \in 1..n : Q[i] = P[i]
  OBVIOUS
<1> HIDE DEF Q, n
<1>2. 1..(n + 1) = (1..n) \cup {n + 1} /\ n + 1 \notin 1..n
  BY <1>1
<1>3. ToSet(Q) = ToSet(P) \cup {x}
  BY <1>1, <1>2 DEF ToSet
<1>4. ASSUME IsInjective(P), x \notin ToSet(P) PROVE IsInjective(Q)
  <2>1. \A i \in 1..n : P[i] # x
    BY <1>1, <1>4 DEF ToSet
  <2>2. \A i, j \in 1..n : P[i] = P[j] => i = j
    BY <1>1, <1>4 DEF IsInjective
  <2>3. QED
    BY <1>1, <1>2, <2>1, <2>2 DEF IsInjective
<1>5. QED
  BY <1>1, <1>3, <1>4 DEF Q

(* The declarations: the frames, what is pending, and the finished items.  *)
Lists(F, P, O) == F \o <<P>> \o O

DistinctParts(F, P, O) ==
  /\ Distinct(F) /\ IsInjective(P) /\ Distinct(O)
  /\ Names(F) \cap ToSet(P) = {} /\ (Names(F) \cup ToSet(P)) \cap Names(O) = {}

(* The names in the lists are those of the parts, and they are distinct if *)
(* the parts are and share none.                                           *)
LEMMA ListsFacts ==
  ASSUME NEW F \in Seq(Seq(Name)), NEW P \in Seq(Name), NEW O \in Seq(Seq(Name))
  PROVE  /\ Names(Lists(F, P, O)) = Names(F) \cup ToSet(P) \cup Names(O)
         /\ Distinct(Lists(F, P, O)) <=> DistinctParts(F, P, O)
<1>1. F \o <<P>> = Append(F, P)
  OBVIOUS
<1>2. /\ Append(F, P) \in Seq(Seq(Name)) /\ Names(Append(F, P)) = Names(F) \cup ToSet(P)
      /\ Distinct(Append(F, P)) <=> Distinct(F) /\ IsInjective(P) /\ Names(F) \cap ToSet(P) = {}
  BY AppendList
<1> DEFINE G == Append(F, P)
<1> HIDE DEF G
<1>3. /\ Names(G \o O) = Names(G) \cup Names(O)
      /\ Distinct(G \o O) <=> Distinct(G) /\ Distinct(O) /\ Names(G) \cap Names(O) = {}
  <2>1. G \in Seq(Seq(Name))
    BY <1>2 DEF G
  <2>2. QED
    BY <2>1, ConcatLists
<1>4. Lists(F, P, O) = G \o O
  BY <1>1 DEF Lists, G
<1>5. QED
  BY <1>2, <1>3, <1>4 DEF G, DistinctParts
-----------------------------------------------------------------------------
(* Fresh names.                                                            *)

(* What a node bound is bound in it for good: no list declares it again.   *)
BoundIn(s, U) == \A i \in 1..Len(s) : s[i].bound \subseteq U

FreshInv ==
  /\ Distinct(Declarations)
  /\ Names(Declarations) \subseteq used_names \ UserNames
  /\ BoundIn(stack, used_names \ Names(Declarations))
  /\ phase \notin {"start", "done"} => UserNames \subseteq used_names
  /\ phase = "start" => Names(Declarations) = {}

(* The lists of the items.                                                 *)
LEMMA ItemFacts ==
  ASSUME NEW items \in Seq(Item)
  PROVE  ItemPrepends(items) \in Seq(Seq(Name)) /\ Len(ItemPrepends(items)) = Len(items)
<1>1. \A i \in 1..Len(items) : items[i] \in Item
  OBVIOUS
<1>2. \A i \in 1..Len(items) : items[i].prepends \in Seq(Name)
  BY <1>1 DEF Item
<1>3. QED
  BY <1>2 DEF ItemPrepends

(* The lists that are declared after a step.                               *)
LEMMA DeclaredNext ==
  ASSUME function_prepends' \in Seq(Seq(Name)), pending_prepends' \in Seq(Name),
         NEW O \in Seq(Seq(Name)), O = ItemPrepends(out')
  PROVE  /\ Names(Declarations)' = Names(function_prepends') \cup ToSet(pending_prepends') \cup Names(O)
         /\ Distinct(Declarations)' <=> DistinctParts(function_prepends', pending_prepends', O)
<1> DEFINE F == function_prepends'
           P == pending_prepends'
<1>1. Declarations' = Lists(F, P, O)
  BY DEF Declarations, Lists, ItemPrepends
<1>2. F \in Seq(Seq(Name)) /\ P \in Seq(Name)
  OBVIOUS
<1> HIDE DEF F, P
<1>3. /\ Names(Lists(F, P, O)) = Names(F) \cup ToSet(P) \cup Names(O)
      /\ Distinct(Lists(F, P, O)) <=> DistinctParts(F, P, O)
  BY <1>2, ListsFacts
<1>4. /\ Names(Declarations') = Names(F) \cup ToSet(P) \cup Names(O)
      /\ Distinct(Declarations') <=> DistinctParts(F, P, O)
  BY <1>1, <1>3
<1>5. QED
  BY <1>4 DEF F, P

(* The lists that are declared.                                            *)
LEMMA DeclaredFacts ==
  ASSUME IInv
  PROVE  /\ function_prepends \in Seq(Seq(Name)) /\ pending_prepends \in Seq(Name)
         /\ ItemPrepends(out) \in Seq(Seq(Name)) /\ used_names \in SUBSET Name
         /\ Declarations = Lists(function_prepends, pending_prepends, ItemPrepends(out))
         /\ Names(Declarations) = Names(function_prepends) \cup ToSet(pending_prepends)
                                    \cup Names(ItemPrepends(out))
         /\ Distinct(Declarations)
              <=> DistinctParts(function_prepends, pending_prepends, ItemPrepends(out))
<1>1. /\ function_prepends \in Seq(Seq(Name)) /\ pending_prepends \in Seq(Name)
      /\ used_names \in SUBSET Name /\ out \in Seq(Item)
  BY DEF IInv, TypeOK
<1>2. ItemPrepends(out) \in Seq(Seq(Name))
  BY <1>1, ItemFacts
<1>3. Declarations = Lists(function_prepends, pending_prepends, ItemPrepends(out))
  BY DEF Declarations, Lists
<1>4. QED
  BY <1>1, <1>2, <1>3, ListsFacts

(* A sequence with one more element.                                       *)
LEMMA AppendIs ==
  ASSUME NEW T, NEW F \in Seq(T), NEW f \in Seq(T), NEW l \in T,
         Len(F) = Len(f) + 1, F[Len(F)] = l, \A i \in 1..Len(f) : F[i] = f[i]
  PROVE  F = Append(f, l)
<1> DEFINE G == Append(f, l)
<1>1. /\ G \in Seq(T) /\ Len(G) = Len(f) + 1 /\ G[Len(f) + 1] = l /\ Len(f) \in Nat
      /\ \A i \in 1..Len(f) : G[i] = f[i]
  BY AppendProperties
<1> HIDE DEF G
<1>2. ASSUME NEW i \in 1..Len(F) PROVE F[i] = G[i]
  <2>1. i \in 1..Len(f) \/ i = Len(f) + 1
    BY <1>1
  <2>2. QED
    BY <1>1, <2>1
<1>3. F = G
  BY <1>1, <1>2
<1>4. QED
  BY <1>3 DEF G

(* A sequence is its front and its last element.                           *)
LEMMA FrontLast ==
  ASSUME NEW F \in Seq(Seq(Name)), F # << >>
  PROVE  /\ Front(F) \in Seq(Seq(Name)) /\ Last(F) \in Seq(Name)
         /\ F = Append(Front(F), Last(F)) /\ Len(Front(F)) = Len(F) - 1
         /\ \A i \in 1..(Len(F) - 1) : Front(F)[i] = F[i]
<1>1. /\ Len(F) \in Nat \ {0} /\ \A i \in 1..Len(F) : F[i] \in Seq(Name)
  OBVIOUS
<1>2. \A i \in 1..(Len(F) - 1) : F[i] \in Seq(Name)
  BY <1>1
<1>3. /\ Front(F) \in Seq(Seq(Name))
      /\ Len(Front(F)) = IF 1 <= Len(F) - 1 THEN Len(F) - 1 - 1 + 1 ELSE 0
      /\ \A i \in 1..(Len(F) - 1 - 1 + 1) : Front(F)[i] = F[1 + i - 1]
  BY <1>1, <1>2, SubSeqProperties DEF Front
<1>4. Len(Front(F)) = Len(F) - 1
  <2>1. \A n \in Nat \ {0} : (IF 1 <= n - 1 THEN n - 1 - 1 + 1 ELSE 0) = n - 1
    OBVIOUS
  <2>2. QED
    BY <1>1, <1>3, <2>1
<1>5. ASSUME NEW i \in 1..(Len(F) - 1) PROVE Front(F)[i] = F[i]
  <2>1. i \in 1..(Len(F) - 1 - 1 + 1) /\ 1 + i - 1 = i
    BY <1>1
  <2>2. QED
    BY <1>3, <2>1
<1>6. Last(F) \in Seq(Name) /\ Last(F) = F[Len(F)]
  BY <1>1 DEF Last
<1>7. F = Append(Front(F), Last(F))
  <2>1. /\ Len(F) = Len(Front(F)) + 1 /\ F[Len(F)] = Last(F)
        /\ \A i \in 1..Len(Front(F)) : F[i] = Front(F)[i]
    BY <1>1, <1>4, <1>5, <1>6
  <2>2. QED
    BY <1>3, <1>6, <2>1, AppendIs
<1>8. QED
  BY <1>3, <1>4, <1>5, <1>6, <1>7

(* Leaving a node takes the names of its frame out of the declarations.    *)
LEMMA PopLists ==
  ASSUME IInv, FreshInv, phase = "walk"
  PROVE  /\ Popped \in Seq(Seq(Name))
         /\ DistinctParts(Popped, pending_prepends, ItemPrepends(out))
         /\ Names(Popped) \subseteq Names(function_prepends)
         /\ Spliced \subseteq Names(function_prepends)
         /\ Spliced \cap (Names(Popped) \cup ToSet(pending_prepends) \cup Names(ItemPrepends(out))) = {}
<1> DEFINE F == function_prepends
           P == pending_prepends
           O == ItemPrepends(out)
<1>1. /\ F \in Seq(Seq(Name)) /\ P \in Seq(Name) /\ O \in Seq(Seq(Name)) /\ DistinctParts(F, P, O)
  BY DeclaredFacts DEF FreshInv
<1> HIDE DEF F, P, O
<1>2. CASE Top.kind \in FrameKinds
  <2>1. F # << >>
    BY <1>2, TopFacts DEF F
  <2>2. Front(F) \in Seq(Seq(Name)) /\ Last(F) \in Seq(Name) /\ F = Append(Front(F), Last(F))
    BY <1>1, <2>1, FrontLast
  <2>3. /\ Names(F) = Names(Front(F)) \cup ToSet(Last(F))
        /\ Distinct(F) => Distinct(Front(F)) /\ Names(Front(F)) \cap ToSet(Last(F)) = {}
    <3> DEFINE f == Front(F)
               l == Last(F)
    <3> HIDE DEF f, l
    <3>1. /\ Names(Append(f, l)) = Names(f) \cup ToSet(l)
          /\ Distinct(Append(f, l)) => Distinct(f) /\ Names(f) \cap ToSet(l) = {}
      <4>1. f \in Seq(Seq(Name)) /\ l \in Seq(Name)
        BY <2>2 DEF f, l
      <4>2. QED
        BY <4>1, AppendList
    <3>2. F = Append(f, l)
      BY <2>2 DEF f, l
    <3>3. QED
      BY <3>1, <3>2 DEF f, l
  <2>4. Popped = Front(F) /\ Spliced \subseteq ToSet(Last(F))
    BY <1>2 DEF Popped, Spliced, F
  <2>5. QED
    BY <1>1, <2>2, <2>3, <2>4 DEF DistinctParts, F, P, O
<1>3. CASE Top.kind \notin FrameKinds
  BY <1>1, <1>3 DEF Popped, Spliced, F, P, O
<1>4. QED
  BY <1>2, <1>3

(* The node around takes over what the node that is left bound.            *)
LEMMA ReturnBound ==
  ASSUME IInv, phase = "walk", NEW refs \in SUBSET Name, Return(refs), NEW U,
         BoundIn(stack, U), Spliced \subseteq U
  PROVE  BoundIn(stack', U)
<1> DEFINE outer == Front(stack)
<1>1. stack \in Seq(Node) /\ stack # << >>
  BY TopFacts DEF IInv, TypeOK
<1>2. /\ outer \in Seq(Node) /\ Len(outer) = Len(stack) - 1 /\ Len(stack) \in Nat \ {0}
      /\ \A i \in 1..(Len(stack) - 1) : outer[i] = stack[i]
  BY <1>1, FramesFront
<1>3. CASE outer = << >>
  <2>1. stack' = << >>
    BY <1>3 DEF Return
  <2>2. QED
    BY <2>1 DEF BoundIn
<1>4. CASE outer # << >>
  <2> DEFINE d == Len(outer)
             m == Mention(outer[d], refs, Top.bound \cup Spliced)
  <2>1. stack' = [outer EXCEPT ![d] = m] /\ d \in 1..d
    BY <1>2, <1>4 DEF Return
  <2>2. outer[d] \in Node /\ outer[d] = stack[d] /\ d \in 1..Len(stack)
    BY <1>2, <2>1
  <2>3. m.bound \subseteq U
    <3>1. stack[d].bound \subseteq U /\ Top.bound \subseteq U
      BY <1>2, <2>2 DEF BoundIn, Top
    <3>2. m.bound = outer[d].bound \cup Top.bound \cup Spliced
      BY <2>2 DEF Mention, Node
    <3>3. QED
      BY <2>2, <3>1, <3>2
  <2> HIDE DEF m
  <2>4. /\ Len(stack') = d /\ stack'[d] = m
        /\ \A i \in 1..d : i # d => stack'[i] = outer[i]
    BY <1>2, <2>1
  <2>5. ASSUME NEW i \in 1..Len(stack') PROVE stack'[i].bound \subseteq U
    <3>1. CASE i = d
      BY <2>3, <2>4, <3>1
    <3>2. CASE i # d
      <4>1. stack'[i] = stack[i] /\ i \in 1..Len(stack)
        BY <1>2, <2>4, <3>2
      <4>2. QED
        BY <4>1 DEF BoundIn
    <3>3. QED
      BY <3>1, <3>2
  <2>6. QED
    BY <2>5 DEF BoundIn
<1>5. QED
  BY <1>3, <1>4

(* Entering a node adds one that binds nothing.                            *)
LEMMA PushBound ==
  ASSUME IInv, NEW k \in Kinds, NEW dirs \in SUBSET Directives, NEW b \in BOOLEAN,
         Push(k, dirs, b), NEW U, BoundIn(stack, U)
  PROVE  BoundIn(stack', U)
<1> DEFINE n == [kind |-> k, dirs |-> dirs,
                 part |-> IF k \in FnKinds THEN "params" ELSE "body",
                 old |-> b, inParams |-> {}, inBody |-> {}, bound |-> {}]
<1>1. stack \in Seq(Node) /\ stack' = Append(stack, n)
  BY DEF IInv, TypeOK, Push
<1>2. n.bound = {}
  OBVIOUS
<1> HIDE DEF n
<1>3. ASSUME NEW i \in 1..Len(stack') PROVE stack'[i].bound \subseteq U
  <2>1. (i \in 1..Len(stack) /\ stack'[i] = stack[i]) \/ stack'[i] = n
    BY <1>1
  <2>2. QED
    BY <1>2, <2>1 DEF BoundIn
<1>4. QED
  BY <1>3 DEF BoundIn

(* Leaving a node that declares nothing new.                               *)
LEMMA FreshLeave ==
  ASSUME IInv, IInv', FreshInv, phase = "walk", NEW refs \in SUBSET Name, Return(refs),
         function_prepends' = Popped, UNCHANGED <<pending_prepends, out>>,
         used_names \subseteq used_names'
  PROVE  FreshInv'
<1>1. /\ DistinctParts(Popped, pending_prepends, ItemPrepends(out))
      /\ Names(Popped) \subseteq Names(function_prepends)
      /\ Spliced \subseteq Names(function_prepends)
      /\ Spliced \cap (Names(Popped) \cup ToSet(pending_prepends) \cup Names(ItemPrepends(out))) = {}
  BY PopLists
<1>2. Names(Declarations) = Names(function_prepends) \cup ToSet(pending_prepends)
                              \cup Names(ItemPrepends(out))
  BY DeclaredFacts
<1>3. /\ Names(Declarations)' = Names(Popped) \cup ToSet(pending_prepends) \cup Names(ItemPrepends(out))
      /\ Distinct(Declarations)'
  <2> DEFINE O == ItemPrepends(out)
  <2>0. /\ function_prepends' \in Seq(Seq(Name)) /\ pending_prepends' \in Seq(Name)
        /\ O \in Seq(Seq(Name)) /\ O = ItemPrepends(out')
    BY DeclaredFacts, PopLists
  <2> HIDE DEF O
  <2>1. /\ Names(Declarations)' = Names(function_prepends') \cup ToSet(pending_prepends') \cup Names(O)
        /\ Distinct(Declarations)' <=> DistinctParts(function_prepends', pending_prepends', O)
    BY <2>0, DeclaredNext
  <2>2. QED
    BY <1>1, <2>1 DEF O
<1>4. phase' \in {"walk", "item"}
  BY ReturnFacts
<1>5. Names(Declarations)' \subseteq used_names' \ UserNames
  BY <1>1, <1>2, <1>3 DEF FreshInv
<1>6. BoundIn(stack', used_names' \ Names(Declarations)')
  <2> DEFINE U == used_names' \ Names(Declarations)'
  <2>1. Spliced \subseteq U
    BY <1>1, <1>2, <1>3 DEF FreshInv
  <2>2. BoundIn(stack, U)
    BY <1>1, <1>2, <1>3 DEF FreshInv, BoundIn
  <2>3. QED
    BY <2>1, <2>2, ReturnBound
<1>7. UserNames \subseteq used_names'
  BY DEF FreshInv
<1>8. QED
  BY <1>3, <1>4, <1>5, <1>6, <1>7 DEF FreshInv

(* Leaving a worklet whose init data is declared under a fresh name.       *)
LEMMA FreshHoist ==
  ASSUME IInv, IInv', FreshInv, NEW name \in Name, LeaveHoisting(name)
  PROVE  FreshInv'
<1> DEFINE refs == Free(Top, Spliced) \cup {name}
           F == Popped
           P == pending_prepends
           O == ItemPrepends(out)
           G == function_prepends'
           Q == pending_prepends'
<1>1. /\ phase = "walk" /\ Return(refs) /\ refs \in SUBSET Name /\ out' = out
      /\ name \notin used_names /\ used_names' = used_names \cup {name}
      /\ ~(Limited(Top) /\ Popped = << >>)
      /\ Limited(Top) => /\ G = [F EXCEPT ![Len(F)] = Append(F[Len(F)], name)]
                         /\ Q = P
      /\ ~Limited(Top) => G = F /\ Q = Append(P, name)
  BY TopFacts DEF LeaveHoisting, Leaving, IsFreshInitId
<1>2. /\ DistinctParts(F, P, O) /\ F \in Seq(Seq(Name))
      /\ Names(F) \subseteq Names(function_prepends)
      /\ Spliced \subseteq Names(function_prepends)
      /\ Spliced \cap (Names(F) \cup ToSet(P) \cup Names(O)) = {}
  BY <1>1, PopLists
<1>3. /\ Names(Declarations) = Names(function_prepends) \cup ToSet(P) \cup Names(O)
      /\ P \in Seq(Name) /\ O \in Seq(Seq(Name)) /\ used_names \in SUBSET Name
  BY DeclaredFacts
<1>4. name \notin Names(F) \cup ToSet(P) \cup Names(O) \cup Spliced
  BY <1>1, <1>2, <1>3 DEF FreshInv
<1>5. DistinctParts(G, Q, O) /\ Names(G) \cup ToSet(Q) = Names(F) \cup ToSet(P) \cup {name}
  <2>1. CASE Limited(Top)
    <3> DEFINE f == Front(F)
               l == Last(F)
               m == Append(l, name)
    <3>1. /\ f \in Seq(Seq(Name)) /\ l \in Seq(Name) /\ F = Append(f, l) /\ Len(f) = Len(F) - 1
          /\ Len(F) \in Nat \ {0} /\ l = F[Len(F)]
          /\ \A i \in 1..(Len(F) - 1) : f[i] = F[i]
      BY <1>1, <1>2, <2>1, FrontLast DEF Last
    <3>2. m \in Seq(Name) /\ ToSet(m) = ToSet(l) \cup {name}
          /\ (IsInjective(l) /\ name \notin ToSet(l) => IsInjective(m))
      BY <3>1, AppendName
    <3>3. G = Append(f, m)
      <4>1. G = [F EXCEPT ![Len(F)] = m]
        BY <1>1, <2>1, <3>1
      <4>2. F \in Seq(Seq(Name)) /\ m \in Seq(Name)
        BY <1>2, <3>2
      <4> HIDE DEF m, f, l, F, G
      <4>3. /\ Len(G) = Len(F) /\ G[Len(F)] = m /\ G \in Seq(Seq(Name))
            /\ \A i \in 1..(Len(F) - 1) : G[i] = F[i]
        <5> DEFINE n == Len(F)
        <5>1. n \in Nat \ {0} /\ n \in 1..n
          BY <3>1
        <5>2. G \in Seq(Seq(Name)) /\ Len(G) = n
          BY <4>1, <4>2, <5>1
        <5>3. G[n] = m /\ \A i \in 1..(n - 1) : G[i] = F[i]
          BY <4>1, <4>2, <5>1
        <5>4. QED
          BY <5>2, <5>3
      <4>4. Len(G) = Len(f) + 1 /\ \A i \in 1..Len(f) : G[i] = f[i]
        BY <3>1, <4>3
      <4>5. QED
        BY <3>1, <4>2, <4>3, <4>4, AppendIs
    <3> HIDE DEF m, f, l, F, G
    <3>4. /\ Names(Append(f, l)) = Names(f) \cup ToSet(l)
          /\ Distinct(Append(f, l)) <=> Distinct(f) /\ IsInjective(l) /\ Names(f) \cap ToSet(l) = {}
      BY <3>1, AppendList
    <3>5. /\ Names(Append(f, m)) = Names(f) \cup ToSet(m)
          /\ Distinct(Append(f, m)) <=> Distinct(f) /\ IsInjective(m) /\ Names(f) \cap ToSet(m) = {}
      BY <3>1, <3>2, AppendList
    <3>6. Distinct(F) /\ Q = P
      BY <1>1, <1>2, <2>1 DEF DistinctParts
    <3>7. Names(F) = Names(f) \cup ToSet(l) /\ Names(G) = Names(F) \cup {name}
      BY <3>1, <3>2, <3>3, <3>4, <3>5
    <3>8. Distinct(G)
      BY <1>4, <3>1, <3>2, <3>3, <3>4, <3>5, <3>6, <3>7
    <3>9. QED
      BY <1>2, <1>4, <3>6, <3>7, <3>8 DEF DistinctParts
  <2>2. CASE ~Limited(Top)
    <3>1. G = F /\ Q = Append(P, name)
      BY <1>1, <2>2
    <3>2. ToSet(Q) = ToSet(P) \cup {name} /\ (IsInjective(P) /\ name \notin ToSet(P) => IsInjective(Q))
      BY <1>3, <3>1, AppendName
    <3>3. QED
      BY <1>2, <1>4, <3>1, <3>2 DEF DistinctParts
  <2>3. QED
    BY <2>1, <2>2
<1>6. /\ Names(Declarations)' = Names(F) \cup ToSet(P) \cup {name} \cup Names(O)
      /\ Distinct(Declarations)'
  <2>1. function_prepends' \in Seq(Seq(Name)) /\ pending_prepends' \in Seq(Name)
    BY DEF IInv, TypeOK
  <2>2. O = ItemPrepends(out') /\ O \in Seq(Seq(Name))
    BY <1>1, <1>3
  <2> HIDE DEF O
  <2>3. /\ Names(Declarations)' = Names(G) \cup ToSet(Q) \cup Names(O)
        /\ Distinct(Declarations)' <=> DistinctParts(G, Q, O)
    BY <2>1, <2>2, DeclaredNext
  <2> HIDE DEF F, G, Q, P
  <2>4. QED
    BY <1>1, <1>5, <2>3
<1>7. phase' \in {"walk", "item"}
  BY <1>1, ReturnFacts
<1>8. name \notin UserNames /\ UserNames \subseteq used_names'
  BY <1>1 DEF FreshInv
<1>9. Names(Declarations)' \subseteq used_names' \ UserNames
  BY <1>1, <1>2, <1>3, <1>6, <1>8 DEF FreshInv
<1>10. BoundIn(stack', used_names' \ Names(Declarations)')
  <2> DEFINE U == used_names' \ Names(Declarations)'
  <2>1. Spliced \subseteq U
    BY <1>1, <1>2, <1>3, <1>4, <1>6 DEF FreshInv
  <2>2. BoundIn(stack, U)
    <3>1. used_names \ Names(Declarations) \subseteq U
      BY <1>1, <1>2, <1>3, <1>6
    <3>2. QED
      BY <3>1 DEF FreshInv, BoundIn
  <2>3. QED
    BY <1>1, <2>1, <2>2, ReturnBound
<1>11. QED
  BY <1>6, <1>7, <1>8, <1>9, <1>10 DEF FreshInv
(* Entering a node declares nothing.                                       *)
LEMMA FreshPush ==
  ASSUME IInv, IInv', FreshInv, phase \in {"module", "walk"}, phase' = "walk",
         NEW k \in Kinds, NEW dirs \in SUBSET Directives, NEW b \in BOOLEAN, Push(k, dirs, b),
         UNCHANGED <<pending_prepends, out, used_names>>
  PROVE  FreshInv'
<1> DEFINE F == function_prepends
           P == pending_prepends
           O == ItemPrepends(out)
           G == function_prepends'
<1>1. /\ F \in Seq(Seq(Name)) /\ P \in Seq(Name) /\ O \in Seq(Seq(Name))
      /\ Names(Declarations) = Names(F) \cup ToSet(P) \cup Names(O)
      /\ DistinctParts(F, P, O)
  BY DeclaredFacts DEF FreshInv
<1>2. Names(G) = Names(F) /\ Distinct(G)
  <2>1. CASE k \in FrameKinds
    <3>1. G = Append(F, << >>) /\ << >> \in Seq(Name)
      BY <2>1 DEF Push
    <3> HIDE DEF F, G
    <3>2. /\ Names(Append(F, << >>)) = Names(F) \cup ToSet(<< >>)
          /\ Distinct(Append(F, << >>))
               <=> Distinct(F) /\ IsInjective(<< >>) /\ Names(F) \cap ToSet(<< >>) = {}
      BY <1>1, <3>1, AppendList
    <3>3. QED
      BY <1>1, <3>1, <3>2, NoLists DEF DistinctParts
  <2>2. CASE k \notin FrameKinds
    <3>1. G = F
      BY <2>2 DEF Push
    <3>2. QED
      BY <1>1, <3>1 DEF DistinctParts
  <2>3. QED
    BY <2>1, <2>2
<1>3. G \in Seq(Seq(Name)) /\ pending_prepends' = P /\ O = ItemPrepends(out')
  BY DEF IInv, TypeOK
<1>4. /\ Names(Declarations)' = Names(Declarations) /\ Distinct(Declarations)'
  <2>1. function_prepends' \in Seq(Seq(Name)) /\ pending_prepends' \in Seq(Name)
    BY <1>1, <1>3
  <2> HIDE DEF O
  <2>2. /\ Names(Declarations)' = Names(G) \cup ToSet(pending_prepends') \cup Names(O)
        /\ Distinct(Declarations)' <=> DistinctParts(G, pending_prepends', O)
    BY <1>1, <1>3, <2>1, DeclaredNext
  <2> HIDE DEF F, G, P
  <2>3. QED
    BY <1>1, <1>2, <1>3, <2>2 DEF DistinctParts
<1>5. BoundIn(stack', used_names' \ Names(Declarations)')
  <2> DEFINE U == used_names \ Names(Declarations)
  <2>1. BoundIn(stack, U)
    BY DEF FreshInv
  <2> HIDE DEF U
  <2>2. BoundIn(stack', U)
    BY <2>1, PushBound
  <2>3. QED
    BY <1>4, <2>2 DEF U
<1>6. QED
  BY <1>4, <1>5 DEF FreshInv

(* Steps that leave the declarations and what the nodes bound alone.       *)
LEMMA FreshSame ==
  ASSUME FreshInv, UNCHANGED <<function_prepends, pending_prepends, out, used_names>>,
         Len(stack') = Len(stack), \A i \in 1..Len(stack) : stack'[i].bound = stack[i].bound,
         phase' = phase \/ phase' = "done" \/ (phase # "start" /\ phase # "done" /\ phase' # "start")
  PROVE  FreshInv'
<1>1. Declarations' = Declarations
  BY DEF Declarations, ItemPrepends
<1>2. BoundIn(stack', used_names' \ Names(Declarations)')
  BY <1>1 DEF FreshInv, BoundIn
<1>3. QED
  BY <1>1, <1>2 DEF FreshInv

(* Ending an item moves what is pending to it.                             *)
LEMMA FreshEnd ==
  ASSUME IInv, IInv', FreshInv, EndItem
  PROVE  FreshInv'
<1> DEFINE F == function_prepends
           P == pending_prepends
           O == ItemPrepends(out)
           Q == ItemPrepends(out')
           item == [prepends |-> P, mentions |-> escaped]
<1>0. /\ out' = Append(out, item) /\ pending_prepends' = << >>
      /\ phase = "item" /\ phase' = "module"
      /\ UNCHANGED <<stack, function_prepends, used_names>>
  BY DEF EndItem
<1>1. /\ F \in Seq(Seq(Name)) /\ P \in Seq(Name) /\ O \in Seq(Seq(Name))
      /\ Names(Declarations) = Names(F) \cup ToSet(P) \cup Names(O)
      /\ DistinctParts(F, P, O)
  BY DeclaredFacts DEF FreshInv
<1>2. /\ out \in Seq(Item) /\ out' \in Seq(Item) /\ item.prepends = P
      /\ Len(O) = Len(out) /\ Q \in Seq(Seq(Name)) /\ Len(Q) = Len(out')
  BY ItemFacts DEF IInv, TypeOK
<1>3. Q = Append(O, P)
  <2>1. Len(out') = Len(out) + 1 /\ out'[Len(out) + 1] = item
        /\ \A i \in 1..Len(out) : out'[i] = out[i]
    BY <1>0, <1>2
  <2>2. Len(Q) = Len(O) + 1 /\ Q[Len(Q)] = P /\ \A i \in 1..Len(O) : Q[i] = O[i]
    BY <1>2, <2>1 DEF ItemPrepends
  <2> HIDE DEF O, P, Q
  <2>3. QED
    BY <1>1, <1>2, <2>2, AppendIs
<1>4. /\ Names(Q) = Names(O) \cup ToSet(P)
      /\ Distinct(Q) <=> Distinct(O) /\ IsInjective(P) /\ Names(O) \cap ToSet(P) = {}
  <2> HIDE DEF O, P, Q
  <2>1. /\ Names(Append(O, P)) = Names(O) \cup ToSet(P)
        /\ Distinct(Append(O, P)) <=> Distinct(O) /\ IsInjective(P) /\ Names(O) \cap ToSet(P) = {}
    BY <1>1, AppendList
  <2>2. QED
    BY <1>3, <2>1
<1>5. Names(Declarations)' = Names(Declarations) /\ Distinct(Declarations)'
  <2>1. function_prepends' \in Seq(Seq(Name)) /\ pending_prepends' \in Seq(Name)
        /\ function_prepends' = F /\ pending_prepends' = << >>
    BY <1>0, <1>1
  <2>2. Q = ItemPrepends(out')
    OBVIOUS
  <2> HIDE DEF Q
  <2>3. /\ Names(Declarations)'
             = Names(function_prepends') \cup ToSet(pending_prepends') \cup Names(Q)
        /\ Distinct(Declarations)' <=> DistinctParts(function_prepends', pending_prepends', Q)
    BY <1>2, <2>1, <2>2, DeclaredNext
  <2> HIDE DEF F, P, O
  <2>4. DistinctParts(F, << >>, Q)
    BY <1>1, <1>4, NoLists DEF DistinctParts
  <2>5. QED
    BY <1>1, <1>4, <2>1, <2>3, <2>4, NoLists
<1>6. BoundIn(stack', used_names' \ Names(Declarations)')
  BY <1>0, <1>5 DEF FreshInv
<1>7. QED
  BY <1>0, <1>5, <1>6 DEF FreshInv

(* The invariant holds initially: nothing is declared.                     *)
LEMMA FreshInit == Init => FreshInv
<1> SUFFICES ASSUME Init PROVE FreshInv
  OBVIOUS
<1>1. /\ function_prepends = << >> /\ pending_prepends = << >> /\ out = << >> /\ stack = << >>
      /\ phase = "start" /\ used_names = {} /\ IInv
  BY InitIInv DEF Init
<1>2. ItemPrepends(out) = << >> /\ Len(<< >>) = 0
  BY <1>1 DEF ItemPrepends
<1>3. /\ Names(Declarations) = Names(<< >>) \cup ToSet(<< >>) \cup Names(<< >>)
      /\ Distinct(Declarations) <=> DistinctParts(<< >>, << >>, << >>)
  BY <1>1, <1>2, DeclaredFacts
<1>4. Names(Declarations) = {} /\ Distinct(Declarations)
  BY <1>3, NoLists DEF DistinctParts
<1>5. BoundIn(stack, used_names \ Names(Declarations))
  BY <1>1, <1>2 DEF BoundIn
<1>6. QED
  BY <1>1, <1>4, <1>5 DEF FreshInv

(* Every step preserves the invariant about names.                         *)
LEMMA FreshNext == IInv /\ IInv' /\ FreshInv /\ [Next]_vars => FreshInv'
<1> SUFFICES ASSUME IInv, IInv', FreshInv, [Next]_vars PROVE FreshInv'
  OBVIOUS
<1>t. TypeOK
  BY DEF IInv
<1>1. CASE BeginModule \/ BeginScript
  <2>1. /\ UNCHANGED <<function_prepends, pending_prepends, out, stack>> /\ phase = "start"
        /\ \/ phase' = "done" /\ used_names' = used_names
           \/ phase' = "module" /\ used_names' = UserNames
    BY <1>1 DEF BeginModule, BeginScript, Begin, history
  <2>2. Declarations' = Declarations /\ Names(Declarations) = {}
    BY <2>1 DEF Declarations, ItemPrepends, FreshInv
  <2>3. stack = << >> /\ Len(<< >>) = 0
    BY <1>t, <2>1 DEF TypeOK
  <2>4. BoundIn(stack', used_names' \ Names(Declarations)')
    BY <2>1, <2>3 DEF BoundIn
  <2>5. QED
    BY <2>1, <2>2, <2>4 DEF FreshInv
<1>2. ASSUME NEW k \in program.shapes, NEW dirs \in Prologues \cup {{}},
             OpenItem(k, dirs) \/ Enter(k, dirs)
      PROVE  FreshInv'
  <2>1. k \in Kinds /\ dirs \in SUBSET Directives /\ parent_is_scopable \in BOOLEAN
    BY <1>t, ProgramAssumption, PrologueAssumption DEF TypeOK, Family
  <2>2. /\ Push(k, dirs, TRUE) \/ Push(k, dirs, parent_is_scopable)
        /\ phase \in {"module", "walk"} /\ phase' = "walk"
        /\ UNCHANGED <<pending_prepends, out, used_names>>
    BY <1>2 DEF OpenItem, Enter, history
  <2>3. QED
    BY <2>1, <2>2, FreshPush
<1>3. CASE RejectAccessor
  <2>1. /\ UNCHANGED <<function_prepends, pending_prepends, out, used_names, stack, phase>>
    BY <1>3 DEF RejectAccessor
  <2>2. QED
    BY <2>1, FreshSame
<1>4. CASE EnterBody
  <2> DEFINE d == Len(stack)
             n == [stack[d] EXCEPT !.part = "body", !.old = parent_is_scopable]
  <2>1. /\ UNCHANGED <<function_prepends, pending_prepends, out, used_names, phase>> /\ phase = "walk"
    BY <1>4 DEF EnterBody
  <2>2. Top \in Node /\ Top = stack[d] /\ stack \in Seq(Node) /\ d \in Nat \ {0}
    BY <1>t, <2>1, TopFacts DEF TypeOK, Top
  <2>3. n.bound = stack[d].bound
    BY <2>2 DEF Node
  <2>4. stack' = [stack EXCEPT ![d] = n]
    BY <1>4, <2>2 DEF EnterBody
  <2> HIDE DEF n
  <2>5. Len(stack') = d /\ \A i \in 1..d : stack'[i].bound = stack[i].bound
    BY <2>2, <2>3, <2>4
  <2>6. QED
    BY <2>1, <2>5, FreshSame
<1>5. CASE LeavePlain
  <2>1. /\ phase = "walk" /\ Return(Free(Top, Spliced)) /\ Free(Top, Spliced) \in SUBSET Name
        /\ function_prepends' = Popped /\ UNCHANGED <<pending_prepends, out, used_names>>
    BY <1>5, TopFacts DEF LeavePlain, Leaving
  <2>2. QED
    BY <2>1, FreshLeave
<1>6. CASE LeaveBodiless
  <2>1. /\ phase = "walk" /\ Return({}) /\ {} \in SUBSET Name
        /\ function_prepends' = Popped /\ UNCHANGED <<pending_prepends, out, used_names>>
    BY <1>6 DEF LeaveBodiless
  <2>2. QED
    BY <2>1, FreshLeave
<1>7. CASE LeaveWithoutData
  <2>1. /\ phase = "walk" /\ Return(Free(Top, Spliced)) /\ Free(Top, Spliced) \in SUBSET Name
        /\ function_prepends' = Popped /\ UNCHANGED <<pending_prepends, out, used_names>>
    BY <1>7, TopFacts DEF LeaveWithoutData, Leaving
  <2>2. QED
    BY <2>1, FreshLeave
<1>8. ASSUME NEW e \in {"shadows", "print"}, LeaveUnserialized(e)
      PROVE  FreshInv'
  <2>1. /\ phase = "walk" /\ Return(Free(Top, Spliced)) /\ Free(Top, Spliced) \in SUBSET Name
        /\ function_prepends' = Popped /\ UNCHANGED <<pending_prepends, out, used_names>>
    BY <1>8, TopFacts DEF LeaveUnserialized, Leaving
  <2>2. QED
    BY <2>1, FreshLeave
<1>9. ASSUME NEW name \in Candidates PROVE name \in Name
  <2>1. 1..(Cardinality(used_names) + 1) \subseteq Nat \ {0}
    OBVIOUS
  <2>2. QED
    BY <2>1 DEF Candidates, Name
<1>10. ASSUME NEW name \in Candidates, LeaveHoisting(name)
       PROVE  FreshInv'
  BY <1>9, <1>10, FreshHoist
<1>11. ASSUME NEW name \in Candidates, LeaveUnhoistable(name)
       PROVE  FreshInv'
  <2>1. /\ phase = "walk" /\ Return(Free(Top, Spliced)) /\ Free(Top, Spliced) \in SUBSET Name
        /\ function_prepends' = Popped /\ UNCHANGED <<pending_prepends, out>>
        /\ used_names \subseteq used_names'
    BY <1>11, TopFacts DEF LeaveUnhoistable, Leaving
  <2>2. QED
    BY <2>1, FreshLeave
<1>12. ASSUME NEW name \in Candidates, LeaveToFile(name)
       PROVE  FreshInv'
  <2> DEFINE refs == IF PackageDir THEN {name} ELSE Free(Top, Spliced)
  <2>1. /\ phase = "walk" /\ Return(refs) /\ refs \in SUBSET Name
        /\ function_prepends' = Popped /\ UNCHANGED <<pending_prepends, out, used_names>>
    BY <1>9, <1>12, TopFacts DEF LeaveToFile, Leaving
  <2> HIDE DEF refs
  <2>2. QED
    BY <2>1, FreshLeave
<1>13. CASE EndItem
  BY <1>13, FreshEnd
<1>14. CASE EndModule \/ WriteFile \/ Finish
  <2>1. /\ UNCHANGED <<function_prepends, pending_prepends, out, used_names, stack>>
        /\ phase \in {"module", "write"} /\ phase' \in {"write", "done"}
    BY <1>14 DEF EndModule, WriteFile, Finish, visitor
  <2>2. QED
    BY <2>1, FreshSame
<1>15. CASE UNCHANGED vars
  <2>1. UNCHANGED <<function_prepends, pending_prepends, out, used_names, stack, phase>>
    BY <1>15 DEF vars, visitor
  <2>2. QED
    BY <2>1, FreshSame
<1>16. QED
  BY <1>1, <1>2, <1>3, <1>4, <1>5, <1>6, <1>7, <1>8, <1>10, <1>11, <1>12, <1>13, <1>14, <1>15
     DEF Next, LeaveWorklet, Terminated

(* No two declarations of init data share a name and none takes a name of  *)
(* the program's, however many worklets have the same hash.                *)
THEOREM AlwaysFresh == Spec => []FreshInitData
<1>1. ASSUME IInv, FreshInv PROVE FreshInitData
  <2>1. Distinct(Declarations) /\ Names(Declarations) \cap UserNames = {}
    BY <1>1 DEF FreshInv
  <2>2. ASSUME NEW i \in DOMAIN Declarations PROVE ToSet(Declarations[i]) \cap UserNames = {}
    <3>1. Declarations \in Seq(Seq(Name))
      <4> DEFINE F == function_prepends
                 P == pending_prepends
                 O == ItemPrepends(out)
      <4>1. F \in Seq(Seq(Name)) /\ P \in Seq(Name) /\ O \in Seq(Seq(Name))
        BY <1>1, DeclaredFacts
      <4>2. Declarations = F \o <<P>> \o O
        BY DEF Declarations
      <4> HIDE DEF F, P, O
      <4>3. QED
        BY <4>1, <4>2
    <3>2. i \in 1..Len(Declarations)
      BY <3>1
    <3>3. ToSet(Declarations[i]) \subseteq Names(Declarations)
      BY <3>2 DEF Names
    <3>4. QED
      BY <2>1, <3>3
  <2>3. QED
    BY <2>1, <2>2 DEF FreshInitData
<1>2. QED
  BY <1>1, InitIInv, NextIInv, FreshInit, FreshNext, PTL DEF Spec
-----------------------------------------------------------------------------
(* Where init data is declared, in a legacy build.                         *)

(* The number of functions among the first i nodes.                        *)
Count(s, i) == Cardinality({j \in FramesOf(s) : j <= i})

(* Node k is the innermost function among the first i nodes.               *)
Innermost(s, i, k) == k \in FramesOf(s) /\ k <= i /\ \A j \in FramesOf(s) : j <= i => j <= k

(* A name mentioned in the given part of node i is declared in the frame   *)
(* of the innermost function there, and is mentioned in its block body.    *)
Visible(s, frames, i, part, m) ==
  \E k \in 1..i : /\ Innermost(s, i, k) /\ s[k].kind # "exprArrow"
                  /\ IF k = i THEN part = "body" ELSE s[k].part = "body"
                  /\ m \in ToSet(frames[Count(s, i)])

(* Everything that the nodes mention is in K or visible.                   *)
Scoped(s, frames, K) ==
  \A i \in 1..Len(s) :
     /\ \A m \in s[i].inParams : m \in K \/ Visible(s, frames, i, "params", m)
     /\ \A m \in s[i].inBody : m \in K \/ Visible(s, frames, i, "body", m)

(* A nonempty set of positions has a greatest one.                         *)
LEMMA Greatest ==
  ASSUME NEW n \in Nat, NEW S \in SUBSET (1..n), S # {}
  PROVE  \E k \in S : \A j \in S : j <= k
<1> DEFINE T == {n - j : j \in S}
<1>1. T \subseteq Nat /\ T # {}
  <2>1. \A j \in S : j \in 1..n /\ n - j \in Nat
    OBVIOUS
  <2>2. T \subseteq Nat
    BY <2>1
  <2>3. PICK j \in S : TRUE
    OBVIOUS
  <2>4. n - j \in T
    OBVIOUS
  <2>5. QED
    BY <2>2, <2>4
<1>2. \E x \in T : \A y \in T : ~(<<y, x>> \in OpToRel(<, Nat))
  BY <1>1, NatLessThanWellFounded, WFMin
<1>3. PICK x \in T : \A y \in T : ~(<<y, x>> \in OpToRel(<, Nat))
  BY <1>2
<1>4. \A y \in T : ~(y < x)
  BY <1>1, <1>3 DEF OpToRel
<1>5. PICK k \in S : x = n - k
  BY DEF T
<1>6. ASSUME NEW j \in S PROVE j <= k
  <2>1. n - j \in T /\ j \in 1..n /\ k \in 1..n
    OBVIOUS
  <2>2. ~(n - j < n - k)
    BY <1>4, <1>5, <2>1
  <2>3. QED
    BY <2>1, <2>2
<1>7. QED
  BY <1>6

(* The frame of the innermost function is one of the frames.               *)
LEMMA CountRange ==
  ASSUME NEW s \in Seq(Node), NEW i \in 1..Len(s), NEW k, Innermost(s, i, k)
  PROVE  /\ Count(s, i) \in 1..Cardinality(FramesOf(s)) /\ k \in 1..i
         /\ i = Len(s) => Count(s, i) = Cardinality(FramesOf(s))
<1> DEFINE C == {j \in FramesOf(s) : j <= i}
<1>1. C \subseteq FramesOf(s) /\ k \in C
  BY DEF Innermost
<1>2. IsFiniteSet(FramesOf(s)) /\ Cardinality(FramesOf(s)) \in Nat
  BY FramesFinite
<1>3. IsFiniteSet(C) /\ Cardinality(C) <= Cardinality(FramesOf(s))
  BY <1>1, <1>2, FS_Subset
<1>4. Cardinality(C) \in Nat /\ Cardinality(C) # 0
  BY <1>1, <1>3, FS_CardinalityType, FS_EmptySet
<1>5. i = Len(s) => C = FramesOf(s)
  BY DEF FramesOf
<1>6. k \in 1..i
  BY <1>1 DEF FramesOf
<1>7. Cardinality(C) \in 1..Cardinality(FramesOf(s))
  <2> DEFINE c == Cardinality(C)
             d == Cardinality(FramesOf(s))
  <2>1. c \in Nat /\ c # 0 /\ d \in Nat /\ c <= d
    BY <1>2, <1>3, <1>4
  <2> HIDE DEF c, d
  <2>2. c \in 1..d
    BY <2>1
  <2>3. QED
    BY <2>2 DEF c, d
<1>8. Count(s, i) = Cardinality(C)
  BY DEF Count
<1>9. QED
  BY <1>5, <1>6, <1>7, <1>8

(* Nodes alike up to node i, which may stand in another part.              *)
AlikeUpTo(s, t, i) ==
  /\ \A j \in 1..i : s[j].kind = t[j].kind
  /\ \A j \in 1..(i - 1) : s[j].part = t[j].part

(* What is visible depends on the nodes and frames around it only.         *)
LEMMA VisibleAlike ==
  ASSUME NEW s \in Seq(Node), NEW t \in Seq(Node), NEW i, i \in 1..Len(s), i \in 1..Len(t),
         AlikeUpTo(s, t, i), NEW f, NEW g, NEW part, NEW m, Visible(s, f, i, part, m),
         \A c \in 1..Cardinality(FramesOf(s)) : c = Count(t, i) => ToSet(f[c]) \subseteq ToSet(g[c])
  PROVE  Visible(t, g, i, part, m)
<1>1. PICK k \in 1..i : /\ Innermost(s, i, k) /\ s[k].kind # "exprArrow"
                        /\ IF k = i THEN part = "body" ELSE s[k].part = "body"
                        /\ m \in ToSet(f[Count(s, i)])
  BY DEF Visible
<1>2. \A j \in 1..i : j \in FramesOf(s) <=> j \in FramesOf(t)
  <2>1. \A j \in 1..i : j \in DOMAIN s /\ j \in DOMAIN t
    OBVIOUS
  <2>2. QED
    BY <2>1 DEF FramesOf, AlikeUpTo
<1>3. {j \in FramesOf(s) : j <= i} = {j \in FramesOf(t) : j <= i}
  <2>1. \A j \in FramesOf(s) : j <= i => j \in 1..i
    BY DEF FramesOf
  <2>2. \A j \in FramesOf(t) : j <= i => j \in 1..i
    BY DEF FramesOf
  <2>3. QED
    BY <1>2, <2>1, <2>2
<1>4. Count(s, i) = Count(t, i)
  BY <1>3 DEF Count
<1>5. Innermost(t, i, k)
  BY <1>1, <1>2, <1>3 DEF Innermost
<1>6. Count(s, i) \in 1..Cardinality(FramesOf(s))
  BY <1>1, CountRange
<1>7. m \in ToSet(g[Count(t, i)])
  BY <1>1, <1>4, <1>6
<1>8. t[k].kind # "exprArrow" /\ IF k = i THEN part = "body" ELSE t[k].part = "body"
  BY <1>1 DEF AlikeUpTo
<1>9. QED
  BY <1>5, <1>7, <1>8 DEF Visible
(* The frames counted up to a node are no more than all of them.           *)
LEMMA CountMost ==
  ASSUME NEW s \in Seq(Node), NEW i
  PROVE  Count(s, i) \in Nat /\ Count(s, i) <= Cardinality(FramesOf(s))
<1> DEFINE C == {j \in FramesOf(s) : j <= i}
<1>1. C \subseteq FramesOf(s) /\ IsFiniteSet(FramesOf(s))
  BY FramesFinite
<1>2. IsFiniteSet(C) /\ Cardinality(C) <= Cardinality(FramesOf(s)) /\ Cardinality(C) \in Nat
  BY <1>1, FS_Subset, FS_CardinalityType
<1>3. QED
  BY <1>2 DEF Count

(* A name is visible in the part where the node around the top stands.     *)
Around(frames, m) ==
  Len(stack) > 1 /\ Visible(Front(stack), frames, Len(stack) - 1, stack[Len(stack) - 1].part, m)

(* What code mentions beyond the node it stands in is known, or visible    *)
(* around the node, which is then no function.                             *)
LEMMA FreeKnown ==
  ASSUME IInv, phase = "walk", NEW K, Scoped(stack, function_prepends, K),
         NEW m \in Free(Top, Spliced), m \notin K
  PROVE  Top.kind \notin FrameKinds /\ Around(Popped, m)
<1> DEFINE d == Len(stack)
           F == function_prepends
<1>1. /\ stack \in Seq(Node) /\ stack # << >> /\ d \in Nat \ {0} /\ Top = stack[d] /\ d \in 1..d
      /\ F \in Seq(Seq(Name)) /\ Len(F) = Cardinality(FramesOf(stack))
  BY TopFacts DEF IInv, TypeOK, FramesMatchFunctions, Top
<1>2. /\ Front(stack) \in Seq(Node) /\ Len(Front(stack)) = d - 1
      /\ \A i \in 1..(d - 1) : Front(stack)[i] = stack[i]
  BY <1>1, FramesFront
<1>3. PICK part : /\ Visible(stack, F, d, part, m)
                  /\ part = "body" => m \notin Spliced
  <2>1. CASE m \in Top.inParams
    <3>1. Visible(stack, F, d, "params", m)
      BY <1>1, <2>1 DEF Scoped
    <3>2. QED
      BY <3>1
  <2>2. CASE m \in Top.inBody \ Spliced
    <3>1. Visible(stack, F, d, "body", m)
      BY <1>1, <2>2 DEF Scoped
    <3>2. QED
      BY <2>2, <3>1
  <2>3. QED
    BY <2>1, <2>2 DEF Free
<1>4. PICK k \in 1..d : /\ Innermost(stack, d, k) /\ stack[k].kind # "exprArrow"
                        /\ IF k = d THEN part = "body" ELSE stack[k].part = "body"
                        /\ m \in ToSet(F[Count(stack, d)])
  BY <1>3 DEF Visible
<1>5. Count(stack, d) = Len(F) /\ Count(stack, d) \in 1..Len(F)
  BY <1>1, <1>4, CountRange
<1>6. k # d
  <2>1. SUFFICES ASSUME k = d PROVE FALSE
    OBVIOUS
  <2>2. Top.kind \in FrameKinds \ {"exprArrow"} /\ m \notin Spliced
    BY <1>1, <1>3, <1>4, <2>1 DEF Innermost, FramesOf
  <2>3. Last(F) = F[Len(F)]
    BY DEF Last
  <2>4. QED
    BY <1>4, <1>5, <2>2, <2>3 DEF Spliced
<1>7. k \in 1..(d - 1) /\ d - 1 \in Nat /\ d > 1 /\ d - 1 \in 1..d
  BY <1>1, <1>4, <1>6
<1>8. d \notin FramesOf(stack)
  BY <1>1, <1>4, <1>7 DEF Innermost
<1>9. Top.kind \notin FrameKinds
  BY <1>1, <1>8 DEF FramesOf
<1>10. Popped = F
  BY <1>9 DEF Popped
<1>11. Visible(stack, F, d - 1, stack[d - 1].part, m)
  <2>1. \A j \in FramesOf(stack) : j <= d => j <= d - 1
    <3>1. \A j \in FramesOf(stack) : j \in 1..d /\ j # d
      BY <1>8 DEF FramesOf
    <3>2. QED
      BY <1>1, <3>1
  <2>2. \A j \in FramesOf(stack) : j <= d - 1 => j <= d
    <3>1. \A j \in FramesOf(stack) : j \in 1..d
      BY DEF FramesOf
    <3>2. QED
      BY <1>1, <3>1
  <2>3. {j \in FramesOf(stack) : j <= d - 1} = {j \in FramesOf(stack) : j <= d}
    BY <2>1, <2>2
  <2>4. Count(stack, d - 1) = Count(stack, d)
    BY <2>3 DEF Count
  <2>5. Innermost(stack, d - 1, k)
    BY <1>4, <1>7, <2>1, <2>2 DEF Innermost
  <2>6. stack[k].part = "body"
    BY <1>4, <1>6
  <2>7. QED
    BY <1>4, <1>7, <2>4, <2>5, <2>6 DEF Visible
<1>12. Visible(Front(stack), F, d - 1, stack[d - 1].part, m)
  <2> DEFINE o == Front(stack)
  <2>1. d - 1 \in 1..Len(o) /\ \A j \in 1..(d - 1) : o[j] = stack[j]
    BY <1>2, <1>7
  <2>2. AlikeUpTo(stack, o, d - 1)
    <3>1. \A j \in 1..(d - 1 - 1) : j \in 1..(d - 1)
      BY <1>7
    <3>2. QED
      BY <2>1, <3>1 DEF AlikeUpTo
  <2> DEFINE i == d - 1
             p == stack[i].part
  <2>3. /\ o \in Seq(Node) /\ i \in 1..Len(stack) /\ i \in 1..Len(o)
        /\ AlikeUpTo(stack, o, i) /\ Visible(stack, F, i, p, m)
    BY <1>2, <1>7, <1>11, <2>1, <2>2
  <2> HIDE DEF o, i, p, F
  <2>4. Visible(o, F, i, p, m)
    BY <1>1, <2>3, VisibleAlike
  <2>5. QED
    BY <2>4 DEF o, i, p
<1>13. QED
  BY <1>7, <1>9, <1>10, <1>12 DEF Around

(* Without the innermost node and its frame the others are as they were.   *)
LEMMA FrontScoped ==
  ASSUME IInv, phase = "walk", NEW K, Scoped(stack, function_prepends, K)
  PROVE  Scoped(Front(stack), Popped, K)
<1> DEFINE d == Len(stack)
           F == function_prepends
           o == Front(stack)
           P == Popped
<1>1. /\ stack \in Seq(Node) /\ stack # << >> /\ d \in Nat \ {0}
      /\ F \in Seq(Seq(Name)) /\ Len(F) = Cardinality(FramesOf(stack))
      /\ P \in Seq(Seq(Name)) /\ Len(P) = Cardinality(FramesOf(o))
  BY TopFacts DEF IInv, TypeOK, FramesMatchFunctions
<1>2. /\ o \in Seq(Node) /\ Len(o) = d - 1 /\ \A i \in 1..(d - 1) : o[i] = stack[i]
  BY <1>1, FramesFront
<1>3. \A c \in 1..Len(P) : P[c] = F[c]
  <2>1. CASE Top.kind \in FrameKinds
    <3>1. F # << >> /\ P = Front(F)
      BY <1>1, <2>1, TopFacts DEF Popped
    <3>2. QED
      BY <1>1, <3>1, FrontLast
  <2>2. CASE Top.kind \notin FrameKinds
    BY <2>2 DEF Popped
  <2>3. QED
    BY <2>1, <2>2
<1> HIDE DEF F, o, P
<1>4. ASSUME NEW i \in 1..Len(o), NEW part, NEW m, Visible(stack, F, i, part, m)
      PROVE  Visible(o, P, i, part, m)
  <2>1. i \in 1..Len(stack) /\ i \in 1..(d - 1)
    BY <1>1, <1>2
  <2>2. AlikeUpTo(stack, o, i)
    <3>1. \A j \in 1..i : j \in 1..(d - 1)
      BY <1>1, <2>1
    <3>2. \A j \in 1..(i - 1) : j \in 1..(d - 1)
      BY <1>1, <2>1
    <3>3. QED
      BY <1>2, <3>1, <3>2 DEF AlikeUpTo
  <2>3. ASSUME NEW c \in 1..Cardinality(FramesOf(stack)), c = Count(o, i)
        PROVE  ToSet(F[c]) \subseteq ToSet(P[c])
    <3>1. Count(o, i) <= Cardinality(FramesOf(o))
      BY <1>2, CountMost
    <3>2. c \in 1..Len(P)
      BY <1>1, <2>3, <3>1
    <3>3. QED
      BY <1>3, <3>2
  <2>4. QED
    BY <1>1, <1>2, <1>4, <2>1, <2>2, <2>3, VisibleAlike
<1>5. ASSUME NEW i \in 1..Len(o)
      PROVE  /\ \A m \in o[i].inParams : m \in K \/ Visible(o, P, i, "params", m)
             /\ \A m \in o[i].inBody : m \in K \/ Visible(o, P, i, "body", m)
  <2>1. i \in 1..Len(stack) /\ o[i] = stack[i]
    BY <1>1, <1>2
  <2>2. /\ \A m \in stack[i].inParams : m \in K \/ Visible(stack, F, i, "params", m)
        /\ \A m \in stack[i].inBody : m \in K \/ Visible(stack, F, i, "body", m)
    BY <2>1 DEF Scoped, F
  <2>3. QED
    BY <1>4, <2>1, <2>2
<1>6. QED
  BY <1>5 DEF Scoped, o, P

(* The last of the nodes o mentions refs besides in t.                     *)
Mentioned(o, t, refs, bound) == t = [o EXCEPT ![Len(o)] = Mention(o[Len(o)], refs, bound)]

(* The last node mentions more, frames take more names, more is known.     *)
LEMMA MentionScoped ==
  ASSUME NEW o \in Seq(Node), o # << >>, NEW K, NEW L, K \subseteq L, NEW f, NEW g,
         Scoped(o, f, K), \A c \in 1..Cardinality(FramesOf(o)) : ToSet(f[c]) \subseteq ToSet(g[c]),
         NEW refs, NEW bound, NEW t \in Seq(Node),
         Mentioned(o, t, refs, bound),
         \A m \in refs : m \in L \/ Visible(o, g, Len(o), o[Len(o)].part, m)
  PROVE  Scoped(t, g, L)
<1> DEFINE d == Len(o)
           n == Mention(o[d], refs, bound)
<1>1. d \in Nat \ {0} /\ d \in 1..d /\ \A i \in 1..d : o[i] \in Node
  OBVIOUS
<1>2. /\ n.kind = o[d].kind /\ n.part = o[d].part
      /\ n.inParams = o[d].inParams \cup IF o[d].part = "params" THEN refs ELSE {}
      /\ n.inBody   = o[d].inBody \cup IF o[d].part = "body" THEN refs ELSE {}
  BY <1>1 DEF Mention, Node
<1>3. Len(t) = d /\ t[d] = n /\ \A i \in 1..d : i # d => t[i] = o[i]
  BY <1>1 DEF Mentioned
<1> HIDE DEF n
<1>4. ASSUME NEW i \in 1..d, NEW part, NEW m, Visible(o, f, i, part, m) \/ Visible(o, g, i, part, m)
      PROVE  Visible(t, g, i, part, m)
  <2>1. AlikeUpTo(o, t, i)
    <3>1. \A j \in 1..d : o[j].kind = t[j].kind /\ o[j].part = t[j].part
      BY <1>2, <1>3
    <3>2. \A j \in 1..i : j \in 1..d
      BY <1>1
    <3>3. \A j \in 1..(i - 1) : j \in 1..d
      BY <1>1
    <3>4. QED
      BY <3>1, <3>2, <3>3 DEF AlikeUpTo
  <2>2. i \in 1..Len(o) /\ i \in 1..Len(t)
    BY <1>3
  <2>3. CASE Visible(o, f, i, part, m)
    BY <2>1, <2>2, <2>3, VisibleAlike
  <2>4. CASE Visible(o, g, i, part, m)
    BY <2>1, <2>2, <2>4, VisibleAlike
  <2>5. QED
    BY <1>4, <2>3, <2>4
<1>5. ASSUME NEW i \in 1..Len(t)
      PROVE  /\ \A m \in t[i].inParams : m \in L \/ Visible(t, g, i, "params", m)
             /\ \A m \in t[i].inBody : m \in L \/ Visible(t, g, i, "body", m)
  <2>1. /\ i \in 1..d
        /\ \A m \in o[i].inParams : m \in K \/ Visible(o, f, i, "params", m)
        /\ \A m \in o[i].inBody : m \in K \/ Visible(o, f, i, "body", m)
    BY <1>3 DEF Scoped
  <2>2. CASE i # d
    BY <1>3, <1>4, <2>1, <2>2
  <2>3. CASE i = d
    <3>1. ASSUME NEW m \in t[i].inParams PROVE m \in L \/ Visible(t, g, i, "params", m)
      BY <1>2, <1>3, <1>4, <2>1, <2>3
    <3>2. ASSUME NEW m \in t[i].inBody PROVE m \in L \/ Visible(t, g, i, "body", m)
      BY <1>2, <1>3, <1>4, <2>1, <2>3
    <3>3. QED
      BY <3>1, <3>2
  <2>4. QED
    BY <2>2, <2>3
<1>6. QED
  BY <1>5 DEF Scoped

(* Leaving a node whose code mentions what is known or visible around it.  *)
LEMMA ReturnScoped ==
  ASSUME IInv, phase = "walk", NEW refs \in SUBSET Name, Return(refs),
         NEW K, NEW L, K \subseteq L, Scoped(stack, function_prepends, K), escaped \subseteq L,
         NEW G, \A c \in 1..Len(Popped) : ToSet(Popped[c]) \subseteq ToSet(G[c]),
         \A m \in refs : m \in L \/ Around(G, m)
  PROVE  Scoped(stack', G, L) /\ escaped' \subseteq L
<1> DEFINE o == Front(stack)
           b == Top.bound \cup Spliced
           t == stack'
           P == Popped
<1>1. /\ stack \in Seq(Node) /\ stack # << >> /\ Len(stack) \in Nat \ {0} /\ t \in Seq(Node)
      /\ P \in Seq(Seq(Name)) /\ Len(P) = Cardinality(FramesOf(o))
  BY TopFacts, ReturnFacts DEF IInv, TypeOK
<1>2. /\ o \in Seq(Node) /\ Len(o) = Len(stack) - 1
      /\ \A i \in 1..(Len(stack) - 1) : o[i] = stack[i]
  BY <1>1, FramesFront
<1>3. CASE o = << >>
  <2>1. Len(stack) = 1
    BY <1>1, <1>2, <1>3
  <2>2. t = << >> /\ escaped' = refs
    BY <1>3 DEF Return
  <2>3. refs \subseteq L
    BY <2>1 DEF Around
  <2>4. QED
    BY <2>2, <2>3 DEF Scoped
<1>4. CASE o # << >>
  <2>1. Mentioned(o, t, refs, b) /\ escaped' = escaped
    BY <1>4 DEF Return, Mentioned
  <2>2. Scoped(o, P, K)
    BY FrontScoped
  <2>3. Len(o) \in 1..(Len(stack) - 1)
    BY <1>1, <1>2, <1>4
  <2>4. ASSUME NEW m \in refs PROVE m \in L \/ Visible(o, G, Len(o), o[Len(o)].part, m)
    BY <1>2, <2>3 DEF Around
  <2>5. \A c \in 1..Cardinality(FramesOf(o)) : ToSet(P[c]) \subseteq ToSet(G[c])
    BY <1>1
  <2> HIDE DEF o, b, t, P
  <2>6. Scoped(t, G, L)
    BY <1>1, <1>2, <1>4, <2>1, <2>2, <2>4, <2>5, MentionScoped
  <2>7. QED
    BY <2>1, <2>6 DEF t
<1>5. QED
  BY <1>3, <1>4

(* Entering a node.                                                        *)
LEMMA PushScoped ==
  ASSUME IInv, NEW k \in Kinds, NEW dirs \in SUBSET Directives, NEW b \in BOOLEAN,
         Push(k, dirs, b), NEW K, Scoped(stack, function_prepends, K)
  PROVE  Scoped(stack', function_prepends', K)
<1> DEFINE n == [kind |-> k, dirs |-> dirs,
                 part |-> IF k \in FnKinds THEN "params" ELSE "body",
                 old |-> b, inParams |-> {}, inBody |-> {}, bound |-> {}]
           s == stack
           t == stack'
           F == function_prepends
           G == function_prepends'
<1>1. /\ s \in Seq(Node) /\ t = Append(s, n) /\ t \in Seq(Node) /\ Len(s) \in Nat
      /\ F \in Seq(Seq(Name)) /\ Len(F) = Cardinality(FramesOf(s))
  <2>1. s \in Seq(Node) /\ F \in Seq(Seq(Name)) /\ Len(F) = Cardinality(FramesOf(s))
    BY DEF IInv, TypeOK, FramesMatchFunctions
  <2>2. t \in Seq(Node)
    BY PushFacts
  <2>3. t = Append(s, n)
    BY DEF Push
  <2>4. QED
    BY <2>1, <2>2, <2>3
<1>2. \A c \in 1..Len(F) : G[c] = F[c]
  BY <1>1 DEF Push
<1>3. n.inParams = {} /\ n.inBody = {}
  OBVIOUS
<1> HIDE DEF n, s, t, F, G
<1>4. Len(t) = Len(s) + 1 /\ t[Len(s) + 1] = n /\ \A i \in 1..Len(s) : t[i] = s[i]
  BY <1>1
<1>5. ASSUME NEW i \in 1..Len(s), NEW part, NEW m, Visible(s, F, i, part, m)
      PROVE  Visible(t, G, i, part, m)
  <2>1. AlikeUpTo(s, t, i)
    <3>1. \A j \in 1..i : j \in 1..Len(s)
      BY <1>1
    <3>2. \A j \in 1..(i - 1) : j \in 1..Len(s)
      BY <1>1
    <3>3. QED
      BY <1>4, <3>1, <3>2 DEF AlikeUpTo
  <2>2. i \in 1..Len(t)
    BY <1>1, <1>4
  <2>3. \A c \in 1..Cardinality(FramesOf(s)) : ToSet(F[c]) \subseteq ToSet(G[c])
    BY <1>1, <1>2
  <2>4. QED
    BY <1>1, <1>5, <2>1, <2>2, <2>3, VisibleAlike
<1>6. ASSUME NEW i \in 1..Len(t)
      PROVE  /\ \A m \in t[i].inParams : m \in K \/ Visible(t, G, i, "params", m)
             /\ \A m \in t[i].inBody : m \in K \/ Visible(t, G, i, "body", m)
  <2>1. CASE i \in 1..Len(s)
    <3>1. /\ \A m \in s[i].inParams : m \in K \/ Visible(s, F, i, "params", m)
          /\ \A m \in s[i].inBody : m \in K \/ Visible(s, F, i, "body", m)
      BY <2>1 DEF Scoped, s, F
    <3>2. QED
      BY <1>4, <1>5, <2>1, <3>1
  <2>2. CASE i = Len(s) + 1
    BY <1>3, <1>4, <2>2
  <2>3. QED
    BY <1>1, <1>4, <2>1, <2>2
<1>7. QED
  BY <1>6 DEF Scoped, t, G

(* From the parameters to the body of a function.                          *)
LEMMA BodyScoped ==
  ASSUME IInv, EnterBody, NEW K, Scoped(stack, function_prepends, K)
  PROVE  Scoped(stack', function_prepends, K)
<1> DEFINE d == Len(stack)
           s == stack
           t == stack'
           F == function_prepends
<1>1. /\ s \in Seq(Node) /\ d \in Nat \ {0} /\ d = Len(s) /\ s[d] \in Node
      /\ Len(F) = Cardinality(FramesOf(s))
  BY TopFacts DEF IInv, TypeOK, FramesMatchFunctions, EnterBody, Top
<1>2. t = [s EXCEPT ![d].part = "body", ![d].old = parent_is_scopable]
  BY DEF EnterBody
<1>3. parent_is_scopable \in BOOLEAN
  BY DEF IInv, TypeOK
<1> DEFINE n == [s[d] EXCEPT !.part = "body", !.old = parent_is_scopable]
<1>4. n \in Node /\ n.kind = s[d].kind /\ n.inParams = s[d].inParams /\ n.inBody = s[d].inBody
  BY <1>1, <1>3 DEF Node, Parts
<1>5. t = [s EXCEPT ![d] = n]
  BY <1>1, <1>2
<1> HIDE DEF n, s, t, F
<1>6. t \in Seq(Node) /\ Len(t) = d /\ t[d] = n /\ \A i \in 1..d : i # d => t[i] = s[i]
  BY <1>1, <1>4, <1>5
<1>7. ASSUME NEW i \in 1..d, NEW part, NEW m, Visible(s, F, i, part, m)
      PROVE  Visible(t, F, i, part, m)
  <2>1. AlikeUpTo(s, t, i)
    <3>1. \A j \in 1..i : s[j].kind = t[j].kind
      <4>1. \A j \in 1..i : j \in 1..d
        BY <1>1
      <4>2. QED
        BY <1>4, <1>6, <4>1
    <3>2. \A j \in 1..(i - 1) : j \in 1..d /\ j # d
      BY <1>1
    <3>3. QED
      BY <1>6, <3>1, <3>2 DEF AlikeUpTo
  <2>2. i \in 1..Len(s) /\ i \in 1..Len(t)
    BY <1>1, <1>6
  <2>3. QED
    BY <1>1, <1>6, <1>7, <2>1, <2>2, VisibleAlike
<1>8. ASSUME NEW i \in 1..Len(t)
      PROVE  /\ \A m \in t[i].inParams : m \in K \/ Visible(t, F, i, "params", m)
             /\ \A m \in t[i].inBody : m \in K \/ Visible(t, F, i, "body", m)
  <2>1. i \in 1..d /\ t[i].inParams = s[i].inParams /\ t[i].inBody = s[i].inBody
    BY <1>4, <1>6
  <2>2. /\ \A m \in s[i].inParams : m \in K \/ Visible(s, F, i, "params", m)
        /\ \A m \in s[i].inBody : m \in K \/ Visible(s, F, i, "body", m)
    BY <1>1, <2>1 DEF Scoped, s, F
  <2>3. QED
    BY <1>7, <2>1, <2>2
<1>9. QED
  BY <1>8 DEF Scoped, t, F

(* What is declared at the top of the module, before the item it is in or  *)
(* before the item that is being visited.                                  *)
Hoisted == ToSet(pending_prepends) \cup Names(ItemPrepends(out))

(* Names that the code may mention without their being visible there: they *)
(* are hoisted, or they are lost.                                          *)
LostIn(W) == {w.init : w \in {v \in W : Lost(v)}}
Known     == Hoisted \cup LostIn(worklets)

(* Only the init data of worklets that do not limit it is hoisted.         *)
HoistedUnlimited ==
  \A m \in Hoisted : \E w \in worklets : w.init = m /\ "limit-init-data-hoisting" \notin w.dirs

DataInv ==
  ~BundleMode => /\ Scoped(stack, function_prepends, Known) /\ escaped \subseteq Known
                 /\ HoistedUnlimited /\ InitDataInScope /\ SerializedCodeClosed

(* What is hoisted after a step that finishes no item.                     *)
LEMMA HoistedSame ==
  ASSUME UNCHANGED <<options, pending_prepends, out>>, worklets \subseteq worklets'
  PROVE  /\ Hoisted' = Hoisted /\ Known \subseteq Known' /\ BundleMode' = BundleMode
         /\ HoistedUnlimited => HoistedUnlimited'
         /\ InitDataInScope => InitDataInScope'
<1>1. Hoisted' = Hoisted /\ BundleMode' = BundleMode
  BY DEF Hoisted, BundleMode, ItemPrepends
<1>2. Known \subseteq Known'
  BY <1>1 DEF Known, LostIn
<1>3. HoistedUnlimited => HoistedUnlimited'
  BY <1>1 DEF HoistedUnlimited
<1>4. \A i : HoistedBefore(i)' = HoistedBefore(i)
  BY DEF HoistedBefore
<1>5. InitDataInScope => InitDataInScope'
  <2>1. SUFFICES ASSUME InitDataInScope, ~BundleMode, NEW i \in DOMAIN out, NEW m \in out[i].mentions
                 PROVE  m \in HoistedBefore(i) \/ \E w \in worklets' : w.init = m /\ Lost(w)
    BY <1>1, <1>4 DEF InitDataInScope
  <2>2. m \in HoistedBefore(i) \/ \E w \in worklets : w.init = m /\ Lost(w)
    BY <2>1 DEF InitDataInScope
  <2>3. QED
    BY <2>2
<1>6. QED
  BY <1>1, <1>2, <1>3, <1>5

(* Steps that touch neither code nor declarations.                         *)
LEMMA DataSame ==
  ASSUME DataInv,
         UNCHANGED <<options, stack, function_prepends, pending_prepends, escaped, out, worklets>>
  PROVE  DataInv'
<1>1. /\ Hoisted' = Hoisted /\ BundleMode' = BundleMode
      /\ HoistedUnlimited => HoistedUnlimited'
      /\ InitDataInScope => InitDataInScope'
  BY HoistedSame
<1>2. Known' = Known
  BY <1>1 DEF Known
<1>3. SerializedCodeClosed => SerializedCodeClosed'
  BY <1>1 DEF SerializedCodeClosed
<1>4. QED
  BY <1>1, <1>2, <1>3 DEF DataInv

(* Leaving a node that becomes no worklet: its code is returned as it is,  *)
(* or not at all.                                                          *)
LEMMA DataLeave ==
  ASSUME IInv, DataInv, phase = "walk", NEW refs \in SUBSET Free(Top, Spliced), Return(refs),
         function_prepends' = Popped, UNCHANGED <<options, pending_prepends, out, worklets>>
  PROVE  DataInv'
<1> SUFFICES ASSUME ~BundleMode PROVE DataInv'
  BY DEF DataInv, BundleMode
<1>1. /\ Hoisted' = Hoisted /\ BundleMode' = BundleMode
      /\ HoistedUnlimited' /\ InitDataInScope'
  BY HoistedSame DEF DataInv
<1>2. Known' = Known
  BY <1>1 DEF Known
<1>3. SerializedCodeClosed'
  BY <1>1 DEF DataInv, SerializedCodeClosed
<1>4. /\ Scoped(stack, function_prepends, Known) /\ escaped \subseteq Known
      /\ refs \in SUBSET Name
  BY TopFacts DEF DataInv
<1>5. \A m \in refs : m \in Known \/ Around(Popped, m)
  BY <1>4, FreeKnown
<1>6. Scoped(stack', Popped, Known) /\ escaped' \subseteq Known
  BY <1>4, <1>5, ReturnScoped
<1>7. QED
  BY <1>1, <1>2, <1>3, <1>6 DEF DataInv

(* A worklet's serialized code is closed: what it mentions is known, since *)
(* it is a function, and what is hoisted it either captures or leaves out  *)
(* on demand; none of it is bound inside, as no name is declared twice.    *)
LEMMA ReplacedClosed ==
  ASSUME IInv, FreshInv, DataInv, phase = "walk", ~BundleMode, Due(Top), NEW init, Replaced(init)
  PROVE  SerializedCodeClosed' /\ worklets \subseteq worklets'
<1> DEFINE free == Free(Top, Spliced)
           closure == Closure(Top, Spliced)
           new == [number |-> worklet_number, init |-> init, dirs |-> Top.dirs, site |-> Site,
                   open |-> free \ closure]
<1>1. worklets' = worklets \cup {new}
  BY DEF Replaced
<1>2. new.open = free \ closure /\ new.dirs = Top.dirs
  OBVIOUS
<1>3. Top.kind \in FrameKinds
  BY DEF Due, WorkletKinds
<1>4. Scoped(stack, function_prepends, Known) /\ HoistedUnlimited /\ SerializedCodeClosed
  BY DEF DataInv
<1>5. free \subseteq Known
  BY <1>3, <1>4, FreeKnown
<1>6. ASSUME NEW m \in free \ closure, "no-worklet-closure" \notin Top.dirs PROVE m \notin Hoisted
  <2>1. m \in Top.bound \cup Spliced
    BY <1>6 DEF Closure, Free
  <2>2. CASE m \in Top.bound
    <3>1. Top = stack[Len(stack)] /\ Len(stack) \in 1..Len(stack)
      BY TopFacts DEF Top
    <3>2. m \notin Names(Declarations)
      BY <2>2, <3>1 DEF FreshInv, BoundIn
    <3>3. QED
      BY <3>2, DeclaredFacts DEF Hoisted
  <2>3. CASE m \in Spliced
    BY <2>3, PopLists DEF Hoisted
  <2>4. QED
    BY <2>1, <2>2, <2>3
<1>7. ASSUME NEW m \in free \ closure
      PROVE  \E v \in worklets :
               /\ v.init = m
               /\ \/ Lost(v)
                  \/ /\ "no-worklet-closure" \in Top.dirs
                     /\ "limit-init-data-hoisting" \notin v.dirs
  <2>1. CASE m \in LostIn(worklets)
    BY <2>1 DEF LostIn
  <2>2. CASE m \in Hoisted
    BY <1>4, <1>6, <2>2 DEF HoistedUnlimited
  <2>3. QED
    BY <1>5, <2>1, <2>2 DEF Known
<1> HIDE DEF new, free, closure
<1>8. ASSUME NEW w \in worklets', NEW m \in w.open
      PROVE  \E v \in worklets' :
               /\ v.init = m
               /\ \/ Lost(v)
                  \/ /\ "no-worklet-closure" \in w.dirs
                     /\ "limit-init-data-hoisting" \notin v.dirs
  <2>1. CASE w \in worklets
    BY <1>1, <1>4, <1>8, <2>1 DEF SerializedCodeClosed
  <2>2. CASE w = new
    BY <1>1, <1>2, <1>7, <1>8, <2>2
  <2>3. QED
    BY <1>1, <2>1, <2>2
<1>9. SerializedCodeClosed'
  BY <1>8 DEF SerializedCodeClosed
<1>10. QED
  BY <1>1, <1>9

(* Leaving a worklet that has no init data.                                *)
LEMMA DataNone ==
  ASSUME IInv, FreshInv, DataInv, LeaveWithoutData
  PROVE  DataInv'
<1>1. /\ phase = "walk" /\ ~BundleMode /\ Due(Top) /\ Replaced(None)
      /\ Return(Free(Top, Spliced)) /\ function_prepends' = Popped
      /\ UNCHANGED <<options, pending_prepends, out>>
  BY DEF LeaveWithoutData, Leaving
<1>2. SerializedCodeClosed' /\ worklets \subseteq worklets'
  BY <1>1, ReplacedClosed
<1>3. /\ Scoped(stack, function_prepends, Known) /\ escaped \subseteq Known
      /\ Free(Top, Spliced) \in SUBSET Name
  BY <1>1, TopFacts DEF DataInv
<1>4. Known \subseteq Known' /\ HoistedUnlimited' /\ InitDataInScope'
  BY <1>1, <1>2, HoistedSame DEF DataInv
<1>5. \A m \in Free(Top, Spliced) : m \in Known' \/ Around(Popped, m)
  BY <1>1, <1>3, <1>4, FreeKnown
<1>6. Scoped(stack', Popped, Known') /\ escaped' \subseteq Known'
  <2> DEFINE L == Known'
  <2> HIDE DEF L
  <2>1. Known \subseteq L /\ escaped \subseteq L
    BY <1>3, <1>4 DEF L
  <2>2. \A m \in Free(Top, Spliced) : m \in L \/ Around(Popped, m)
    BY <1>5 DEF L
  <2>3. \A c \in 1..Len(Popped) : ToSet(Popped[c]) \subseteq ToSet(Popped[c])
    OBVIOUS
  <2>4. Scoped(stack', Popped, L) /\ escaped' \subseteq L
    BY <1>1, <1>3, <2>1, <2>2, <2>3, ReturnScoped
  <2>5. QED
    BY <2>4 DEF L
<1>7. QED
  BY <1>1, <1>2, <1>4, <1>6 DEF DataInv

(* Limited init data is declared in the innermost function around: the     *)
(* worklet stands in its block body, where the data is visible, or loses   *)
(* it.                                                                     *)
LEMMA LimitedPlace ==
  ASSUME IInv, NEW name \in Name, LeaveHoisting(name), Limited(Top)
  PROVE  Around(function_prepends', name) \/ name \in LostIn(worklets')
<1> DEFINE o == Front(stack)
           P == Popped
           G == function_prepends'
           d == Len(stack)
           new == [number |-> worklet_number, init |-> name, dirs |-> Top.dirs, site |-> Site,
                   open |-> Free(Top, Spliced) \ Closure(Top, Spliced)]
<1>1. /\ phase = "walk" /\ P # << >> /\ new \in worklets'
      /\ G = [P EXCEPT ![Len(P)] = Append(P[Len(P)], name)]
  BY DEF LeaveHoisting, Leaving, Replaced
<1>2. /\ stack \in Seq(Node) /\ stack # << >> /\ d \in Nat \ {0}
      /\ P \in Seq(Seq(Name)) /\ Len(P) = Cardinality(FramesOf(o))
  BY <1>1, TopFacts DEF IInv, TypeOK
<1>3. /\ o \in Seq(Node) /\ Len(o) = d - 1 /\ \A i \in 1..(d - 1) : o[i] = stack[i]
  BY <1>2, FramesFront
<1>4. PICK k \in FramesOf(o) : \A j \in FramesOf(o) : j <= k
  <2>1. FramesOf(o) \in SUBSET (1..Len(o)) /\ Len(o) \in Nat
    BY <1>3 DEF FramesOf
  <2>2. FramesOf(o) # {}
    <3>1. Len(P) # 0
      BY <1>1, <1>2
    <3>2. QED
      BY <1>2, <3>1, FS_EmptySet
  <2>3. QED
    BY <2>1, <2>2, Greatest
<1>5. /\ k \in 1..(d - 1) /\ d > 1 /\ d - 1 \in 1..Len(o) /\ o[k] \in Node /\ o[k].kind \in FrameKinds
      /\ \A j \in FramesOf(o) : j \in 1..(d - 1)
  <2>1. \A j \in FramesOf(o) : j \in 1..(d - 1) /\ o[j] \in Node /\ o[j].kind \in FrameKinds
    BY <1>3 DEF FramesOf
  <2>2. QED
    BY <1>2, <1>3, <1>4, <2>1
<1> DEFINE p == [kind |-> o[k].kind, part |-> o[k].part]
<1>6. p \in Site
  BY <1>4, <1>5 DEF Site, FramesOf
<1>7. CASE o[k].kind = "exprArrow" \/ o[k].part = "params"
  <2>1. p.kind = "exprArrow" \/ p.part = "params"
    BY <1>7
  <2> HIDE DEF p
  <2>2. new.site = Site /\ new.init = name /\ "limit-init-data-hoisting" \in new.dirs
    BY DEF Limited
  <2> HIDE DEF new
  <2>3. Lost(new)
    BY <1>6, <2>1, <2>2 DEF Lost
  <2>4. QED
    BY <1>1, <2>2, <2>3 DEF LostIn
<1>8. CASE ~(o[k].kind = "exprArrow" \/ o[k].part = "params")
  <2>1. o[k].kind # "exprArrow" /\ o[k].part = "body"
    BY <1>5, <1>8 DEF Node, Parts
  <2>2. Innermost(o, d - 1, k)
    BY <1>4, <1>5 DEF Innermost
  <2>3. Count(o, d - 1) = Len(P) /\ Len(P) \in 1..Len(P)
    <3>1. d - 1 \in 1..Len(o) /\ d - 1 = Len(o)
      BY <1>3, <1>5
    <3>2. QED
      BY <1>2, <1>3, <2>2, <3>1, CountRange
  <2>4. name \in ToSet(G[Len(P)])
    <3> DEFINE l == P[Len(P)]
    <3>1. l \in Seq(Name)
      BY <1>2, <2>3
    <3>2. G[Len(P)] = Append(l, name)
      BY <1>1, <1>2, <2>3
    <3> HIDE DEF l
    <3>3. name \in ToSet(Append(l, name))
      BY <3>1, AppendName
    <3>4. QED
      BY <3>2, <3>3
  <2>5. IF k = d - 1 THEN stack[d - 1].part = "body" ELSE o[k].part = "body"
    BY <1>3, <1>5, <2>1
  <2>6. Visible(o, G, d - 1, stack[d - 1].part, name)
    BY <1>5, <2>1, <2>2, <2>3, <2>4, <2>5 DEF Visible
  <2>7. QED
    BY <1>5, <2>6 DEF Around
<1>9. QED
  BY <1>7, <1>8

(* Leaving a worklet whose init data is declared.                          *)
LEMMA DataHoist ==
  ASSUME IInv, FreshInv, DataInv, NEW name \in Name, LeaveHoisting(name)
  PROVE  DataInv'
<1> DEFINE P == Popped
           G == function_prepends'
           F == Free(Top, Spliced)
           refs == F \cup {name}
<1>1. /\ phase = "walk" /\ ~BundleMode /\ Due(Top) /\ Replaced(name)
      /\ Return(refs) /\ UNCHANGED <<options, out>>
      /\ ~(Limited(Top) /\ Popped = << >>)
      /\ Limited(Top) => /\ G = [P EXCEPT ![Len(P)] = Append(P[Len(P)], name)]
                         /\ pending_prepends' = pending_prepends
      /\ ~Limited(Top) => G = P /\ pending_prepends' = Append(pending_prepends, name)
  BY DEF LeaveHoisting, Leaving
<1>2. SerializedCodeClosed' /\ worklets \subseteq worklets'
  BY <1>1, ReplacedClosed
<1>3. /\ Scoped(stack, function_prepends, Known) /\ escaped \subseteq Known /\ HoistedUnlimited
      /\ InitDataInScope /\ F \in SUBSET Name /\ refs \in SUBSET Name
      /\ P \in Seq(Seq(Name)) /\ pending_prepends \in Seq(Name)
  BY <1>1, TopFacts DEF DataInv, IInv, TypeOK
<1>4. PICK w \in worklets' : w.init = name /\ w.dirs = Top.dirs
  <2> DEFINE new == [number |-> worklet_number, init |-> name, dirs |-> Top.dirs, site |-> Site,
                     open |-> Free(Top, Spliced) \ Closure(Top, Spliced)]
  <2>1. new \in worklets' /\ new.init = name /\ new.dirs = Top.dirs
    BY <1>1 DEF Replaced
  <2>2. QED
    BY <2>1
<1>5. Hoisted' = IF Limited(Top) THEN Hoisted ELSE Hoisted \cup {name}
  <2>1. ItemPrepends(out)' = ItemPrepends(out)
    BY <1>1 DEF ItemPrepends
  <2>2. ToSet(Append(pending_prepends, name)) = ToSet(pending_prepends) \cup {name}
    BY <1>3, AppendName
  <2>3. QED
    BY <1>1, <2>1, <2>2 DEF Hoisted
<1>6. Known \subseteq Known'
  BY <1>2, <1>5 DEF Known, LostIn
<1>7. HoistedUnlimited'
  <2>1. ASSUME NEW m \in Hoisted'
        PROVE  \E v \in worklets' : v.init = m /\ "limit-init-data-hoisting" \notin v.dirs
    <3>1. CASE m \in Hoisted
      BY <1>2, <1>3, <3>1 DEF HoistedUnlimited
    <3>2. CASE ~Limited(Top) /\ m = name
      BY <1>4, <3>2 DEF Limited
    <3>3. QED
      BY <1>5, <2>1, <3>1, <3>2
  <2>2. QED
    BY <2>1 DEF HoistedUnlimited
<1>8. InitDataInScope'
  <2>1. \A i : HoistedBefore(i)' = HoistedBefore(i)
    BY <1>1 DEF HoistedBefore
  <2>2. ASSUME NEW i \in DOMAIN out, NEW m \in out[i].mentions
        PROVE  m \in HoistedBefore(i) \/ \E v \in worklets' : v.init = m /\ Lost(v)
    <3>1. m \in HoistedBefore(i) \/ \E v \in worklets : v.init = m /\ Lost(v)
      BY <1>1, <1>3 DEF InitDataInScope
    <3>2. QED
      BY <1>2, <3>1
  <2>3. QED
    BY <1>1, <2>1, <2>2 DEF InitDataInScope
<1>9. name \in Known' \/ Around(G, name)
  <2>1. CASE Limited(Top)
    BY <2>1, LimitedPlace DEF Known
  <2>2. CASE ~Limited(Top)
    BY <1>5, <2>2 DEF Known
  <2>3. QED
    BY <2>1, <2>2
<1>10. \A c \in 1..Len(P) : ToSet(P[c]) \subseteq ToSet(G[c])
  <2>1. CASE ~Limited(Top)
    BY <1>1, <2>1
  <2>2. CASE Limited(Top)
    <3> DEFINE n == Len(P)
               l == P[n]
    <3>1. n \in 1..n /\ l \in Seq(Name)
      BY <1>1, <1>3, <2>2
    <3>2. ToSet(l) \subseteq ToSet(Append(l, name))
      <4> HIDE DEF l
      <4>1. QED
        BY <3>1, AppendName
    <3>3. G[n] = Append(l, name) /\ \A c \in 1..n : c # n => G[c] = P[c]
      BY <1>1, <1>3, <2>2, <3>1
    <3>4. QED
      BY <3>2, <3>3
  <2>3. QED
    BY <2>1, <2>2
<1>11. \A m \in refs : m \in Known' \/ Around(G, m)
  <2>1. ASSUME NEW m \in F, m \notin Known' PROVE Around(G, m)
    <3> DEFINE o == Front(stack)
               i == Len(stack) - 1
               part == stack[i].part
    <3>1. Around(P, m)
      BY <1>1, <1>3, <1>6, <2>1, FreeKnown
    <3>2. Len(stack) > 1 /\ Visible(o, P, i, part, m)
      BY <3>1 DEF Around
    <3>3. stack \in Seq(Node) /\ stack # << >> /\ Len(stack) \in Nat
      BY <1>1, TopFacts DEF IInv, TypeOK
    <3>4. o \in Seq(Node) /\ Len(o) = i
      BY <3>3, FramesFront
    <3>5. i \in 1..Len(o)
      BY <3>2, <3>3, <3>4
    <3>6. AlikeUpTo(o, o, i)
      BY DEF AlikeUpTo
    <3>7. \A c \in 1..Cardinality(FramesOf(o)) : ToSet(P[c]) \subseteq ToSet(G[c])
      BY <1>1, <1>10, TopFacts
    <3> HIDE DEF o, i, part, P, G
    <3>8. Visible(o, G, i, part, m)
      BY <3>2, <3>4, <3>5, <3>6, <3>7, VisibleAlike
    <3>9. QED
      BY <3>2, <3>8 DEF Around, o, i, part
  <2>2. QED
    BY <1>9, <2>1
<1>12. Scoped(stack', G, Known') /\ escaped' \subseteq Known'
  <2> DEFINE L == Known'
  <2> HIDE DEF L, G
  <2>1. Known \subseteq L /\ escaped \subseteq L
    BY <1>3, <1>6 DEF L
  <2>2. \A m \in refs : m \in L \/ Around(G, m)
    BY <1>11 DEF L
  <2> HIDE DEF refs
  <2>3. Scoped(stack', G, L) /\ escaped' \subseteq L
    BY <1>1, <1>3, <1>10, <2>1, <2>2, ReturnScoped
  <2>4. QED
    BY <2>3 DEF L
<1>13. QED
  BY <1>2, <1>7, <1>8, <1>12 DEF DataInv

(* An item is finished: what it mentions is declared before it.            *)
LEMMA DataEnd ==
  ASSUME IInv, DataInv, EndItem
  PROVE  DataInv'
<1> SUFFICES ASSUME ~BundleMode PROVE DataInv'
  BY DEF DataInv, BundleMode, EndItem
<1> DEFINE P == pending_prepends
           O == ItemPrepends(out)
           Q == ItemPrepends(out')
           item == [prepends |-> P, mentions |-> escaped]
<1>1. /\ out' = Append(out, item) /\ pending_prepends' = << >> /\ escaped' = {} /\ phase = "item"
      /\ UNCHANGED <<options, stack, function_prepends, worklets>>
  BY DEF EndItem, history
<1>2. /\ out \in Seq(Item) /\ item \in Item /\ P \in Seq(Name) /\ O \in Seq(Seq(Name))
      /\ Len(O) = Len(out) /\ stack = << >> /\ Len(out) \in Nat
  <2>1. out \in Seq(Item) /\ P \in Seq(Name) /\ escaped \in SUBSET Name /\ stack = << >>
    BY <1>1 DEF IInv, TypeOK
  <2>2. item \in Item
    BY <2>1 DEF Item
  <2>3. O \in Seq(Seq(Name)) /\ Len(O) = Len(out) /\ Len(out) \in Nat
    BY <2>1, ItemFacts
  <2>4. QED
    BY <2>1, <2>2, <2>3
<1>3. item.prepends = P /\ item.mentions = escaped
  OBVIOUS
<1> HIDE DEF item
<1>4. /\ out' \in Seq(Item) /\ Len(out') = Len(out) + 1 /\ out'[Len(out) + 1] = item
      /\ \A i \in 1..Len(out) : out'[i] = out[i]
  BY <1>1, <1>2, AppendProperties
<1>5. Q = Append(O, P)
  <2>1. Q \in Seq(Seq(Name)) /\ Len(Q) = Len(out) + 1
    BY <1>4, ItemFacts
  <2>2. Q[Len(Q)] = P /\ \A i \in 1..Len(O) : Q[i] = O[i]
    BY <1>2, <1>3, <1>4, <2>1 DEF ItemPrepends
  <2>3. QED
    BY <1>2, <2>1, <2>2, AppendIs
<1>6. Hoisted' = Hoisted
  <2>1. Names(Append(O, P)) = Names(O) \cup ToSet(P)
    <3> HIDE DEF O, P
    <3>1. QED
      BY <1>2, AppendList
  <2>2. Hoisted' = ToSet(pending_prepends') \cup Names(Q)
    BY DEF Hoisted, ItemPrepends
  <2>3. QED
    BY <1>1, <1>5, <2>1, <2>2, NoLists DEF Hoisted
<1>7. Known' = Known
  BY <1>1, <1>6 DEF Known
<1>8. HoistedUnlimited' /\ SerializedCodeClosed' /\ BundleMode' = BundleMode
  BY <1>1, <1>6 DEF DataInv, HoistedUnlimited, SerializedCodeClosed, BundleMode
<1>9. ASSUME NEW i \in 1..Len(out) PROVE HoistedBefore(i)' = HoistedBefore(i)
  <2>1. \A j \in 1..i : j \in 1..Len(out)
    BY <1>2
  <2>2. \A j \in 1..i : out'[j].prepends = out[j].prepends
    BY <1>4, <2>1
  <2>3. QED
    BY <2>2 DEF HoistedBefore
<1>10. ASSUME NEW n, n = Len(out) + 1 PROVE Hoisted \subseteq HoistedBefore(n)'
  <2> DEFINE H(i) == UNION {ToSet(out'[j].prepends) : j \in 1..i}
  <2>1. ToSet(P) \subseteq H(n)
    <3>1. n \in 1..n /\ out'[n].prepends = P
      BY <1>2, <1>3, <1>4, <1>10
    <3>2. QED
      BY <3>1
  <2>2. Names(O) \subseteq H(n)
    <3>1. ASSUME NEW m \in Names(O) PROVE m \in H(n)
      <4>1. PICK i \in 1..Len(O) : m \in ToSet(O[i])
        BY DEF Names
      <4>2. i \in 1..n /\ out'[i].prepends = O[i]
        BY <1>2, <1>4, <1>10 DEF ItemPrepends
      <4>3. QED
        BY <4>1, <4>2
    <3>2. QED
      BY <3>1
  <2>3. HoistedBefore(n)' = H(n)
    BY DEF HoistedBefore
  <2> HIDE DEF H
  <2>4. QED
    BY <2>1, <2>2, <2>3 DEF Hoisted
<1>11. InitDataInScope'
  <2>1. ASSUME NEW i \in 1..Len(out'), NEW m \in out'[i].mentions
        PROVE  m \in HoistedBefore(i)' \/ \E w \in worklets' : w.init = m /\ Lost(w)
    <3>1. CASE i \in 1..Len(out)
      <4>1. i \in DOMAIN out /\ m \in out[i].mentions
        BY <1>2, <1>4, <2>1, <3>1
      <4>2. m \in HoistedBefore(i) \/ \E w \in worklets : w.init = m /\ Lost(w)
        BY <4>1 DEF DataInv, InitDataInScope
      <4>3. QED
        BY <1>1, <1>9, <3>1, <4>2
    <3>2. CASE i = Len(out) + 1
      <4>1. m \in Known
        BY <1>3, <1>4, <2>1, <3>2 DEF DataInv
      <4>2. CASE m \in LostIn(worklets)
        BY <1>1, <4>2 DEF LostIn
      <4>3. CASE m \in Hoisted
        BY <1>10, <3>2, <4>3
      <4>4. QED
        BY <4>1, <4>2, <4>3 DEF Known
    <3>3. QED
      BY <1>2, <1>4, <2>1, <3>1, <3>2
  <2>2. DOMAIN out' = 1..Len(out')
    BY <1>4
  <2>3. QED
    BY <2>1, <2>2 DEF InitDataInScope
<1>12. QED
  BY <1>1, <1>7, <1>8, <1>11 DEF DataInv

(* Nothing is mentioned or declared when the pass starts.                  *)
LEMMA DataInit == Init => DataInv
<1> SUFFICES ASSUME Init PROVE DataInv
  OBVIOUS
<1>1. stack = << >> /\ out = << >> /\ pending_prepends = << >> /\ escaped = {} /\ worklets = {}
  BY DEF Init
<1>2. Len(<< >>) = 0 /\ DOMAIN << >> = {}
  OBVIOUS
<1>3. Hoisted = {}
  <2>1. DOMAIN ItemPrepends(<< >>) = {} /\ ItemPrepends(<< >>) = << >>
    BY <1>2 DEF ItemPrepends
  <2>2. QED
    BY <1>1, <2>1, NoLists DEF Hoisted
<1>4. Scoped(stack, function_prepends, Known) /\ escaped \subseteq Known
  BY <1>1, <1>2 DEF Scoped
<1>5. HoistedUnlimited /\ InitDataInScope /\ SerializedCodeClosed
  BY <1>1, <1>2, <1>3 DEF HoistedUnlimited, InitDataInScope, SerializedCodeClosed
<1>6. QED
  BY <1>4, <1>5 DEF DataInv

(* Every step preserves the invariant about init data.                     *)
LEMMA DataNext == IInv /\ FreshInv /\ DataInv /\ [Next]_vars => DataInv'
<1> SUFFICES ASSUME IInv, FreshInv, DataInv, [Next]_vars PROVE DataInv'
  OBVIOUS
<1>t. TypeOK
  BY DEF IInv
<1>1. CASE BeginModule \/ BeginScript \/ RejectAccessor \/ EndModule \/ WriteFile \/ Finish
  <2>1. UNCHANGED <<options, stack, function_prepends, pending_prepends, escaped, out, worklets>>
    BY <1>1 DEF BeginModule, BeginScript, Begin, RejectAccessor, EndModule, WriteFile, Finish,
                history, visitor
  <2>2. QED
    BY <2>1, DataSame
<1>2. ASSUME NEW k \in program.shapes, NEW dirs \in Prologues \cup {{}},
             OpenItem(k, dirs) \/ Enter(k, dirs)
      PROVE  DataInv'
  <2>1. k \in Kinds /\ dirs \in SUBSET Directives /\ parent_is_scopable \in BOOLEAN
    BY <1>t, ProgramAssumption, PrologueAssumption DEF TypeOK, Family
  <2>2. /\ Push(k, dirs, TRUE) \/ Push(k, dirs, parent_is_scopable)
        /\ UNCHANGED <<options, pending_prepends, escaped, out, worklets>>
    BY <1>2 DEF OpenItem, Enter, history
  <2>3. /\ Hoisted' = Hoisted /\ BundleMode' = BundleMode
        /\ HoistedUnlimited => HoistedUnlimited'
        /\ InitDataInScope => InitDataInScope'
    BY <2>2, HoistedSame
  <2>4. Known' = Known /\ (SerializedCodeClosed => SerializedCodeClosed')
    BY <2>2, <2>3 DEF Known, SerializedCodeClosed
  <2>5. ASSUME NEW K, Scoped(stack, function_prepends, K)
        PROVE  Scoped(stack', function_prepends', K)
    BY <2>1, <2>2, <2>5, PushScoped
  <2>6. QED
    BY <2>2, <2>3, <2>4, <2>5 DEF DataInv
<1>3. CASE EnterBody
  <2>1. UNCHANGED <<options, function_prepends, pending_prepends, escaped, out, worklets>>
    BY <1>3 DEF EnterBody, history
  <2>2. /\ Hoisted' = Hoisted /\ BundleMode' = BundleMode
        /\ HoistedUnlimited => HoistedUnlimited'
        /\ InitDataInScope => InitDataInScope'
    BY <2>1, HoistedSame
  <2>3. Known' = Known /\ (SerializedCodeClosed => SerializedCodeClosed')
    BY <2>1, <2>2 DEF Known, SerializedCodeClosed
  <2>4. ASSUME NEW K, Scoped(stack, function_prepends, K)
        PROVE  Scoped(stack', function_prepends, K)
    BY <1>3, <2>4, BodyScoped
  <2>5. QED
    BY <2>1, <2>2, <2>3, <2>4 DEF DataInv
<1>4. CASE LeavePlain
  <2>1. /\ phase = "walk" /\ Return(Free(Top, Spliced)) /\ function_prepends' = Popped
        /\ UNCHANGED <<options, pending_prepends, out, worklets>>
    BY <1>4 DEF LeavePlain, Leaving
  <2>2. QED
    BY <2>1, DataLeave
<1>5. CASE LeaveBodiless
  <2>1. /\ phase = "walk" /\ Return({}) /\ {} \in SUBSET Free(Top, Spliced)
        /\ function_prepends' = Popped /\ UNCHANGED <<options, pending_prepends, out, worklets>>
    BY <1>5 DEF LeaveBodiless, history
  <2>2. QED
    BY <2>1, DataLeave
<1>6. CASE LeaveWithoutData
  BY <1>6, DataNone
<1>7. ASSUME NEW e \in {"shadows", "print"}, LeaveUnserialized(e) PROVE DataInv'
  <2>1. /\ phase = "walk" /\ Return(Free(Top, Spliced)) /\ function_prepends' = Popped
        /\ UNCHANGED <<options, pending_prepends, out, worklets>>
    BY <1>7 DEF LeaveUnserialized, Leaving
  <2>2. QED
    BY <2>1, DataLeave
<1>8. ASSUME NEW name \in Candidates PROVE name \in Name
  <2>1. 1..(Cardinality(used_names) + 1) \subseteq Nat \ {0}
    OBVIOUS
  <2>2. QED
    BY <2>1 DEF Candidates, Name
<1>9. ASSUME NEW name \in Candidates, LeaveHoisting(name) PROVE DataInv'
  BY <1>8, <1>9, DataHoist
<1>10. ASSUME NEW name \in Candidates, LeaveUnhoistable(name) PROVE DataInv'
  <2>1. /\ phase = "walk" /\ Return(Free(Top, Spliced)) /\ function_prepends' = Popped
        /\ UNCHANGED <<options, pending_prepends, out, worklets>>
    BY <1>10 DEF LeaveUnhoistable, Leaving
  <2>2. QED
    BY <2>1, DataLeave
<1>11. ASSUME NEW name \in Candidates, LeaveToFile(name) PROVE DataInv'
  <2>1. BundleMode /\ BundleMode' = BundleMode
    BY <1>11 DEF LeaveToFile, BundleMode
  <2>2. QED
    BY <2>1 DEF DataInv
<1>12. CASE EndItem
  BY <1>12, DataEnd
<1>13. CASE UNCHANGED vars
  <2>1. UNCHANGED <<options, stack, function_prepends, pending_prepends, escaped, out, worklets>>
    BY <1>13 DEF vars, visitor, history
  <2>2. QED
    BY <2>1, DataSame
<1>14. QED
  BY <1>1, <1>2, <1>3, <1>4, <1>5, <1>6, <1>7, <1>9, <1>10, <1>11, <1>12, <1>13
     DEF Next, LeaveWorklet, Terminated

(* The code of a finished item mentions only init data that is declared    *)
(* before it at the top of the module, or that is lost.                    *)
THEOREM InitDataAlwaysInScope == Spec => []InitDataInScope
<1>1. DataInv => InitDataInScope
  BY DEF DataInv, InitDataInScope
<1>2. QED
  BY <1>1, InitIInv, NextIInv, FreshInit, FreshNext, DataInit, DataNext, PTL DEF Spec

(* The code that is serialized for another runtime is closed but for what  *)
(* is lost and what a worklet without a closure leaves out.                *)
THEOREM SerializedAlwaysClosed == Spec => []SerializedCodeClosed
<1>1. DataInv => SerializedCodeClosed
  BY DEF DataInv, SerializedCodeClosed
<1>2. QED
  BY <1>1, InitIInv, NextIInv, FreshInit, FreshNext, DataInit, DataNext, PTL DEF Spec
=============================================================================
