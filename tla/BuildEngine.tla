----------------------------- MODULE BuildEngine -----------------------------
(***************************************************************************)
(* The devtool's incremental build of one project, as `build_for_dev' runs *)
(* it: a scan of the asset directories, then an ordered list of tasks,     *)
(* each skipped when its outputs exist and its inputs are the recorded     *)
(* ones (devtool/src/engine), else run and its inputs fingerprinted again. *)
(*                                                                         *)
(* A source file is a content (v, 0 when it is absent), the time of its    *)
(* last write (t) and whether its compiler or validator accepts it (ok).   *)
(* An image is what a compile makes of the code and, when the code names   *)
(* resources, of the ids the generated headers gave them; ids follow the   *)
(* sorted names, so the set of names stands for the numbering.             *)
(***************************************************************************)
EXTENDS Integers, Sequences, FiniteSets

CONSTANTS
  Assets,       \* the asset names, in the order of their ids
  MaxEdits,     \* the bound on edits of the sources
  Reverts,      \* an edit may put back a file's first content
  EditsInTask,  \* an edit may hit a file between its task's read and record
  UsesIds       \* the code includes the generated resource headers

VARIABLES
  src,    \* the source files
  edits,  \* how many edits there were: the clock of their modification times
  disk,   \* what the build directory holds
  rec,    \* the recorded inputs of each task that has run (build/.tasks)
  job     \* the running build: its state, its scan, the place of its task

bvars == <<src, edits, disk, rec, job>>

Names == {Assets[i] : i \in DOMAIN Assets}
Steps == <<"index", "headers", "compile", "link", "elf">>
StepNames == {Steps[i] : i \in DOMAIN Steps}

\* The manifest names each asset once; a task is filed under its kind and name.
ASSUME SourcesAreNamed ==
  /\ Assets \in Seq(Names) /\ Assets # << >> /\ Names \cap StepNames = {}
  /\ \A i, j \in DOMAIN Assets : Assets[i] = Assets[j] => i = j
ASSUME EditsAreBounded == MaxEdits \in Nat

Versions == 0 .. MaxEdits + 1

File(v, t, ok) == [v |-> v, t |-> t, ok |-> ok]
Image(c, names) == [code |-> c, ids |-> IF UsesIds THEN names ELSE {}]
NoImage == [code |-> 0, ids |-> {}]

\* Generated files and plan values: their stamps differ when they do.
Stamp(x) == [v |-> x, t |-> x]

Present(asset) == {a \in Names : asset[a].v # 0}

----------------------------------------------------------------------------
(* fingerprint.rs *)

\* A file system that keeps whole seconds: two quick writes share a time.
MetaWholeSeconds(f) == [v |-> f.v, t |-> 0]
file_meta(f) == [v |-> f.v, t |-> f.t]

\* Changed: neither the time nor, on the slow path, the content is the recorded one.
check_file(cur, prev) == cur.t # prev.t /\ cur.v # prev.v

\* A compile depends on its source and, through the depfile, on the headers.
compile_inputs == [source |-> file_meta(src.code), header |-> Stamp(disk.hdr)]

\* The inputs of a task, as the files are now.
Inputs(t) ==
  CASE t \in Names     -> [source |-> file_meta(src.asset[t])]
    [] t = "index"     -> [plan |-> Stamp(job.plan)]
    [] t = "headers"   -> [plan |-> Stamp(DOMAIN job.plan)]
    [] t = "compile"   -> compile_inputs
    [] t = "link"      -> [object |-> Stamp(disk.obj)]
    [] t = "elf"       -> [raw |-> Stamp(disk.raw)]

\* The source a task reads is gone.
Missing(t) == t \in Names /\ src.asset[t].v = 0

check_inputs(t) ==
  \/ Missing(t)
  \/ t \in DOMAIN rec => \E k \in DOMAIN rec[t] : check_file(Inputs(t)[k], rec[t][k])

Staged(a, fp) == \E f \in disk.staged : f.name = a /\ f.fp = fp

outputs_exist(t) ==
  CASE t \in Names -> Staged(t, job.plan[t])
    [] t = "compile" -> disk.obj # NoImage
    [] OTHER -> TRUE

save_task_state(t) == [k \in DOMAIN rec \cup {t} |-> IF k = t THEN Inputs(t) ELSE rec[k]]

----------------------------------------------------------------------------
(* The tasks *)

\* The staged copy is named by the scan's fingerprint and holds the bytes as
\* they are when the task reads them.
AssetTask(a) ==
  [disk EXCEPT !.staged =
     {f \in @ : ~(f.name = a /\ f.fp = job.plan[a])}
       \cup {[name |-> a, fp |-> job.plan[a], v |-> src.asset[a].v]}]

WriteResourceIndexTask == [disk EXCEPT !.index = job.plan]
GenerateResourceHeadersTask == [disk EXCEPT !.hdr = DOMAIN job.plan]
CompileCTask == [disk EXCEPT !.obj = Image(src.code.v, disk.hdr)]
LinkElfTask == [disk EXCEPT !.raw = disk.obj]
DevElfTask == [disk EXCEPT !.elf = disk.raw]

Output(t) ==
  CASE t \in Names   -> AssetTask(t)
    [] t = "index"   -> WriteResourceIndexTask
    [] t = "headers" -> GenerateResourceHeadersTask
    [] t = "compile" -> CompileCTask
    [] t = "link"    -> LinkElfTask
    [] t = "elf"     -> DevElfTask

\* Its source vanished since the scan, or the compiler or validator refuses it.
Fails(t) ==
  \/ t \in Names /\ (Missing(t) \/ ~src.asset[t].ok)
  \/ t = "compile" /\ ~src.code.ok

\* The header task sits before the compiles that include what it writes.
Tasks == Assets \o Steps

scan_assets == [a \in Present(src.asset) |-> src.asset[a].v]

\* The plan holds a task for each asset scanned; pre_build gives the place of
\* the first planned task from place i on.
Planned(plan, i) == Tasks[i] \in DOMAIN plan \cup StepNames
pre_build(plan, i) ==
  CHOOSE j \in i .. Len(Tasks) : Planned(plan, j) /\ \A k \in i .. j - 1 : ~Planned(plan, k)

NoJob == [st |-> "none", plan |-> << >>, at |-> 0]

\* build_for_dev starts: scan, then plan the tasks from the scan.
BeginBuild == job' = [st |-> "check", plan |-> scan_assets, at |-> pre_build(scan_assets, 1)]

\* The next task, or the end of run_tasks.
NextTask ==
  job' = IF job.at = Len(Tasks) THEN [job EXCEPT !.st = "built", !.at = 0]
         ELSE [job EXCEPT !.st = "check", !.at = pre_build(job.plan, job.at + 1)]

UpToDate(t) == outputs_exist(t) /\ ~check_inputs(t)

\* One turn of run_tasks' loop, up to the end of the task's run.
RunTask ==
  /\ job.st = "check"
  /\ LET t == Tasks[job.at] IN
     \/ /\ UpToDate(t)
        /\ rec' = save_task_state(t)
        /\ NextTask
        /\ UNCHANGED disk
     \/ /\ ~UpToDate(t) /\ ~Fails(t)
        /\ disk' = Output(t)
        /\ job' = [job EXCEPT !.st = "record"]
        /\ UNCHANGED rec
     \/ /\ ~UpToDate(t) /\ Fails(t)
        /\ job' = [job EXCEPT !.st = "failed", !.at = 0]
        /\ UNCHANGED <<disk, rec>>
  /\ UNCHANGED <<src, edits>>

\* The rest of the turn: the inputs are fingerprinted after the run, and saved.
RecordTask ==
  /\ job.st = "record"
  /\ rec' = save_task_state(Tasks[job.at])
  /\ NextTask
  /\ UNCHANGED <<src, edits, disk>>

----------------------------------------------------------------------------
(* The developer *)

Between(t) == job.st = "record" /\ Tasks[job.at] = t

\* The contents an edit may leave in a file whose content is v.
EditedTo(v) == ({edits + 2} \cup (IF Reverts THEN {1} ELSE {})) \ {v}

EditCode(v, ok) ==
  /\ edits < MaxEdits /\ (~EditsInTask => ~Between("compile"))
  /\ v \in EditedTo(src.code.v)
  /\ edits' = edits + 1
  /\ src' = [src EXCEPT !.code = File(v, edits + 1, ok)]

\* Write an asset, or remove it when another one is left.
EditAsset(a, v, ok) ==
  /\ edits < MaxEdits /\ (~EditsInTask => ~Between(a))
  /\ \/ v \in EditedTo(src.asset[a].v)
     \/ v = 0 /\ ok /\ a \in Present(src.asset) /\ Present(src.asset) # {a}
  /\ edits' = edits + 1
  /\ src' = [src EXCEPT !.asset[a] = File(v, edits + 1, ok)]

----------------------------------------------------------------------------

Plan0 == [a \in {Assets[1]} |-> 1]

\* A project with one asset, built.
BuildInit ==
  /\ src = [code |-> File(1, 0, TRUE),
            asset |-> [a \in Names |-> File(IF a = Assets[1] THEN 1 ELSE 0, 0, TRUE)]]
  /\ edits = 0
  /\ disk = [staged |-> {[name |-> Assets[1], fp |-> 1, v |-> 1]}, index |-> Plan0,
             hdr |-> {Assets[1]}, obj |-> Image(1, {Assets[1]}),
             raw |-> Image(1, {Assets[1]}), elf |-> Image(1, {Assets[1]})]
  /\ job = [NoJob EXCEPT !.plan = Plan0]
  /\ rec = [t \in {Assets[1]} \cup StepNames |-> Inputs(t)]

\* Every source passes its compiler or validator.
Buildable == src.code.ok /\ \A a \in Names : src.asset[a].v # 0 => src.asset[a].ok

\* The build directory holds exactly what the sources build to.
Built ==
  /\ disk.index = scan_assets
  /\ \A a \in DOMAIN disk.index :
       [name |-> a, fp |-> disk.index[a], v |-> disk.index[a]] \in disk.staged
  /\ disk.elf = Image(src.code.v, Present(src.asset))

Images == [code : Versions, ids : SUBSET Names]

BuildTypeOK ==
  /\ edits \in 0 .. MaxEdits
  /\ src.code.v \in Versions /\ \A a \in Names : src.asset[a].v \in Versions
  /\ disk.staged \subseteq [name : Names, fp : Versions, v : Versions]
  /\ DOMAIN disk.index \subseteq Names /\ disk.hdr \subseteq Names
  /\ {disk.obj, disk.raw, disk.elf} \subseteq Images
  /\ DOMAIN rec \subseteq Names \cup StepNames
  /\ job.st \in {"none", "check", "record", "built", "failed"}
  /\ DOMAIN job.plan \subseteq Names
  /\ job.st \in {"check", "record"} <=> job.at \in DOMAIN Tasks
=============================================================================
