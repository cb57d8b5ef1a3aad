---------------------------- MODULE DevLoopProofs ----------------------------
(***************************************************************************)
(* The three safety properties of the edit-build-reload loop, for every    *)
(* number of assets, edits, kills and players.  First what the task list   *)
(* and one turn of run_tasks do, then one lemma per step of the watcher    *)
(* for LoopInv (the build directory), then the debug copies (ImageInv) and *)
(* the files the players' tables came from (PlayersInv).                   *)
(*                                                                         *)
(* The assumptions are the ones without which the properties fail: edits   *)
(* leave new contents, no edit and no kill falls between a task's output   *)
(* and its record, and in a debug session the code names its resources.    *)
(***************************************************************************)
EXTENDS DevLoop, WellFoundedInduction, TLAPS

(* ------------------------------ the task list --------------------------- *)

\* A set of numbers that has an element has a least one.
LEMMA Smallest ==
  ASSUME NEW T, T \subseteq Nat, T # {}
  PROVE \E x \in T : \A y \in T : x <= y
<1>1. PICK x \in T : \A y \in T : ~(<<y, x>> \in OpToRel(<, Nat))
  BY NatLessThanWellFounded, WFMin, Zenon
<1>2. ASSUME NEW y \in T PROVE x <= y
  <2>1. y < x => <<y, x>> \in OpToRel(<, Nat)
    BY DEF OpToRel
  <2>2. ~(y < x)
    BY <1>1, <2>1, Zenon
  <2>3. x \in Nat /\ y \in Nat
    OBVIOUS
  <2> QED BY <2>2, <2>3
<1> QED BY <1>2

\* The steps every build has.
LEMMA stepNames == StepNames = {"index", "headers", "compile", "link", "elf"}
<1>1. DOMAIN Steps = 1 .. 5
  BY DEF Steps
<1>2. \A i \in 1 .. 5 : Steps[i] \in {"index", "headers", "compile", "link", "elf"}
  BY DEF Steps
<1>3. /\ Steps[1] = "index" /\ Steps[2] = "headers" /\ Steps[3] = "compile"
      /\ Steps[4] = "link" /\ Steps[5] = "elf"
  BY DEF Steps
<1> QED BY <1>1, <1>2, <1>3 DEF StepNames

Step(k) == Len(Assets) + k

\* The assets come first, in the order of their ids, then the steps.
LEMMA taskFacts ==
  /\ Len(Assets) \in Nat \ {0} /\ Len(Tasks) = Len(Assets) + 5 /\ DOMAIN Assets = 1 .. Len(Assets)
  /\ \A i \in 1 .. Len(Assets) : Tasks[i] = Assets[i] /\ Assets[i] \in Names
  /\ Tasks[Step(1)] = "index" /\ Tasks[Step(2)] = "headers" /\ Tasks[Step(3)] = "compile"
  /\ Tasks[Step(4)] = "link" /\ Tasks[Step(5)] = "elf"
  /\ \A a \in Names : \E i \in 1 .. Len(Assets) : a = Assets[i]
  /\ Names \cap {"index", "headers", "compile", "link", "elf"} = {}
<1>1. Len(Assets) \in Nat \ {0} /\ DOMAIN Assets = 1 .. Len(Assets)
  BY SourcesAreNamed
<1>2. Len(Tasks) = Len(Assets) + 5
  BY <1>1, SourcesAreNamed DEF Tasks, Steps
<1>3. \A i \in 1 .. Len(Assets) : Tasks[i] = Assets[i] /\ Assets[i] \in Names
  BY <1>1, SourcesAreNamed DEF Tasks, Steps, Names
<1>4. /\ Tasks[Step(1)] = "index" /\ Tasks[Step(2)] = "headers" /\ Tasks[Step(3)] = "compile"
      /\ Tasks[Step(4)] = "link" /\ Tasks[Step(5)] = "elf"
  BY <1>1, SourcesAreNamed DEF Tasks, Steps, Step
<1>5. \A a \in Names : \E i \in 1 .. Len(Assets) : a = Assets[i]
  BY <1>1 DEF Names
<1> QED BY <1>1, <1>2, <1>3, <1>4, <1>5, stepNames, SourcesAreNamed

\* Every place holds an asset or one of the steps, and the steps are planned.
LEMMA placeFacts ==
  ASSUME NEW i \in 1 .. Len(Tasks)
  PROVE /\ i <= Len(Assets) \/ i \in {Step(1), Step(2), Step(3), Step(4), Step(5)}
        /\ i > Len(Assets) => Tasks[i] \in StepNames
BY taskFacts, stepNames DEF Step

\* The next planned task: one there is, and nothing planned is skipped.
LEMMA nextFacts ==
  ASSUME NEW plan, NEW i \in 1 .. Len(Tasks)
  PROVE LET j == pre_build(plan, i)
        IN /\ j \in i .. Len(Tasks) /\ Planned(plan, j)
           /\ \A k \in i .. j - 1 : ~Planned(plan, k)
<1> DEFINE T == {k \in i .. Len(Tasks) : Planned(plan, k)}
<1>0. Len(Tasks) \in Nat /\ i \in Nat
  BY taskFacts
<1>1. Len(Tasks) \in T
  BY <1>0, taskFacts, placeFacts DEF Planned
<1>2. T \subseteq Nat
  BY <1>0
<1>3. PICK x \in T : \A y \in T : x <= y
  BY <1>1, <1>2, Smallest, Zenon
<1>4. x \in i .. Len(Tasks) /\ Planned(plan, x) /\ \A k \in i .. x - 1 : ~Planned(plan, k)
  <2>1. ASSUME NEW k \in i .. x - 1, Planned(plan, k) PROVE FALSE
    <3>1. k \in i .. Len(Tasks) /\ ~(x <= k)
      BY <1>0, <1>3
    <3> QED BY <1>3, <2>1, <3>1
  <2> QED BY <1>3, <2>1
<1> QED BY <1>4 DEF pre_build

(* ------------------------ the inductive invariant ---------------------- *)

\* A scan or an index: contents of some of the assets, none from the future.
Mapped(m) ==
  /\ DOMAIN m \subseteq Names
  /\ \A a \in DOMAIN m : m[a] \in 1 .. edits + 1

\* Each edit leaves a content of its own, told by its time.
SourceInv ==
  /\ edits \in Nat
  /\ DOMAIN src = {"code", "asset"} /\ DOMAIN src.asset = Names
  /\ DOMAIN src.code = {"v", "t", "ok"}
  /\ src.code.t \in 0 .. edits /\ src.code.v = src.code.t + 1
  /\ \A a \in Names : /\ DOMAIN src.asset[a] = {"v", "t", "ok"}
                      /\ src.asset[a].t \in 0 .. edits
                      /\ src.asset[a].v \in {0, src.asset[a].t + 1}

\* The index resolves, and a staged file named by a current content holds it.
DiskInv ==
  /\ DOMAIN disk = {"staged", "index", "hdr", "obj", "raw", "elf"}
  /\ disk.staged \subseteq [name : Names, fp : Nat, v : Nat]
  /\ \A f \in disk.staged :
       f.fp \in 1 .. edits + 1 /\ (f.fp = src.asset[f.name].v => f.v = f.fp)
  /\ Mapped(disk.index) /\ disk.hdr \subseteq Names
  /\ \A a \in DOMAIN disk.index : Staged(a, disk.index[a])

\* A record tells what its task's output was made of, but between the two.
RecordInv ==
  /\ StepNames \subseteq DOMAIN rec /\ DOMAIN rec \subseteq Names \cup StepNames
  /\ \A a \in Names \cap DOMAIN rec :
       \E t \in 0 .. edits : rec[a] = [source |-> [v |-> t + 1, t |-> t]]
  /\ ~Between("index") => rec["index"] = [plan |-> Stamp(disk.index)]
  /\ ~Between("headers") => rec["headers"] = [plan |-> Stamp(disk.hdr)]
  /\ ~Between("compile") =>
       \E t \in 0 .. edits, h \in SUBSET Names :
          /\ rec["compile"] = [source |-> [v |-> t + 1, t |-> t], header |-> Stamp(h)]
          /\ disk.obj = Image(t + 1, h)
  /\ ~Between("link") => rec["link"] = [object |-> Stamp(disk.raw)]
  /\ ~Between("elf") => rec["elf"] = [raw |-> Stamp(disk.elf)]

\* The task at place i of the running build has had its turn.
Reached(i) ==
  \/ job.st = "built"
  \/ job.st \in {"check", "record"} /\ (job.at > i \/ (job.at = i /\ job.st = "record"))

JobInv ==
  /\ DOMAIN job = {"st", "plan", "at"} /\ Mapped(job.plan)
  /\ job.st \in {"none", "check", "record", "built", "failed"}
  /\ pc \in {"down", "boot", "idle", "build", "reload", "gc"}
  /\ pc \in {"boot", "build"} <=> job.st # "none"
  /\ job.st \in {"check", "record"} => job.at \in 1 .. Len(Tasks) /\ Planned(job.plan, job.at)
  /\ \A i \in 1 .. Len(Assets) :
       Reached(i) /\ Assets[i] \in DOMAIN job.plan => Staged(Assets[i], job.plan[Assets[i]])
  /\ Reached(Step(1)) => disk.index = job.plan
  /\ Reached(Step(2)) => disk.hdr = DOMAIN job.plan
  /\ Reached(Step(3)) =>
       disk.obj.ids = Image(0, disk.hdr).ids /\ (event \/ disk.obj = Image(src.code.v, disk.hdr))
  /\ Reached(Step(4)) => disk.raw = disk.obj
  /\ Reached(Step(5)) => disk.elf = disk.raw
  /\ Between("compile") => disk.obj = Image(src.code.v, disk.hdr)
  /\ \A a \in Names : Between(a) => src.asset[a].v # 0
  /\ job.st \in {"check", "record", "built"} => event \/ job.plan = scan_assets
  /\ job.st = "failed" => event \/ ~Buildable

\* What the watcher compares with and collects next: no file it will drop is
\* named by the index, by the scan under way or by a content that is current.
MemInv ==
  /\ DOMAIN mem = {"hash", "index", "gc", "copy"} /\ Mapped(mem.index)
  /\ mem.gc \subseteq [name : Names, fp : Nat]
  /\ \A g \in mem.gc :
       /\ g.fp \in 1 .. edits + 1
       /\ src.asset[g.name].v # g.fp
       /\ g.name \in DOMAIN disk.index => disk.index[g.name] # g.fp
       /\ job.st # "none" /\ g.name \in DOMAIN job.plan => job.plan[g.name] # g.fp
  /\ \A a \in DOMAIN mem.index :
       src.asset[a].v = mem.index[a] =>
         /\ a \in DOMAIN disk.index /\ disk.index[a] = mem.index[a]
         /\ job.st \in {"check", "record", "built"} =>
              a \in DOMAIN job.plan /\ job.plan[a] = mem.index[a]

\* A build that has been signalled is complete; the channel tells of the rest.
QuietInv ==
  /\ pc \in {"reload", "gc"} =>
       /\ disk.elf.ids = Image(0, DOMAIN disk.index).ids
       /\ event \/ (disk.index = scan_assets /\ disk.elf = Image(src.code.v, Present(src.asset)))
  /\ pc = "idle" => event \/ ~Buildable \/ Built

LoopInv == SourceInv /\ DiskInv /\ RecordInv /\ JobInv /\ MemInv /\ QuietInv
\* With the resource ids in the code, a reload always comes with a new image:
\* the copy it names is not the one it drops.
Compiled == [code : Nat \ {0}, ids : SUBSET Names]
ImageInv ==
  /\ Debug /\ pc \in {"idle", "build", "gc"} => mem.copy \in {NoImage, mem.hash}
  /\ Debug /\ pc \in {"idle", "build"} => mem.hash.ids = DOMAIN mem.index
  /\ Debug /\ pc = "reload" => mem.copy # disk.elf
  /\ pc \in {"reload", "gc"} => mem.hash = disk.elf /\ disk.elf \in Compiled

\* The staged files a player's table was loaded from.
Keys(c) == {[name |-> a, fp |-> pl[c].tab[a].fp] : a \in DOMAIN pl[c].tab}
Gone == superseded(mem.index, disk.index)
\* A line waits that will load the table again.
Told(c) == \E i \in DOMAIN pl[c].inbox : pl[c].inbox[i].path \in copies \cup {NoImage}
Lines == [cmd : {"update_assets", "reload"}, path : Compiled \cup {NoImage}, ack : BOOLEAN]
Fields == {"st", "code", "tab", "inbox", "missed", "behind"}

PlayerInv(c) ==
  /\ DOMAIN pl[c] = Fields
  /\ pl[c].st \in {"off", "loaded", "on"}
  /\ pl[c].inbox \in Seq(Lines)
  /\ pl[c].st # "on" => pl[c].inbox = << >>
  /\ pl[c].st = "loaded" /\ ~pl[c].missed =>
       /\ Keys(c) \cap mem.gc = {}
       /\ pc \in {"reload", "gc"} => Keys(c) \cap Gone = {}
  /\ pl[c].st = "on" /\ ~pl[c].missed /\ ~pl[c].behind =>
       /\ pc \in {"reload", "gc"} => Keys(c) \cap mem.gc = {}
       /\ pc \notin {"reload", "gc"} => Keys(c) \cap mem.gc = {} \/ Told(c)
       /\ pc = "gc" => Keys(c) \cap Gone = {} \/ Told(c)
  /\ pl[c].st \in {"loaded", "on"} /\ ~pl[c].missed /\ ~pl[c].behind =>
       \A a \in DOMAIN pl[c].tab : Staged(a, pl[c].tab[a].fp)
PlayersInv == DOMAIN pl = Players /\ \A c \in Players : PlayerInv(c)

\* What a step owes a player that is connected after it.
LEMMA onPlayer ==
  ASSUME NEW c, DOMAIN pl'[c] = Fields, pl'[c].st = "on", pl'[c].inbox \in Seq(Lines),
         ~pl'[c].missed /\ ~pl'[c].behind =>
            /\ pc' \in {"reload", "gc"} => Keys(c)' \cap mem'.gc = {}
            /\ pc' \notin {"reload", "gc"} => Keys(c)' \cap mem'.gc = {} \/ Told(c)'
            /\ pc' = "gc" => Keys(c)' \cap Gone' = {} \/ Told(c)',
         ~pl'[c].missed /\ ~pl'[c].behind =>
            (\A a \in DOMAIN pl[c].tab : Staged(a, pl[c].tab[a].fp))'
  PROVE PlayerInv(c)'
BY Zenon DEF PlayerInv

(* ------------------------------- one turn ------------------------------- *)

\* The output of task t is what the build under way wants of it.
Made(t) ==
  /\ t \in Names => Staged(t, job.plan[t])
  /\ t = "index" => disk.index = job.plan
  /\ t = "headers" => disk.hdr = DOMAIN job.plan
  /\ t = "compile" => disk.obj = Image(src.code.v, disk.hdr)
  /\ t = "link" => disk.raw = disk.obj
  /\ t = "elf" => disk.elf = disk.raw

\* The inputs of each kind of task.
LEMMA inputFacts ==
  /\ \A a \in Names : Inputs(a) = [source |-> file_meta(src.asset[a])]
  /\ Inputs("index") = [plan |-> Stamp(job.plan)]
  /\ Inputs("headers") = [plan |-> Stamp(DOMAIN job.plan)]
  /\ Inputs("compile") = compile_inputs
  /\ Inputs("link") = [object |-> Stamp(disk.obj)]
  /\ Inputs("elf") = [raw |-> Stamp(disk.raw)]
BY taskFacts DEF Inputs

\* A task found up to date has its output.
LEMMA upToDateFacts ==
  ASSUME SourceInv, RecordInv, job.st = "check", NEW t \in Names \cup StepNames, UpToDate(t)
  PROVE Made(t) /\ (t \in Names => src.asset[t].v # 0)
<1>1. /\ outputs_exist(t) /\ ~Missing(t) /\ t \in DOMAIN rec
      /\ \A k \in DOMAIN rec[t] : ~check_file(Inputs(t)[k], rec[t][k])
  BY DEF UpToDate, check_inputs
<1>2. \A u : ~Between(u)
  BY DEF Between
<1>3. CASE t \in Names
  BY <1>1, <1>3, taskFacts DEF outputs_exist, Made, Missing
<1>4. CASE t = "index"
  <2>1. rec[t] = [plan |-> Stamp(disk.index)]
    BY <1>2, <1>4 DEF RecordInv
  <2>2. ~check_file(Stamp(job.plan), Stamp(disk.index))
    BY <1>1, <1>4, <2>1, inputFacts
  <2> QED BY <1>4, <2>2, taskFacts DEF Stamp, check_file, Made
<1>5. CASE t = "headers"
  <2>1. rec[t] = [plan |-> Stamp(disk.hdr)]
    BY <1>2, <1>5 DEF RecordInv
  <2>2. ~check_file(Stamp(DOMAIN job.plan), Stamp(disk.hdr))
    BY <1>1, <1>5, <2>1, inputFacts
  <2> QED BY <1>5, <2>2, taskFacts DEF Stamp, check_file, Made
<1>6. CASE t = "compile"
  <2>1. PICK c \in 0 .. edits, h \in SUBSET Names :
           /\ rec[t] = [source |-> [v |-> c + 1, t |-> c], header |-> Stamp(h)]
           /\ disk.obj = Image(c + 1, h)
    BY <1>2, <1>6 DEF RecordInv
  <2>2. /\ ~check_file(file_meta(src.code), [v |-> c + 1, t |-> c])
        /\ ~check_file(Stamp(disk.hdr), Stamp(h))
    BY <1>1, <1>6, <2>1, inputFacts DEF compile_inputs
  <2>3. src.code.v = c + 1
    BY <2>2 DEF check_file, file_meta, SourceInv
  <2>4. disk.hdr = h
    BY <2>2 DEF Stamp, check_file
  <2> QED BY <1>6, <2>1, <2>3, <2>4, taskFacts DEF Made
<1>7. CASE t = "link"
  <2>1. rec[t] = [object |-> Stamp(disk.raw)]
    BY <1>2, <1>7 DEF RecordInv
  <2>2. ~check_file(Stamp(disk.obj), Stamp(disk.raw))
    BY <1>1, <1>7, <2>1, inputFacts
  <2> QED BY <1>7, <2>2, taskFacts DEF Stamp, check_file, Made
<1>8. CASE t = "elf"
  <2>1. rec[t] = [raw |-> Stamp(disk.elf)]
    BY <1>2, <1>8 DEF RecordInv
  <2>2. ~check_file(Stamp(disk.raw), Stamp(disk.elf))
    BY <1>1, <1>8, <2>1, inputFacts
  <2> QED BY <1>8, <2>2, taskFacts DEF Stamp, check_file, Made
<1> QED BY <1>3, <1>4, <1>5, <1>6, <1>7, <1>8, stepNames

\* Saving the inputs of a task whose output is made keeps the records true.
LEMMA SaveKeeps ==
  ASSUME SourceInv, RecordInv, DiskInv, NEW t \in Names \cup StepNames, Made(t),
         t \in Names => src.asset[t].v # 0, \A u : Between(u) => u = t,
         rec' = save_task_state(t), UNCHANGED <<src, edits, disk>>, job'.st # "record"
  PROVE RecordInv'
<1>1. /\ DOMAIN rec' = DOMAIN rec \cup {t} /\ rec'[t] = Inputs(t)
      /\ \A u \in DOMAIN rec : u # t => rec'[u] = rec[u]
  BY DEF save_task_state
<1>2. \A u : ~Between(u)'
  BY DEF Between
<1>3. StepNames \subseteq DOMAIN rec' /\ DOMAIN rec' \subseteq Names \cup StepNames
  BY <1>1 DEF RecordInv
<1>4. ASSUME NEW a \in Names \cap DOMAIN rec'
      PROVE \E c \in 0 .. edits' : rec'[a] = [source |-> [v |-> c + 1, t |-> c]]
  <2>1. CASE a # t
    BY <1>1, <2>1 DEF RecordInv
  <2>2. CASE a = t
    <3>1. rec'[a] = [source |-> [v |-> src.asset[a].v, t |-> src.asset[a].t]]
      BY <1>1, <2>2, inputFacts DEF file_meta
    <3>2. src.asset[a].t \in 0 .. edits /\ src.asset[a].v = src.asset[a].t + 1
      BY <2>2 DEF SourceInv
    <3> QED BY <3>1, <3>2
  <2> QED BY <2>1, <2>2
<1>5. rec'["index"] = [plan |-> Stamp(disk.index)]
  <2>1. CASE t = "index"
    BY <1>1, <2>1, inputFacts DEF Made
  <2> QED BY <1>1, <2>1, stepNames DEF RecordInv
<1>6. rec'["headers"] = [plan |-> Stamp(disk.hdr)]
  <2>1. CASE t = "headers"
    BY <1>1, <2>1, inputFacts DEF Made
  <2> QED BY <1>1, <2>1, stepNames, Zenon DEF RecordInv
<1>7. \E c \in 0 .. edits, h \in SUBSET Names :
         /\ rec'["compile"] = [source |-> [v |-> c + 1, t |-> c], header |-> Stamp(h)]
         /\ disk.obj = Image(c + 1, h)
  <2>1. CASE t = "compile"
    <3>1. rec'["compile"] = [source |-> [v |-> src.code.t + 1, t |-> src.code.t],
                             header |-> Stamp(disk.hdr)]
      BY <1>1, <2>1, inputFacts DEF compile_inputs, file_meta, SourceInv
    <3>2. disk.obj = Image(src.code.t + 1, disk.hdr)
      BY <2>1 DEF Made, SourceInv
    <3> QED BY <3>1, <3>2 DEF SourceInv, DiskInv
  <2>2. CASE t # "compile"
    BY <1>1, <2>2, stepNames DEF RecordInv
  <2> QED BY <2>1, <2>2
<1>8. rec'["link"] = [object |-> Stamp(disk.raw)]
  <2>1. CASE t = "link"
    BY <1>1, <2>1, inputFacts DEF Made
  <2> QED BY <1>1, <2>1, stepNames DEF RecordInv
<1>9. rec'["elf"] = [raw |-> Stamp(disk.elf)]
  <2>1. CASE t = "elf"
    BY <1>1, <2>1, inputFacts DEF Made
  <2> QED BY <1>1, <2>1, stepNames DEF RecordInv
<1> QED BY <1>3, <1>4, <1>5, <1>6, <1>7, <1>8, <1>9, Zenon DEF RecordInv

\* The end of a turn: the next task is planned, and nothing planned is passed
\* over.
LEMMA turnEnds ==
  ASSUME JobInv, job.st \in {"check", "record"}, NextTask
  PROVE /\ DOMAIN job' = {"st", "plan", "at"} /\ job'.plan = job.plan
        /\ job'.st \in {"check", "built"}
        /\ job'.st = "check" => job'.at \in 1 .. Len(Tasks) /\ Planned(job.plan, job'.at)
        /\ \A i \in 1 .. Len(Tasks) :
             Reached(i)' => Reached(i) \/ i = job.at \/ ~Planned(job.plan, i)
<1>0. Len(Tasks) \in Nat /\ job.at \in 1 .. Len(Tasks) /\ DOMAIN job = {"st", "plan", "at"}
  BY taskFacts DEF JobInv
<1>1. CASE job.at = Len(Tasks)
  <2>1. job' = [job EXCEPT !.st = "built", !.at = 0]
    BY <1>1 DEF NextTask
  <2> QED BY <1>0, <1>1, <2>1 DEF Reached
<1>2. CASE job.at # Len(Tasks)
  <2> DEFINE j == pre_build(job.plan, job.at + 1)
  <2>1. job' = [job EXCEPT !.st = "check", !.at = j]
    BY <1>2 DEF NextTask
  <2>2. job.at + 1 \in 1 .. Len(Tasks)
    BY <1>0, <1>2
  <2>3. /\ j \in job.at + 1 .. Len(Tasks) /\ Planned(job.plan, j)
        /\ \A k \in job.at + 1 .. j - 1 : ~Planned(job.plan, k)
    BY <2>2, nextFacts
  <2> HIDE DEF j
  <2>4. DOMAIN job' = {"st", "plan", "at"} /\ job'.plan = job.plan /\ job'.st = "check" /\ job'.at = j
    BY <1>0, <2>1
  <2>5. ASSUME NEW i \in 1 .. Len(Tasks), Reached(i)'
        PROVE Reached(i) \/ i = job.at \/ ~Planned(job.plan, i)
    <3>1. j > i
      BY <2>4, <2>5 DEF Reached
    <3>2. i < job.at \/ i = job.at \/ i \in job.at + 1 .. j - 1
      BY <1>0, <2>3, <3>1
    <3> QED BY <2>3, <3>2 DEF Reached
  <2> QED BY <1>0, <2>3, <2>4, <2>5
<1> QED BY <1>1, <1>2

\* What a turn leaves of the outputs when it makes the one of its own task.
Kept(t) ==
  /\ \A a, x : Staged(a, x) => Staged(a, x)'
  /\ disk'.index # disk.index => t = "index"
  /\ disk'.hdr # disk.hdr => t = "headers"
  /\ disk'.obj # disk.obj => t = "compile"
  /\ disk'.raw # disk.raw => t = "link"
  /\ disk'.elf # disk.elf => t = "elf"

\* A turn that ends with its task's output made keeps what is said of the job.
LEMMA TurnKeeps ==
  ASSUME SourceInv, JobInv, job.st \in {"check", "record"}, NEW t, t = Tasks[job.at],
         UNCHANGED <<src, edits, event, pc>>, Kept(t), Made(t)',
         DOMAIN job' = {"st", "plan", "at"}, job'.plan = job.plan,
         job'.st \in {"check", "record", "built"},
         job'.st \in {"check", "record"} => job'.at \in 1 .. Len(Tasks) /\ Planned(job.plan, job'.at),
         job'.st = "record" => job'.at = job.at /\ (t \in Names => src.asset[t].v # 0),
         \A i \in 1 .. Len(Tasks) :
             Reached(i)' => Reached(i) \/ i = job.at \/ ~Planned(job.plan, i)
  PROVE JobInv'
<1>0. /\ Len(Tasks) \in Nat /\ job.at \in 1 .. Len(Tasks)
      /\ Len(Tasks) = Len(Assets) + 5 /\ Len(Assets) \in Nat
  BY taskFacts DEF JobInv
<1>1. ASSUME NEW i \in {Step(1), Step(2), Step(3), Step(4), Step(5)}, Reached(i)'
      PROVE Reached(i) \/ i = job.at
  <2>1. i \in 1 .. Len(Tasks) /\ i > Len(Assets)
    BY <1>0 DEF Step
  <2>2. Planned(job.plan, i)
    BY <2>1, placeFacts DEF Planned
  <2> QED BY <1>1, <2>1, <2>2
<1>2. ASSUME NEW i \in 1 .. Len(Tasks), NEW k \in 1 .. Len(Tasks), Reached(i), k < i
      PROVE job.at # k
  BY <1>0, <1>2 DEF Reached
<1>3. /\ job.at = Step(1) <=> t = "index"
      /\ job.at = Step(2) <=> t = "headers"
      /\ job.at = Step(3) <=> t = "compile"
      /\ job.at = Step(4) <=> t = "link"
      /\ job.at = Step(5) <=> t = "elf"
      /\ job.at <= Len(Assets) <=> t \in Names
  <2>1. job.at <= Len(Assets) => t \in Names
    BY <1>0, taskFacts
  <2> QED BY <1>0, <2>1, placeFacts, taskFacts, Zenon
<1>4. \A k \in {1, 2, 3, 4, 5} : Step(k) \in 1 .. Len(Tasks)
  BY <1>0 DEF Step
<1>5. ASSUME NEW i \in 1 .. Len(Assets), Reached(i)', Assets[i] \in DOMAIN job.plan
      PROVE Staged(Assets[i], job.plan[Assets[i]])'
  <2>1. i \in 1 .. Len(Tasks) /\ Planned(job.plan, i) /\ Tasks[i] = Assets[i] /\ Assets[i] \in Names
    BY <1>0, <1>5, taskFacts DEF Planned
  <2>2. CASE Reached(i)
    BY <1>5, <2>2 DEF JobInv, Kept
  <2>3. CASE i = job.at
    BY <2>1, <2>3 DEF Made
  <2> QED BY <1>5, <2>1, <2>2, <2>3
<1>6. Reached(Step(1))' => disk'.index = job.plan
  <2>1. CASE Reached(Step(1))
    BY <2>1, <1>3, <1>4, Zenon DEF JobInv, Kept, Made
  <2>2. CASE job.at = Step(1)
    BY <1>3, <2>2 DEF Made
  <2> QED BY <1>1, <2>1, <2>2
<1>7. Reached(Step(2))' => disk'.hdr = DOMAIN job.plan
  <2>1. CASE Reached(Step(2))
    BY <2>1, <1>3, <1>4 DEF JobInv, Kept, Made
  <2>2. CASE job.at = Step(2)
    BY <1>3, <2>2 DEF Made
  <2> QED BY <1>1, <2>1, <2>2, Zenon
<1>8. Reached(Step(3))' =>
        disk'.obj.ids = Image(0, disk'.hdr).ids /\ (event \/ disk'.obj = Image(src.code.v, disk'.hdr))
  <2>1. CASE job.at = Step(3)
    <3>1. disk'.obj = Image(src.code.v, disk'.hdr)
      BY <1>3, <2>1 DEF Made
    <3> QED BY <3>1 DEF Image
  <2>2. CASE Reached(Step(3)) /\ job.at # Step(3)
    <3>1. job.at # Step(2)
      BY <1>0, <1>2, <1>4, <2>2 DEF Step
    <3> QED BY <1>3, <2>2, <3>1 DEF JobInv, Kept
  <2> QED BY <1>1, <2>1, <2>2, Zenon
<1>9. Reached(Step(4))' => disk'.raw = disk'.obj
  <2>1. CASE job.at = Step(4)
    BY <1>3, <2>1, Zenon DEF Made
  <2>2. CASE Reached(Step(4)) /\ job.at # Step(4)
    <3>1. job.at # Step(3)
      BY <1>0, <1>2, <1>4, <2>2 DEF Step
    <3> QED BY <1>3, <2>2, <3>1, Zenon DEF JobInv, Kept
  <2> QED BY <1>1, <2>1, <2>2
<1>10. Reached(Step(5))' => disk'.elf = disk'.raw
  <2>1. CASE job.at = Step(5)
    BY <1>3, <2>1, Zenon DEF Made
  <2>2. CASE Reached(Step(5)) /\ job.at # Step(5)
    <3>1. job.at # Step(4)
      BY <1>0, <1>2, <1>4, <2>2 DEF Step
    <3> QED BY <1>3, <2>2, <3>1, Zenon DEF JobInv, Kept
  <2> QED BY <1>1, <2>1, <2>2
<1>11. Between("compile")' => disk'.obj = Image(src.code.v, disk'.hdr)
  BY DEF Between, Made
<1>12. \A a \in Names : Between(a)' => src.asset[a].v # 0
  BY DEF Between
<1>13. event \/ job.plan = scan_assets
  BY DEF JobInv
<1>14. Mapped(job.plan)' /\ scan_assets' = scan_assets
  BY DEF JobInv, Mapped, scan_assets, Present
<1>15. /\ pc \in {"down", "boot", "idle", "build", "reload", "gc"}
       /\ pc \in {"boot", "build"}
  BY DEF JobInv
<1> QED BY <1>5, <1>6, <1>7, <1>8, <1>9, <1>10, <1>11, <1>12, <1>13, <1>14, <1>15, Zenon DEF JobInv

\* A task that runs makes its output and leaves the others.
LEMMA runFacts ==
  ASSUME SourceInv, DiskInv, JobInv, job.st = "check", NEW t, t = Tasks[job.at],
         ~Fails(t), disk' = Output(t), job' = [job EXCEPT !.st = "record"],
         UNCHANGED <<src, edits>>
  PROVE /\ Kept(t) /\ Made(t)' /\ DiskInv'
        /\ t \in Names => src.asset[t].v # 0
<1>0. /\ t \in Names \cup StepNames /\ job.at \in 1 .. Len(Tasks)
      /\ t \in Names => t \in DOMAIN job.plan
  <2>1. job.at \in 1 .. Len(Tasks) /\ Planned(job.plan, job.at)
    BY DEF JobInv
  <2> QED BY <2>1, SourcesAreNamed DEF Planned, JobInv, Mapped
<1>1. DOMAIN disk = {"staged", "index", "hdr", "obj", "raw", "elf"} /\ job'.plan = job.plan
  BY DEF DiskInv, JobInv
<1>2. Mapped(disk.index)' <=> /\ DOMAIN disk'.index \subseteq Names
                              /\ \A a \in DOMAIN disk'.index : disk'.index[a] \in 1 .. edits + 1
  BY DEF Mapped
<1>3. CASE t \in Names
  <2> DEFINE g == [name |-> t, fp |-> job.plan[t], v |-> src.asset[t].v]
             S == {f \in disk.staged : ~(f.name = t /\ f.fp = job.plan[t])} \cup {g}
  <2>1. disk' = [disk EXCEPT !.staged = S]
    BY <1>3, taskFacts DEF Output, AssetTask
  <2>2. /\ DOMAIN disk' = DOMAIN disk /\ disk'.staged = S /\ disk'.index = disk.index
        /\ disk'.hdr = disk.hdr /\ disk'.obj = disk.obj /\ disk'.raw = disk.raw
        /\ disk'.elf = disk.elf
    BY <1>1, <2>1
  <2>3. src.asset[t].v # 0 /\ src.asset[t].v \in Nat
    BY <1>3 DEF Fails, Missing, SourceInv
  <2>4. job.plan[t] \in 1 .. edits + 1 /\ edits \in Nat
    BY <1>0, <1>3 DEF JobInv, Mapped, SourceInv
  <2>5. g \in [name : Names, fp : Nat, v : Nat] /\ g.name = t /\ g.fp = job.plan[t]
        /\ g.v = src.asset[t].v
    BY <1>3, <2>3, <2>4
  <2> HIDE DEF g
  <2>6. \A a, x : Staged(a, x) => Staged(a, x)'
    BY <2>2, <2>5, Zenon DEF Staged
  <2>7. Made(t)'
    BY <1>1, <1>3, <2>2, <2>5, taskFacts DEF Made, Staged
  <2>8. disk'.staged \subseteq [name : Names, fp : Nat, v : Nat]
    BY <2>2, <2>5 DEF DiskInv
  <2>9. \A f \in disk'.staged :
           f.fp \in 1 .. edits + 1 /\ (f.fp = src.asset[f.name].v => f.v = f.fp)
    BY <2>2, <2>4, <2>5 DEF DiskInv
  <2>10. DiskInv'
    BY <1>1, <1>2, <2>2, <2>6, <2>8, <2>9 DEF DiskInv, Mapped
  <2> QED BY <2>2, <2>3, <2>6, <2>7, <2>10, Zenon DEF Kept
<1>4. CASE t = "index"
  <2>1. disk' = [disk EXCEPT !.index = job.plan]
    BY <1>4, taskFacts DEF Output, WriteResourceIndexTask
  <2>2. /\ DOMAIN disk' = DOMAIN disk /\ disk'.staged = disk.staged /\ disk'.index = job.plan
        /\ disk'.hdr = disk.hdr /\ disk'.obj = disk.obj /\ disk'.raw = disk.raw
        /\ disk'.elf = disk.elf
    BY <1>1, <2>1
  <2>3. \A a, x : Staged(a, x) => Staged(a, x)'
    BY <2>2 DEF Staged
  <2>4. ASSUME NEW a \in DOMAIN job.plan PROVE Staged(a, job.plan[a])
    <3>1. PICK i \in 1 .. Len(Assets) : a = Assets[i]
      BY taskFacts DEF JobInv, Mapped
    <3>2. job.at > i
      <4>1. "index" \notin Names
        BY taskFacts
      <4>2. job.at <= Len(Assets) => Tasks[job.at] \in Names
        BY <1>0, taskFacts
      <4>3. ~(job.at <= Len(Assets))
        BY <1>4, <4>1, <4>2
      <4> QED BY <1>0, <4>3, taskFacts
    <3> QED BY <3>1, <3>2 DEF JobInv, Reached
  <2>5. DiskInv'
    BY <1>1, <1>2, <2>2, <2>3, <2>4 DEF DiskInv, JobInv, Mapped
  <2>6. Made(t)'
    BY <1>1, <1>4, <2>2, taskFacts DEF Made
  <2> QED BY <1>4, <2>2, <2>3, <2>5, <2>6, taskFacts DEF Kept
<1>5. CASE t = "headers"
  <2>1. disk' = [disk EXCEPT !.hdr = DOMAIN job.plan]
    BY <1>5, taskFacts DEF Output, GenerateResourceHeadersTask
  <2>2. /\ DOMAIN disk' = DOMAIN disk /\ disk'.staged = disk.staged /\ disk'.index = disk.index
        /\ disk'.hdr = DOMAIN job.plan /\ disk'.obj = disk.obj /\ disk'.raw = disk.raw
        /\ disk'.elf = disk.elf
    BY <1>1, <2>1
  <2>3. \A a, x : Staged(a, x) => Staged(a, x)'
    BY <2>2 DEF Staged
  <2>4. DiskInv'
    BY <1>1, <1>2, <2>2, <2>3 DEF DiskInv, JobInv, Mapped
  <2>5. Made(t)'
    BY <1>1, <1>5, <2>2, taskFacts DEF Made
  <2> QED BY <1>5, <2>2, <2>3, <2>4, <2>5, taskFacts DEF Kept
<1>6. CASE t = "compile"
  <2>1. disk' = [disk EXCEPT !.obj = Image(src.code.v, disk.hdr)]
    BY <1>6, taskFacts DEF Output, CompileCTask
  <2>2. /\ DOMAIN disk' = DOMAIN disk /\ disk'.staged = disk.staged /\ disk'.index = disk.index
        /\ disk'.hdr = disk.hdr /\ disk'.obj = Image(src.code.v, disk.hdr)
        /\ disk'.raw = disk.raw /\ disk'.elf = disk.elf
    BY <1>1, <2>1
  <2>3. \A a, x : Staged(a, x) => Staged(a, x)'
    BY <2>2 DEF Staged
  <2>4. DiskInv'
    BY <1>1, <1>2, <2>2, <2>3 DEF DiskInv, Mapped
  <2>5. Made(t)'
    BY <1>1, <1>6, <2>2, taskFacts DEF Made
  <2> QED BY <1>6, <2>2, <2>3, <2>4, <2>5, taskFacts DEF Kept
<1>7. CASE t = "link"
  <2>1. disk' = [disk EXCEPT !.raw = disk.obj]
    BY <1>7, taskFacts DEF Output, LinkElfTask
  <2>2. /\ DOMAIN disk' = DOMAIN disk /\ disk'.staged = disk.staged /\ disk'.index = disk.index
        /\ disk'.hdr = disk.hdr /\ disk'.obj = disk.obj /\ disk'.raw = disk.obj
        /\ disk'.elf = disk.elf
    BY <1>1, <2>1
  <2>3. \A a, x : Staged(a, x) => Staged(a, x)'
    BY <2>2 DEF Staged
  <2>4. DiskInv'
    BY <1>1, <1>2, <2>2, <2>3 DEF DiskInv, Mapped
  <2>5. Made(t)'
    BY <1>1, <1>7, <2>2, taskFacts DEF Made
  <2> QED BY <1>7, <2>2, <2>3, <2>4, <2>5, taskFacts DEF Kept
<1>8. CASE t = "elf"
  <2>1. disk' = [disk EXCEPT !.elf = disk.raw]
    BY <1>8, taskFacts DEF Output, DevElfTask
  <2>2. /\ DOMAIN disk' = DOMAIN disk /\ disk'.staged = disk.staged /\ disk'.index = disk.index
        /\ disk'.hdr = disk.hdr /\ disk'.obj = disk.obj /\ disk'.raw = disk.raw
        /\ disk'.elf = disk.raw
    BY <1>1, <2>1
  <2>3. \A a, x : Staged(a, x) => Staged(a, x)'
    BY <2>2 DEF Staged
  <2>4. DiskInv'
    BY <1>1, <1>2, <2>2, <2>3 DEF DiskInv, Mapped
  <2>5. Made(t)'
    BY <1>1, <1>8, <2>2, taskFacts DEF Made
  <2> QED BY <1>8, <2>2, <2>3, <2>4, <2>5, taskFacts DEF Kept
<1> QED BY <1>0, <1>3, <1>4, <1>5, <1>6, <1>7, <1>8, stepNames

\* A build's turn keeps the invariant.
LEMMA BuildKeeps ==
  ASSUME LoopInv, Build
  PROVE LoopInv'
<1> USE DEF LoopInv
<1>0. PICK t : t = Tasks[job.at]
  OBVIOUS
<1>1. /\ UNCHANGED <<src, edits, event, pc, mem>> /\ job.st \in {"check", "record"}
  BY DEF Build, RunTask, RecordTask
<1>2. t \in Names \cup StepNames /\ pc \in {"boot", "build"}
  BY <1>0, <1>1, SourcesAreNamed DEF JobInv, Planned, Mapped
<1>3. \A u : Between(u) => u = t
  BY <1>0 DEF Between
<1>4. SourceInv' /\ QuietInv'
  BY <1>1, <1>2 DEF SourceInv, QuietInv
<1>5. ASSUME NextTask, Made(t), t \in Names => src.asset[t].v # 0,
             rec' = save_task_state(t), disk' = disk
      PROVE LoopInv'
  <2>1. /\ DOMAIN job' = {"st", "plan", "at"} /\ job'.plan = job.plan
        /\ job'.st \in {"check", "built"}
        /\ job'.st = "check" => job'.at \in 1 .. Len(Tasks) /\ Planned(job.plan, job'.at)
        /\ \A i \in 1 .. Len(Tasks) :
             Reached(i)' => Reached(i) \/ i = job.at \/ ~Planned(job.plan, i)
    BY <1>1, <1>5, turnEnds
  <2>2. RecordInv'
    BY <1>1, <1>2, <1>3, <1>5, <2>1, SaveKeeps
  <2>3. Kept(t) /\ Made(t)'
    BY <1>1, <1>5, <2>1 DEF Kept, Made, Staged
  <2>4. JobInv'
    BY <1>0, <1>1, <2>1, <2>3, TurnKeeps, Zenon
  <2>5. DiskInv' /\ MemInv'
    BY <1>1, <1>5, <2>1 DEF DiskInv, MemInv, Mapped, Staged
  <2> QED BY <1>4, <2>2, <2>4, <2>5
<1>6. CASE RecordTask
  <2>1. job.st = "record" /\ NextTask /\ rec' = save_task_state(t) /\ disk' = disk
    BY <1>0, <1>6 DEF RecordTask
  <2>2. Between(t) /\ Reached(job.at)
    BY <1>0, <2>1 DEF Between, Reached
  <2>3. Made(t)
    <3>1. job.at \in 1 .. Len(Tasks) /\ Planned(job.plan, job.at)
      BY <2>1 DEF JobInv
    <3>2. t \in Names => t \in DOMAIN job.plan
      BY <1>0, <3>1, SourcesAreNamed DEF Planned
    <3>3. t \in Names => Staged(t, job.plan[t])
      <4>1. t \in Names => job.at <= Len(Assets)
        BY <1>0, <3>1, placeFacts, SourcesAreNamed
      <4>2. t \in Names => job.at \in 1 .. Len(Assets) /\ t = Assets[job.at]
        BY <1>0, <3>1, <4>1, taskFacts
      <4> QED BY <2>2, <3>2, <4>2 DEF JobInv
    <3>4. CASE t \in Names
      BY <3>3, <3>4, taskFacts DEF Made
    <3>5. CASE t \notin Names
      <4>1. job.at \in {Step(1), Step(2), Step(3), Step(4), Step(5)}
        BY <1>0, <3>1, <3>5, placeFacts, taskFacts
      <4>2. /\ job.at = Step(1) <=> t = "index"
            /\ job.at = Step(2) <=> t = "headers"
            /\ job.at = Step(3) <=> t = "compile"
            /\ job.at = Step(4) <=> t = "link"
            /\ job.at = Step(5) <=> t = "elf"
        BY <1>0, <4>1, taskFacts, Zenon
      <4> QED BY <2>2, <3>5, <4>2 DEF JobInv, Made
    <3> QED BY <3>4, <3>5
  <2>4. t \in Names => src.asset[t].v # 0
    BY <2>2 DEF JobInv
  <2> QED BY <1>5, <2>1, <2>3, <2>4
<1>7. CASE job.st = "check" /\ UpToDate(t) /\ rec' = save_task_state(t) /\ NextTask /\ disk' = disk
  BY <1>2, <1>5, <1>7, upToDateFacts
<1>8. CASE /\ job.st = "check" /\ ~Fails(t) /\ disk' = Output(t) /\ rec' = rec
           /\ job' = [job EXCEPT !.st = "record"]
  <2>1. /\ Kept(t) /\ Made(t)' /\ DiskInv'
        /\ t \in Names => src.asset[t].v # 0
    BY <1>0, <1>1, <1>8, runFacts
  <2>2. DOMAIN job' = {"st", "plan", "at"} /\ job'.plan = job.plan /\ job'.at = job.at
        /\ job'.st = "record"
    BY <1>8 DEF JobInv
  <2>3. \A i \in 1 .. Len(Tasks) : Reached(i)' => Reached(i) \/ i = job.at
    BY <1>8, <2>2 DEF Reached
  <2>4. JobInv'
    <3>1. job.at \in 1 .. Len(Tasks) /\ Planned(job.plan, job.at)
      BY <1>8 DEF JobInv
    <3> QED BY <1>0, <1>1, <2>1, <2>2, <2>3, <3>1, TurnKeeps
  <2>5. \A u : Between(u)' <=> u = t
    BY <1>0, <2>2 DEF Between
  <2>6. \A u : ~Between(u)
    BY <1>8 DEF Between
  <2>7. RecordInv'
    <3>1. ~Between("index")' => rec["index"] = [plan |-> Stamp(disk'.index)]
      BY <2>1, <2>5, <2>6 DEF RecordInv, Kept
    <3>2. ~Between("headers")' => rec["headers"] = [plan |-> Stamp(disk'.hdr)]
      BY <2>1, <2>5, <2>6 DEF RecordInv, Kept
    <3>3. ~Between("compile")' =>
            \E c \in 0 .. edits, h \in SUBSET Names :
               /\ rec["compile"] = [source |-> [v |-> c + 1, t |-> c], header |-> Stamp(h)]
               /\ disk'.obj = Image(c + 1, h)
      BY <2>1, <2>5, <2>6 DEF RecordInv, Kept
    <3>4. ~Between("link")' => rec["link"] = [object |-> Stamp(disk'.raw)]
      BY <2>1, <2>5, <2>6 DEF RecordInv, Kept
    <3>5. ~Between("elf")' => rec["elf"] = [raw |-> Stamp(disk'.elf)]
      BY <2>1, <2>5, <2>6, Zenon DEF RecordInv, Kept
    <3> QED BY <1>1, <1>8, <3>1, <3>2, <3>3, <3>4, <3>5 DEF RecordInv
  <2>8. MemInv'
    <3>1. disk'.index = disk.index \/ disk'.index = job.plan
      BY <2>1, <2>2 DEF Kept, Made
    <3>2. /\ Mapped(mem.index)'
          /\ \A g \in mem.gc : g.name \in DOMAIN disk'.index => disk'.index[g.name] # g.fp
      BY <1>1, <3>1 DEF MemInv, Mapped
    <3>3. ASSUME NEW a \in DOMAIN mem.index, src.asset[a].v = mem.index[a]
          PROVE /\ a \in DOMAIN disk'.index /\ disk'.index[a] = mem.index[a]
                /\ a \in DOMAIN job.plan /\ job.plan[a] = mem.index[a]
      BY <1>8, <3>1, <3>3 DEF MemInv
    <3> QED BY <1>1, <2>2, <3>2, <3>3 DEF MemInv
  <2> QED BY <1>4, <2>1, <2>4, <2>7, <2>8
<1>9. CASE /\ job.st = "check" /\ Fails(t) /\ disk' = disk /\ rec' = rec
           /\ job' = [job EXCEPT !.st = "failed", !.at = 0]
  <2>1. DOMAIN job' = {"st", "plan", "at"} /\ job'.plan = job.plan /\ job'.st = "failed"
    BY <1>9 DEF JobInv
  <2>2. \A u : ~Between(u) /\ ~Between(u)'
    BY <1>9, <2>1 DEF Between
  <2>3. \A i : ~Reached(i)'
    BY <2>1 DEF Reached
  <2>4. event \/ ~Buildable
    <3> SUFFICES ASSUME ~event, Buildable PROVE FALSE
      OBVIOUS
    <3>1. job.plan = scan_assets
      BY <1>9 DEF JobInv
    <3>2. t \in Names => src.asset[t].v # 0
      <4>1. t \in Names => t \in DOMAIN job.plan
        BY <1>0, <1>9, SourcesAreNamed DEF JobInv, Planned
      <4> QED BY <3>1, <4>1 DEF scan_assets, Present
    <3>3. t \in Names => src.asset[t].ok
      BY <3>2, Zenon DEF Buildable
    <3>4. src.code.ok
      BY Zenon DEF Buildable
    <3> QED BY <1>9, <3>2, <3>3, <3>4 DEF Fails, Missing
  <2>5. Buildable' <=> Buildable
    BY <1>1 DEF Buildable
  <2>6. JobInv'
    BY <1>1, <1>2, <2>1, <2>2, <2>3, <2>4, <2>5 DEF JobInv, Mapped
  <2>7. RecordInv' /\ DiskInv'
    BY <1>1, <1>9, <2>2 DEF RecordInv, DiskInv, Mapped, Staged
  <2>8. MemInv'
    BY <1>1, <1>9, <2>1 DEF MemInv, Mapped
  <2> QED BY <1>4, <2>6, <2>7, <2>8
<1> QED
  <2>1. CASE RunTask
    BY <1>0, <1>7, <1>8, <1>9, <2>1 DEF RunTask
  <2> QED BY <1>6, <2>1 DEF Build

(* ------------------------- the rest of the loop ------------------------- *)

\* An edit leaves a content never seen before, or none, and the channel told.
LEMMA editedFacts ==
  ASSUME LoopInv, SourceInv', edits' = edits + 1, event' = Armed, pc # "boot",
         UNCHANGED <<disk, rec, job, pc, mem>>,
         \A a \in Names : src'.asset[a].v \in {src.asset[a].v, 0, edits + 2},
         Between("compile") => src'.code.v = src.code.v,
         \A a \in Names : Between(a) => src'.asset[a].v = src.asset[a].v
  PROVE LoopInv'
<1> USE DEF LoopInv
<1>0. edits \in Nat
  BY DEF SourceInv
<1>1. pc # "down" => event'
  BY Zenon DEF Armed, JobInv
<1>2. \A u : Between(u)' <=> Between(u)
  BY DEF Between
<1>3. \A i : Reached(i)' <=> Reached(i)
  BY Zenon DEF Reached
<1>5. Mapped(disk.index)' /\ Mapped(job.plan)' /\ Mapped(mem.index)'
  BY <1>0 DEF Mapped, DiskInv, JobInv, MemInv
<1>6. DiskInv'
  <2>1. ASSUME NEW f \in disk.staged
        PROVE f.fp \in 1 .. edits + 2 /\ (f.fp = src'.asset[f.name].v => f.v = f.fp)
    BY <1>0 DEF DiskInv
  <2> QED BY <1>0, <1>5, <2>1 DEF DiskInv, Staged
<1>7. RecordInv'
  BY <1>0, <1>2 DEF RecordInv
<1>8. JobInv'
  <2>1. job.st # "none" => event'
    BY <1>1 DEF JobInv
  <2>3. \A i : Reached(i) => event'
    BY <2>1 DEF Reached
  <2>4. \A i \in 1 .. Len(Assets) :
       Reached(i)' /\ Assets[i] \in DOMAIN job.plan => Staged(Assets[i], job.plan[Assets[i]])'
    BY <1>3 DEF JobInv, Staged
  <2>5. (Between("compile") => disk.obj = Image(src.code.v, disk.hdr))'
    BY <1>2 DEF JobInv
  <2>6. \A a \in Names : Between(a)' => src'.asset[a].v # 0
    BY <1>2, Zenon DEF JobInv
  <2> QED BY <1>3, <1>5, <2>1, <2>3, <2>4, <2>5, <2>6 DEF JobInv
<1>9. MemInv'
  <2>1. ASSUME NEW g \in mem.gc
        PROVE g.fp \in 1 .. edits + 2 /\ src'.asset[g.name].v # g.fp
    BY <1>0 DEF MemInv
  <2>2. ASSUME NEW a \in DOMAIN mem.index, src'.asset[a].v = mem.index[a]
        PROVE src.asset[a].v = mem.index[a]
    BY <1>0, <2>2 DEF MemInv, Mapped
  <2> QED BY <1>5, <2>1, <2>2 DEF MemInv
<1>10. QuietInv'
  BY <1>1 DEF QuietInv
<1> QED BY <1>6, <1>7, <1>8, <1>9, <1>10

\* The developer's edits.
LEMMA EditKeeps ==
  ASSUME LoopInv, ~Reverts, ~EditsInTask, Edit
  PROVE LoopInv'
<1> USE DEF LoopInv
<1>0. edits \in Nat /\ DOMAIN src = {"code", "asset"} /\ DOMAIN src.asset = Names
  BY DEF SourceInv
<1>1. event' = Armed /\ pc # "boot" /\ UNCHANGED <<disk, rec, job, pc, mem>>
  BY DEF Edit
<1>2. ASSUME NEW v \in Versions, NEW ok \in BOOLEAN, EditCode(v, ok)
      PROVE LoopInv'
  <2>1. /\ edits' = edits + 1 /\ src' = [src EXCEPT !.code = File(v, edits + 1, ok)]
        /\ v = edits + 2 /\ ~Between("compile")
    BY <1>2 DEF EditCode, EditedTo
  <2>2. src'.asset = src.asset /\ src'.code = File(v, edits + 1, ok) /\ DOMAIN src' = {"code", "asset"}
    BY <1>0, <2>1
  <2>3. src'.code.v = edits + 2 /\ src'.code.t = edits + 1 /\ DOMAIN src'.code = {"v", "t", "ok"}
    BY <2>1, <2>2 DEF File
  <2>4. SourceInv'
    BY <1>0, <2>1, <2>2, <2>3 DEF SourceInv
  <2> QED BY <1>1, <2>1, <2>2, <2>4, editedFacts
<1>3. ASSUME NEW a \in Names, NEW v \in Versions, NEW ok \in BOOLEAN, EditAsset(a, v, ok)
      PROVE LoopInv'
  <2>1. /\ edits' = edits + 1 /\ src' = [src EXCEPT !.asset[a] = File(v, edits + 1, ok)]
        /\ v \in {0, edits + 2} /\ ~Between(a)
    BY <1>3 DEF EditAsset, EditedTo
  <2>2. /\ src'.code = src.code /\ DOMAIN src' = {"code", "asset"} /\ DOMAIN src'.asset = Names
        /\ src'.asset[a] = File(v, edits + 1, ok)
        /\ \A b \in Names : b # a => src'.asset[b] = src.asset[b]
    BY <1>0, <2>1
  <2>3. src'.asset[a].v = v /\ src'.asset[a].t = edits + 1 /\ DOMAIN src'.asset[a] = {"v", "t", "ok"}
    BY <2>2 DEF File
  <2>4. ASSUME NEW b \in Names
        PROVE /\ DOMAIN src'.asset[b] = {"v", "t", "ok"} /\ src'.asset[b].t \in 0 .. edits'
              /\ src'.asset[b].v \in {0, src'.asset[b].t + 1}
              /\ src'.asset[b].v \in {src.asset[b].v, 0, edits + 2}
    <3>1. CASE b = a
      BY <1>0, <2>1, <2>3, <3>1
    <3>2. CASE b # a
      BY <1>0, <2>1, <2>2, <3>2 DEF SourceInv
    <3> QED BY <3>1, <3>2
  <2>5. SourceInv'
    BY <1>0, <2>1, <2>2, <2>4 DEF SourceInv
  <2>6. \A b \in Names : Between(b) => b # a
    BY <2>1
  <2> QED BY <1>1, <2>1, <2>2, <2>4, <2>5, <2>6, editedFacts
<1> QED BY <1>2, <1>3 DEF Edit

\* A build starts with a scan of what is there.
LEMMA beginFacts ==
  ASSUME LoopInv, BeginBuild, UNCHANGED <<src, edits, disk, rec, mem>>,
         pc \in {"idle", "down"}, pc' \in {"build", "boot"}
  PROVE LoopInv'
<1> USE DEF LoopInv
<1> DEFINE j == pre_build(scan_assets, 1)
<1>0. 1 \in 1 .. Len(Tasks) /\ Len(Tasks) \in Nat
  BY taskFacts
<1>1. /\ j \in 1 .. Len(Tasks) /\ Planned(scan_assets, j)
      /\ \A k \in 1 .. j - 1 : ~Planned(scan_assets, k)
  BY <1>0, nextFacts
<1>2. job' = [st |-> "check", plan |-> scan_assets, at |-> j]
  BY DEF BeginBuild
<1> HIDE DEF j
<1>3. /\ DOMAIN job' = {"st", "plan", "at"} /\ job'.st = "check" /\ job'.plan = scan_assets
      /\ job'.at = j
  BY <1>2
<1>4. \A u : ~Between(u)'
  BY <1>3 DEF Between
<1>5. ASSUME NEW i \in 1 .. Len(Tasks), Reached(i)' PROVE ~Planned(scan_assets, i)
  <2>1. j > i
    BY <1>3, <1>5 DEF Reached
  <2> QED BY <1>0, <1>1, <2>1
<1>6. \A k \in {1, 2, 3, 4, 5} : ~Reached(Step(k))'
  <2>1. ASSUME NEW k \in {1, 2, 3, 4, 5}
        PROVE Step(k) \in 1 .. Len(Tasks) /\ Step(k) > Len(Assets)
    BY taskFacts DEF Step
  <2>2. \A k \in {1, 2, 3, 4, 5} : Planned(scan_assets, Step(k))
    BY <2>1, placeFacts, Zenon DEF Planned
  <2> QED BY <1>5, <2>1, <2>2
<1>7. DOMAIN scan_assets = {a \in Names : src.asset[a].v # 0}
      /\ \A a \in DOMAIN scan_assets : scan_assets[a] = src.asset[a].v
  BY DEF scan_assets, Present
<1>8. Mapped(job.plan)' /\ scan_assets' = scan_assets
  BY <1>3, <1>7 DEF Mapped, SourceInv, scan_assets, Present
<1>9. JobInv'
  <2>1. \A i \in 1 .. Len(Assets) : Reached(i)' => Assets[i] \notin DOMAIN scan_assets
    BY <1>5, taskFacts DEF Planned
  <2> QED BY <1>1, <1>3, <1>4, <1>6, <1>8, <2>1 DEF JobInv
<1>10. RecordInv'
  <2>1. \A u : ~Between(u)
    <3>1. job.st # "record"
      BY Zenon DEF JobInv
    <3> QED BY <3>1 DEF Between
  <2> QED BY <1>4, <2>1 DEF RecordInv
<1>11. SourceInv' /\ DiskInv' /\ QuietInv'
  BY DEF SourceInv, DiskInv, QuietInv, Mapped, Staged
<1>12. MemInv'
  BY <1>3, <1>7 DEF MemInv, Mapped
<1> QED BY <1>9, <1>10, <1>11, <1>12

\* A scan of sources that stay put stays the same.
LEMMA sameSources ==
  ASSUME UNCHANGED src
  PROVE scan_assets' = scan_assets /\ Buildable' = Buildable /\ Present(src.asset)' = Present(src.asset)
BY DEF scan_assets, Present, Buildable

\* A finished build left each output its scan asks for.
LEMMA builtFacts ==
  ASSUME LoopInv, job.st = "built"
  PROVE /\ disk.index = job.plan /\ disk.elf.ids = Image(0, DOMAIN disk.index).ids
        /\ event \/ (disk.index = scan_assets /\ disk.elf = Image(src.code.v, Present(src.asset)))
<1>1. \A i : Reached(i)
  BY DEF Reached
<1>2. DOMAIN scan_assets = Present(src.asset)
  BY DEF scan_assets
<1> QED BY <1>1, <1>2 DEF LoopInv, JobInv

\* A loop between two builds has no place in a plan.
LEMMA noJobFacts ==
  ASSUME job' = NoJob, LoopInv, job.st # "record", UNCHANGED <<src, edits, disk, rec>>,
         pc' \in {"down", "idle", "reload", "gc"}
  PROVE SourceInv' /\ DiskInv' /\ RecordInv' /\ JobInv'
<1> USE DEF LoopInv
<1>1. DOMAIN job' = {"st", "plan", "at"} /\ job'.st = "none" /\ DOMAIN job'.plan = {}
  BY DEF NoJob
<1>2. \A u : ~Between(u) /\ ~Between(u)'
  BY <1>1 DEF Between
<1>3. \A i : ~Reached(i)'
  BY <1>1, Zenon DEF Reached
<1>4. JobInv'
  BY <1>1, <1>2, <1>3, Zenon DEF JobInv, Mapped
<1>5. RecordInv'
  BY <1>2 DEF RecordInv
<1> QED BY <1>4, <1>5 DEF SourceInv, DiskInv, Mapped, Staged

\* With no memory there is nothing to collect.
LEMMA noMemFacts ==
  ASSUME mem' = NoMem
  PROVE MemInv'
BY DEF NoMem, MemInv, Mapped

\* The build fails.
LEMMA FailKeeps ==
  ASSUME LoopInv, BuildFails
  PROVE LoopInv'
<1> USE DEF LoopInv
<1>1. /\ pc' = "idle" /\ job' = NoJob /\ job.st = "failed"
      /\ UNCHANGED <<src, edits, disk, rec, event, mem>>
  BY DEF BuildFails
<1>2. SourceInv' /\ DiskInv' /\ RecordInv' /\ JobInv'
  BY <1>1, noJobFacts
<1>3. job'.st = "none" /\ DOMAIN job'.plan = {}
  BY <1>1 DEF NoJob
<1>4. MemInv'
  BY <1>1, <1>3, Zenon DEF MemInv, Mapped
<1>5. QuietInv'
  BY <1>1, sameSources DEF QuietInv, JobInv
<1> QED BY <1>2, <1>4, <1>5

\* The build is done and its signals go out.
LEMMA SignalsKeep ==
  ASSUME LoopInv, SignalAssets \/ SignalReload
  PROVE LoopInv'
<1> USE DEF LoopInv
<1>1. CASE SignalAssets
  <2>1. /\ pc' \in {"reload", "gc"} /\ job' = NoJob /\ job.st = "built"
        /\ mem' = [mem EXCEPT !.hash = disk.elf]
        /\ UNCHANGED <<src, edits, disk, rec, event>>
    BY <1>1 DEF SignalAssets
  <2>2. SourceInv' /\ DiskInv' /\ RecordInv' /\ JobInv'
    BY <2>1, noJobFacts
  <2>3. job'.st = "none" /\ DOMAIN job'.plan = {}
    BY <2>1 DEF NoJob
  <2>4. /\ DOMAIN mem' = {"hash", "index", "gc", "copy"}
        /\ mem'.index = mem.index /\ mem'.gc = mem.gc
    BY <2>1 DEF MemInv
  <2>5. MemInv'
    BY <2>1, <2>3, <2>4 DEF MemInv, Mapped
  <2>6. QuietInv'
    BY <2>1, sameSources, builtFacts DEF QuietInv
  <2> QED BY <2>2, <2>5, <2>6
<1>2. CASE SignalReload
  <2>1. /\ pc = "reload" /\ pc' = "gc" /\ UNCHANGED <<src, edits, disk, rec, job, event>>
        /\ mem' = mem \/ mem' = [mem EXCEPT !.copy = disk.elf]
    BY <1>2, Zenon DEF SignalReload
  <2>2. /\ DOMAIN mem' = {"hash", "index", "gc", "copy"}
        /\ mem'.index = mem.index /\ mem'.gc = mem.gc
    BY <2>1 DEF MemInv
  <2>3. (\A u : Between(u)' <=> Between(u)) /\ (\A i : Reached(i)' <=> Reached(i))
    BY <2>1 DEF Between, Reached
  <2>4. SourceInv' /\ DiskInv' /\ RecordInv'
    BY <2>1, <2>3 DEF SourceInv, DiskInv, RecordInv, Mapped, Staged
  <2>5. JobInv'
    BY <2>1, <2>3, sameSources DEF JobInv, Mapped, Staged
  <2>6. MemInv'
    BY <2>1, <2>2 DEF MemInv, Mapped
  <2>7. QuietInv'
    BY <2>1, sameSources DEF QuietInv
  <2> QED BY <2>4, <2>5, <2>6, <2>7
<1> QED BY <1>1, <1>2

\* The collection drops nothing that is named, and what waits for the next one
\* is named no more.
LEMMA GcKeeps ==
  ASSUME LoopInv, Gc
  PROVE LoopInv'
<1> USE DEF LoopInv
<1>0. edits \in Nat /\ Mapped(disk.index) /\ Mapped(mem.index)
  BY DEF SourceInv, DiskInv, MemInv
<1> DEFINE S == {f \in disk.staged : [name |-> f.name, fp |-> f.fp] \notin mem.gc}
           W == superseded(mem.index, disk.index)
<1>1. /\ pc = "gc" /\ pc' = "idle" /\ UNCHANGED <<src, edits, rec, job, event>>
      /\ disk' = [disk EXCEPT !.staged = S]
      /\ mem' = [mem EXCEPT !.gc = W, !.index = disk.index]
  BY DEF Gc, Collect
<1>2. job.st = "none"
  BY <1>1 DEF JobInv
<1>3. \A f \in S : f \in disk.staged
  OBVIOUS
<1>4. ASSUME NEW a \in DOMAIN disk.index
      PROVE \E f \in S : f.name = a /\ f.fp = disk.index[a]
  <2>1. PICK f \in disk.staged : f.name = a /\ f.fp = disk.index[a]
    BY DEF DiskInv, Staged
  <2>2. [name |-> f.name, fp |-> f.fp] \notin mem.gc
    BY <2>1 DEF MemInv
  <2> QED BY <2>1, <2>2
<1>5. ASSUME NEW g \in W
      PROVE /\ g \in [name : Names, fp : Nat] /\ g.fp \in 1 .. edits + 1
            /\ src.asset[g.name].v # g.fp
            /\ g.name \in DOMAIN disk.index => disk.index[g.name] # g.fp
  <2>1. PICK b \in DOMAIN mem.index : g = [name |-> b, fp |-> mem.index[b]]
                                       /\ (b \in DOMAIN disk.index => disk.index[b] # mem.index[b])
    BY DEF superseded
  <2>2. b \in Names /\ mem.index[b] \in 1 .. edits + 1
    BY <1>0 DEF Mapped
  <2>3. src.asset[b].v # mem.index[b]
    BY <2>1 DEF MemInv
  <2> QED BY <1>0, <2>1, <2>2, <2>3
<1> HIDE DEF S, W
<1>6. /\ DOMAIN disk' = {"staged", "index", "hdr", "obj", "raw", "elf"}
      /\ disk'.staged = S /\ disk'.index = disk.index /\ disk'.hdr = disk.hdr
      /\ disk'.obj = disk.obj /\ disk'.raw = disk.raw /\ disk'.elf = disk.elf
  BY <1>1 DEF DiskInv
<1>7. /\ DOMAIN mem' = {"hash", "index", "gc", "copy"}
      /\ mem'.index = disk.index /\ mem'.gc = W
  BY <1>1 DEF MemInv
<1>8. (\A u : ~Between(u)' /\ ~Between(u)) /\ (\A i : ~Reached(i)')
  BY <1>1, <1>2 DEF Between, Reached
<1>9. SourceInv' /\ RecordInv'
  BY <1>1, <1>6, <1>8 DEF SourceInv, RecordInv
<1>10. DiskInv'
  BY <1>1, <1>3, <1>4, <1>6 DEF DiskInv, Mapped, Staged
<1>11. JobInv'
  BY <1>1, <1>2, <1>8 DEF JobInv, Mapped
<1>12. MemInv'
  BY <1>0, <1>1, <1>2, <1>5, <1>6, <1>7 DEF MemInv, Mapped
<1>13. QuietInv'
  <2>1. ASSUME ~event PROVE Built'
    <3>1. disk.index = scan_assets /\ disk.elf = Image(src.code.v, Present(src.asset))
      BY <1>1, <2>1 DEF QuietInv
    <3>2. ASSUME NEW a \in DOMAIN disk.index
          PROVE [name |-> a, fp |-> disk.index[a], v |-> disk.index[a]] \in S
      <4>1. PICK f \in S : f.name = a /\ f.fp = disk.index[a]
        BY <1>4
      <4>2. disk.index[a] = src.asset[a].v
        BY <3>1 DEF scan_assets
      <4>3. f \in disk.staged /\ f.v = f.fp
        BY <1>3, <4>1, <4>2 DEF DiskInv
      <4>4. f = [name |-> f.name, fp |-> f.fp, v |-> f.v]
        BY <4>3 DEF DiskInv
      <4> QED BY <4>1, <4>3, <4>4
    <3> QED BY <1>1, <1>6, <3>1, <3>2, sameSources DEF Built
  <2> QED BY <1>1, <2>1 DEF QuietInv
<1> QED BY <1>9, <1>10, <1>11, <1>12, <1>13, Zenon

\* The devtool is killed, started again, and armed.
LEMMA LifeKeeps ==
  ASSUME LoopInv, ~KillsInTask, Crash \/ Start \/ Wake \/ Boots
  PROVE LoopInv'
<1> USE DEF LoopInv
<1>1. CASE Crash
  <2>1. /\ pc' = "down" /\ job' = NoJob /\ job.st # "record" /\ mem' = NoMem
        /\ UNCHANGED <<src, edits, disk, rec>>
    BY <1>1 DEF Crash
  <2>2. SourceInv' /\ DiskInv' /\ RecordInv' /\ JobInv' /\ MemInv'
    BY <2>1, noJobFacts, noMemFacts
  <2> QED BY <2>1, <2>2 DEF QuietInv
<1>2. CASE Start
  BY <1>2, beginFacts DEF Start
<1>3. CASE Wake
  BY <1>3, beginFacts DEF Wake
<1>4. CASE Boots
  <2>1. /\ pc = "boot" /\ job' = NoJob /\ job.st \in {"failed", "built"}
        /\ UNCHANGED <<src, edits, disk, rec, event>>
        /\ pc' = IF job.st = "failed" THEN "down" ELSE "idle"
        /\ job.st = "failed" => mem' = mem
        /\ job.st # "failed" => mem' = [NoMem EXCEPT !.hash = disk.elf, !.index = disk.index]
    BY <1>4 DEF Boots
  <2>2. SourceInv' /\ DiskInv' /\ RecordInv' /\ JobInv'
    BY <2>1, noJobFacts
  <2>3. job'.st = "none" /\ DOMAIN job'.plan = {}
    BY <2>1 DEF NoJob
  <2>4. MemInv'
    <3>1. CASE job.st = "failed"
      BY <2>1, <2>3, <3>1 DEF MemInv, Mapped
    <3>2. CASE job.st # "failed"
      <4>1. /\ DOMAIN mem' = {"hash", "index", "gc", "copy"}
            /\ mem'.gc = {} /\ mem'.index = disk.index
        BY <2>1, <3>2, Zenon DEF NoMem
      <4> QED BY <2>1, <2>2, <2>3, <4>1 DEF MemInv, DiskInv, Mapped
    <3> QED BY <3>1, <3>2
  <2>5. QuietInv'
    <3>1. ASSUME ~event, job.st = "built" PROVE Built
      <4>1. disk.index = scan_assets /\ disk.elf = Image(src.code.v, Present(src.asset))
        BY <3>1, builtFacts
      <4>2. ASSUME NEW a \in DOMAIN disk.index
            PROVE [name |-> a, fp |-> disk.index[a], v |-> disk.index[a]] \in disk.staged
        <5>1. PICK f \in disk.staged : f.name = a /\ f.fp = disk.index[a]
          BY DEF DiskInv, Staged
        <5>2. disk.index[a] = src.asset[a].v
          BY <4>1 DEF scan_assets
        <5>3. f.v = f.fp
          BY <5>1, <5>2 DEF DiskInv
        <5>4. f = [name |-> f.name, fp |-> f.fp, v |-> f.v]
          BY DEF DiskInv
        <5> QED BY <5>1, <5>3, <5>4
      <4> QED BY <4>1, <4>2 DEF Built
    <3>2. Built' <=> Built
      BY <2>1, sameSources DEF Built
    <3> QED BY <2>1, <3>1, <3>2 DEF QuietInv
  <2> QED BY <2>2, <2>4, <2>5
<1> QED BY <1>1, <1>2, <1>3, <1>4

\* Steps that leave the devtool alone.
LEMMA loopSame ==
  ASSUME LoopInv, UNCHANGED <<bvars, wvars>>
  PROVE LoopInv'
<1>1. UNCHANGED <<src, edits, disk, rec, job, event, pc, mem>>
  BY DEF bvars, wvars
<1>2. /\ \A u : Between(u)' <=> Between(u)
      /\ \A i : Reached(i)' <=> Reached(i)
      /\ \A m : Mapped(m)' <=> Mapped(m)
      /\ \A a, fp : Staged(a, fp)' <=> Staged(a, fp)
      /\ Built' <=> Built
  <2>1. (\A u : Between(u)' <=> Between(u)) /\ (\A i : Reached(i)' <=> Reached(i))
    BY <1>1 DEF Between, Reached
  <2>2. (\A m : Mapped(m)' <=> Mapped(m)) /\ (\A a, fp : Staged(a, fp)' <=> Staged(a, fp))
    BY <1>1 DEF Mapped, Staged
  <2>3. Built' <=> Built
    BY <1>1, sameSources DEF Built
  <2> QED BY <2>1, <2>2, <2>3
<1>3. SourceInv'
  BY <1>1 DEF LoopInv, SourceInv
<1>4. DiskInv'
  BY <1>1, <1>2, Zenon DEF LoopInv, DiskInv
<1>5. RecordInv'
  BY <1>1, <1>2, Zenon DEF LoopInv, RecordInv
<1>6. MemInv'
  BY <1>1, <1>2, Zenon DEF LoopInv, MemInv
<1>7. /\ scan_assets' = scan_assets /\ Buildable' = Buildable
      /\ Present(src.asset)' = Present(src.asset)
  BY <1>1, sameSources
<1>8. JobInv'
  BY <1>1, <1>2, <1>7, Zenon DEF LoopInv, JobInv
<1>9. QuietInv'
  <2>1. QuietInv
    BY Zenon DEF LoopInv
  <2> QED BY <1>1, <1>2, <1>7, <2>1, Zenon DEF QuietInv
<1> QED BY <1>3, <1>4, <1>5, <1>6, <1>8, <1>9, Zenon DEF LoopInv

\* The fields of a source file.
LEMMA fileFacts ==
  \A f, v, t, ok : f = File(v, t, ok) => DOMAIN f = {"v", "t", "ok"} /\ f.v = v /\ f.t = t
BY DEF File

\* A project with one asset, built.
LEMMA LoopInit ==
  ASSUME Init
  PROVE LoopInv
<1> DEFINE A == Assets[1]
<1>0. 1 \in DOMAIN Assets /\ A \in Names
  BY SourcesAreNamed DEF Names
<1> HIDE DEF A
<1>y. PICK y : y = TRUE
  BY Zenon
<1>1. /\ src = [code |-> File(1, 0, y), asset |-> [a \in Names |-> File(IF a = A THEN 1 ELSE 0, 0, y)]]
      /\ edits = 0 /\ event = FALSE /\ pc = "idle" /\ job = [NoJob EXCEPT !.plan = Plan0]
      /\ mem = [NoMem EXCEPT !.hash = disk.elf, !.index = disk.index]
      /\ rec = [t \in {A} \cup StepNames |-> Inputs(t)]
  BY <1>y DEF Init, BuildInit, A
<1>2. disk = [staged |-> {[name |-> A, fp |-> 1, v |-> 1]}, index |-> Plan0,
              hdr |-> {A}, obj |-> Image(1, {A}), raw |-> Image(1, {A}), elf |-> Image(1, {A})]
  BY DEF Init, BuildInit, A
<1>3. DOMAIN Plan0 = {A} /\ Plan0[A] = 1
  BY DEF Plan0, A
<1>4. job.st = "none" /\ job.plan = Plan0 /\ DOMAIN job = {"st", "plan", "at"}
  BY <1>1 DEF NoJob
<1>5. /\ DOMAIN src = {"code", "asset"} /\ src.code = File(1, 0, y) /\ DOMAIN src.asset = Names
      /\ \A a \in Names : src.asset[a] = File(IF a = A THEN 1 ELSE 0, 0, y)
  BY <1>1
<1>6. /\ DOMAIN src.code = {"v", "t", "ok"} /\ src.code.v = 1 /\ src.code.t = 0
      /\ \A a \in Names : /\ DOMAIN src.asset[a] = {"v", "t", "ok"} /\ src.asset[a].t = 0
                          /\ src.asset[a].v = IF a = A THEN 1 ELSE 0
  <2>1. DOMAIN src.code = {"v", "t", "ok"} /\ src.code.v = 1 /\ src.code.t = 0
    BY <1>5, fileFacts
  <2>2. ASSUME NEW a \in Names
        PROVE /\ DOMAIN src.asset[a] = {"v", "t", "ok"} /\ src.asset[a].t = 0
              /\ src.asset[a].v = IF a = A THEN 1 ELSE 0
    <3> DEFINE v == IF a = A THEN 1 ELSE 0
    <3> HIDE DEF v
    <3>1. src.asset[a] = File(v, 0, y)
      BY <1>5, Zenon DEF v
    <3>2. DOMAIN src.asset[a] = {"v", "t", "ok"} /\ src.asset[a].t = 0 /\ src.asset[a].v = v
      BY <3>1, fileFacts
    <3> QED BY <3>2 DEF v
  <2> QED BY <2>1, <2>2
<1>7. SourceInv
  <2>1. 0 \in 0 .. edits /\ 0 + 1 = 1 /\ edits \in Nat
    BY <1>1
  <2>2. \A a \in Names : src.asset[a].v \in {0, 1}
    BY <1>6
  <2> QED BY <1>5, <1>6, <2>1, <2>2 DEF SourceInv
<1>8. /\ DOMAIN disk = {"staged", "index", "hdr", "obj", "raw", "elf"}
      /\ disk.staged = {[name |-> A, fp |-> 1, v |-> 1]} /\ disk.index = Plan0 /\ disk.hdr = {A}
      /\ disk.obj = Image(1, {A}) /\ disk.raw = Image(1, {A}) /\ disk.elf = Image(1, {A})
  BY <1>2
<1>9. Mapped(Plan0)
  BY <1>0, <1>1, <1>3 DEF Mapped
<1>10. DiskInv
  BY <1>0, <1>1, <1>3, <1>6, <1>8, <1>9 DEF DiskInv, Staged
<1>11. (\A u : ~Between(u)) /\ (\A i : ~Reached(i))
  BY <1>4 DEF Between, Reached
<1>12. JobInv
  BY <1>1, <1>4, <1>9, <1>11 DEF JobInv
<1>13. /\ mem.index = Plan0 /\ mem.gc = {} /\ DOMAIN mem = {"hash", "index", "gc", "copy"}
  BY <1>1, <1>8, Zenon DEF NoMem
<1>14. MemInv
  BY <1>3, <1>4, <1>8, <1>9, <1>13, Zenon DEF MemInv
<1>15. RecordInv
  <2>1. rec[A] = [source |-> [v |-> 1, t |-> 0]]
    <3>1. Inputs(A) = [source |-> file_meta(src.asset[A])]
      BY <1>0, inputFacts
    <3> QED BY <1>0, <1>1, <1>6, <3>1 DEF file_meta
  <2>2. /\ rec["index"] = [plan |-> Stamp(Plan0)] /\ rec["headers"] = [plan |-> Stamp(DOMAIN Plan0)]
        /\ rec["compile"] = [source |-> [v |-> 1, t |-> 0], header |-> Stamp(disk.hdr)]
        /\ rec["link"] = [object |-> Stamp(disk.obj)] /\ rec["elf"] = [raw |-> Stamp(disk.raw)]
    BY <1>1, <1>4, <1>6, stepNames, inputFacts DEF file_meta, compile_inputs
  <2>3. Names \cap DOMAIN rec = {A} /\ DOMAIN rec = {A} \cup StepNames
    BY <1>0, <1>1, SourcesAreNamed
  <2>4. \E t \in 0 .. edits, h \in SUBSET Names :
          /\ rec["compile"] = [source |-> [v |-> t + 1, t |-> t], header |-> Stamp(h)]
          /\ disk.obj = Image(t + 1, h)
    <3>1. 0 \in 0 .. edits /\ {A} \in SUBSET Names /\ 0 + 1 = 1
      BY <1>0, <1>1
    <3> QED BY <1>8, <2>2, <3>1, Zenon
  <2>5. \A a \in Names \cap DOMAIN rec :
          \E t \in 0 .. edits : rec[a] = [source |-> [v |-> t + 1, t |-> t]]
    <3>1. 0 \in 0 .. edits /\ 0 + 1 = 1
      BY <1>1
    <3> QED BY <2>1, <2>3, <3>1
  <2> QED BY <1>0, <1>3, <1>8, <2>2, <2>3, <2>4, <2>5 DEF RecordInv
<1>16. QuietInv
  <2>1. Present(src.asset) = {A}
    BY <1>0, <1>6 DEF Present
  <2>2. scan_assets = Plan0
    BY <1>0, <1>6, <2>1 DEF scan_assets, Plan0, A
  <2>3. Built
    BY <1>3, <1>6, <1>8, <2>1, <2>2 DEF Built
  <2> QED BY <1>1, <2>3 DEF QuietInv
<1> QED BY <1>7, <1>10, <1>12, <1>14, <1>15, <1>16 DEF LoopInv

\* Every step of the loop keeps the invariant.
LEMMA LoopNext ==
  ASSUME LoopInv, ~Reverts, ~EditsInTask, ~KillsInTask, [Next]_vars
  PROVE LoopInv'
<1>1. CASE Edit
  BY <1>1, EditKeeps
<1>2. CASE Crash \/ Start \/ Wake \/ Boots
  BY <1>2, LifeKeeps
<1>3. CASE Build
  BY <1>3, BuildKeeps
<1>4. CASE BuildFails
  BY <1>4, FailKeeps
<1>5. CASE SignalAssets \/ SignalReload
  BY <1>5, SignalsKeep
<1>6. CASE Gc
  BY <1>6, GcKeeps
<1>7. CASE \E c \in Players : Load(c) \/ Connect(c) \/ Quit(c) \/ Handle(c)
  BY <1>7, loopSame, Zenon DEF Load, Connect, Quit, Handle
<1>8. CASE UNCHANGED vars
  BY <1>8, loopSame DEF vars, bvars, wvars
<1> QED BY <1>1, <1>2, <1>3, <1>4, <1>5, <1>6, <1>7, <1>8 DEF Next

\* The loop's invariant always holds.
LEMMA LoopAlways ==
  ASSUME ~Reverts, ~EditsInTask, ~KillsInTask
  PROVE Spec => []LoopInv
<1>1. Init => LoopInv
  BY LoopInit
<1>2. LoopInv /\ [Next]_vars => LoopInv'
  BY LoopNext
<1> QED BY <1>1, <1>2, PTL DEF Spec

(* ------------------------------- the image ------------------------------ *)

\* What a finished build's ELF was compiled from.
LEMMA elfFacts ==
  ASSUME LoopInv, job.st = "built"
  PROVE disk.elf \in Compiled /\ (UsesIds => disk.elf.ids = DOMAIN disk.index)
<1>1. \A i : Reached(i)
  BY DEF Reached
<1>2. disk.elf = disk.obj
  BY <1>1 DEF LoopInv, JobInv
<1>3. ~Between("compile")
  BY DEF Between
<1>4. PICK t \in 0 .. edits, h \in SUBSET Names : disk.obj = Image(t + 1, h)
  BY <1>3, Zenon DEF LoopInv, RecordInv
<1>5. t + 1 \in Nat \ {0}
  BY DEF LoopInv, SourceInv
<1>6. PICK g : g \in SUBSET Names /\ Image(t + 1, h) = [code |-> t + 1, ids |-> g]
  BY DEF Image
<1>7. disk.elf \in Compiled
  BY <1>2, <1>4, <1>5, <1>6 DEF Compiled
<1>8. UsesIds => Image(0, DOMAIN disk.index).ids = DOMAIN disk.index
  BY Zenon DEF Image
<1> QED BY <1>7, <1>8, builtFacts

\* A reload always has a new image to send.
LEMMA ImageNext ==
  ASSUME LoopInv, ImageInv, Debug => UsesIds, [Next]_vars
  PROVE ImageInv'
<1> USE DEF ImageInv
<1>0. NoImage \notin Compiled
  BY DEF NoImage, Compiled
<1>m. DOMAIN mem = {"hash", "index", "gc", "copy"}
  BY DEF LoopInv, MemInv
<1>1. CASE Edit
  BY <1>1 DEF Edit
<1>2. CASE Crash
  BY <1>2 DEF Crash, NoMem
<1>3. CASE Wake \/ Start \/ BuildFails
  BY <1>3 DEF Wake, Start, BuildFails
<1>4. CASE Build
  <2>1. pc \in {"build", "boot"} /\ pc' = pc /\ mem' = mem
    BY <1>4 DEF Build, RunTask, RecordTask, LoopInv, JobInv
  <2> QED BY <2>1
<1>5. CASE Boots
  <2>1. CASE job.st = "failed"
    BY <1>5, <2>1 DEF Boots
  <2>2. CASE job.st = "built"
    <3>1. /\ pc' = "idle" /\ mem' = [NoMem EXCEPT !.hash = disk.elf, !.index = disk.index]
          /\ UNCHANGED disk
      BY <1>5, <2>2 DEF Boots
    <3>2. mem'.hash = disk.elf /\ mem'.index = disk.index /\ mem'.copy = NoImage
      BY <3>1 DEF NoMem
    <3> QED BY <2>2, <3>1, <3>2, elfFacts
  <2> QED BY <1>5, <2>1, <2>2 DEF Boots
<1>6. CASE SignalAssets
  <2>1. /\ pc = "build" /\ job.st = "built" /\ pc' = IF Signals.reload THEN "reload" ELSE "gc"
        /\ mem' = [mem EXCEPT !.hash = disk.elf] /\ UNCHANGED disk
    BY <1>6 DEF SignalAssets
  <2>2. mem'.hash = disk.elf /\ mem'.copy = mem.copy
    BY <1>m, <2>1
  <2>3. disk.elf \in Compiled /\ (Debug => disk.elf.ids = DOMAIN disk.index)
    BY <2>1, elfFacts
  <2>4. Signals.reload => disk.elf # mem.hash \/ DOMAIN mem.index # DOMAIN disk.index
    BY Zenon DEF Signals, dispatch_signals
  <2>5. ~Signals.reload => disk.elf = mem.hash
    BY Zenon DEF Signals, dispatch_signals
  <2>6. Debug /\ Signals.reload => mem.copy # disk.elf
    BY <1>0, <2>1, <2>3, <2>4
  <2>7. pc' \in {"reload", "gc"} /\ (pc' = "reload" => Signals.reload) /\ (pc' = "gc" => ~Signals.reload)
    BY <2>1
  <2> QED BY <2>1, <2>2, <2>3, <2>5, <2>6, <2>7
<1>7. CASE SignalReload
  <2>1. CASE Debug
    <3>1. pc = "reload" /\ pc' = "gc" /\ mem' = [mem EXCEPT !.copy = disk.elf] /\ UNCHANGED disk
      BY <1>7, <2>1 DEF SignalReload
    <3>2. mem'.hash = mem.hash /\ mem'.copy = disk.elf
      BY <1>m, <3>1
    <3> QED BY <2>1, <3>1, <3>2
  <2>2. CASE ~Debug
    BY <1>7, <2>2 DEF SignalReload
  <2> QED BY <2>1, <2>2
<1>8. CASE Gc
  <2>1. /\ pc = "gc" /\ pc' = "idle"
        /\ mem' = [mem EXCEPT !.gc = Collect.wait, !.index = disk.index]
    BY <1>8 DEF Gc
  <2>2. mem'.hash = mem.hash /\ mem'.copy = mem.copy /\ mem'.index = disk.index
    BY <1>m, <2>1
  <2>3. Debug => disk.elf.ids = DOMAIN disk.index
    BY <2>1 DEF LoopInv, QuietInv, Image
  <2> QED BY <2>1, <2>2, <2>3
<1>9. CASE \E c \in Players : Load(c) \/ Connect(c) \/ Quit(c) \/ Handle(c)
  BY <1>9, Zenon DEF Load, Connect, Quit, Handle, bvars, wvars
<1>10. CASE UNCHANGED vars
  BY <1>10 DEF vars
<1> QED BY <1>1, <1>2, <1>3, <1>4, <1>5, <1>6, <1>7, <1>8, <1>9, <1>10 DEF Next

(* ------------------------------ the players ----------------------------- *)

\* A line of the hub.
LEMMA lineFacts ==
  ASSUME NEW k \in {"update_assets", "reload"}, NEW p \in Compiled \cup {NoImage}, NEW b \in BOOLEAN
  PROVE Msg(k, p, b) \in Lines /\ Msg(k, p, b).path = p /\ Msg(k, p, b).cmd = k
<1>1. Msg(k, p, b) \in Lines
  BY DEF Lines, Msg
<1> QED BY <1>1 DEF Msg

\* An inbox a line is added to, or its first line taken from.
LEMMA inboxFacts ==
  ASSUME NEW S, NEW q \in Seq(S)
  PROVE /\ \A m \in S : /\ Append(q, m) \in Seq(S)
                        /\ DOMAIN Append(q, m) = 1 .. Len(q) + 1 /\ Append(q, m)[Len(q) + 1] = m
                        /\ \A i \in DOMAIN q : i \in DOMAIN Append(q, m) /\ Append(q, m)[i] = q[i]
        /\ q # << >> => /\ Tail(q) \in Seq(S) /\ Head(q) \in S /\ Head(q) = q[1]
                        /\ \A i \in DOMAIN q : i # 1 => i - 1 \in DOMAIN Tail(q) /\ Tail(q)[i - 1] = q[i]
OBVIOUS

\* A player without a cart.
LEMMA offFacts == DOMAIN Off = Fields /\ Off.st = "off" /\ Off.inbox = << >>
BY DEF Off, Fields

\* A table loaded from the index names staged files that no collection under
\* way or to come drops.
LEMMA loadedFacts ==
  ASSUME LoopInv
  PROVE LET K == {[name |-> a, fp |-> load_from_index[a].fp] : a \in DOMAIN load_from_index}
        IN /\ K \cap mem.gc = {} /\ K \cap Gone = {}
           /\ \A a \in DOMAIN load_from_index : Staged(a, load_from_index[a].fp)
<1> DEFINE K == {[name |-> a, fp |-> load_from_index[a].fp] : a \in DOMAIN load_from_index}
<1>1. ASSUME NEW a \in DOMAIN load_from_index
      PROVE a \in DOMAIN disk.index /\ Staged(a, disk.index[a]) /\ load_from_index[a].fp = disk.index[a]
  <2>1. a \in DOMAIN disk.index /\ Staged(a, disk.index[a])
    BY DEF load_from_index
  <2>2. load_from_index[a] = CHOOSE f \in disk.staged : f.name = a /\ f.fp = disk.index[a]
    BY <2>1 DEF load_from_index
  <2>3. \E f \in disk.staged : f.name = a /\ f.fp = disk.index[a]
    BY <2>1 DEF Staged
  <2> QED BY <2>1, <2>2, <2>3
<1>2. \A k \in K : k.name \in DOMAIN disk.index /\ k.fp = disk.index[k.name]
  BY <1>1
<1>3. \A g \in mem.gc : g.name \in DOMAIN disk.index => g.fp # disk.index[g.name]
  BY DEF LoopInv, MemInv
<1>4. \A g \in Gone : g.name \in DOMAIN disk.index => g.fp # disk.index[g.name]
  BY DEF Gone, superseded
<1> HIDE DEF K
<1>5. K \cap mem.gc = {} /\ K \cap Gone = {}
  BY <1>2, <1>3, <1>4, Zenon
<1> QED BY <1>1, <1>5 DEF K

\* What a player's part of the invariant reads.
LEMMA samePlayer ==
  ASSUME NEW c \in Players, PlayerInv(c), pl'[c] = pl[c], mem'.gc = mem.gc, copies' = copies,
         pc' \in {"reload", "gc"} => pc' = pc /\ Gone' = Gone, pc \in {"reload", "gc"} => pc' = pc,
         \A a, fp : Staged(a, fp) => Staged(a, fp)'
  PROVE PlayerInv(c)'
<1>1. Keys(c)' = Keys(c) /\ (Told(c)' <=> Told(c))
  BY Zenon DEF Keys, Told
<1> QED BY <1>1 DEF PlayerInv

\* A player that has just loaded its table.
LEMMA freshPlayer ==
  ASSUME LoopInv, NEW c \in Players, DOMAIN pl'[c] = Fields, pl'[c].st \in {"loaded", "on"},
         pl'[c].inbox \in Seq(Lines), pl'[c].st # "on" => pl'[c].inbox = << >>,
         pl'[c].tab = load_from_index, UNCHANGED <<bvars, wvars>>
  PROVE PlayerInv(c)'
<1> DEFINE K == {[name |-> a, fp |-> load_from_index[a].fp] : a \in DOMAIN load_from_index}
<1>1. Keys(c)' = K
  BY DEF Keys
<1>2. K \cap mem.gc = {} /\ K \cap Gone = {}
  BY loadedFacts
<1> HIDE DEF K
<1>3. UNCHANGED <<disk, mem, pc>> /\ Gone' = Gone
  BY DEF bvars, wvars, Gone, superseded
<1>4. (\A a \in DOMAIN pl[c].tab : Staged(a, pl[c].tab[a].fp))'
  <2>1. \A a \in DOMAIN load_from_index : Staged(a, load_from_index[a].fp)
    BY loadedFacts
  <2> QED BY <1>3, <2>1 DEF Staged
<1> QED BY <1>1, <1>2, <1>3, <1>4, Zenon DEF PlayerInv

\* A player that is off.
LEMMA offPlayer ==
  ASSUME NEW c \in Players, pl'[c] = Off
  PROVE PlayerInv(c)'
<1>1. << >> \in Seq(Lines)
  OBVIOUS
<1> QED BY <1>1, offFacts DEF PlayerInv

\* A line more keeps what a player was told.
LEMMA tellsMore ==
  ASSUME NEW c \in Players, PlayerInv(c), NEW m \in Lines, UNCHANGED <<bvars, wvars>>,
         pl[c].st = "on", pl'[c] = [pl[c] EXCEPT !.inbox = Append(@, m)]
  PROVE PlayerInv(c)'
<1>1. /\ DOMAIN pl'[c] = Fields /\ pl'[c].st = pl[c].st /\ pl'[c].tab = pl[c].tab
      /\ pl'[c].missed = pl[c].missed /\ pl'[c].behind = pl[c].behind
      /\ pl'[c].inbox = Append(pl[c].inbox, m)
  BY DEF PlayerInv, Fields
<1>2. UNCHANGED <<disk, mem, pc, copies>> /\ Gone' = Gone /\ Keys(c)' = Keys(c)
  BY <1>1 DEF bvars, wvars, Gone, superseded, Keys
<1>3. pl[c].inbox \in Seq(Lines)
  BY DEF PlayerInv
<1>4. pl'[c].inbox \in Seq(Lines) /\ (Told(c) => Told(c)')
  BY <1>1, <1>2, <1>3, inboxFacts DEF Told
<1>5. \A a \in DOMAIN pl[c].tab : Staged(a, pl[c].tab[a].fp)' <=> Staged(a, pl[c].tab[a].fp)
  BY <1>2 DEF Staged
<1> QED BY <1>1, <1>2, <1>4, <1>5 DEF PlayerInv

\* A build only adds to the staged files.
LEMMA stagedGrows ==
  ASSUME LoopInv, Build
  PROVE \A a, fp : Staged(a, fp) => Staged(a, fp)'
<1>1. UNCHANGED disk \/ (job.st = "check" /\ disk' = Output(Tasks[job.at]))
  BY DEF Build, RunTask, RecordTask
<1>2. CASE UNCHANGED disk
  BY <1>2 DEF Staged
<1>3. CASE job.st = "check" /\ disk' = Output(Tasks[job.at])
  <2>1. PICK t : t = Tasks[job.at]
    OBVIOUS
  <2>2. t \in Names \cup StepNames
    <3>1. Planned(job.plan, job.at)
      BY <1>3 DEF LoopInv, JobInv
    <3>2. DOMAIN job.plan \subseteq Names
      BY DEF LoopInv, JobInv, Mapped
    <3> QED BY <2>1, <3>1, <3>2, Zenon DEF Planned
  <2>3. disk' = Output(t) /\ DOMAIN disk = {"staged", "index", "hdr", "obj", "raw", "elf"}
    BY <1>3, <2>1 DEF LoopInv, DiskInv
  <2>4. CASE t \in Names
    <3>1. disk'.staged = {f \in disk.staged : ~(f.name = t /\ f.fp = job.plan[t])}
                           \cup {[name |-> t, fp |-> job.plan[t], v |-> src.asset[t].v]}
      <4>1. Output(t) = AssetTask(t)
        BY <2>4, taskFacts DEF Output
      <4> QED BY <2>3, <4>1 DEF AssetTask
    <3>2. ASSUME NEW a, NEW fp, Staged(a, fp) PROVE Staged(a, fp)'
      <4>1. PICK f \in disk.staged : f.name = a /\ f.fp = fp
        BY <3>2 DEF Staged
      <4>2. CASE f.name = t /\ f.fp = job.plan[t]
        <5>1. [name |-> t, fp |-> job.plan[t], v |-> src.asset[t].v] \in disk'.staged
          BY <3>1
        <5> QED BY <4>1, <4>2, <5>1 DEF Staged
      <4>3. CASE ~(f.name = t /\ f.fp = job.plan[t])
        <5>1. f \in disk'.staged
          BY <3>1, <4>3
        <5> QED BY <4>1, <5>1 DEF Staged
      <4> QED BY <4>2, <4>3
    <3> QED BY <3>2
  <2>5. CASE t \notin Names
    <3>1. t \in {"index", "headers", "compile", "link", "elf"}
      BY <2>2, <2>5, stepNames
    <3>2. disk'.staged = disk.staged
      BY <2>3, <2>5, <3>1 DEF Output, WriteResourceIndexTask, GenerateResourceHeadersTask,
         CompileCTask, LinkElfTask, DevElfTask
    <3> QED BY <3>2 DEF Staged
  <2> QED BY <2>4, <2>5
<1> QED BY <1>1, <1>2, <1>3

\* A round of signals marks a player that has lines left of an earlier one.
LEMMA agedFacts ==
  ASSUME NEW r, DOMAIN r = Fields
  PROVE LET n == [r EXCEPT !.behind = @ \/ r.inbox # << >>]
        IN /\ DOMAIN n = Fields /\ n.st = r.st /\ n.tab = r.tab /\ n.inbox = r.inbox
           /\ n.missed = r.missed /\ (n.behind <=> (r.behind \/ r.inbox # << >>))
BY Zenon DEF Fields

\* A player that misses a signal.
LEMMA missedFacts ==
  ASSUME NEW r, DOMAIN r = Fields
  PROVE LET n == [r EXCEPT !.missed = TRUE]
        IN /\ DOMAIN n = Fields /\ n.st = r.st /\ n.tab = r.tab /\ n.inbox = r.inbox
           /\ n.missed
BY Zenon DEF Fields

\* No signal, no file superseded.
LEMMA quietFacts ==
  ASSUME Signals.assets = {}, ~Signals.reload
  PROVE Gone = {}
<1>1. DOMAIN mem.index = DOMAIN disk.index
  BY Zenon DEF Signals, dispatch_signals
<1>2. Signals.assets = {a \in DOMAIN disk.index : mem.index[a] # disk.index[a]}
  BY <1>1 DEF Signals, dispatch_signals
<1> QED BY <1>1, <1>2 DEF Gone, superseded

\* A finished build's signals reach the players that are on the hub.
LEMMA SignalAssetsTells ==
  ASSUME LoopInv, PlayersInv, SignalAssets
  PROVE PlayersInv'
<1> DEFINE aged == [c \in Players |-> [pl[c] EXCEPT !.behind = @ \/ pl[c].inbox # << >>]]
           heard == IF Signals.assets # {} \/ Signals.reload THEN Unheard(aged) ELSE aged
           m == Msg("update_assets", NoImage, FALSE)
<1>1. /\ pc = "build" /\ pc' = IF Signals.reload THEN "reload" ELSE "gc"
      /\ mem' = [mem EXCEPT !.hash = disk.elf] /\ UNCHANGED <<disk, copies>>
  BY DEF SignalAssets
<1>2. pl' = IF Signals.assets = {} THEN heard ELSE broadcast(heard, "hub", m)
  BY DEF SignalAssets
<1>3. mem'.gc = mem.gc /\ Gone' = Gone
  BY <1>1 DEF LoopInv, MemInv, Gone, superseded
<1>4. m \in Lines /\ m.path = NoImage
  BY lineFacts, Zenon
<1> HIDE DEF m
<1>5. ASSUME NEW c \in Players
      PROVE /\ DOMAIN aged[c] = Fields /\ aged[c].st = pl[c].st /\ aged[c].tab = pl[c].tab
            /\ aged[c].inbox = pl[c].inbox /\ aged[c].missed = pl[c].missed
            /\ aged[c].behind <=> (pl[c].behind \/ pl[c].inbox # << >>)
  <2>1. DOMAIN pl[c] = Fields
    BY DEF PlayersInv, PlayerInv
  <2>2. aged[c] = [pl[c] EXCEPT !.behind = @ \/ pl[c].inbox # << >>]
    BY Zenon
  <2> QED BY <2>1, <2>2, agedFacts, Zenon
<1>6. DOMAIN aged = Players
  BY Zenon
<1> HIDE DEF aged
<1>7. ASSUME NEW c \in Players
      PROVE /\ DOMAIN heard[c] = Fields /\ heard[c].st = pl[c].st /\ heard[c].tab = pl[c].tab
            /\ heard[c].inbox = pl[c].inbox
            /\ pl[c].st = "on" => heard[c].missed = pl[c].missed
                                  /\ (heard[c].behind <=> (pl[c].behind \/ pl[c].inbox # << >>))
            /\ pl[c].st = "loaded" /\ (Signals.assets # {} \/ Signals.reload) => heard[c].missed
            /\ pl[c].st = "loaded" /\ ~(Signals.assets # {} \/ Signals.reload)
                 => heard[c].missed = pl[c].missed /\ (heard[c].behind <=> (pl[c].behind \/ pl[c].inbox # << >>))
  <2>1. CASE ~(Signals.assets # {} \/ Signals.reload)
    <3>1. heard = aged
      BY <2>1, Zenon
    <3> QED BY <1>5, <2>1, <3>1, Zenon
  <2>2. CASE Signals.assets # {} \/ Signals.reload
    <3>1. heard[c] = IF aged[c].st = "loaded" THEN [aged[c] EXCEPT !.missed = TRUE] ELSE aged[c]
      BY <2>2, Zenon DEF Unheard
    <3>2. CASE aged[c].st = "loaded"
      <4>1. heard[c] = [aged[c] EXCEPT !.missed = TRUE]
        BY <3>1, <3>2, Zenon
      <4>2. DOMAIN aged[c] = Fields
        BY <1>5
      <4>3. /\ DOMAIN heard[c] = Fields /\ heard[c].st = aged[c].st /\ heard[c].tab = aged[c].tab
            /\ heard[c].inbox = aged[c].inbox /\ heard[c].missed
        BY <4>1, <4>2, missedFacts, Zenon
      <4> QED BY <1>5, <2>2, <3>2, <4>3
    <3>3. CASE aged[c].st # "loaded"
      <4>1. heard[c] = aged[c]
        BY <3>1, <3>3, Zenon
      <4> QED BY <1>5, <3>3, <4>1
    <3> QED BY <3>2, <3>3, Zenon
  <2> QED BY <2>1, <2>2, Zenon
<1>8. DOMAIN heard = Players
  BY <1>6, Zenon DEF Unheard
<1> HIDE DEF heard
<1>9. DOMAIN pl' = Players
  BY <1>2, <1>8, Zenon DEF broadcast
<1>10. ASSUME NEW c \in Players
       PROVE /\ DOMAIN pl'[c] = Fields /\ pl'[c].st = heard[c].st /\ pl'[c].tab = heard[c].tab
             /\ pl'[c].missed = heard[c].missed /\ pl'[c].behind = heard[c].behind
             /\ pl'[c].inbox = IF Signals.assets # {} /\ pl[c].st = "on" /\ c # "hub"
                               THEN Append(pl[c].inbox, m) ELSE pl[c].inbox
  <2>1. CASE Signals.assets = {}
    <3>1. pl'[c] = heard[c]
      BY <1>2, <2>1, Zenon
    <3> QED BY <1>7, <2>1, <3>1
  <2>2. CASE Signals.assets # {}
    <3>1. pl'[c] = IF heard[c].st = "on" /\ c # "hub"
                   THEN [heard[c] EXCEPT !.inbox = Append(@, m)] ELSE heard[c]
      BY <1>2, <2>2, Zenon DEF broadcast
    <3> QED BY <1>7, <2>2, <3>1 DEF Fields
  <2> QED BY <2>1, <2>2
<1>11. ASSUME NEW c \in Players PROVE PlayerInv(c)'
  <2>0. PlayerInv(c) /\ pl[c].inbox \in Seq(Lines) /\ pl[c].st \in {"off", "loaded", "on"}
    BY Zenon DEF PlayersInv, PlayerInv
  <2>1. Keys(c)' = Keys(c)
    BY <1>7, <1>10 DEF Keys
  <2>2. \A a, fp : Staged(a, fp)' <=> Staged(a, fp)
    BY <1>1 DEF Staged
  <2>3. /\ DOMAIN pl'[c] = Fields /\ pl'[c].st = pl[c].st /\ pl'[c].tab = pl[c].tab
        /\ pl'[c].inbox \in Seq(Lines) /\ (pl'[c].st # "on" => pl'[c].inbox = << >>)
    <3>1. Append(pl[c].inbox, m) \in Seq(Lines)
      BY <1>4, <2>0, inboxFacts, Zenon
    <3> QED BY <1>7, <1>10, <2>0, <3>1, Zenon DEF PlayerInv
  <2>4. CASE pl[c].st = "off"
    BY <2>3, <2>4 DEF PlayerInv
  <2>5. CASE pl[c].st = "loaded"
    <3>1. CASE Signals.assets # {} \/ Signals.reload
      BY <1>7, <1>10, <2>3, <2>5, <3>1 DEF PlayerInv
    <3>2. CASE ~(Signals.assets # {} \/ Signals.reload)
      <4>1. Gone = {}
        BY <3>2, quietFacts
      <4>2. pl'[c].missed = pl[c].missed /\ (~pl'[c].behind => ~pl[c].behind)
        BY <1>7, <1>10, <2>5, <3>2, Zenon
      <4> QED BY <1>1, <1>3, <2>0, <2>1, <2>2, <2>3, <2>5, <4>1, <4>2 DEF PlayerInv
    <3> QED BY <3>1, <3>2, Zenon
  <2>6. CASE pl[c].st = "on"
    <3>1. /\ pl'[c].missed = pl[c].missed
          /\ ~pl'[c].behind => ~pl[c].behind /\ pl[c].inbox = << >>
      BY <1>7, <1>10, <2>6
    <3>2. pl[c].inbox = << >> => ~Told(c)
      BY DEF Told
    <3>3. pc' = "gc" => Gone = {} \/ Told(c)'
      <4>1. CASE Signals.assets = {} /\ ~Signals.reload
        BY <4>1, quietFacts
      <4>2. CASE Signals.assets # {} /\ c # "hub"
        <5>1. pl'[c].inbox = Append(pl[c].inbox, m)
          BY <1>10, <2>6, <4>2, Zenon
        <5>2. Len(pl[c].inbox) + 1 \in DOMAIN pl'[c].inbox /\ pl'[c].inbox[Len(pl[c].inbox) + 1] = m
          BY <1>4, <2>0, <5>1, inboxFacts
        <5> QED BY <1>4, <5>2 DEF Told
      <4>3. CASE Signals.reload
        BY <1>1, <4>3
      <4>4. c # "hub"
        BY PlayersAreClients
      <4> QED BY <4>1, <4>2, <4>3, <4>4
    <3>4. ~pl'[c].missed /\ ~pl'[c].behind =>
            /\ pc' \in {"reload", "gc"} => Keys(c)' \cap mem'.gc = {}
            /\ pc' \notin {"reload", "gc"} => Keys(c)' \cap mem'.gc = {} \/ Told(c)'
            /\ pc' = "gc" => Keys(c)' \cap Gone' = {} \/ Told(c)'
      <4>1. ~pl[c].missed /\ ~pl[c].behind /\ ~Told(c) => Keys(c) \cap mem.gc = {}
        BY <2>0, <2>6, Zenon DEF PlayerInv
      <4> QED BY <1>1, <1>3, <2>1, <3>1, <3>2, <3>3, <4>1
    <3>5. ~pl'[c].missed /\ ~pl'[c].behind =>
            (\A a \in DOMAIN pl[c].tab : Staged(a, pl[c].tab[a].fp))'
      BY <2>0, <2>2, <2>3, <2>6, <3>1, Zenon DEF PlayerInv
    <3>6. pl'[c].st = "on"
      BY <2>3, <2>6, Zenon
    <3> QED BY <2>3, <3>4, <3>5, <3>6, onPlayer, Zenon
  <2> QED BY <2>0, <2>4, <2>5, <2>6, Zenon
<1> QED BY <1>9, <1>11 DEF PlayersInv

\* A reload is told to every player, with a path that is there to open.
LEMMA SignalReloadTells ==
  ASSUME LoopInv, ImageInv, PlayersInv, SignalReload
  PROVE PlayersInv'
<1>1. pc = "reload" /\ pc' = "gc" /\ UNCHANGED disk /\ disk.elf \in Compiled
      /\ (Debug => mem.copy # disk.elf)
  BY DEF SignalReload, ImageInv
<1>2. mem'.gc = mem.gc /\ mem'.index = mem.index
  BY Zenon DEF SignalReload, LoopInv, MemInv
<1>3. PICK p : /\ p \in Compiled \cup {NoImage} /\ p \in copies' \cup {NoImage}
               /\ pl' = broadcast(pl, "hub", Msg("reload", p, FALSE))
  BY <1>1, Zenon DEF SignalReload
<1>4. PICK m : m = Msg("reload", p, FALSE)
  BY Zenon
<1>5. m \in Lines /\ m.path = p
  BY <1>3, <1>4, lineFacts, Zenon
<1>6. pl' = broadcast(pl, "hub", m)
  BY <1>3, <1>4
<1>7. DOMAIN pl' = Players /\ Gone' = Gone
  BY <1>1, <1>2, <1>6 DEF broadcast, Gone, superseded
<1>8. \A a, fp : Staged(a, fp)' <=> Staged(a, fp)
  BY <1>1 DEF Staged
<1>9. ASSUME NEW c \in Players PROVE PlayerInv(c)'
  <2>0. PlayerInv(c) /\ pl[c].inbox \in Seq(Lines)
    BY DEF PlayersInv, PlayerInv
  <2>1. pl'[c] = IF pl[c].st = "on" /\ c # "hub" THEN [pl[c] EXCEPT !.inbox = Append(@, m)] ELSE pl[c]
    BY <1>6 DEF broadcast
  <2>2. CASE pl[c].st # "on"
    <3>1. pl'[c] = pl[c] /\ Keys(c)' = Keys(c)
      BY <2>1, <2>2 DEF Keys
    <3> QED BY <1>1, <1>2, <1>7, <1>8, <2>0, <2>2, <3>1, Zenon DEF PlayerInv
  <2>3. CASE pl[c].st = "on"
    <3>1. pl'[c] = [pl[c] EXCEPT !.inbox = Append(@, m)]
      BY <2>1, <2>3, PlayersAreClients
    <3>2. /\ DOMAIN pl'[c] = Fields /\ pl'[c].st = pl[c].st /\ pl'[c].tab = pl[c].tab
          /\ pl'[c].missed = pl[c].missed /\ pl'[c].behind = pl[c].behind
          /\ pl'[c].inbox = Append(pl[c].inbox, m)
      BY <2>0, <3>1 DEF PlayerInv, Fields
    <3>3. /\ pl'[c].inbox \in Seq(Lines) /\ Len(pl[c].inbox) + 1 \in DOMAIN pl'[c].inbox
          /\ pl'[c].inbox[Len(pl[c].inbox) + 1] = m
      BY <1>5, <2>0, <3>2, inboxFacts
    <3>4. Told(c)'
      BY <1>3, <1>5, <3>3, Zenon DEF Told
    <3>5. Keys(c)' = Keys(c)
      BY <3>2 DEF Keys
    <3>6. ~pl'[c].missed /\ ~pl'[c].behind =>
            (\A a \in DOMAIN pl[c].tab : Staged(a, pl[c].tab[a].fp))'
      BY <1>8, <2>0, <2>3, <3>2, Zenon DEF PlayerInv
    <3>7. ~pl'[c].missed /\ ~pl'[c].behind =>
            /\ pc' \in {"reload", "gc"} => Keys(c)' \cap mem'.gc = {}
            /\ pc' \notin {"reload", "gc"} => Keys(c)' \cap mem'.gc = {} \/ Told(c)'
            /\ pc' = "gc" => Keys(c)' \cap Gone' = {} \/ Told(c)'
      <4>1. ~pl[c].missed /\ ~pl[c].behind => Keys(c) \cap mem.gc = {}
        BY <1>1, <2>0, <2>3, Zenon DEF PlayerInv, SignalReload
      <4> QED BY <1>1, <1>2, <3>2, <3>4, <3>5, <4>1
    <3>8. pl'[c].st = "on"
      BY <2>3, <3>2
    <3> QED BY <3>2, <3>3, <3>6, <3>7, <3>8, onPlayer, Zenon
  <2> QED BY <2>2, <2>3
<1> QED BY <1>7, <1>9 DEF PlayersInv

\* A collection drops no file of a table one round old.
LEMMA GcSpares ==
  ASSUME LoopInv, PlayersInv, Gc
  PROVE PlayersInv'
<1> DEFINE S == {f \in disk.staged : [name |-> f.name, fp |-> f.fp] \notin mem.gc}
<1>1. /\ pc = "gc" /\ pc' = "idle" /\ UNCHANGED <<copies, pl>>
      /\ disk' = [disk EXCEPT !.staged = S]
      /\ mem' = [mem EXCEPT !.gc = Gone, !.index = disk.index]
  BY DEF Gc, Collect, Gone
<1>2. disk'.staged = S /\ mem'.gc = Gone
  BY <1>1 DEF LoopInv, DiskInv, MemInv
<1>3. ASSUME NEW c \in Players PROVE PlayerInv(c)'
  <2>0. PlayerInv(c)
    BY DEF PlayersInv
  <2>1. Keys(c)' = Keys(c) /\ (Told(c)' <=> Told(c))
    BY <1>1 DEF Keys, Told
  <2>2. ASSUME Keys(c) \cap mem.gc = {}, NEW a \in DOMAIN pl[c].tab, Staged(a, pl[c].tab[a].fp)
        PROVE Staged(a, pl[c].tab[a].fp)'
    <3>1. PICK f \in disk.staged : f.name = a /\ f.fp = pl[c].tab[a].fp
      BY <2>2, Zenon DEF Staged
    <3>2. [name |-> f.name, fp |-> f.fp] \in Keys(c)
      BY <2>2, <3>1, Zenon DEF Keys
    <3>3. f \in S
      BY <2>2, <3>2
    <3> QED BY <1>1, <1>2, <3>1, <3>3 DEF Staged
  <2>3. ASSUME pl[c].st \in {"loaded", "on"}, ~pl[c].missed, ~pl[c].behind
        PROVE \A a \in DOMAIN pl[c].tab : Staged(a, pl[c].tab[a].fp)'
    <3>1. Keys(c) \cap mem.gc = {}
      BY <1>1, <2>0, <2>3, Zenon DEF PlayerInv
    <3>2. \A a \in DOMAIN pl[c].tab : Staged(a, pl[c].tab[a].fp)
      BY <2>0, <2>3 DEF PlayerInv
    <3> QED BY <2>2, <3>1, <3>2
  <2> QED BY <1>1, <1>2, <2>0, <2>1, <2>3 DEF PlayerInv
<1> QED BY <1>1, <1>3 DEF PlayersInv

\* A player loads, dials in, quits, or handles a line while the others hear it.
LEMMA PlayersKeep ==
  ASSUME LoopInv, PlayersInv, NEW c \in Players, Load(c) \/ Connect(c) \/ Quit(c) \/ Handle(c)
  PROVE PlayersInv'
<1>0. DOMAIN pl = Players /\ PlayerInv(c) /\ DOMAIN pl[c] = Fields /\ pl[c].inbox \in Seq(Lines)
  BY Zenon DEF PlayersInv, PlayerInv
<1>1. UNCHANGED <<bvars, wvars>> /\ UNCHANGED <<disk, mem, pc, copies>>
  BY Zenon DEF Load, Connect, Quit, Handle, bvars, wvars
<1>2. Gone' = Gone /\ \A a, fp : Staged(a, fp)' <=> Staged(a, fp)
  BY <1>1, Zenon DEF Gone, superseded, Staged
<1>3. ASSUME NEW d \in Players, pl'[d] = pl[d] PROVE PlayerInv(d)'
  BY <1>1, <1>2, <1>3, samePlayer DEF PlayersInv
<1>4. CASE Load(c)
  <2>1. pl' = [pl EXCEPT ![c] = [Off EXCEPT !.st = "loaded", !.code = disk.elf, !.tab = load_from_index]]
    BY <1>4 DEF Load
  <2>2. /\ DOMAIN pl' = Players /\ \A d \in Players : d # c => pl'[d] = pl[d]
        /\ pl'[c] = [Off EXCEPT !.st = "loaded", !.code = disk.elf, !.tab = load_from_index]
    BY <1>0, <2>1
  <2>3. /\ DOMAIN pl'[c] = Fields /\ pl'[c].st = "loaded" /\ pl'[c].inbox = << >>
        /\ pl'[c].tab = load_from_index
    BY <2>2, offFacts DEF Fields
  <2>4. << >> \in Seq(Lines)
    OBVIOUS
  <2>5. PlayerInv(c)'
    BY <1>1, <2>3, <2>4, freshPlayer, Zenon
  <2> QED BY <1>3, <2>2, <2>5 DEF PlayersInv
<1>5. CASE Connect(c)
  <2>1. /\ pl[c].st = "loaded" /\ DOMAIN pl' = Players /\ \A d \in Players : d # c => pl'[d] = pl[d]
        /\ pl'[c] = [pl[c] EXCEPT !.st = "on"]
    BY <1>0, <1>5 DEF Connect
  <2>2. /\ DOMAIN pl'[c] = Fields /\ pl'[c].st = "on" /\ pl'[c].tab = pl[c].tab
        /\ pl'[c].missed = pl[c].missed /\ pl'[c].behind = pl[c].behind /\ pl'[c].inbox = pl[c].inbox
    BY <1>0, <2>1, Zenon DEF Fields
  <2>3. Keys(c)' = Keys(c)
    BY <2>2 DEF Keys
  <2>4. PlayerInv(c)'
    BY <1>0, <1>1, <1>2, <2>1, <2>2, <2>3 DEF PlayerInv
  <2> QED BY <1>3, <2>1, <2>4 DEF PlayersInv
<1>6. CASE Quit(c)
  <2>1. DOMAIN pl' = Players /\ pl'[c] = Off /\ \A d \in Players : d # c => pl'[d] = pl[d]
    BY <1>0, <1>6 DEF Quit
  <2> QED BY <1>3, <2>1, offPlayer DEF PlayersInv
<1>7. CASE Handle(c)
  <2> DEFINE h == Head(pl[c].inbox)
             q == Tail(pl[c].inbox)
             n == dev_ctrl_dispatch(c)
             e == [pl EXCEPT ![c] = n]
  <2>1. pl[c].st = "on" /\ pl[c].inbox # << >> /\ pl' = broadcast(e, c, Msg(h.cmd, NoImage, TRUE))
    BY <1>7 DEF Handle
  <2>2. h \in Lines /\ q \in Seq(Lines) /\ h = pl[c].inbox[1]
        /\ \A i \in DOMAIN pl[c].inbox : i # 1 => i - 1 \in DOMAIN q /\ q[i - 1] = pl[c].inbox[i]
    BY <1>0, <2>1, inboxFacts
  <2>3. h.cmd \in {"update_assets", "reload"}
    BY <2>2 DEF Lines
  <2>4. PICK m : m = Msg(h.cmd, NoImage, TRUE)
    BY Zenon
  <2>5. m \in Lines
    BY <2>3, <2>4, lineFacts, Zenon
  <2>6. DOMAIN e = Players /\ e[c] = n /\ \A d \in Players : d # c => e[d] = pl[d]
    BY <1>0, Zenon
  <2> HIDE DEF e
  <2>7. /\ DOMAIN pl' = Players /\ pl'[c] = n
        /\ \A d \in Players : d # c =>
             pl'[d] = IF pl[d].st = "on" THEN [pl[d] EXCEPT !.inbox = Append(@, m)] ELSE pl[d]
    BY <2>1, <2>4, <2>6, Zenon DEF broadcast
  <2>8. ASSUME NEW d \in Players, d # c PROVE PlayerInv(d)'
    <3>1. CASE pl[d].st = "on"
      <4>1. pl'[d] = [pl[d] EXCEPT !.inbox = Append(@, m)]
        BY <2>7, <2>8, <3>1
      <4>2. PlayerInv(d)
        BY DEF PlayersInv
      <4> QED BY <1>1, <2>5, <3>1, <4>1, <4>2, tellsMore
    <3>2. CASE pl[d].st # "on"
      BY <1>3, <2>7, <2>8, <3>2
    <3> QED BY <3>1, <3>2
  <2>9. PlayerInv(c)'
    <3> DEFINE r == [pl[c] EXCEPT !.inbox = q]
    <3>1. /\ DOMAIN r = Fields /\ r.st = "on" /\ r.inbox = q /\ r.tab = pl[c].tab
          /\ r.missed = pl[c].missed /\ r.behind = pl[c].behind
      BY <1>0, <2>1 DEF Fields
    <3> HIDE DEF r
    <3>2. CASE h.cmd # "update_assets" /\ h.path \notin copies \cup {NoImage}
      <4>1. pl'[c] = r
        BY <2>7, <3>2 DEF dev_ctrl_dispatch, r
      <4>2. Keys(c)' = Keys(c)
        BY <3>1, <4>1, Zenon DEF Keys
      <4>3. Told(c) => Told(c)'
        <5>1. SUFFICES ASSUME NEW i \in DOMAIN pl[c].inbox, pl[c].inbox[i].path \in copies \cup {NoImage}
                       PROVE Told(c)'
          BY Zenon DEF Told
        <5>2. i # 1
          BY <2>2, <3>2, <5>1
        <5> QED BY <1>1, <2>2, <3>1, <4>1, <5>1, <5>2, Zenon DEF Told
      <4> QED BY <1>0, <1>1, <1>2, <2>1, <2>2, <3>1, <4>1, <4>2, <4>3, Zenon DEF PlayerInv
    <3>3. CASE ~(h.cmd # "update_assets" /\ h.path \notin copies \cup {NoImage})
      <4>1. \/ pl'[c] = [r EXCEPT !.tab = load_from_index, !.behind = FALSE]
            \/ pl'[c] = [r EXCEPT !.tab = load_from_index, !.missed = FALSE, !.behind = FALSE,
                                  !.code = IF h.path = NoImage THEN disk.elf ELSE h.path]
        BY <2>7, <3>3, Zenon DEF dev_ctrl_dispatch, r
      <4>2. DOMAIN pl'[c] = Fields /\ pl'[c].st = "on" /\ pl'[c].inbox = q /\ pl'[c].tab = load_from_index
        BY <3>1, <4>1, Zenon DEF Fields
      <4> QED BY <1>1, <2>2, <4>2, freshPlayer, Zenon
    <3> QED BY <3>2, <3>3
  <2> QED BY <2>7, <2>8, <2>9, Zenon DEF PlayersInv
<1> QED BY <1>4, <1>5, <1>6, <1>7

\* Every step keeps what the players' part of the invariant says.
LEMMA PlayersNext ==
  ASSUME LoopInv, ImageInv, PlayersInv, [Next]_vars
  PROVE PlayersInv'
<1>0. DOMAIN mem = {"hash", "index", "gc", "copy"}
  BY DEF LoopInv, MemInv
<1>1. ASSUME UNCHANGED <<pl, mem, copies>>, pc \notin {"reload", "gc"}, pc' \notin {"reload", "gc"},
             \A a, fp : Staged(a, fp) => Staged(a, fp)'
      PROVE PlayersInv'
  BY <1>1, samePlayer DEF PlayersInv
<1>2. UNCHANGED disk => \A a, fp : Staged(a, fp) => Staged(a, fp)'
  BY DEF Staged
<1>3. CASE Edit
  <2>1. UNCHANGED <<pl, mem, copies, pc, disk>> /\ Gone' = Gone
    BY <1>3 DEF Edit, Gone, superseded
  <2> QED BY <1>2, <2>1, samePlayer DEF PlayersInv
<1>4. CASE Crash
  <2>1. DOMAIN pl' = Players /\ \A c \in Players : pl'[c] = Off
    BY <1>4 DEF Crash
  <2> QED BY <2>1, offPlayer DEF PlayersInv
<1>5. CASE Wake \/ Start \/ BuildFails
  BY <1>1, <1>2, <1>5 DEF Wake, Start, BuildFails
<1>6. CASE Build
  <2>1. pc \in {"build", "boot"} /\ UNCHANGED <<pc, pl, mem, copies>>
    BY <1>6 DEF Build, RunTask, RecordTask, LoopInv, JobInv
  <2> QED BY <1>1, <1>6, <2>1, stagedGrows
<1>7. CASE Boots
  <2>1. CASE job.st = "failed"
    BY <1>1, <1>2, <1>7, <2>1 DEF Boots
  <2>2. CASE job.st # "failed"
    <3>1. /\ pc = "boot" /\ pc' = "idle" /\ UNCHANGED <<disk, pl, copies>>
          /\ mem' = [NoMem EXCEPT !.hash = disk.elf, !.index = disk.index]
      BY <1>7, <2>2 DEF Boots
    <3>2. mem'.gc = {}
      BY <3>1 DEF NoMem
    <3>3. ASSUME NEW c \in Players PROVE PlayerInv(c)'
      <4>1. PlayerInv(c) /\ Keys(c)' = Keys(c) /\ \A a, fp : Staged(a, fp)' <=> Staged(a, fp)
        BY <3>1 DEF PlayersInv, Keys, Staged
      <4> QED BY <3>1, <3>2, <4>1 DEF PlayerInv
    <3> QED BY <3>1, <3>3 DEF PlayersInv
  <2> QED BY <2>1, <2>2
<1>8. CASE SignalAssets
  BY <1>8, SignalAssetsTells
<1>9. CASE SignalReload
  BY <1>9, SignalReloadTells
<1>10. CASE Gc
  BY <1>10, GcSpares
<1>11. CASE \E c \in Players : Load(c) \/ Connect(c) \/ Quit(c) \/ Handle(c)
  BY <1>11, PlayersKeep, Zenon
<1>12. CASE UNCHANGED vars
  <2>1. UNCHANGED <<pl, mem, copies, pc, disk>> /\ Gone' = Gone
    BY <1>12 DEF vars, Gone, superseded
  <2> QED BY <1>2, <2>1, samePlayer DEF PlayersInv
<1> QED BY <1>3, <1>4, <1>5, <1>6, <1>7, <1>8, <1>9, <1>10, <1>11, <1>12 DEF Next

\* At the start nothing has been signalled and no player runs.
LEMMA PlayersInit ==
  ASSUME Init, Debug => UsesIds
  PROVE ImageInv /\ PlayersInv
<1>1. /\ pc = "idle" /\ mem = [NoMem EXCEPT !.hash = disk.elf, !.index = disk.index]
      /\ pl = [c \in Players |-> Off]
  BY DEF Init
<1>2. mem.copy = NoImage /\ mem.index = disk.index /\ mem.hash = disk.elf
  BY <1>1 DEF NoMem
<1>3. Debug => disk.elf.ids = DOMAIN disk.index
  BY DEF Init, BuildInit, Image, Plan0
<1>4. << >> \in Seq(Lines) /\ DOMAIN pl = Players /\ \A c \in Players : pl[c] = Off
  BY <1>1
<1>5. \A c \in Players : PlayerInv(c)
  BY <1>4, offFacts, Zenon DEF PlayerInv
<1> QED BY <1>1, <1>2, <1>3, <1>4, <1>5 DEF ImageInv, PlayersInv

(* ------------------------------ the theorems ---------------------------- *)

\* start_watcher's collection and the build's tasks never leave resources.blytidx
\* naming a staging file that is gone, over any number of edits, failed builds
\* and restarts.
THEOREM IndexAlwaysResolves ==
  ASSUME ~Reverts, ~EditsInTask, ~KillsInTask
  PROVE Spec => []IndexResolves
<1>1. LoopInv => IndexResolves
  BY DEF LoopInv, DiskInv, IndexResolves
<1> QED BY <1>1, LoopAlways, PTL

\* A watcher that waits with no event pending has built what the sources say:
\* run_tasks never skips a task it had to run, and no edit is lost between the
\* scan, the settle window and the record.
THEOREM QuietAlwaysBuilt ==
  ASSUME ~Reverts, ~EditsInTask, ~KillsInTask
  PROVE Spec => []QuietMeansBuilt
<1>1. LoopInv => QuietMeansBuilt
  BY DEF LoopInv, QuietInv, QuietMeansBuilt
<1> QED BY <1>1, LoopAlways, PTL

\* The staging files a player's table came from outlive the round of signals
\* that supersedes them: a player at most one round late reads every asset.
THEOREM PlayersKeepTheirFiles ==
  ASSUME ~Reverts, ~EditsInTask, ~KillsInTask, Debug => UsesIds
  PROVE Spec => []OneRoundGrace
<1>1. Init => ImageInv /\ PlayersInv
  BY PlayersInit
<1>2. LoopInv /\ ImageInv /\ PlayersInv /\ [Next]_vars => ImageInv' /\ PlayersInv'
  BY ImageNext, PlayersNext, Zenon
<1>3. PlayersInv => OneRoundGrace
  BY DEF PlayersInv, PlayerInv, OneRoundGrace
<1> QED BY <1>1, <1>2, <1>3, LoopAlways, PTL DEF Spec
=============================================================================
