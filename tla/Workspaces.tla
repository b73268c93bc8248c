----------------------------- MODULE Workspaces -----------------------------
(***************************************************************************)
(* What an agent is told that lies in files: its workspace, layered from   *)
(* five directories (agent/workspace.go), the skills (agent/skills.go),    *)
(* the project's instructions (agent/loader.go:165) and the memory, which  *)
(* the memory tools append to and every run reads again (tool/memory.go),  *)
(* as the sections of its prompt (agent/context_engine.go:173).            *)
(*                                                                         *)
(* A file is the sequence of its entries; <<>> is a file that is empty,    *)
(* and a name that is not in the domain is not there.  Abstracted: the     *)
(* text of entries, but for "bad", which checkMemoryInjection refuses, the *)
(* descriptions of skills, and provenance; a skill's name is a number.     *)
(* Bounds: WsMaxOps, WsMaxDay; WsMaxSkills stands for the code's 150,      *)
(* WsMaxFile and WsMaxTotal, in entries, for its 20k and 150k characters.  *)
(***************************************************************************)
EXTENDS Enumeration, Sequences, SequencesExt, FiniteSetsExt

CONSTANTS
    WsNotes,        \* what may be saved; one of them is "bad"
    WsRuns,         \* the runs there may be, as records:
                    \*   over: what lies in the layers over "global", layer -> name -> file
                    \*   project: whether its client has a project
                    \*   skills: layer -> directory entries, [name, v] (name 0: no frontmatter)
                    \*   allow: the skills its agent may have; {} allows all
                    \*   texts: the instruction files from the root to the directory, and the orders
                    \*   mode: "full", "minimal" or "none"; features: what its agent opts in to
                    \*   other: what the sections take that are of no file
    WsEmbedded,     \* the files a built-in agent brings
    WsMaxSkills, WsMaxFile, WsMaxTotal, WsMaxOps, WsMaxDay

ASSUME WsAssumption ==
    /\ WsMaxSkills \in Nat /\ WsMaxFile \in Nat /\ WsMaxTotal \in Nat
    /\ \A run \in WsRuns :
          /\ run.project \in BOOLEAN /\ run.texts \in Seq(STRING)
          /\ {run.skills.global, run.skills.agent, run.skills.project} \subseteq Seq([name : Nat, v : Nat])

VARIABLES
    wsGlobal,   \* ~/.eclaire/workspace: name -> file
    wsDaily,    \* the daily logs, of "global" and of the "daemon"'s project: day -> file
    wsDay,
    wsSaved,    \* ghost: <<type, note, day>> the tools answered as saved
    wsPrompt,   \* what the last run was told, once there was one
    wsOps

wsVars == <<wsGlobal, wsDaily, wsDay, wsSaved, wsPrompt, wsOps>>

WsOp == wsOps < WsMaxOps /\ wsOps' = wsOps + 1
FileAt(dir, name) == IF name \in DOMAIN dir THEN dir[name] ELSE <<>>
NoFiles == [n \in {} |-> <<>>]

----------------------------------------------------------------------------
(* loadDir: a file of the directory overrides one of a lower priority.     *)
(* Mutant: the file that is there stays.                                   *)
LoadDirKeeping(files, dir, priority) ==
    [n \in DOMAIN files \cup DOMAIN dir |->
        IF n \in DOMAIN dir /\ ~(n \in DOMAIN files /\ files[n].priority <= priority)
        THEN [content |-> dir[n], priority |-> priority] ELSE files[n]]
LoadDir(files, dir, priority) ==
    [n \in DOMAIN files \cup DOMAIN dir |->
        IF n \in DOMAIN dir /\ ~(n \in DOMAIN files /\ files[n].priority >= priority)
        THEN [content |-> dir[n], priority |-> priority] ELSE files[n]]

(* LoadWithProject: embedded, global, agent, project, and the project's    *)
(* files of the agent; without a project the last two are not looked at.   *)
LoadWithProject(embedded, over, project) ==
    LET e == LoadDir(NoFiles, embedded, 0)
        g == LoadDir(e, wsGlobal, 10)
        a == LoadDir(g, over.agent, 20)
        p == LoadDir(a, over.project, 30)
    IN  IF project THEN LoadDir(p, over.projectAgent, 35) ELSE a

(* loadMemory: the curated memory is the MEMORY.md that won; a day's log   *)
(* is that of the project the daemon was started in, if it has one.        *)
LoadMemory(files, day) ==
    [curated |-> IF "MEMORY.md" \in DOMAIN files THEN files["MEMORY.md"].content ELSE <<>>,
     today |-> IF day \in DOMAIN wsDaily.daemon THEN wsDaily.daemon[day]
               ELSE FileAt(wsDaily.global, day)]

(* scanSkillsDir: the names of the directories whose SKILL.md parses. *)
NamesOf(s) == {x.name : x \in Range(s)}
ScanSkillsDir(dir) == NamesOf(dir) \ {0}
(* The global directory's last one of a name wins over its others, of the  *)
(* other directories the first.                                            *)
LastOf(s, name) == s[Max({i \in DOMAIN s : s[i].name = name})]
FirstOf(s, name) == s[Min({i \in DOMAIN s : s[i].name = name})]

(* SkillLoader.LoadWithProject: by name, allowed, and the first of them.   *)
LoadSkills(dirs, allow, project) ==
    LET g == ScanSkillsDir(dirs.global)
        a == ScanSkillsDir(dirs.agent)
        p == IF project THEN ScanSkillsDir(dirs.project) ELSE {}
        pick(n) == IF n \in p THEN FirstOf(dirs.project, n)
                   ELSE IF n \in a THEN FirstOf(dirs.agent, n) ELSE LastOf(dirs.global, n)
        names == {n \in g \cup a \cup p : allow = {} \/ n \in allow}
        size == Cardinality(names)
    IN  [i \in 1..(IF size > WsMaxSkills THEN WsMaxSkills ELSE size) |-> pick(InOrder(names)[i])]

(* dedupeInstructionFiles keeps the first of the files with one content,   *)
(* and DiscoverInstructionFiles has left out the empty ones.               *)
IsKept(found, i) == found[i] # "" /\ \A j \in 1..i - 1 : found[j] # found[i]
DiscoverInstructionFiles(found) == AtPlaces(found, {i \in DOMAIN found : IsKept(found, i)})

(* LoadStandingOrders: the orders of a directory that are not empty.       *)
LoadStandingOrders(found) == SelectSeq(found, LAMBDA t : t # "")

----------------------------------------------------------------------------
CheckMemoryInjection(note) == note = "bad"

AppendTo(dir, name, note) ==
    [n \in DOMAIN dir \cup {name} |-> IF n = name THEN Append(FileAt(dir, name), note) ELSE dir[n]]

(* memory_write: a note that is empty, or might give orders to the model,  *)
(* is refused; a daily one goes to the log of the day of the call.         *)
MemoryWrite(type, note) ==
    /\ WsOp /\ note # "" /\ ~CheckMemoryInjection(note)
    /\ \/ /\ type = "curated" /\ wsGlobal' = AppendTo(wsGlobal, "MEMORY.md", note)
          /\ UNCHANGED wsDaily
       \/ /\ type = "daily" /\ UNCHANGED wsGlobal
          /\ wsDaily' = [wsDaily EXCEPT !.global = AppendTo(@, wsDay, note)]
    /\ wsSaved' = wsSaved \cup {<<type, note, wsDay>>}
    /\ UNCHANGED <<wsDay, wsPrompt>>

(* The tool of a memory flush takes daily notes only. *)
MemoryWriteDailyOnly(type, note) == type = "daily" /\ MemoryWrite(type, note)

MemoryRefused(note) ==
    /\ WsOp /\ (note = "" \/ CheckMemoryInjection(note))
    /\ UNCHANGED <<wsGlobal, wsDaily, wsDay, wsSaved, wsPrompt>>

(* memory_read: the log of a day, or all that mentions what is asked for.  *)
(* It looks in the global workspace only.                                  *)
MemoryRead(query, day) ==
    IF day > 0 THEN {FileAt(wsDaily.global, day)}
    ELSE {f \in {FileAt(wsGlobal, "MEMORY.md")} \cup Range(wsDaily.global) :
             query = "" \/ query \in Range(f)}

(* A log appears in the project the daemon was started in: the user's, or  *)
(* that of another daemon.                                                 *)
ProjectNotes(note) ==
    /\ WsOp /\ wsDaily' = [wsDaily EXCEPT !.daemon = AppendTo(@, wsDay, note)]
    /\ UNCHANGED <<wsGlobal, wsDay, wsSaved, wsPrompt>>

NextDay ==
    /\ wsDay < WsMaxDay /\ wsDay' = wsDay + 1
    /\ UNCHANGED <<wsGlobal, wsDaily, wsSaved, wsPrompt, wsOps>>

----------------------------------------------------------------------------
(* Assemble: the sections of a prompt in their order, and the files some   *)
(* of them are made of.                                                    *)
WsSections ==
    <<"runtime", "soul", "output_style", "agents", "agents_registry", "task_guidance",
      "action_guidance", "user", "tools", "instruction_files", "project_context", "tools_doc",
      "skills", "memory", "standing_orders", "daily_memory", "heartbeat", "overrides">>
FileOf == [soul |-> "SOUL.md", agents |-> "AGENTS.md", user |-> "USER.md", tools_doc |-> "TOOLS.md",
           memory |-> "MEMORY.md", heartbeat |-> "HEARTBEAT.md"]

(* sectionIncluded: a minimal prompt, that of jobs, flows and sub-agents,  *)
(* has neither memory nor the user's file, and no instructions.            *)
WsSectionIncluded(name, mode) ==
    \/ mode = "full"
    \/ mode = "minimal" /\ name \in {"runtime", "soul", "agents", "agents_registry", "tools",
                                    "tools_doc", "skills", "standing_orders"}

Content(run, name) ==
    LET files == LoadWithProject(WsEmbedded, run.over, run.project)
    IN  CASE name \in DOMAIN FileOf ->
                IF FileOf[name] \in DOMAIN files THEN files[FileOf[name]].content ELSE <<>>
          [] name = "daily_memory" -> LoadMemory(files, wsDay).today
          [] name = "skills" -> LoadSkills(run.skills, run.allow, run.project)
          [] name = "standing_orders" -> LoadStandingOrders(run.texts)
          [] name = "instruction_files" ->
                IF name \in run.features THEN DiscoverInstructionFiles(run.texts) ELSE <<>>
          [] OTHER -> FileAt(run.other, name)

(* addSection: a section is cut at its END, and left out when the prompt   *)
(* would become too long with it; a shorter one may still come after it.   *)
Truncated(text) == IF Len(text) > WsMaxFile THEN SubSeq(text, 1, WsMaxFile) ELSE text
Fits(used, text) == used + Len(Truncated(text)) <= WsMaxTotal
SectionText(run, name) == IF WsSectionIncluded(name, run.mode) THEN Content(run, name) ELSE <<>>
Added(used, text) == IF Fits(used, text) THEN used + Len(Truncated(text)) ELSE used
(* How much there is before each section. *)
Befores(run) == FoldLeft(LAMBDA used, name : Append(used, Added(Last(used), SectionText(run, name))), <<0>>, WsSections)
WsAssemble(run) ==
    LET befores == Befores(run)
        before(name) == befores[CHOOSE i \in DOMAIN WsSections : WsSections[i] = name]
    IN  [name \in Range(WsSections) |->
            [before |-> before(name),
             text |-> IF Fits(before(name), SectionText(run, name)) THEN Truncated(SectionText(run, name)) ELSE <<>>]]

(* A run loads all of it, for its agent and its client's project. *)
RunLoads(run) ==
    /\ WsOp
    /\ wsPrompt' = {[run |-> run, global |-> wsGlobal, sections |-> WsAssemble(run)]}
    /\ UNCHANGED <<wsGlobal, wsDaily, wsDay, wsSaved>>

----------------------------------------------------------------------------
WsInit ==
    /\ wsGlobal = NoFiles /\ wsDaily = [global |-> NoFiles, daemon |-> NoFiles] /\ wsDay = 1
    /\ wsSaved = {} /\ wsOps = 0
    /\ wsPrompt = {}

WsNext ==
    \/ \E type \in {"curated", "daily"}, note \in WsNotes :
          MemoryWrite(type, note) \/ MemoryWriteDailyOnly(type, note)
    \/ \E note \in WsNotes : MemoryRefused(note) \/ ProjectNotes(note)
    \/ NextDay
    \/ \E run \in WsRuns : RunLoads(run)

WsSpec == WsInit /\ [][WsNext]_wsVars

----------------------------------------------------------------------------
(* What a memory tool has saved stays: memory_read finds it on every later *)
(* day, and a run with a full prompt that begins now is told of it         *)
(* (memory.go:50, workspace.go:160, :190).  That is, unless a layer over   *)
(* the global one has a MEMORY.md of its own or the daemon's project a log *)
(* of the same day, and but for the two limits of a prompt: of a file that *)
(* is too long the beginning is told and not what was noted last, and a    *)
(* section that no longer fits is left out (context_engine.go:204, :207).  *)
(* Runs with a minimal prompt are told of no note (context_engine.go:740). *)
ToldOf(run, name, file, note) ==
    LET section == WsAssemble(run)[name]
    IN  note \in Range(section.text) \/ Len(file) > WsMaxFile \/ ~Fits(section.before, file)
NotesReachPrompts == \A s \in wsSaved :
    /\ \E f \in MemoryRead("", 0) : s[2] \in Range(f)
    /\ s[1] = "daily" => \A f \in MemoryRead("", s[3]) : s[2] \in Range(f)
    /\ \A run \in {r \in WsRuns : r.mode = "full"} :
          LET files  == LoadWithProject(WsEmbedded, run.over, run.project)
              memory == LoadMemory(files, wsDay)
          IN  /\ s[1] = "curated" /\ files["MEMORY.md"].priority = 10 =>
                     ToldOf(run, "memory", memory.curated, s[2])
              /\ s[1] = "daily" /\ s[3] = wsDay /\ wsDay \notin DOMAIN wsDaily.daemon =>
                     ToldOf(run, "daily_memory", memory.today, s[2])

(* A section that is made of a file says what the last layer says that has *)
(* it (an empty file too), up to its limit, or nothing, when the mode of   *)
(* the prompt excludes it or it does not fit; of every skill a run is told *)
(* one of the last directory that has one of its name, and of every        *)
(* instruction once (workspace.go:144, skills.go:70, loader.go:211).       *)
LayersOf(p) == <<WsEmbedded, p.global, p.run.over.agent>> \o
               (IF p.run.project THEN <<p.run.over.project, p.run.over.projectAgent>> ELSE <<>>)
SkillsOf(p) == <<p.run.skills.global, p.run.skills.agent,
                 IF p.run.project THEN p.run.skills.project ELSE <<>>>>
LastLayer(ls, file) ==
    LET having == {i \in DOMAIN ls : file \in DOMAIN ls[i]}
    IN  IF having = {} THEN <<>> ELSE ls[Max(having)][file]
SaysAll(p, name, text) ==
    LET section == p.sections[name]
    IN  section.text = IF WsSectionIncluded(name, p.run.mode) /\ Fits(section.before, text)
                       THEN Truncated(text) ELSE <<>>
TopLayerWins == \A p \in wsPrompt :
    LET skills == p.sections["skills"].text
    IN  /\ \A name \in DOMAIN FileOf : SaysAll(p, name, LastLayer(LayersOf(p), FileOf[name]))
        /\ \A s \in Range(skills) : \E i \in 1..3 :
              s \in Range(SkillsOf(p)[i]) /\ \A j \in i + 1..3 : s.name \notin NamesOf(SkillsOf(p)[j])
        /\ \A i, j \in DOMAIN skills : i < j => skills[i].name < skills[j].name
        /\ IsInjective(p.sections["instruction_files"].text)

(* Both: what was saved or laid over is what a run is told, within its     *)
(* limits.                                                                 *)
RunIsTold == NotesReachPrompts /\ TopLayerWins
=============================================================================
