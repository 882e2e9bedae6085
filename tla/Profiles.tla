-------------------------------- MODULE Profiles -------------------------------
(***************************************************************************)
(* What a claude process may call and what its prompt tells it so: from    *)
(* plugins.json (hamroh/plugins.py) and the tools found at start           *)
(* (hamroh/tools, mcp_server.py) to the shared spawn spec (startup.py),    *)
(* the private one derived from it (privacy/wiring.py), and the argv of    *)
(* every process (cc_worker/spec.py, private_profile.py).                  *)
(*                                                                         *)
(* Tools of one kind are one name: "web" is WebFetch and WebSearch, "turn" *)
(* the turn-end, task and discovery tools, "Bash" and "Code" the tools of  *)
(* a group.  A server stands for its tools.  plugins.json is read only at  *)
(* start, so it is edited only while the bot is down.                      *)
(***************************************************************************)
EXTENDS Naturals, FiniteSets

CONSTANTS SharedTools, PrivateTools, BothTools,   \* hamroh's own, by audience
          Added,        \* those of them an extension package brings
          Servers,      \* names of external MCP servers
          MaxEdits,     \* bound: edits of plugins.json
          MaxSpawns     \* bound: processes

Hamroh == SharedTools \cup PrivateTools \cup BothTools
Groups == {"bash", "code", "subagents"}

VARIABLES
    plugins,      \* plugins.json
    files,        \* of the files a spawn reads: those that are there
    memory,       \* there are memory files
    registered,   \* McpServer.tools; all the specs below are made at start
    profiles,     \* the spawn spec of each kind of session
    bot,          \* "down", "up", "unsupervised" (the supervise task has died)
    spec,         \* CcWorker.spec: the kind of session
    judged,       \* TurnContext: the kind of turn the MCP server judges calls by
    ordered,      \* the argv of a process that is being created
    proc,         \* the argv of the running process
    overtaken,    \* history: a switch came while this process was being created
    edits, spawns

process == <<ordered, proc, overtaken>>
vars == <<plugins, files, memory, registered, profiles, bot, spec, judged, process, edits, spawns>>

NoProc == [argv |-> "none"]
Kinds == {"shared", "private"}
Inputs == {"mcp.json and schema.json", "subagents.md"}

-----------------------------------------------------------------------------
(* plugins.json *)

\* An entry of mcps: absent, disabled, with an unset ${VAR}, enabled, or malformed;
\* `disabled' is builtin_tools_disabled, perhaps with a name no tool has; the
\* extension's package is good, repeats a tool's name, or cannot be imported.
Files == [groups : SUBSET Groups,
          servers : [Servers -> {"absent", "off", "unset", "on", "malformed"}],
          disabled : {{}, Hamroh, {"typo"}} \cup {{t} : t \in Hamroh},
          extension : {"none", "good", "clash", "missing"}]
Missing == [groups |-> {}, servers |-> [s \in Servers |-> "absent"],
            disabled |-> {}, extension |-> "none"]

ValidServers(f) == \A s \in Servers : f.servers[s] # "malformed"
ServersOf(f) == {s \in Servers : f.servers[s] = "on"}

Discovered(f) == IF f.extension = "good" THEN Hamroh ELSE Hamroh \ Added

\* What stops the start: a malformed entry, a package that cannot be imported, a tool
\* name used twice, an unknown name in builtin_tools_disabled.
Registrable(f) ==
    /\ ValidServers(f)
    /\ f.extension \in {"none", "good"}
    /\ f.disabled \subseteq Discovered(f)

Registered(f) == Discovered(f) \ f.disabled

-----------------------------------------------------------------------------
(* The two spawn specs *)

\* render_memory_index: empty when there are no memory files.
Index == memory

SharedSpec(f, index) ==
    [private |-> FALSE, groups |-> f.groups, granted |-> Registered(f), withheld |-> {},
     config |-> ServersOf(f), allow |-> ServersOf(f), indexes |-> index]

\* A plausible slip: the bash and code groups are taken away, subagents are not.
PrivateSpecWithSubagents(f) ==
    [private |-> TRUE, groups |-> f.groups \cap {"subagents"},
     granted |-> Registered(f) \ SharedTools, withheld |-> Registered(f) \cap SharedTools,
     config |-> {}, allow |-> {}, indexes |-> FALSE]

PrivateSpec(f) ==
    [private |-> TRUE, groups |-> {},
     granted |-> Registered(f) \ SharedTools, withheld |-> Registered(f) \cap SharedTools,
     config |-> {}, allow |-> {}, indexes |-> FALSE]

-----------------------------------------------------------------------------
(* argv *)

GroupTools(g) == CASE g = "bash" -> {"Bash"} [] g = "code" -> {"Code"}
                   [] g = "subagents" -> {"Agent", "SendMessage"}

PrivateBuiltins(base) == base \ {"web", "Agent", "SendMessage"}

\* --tools: the only built-in tools the process has.
Builtins(s) ==
    LET base == {"web", "turn"}
    IN  IF s.private THEN PrivateBuiltins(base) ELSE base \cup UNION {GroupTools(g) : g \in s.groups}

PrivateLists(s) ==
    [allowed |-> s.granted,
     denied |-> {"Bash", "Code", "web", "Agent", "SendMessage"} \cup s.withheld]

\* --allowedTools (all of mcp__hamroh, which is what is registered) and --disallowedTools.
ToolLists(s) ==
    IF s.private THEN PrivateLists(s)
    ELSE LET unlocked == UNION {GroupTools(g) : g \in s.groups \ {"subagents"}}
             agent == IF "subagents" \in s.groups THEN {"Agent"} ELSE {}
         IN  [allowed |-> registered \cup {"web"} \cup unlocked \cup agent \cup s.allow,
              denied |-> ({"Bash", "Code"} \ unlocked) \cup ({"Agent"} \ agent)]

\* The "# Your tools" block; left out when there are no hamroh tools.
Inventory(s) ==
    IF s.granted = {} THEN {} ELSE s.granted \cup Builtins(s) \cup s.allow

Prompt(s) ==
    (IF s.indexes THEN {"memory"} ELSE {})
        \cup (IF Inventory(s) = {} THEN {} ELSE {"tools"})
        \cup (IF s.private THEN {"private"} ELSE {})
        \cup (IF "subagents" \in s.groups THEN {"subagents"} ELSE {})

CanBuild(s) ==
    /\ "mcp.json and schema.json" \in files
    /\ "subagents" \in s.groups => "subagents.md" \in files

Argv(s) ==
    [argv |-> "built", private |-> s.private, tools |-> Builtins(s), servers |-> s.config,
     allowed |-> ToolLists(s).allowed, denied |-> ToolLists(s).denied,
     listed |-> Inventory(s), prompt |-> Prompt(s)]

-----------------------------------------------------------------------------
(* Operators, processes, and turns *)

\* One key of the file at a time.
EditPlugins ==
    /\ bot = "down" /\ edits < MaxEdits /\ edits' = edits + 1
    /\ \/ \E g \in SUBSET Groups : plugins' = [plugins EXCEPT !.groups = g]
       \/ \E s \in Servers, e \in {"off", "on"} : plugins' = [plugins EXCEPT !.servers[s] = e]
       \/ plugins' = [plugins EXCEPT !.disabled = {}, !.extension = "good"]
       \/ plugins' = Missing
    /\ UNCHANGED <<files, memory, registered, profiles, bot, spec, judged, process, spawns>>

\* An operator deletes the subagents' page, or the system cleans /tmp.
Vanishes(x) ==
    /\ x \in files /\ files' = files \ {x}
    /\ UNCHANGED <<plugins, memory, registered, profiles, bot, spec, judged, process, edits, spawns>>

Restored ==
    /\ "subagents.md" \notin files /\ files' = files \cup {"subagents.md"}
    /\ UNCHANGED <<plugins, memory, registered, profiles, bot, spec, judged, process, edits, spawns>>

WriteMemory ==
    /\ ~memory /\ memory' = TRUE
    /\ UNCHANGED <<plugins, files, registered, profiles, bot, spec, judged, process, edits, spawns>>

\* The tools are registered, both specs made, their files written to a new directory;
\* the worker starts in the shared session.
Boot ==
    /\ bot = "down" /\ Registrable(plugins)
    /\ files' = files \cup {"mcp.json and schema.json"}
    /\ registered' = Registered(plugins)
    /\ profiles' = [k \in Kinds |-> IF k = "shared" THEN SharedSpec(plugins, Index) ELSE PrivateSpec(plugins)]
    /\ bot' = "up" /\ spec' = "shared" /\ judged' = "shared"
    /\ UNCHANGED <<plugins, memory, process, edits, spawns>>

\* CcWorker.start, at the start of the bot or by the supervisor: the argv is fixed, then
\* the process is waited for.
BeginSpawn ==
    /\ bot = "up" /\ proc = NoProc /\ ordered = NoProc /\ CanBuild(profiles[spec])
    /\ spawns < MaxSpawns /\ spawns' = spawns + 1
    /\ ordered' = Argv(profiles[spec]) /\ overtaken' = FALSE
    /\ UNCHANGED <<plugins, files, memory, registered, profiles, bot, spec, judged, proc, edits>>

FinishSpawn ==
    /\ ordered # NoProc
    /\ proc' = ordered /\ ordered' = NoProc
    /\ UNCHANGED <<plugins, files, memory, registered, profiles, bot, spec, judged, overtaken,
                   edits, spawns>>

\* start raises inside the supervise task, for a missing file or because claude cannot
\* be run: the task ends, and nothing spawns again.
SpawnRaises ==
    /\ bot = "up" /\ proc = NoProc
    /\ ordered = NoProc => ~CanBuild(profiles[spec])
    /\ bot' = "unsupervised" /\ ordered' = NoProc
    /\ UNCHANGED <<plugins, files, memory, registered, profiles, spec, judged, proc, overtaken,
                   edits, spawns>>

\* A session of the other kind is entered: its spec is set and the process killed, if
\* there is one; one that is being created comes up as it was ordered.
Switch ==
    /\ bot # "down" /\ spec = judged
    /\ spec' \in Kinds \ {spec}
    /\ proc' = NoProc /\ overtaken' = (overtaken \/ ordered # NoProc)
    /\ UNCHANGED <<plugins, files, memory, registered, profiles, bot, judged, ordered, edits, spawns>>

\* A process is up, and the turn is bound.
Bind ==
    /\ spec # judged /\ proc # NoProc
    /\ judged' = spec
    /\ UNCHANGED <<plugins, files, memory, registered, profiles, bot, spec, process, edits, spawns>>

\* The process crashes, is killed by /kill_cc, or dies for a reset.
Exit ==
    /\ proc # NoProc /\ proc' = NoProc
    /\ UNCHANGED <<plugins, files, memory, registered, profiles, bot, spec, judged, ordered,
                   overtaken, edits, spawns>>

Die ==
    /\ bot # "down" /\ bot' = "down" /\ proc' = NoProc /\ ordered' = NoProc
    /\ UNCHANGED <<plugins, files, memory, registered, profiles, spec, judged, overtaken, edits,
                   spawns>>

-----------------------------------------------------------------------------
InitWith(f) ==
    /\ plugins = f /\ files = Inputs /\ memory = FALSE
    /\ registered = {} /\ profiles = [k \in Kinds |-> PrivateSpec(Missing)]
    /\ bot = "down" /\ spec = "shared" /\ judged = "shared"
    /\ ordered = NoProc /\ proc = NoProc /\ overtaken = FALSE
    /\ edits = 0 /\ spawns = 0

Init == \E f \in Files : InitWith(f)

Next ==
    \/ EditPlugins \/ Restored \/ WriteMemory \/ Boot \/ BeginSpawn \/ FinishSpawn
    \/ SpawnRaises \/ Switch \/ Bind \/ Exit \/ Die
    \/ \E x \in Inputs : Vanishes(x)

Spec == Init /\ [][Next]_vars

-----------------------------------------------------------------------------
\* Types of the state.
TypeOK ==
    /\ plugins \in Files /\ files \subseteq Inputs /\ memory \in BOOLEAN
    /\ registered \subseteq Hamroh
    /\ bot \in {"down", "up", "unsupervised"} /\ spec \in Kinds /\ judged \in Kinds
    /\ proc # NoProc =>
           /\ proc.private \in BOOLEAN /\ proc.servers \subseteq Servers
           /\ proc.prompt \subseteq {"memory", "tools", "private", "subagents"}
    /\ overtaken \in BOOLEAN

\* Claude Code reaches what is in neither list (cc_worker/spec.py:322-324).
Reachable == (registered \cup proc.tools \cup proc.servers) \ proc.denied
Refused == IF judged = "private" THEN SharedTools ELSE PrivateTools

\* What may be called is what the prompt lists, a tool for private chats apart, which the
\* shared prompt lists and the MCP server refuses; nothing is both allowed and denied; and
\* a private session has no server, no group, no web, no shared tool and no index.
Agrees ==
    /\ proc.listed \ PrivateTools \subseteq Reachable \ Refused
    /\ proc.listed # {} => Reachable \subseteq proc.listed
    /\ proc.allowed \cap proc.denied = {}
    /\ "subagents" \in proc.prompt <=> "Agent" \in Reachable
    /\ judged = "private" =>
           /\ Reachable \subseteq (registered \ SharedTools) \cup {"turn"}
           /\ "private" \in proc.prompt /\ "memory" \notin proc.prompt

\* Every process bound to its turn agrees with it, after any edits, switches, exits and
\* respawns (render_tools_index: "the prompt never advertises a tool the model cannot
\* call"), but one that was being created when its session was left.
ProfilesAgree == proc # NoProc /\ spec = judged /\ ~overtaken => Agrees

-----------------------------------------------------------------------------
(* Inductive invariant *)

\* What is registered, and both specs, are those of plugins.json, which nobody edits while
\* the bot is up; memory files may have come since.
SpecsFromPlugins ==
    bot # "down" =>
        /\ registered = Registered(plugins)
        /\ profiles["private"] = PrivateSpec(plugins)
        /\ \E m \in BOOLEAN : profiles["shared"] = SharedSpec(plugins, m)

\* A process, or one that is being created, has the argv of the worker's spec, or of the
\* spec it had before a switch overtook it: any other change of the spec kills it.
ProcIsOfSpec ==
    \A p \in {ordered, proc} \ {NoProc} :
        bot # "down" /\ \E k \in Kinds : p = Argv(profiles[k]) /\ (k = spec \/ overtaken)

IInv == TypeOK /\ SpecsFromPlugins /\ ProcIsOfSpec /\ ProfilesAgree
================================================================================
