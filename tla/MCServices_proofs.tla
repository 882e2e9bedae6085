--------------------------- MODULE MCServices_proofs ---------------------------
(***************************************************************************)
(* What holds of the services beside a turn, for every number of calls,    *)
(* chats, tasks, messages and restarts. A behaviour is of one part, whose  *)
(* own inductive invariant is kept by each of its steps.                   *)
(***************************************************************************)
EXTENDS MCTranscript_proofs, FiniteSetTheorems

-----------------------------------------------------------------------------
(* Profiles *)

Built == {"Bash", "Code", "web", "turn", "Agent", "SendMessage"}

\* No tool or server has the name of a tool of Claude Code's own.
LEMMA NamesApart ==
  /\ \A x \in Pr!Hamroh : x \notin Built
  /\ \A x \in Servers : x \notin Built /\ x \notin Pr!Hamroh
  BY ServicesAssumption DEF Built, Pr!Hamroh

LEMMA RegisteredAreTools ==
  ASSUME NEW f \in Pr!Files
  PROVE  Pr!Registered(f) \subseteq Pr!Hamroh /\ Pr!ServersOf(f) \subseteq Servers
  BY DEF Pr!Registered, Pr!Discovered, Pr!ServersOf

\* The tools of a set of groups, one by one.
LEMMA ToolsOfGroups ==
  ASSUME NEW G \in SUBSET Pr!Groups, NEW x
  PROVE  /\ x \in UNION {Pr!GroupTools(g) : g \in G} <=>
                \/ x = "Bash" /\ "bash" \in G
                \/ x = "Code" /\ "code" \in G
                \/ x \in {"Agent", "SendMessage"} /\ "subagents" \in G
         /\ x \in UNION {Pr!GroupTools(g) : g \in G \ {"subagents"}} <=>
                \/ x = "Bash" /\ "bash" \in G
                \/ x = "Code" /\ "code" \in G
<1>1. /\ Pr!GroupTools("bash") = {"Bash"} /\ Pr!GroupTools("code") = {"Code"}
      /\ Pr!GroupTools("subagents") = {"Agent", "SendMessage"}
  BY DEF Pr!GroupTools
<1>2. \A g \in G : g = "bash" \/ g = "code" \/ g = "subagents"
  BY DEF Pr!Groups
<1>3. QED
  BY <1>1, <1>2

\* The argv of the shared spec.
LEMMA SharedArgv ==
  ASSUME NEW f \in Pr!Files, NEW m, NEW a, registered = Pr!Registered(f),
         a = Pr!Argv(Pr!SharedSpec(f, m))
  PROVE  /\ \A x : x \in a.tools <=>
                \/ x \in {"web", "turn"}
                \/ x = "Bash" /\ "bash" \in f.groups
                \/ x = "Code" /\ "code" \in f.groups
                \/ x \in {"Agent", "SendMessage"} /\ "subagents" \in f.groups
         /\ \A x : x \in a.denied <=>
                \/ x = "Bash" /\ "bash" \notin f.groups
                \/ x = "Code" /\ "code" \notin f.groups
                \/ x = "Agent" /\ "subagents" \notin f.groups
         /\ \A x : x \in a.allowed <=>
                \/ x \in registered \cup {"web"} \cup Pr!ServersOf(f)
                \/ x = "Bash" /\ "bash" \in f.groups
                \/ x = "Code" /\ "code" \in f.groups
                \/ x = "Agent" /\ "subagents" \in f.groups
         /\ a.listed = IF registered = {} THEN {}
                ELSE registered \cup a.tools \cup Pr!ServersOf(f)
         /\ a.servers = Pr!ServersOf(f)
         /\ "subagents" \in a.prompt <=> "subagents" \in f.groups
         /\ a.prompt \subseteq {"memory", "tools", "private", "subagents"}
         /\ a.private = FALSE
<1> DEFINE s == Pr!SharedSpec(f, m)
<1>1. /\ s.private = FALSE /\ s.groups = f.groups /\ s.granted = registered
      /\ s.config = Pr!ServersOf(f) /\ s.allow = Pr!ServersOf(f) /\ s.indexes = m
  BY DEF Pr!SharedSpec
<1>2. f.groups \in SUBSET Pr!Groups
  BY DEF Pr!Files
<1> HIDE DEF s
<1>3. /\ a.tools = Pr!Builtins(s) /\ a.denied = Pr!ToolLists(s).denied
      /\ a.allowed = Pr!ToolLists(s).allowed /\ a.listed = Pr!Inventory(s)
      /\ a.servers = s.config /\ a.prompt = Pr!Prompt(s) /\ a.private = s.private
  BY DEF Pr!Argv, s
<1> DEFINE tools == UNION {Pr!GroupTools(g) : g \in s.groups}
           unlocked == UNION {Pr!GroupTools(g) : g \in s.groups \ {"subagents"}}
           agent == IF "subagents" \in s.groups THEN {"Agent"} ELSE {}
<1>4. Pr!Builtins(s) = {"web", "turn"} \cup tools
  BY <1>1 DEF Pr!Builtins
<1>5. /\ Pr!ToolLists(s).allowed = registered \cup {"web"} \cup unlocked \cup agent \cup s.allow
      /\ Pr!ToolLists(s).denied = ({"Bash", "Code"} \ unlocked) \cup ({"Agent"} \ agent)
  BY <1>1 DEF Pr!ToolLists
<1>51. \A x : x \in agent <=> x = "Agent" /\ "subagents" \in f.groups
  BY <1>1
<1>52. \A x : /\ x \in tools <=>
                    \/ x = "Bash" /\ "bash" \in f.groups
                    \/ x = "Code" /\ "code" \in f.groups
                    \/ x \in {"Agent", "SendMessage"} /\ "subagents" \in f.groups
              /\ x \in unlocked <=>
                    \/ x = "Bash" /\ "bash" \in f.groups
                    \/ x = "Code" /\ "code" \in f.groups
  <2>1. s.groups \in SUBSET Pr!Groups
    BY <1>1, <1>2
  <2>2. QED
    BY <1>1, <2>1, ToolsOfGroups
<1> HIDE DEF tools, unlocked, agent
<1>6. /\ "subagents" \in a.prompt <=> "subagents" \in f.groups
      /\ a.prompt \subseteq {"memory", "tools", "private", "subagents"}
  BY <1>1, <1>3 DEF Pr!Prompt
<1>7. a.listed = IF registered = {} THEN {} ELSE registered \cup a.tools \cup Pr!ServersOf(f)
  BY <1>1, <1>3 DEF Pr!Inventory
<1>8. ASSUME NEW x
      PROVE  /\ x \in a.tools <=>
                    \/ x \in {"web", "turn"}
                    \/ x = "Bash" /\ "bash" \in f.groups
                    \/ x = "Code" /\ "code" \in f.groups
                    \/ x \in {"Agent", "SendMessage"} /\ "subagents" \in f.groups
             /\ x \in a.denied <=>
                    \/ x = "Bash" /\ "bash" \notin f.groups
                    \/ x = "Code" /\ "code" \notin f.groups
                    \/ x = "Agent" /\ "subagents" \notin f.groups
             /\ x \in a.allowed <=>
                    \/ x \in registered \cup {"web"} \cup Pr!ServersOf(f)
                    \/ x = "Bash" /\ "bash" \in f.groups
                    \/ x = "Code" /\ "code" \in f.groups
                    \/ x = "Agent" /\ "subagents" \in f.groups
  BY <1>1, <1>3, <1>4, <1>5, <1>51, <1>52
<1>9. QED
  BY <1>1, <1>3, <1>6, <1>7, <1>8

\* The argv of the private spec.
LEMMA PrivateArgv ==
  ASSUME NEW f \in Pr!Files, NEW a, registered = Pr!Registered(f),
         a = Pr!Argv(Pr!PrivateSpec(f))
  PROVE  /\ a.tools = {"turn"}
         /\ a.denied = {"Bash", "Code", "web", "Agent", "SendMessage"}
                \cup (registered \cap SharedTools)
         /\ a.allowed = registered \ SharedTools
         /\ a.listed = IF registered \ SharedTools = {} THEN {}
                ELSE (registered \ SharedTools) \cup {"turn"}
         /\ a.servers = {}
         /\ "subagents" \notin a.prompt /\ "private" \in a.prompt /\ "memory" \notin a.prompt
         /\ a.prompt \subseteq {"memory", "tools", "private", "subagents"}
         /\ a.private = TRUE
<1> DEFINE s == Pr!PrivateSpec(f)
<1>1. /\ s.private = TRUE /\ s.groups = {} /\ s.granted = registered \ SharedTools
      /\ s.withheld = registered \cap SharedTools
      /\ s.config = {} /\ s.allow = {} /\ s.indexes = FALSE
  BY DEF Pr!PrivateSpec
<1> HIDE DEF s
<1>2. /\ a.tools = Pr!Builtins(s) /\ a.denied = Pr!ToolLists(s).denied
      /\ a.allowed = Pr!ToolLists(s).allowed /\ a.listed = Pr!Inventory(s)
      /\ a.servers = s.config /\ a.prompt = Pr!Prompt(s) /\ a.private = s.private
  BY DEF Pr!Argv, s
<1>3. Pr!Builtins(s) = {"turn"}
  BY <1>1 DEF Pr!Builtins, Pr!PrivateBuiltins
<1>4. /\ Pr!ToolLists(s).allowed = registered \ SharedTools
      /\ Pr!ToolLists(s).denied =
            {"Bash", "Code", "web", "Agent", "SendMessage"} \cup (registered \cap SharedTools)
  BY <1>1 DEF Pr!ToolLists, Pr!PrivateLists
<1>5. /\ "subagents" \notin a.prompt /\ "private" \in a.prompt /\ "memory" \notin a.prompt
      /\ a.prompt \subseteq {"memory", "tools", "private", "subagents"}
  BY <1>1, <1>2 DEF Pr!Prompt
<1>6. a.listed = IF registered \ SharedTools = {} THEN {}
          ELSE (registered \ SharedTools) \cup {"turn"}
  BY <1>1, <1>2, <1>3 DEF Pr!Inventory
<1>7. QED
  BY <1>1, <1>2, <1>3, <1>4, <1>5, <1>6

\* A process that runs with the argv of kind k agrees with a turn of that kind, and is of
\* the types of a process.
LEMMA ArgvAgrees ==
  ASSUME plugins \in Pr!Files, NEW k \in Pr!Kinds, bot # "down",
         Pr!SpecsFromPlugins, proc = Pr!Argv(profiles[k])
  PROVE  /\ k = judged => Pr!Agrees
         /\ proc.private \in BOOLEAN /\ proc.servers \subseteq Servers
         /\ proc.prompt \subseteq {"memory", "tools", "private", "subagents"}
<1>1. /\ registered = Pr!Registered(plugins) /\ proc = Pr!Argv(profiles[k])
      /\ registered \subseteq Pr!Hamroh /\ Pr!ServersOf(plugins) \subseteq Servers
  BY RegisteredAreTools DEF Pr!SpecsFromPlugins
<1>2. CASE k = "shared"
  <2>1. PICK m \in BOOLEAN : profiles["shared"] = Pr!SharedSpec(plugins, m)
    BY DEF Pr!SpecsFromPlugins
  <2>2. proc = Pr!Argv(Pr!SharedSpec(plugins, m))
    BY <1>1, <1>2, <2>1
  <2> DEFINE G == plugins.groups
             S == Pr!ServersOf(plugins)
  <2> HIDE DEF G, S
  <2>3. /\ \A x : x \in proc.tools <=>
               \/ x \in {"web", "turn"}
               \/ x = "Bash" /\ "bash" \in G
               \/ x = "Code" /\ "code" \in G
               \/ x \in {"Agent", "SendMessage"} /\ "subagents" \in G
        /\ \A x : x \in proc.denied <=>
               \/ x = "Bash" /\ "bash" \notin G
               \/ x = "Code" /\ "code" \notin G
               \/ x = "Agent" /\ "subagents" \notin G
        /\ \A x : x \in proc.allowed <=>
               \/ x \in registered \cup {"web"} \cup S
               \/ x = "Bash" /\ "bash" \in G
               \/ x = "Code" /\ "code" \in G
               \/ x = "Agent" /\ "subagents" \in G
        /\ proc.listed = IF registered = {} THEN {} ELSE registered \cup proc.tools \cup S
        /\ proc.servers = S
        /\ "subagents" \in proc.prompt <=> "subagents" \in G
        /\ proc.prompt \subseteq {"memory", "tools", "private", "subagents"}
        /\ proc.private = FALSE
    BY <1>1, <2>2, SharedArgv DEF G, S
  <2>4. \A x : x \in registered \cup S => x \notin Built
    BY <1>1, NamesApart DEF S
  <2>5. \A x \in proc.tools : x \notin proc.denied
    BY <2>3
  <2>6. \A x \in registered \cup S : x \notin proc.denied
    BY <2>3, <2>4 DEF Built
  <2>7. ASSUME k = judged PROVE Pr!Agrees
    <3>1. Pr!Refused = PrivateTools
      BY <1>2, <2>7 DEF Pr!Refused
    <3>2. Pr!Reachable = registered \cup proc.tools \cup S
      BY <2>3, <2>5, <2>6 DEF Pr!Reachable
    <3>3. proc.listed \ PrivateTools \subseteq Pr!Reachable \ Pr!Refused
      BY <2>3, <3>1, <3>2
    <3>4. proc.listed # {} => Pr!Reachable \subseteq proc.listed
      BY <2>3, <3>2
    <3>5. proc.allowed \cap proc.denied = {}
      BY <2>3, <2>6
    <3>6. "subagents" \in proc.prompt <=> "Agent" \in Pr!Reachable
      BY <2>3, <2>4, <3>2 DEF Built
    <3>7. QED
      BY <1>2, <2>7, <3>3, <3>4, <3>5, <3>6 DEF Pr!Agrees
  <2>8. QED
    BY <1>1, <2>3, <2>7 DEF S
<1>3. CASE k = "private"
  <2>1. proc = Pr!Argv(Pr!PrivateSpec(plugins))
    BY <1>1, <1>3 DEF Pr!SpecsFromPlugins
  <2>2. /\ proc.tools = {"turn"}
        /\ proc.denied = {"Bash", "Code", "web", "Agent", "SendMessage"}
               \cup (registered \cap SharedTools)
        /\ proc.allowed = registered \ SharedTools
        /\ proc.listed = IF registered \ SharedTools = {} THEN {}
               ELSE (registered \ SharedTools) \cup {"turn"}
        /\ proc.servers = {}
        /\ "subagents" \notin proc.prompt /\ "private" \in proc.prompt
               /\ "memory" \notin proc.prompt
        /\ proc.prompt \subseteq {"memory", "tools", "private", "subagents"}
        /\ proc.private = TRUE
    BY <1>1, <2>1, PrivateArgv
  <2>3. /\ \A x \in registered : x \notin Built
        /\ "turn" \notin SharedTools /\ SharedTools \subseteq Pr!Hamroh
    BY <1>1, NamesApart DEF Built, Pr!Hamroh
  <2>4. ASSUME k = judged PROVE Pr!Agrees
    <3>1. Pr!Refused = SharedTools
      BY <1>3, <2>4 DEF Pr!Refused
    <3>2. Pr!Reachable = (registered \ SharedTools) \cup {"turn"}
      BY <2>2, <2>3 DEF Pr!Reachable, Built
    <3>3. proc.listed \ PrivateTools \subseteq Pr!Reachable \ Pr!Refused
      BY <2>2, <2>3, <3>1, <3>2
    <3>4. proc.listed # {} => Pr!Reachable \subseteq proc.listed
      BY <2>2, <3>2
    <3>5. proc.allowed \cap proc.denied = {}
      BY <2>2, <2>3 DEF Built
    <3>6. "Agent" \notin Pr!Reachable
      BY <2>3, <3>2 DEF Built
    <3>7. QED
      BY <2>2, <3>2, <3>3, <3>4, <3>5, <3>6 DEF Pr!Agrees
  <2>5. QED
    BY <2>2, <2>4
<1>4. QED
  BY <1>2, <1>3 DEF Pr!Kinds

\* The state of the profiles' other types.
PrTypes ==
  /\ plugins \in Pr!Files /\ files \subseteq Pr!Inputs /\ memory \in BOOLEAN
  /\ registered \subseteq Pr!Hamroh
  /\ bot \in {"down", "up", "unsupervised"} /\ spec \in Pr!Kinds /\ judged \in Pr!Kinds
  /\ overtaken \in BOOLEAN

LEMMA PrFollows ==
  ASSUME PrTypes, Pr!SpecsFromPlugins, Pr!ProcIsOfSpec
  PROVE  Pr!IInv
<1>1. CASE proc = Pr!NoProc
  BY <1>1 DEF PrTypes, Pr!IInv, Pr!TypeOK, Pr!ProfilesAgree
<1>2. CASE proc # Pr!NoProc
  <2>1. PICK k \in Pr!Kinds :
            bot # "down" /\ proc = Pr!Argv(profiles[k]) /\ (k = spec \/ overtaken)
    BY <1>2 DEF Pr!ProcIsOfSpec
  <2>2. /\ k = judged => Pr!Agrees
        /\ proc.private \in BOOLEAN /\ proc.servers \subseteq Servers
        /\ proc.prompt \subseteq {"memory", "tools", "private", "subagents"}
    BY <2>1, ArgvAgrees DEF PrTypes
  <2>3. Pr!ProfilesAgree
    BY <2>1, <2>2 DEF Pr!ProfilesAgree
  <2>4. QED
    BY <2>2, <2>3 DEF PrTypes, Pr!IInv, Pr!TypeOK
<1>3. QED
  BY <1>1, <1>2

ProfileStep ==
  \/ Pr!EditPlugins \/ (\E x \in Pr!Inputs : Pr!Vanishes(x)) \/ Pr!Restored \/ Pr!WriteMemory
  \/ Pr!Boot \/ Pr!BeginSpawn \/ Pr!FinishSpawn \/ Pr!SpawnRaises \/ Pr!Switch \/ Pr!Bind
  \/ Pr!Exit \/ Pr!Die

LEMMA PrTypesStep ==
  ASSUME PrTypes, ProfileStep
  PROVE  PrTypes'
<1> USE DEF PrTypes, Pr!process
<1>1. CASE Pr!EditPlugins
  <2>1. plugins' \in Pr!Files
    <3>1. CASE \E g \in SUBSET Pr!Groups : plugins' = [plugins EXCEPT !.groups = g]
      BY <3>1 DEF Pr!Files
    <3>2. CASE \E s \in Servers, e \in {"off", "on"} :
                   plugins' = [plugins EXCEPT !.servers[s] = e]
      <4>1. PICK s \in Servers, e \in {"off", "on"} :
                plugins' = [plugins EXCEPT !.servers[s] = e]
        BY <3>2
      <4>2. [plugins.servers EXCEPT ![s] = e] \in
                [Servers -> {"absent", "off", "unset", "on", "malformed"}]
        BY DEF Pr!Files
      <4>3. QED
        BY <4>1, <4>2 DEF Pr!Files
    <3>3. CASE plugins' = [plugins EXCEPT !.disabled = {}, !.extension = "good"]
      BY <3>3 DEF Pr!Files
    <3>4. CASE plugins' = Pr!Missing
      BY <3>4 DEF Pr!Files, Pr!Missing
    <3>5. QED
      BY <1>1, <3>1, <3>2, <3>3, <3>4 DEF Pr!EditPlugins
  <2>2. QED
    BY <1>1, <2>1 DEF Pr!EditPlugins
<1>2. CASE \E x \in Pr!Inputs : Pr!Vanishes(x)
  BY <1>2 DEF Pr!Vanishes
<1>3. CASE Pr!Restored \/ Pr!WriteMemory
  BY <1>3 DEF Pr!Restored, Pr!WriteMemory, Pr!Inputs
<1>4. CASE Pr!Boot
  BY <1>4, RegisteredAreTools DEF Pr!Boot, Pr!Inputs, Pr!Kinds
<1>5. CASE Pr!BeginSpawn \/ Pr!FinishSpawn \/ Pr!SpawnRaises
  BY <1>5 DEF Pr!BeginSpawn, Pr!FinishSpawn, Pr!SpawnRaises
<1>6. CASE Pr!Switch \/ Pr!Bind
  BY <1>6 DEF Pr!Switch, Pr!Bind
<1>7. CASE Pr!Exit \/ Pr!Die
  BY <1>7 DEF Pr!Exit, Pr!Die
<1>8. QED
  BY <1>1, <1>2, <1>3, <1>4, <1>5, <1>6, <1>7 DEF ProfileStep

\* A boot makes the specs anew; nothing else changes them or, while the bot is up, the file.
LEMMA SpecsStep ==
  ASSUME Pr!SpecsFromPlugins, PrTypes, ProfileStep
  PROVE  Pr!SpecsFromPlugins'
<1>1. CASE Pr!Boot
  <2>1. /\ registered' = Pr!Registered(plugins) /\ plugins' = plugins
        /\ profiles'["private"] = Pr!PrivateSpec(plugins)
        /\ profiles'["shared"] = Pr!SharedSpec(plugins, memory)
    BY <1>1 DEF Pr!Boot, Pr!Kinds, Pr!Index
  <2>2. /\ Pr!Registered(plugins)' = Pr!Registered(plugins)
        /\ Pr!PrivateSpec(plugins)' = Pr!PrivateSpec(plugins)
    BY <2>1 DEF Pr!PrivateSpec, Pr!Registered, Pr!Discovered
  <2>3. \A m : Pr!SharedSpec(plugins, m)' = Pr!SharedSpec(plugins, m)
    BY <2>1 DEF Pr!SharedSpec, Pr!Registered, Pr!Discovered, Pr!ServersOf
  <2>4. QED
    BY <2>1, <2>2, <2>3 DEF Pr!SpecsFromPlugins, PrTypes
<1>2. CASE Pr!EditPlugins \/ Pr!Die
  BY <1>2 DEF Pr!EditPlugins, Pr!Die, Pr!SpecsFromPlugins
<1>3. CASE bot' # "down" => bot # "down" /\ UNCHANGED <<plugins, registered, profiles>>
  <2>1. SUFFICES ASSUME bot' # "down" PROVE Pr!SpecsFromPlugins'
    BY DEF Pr!SpecsFromPlugins
  <2>2. /\ Pr!Registered(plugins)' = Pr!Registered(plugins)
        /\ Pr!PrivateSpec(plugins)' = Pr!PrivateSpec(plugins)
        /\ \A m : Pr!SharedSpec(plugins, m)' = Pr!SharedSpec(plugins, m)
    BY <1>3, <2>1 DEF Pr!SharedSpec, Pr!PrivateSpec, Pr!Registered, Pr!Discovered, Pr!ServersOf
  <2>3. QED
    BY <1>3, <2>1, <2>2 DEF Pr!SpecsFromPlugins
<1>4. ASSUME (\E x \in Pr!Inputs : Pr!Vanishes(x)) \/ Pr!Restored \/ Pr!WriteMemory
             \/ Pr!BeginSpawn \/ Pr!FinishSpawn \/ Pr!SpawnRaises \/ Pr!Switch \/ Pr!Bind \/ Pr!Exit
      PROVE  bot' # "down" => bot # "down" /\ UNCHANGED <<plugins, registered, profiles>>
  BY <1>4 DEF Pr!Vanishes, Pr!Restored, Pr!WriteMemory, Pr!BeginSpawn, Pr!FinishSpawn,
       Pr!SpawnRaises, Pr!Switch, Pr!Bind, Pr!Exit
<1>5. QED
  BY <1>1, <1>2, <1>3, <1>4 DEF ProfileStep

\* An argv depends on what is registered alone.
LEMMA ArgvStays ==
  ASSUME registered' = registered, NEW s
  PROVE  Pr!Argv(s)' = Pr!Argv(s)
  BY DEF Pr!Argv, Pr!ToolLists

LEMMA ProcStep ==
  ASSUME PrTypes, Pr!ProcIsOfSpec, ProfileStep
  PROVE  Pr!ProcIsOfSpec'
<1> USE DEF Pr!ProcIsOfSpec, Pr!process
<1>1. CASE Pr!BeginSpawn
  <2>1. /\ bot' # "down" /\ ordered' = Pr!Argv(profiles[spec]) /\ proc' = Pr!NoProc
        /\ spec' \in Pr!Kinds /\ UNCHANGED <<registered, profiles, spec>>
    BY <1>1 DEF Pr!BeginSpawn, PrTypes
  <2>2. Pr!Argv(profiles[spec])' = Pr!Argv(profiles[spec])
    BY <2>1, ArgvStays
  <2>3. QED
    BY <2>1, <2>2
<1>2. CASE /\ UNCHANGED <<registered, profiles, spec, overtaken>>
           /\ {ordered', proc'} \subseteq {ordered, proc, Pr!NoProc}
           /\ bot' = "down" => bot = "down"
  <2>1. \A k \in Pr!Kinds : Pr!Argv(profiles[k])' = Pr!Argv(profiles[k])
    BY <1>2, ArgvStays
  <2>2. QED
    BY <1>2, <2>1 DEF Pr!NoProc
<1>3. CASE Pr!Switch
  <2>1. \A k \in Pr!Kinds : Pr!Argv(profiles[k])' = Pr!Argv(profiles[k])
    BY <1>3, ArgvStays DEF Pr!Switch
  <2>2. /\ bot' # "down" /\ proc' = Pr!NoProc /\ UNCHANGED ordered
        /\ overtaken' = (overtaken \/ ordered # Pr!NoProc)
    BY <1>3 DEF Pr!Switch
  <2>3. \A p \in {ordered, proc}' \ {Pr!NoProc} : p = ordered /\ overtaken'
    BY <2>2
  <2>4. QED
    BY <2>1, <2>2, <2>3
<1>4. CASE Pr!Boot \/ Pr!Die
  BY <1>4 DEF Pr!Boot, Pr!Die, Pr!NoProc
<1>5. ASSUME Pr!EditPlugins \/ (\E x \in Pr!Inputs : Pr!Vanishes(x)) \/ Pr!Restored
             \/ Pr!WriteMemory \/ Pr!FinishSpawn \/ Pr!SpawnRaises \/ Pr!Bind \/ Pr!Exit
      PROVE  /\ UNCHANGED <<registered, profiles, spec, overtaken>>
             /\ {ordered', proc'} \subseteq {ordered, proc, Pr!NoProc}
             /\ bot' = "down" => bot = "down"
  BY <1>5 DEF Pr!Vanishes, Pr!Restored, Pr!WriteMemory, Pr!EditPlugins, Pr!FinishSpawn,
       Pr!SpawnRaises, Pr!Bind, Pr!Exit, Pr!NoProc
<1>6. QED
  BY <1>1, <1>2, <1>3, <1>4, <1>5 DEF ProfileStep

LEMMA PrKeeps ==
  ASSUME Pr!IInv, ProfileStep
  PROVE  Pr!IInv'
<1>1. PrTypes
  BY DEF PrTypes, Pr!IInv, Pr!TypeOK
<1>2. PrTypes' /\ Pr!SpecsFromPlugins' /\ Pr!ProcIsOfSpec'
  BY <1>1, PrTypesStep, SpecsStep, ProcStep DEF Pr!IInv
<1>3. (PrTypes /\ Pr!SpecsFromPlugins /\ Pr!ProcIsOfSpec => Pr!IInv)'
  BY PrFollows, PTL
<1>4. QED
  BY <1>2, <1>3

LEMMA PrRests ==
  ASSUME Pr!IInv, UNCHANGED profileVars
  PROVE  Pr!IInv'
<1>1. PrTypes' /\ Pr!SpecsFromPlugins'
  BY DEF profileVars, PrTypes, Pr!IInv, Pr!TypeOK, Pr!SpecsFromPlugins
<1>2. Pr!ProcIsOfSpec'
  <2>1. \A k \in Pr!Kinds : Pr!Argv(profiles[k])' = Pr!Argv(profiles[k])
    BY ArgvStays DEF profileVars
  <2>2. QED
    BY <2>1 DEF profileVars, Pr!IInv, Pr!ProcIsOfSpec
<1>3. (PrTypes /\ Pr!SpecsFromPlugins /\ Pr!ProcIsOfSpec => Pr!IInv)'
  BY PrFollows, PTL
<1>4. QED
  BY <1>1, <1>2, <1>3

LEMMA PrInitially ==
  ASSUME Pr!Init
  PROVE  Pr!IInv
  BY DEF Pr!Init, Pr!InitWith, Pr!IInv, Pr!TypeOK, Pr!SpecsFromPlugins, Pr!ProcIsOfSpec,
       Pr!ProfilesAgree, Pr!Kinds

-----------------------------------------------------------------------------
(* Notes *)

Disks == [No!Files -> {No!Absent} \cup [kind : {"file"}, head : SUBSET No!Entries,
                                        tail : SUBSET No!Entries, valid : BOOLEAN]]
NoteCalls == {No!Idle} \cup No!Reading \cup No!Writing

Contents == [f \in No!Files |-> No!Content(f)]

\* A call c knows what its file holds, C, if K is what this process has seen or is excused
\* for, and B what it is excused for.
Knows(c, C, K, B) ==
  /\ c.pc = "credit" => C \subseteq K \cup c.got \cup c.cut
  /\ c.pc = "truncate" \/ c.pc = "fill" => C \cup c.put \subseteq K
  /\ c.pc = "truncate" /\ c.op = "append" => C \ c.put \subseteq B

HaveSeen ==
  /\ \A f \in credited : Contents[f] \subseteq seen \cup blind
  /\ \A t \in Calls : Knows(noteCall[t], Contents[noteCall[t].f], seen \cup blind, blind)

\* What the types say of a file and of a call.
LEMMA FileFacts ==
  ASSUME No!TypeOK, NEW f \in No!Files
  PROVE  /\ No!Exists(f)
                => disk[f].head \subseteq No!Entries /\ disk[f].tail \subseteq No!Entries
         /\ No!Exists(f) => Contents[f] = disk[f].head \cup disk[f].tail
         /\ ~No!Exists(f) => Contents[f] = {}
         /\ Contents[f] \subseteq No!Entries /\ No!Content(f) = Contents[f]
<1>1. disk[f] \in {No!Absent} \cup [kind : {"file"}, head : SUBSET No!Entries,
                                    tail : SUBSET No!Entries, valid : BOOLEAN]
  BY DEF No!TypeOK
<1>2. No!Exists(f) => disk[f].head \subseteq No!Entries /\ disk[f].tail \subseteq No!Entries
  BY <1>1 DEF No!Exists
<1>3. Contents[f] = No!Content(f)
  BY DEF Contents
<1>4. QED
  BY <1>2, <1>3 DEF No!Content

LEMMA CallFacts ==
  ASSUME No!TypeOK, NEW t \in Calls
  PROVE  /\ noteCall[t].pc \in {"credit", "truncate", "fill"} =>
                /\ noteCall[t].f \in No!Files /\ No!Busy(t, noteCall[t].f)
         /\ noteCall[t].pc = "credit" =>
                noteCall[t].got \subseteq No!Entries /\ noteCall[t].cut \subseteq No!Entries
         /\ noteCall[t].pc = "truncate" \/ noteCall[t].pc = "fill" =>
                /\ noteCall[t] \in No!Writing /\ noteCall[t].put \subseteq No!Entries
                /\ noteCall[t].got = {} /\ noteCall[t].cut = {}
                /\ noteCall[t].op = "write" \/ noteCall[t].op = "append"
<1>1. noteCall[t] \in NoteCalls
  BY DEF No!TypeOK, NoteCalls
<1>2. QED
  BY <1>1 DEF NoteCalls, No!Idle, No!Reading, No!Writing, No!Busy

LEMMA HaveSeenIs ==
  ASSUME No!TypeOK
  PROVE  HaveSeen <=> No!CreditedIsSeen /\ No!CallsHaveSeen
<1>1. \A f \in credited : Contents[f] = No!Content(f)
  BY FileFacts DEF No!TypeOK
<1>2. \A t \in Calls : noteCall[t].pc \in {"credit", "truncate", "fill"} =>
          Contents[noteCall[t].f] = No!Content(noteCall[t].f)
  BY FileFacts, CallFacts
<1>3. QED
  BY <1>1, <1>2 DEF HaveSeen, Knows, No!CreditedIsSeen, No!CallsHaveSeen, No!At

\* A call goes on with record r, the others stay.
LEMMA OneCallMoves ==
  ASSUME No!TypeOK, NEW t \in Calls, NEW r \in NoteCalls, noteCall' = [noteCall EXCEPT ![t] = r]
  PROVE  /\ noteCall'[t] = r
         /\ \A u \in Calls : u # t => noteCall'[u] = noteCall[u]
         /\ noteCall' \in [Calls -> NoteCalls]
  BY DEF No!TypeOK, NoteCalls

\* A file's content after it was written.
LEMMA OneFileChanges ==
  ASSUME No!TypeOK, NEW f \in No!Files, NEW h \in SUBSET No!Entries,
             NEW l \in SUBSET No!Entries,
         NEW v \in BOOLEAN, disk' = [disk EXCEPT ![f] = No!File(h, l, v)]
  PROVE  /\ disk' \in Disks /\ Contents'[f] = h \cup l
         /\ \A g \in No!Files : g # f => Contents'[g] = Contents[g]
<1>1. No!File(h, l, v) \in [kind : {"file"}, head : SUBSET No!Entries,
                            tail : SUBSET No!Entries, valid : BOOLEAN]
  BY DEF No!File
<1>2. disk' \in Disks
  BY <1>1 DEF No!TypeOK, Disks
<1>3. disk'[f] = No!File(h, l, v) /\ \A g \in No!Files : g # f => disk'[g] = disk[g]
  BY DEF No!TypeOK
<1>4. Contents'[f] = h \cup l
  BY <1>3 DEF Contents, No!Content, No!Exists, No!File, No!Absent
<1>5. \A g \in No!Files : g # f => Contents'[g] = Contents[g]
  BY <1>3 DEF Contents, No!Content, No!Exists
<1>6. QED
  BY <1>2, <1>4, <1>5

LEMMA NoFileChanges ==
  ASSUME disk' = disk
  PROVE  Contents' = Contents
  BY DEF Contents, No!Content, No!Exists

\* An entry that is new.
LEMMA NewEntry ==
  ASSUME No!TypeOK, No!New
  PROVE  noteEntries' \in No!Entries /\ noteEntries' \in 0 .. MaxEntries
  BY ServicesAssumption DEF No!TypeOK, No!New, No!Entries

\* A call that stays where it is still knows its file, if what came in has its excuse.
LEMMA StillKnows ==
  ASSUME NEW c, NEW C, NEW D, NEW K, NEW L, NEW B, NEW E, Knows(c, C, K, B),
         K \subseteq L, B \subseteq E, E \subseteq L, D \subseteq C \cup E
  PROVE  Knows(c, D, L, E)
  BY DEF Knows

LEMMA OthersKnow ==
  ASSUME No!TypeOK, HaveSeen, NEW u \in Calls, noteCall'[u] = noteCall[u],
         seen \subseteq seen', blind \subseteq blind',
         noteCall[u].pc \in {"credit", "truncate", "fill"} =>
             Contents'[noteCall[u].f] \subseteq Contents[noteCall[u].f] \cup blind'
  PROVE  Knows(noteCall'[u], Contents'[noteCall'[u].f], seen' \cup blind', blind')
<1>1. CASE noteCall[u].pc \in {"credit", "truncate", "fill"}
  <2>1. Knows(noteCall[u], Contents[noteCall[u].f], seen \cup blind, blind)
    BY DEF HaveSeen
  <2>2. Knows(noteCall[u], Contents'[noteCall[u].f], seen' \cup blind', blind')
    BY <1>1, <2>1, StillKnows
  <2>3. QED
    BY <2>2
<1>2. CASE noteCall[u].pc \notin {"credit", "truncate", "fill"}
  BY <1>2 DEF Knows
<1>3. QED
  BY <1>1, <1>2

LEMMA ReadStep ==
  ASSUME No!TypeOK, HaveSeen, No!NotesKept, NEW t \in Calls, NEW f \in No!Files, No!Read(t, f)
  PROVE  (No!TypeOK /\ HaveSeen /\ No!NotesKept)'
<1> DEFINE r == [pc |-> "credit", f |-> f, got |-> disk[f].head, cut |-> disk[f].tail]
<1>1. /\ noteCall' = [noteCall EXCEPT ![t] = r] /\ No!Exists(f)
      /\ UNCHANGED <<disk, credited, seen, blind, destroyed, killed, noteEntries>>
  BY DEF No!Read
<1>2. /\ r \in NoteCalls /\ r.pc = "credit" /\ r.f = f /\ Contents[f] = r.got \cup r.cut
  BY <1>1, FileFacts DEF No!Reading, NoteCalls
<1> HIDE DEF r
<1>3. /\ noteCall'[t] = r /\ \A u \in Calls : u # t => noteCall'[u] = noteCall[u]
      /\ noteCall' \in [Calls -> NoteCalls]
  BY <1>1, <1>2, OneCallMoves
<1>4. No!TypeOK'
  BY <1>1, <1>3 DEF No!TypeOK, NoteCalls
<1>5. Contents' = Contents
  BY <1>1, NoFileChanges
<1>6. Knows(noteCall'[t], Contents'[noteCall'[t].f], seen' \cup blind', blind')
  BY <1>2, <1>3, <1>5 DEF Knows
<1>7. \A u \in Calls : Knows(noteCall'[u], Contents'[noteCall'[u].f], seen' \cup blind', blind')
  BY <1>1, <1>3, <1>5, <1>6, OthersKnow
<1>8. QED
  BY <1>1, <1>4, <1>5, <1>7 DEF HaveSeen, No!NotesKept

\* A write or an append begins: what its file holds was seen, or excused.
LEMMA WriteStep ==
  ASSUME No!TypeOK, HaveSeen, No!NotesKept, NEW t \in Calls, NEW f \in No!Files,
         No!Write(t, f) \/ No!Append(t, f)
  PROVE  (No!TypeOK /\ HaveSeen /\ No!NotesKept)'
<1> DEFINE put == IF No!Write(t, f) THEN {noteEntries'} ELSE Contents[f] \cup {noteEntries'}
           op == IF No!Write(t, f) THEN "write" ELSE "append"
           r == [pc |-> "truncate", f |-> f, put |-> put, got |-> {}, cut |-> {}, op |-> op]
<1>1. /\ noteCall' = [noteCall EXCEPT ![t] = r] /\ No!Gate(f) /\ No!New
      /\ seen' = seen \cup {noteEntries'}
      /\ UNCHANGED <<disk, credited, blind, destroyed, killed>>
  BY FileFacts DEF No!Write, No!Append
<1>2. Contents[f] \subseteq seen \cup blind
  BY <1>1, FileFacts DEF No!Gate, HaveSeen
<1>3. /\ put \subseteq No!Entries /\ put \subseteq seen' \cup blind
             /\ op \in {"write", "append"}
      /\ op = "append" => Contents[f] \subseteq put
  BY <1>1, <1>2, FileFacts, NewEntry
<1> HIDE DEF put, op
<1>4. /\ r \in NoteCalls /\ r.pc = "truncate" /\ r.f = f /\ r.put = put /\ r.op = op
  BY <1>3 DEF No!Writing, NoteCalls
<1> HIDE DEF r
<1>5. /\ noteCall'[t] = r /\ \A u \in Calls : u # t => noteCall'[u] = noteCall[u]
      /\ noteCall' \in [Calls -> NoteCalls]
  BY <1>1, <1>4, OneCallMoves
<1>6. No!TypeOK'
  BY <1>1, <1>5, NewEntry DEF No!TypeOK, NoteCalls
<1>7. Contents' = Contents
  BY <1>1, NoFileChanges
<1>8. Knows(noteCall'[t], Contents'[noteCall'[t].f], seen' \cup blind', blind')
  BY <1>1, <1>2, <1>3, <1>4, <1>5, <1>7 DEF Knows
<1>9. \A u \in Calls : Knows(noteCall'[u], Contents'[noteCall'[u].f], seen' \cup blind', blind')
  BY <1>1, <1>5, <1>7, <1>8, OthersKnow
<1>10. QED
  BY <1>1, <1>6, <1>7, <1>9 DEF HaveSeen, No!NotesKept

\* Truncating a file drops only what was seen or is excused.
LEMMA TruncateStep ==
  ASSUME No!TypeOK, HaveSeen, No!NotesKept, NEW t \in Calls, No!Truncate(t)
  PROVE  (No!TypeOK /\ HaveSeen /\ No!NotesKept)'
<1> DEFINE f == noteCall[t].f
           put == noteCall[t].put
           r == [noteCall[t] EXCEPT !.pc = "fill"]
           meant == IF noteCall[t].op = "write" THEN seen ELSE {}
<1>0. noteCall[t].pc = "truncate"
  BY DEF No!Truncate, No!At
<1>1. /\ noteCall[t] \in No!Writing /\ f \in No!Files
      /\ noteCall[t].op = "write" \/ noteCall[t].op = "append"
  BY <1>0, CallFacts
<1>2. /\ r \in NoteCalls /\ r.pc = "fill" /\ r.f = f /\ r.put = put
  BY <1>1 DEF No!Writing, NoteCalls
<1>3. /\ disk' = [disk EXCEPT ![f] = No!File({}, {}, FALSE)]
      /\ noteCall' = [noteCall EXCEPT ![t] = r]
      /\ destroyed' = destroyed \cup ((No!Content(f) \ put) \ (meant \cup blind))
      /\ UNCHANGED <<credited, seen, blind, killed, noteEntries>>
  BY DEF No!Truncate
<1>4. /\ Contents[f] \cup put \subseteq seen \cup blind
      /\ noteCall[t].op = "append" => Contents[f] \ put \subseteq blind
  BY <1>0 DEF HaveSeen, Knows
<1>5. No!Content(f) = Contents[f]
  BY <1>1, FileFacts
<1>6. (Contents[f] \ put) \ (meant \cup blind) = {}
  BY <1>1, <1>4
<1> HIDE DEF f, put, r, meant
<1>7. No!NotesKept'
  BY <1>3, <1>5, <1>6 DEF No!NotesKept
<1>8. /\ disk' \in Disks /\ Contents'[f] = {}
      /\ \A g \in No!Files : g # f => Contents'[g] = Contents[g]
  <2>1. {} \in SUBSET No!Entries /\ FALSE \in BOOLEAN /\ {} \cup {} = {}
    OBVIOUS
  <2>2. QED
    BY <1>1, <1>3, <2>1, OneFileChanges
<1>9. /\ noteCall'[t] = r /\ \A u \in Calls : u # t => noteCall'[u] = noteCall[u]
      /\ noteCall' \in [Calls -> NoteCalls]
  BY <1>2, <1>3, OneCallMoves
<1>10. No!TypeOK'
  BY <1>3, <1>8, <1>9 DEF No!TypeOK, NoteCalls, Disks
<1>11. \A g \in No!Files : Contents'[g] \subseteq Contents[g]
  BY <1>8
<1>12. Knows(noteCall'[t], Contents'[noteCall'[t].f], seen' \cup blind', blind')
  BY <1>2, <1>3, <1>4, <1>8, <1>9 DEF Knows
<1>13. \A u \in Calls : u # t =>
          Knows(noteCall'[u], Contents'[noteCall'[u].f], seen' \cup blind', blind')
  BY <1>3, <1>9, <1>11, OthersKnow, CallFacts
<1>14. \A g \in credited' : Contents'[g] \subseteq seen' \cup blind'
  BY <1>3, <1>11 DEF HaveSeen, No!TypeOK
<1>15. QED
  BY <1>7, <1>10, <1>12, <1>13, <1>14 DEF HaveSeen

\* What is filled in was seen, or is excused; a call beside it has its excuse.
LEMMA FillStep ==
  ASSUME No!TypeOK, HaveSeen, No!NotesKept, NEW t \in Calls, NEW left, No!Fill(t, left)
  PROVE  (No!TypeOK /\ HaveSeen /\ No!NotesKept)'
<1> DEFINE f == noteCall[t].f
           r == [noteCall[t] EXCEPT !.pc = "credit"]
           content == noteCall[t].put \cup left
<1>0. noteCall[t].pc = "fill"
  BY DEF No!Fill, No!At
<1>1. /\ noteCall[t] \in No!Writing /\ f \in No!Files /\ noteCall[t].put \subseteq No!Entries
  BY <1>0, CallFacts
<1>2. /\ r \in NoteCalls /\ r.pc = "credit" /\ r.f = f
  BY <1>1 DEF No!Writing, NoteCalls
<1>3. /\ left \in {{}, No!Content(f)}
      /\ disk' = [disk EXCEPT ![f] = No!File(content, {}, TRUE)]
      /\ blind' = IF \E u \in Calls \ {t} : No!Busy(u, f) THEN blind \cup content ELSE blind
      /\ noteCall' = [noteCall EXCEPT ![t] = r]
      /\ UNCHANGED <<credited, seen, destroyed, killed, noteEntries>>
  BY DEF No!Fill
<1>4. Contents[f] \cup noteCall[t].put \subseteq seen \cup blind
  BY <1>0 DEF HaveSeen, Knows
<1>5. content \subseteq seen \cup blind /\ content \subseteq No!Entries
  BY <1>1, <1>3, <1>4, FileFacts
<1>6. blind \subseteq blind'
  BY <1>3
<1> HIDE DEF f, r, content
<1>7. /\ disk' \in Disks /\ Contents'[f] = content
      /\ \A g \in No!Files : g # f => Contents'[g] = Contents[g]
  <2>1. {} \in SUBSET No!Entries /\ content \in SUBSET No!Entries /\ content \cup {} = content
    BY <1>5
  <2>2. QED
    BY <1>1, <1>3, <2>1, OneFileChanges
<1>8. /\ noteCall'[t] = r /\ \A u \in Calls : u # t => noteCall'[u] = noteCall[u]
      /\ noteCall' \in [Calls -> NoteCalls]
  BY <1>2, <1>3, OneCallMoves
<1>9. No!TypeOK'
  BY <1>3, <1>7, <1>8 DEF No!TypeOK, NoteCalls, Disks
<1>10. Knows(noteCall'[t], Contents'[noteCall'[t].f], seen' \cup blind', blind')
  BY <1>2, <1>3, <1>5, <1>6, <1>7, <1>8 DEF Knows
<1>11. ASSUME NEW u \in Calls, u # t
       PROVE  Knows(noteCall'[u], Contents'[noteCall'[u].f], seen' \cup blind', blind')
  <2>1. CASE noteCall[u].pc \in {"credit", "truncate", "fill"} /\ noteCall[u].f = f
    <3>1. No!Busy(u, f)
      BY <2>1, CallFacts
    <3>2. blind' = blind \cup content
      BY <1>3, <1>11, <3>1
    <3>3. Contents'[noteCall[u].f] \subseteq Contents[noteCall[u].f] \cup blind'
      BY <1>7, <2>1, <3>2
    <3>4. QED
      BY <1>3, <1>6, <1>8, <1>11, <3>3, OthersKnow
  <2>2. CASE noteCall[u].pc \in {"credit", "truncate", "fill"} /\ noteCall[u].f # f
    <3>1. Contents'[noteCall[u].f] \subseteq Contents[noteCall[u].f] \cup blind'
      BY <1>7, <2>2, CallFacts
    <3>2. QED
      BY <1>3, <1>6, <1>8, <1>11, <3>1, OthersKnow
  <2>3. CASE noteCall[u].pc \notin {"credit", "truncate", "fill"}
    BY <1>8, <1>11, <2>3 DEF Knows
  <2>4. QED
    BY <2>1, <2>2, <2>3
<1>12. \A g \in credited' : Contents'[g] \subseteq seen' \cup blind'
  <2>1. SUFFICES ASSUME NEW g \in credited PROVE Contents'[g] \subseteq seen' \cup blind'
    BY <1>3
  <2>2. g \in No!Files /\ Contents[g] \subseteq seen \cup blind
    BY DEF HaveSeen, No!TypeOK
  <2>3. QED
    BY <1>3, <1>5, <1>6, <1>7, <2>2
<1>13. QED
  BY <1>3, <1>9, <1>10, <1>11, <1>12 DEF HaveSeen, No!NotesKept

\* The end of a call credits its file with what it has shown the model.
LEMMA CreditStep ==
  ASSUME No!TypeOK, HaveSeen, No!NotesKept, NEW t \in Calls, No!Credit(t)
  PROVE  (No!TypeOK /\ HaveSeen /\ No!NotesKept)'
<1>0. noteCall[t].pc = "credit"
  BY DEF No!Credit, No!At
<1>1. /\ credited' = credited \cup {noteCall[t].f}
      /\ seen' = seen \cup noteCall[t].got /\ blind' = blind \cup noteCall[t].cut
      /\ noteCall' = [noteCall EXCEPT ![t] = No!Idle]
      /\ UNCHANGED <<disk, destroyed, killed, noteEntries>>
  BY DEF No!Credit
<1>2. noteCall[t].f \in No!Files /\ No!Idle \in NoteCalls
  BY <1>0, CallFacts DEF NoteCalls
<1>3. /\ noteCall'[t] = No!Idle /\ \A u \in Calls : u # t => noteCall'[u] = noteCall[u]
      /\ noteCall' \in [Calls -> NoteCalls]
  BY <1>1, <1>2, OneCallMoves
<1>4. No!TypeOK'
  BY <1>1, <1>2, <1>3 DEF No!TypeOK, NoteCalls
<1>5. Contents' = Contents
  BY <1>1, NoFileChanges
<1>6. Contents[noteCall[t].f] \subseteq seen' \cup blind'
  BY <1>0, <1>1 DEF HaveSeen, Knows
<1>7. Knows(noteCall'[t], Contents'[noteCall'[t].f], seen' \cup blind', blind')
  BY <1>3 DEF Knows, No!Idle
<1>8. \A u \in Calls : u # t =>
          Knows(noteCall'[u], Contents'[noteCall'[u].f], seen' \cup blind', blind')
  BY <1>1, <1>3, <1>5, OthersKnow
<1>9. \A g \in credited' : Contents'[g] \subseteq seen' \cup blind'
  BY <1>1, <1>5, <1>6 DEF HaveSeen
<1>10. QED
  BY <1>1, <1>4, <1>7, <1>8, <1>9 DEF HaveSeen, No!NotesKept

\* The operator's entry is excused for whoever has read the file, or is at it.
LEMMA EditByHandStep ==
  ASSUME No!TypeOK, HaveSeen, No!NotesKept, NEW f \in No!Files, NEW long \in BOOLEAN,
         NEW valid \in BOOLEAN, No!EditByHand(f, long, valid)
  PROVE  (No!TypeOK /\ HaveSeen /\ No!NotesKept)'
<1> DEFINE head == IF No!Exists(f) THEN disk[f].head ELSE {}
           tail == IF No!Exists(f) THEN disk[f].tail ELSE {}
           e == noteEntries'
           h == IF long THEN head ELSE head \cup {e}
           l == IF long THEN tail \cup {e} ELSE tail
<1>1. /\ disk' = [disk EXCEPT ![f] = IF long THEN No!File(head, tail \cup {e}, valid)
                                             ELSE No!File(head \cup {e}, tail, valid)]
      /\ blind' = IF f \in credited \/ \E t \in Calls : No!Busy(t, f)
                  THEN blind \cup {e} ELSE blind
      /\ No!New /\ UNCHANGED <<credited, noteCall, seen, destroyed, killed>>
  BY DEF No!EditByHand
<1>2. /\ head \subseteq No!Entries /\ tail \subseteq No!Entries /\ e \in No!Entries
      /\ e \in 0 .. MaxEntries /\ Contents[f] = head \cup tail
  BY <1>1, FileFacts, NewEntry
<1> HIDE DEF head, tail
<1>3. /\ h \in SUBSET No!Entries /\ l \in SUBSET No!Entries /\ h \cup l = Contents[f] \cup {e}
  BY <1>2
<1>4. disk' = [disk EXCEPT ![f] = No!File(h, l, valid)]
  BY <1>1
<1> HIDE DEF h, l, e
<1>5. /\ disk' \in Disks /\ Contents'[f] = Contents[f] \cup {e}
      /\ \A g \in No!Files : g # f => Contents'[g] = Contents[g]
  <2>1. h \in SUBSET No!Entries /\ l \in SUBSET No!Entries /\ valid \in BOOLEAN
    BY <1>3
  <2>2. /\ disk' \in Disks /\ Contents'[f] = h \cup l
        /\ \A g \in No!Files : g # f => Contents'[g] = Contents[g]
    BY <1>4, <2>1, OneFileChanges
  <2>3. QED
    BY <1>3, <2>2
<1>6. No!TypeOK'
  BY <1>1, <1>2, <1>5 DEF No!TypeOK, Disks, e
<1>7. blind \subseteq blind'
  BY <1>1
<1>8. ASSUME NEW u \in Calls
      PROVE  Knows(noteCall'[u], Contents'[noteCall'[u].f], seen' \cup blind', blind')
  <2>1. noteCall[u].pc \in {"credit", "truncate", "fill"} =>
            Contents'[noteCall[u].f] \subseteq Contents[noteCall[u].f] \cup blind'
    BY <1>1, <1>5, CallFacts
  <2>2. QED
    BY <1>1, <1>7, <2>1, OthersKnow
<1>9. \A g \in credited' : Contents'[g] \subseteq seen' \cup blind'
  <2>1. SUFFICES ASSUME NEW g \in credited PROVE Contents'[g] \subseteq seen' \cup blind'
    BY <1>1
  <2>2. g \in No!Files /\ Contents[g] \subseteq seen \cup blind
    BY DEF HaveSeen, No!TypeOK
  <2>3. QED
    BY <1>1, <1>5, <1>7, <2>2
<1>10. QED
  BY <1>1, <1>6, <1>8, <1>9 DEF HaveSeen, No!NotesKept

\* A new process has read nothing and has no call under way; what an append lost was killed.
LEMMA NotesRestart ==
  ASSUME No!TypeOK, HaveSeen, No!NotesKept, No!Restart
  PROVE  (No!TypeOK /\ HaveSeen /\ No!NotesKept)'
<1> DEFINE appending == {u \in Calls : No!At(u, "fill") /\ noteCall[u].op = "append"}
<1>1. /\ credited' = {} /\ noteCall' = [t \in Calls |-> No!Idle]
      /\ killed' = killed \cup UNION {No!Unfilled(t) : t \in Calls}
      /\ destroyed' = destroyed \cup UNION {No!Unfilled(t) : t \in appending}
      /\ UNCHANGED <<disk, noteEntries>>
  BY DEF No!Restart
<1>2. \A t \in Calls : noteCall'[t] = No!Idle
  BY <1>1
<1>3. HaveSeen'
  BY <1>1, <1>2 DEF HaveSeen, Knows, No!Idle
<1>4. No!NotesKept'
  <2>1. UNION {No!Unfilled(t) : t \in appending} \subseteq UNION {No!Unfilled(t) : t \in Calls}
    OBVIOUS
  <2>2. QED
    BY <1>1, <2>1 DEF No!NotesKept
<1>5. No!TypeOK'
  BY <1>1 DEF No!TypeOK
<1>6. QED
  BY <1>3, <1>4, <1>5

NoteStep ==
  \/ \E t \in Calls, f \in No!Files : No!Read(t, f)
  \/ \E t \in Calls, f \in No!Files : No!Write(t, f)
  \/ \E t \in Calls, f \in No!Files : No!Append(t, f)
  \/ \E t \in Calls : No!Truncate(t)
  \/ \E t \in Calls : No!Credit(t)
  \/ \E t \in Calls, left \in SUBSET (1 .. MaxEntries) : No!Fill(t, left)
  \/ \E f \in No!Files, long, valid \in BOOLEAN : No!EditByHand(f, long, valid)
  \/ No!Restart

LEMMA NotesKeep ==
  ASSUME No!IInv, NoteStep
  PROVE  No!IInv'
<1>1. No!TypeOK /\ HaveSeen /\ No!NotesKept
  BY HaveSeenIs DEF No!IInv
<1>2. (No!TypeOK /\ HaveSeen /\ No!NotesKept)'
  BY <1>1, NotesRestart, ReadStep, WriteStep, TruncateStep, CreditStep, FillStep, EditByHandStep
     DEF NoteStep
<1>3. (No!TypeOK => (HaveSeen <=> No!CreditedIsSeen /\ No!CallsHaveSeen))'
  BY HaveSeenIs, PTL
<1>4. QED
  BY <1>2, <1>3 DEF No!IInv

LEMMA NotesRest ==
  ASSUME No!IInv, UNCHANGED noteVars
  PROVE  No!IInv'
  BY DEF No!IInv, noteVars, No!TypeOK, No!CreditedIsSeen, No!CallsHaveSeen, No!NotesKept, No!At,
       No!Content, No!Exists

LEMMA NotesInitially ==
  ASSUME No!Init
  PROVE  No!IInv
  BY ServicesAssumption DEF No!Init, No!IInv, No!TypeOK, No!CreditedIsSeen, No!CallsHaveSeen,
       No!NotesKept, No!At, No!Idle

-----------------------------------------------------------------------------
(* Instructions *)

Committing == [pc : {"backup", "tmp", "replace", "fill"}, put : Pm!Version, alone : BOOLEAN]
ProjectCalls == [Calls -> {Pm!Idle} \cup Committing]

\* The version on disk has a backup.
Covered == Pm!BackedUp(project.has)

\* An overwritten version stays backed up, or clobbered, while neither loses any.
LEMMA PastStays ==
  ASSUME Pm!BackupCovers, past' = past, clobbered \subseteq clobbered',
         \A v \in past : Pm!BackedUp(v) => Pm!BackedUp(v)' \/ v \in clobbered'
  PROVE  Pm!BackupCovers'
  BY DEF Pm!BackupCovers

\* A commit that another is beside does not count as alone.
LEMMA BesideIsNotAlone ==
  ASSUME Pm!AloneIsAlone, NEW t \in Calls, NEW u \in Calls, u # t,
         projectCall[t] # Pm!Idle, projectCall[u] # Pm!Idle
  PROVE  ~projectCall[u].alone
  BY DEF Pm!AloneIsAlone, Pm!Others

\* The commit of t, the only one that may count as alone, goes on.
LEMMA CommitGoesOn ==
  ASSUME Pm!IInv, NEW t \in Calls, projectCall[t] # Pm!Idle,
         NEW pc \in {"backup", "tmp", "replace", "fill"},
         projectCall' = [projectCall EXCEPT ![t].pc = pc],
         projectCall[t].alone /\ pc \in {"tmp", "replace"} => Covered'
  PROVE  projectCall' \in ProjectCalls /\ Pm!AloneIsAlone' /\ Pm!VersionIsSafe'
<1>1. projectCall \in ProjectCalls /\ projectCall[t] \in Committing
  BY DEF Pm!IInv, Pm!TypeOK, ProjectCalls, Committing
<1> DEFINE r == [projectCall[t] EXCEPT !.pc = pc]
<1>2. r \in Committing /\ r.pc = pc /\ r.alone = projectCall[t].alone
  BY <1>1 DEF Committing
<1>3. projectCall' = [projectCall EXCEPT ![t] = r]
  OBVIOUS
<1> HIDE DEF r
<1>4. /\ projectCall' \in ProjectCalls /\ projectCall'[t] = r
      /\ \A u \in Calls : u # t => projectCall'[u] = projectCall[u]
  BY <1>1, <1>2, <1>3 DEF ProjectCalls
<1>5. \A u \in Calls : u # t /\ projectCall'[u] # Pm!Idle => ~projectCall'[u].alone
  BY <1>4, BesideIsNotAlone DEF Pm!IInv
<1>6. \A u \in Calls : projectCall[u] = Pm!Idle => projectCall'[u] = Pm!Idle
  BY <1>4
<1>7. Pm!AloneIsAlone'
  <2>1. projectCall[t].alone => Pm!Others(t) = {}
    BY DEF Pm!IInv, Pm!AloneIsAlone
  <2>2. r.alone => \A u \in Calls \ {t} : projectCall'[u] = Pm!Idle
    BY <1>2, <1>6, <2>1 DEF Pm!Others
  <2>3. QED
    BY <1>4, <1>5, <2>2 DEF Pm!AloneIsAlone, Pm!Others
<1>8. Pm!VersionIsSafe'
  BY <1>2, <1>4, <1>5 DEF Pm!VersionIsSafe, Covered
<1>9. QED
  BY <1>4, <1>7, <1>8

\* The commit of t ends; those that were beside it do not count as alone.
LEMMA CommitEnds ==
  ASSUME Pm!IInv, NEW t \in Calls, projectCall[t] # Pm!Idle,
         projectCall' = [projectCall EXCEPT ![t] = Pm!Idle]
  PROVE  projectCall' \in ProjectCalls /\ Pm!AloneIsAlone' /\ Pm!VersionIsSafe'
<1>1. /\ projectCall' \in ProjectCalls /\ projectCall'[t] = Pm!Idle
      /\ \A u \in Calls : u # t => projectCall'[u] = projectCall[u]
  BY DEF Pm!IInv, Pm!TypeOK, ProjectCalls, Committing
<1>2. \A u \in Calls : projectCall'[u] # Pm!Idle => ~projectCall'[u].alone
  BY <1>1, BesideIsNotAlone DEF Pm!IInv
<1>3. QED
  BY <1>1, <1>2 DEF Pm!AloneIsAlone, Pm!VersionIsSafe

LEMMA CommitTypes ==
  ASSUME Pm!IInv, NEW t \in Calls, projectCall[t] # Pm!Idle
  PROVE  projectCall[t] \in Committing /\ projectCall[t].put \in Pm!Version
  BY DEF Pm!IInv, Pm!TypeOK, Committing

\* A commit that begins counts as alone only if no other is under way, and takes that
\* from those that are.
LEMMA CommitBegins ==
  ASSUME Pm!IInv, NEW t \in Calls, NEW v \in Pm!Version, Pm!Commit(t, v)
  PROVE  Pm!IInv'
<1> DEFINE a == Pm!Others(t) = {}
           r == [pc |-> "backup", put |-> v, alone |-> a]
           s(u) == [projectCall[u] EXCEPT !.alone = FALSE]
<1>1. /\ projectCall' = [u \in Calls |-> IF u = t THEN r
                                        ELSE IF projectCall[u] = Pm!Idle THEN Pm!Idle ELSE s(u)]
      /\ projectEntries < MaxEntries /\ projectEntries' = projectEntries + 1
      /\ UNCHANGED <<project, tmp, backups, second, past, clobbered>>
  BY DEF Pm!Commit
<1>2. a => \A u \in Calls : u # t => projectCall[u] = Pm!Idle
  BY DEF Pm!Others
<1> HIDE DEF a
<1>3. a \in BOOLEAN
  BY DEF a
<1>4. r \in Committing /\ r.pc = "backup" /\ (r.alone <=> a)
  BY <1>3 DEF Committing
<1>5. \A u \in Calls : projectCall[u] # Pm!Idle => s(u) \in Committing /\ ~s(u).alone
  <2>1. SUFFICES ASSUME NEW u \in Calls, projectCall[u] # Pm!Idle
                 PROVE  s(u) \in Committing /\ ~s(u).alone
    OBVIOUS
  <2>2. projectCall[u] \in Committing
    BY <2>1, CommitTypes
  <2>3. QED
    BY <2>2 DEF Committing
<1> HIDE DEF r, s
<1>6. /\ projectCall'[t] = r
      /\ \A u \in Calls : u # t /\ projectCall[u] = Pm!Idle => projectCall'[u] = Pm!Idle
      /\ \A u \in Calls : u # t /\ projectCall[u] # Pm!Idle => projectCall'[u] = s(u)
  BY <1>1
<1>7. projectCall' \in ProjectCalls
  BY <1>1, <1>4, <1>5 DEF ProjectCalls
<1>8. Pm!AloneIsAlone'
  BY <1>2, <1>4, <1>5, <1>6 DEF Pm!AloneIsAlone, Pm!Others
<1>9. Pm!VersionIsSafe'
  BY <1>1, <1>4, <1>5, <1>6 DEF Pm!VersionIsSafe, Pm!BackedUp
<1>10. projectEntries' \in 0 .. MaxEntries
  BY <1>1, ServicesAssumption DEF Pm!IInv, Pm!TypeOK
<1>11. QED
  BY <1>1, <1>7, <1>8, <1>9, <1>10
     DEF Pm!IInv, Pm!TypeOK, ProjectCalls, Committing, Pm!BackupCovers, Pm!BackedUp

LEMMA BackupStep ==
  ASSUME Pm!IInv, NEW t \in Calls, Pm!Backup(t)
  PROVE  Pm!IInv'
<1>1. /\ projectCall[t].pc = "backup" /\ projectCall[t] # Pm!Idle
      /\ projectCall' = [projectCall EXCEPT ![t].pc = "tmp"]
      /\ backups' = [s \in DOMAIN backups \cup {second} |->
                        IF s = second THEN project.has ELSE backups[s]]
      /\ clobbered' = IF second \in DOMAIN backups
                      THEN clobbered \cup ({backups[second]} \ {project.has}) ELSE clobbered
      /\ UNCHANGED <<project, tmp, second, past, projectEntries>>
  BY DEF Pm!Backup, Pm!At, Pm!Goto, Pm!Idle
<1>2. project.has \in Pm!Version
  BY DEF Pm!IInv, Pm!TypeOK, Pm!Present
<1>3. Covered'
  BY <1>1 DEF Covered, Pm!BackedUp
<1>4. /\ DOMAIN backups' \subseteq 0 .. MaxSeconds
      /\ \A s \in DOMAIN backups' : backups'[s] \in Pm!Version
      /\ clobbered' \subseteq Pm!Version
  BY <1>1, <1>2 DEF Pm!IInv, Pm!TypeOK
<1>5. projectCall' \in ProjectCalls /\ Pm!AloneIsAlone' /\ Pm!VersionIsSafe'
  BY <1>1, <1>3, CommitGoesOn
<1>6. Pm!BackupCovers'
  <2>1. ASSUME NEW v, Pm!BackedUp(v) PROVE Pm!BackedUp(v)' \/ v \in clobbered'
    <3>1. PICK s \in DOMAIN backups : backups[s] = v
      BY <2>1 DEF Pm!BackedUp
    <3>2. CASE s = second /\ v # project.has
      BY <1>1, <3>1, <3>2
    <3>3. CASE s # second \/ v = project.has
      <4>1. s \in DOMAIN backups' /\ backups'[s] = v
        BY <1>1, <3>1, <3>3
      <4>2. QED
        BY <4>1 DEF Pm!BackedUp
    <3>4. QED
      BY <3>2, <3>3
  <2>2. QED
    BY <1>1, <2>1, PastStays DEF Pm!IInv
<1>7. QED
  BY <1>1, <1>4, <1>5, <1>6 DEF Pm!IInv, Pm!TypeOK, ProjectCalls, Committing

LEMMA WriteTmpStep ==
  ASSUME Pm!IInv, NEW t \in Calls, Pm!WriteTmp(t)
  PROVE  Pm!IInv'
<1>1. /\ projectCall[t].pc = "tmp" /\ projectCall[t] # Pm!Idle
      /\ projectCall' = [projectCall EXCEPT ![t].pc = "replace"]
      /\ tmp' = Pm!Holds(projectCall[t].put)
      /\ UNCHANGED <<project, backups, second, past, clobbered, projectEntries>>
  BY DEF Pm!WriteTmp, Pm!At, Pm!Goto, Pm!Idle
<1>2. projectCall[t].alone => Covered'
  BY <1>1 DEF Pm!IInv, Pm!VersionIsSafe, Covered, Pm!BackedUp
<1>3. tmp' \in Pm!Present
  BY <1>1, CommitTypes DEF Pm!Holds, Pm!Present
<1>4. projectCall' \in ProjectCalls /\ Pm!AloneIsAlone' /\ Pm!VersionIsSafe'
  BY <1>1, <1>2, CommitGoesOn
<1>5. QED
  BY <1>1, <1>3, <1>4
     DEF Pm!IInv, Pm!TypeOK, ProjectCalls, Committing, Pm!BackupCovers, Pm!BackedUp

\* A commit alone overwrites no version without a backup.
LEMMA OverwrittenIsBackedUp ==
  ASSUME Pm!IInv, NEW t \in Calls, projectCall[t] # Pm!Idle, projectCall[t].pc = "replace",
         Pm!Overwrites(t), UNCHANGED <<backups, clobbered>>
  PROVE  past' \subseteq Pm!Version /\ Pm!BackupCovers'
<1>1. projectCall[t].alone => Pm!BackedUp(project.has)
  BY DEF Pm!IInv, Pm!VersionIsSafe
<1>2. \A v : Pm!BackedUp(v)' <=> Pm!BackedUp(v)
  BY DEF Pm!BackedUp
<1>3. \A v \in past' : v \in past \/ (projectCall[t].alone /\ v = project.has)
  BY DEF Pm!Overwrites
<1>4. Pm!BackupCovers'
  BY <1>1, <1>2, <1>3 DEF Pm!IInv, Pm!BackupCovers
<1>5. QED
  BY <1>3, <1>4 DEF Pm!IInv, Pm!TypeOK, Pm!Present

LEMMA ReplaceStep ==
  ASSUME Pm!IInv, NEW t \in Calls, Pm!Replace(t)
  PROVE  Pm!IInv'
<1>1. /\ projectCall[t].pc = "replace" /\ projectCall[t] # Pm!Idle
      /\ projectCall' = [projectCall EXCEPT ![t] = Pm!Idle]
      /\ UNCHANGED <<backups, clobbered, second, projectEntries>>
      /\ past' = past \/ Pm!Overwrites(t)
  BY DEF Pm!Replace, Pm!At, Pm!Idle
<1>2. past' \subseteq Pm!Version /\ Pm!BackupCovers'
  <2>1. CASE past' = past
    BY <1>1, <2>1 DEF Pm!IInv, Pm!TypeOK, Pm!BackupCovers, Pm!BackedUp
  <2>2. CASE Pm!Overwrites(t)
    BY <1>1, <2>2, OverwrittenIsBackedUp
  <2>3. QED
    BY <1>1, <2>1, <2>2
<1>3. project' \in Pm!Present /\ tmp' \in {Pm!NoFile} \cup Pm!Present
  BY DEF Pm!Replace, Pm!IInv, Pm!TypeOK
<1>4. projectCall' \in ProjectCalls /\ Pm!AloneIsAlone' /\ Pm!VersionIsSafe'
  BY <1>1, CommitEnds
<1>5. QED
  BY <1>1, <1>2, <1>3, <1>4
     DEF Pm!IInv, Pm!TypeOK, ProjectCalls, Committing, Pm!BackupCovers, Pm!BackedUp

LEMMA TruncateInPlaceStep ==
  ASSUME Pm!IInv, NEW t \in Calls, Pm!TruncateInPlace(t)
  PROVE  Pm!IInv'
<1>1. /\ projectCall[t].pc = "replace" /\ projectCall[t] # Pm!Idle
      /\ projectCall' = [projectCall EXCEPT ![t].pc = "fill"]
      /\ project' = Pm!Holds({}) /\ Pm!Overwrites(t)
      /\ UNCHANGED <<tmp, backups, clobbered, second, projectEntries>>
  BY DEF Pm!TruncateInPlace, Pm!At, Pm!Goto, Pm!Idle
<1>2. past' \subseteq Pm!Version /\ Pm!BackupCovers'
  BY <1>1, OverwrittenIsBackedUp
<1>3. project' \in Pm!Present
  BY <1>1 DEF Pm!Holds, Pm!Present, Pm!Version
<1>4. projectCall' \in ProjectCalls /\ Pm!AloneIsAlone' /\ Pm!VersionIsSafe'
  BY <1>1, CommitGoesOn
<1>5. QED
  BY <1>1, <1>2, <1>3, <1>4
     DEF Pm!IInv, Pm!TypeOK, ProjectCalls, Committing, Pm!BackupCovers, Pm!BackedUp

LEMMA FillInPlaceStep ==
  ASSUME Pm!IInv, NEW t \in Calls, Pm!FillInPlace(t)
  PROVE  Pm!IInv'
<1>1. /\ projectCall[t].pc = "fill" /\ projectCall[t] # Pm!Idle
      /\ projectCall' = [projectCall EXCEPT ![t] = Pm!Idle]
      /\ project' = Pm!Holds(projectCall[t].put) /\ tmp' = Pm!NoFile
      /\ UNCHANGED <<backups, second, past, clobbered, projectEntries>>
  BY DEF Pm!FillInPlace, Pm!At, Pm!Idle
<1>2. project' \in Pm!Present
  BY <1>1, CommitTypes DEF Pm!Holds, Pm!Present
<1>3. projectCall' \in ProjectCalls /\ Pm!AloneIsAlone' /\ Pm!VersionIsSafe'
  BY <1>1, CommitEnds
<1>4. QED
  BY <1>1, <1>2, <1>3
     DEF Pm!IInv, Pm!TypeOK, ProjectCalls, Committing, Pm!BackupCovers, Pm!BackedUp

LEMMA ProjectSecond ==
  ASSUME Pm!IInv, Pm!SecondPasses
  PROVE  Pm!IInv'
<1>1. /\ second < MaxSeconds /\ second' = second + 1
      /\ UNCHANGED <<project, tmp, backups, projectCall, past, clobbered, projectEntries>>
  BY DEF Pm!SecondPasses
<1>2. second' \in 0 .. MaxSeconds
  BY <1>1, ServicesAssumption DEF Pm!IInv, Pm!TypeOK
<1>3. QED
  BY <1>1, <1>2 DEF Pm!IInv, Pm!TypeOK, Pm!AloneIsAlone, Pm!VersionIsSafe, Pm!BackupCovers,
       Pm!BackedUp, Pm!Others

LEMMA ProjectRestart ==
  ASSUME Pm!IInv, Pm!Restart
  PROVE  Pm!IInv'
<1>1. /\ projectCall' = [t \in Calls |-> Pm!Idle]
      /\ UNCHANGED <<project, tmp, backups, second, past, clobbered, projectEntries>>
  BY DEF Pm!Restart
<1>2. QED
  BY <1>1 DEF Pm!IInv, Pm!TypeOK, Pm!AloneIsAlone, Pm!VersionIsSafe, Pm!BackupCovers,
     Pm!BackedUp

ProjectStep ==
  \/ \E t \in Calls : Pm!Append(t)
  \/ \E t \in Calls : Pm!Rewrite(t)
  \/ \E t \in Calls : Pm!Backup(t)
  \/ \E t \in Calls : Pm!WriteTmp(t)
  \/ \E t \in Calls : Pm!Replace(t)
  \/ \E t \in Calls : Pm!TruncateInPlace(t)
  \/ \E t \in Calls : Pm!FillInPlace(t)
  \/ Pm!SecondPasses
  \/ Pm!Restart

LEMMA ProjectKeeps ==
  ASSUME Pm!IInv, ProjectStep
  PROVE  Pm!IInv'
<1>1. ASSUME NEW t \in Calls, Pm!Append(t) \/ Pm!Rewrite(t)
      PROVE  Pm!IInv'
  <2>1. projectEntries < MaxEntries
    BY <1>1 DEF Pm!Append, Pm!Rewrite, Pm!Commit
  <2>2. /\ project.has \cup {projectEntries + 1} \in Pm!Version
        /\ {projectEntries + 1} \in Pm!Version
    BY <2>1, ServicesAssumption DEF Pm!IInv, Pm!TypeOK, Pm!Present, Pm!Version
  <2>3. QED
    BY <1>1, <2>2, CommitBegins DEF Pm!Append, Pm!Rewrite
<1>2. QED
  BY <1>1, BackupStep, WriteTmpStep, ReplaceStep, TruncateInPlaceStep, FillInPlaceStep,
     ProjectSecond, ProjectRestart DEF ProjectStep

LEMMA ProjectRests ==
  ASSUME Pm!IInv, UNCHANGED projectVars
  PROVE  Pm!IInv'
  BY DEF projectVars, Pm!IInv, Pm!TypeOK, Pm!AloneIsAlone, Pm!VersionIsSafe, Pm!BackupCovers,
       Pm!BackedUp, Pm!Others

LEMMA ProjectInitially ==
  ASSUME Pm!Init
  PROVE  Pm!IInv
  BY ServicesAssumption DEF Pm!Init, Pm!IInv, Pm!TypeOK, Pm!AloneIsAlone, Pm!VersionIsSafe,
       Pm!BackupCovers, Pm!Holds, Pm!Present, Pm!Version

-----------------------------------------------------------------------------
(* Typing *)

Turns == [n : Nat, at : {"none", "kick", "sending", "on"}, chats : SUBSET Chats,
          replied : SUBSET Chats]

\* Everything but the types and the turn's own invariant.
Shown ==
  /\ Ty!HandleRefreshes /\ Ty!StoppedShowsNothing /\ Ty!DiscardInSlot /\ Ty!DiscardOfTurn
  /\ Ty!TurnIsShown /\ Ty!NoStuckIndicator

LEMMA TypingIs == Ty!IInv <=> Ty!TypeOK /\ Shown
  BY DEF Ty!IInv, Shown, Ty!HandleRefreshes, Ty!Refreshed, Ty!TurnIsShown,
       Ty!TypesUntilReplied, Ty!Running

\* A task that starts has the next number.
LEMMA NewTask ==
  ASSUME Ty!TypeOK, tasks' = tasks + 1
  PROVE  /\ tasks' \in Nat /\ tasks' \in 1 .. tasks' /\ tasks' \in 0 .. tasks'
         /\ 1 .. tasks \subseteq 1 .. tasks' /\ 0 .. tasks \subseteq 0 .. tasks'
         /\ ~Ty!Sleeping(tasks') /\ tasks' \notin loops
  BY DEF Ty!TypeOK, Ty!Sleeping

\* prime_typing leaves a loop that runs, in the handle.
LEMMA PrimedFacts ==
  ASSUME Ty!TypeOK, NEW c \in Chats, Ty!Primed(c)
  PROVE  /\ chats' = chats \cup {c} /\ early' \in BOOLEAN /\ crossed' \in BOOLEAN
         /\ tasks' \in Nat /\ 0 .. tasks \subseteq 0 .. tasks'
                /\ 1 .. tasks \subseteq 1 .. tasks'
         /\ loops' \subseteq 1 .. tasks' /\ handle' \in 0 .. tasks' /\ Ty!Running(handle)'
         /\ crossed => crossed'
         /\ stopping # "no" => crossed'
<1>1. CASE Ty!Running(handle)
  <2>1. /\ chats' = chats \cup {c} /\ UNCHANGED <<loops, handle, tasks>>
        /\ early' \in BOOLEAN
    BY <1>1 DEF Ty!Primed, Ty!TypeOK
  <2>2. crossed' \in BOOLEAN /\ (crossed => crossed') /\ (stopping # "no" => crossed')
    BY DEF Ty!Primed, Ty!TypeOK
  <2>3. QED
    BY <1>1, <2>1, <2>2 DEF Ty!TypeOK, Ty!Running
<1>2. CASE ~Ty!Running(handle)
  <2>1. /\ tasks' = tasks + 1 /\ loops' = loops \cup {tasks'} /\ handle' = tasks'
    BY <1>2 DEF Ty!Primed
  <2>2. tasks' # 0 /\ 1 .. tasks \subseteq 1 .. tasks'
    BY <2>1 DEF Ty!TypeOK
  <2>3. QED
    BY <2>1, <2>2, NewTask DEF Ty!Primed, Ty!TypeOK, Ty!Running, Ty!NoTask
<1>3. QED
  BY <1>1, <1>2

LEMMA MessageStep ==
  ASSUME Ty!IInv, NEW c \in Chats, Ty!Message(c)
  PROVE  Ty!IInv'
<1>1. Ty!TypeOK /\ Shown
  BY TypingIs
<1>2. Ty!TypeOK'
  <2>1. Ty!Budget /\ Ty!Primed(c) /\ buffered' = buffered \cup {[chat |-> c, human |-> TRUE]}
        /\ UNCHANGED <<deferred, slot, firing, turn, injecting, stopping, late, replaced, astray>>
    BY DEF Ty!Message
  <2>2. [chat |-> c, human |-> TRUE] \in [chat : Chats, human : BOOLEAN] /\ messages' \in Nat
    BY <1>1, <2>1 DEF Ty!TypeOK, Ty!Budget
  <2>3. deferred' \subseteq [n : 1 .. tasks', chat : Chats, turn : 0 .. turn'.n]
    BY <1>1, <2>1, PrimedFacts DEF Ty!TypeOK
  <2>4. slot' \in 0 .. tasks'
    BY <1>1, <2>1, PrimedFacts DEF Ty!TypeOK
  <2>5. QED
    BY <1>1, <2>1, <2>2, <2>3, <2>4, PrimedFacts DEF Ty!TypeOK
<1>3. Shown'
  <2>1. Ty!Primed(c) /\ buffered' = buffered \cup {[chat |-> c, human |-> TRUE]}
        /\ UNCHANGED <<deferred, slot, firing, turn, injecting, stopping, late, replaced, astray>>
    BY DEF Ty!Message
  <2>2. Ty!HandleRefreshes' /\ Ty!StoppedShowsNothing' /\ Ty!NoStuckIndicator'
    BY <1>1, <2>1, PrimedFacts
       DEF Shown, Ty!HandleRefreshes, Ty!StoppedShowsNothing, Ty!NoStuckIndicator
  <2>3. Ty!DiscardInSlot' /\ Ty!DiscardOfTurn'
    BY <1>1, <2>1 DEF Shown, Ty!DiscardInSlot, Ty!DiscardOfTurn
  <2>4. Ty!TurnIsShown'
    BY <1>1, <2>1, PrimedFacts DEF Shown, Ty!TurnIsShown
  <2>5. QED
    BY <2>2, <2>3, <2>4 DEF Shown
<1>4. QED
  BY <1>2, <1>3, TypingIs, PTL

LEMMA ReminderStep ==
  ASSUME Ty!IInv, NEW c \in Chats, Ty!Reminder(c)
  PROVE  Ty!IInv'
<1>1. Ty!TypeOK /\ Shown
  BY TypingIs
<1>2. Ty!TypeOK'
  <2>1. /\ messages' = messages + 1 /\ buffered' = buffered \cup {[chat |-> c, human |-> FALSE]}
        /\ UNCHANGED <<chats, early, loops, handle, deferred, slot, tasks, firing, turn,
               injecting,
                       stopping, late, crossed, replaced, astray>>
    BY DEF Ty!Reminder, Ty!Budget, Ty!state, Ty!history
  <2>2. [chat |-> c, human |-> FALSE] \in [chat : Chats, human : BOOLEAN]
    OBVIOUS
  <2>3. buffered' \subseteq [chat : Chats, human : BOOLEAN]
    BY <1>1, <2>1, <2>2 DEF Ty!TypeOK
  <2>4. messages' \in Nat
    BY <1>1, <2>1 DEF Ty!TypeOK
  <2>5. QED
    BY <1>1, <2>1, <2>3, <2>4 DEF Ty!TypeOK
<1>3. Shown'
  BY <1>1 DEF Ty!TypeOK, Ty!Reminder, Ty!Budget, Ty!Starters, Ty!state, Ty!history, Ty!NoTask,
       Shown, Ty!HandleRefreshes, Ty!StoppedShowsNothing, Ty!DiscardInSlot, Ty!DiscardOfTurn,
       Ty!TurnIsShown, Ty!NoStuckIndicator, Ty!Running
<1>4. QED
  BY <1>2, <1>3, TypingIs, PTL

LEMMA RepliedStep ==
  ASSUME Ty!IInv, NEW c \in Chats, Ty!Replied(c)
  PROVE  Ty!IInv'
<1>1. Ty!TypeOK /\ Shown
  BY TypingIs
<1>2. Ty!TypeOK'
  <2>1. tasks' \in Nat /\ 0 .. tasks \subseteq 0 .. tasks' /\ 1 .. tasks \subseteq 1 .. tasks'
    BY <1>1 DEF Ty!TypeOK, Ty!Replied
  <2>2. turn' \in Turns /\ turn'.n = turn.n /\ messages' \in Nat
    BY <1>1 DEF Ty!TypeOK, Ty!Replied, Ty!Budget, Turns
  <2>3. /\ deferred' \subseteq [n : 1 .. tasks', chat : Chats, turn : 0 .. turn'.n]
        /\ slot' \in 0 .. tasks'
    BY <1>1, <2>1, <2>2 DEF Ty!TypeOK, Ty!Replied
  <2>4. /\ chats' \subseteq Chats /\ loops' \subseteq 1 .. tasks' /\ handle' \in 0 .. tasks'
        /\ UNCHANGED <<early, firing, buffered, injecting, stopping>>
    BY <1>1, <2>1 DEF Ty!TypeOK, Ty!Replied
  <2>5. {late, crossed, replaced, astray}' \subseteq BOOLEAN
    BY <1>1 DEF Ty!TypeOK, Ty!Replied
  <2>6. QED
    BY <1>1, <2>1, <2>2, <2>3, <2>4, <2>5 DEF Ty!TypeOK, Turns
<1>3. Shown'
  <2>1. /\ UNCHANGED <<loops, handle, firing, buffered, injecting, stopping, late, crossed>>
        /\ turn'.at = turn.at /\ turn'.chats = turn.chats /\ turn.replied \subseteq turn'.replied
        /\ turn.at = "on" => c \in turn'.replied
    BY <1>1 DEF Ty!TypeOK, Ty!Replied
  <2>2. \/ /\ UNCHANGED <<deferred, slot, replaced>> /\ (astray => astray')
           /\ chats' = chats \/ (chats' = chats \ {c} /\ (turn.at = "sending" => astray'))
        \/ /\ chats' = chats /\ slot' = tasks'
           /\ deferred' = deferred \cup {[n |-> tasks', chat |-> c, turn |-> turn.n]}
           /\ (replaced => replaced') /\ (Ty!Sleeping(slot) => replaced')
           /\ (astray => astray') /\ (turn.at # "on" => astray')
    BY <1>1 DEF Ty!TypeOK, Ty!Replied
  <2>3. Ty!HandleRefreshes' /\ Ty!StoppedShowsNothing' /\ Ty!NoStuckIndicator'
    BY <1>1, <2>1, <2>2
       DEF Shown, Ty!HandleRefreshes, Ty!StoppedShowsNothing, Ty!NoStuckIndicator, Ty!Running
  <2>4. \/ UNCHANGED <<deferred, slot, replaced>>
        \/ replaced' \/ deferred' = {[n |-> slot', chat |-> c, turn |-> turn.n]}
    BY <1>1, <2>2 DEF Shown, Ty!DiscardInSlot, Ty!Sleeping
  <2>5. Ty!DiscardInSlot'
    BY <1>1, <2>4 DEF Shown, Ty!DiscardInSlot
  <2>6. Ty!DiscardOfTurn'
    <3>1. CASE UNCHANGED <<deferred, slot, replaced>> /\ (astray => astray')
      BY <1>1, <2>1, <3>1 DEF Shown, Ty!DiscardOfTurn
    <3>2. CASE /\ deferred' = {[n |-> slot', chat |-> c, turn |-> turn.n]}
               /\ turn.at # "on" => astray'
      BY <2>1, <3>2 DEF Ty!DiscardOfTurn
    <3>3. QED
      BY <2>2, <2>4, <3>1, <3>2 DEF Ty!DiscardOfTurn
  <2>7. Ty!TurnIsShown'
    BY <1>1, <2>1, <2>2 DEF Shown, Ty!TurnIsShown
  <2>8. QED
    BY <2>3, <2>5, <2>6, <2>7 DEF Shown
<1>4. QED
  BY <1>2, <1>3, TypingIs, PTL

LEMMA FiredStep ==
  ASSUME Ty!IInv, NEW who \in Ty!Starters, Ty!Fired(who)
  PROVE  Ty!IInv'
<1>1. Ty!TypeOK /\ Shown
  BY TypingIs
<1>2. Ty!TypeOK'
  <2>1. /\ tasks' = tasks + 1 /\ loops' = loops \cup {tasks'} /\ handle' = tasks'
        /\ firing' = firing \ {who}
        /\ UNCHANGED <<chats, early, deferred, slot, buffered, turn, injecting, messages,
               stopping,
                       late, crossed, replaced, astray>>
    BY DEF Ty!Fired, Ty!around, Ty!history
  <2>2. deferred' \subseteq [n : 1 .. tasks', chat : Chats, turn : 0 .. turn'.n]
    BY <1>1, <2>1, NewTask DEF Ty!TypeOK
  <2>3. /\ loops' \subseteq 1 .. tasks' /\ handle' \in 0 .. tasks' /\ slot' \in 0 .. tasks'
        /\ tasks' \in Nat
    BY <1>1, <2>1, NewTask DEF Ty!TypeOK
  <2>4. QED
    BY <1>1, <2>1, <2>2, <2>3 DEF Ty!TypeOK
<1>3. Shown'
  BY <1>1 DEF Ty!TypeOK, Ty!Fired, Ty!Starters, Ty!around, Ty!history, Ty!NoTask, Shown,
       Ty!HandleRefreshes, Ty!StoppedShowsNothing, Ty!DiscardInSlot, Ty!DiscardOfTurn,
       Ty!TurnIsShown, Ty!NoStuckIndicator, Ty!Running
<1>4. QED
  BY <1>2, <1>3, TypingIs, PTL

LEMMA KickStep ==
  ASSUME Ty!IInv, NEW b \in SUBSET buffered, Ty!Kick(b)
  PROVE  Ty!IInv'
<1>1. Ty!TypeOK /\ Shown
  BY TypingIs
<1>2. Ty!TypeOK'
  BY <1>1 DEF Ty!TypeOK, Ty!Kick, Ty!Starters, Ty!state, Ty!history
<1>3. Shown'
  BY <1>1 DEF Ty!TypeOK, Ty!Kick, Ty!Starters, Ty!state, Ty!history, Ty!NoTask, Shown,
       Ty!HandleRefreshes, Ty!StoppedShowsNothing, Ty!DiscardInSlot, Ty!DiscardOfTurn,
       Ty!TurnIsShown, Ty!NoStuckIndicator, Ty!Running
<1>4. QED
  BY <1>2, <1>3, TypingIs, PTL

LEMMA InjectStep ==
  ASSUME Ty!IInv, NEW b \in SUBSET buffered, Ty!Inject(b)
  PROVE  Ty!IInv'
<1>1. Ty!TypeOK /\ Shown
  BY TypingIs
<1>2. Ty!TypeOK'
  BY <1>1 DEF Ty!TypeOK, Ty!Inject, Ty!Starters, Ty!state, Ty!history
<1>3. Shown'
  BY <1>1 DEF Ty!TypeOK, Ty!Inject, Ty!Starters, Ty!state, Ty!history, Ty!NoTask, Shown,
       Ty!HandleRefreshes, Ty!StoppedShowsNothing, Ty!DiscardInSlot, Ty!DiscardOfTurn,
       Ty!TurnIsShown, Ty!NoStuckIndicator, Ty!Running
<1>4. QED
  BY <1>2, <1>3, TypingIs, PTL

LEMMA KickTypesStep ==
  ASSUME Ty!IInv, Ty!KickTypes
  PROVE  Ty!IInv'
<1>1. Ty!TypeOK /\ Shown
  BY TypingIs
<1>2. Ty!TypeOK'
  BY <1>1 DEF Ty!TypeOK, Ty!KickTypes, Ty!StartTyping, Ty!Running, Ty!Starters, Ty!NoTask
<1>3. Shown'
  BY <1>1 DEF Ty!TypeOK, Ty!KickTypes, Ty!StartTyping, Ty!Starters, Ty!NoTask, Shown,
       Ty!HandleRefreshes, Ty!StoppedShowsNothing, Ty!DiscardInSlot, Ty!DiscardOfTurn,
       Ty!TurnIsShown, Ty!NoStuckIndicator, Ty!Running
<1>4. QED
  BY <1>2, <1>3, TypingIs, PTL

LEMMA SentStep ==
  ASSUME Ty!IInv, Ty!Sent
  PROVE  Ty!IInv'
<1>1. Ty!TypeOK /\ Shown
  BY TypingIs
<1>2. Ty!TypeOK'
  BY <1>1 DEF Ty!TypeOK, Ty!Sent, Ty!Starters, Ty!state, Ty!history
<1>3. Shown'
  BY <1>1 DEF Ty!TypeOK, Ty!Sent, Ty!Starters, Ty!state, Ty!history, Ty!NoTask, Shown,
       Ty!HandleRefreshes, Ty!StoppedShowsNothing, Ty!DiscardInSlot, Ty!DiscardOfTurn,
       Ty!TurnIsShown, Ty!NoStuckIndicator, Ty!Running
<1>4. QED
  BY <1>2, <1>3, TypingIs, PTL

LEMMA RearmStep ==
  ASSUME Ty!IInv, Ty!Rearm
  PROVE  Ty!IInv'
<1>1. Ty!TypeOK /\ Shown
  BY TypingIs
<1>2. Ty!TypeOK'
  BY <1>1 DEF Ty!TypeOK, Ty!Rearm, Ty!StartTyping, Ty!Running, Ty!Starters, Ty!NoTask
<1>3. Shown'
  BY <1>1 DEF Ty!TypeOK, Ty!Rearm, Ty!StartTyping, Ty!Starters, Ty!NoTask, Shown,
       Ty!HandleRefreshes, Ty!StoppedShowsNothing, Ty!DiscardInSlot, Ty!DiscardOfTurn,
       Ty!TurnIsShown, Ty!NoStuckIndicator, Ty!Running
<1>4. QED
  BY <1>2, <1>3, TypingIs, PTL

LEMMA TypingSecondStep ==
  ASSUME Ty!IInv, Ty!SecondPasses
  PROVE  Ty!IInv'
<1>1. Ty!TypeOK /\ Shown
  BY TypingIs
<1>2. Ty!TypeOK'
  BY <1>1 DEF Ty!TypeOK, Ty!SecondPasses, Ty!Starters, Ty!around, Ty!history
<1>3. Shown'
  BY <1>1 DEF Ty!TypeOK, Ty!SecondPasses, Ty!Starters, Ty!around, Ty!history, Ty!NoTask,
       Shown, Ty!HandleRefreshes, Ty!StoppedShowsNothing, Ty!DiscardInSlot, Ty!DiscardOfTurn,
       Ty!TurnIsShown, Ty!NoStuckIndicator, Ty!Running
<1>4. QED
  BY <1>2, <1>3, TypingIs, PTL

LEMMA DeferredDiscardStep ==
  ASSUME Ty!IInv, NEW d \in deferred, Ty!DeferredDiscard(d)
  PROVE  Ty!IInv'
<1>1. Ty!TypeOK /\ Shown
  BY TypingIs
<1>2. Ty!TypeOK'
  BY <1>1 DEF Ty!TypeOK, Ty!DeferredDiscard, Ty!Starters, Ty!around, Ty!history
<1>3. Shown'
  BY <1>1 DEF Ty!TypeOK, Ty!DeferredDiscard, Ty!Starters, Ty!around, Ty!history, Ty!NoTask,
       Shown, Ty!HandleRefreshes, Ty!StoppedShowsNothing, Ty!DiscardInSlot, Ty!DiscardOfTurn,
       Ty!TurnIsShown, Ty!NoStuckIndicator, Ty!Running
<1>4. QED
  BY <1>2, <1>3, TypingIs, PTL

LEMMA LoopEndsStep ==
  ASSUME Ty!IInv, NEW l \in loops, Ty!LoopEnds(l)
  PROVE  Ty!IInv'
<1>1. Ty!TypeOK /\ Shown
  BY TypingIs
<1>2. Ty!TypeOK'
  BY <1>1 DEF Ty!TypeOK, Ty!LoopEnds, Ty!Starters, Ty!around, Ty!history
<1>3. Shown'
  BY <1>1 DEF Ty!TypeOK, Ty!LoopEnds, Ty!Starters, Ty!around, Ty!history, Ty!NoTask, Shown,
       Ty!HandleRefreshes, Ty!StoppedShowsNothing, Ty!DiscardInSlot, Ty!DiscardOfTurn,
       Ty!TurnIsShown, Ty!NoStuckIndicator, Ty!Running
<1>4. QED
  BY <1>2, <1>3, TypingIs, PTL

LEMMA StopTypingStep ==
  ASSUME Ty!IInv, Ty!StopTyping
  PROVE  Ty!IInv'
<1>1. Ty!TypeOK /\ Shown
  BY TypingIs
<1>2. Ty!TypeOK'
  BY <1>1 DEF Ty!TypeOK, Ty!StopTyping, Ty!Starters, Ty!history
<1>3. Shown'
  BY <1>1 DEF Ty!TypeOK, Ty!StopTyping, Ty!Starters, Ty!history, Ty!NoTask, Shown,
       Ty!HandleRefreshes, Ty!StoppedShowsNothing, Ty!DiscardInSlot, Ty!DiscardOfTurn,
       Ty!TurnIsShown, Ty!NoStuckIndicator, Ty!Running
<1>4. QED
  BY <1>2, <1>3, TypingIs, PTL

LEMMA CancelDiscardStep ==
  ASSUME Ty!IInv, Ty!CancelDiscard
  PROVE  Ty!IInv'
<1>1. Ty!TypeOK /\ Shown
  BY TypingIs
<1>2. Ty!TypeOK'
  BY <1>1 DEF Ty!TypeOK, Ty!CancelDiscard, Ty!Starters, Ty!around, Ty!history, Ty!NoTask
<1>3. Shown'
  BY <1>1 DEF Ty!TypeOK, Ty!CancelDiscard, Ty!Starters, Ty!around, Ty!history, Ty!NoTask,
       Shown, Ty!HandleRefreshes, Ty!StoppedShowsNothing, Ty!DiscardInSlot, Ty!DiscardOfTurn,
       Ty!TurnIsShown, Ty!NoStuckIndicator, Ty!Running
<1>4. QED
  BY <1>2, <1>3, TypingIs, PTL

LEMMA CancelLoopStep ==
  ASSUME Ty!IInv, Ty!CancelLoop
  PROVE  Ty!IInv'
<1>1. Ty!TypeOK /\ Shown
  BY TypingIs
<1>2. Ty!TypeOK'
  BY <1>1 DEF Ty!TypeOK, Ty!CancelLoop, Ty!Starters, Ty!around, Ty!history, Ty!NoTask
<1>3. Shown'
  BY <1>1 DEF Ty!TypeOK, Ty!CancelLoop, Ty!Starters, Ty!around, Ty!history, Ty!NoTask, Shown,
       Ty!HandleRefreshes, Ty!StoppedShowsNothing, Ty!DiscardInSlot, Ty!DiscardOfTurn,
       Ty!TurnIsShown, Ty!NoStuckIndicator, Ty!Running
<1>4. QED
  BY <1>2, <1>3, TypingIs, PTL

LEMMA ContinueStep ==
  ASSUME Ty!IInv, Ty!Continue
  PROVE  Ty!IInv'
<1>1. Ty!TypeOK /\ Shown
  BY TypingIs
<1>2. Ty!TypeOK'
  <2>1. /\ turn' = [turn EXCEPT !.at = "kick", !.n = @ + 1] /\ messages' = messages + 1
        /\ UNCHANGED <<chats, early, loops, handle, deferred, slot, tasks, firing, buffered,
                       injecting, stopping, late, crossed, replaced, astray>>
    BY DEF Ty!Continue, Ty!Budget, Ty!state, Ty!history
  <2>0. turn \in Turns
    BY <1>1 DEF Ty!TypeOK, Turns
  <2> DEFINE k == [turn EXCEPT !.at = "kick"]
  <2>a. k \in Turns /\ k.n = turn.n /\ turn.n \in Nat
    BY <2>0 DEF Turns
  <2>b. turn' = [k EXCEPT !.n = turn.n + 1]
    BY <2>0, <2>1 DEF Turns
  <2> HIDE DEF k
  <2>2. turn' \in Turns /\ turn'.n = turn.n + 1
    BY <2>a, <2>b DEF Turns
  <2>3. 0 .. turn.n \subseteq 0 .. turn'.n
    BY <1>1, <2>2 DEF Ty!TypeOK
  <2>4. deferred' \subseteq [n : 1 .. tasks', chat : Chats, turn : 0 .. turn'.n]
    BY <1>1, <2>1, <2>3 DEF Ty!TypeOK
  <2>5. QED
    BY <1>1, <2>1, <2>2, <2>4 DEF Ty!TypeOK, Turns
<1>3. Shown'
  BY <1>1 DEF Ty!TypeOK, Ty!Continue, Ty!Budget, Ty!Starters, Ty!state, Ty!history, Ty!NoTask,
       Shown, Ty!HandleRefreshes, Ty!StoppedShowsNothing, Ty!DiscardInSlot, Ty!DiscardOfTurn,
       Ty!TurnIsShown, Ty!NoStuckIndicator, Ty!Running
<1>4. QED
  BY <1>2, <1>3, TypingIs, PTL

TypingStep ==
  \/ \E c \in Chats : Ty!Message(c)
  \/ \E c \in Chats : Ty!Reminder(c)
  \/ \E c \in Chats : Ty!Replied(c)
  \/ \E who \in Ty!Starters : Ty!Fired(who)
  \/ \E b \in SUBSET buffered : Ty!Kick(b)
  \/ \E b \in SUBSET buffered : Ty!Inject(b)
  \/ Ty!KickTypes
  \/ Ty!Sent
  \/ Ty!Rearm
  \/ Ty!SecondPasses
  \/ \E d \in deferred : Ty!DeferredDiscard(d)
  \/ \E l \in loops : Ty!LoopEnds(l)
  \/ Ty!StopTyping
  \/ Ty!CancelDiscard
  \/ Ty!CancelLoop
  \/ Ty!Continue

LEMMA TypingKeeps ==
  ASSUME Ty!IInv, TypingStep
  PROVE  Ty!IInv'
  BY MessageStep, ReminderStep, RepliedStep, FiredStep, KickStep, InjectStep, KickTypesStep,
       SentStep, RearmStep, TypingSecondStep, DeferredDiscardStep, LoopEndsStep,
       StopTypingStep, CancelDiscardStep, CancelLoopStep, ContinueStep DEF TypingStep

LEMMA TypingRests ==
  ASSUME Ty!IInv, UNCHANGED typingVars
  PROVE  Ty!IInv'
<1>1. Ty!TypeOK /\ Shown
  BY TypingIs
<1>2. Ty!TypeOK'
  BY <1>1 DEF Ty!TypeOK, typingVars
<1>3. Shown'
  BY <1>1 DEF typingVars, Shown, Ty!HandleRefreshes, Ty!StoppedShowsNothing, Ty!DiscardInSlot,
       Ty!DiscardOfTurn, Ty!TurnIsShown, Ty!NoStuckIndicator, Ty!Running
<1>4. QED
  BY <1>2, <1>3, TypingIs, PTL

LEMMA TypingInitially ==
  ASSUME Ty!Init
  PROVE  Ty!IInv
<1>1. Ty!TypeOK
  <2>1. /\ chats = {} /\ early = FALSE /\ loops = {} /\ handle = 0 /\ deferred = {}
        /\ slot = 0 /\ tasks = 0 /\ firing = {} /\ buffered = {} /\ injecting = {}
        /\ messages = 0 /\ stopping = "no"
        /\ turn = [n |-> 0, at |-> "none", chats |-> {}, replied |-> {}]
        /\ late = FALSE /\ crossed = FALSE /\ replaced = FALSE /\ astray = FALSE
    BY DEF Ty!Init, Ty!NoTask
  <2>2. turn \in Turns
    BY <2>1 DEF Turns
  <2>3. {late, crossed, replaced, astray} \subseteq BOOLEAN
    BY <2>1
  <2>4. early \in BOOLEAN
    BY <2>1
  <2>5. /\ chats \subseteq Chats /\ loops \subseteq 1 .. tasks /\ handle \in 0 .. tasks
        /\ slot \in 0 .. tasks /\ firing \subseteq Ty!Starters
        /\ stopping \in {"no", "discard", "loop"} /\ injecting \subseteq Chats
        /\ {tasks, messages} \subseteq Nat
    BY <2>1
  <2>6. /\ deferred \subseteq [n : 1 .. tasks, chat : Chats, turn : 0 .. turn.n]
        /\ buffered \subseteq [chat : Chats, human : BOOLEAN]
    BY <2>1
  <2>7. QED
    BY <2>2, <2>3, <2>4, <2>5, <2>6 DEF Ty!TypeOK, Turns
<1>2. Shown
  BY DEF Ty!Init, Shown, Ty!HandleRefreshes, Ty!StoppedShowsNothing, Ty!DiscardInSlot,
       Ty!DiscardOfTurn, Ty!TurnIsShown, Ty!NoStuckIndicator, Ty!Running
<1>3. QED
  BY <1>1, <1>2, TypingIs

-----------------------------------------------------------------------------
(* Browser *)

TaskRecord == [op : Br!Ops, browser : Br!Numbers, ctx : 0 .. MaxContexts, pc : Br!Places]
TaskRecords == {Br!Rest} \cup TaskRecord

\* The task of t is the only one that moves.
OnlyMoves(t) ==
  /\ task' \in [Tasks -> TaskRecords]
  /\ \A u \in Tasks : u # t => task'[u] = task[u]

BrowserHolds ==
  /\ Br!OnItsWay /\ Br!LocksHeld /\ Br!DriverIsManaged /\ Br!NumbersApart /\ Br!SessionIsClosed
  /\ Br!ClosesAlone /\ Br!ContextsOwned

LEMMA BrCardinality == \A S : Br!Cardinality(S) = Cardinality(S)
  BY DEF Br!Cardinality, Cardinality

LEMMA BrowserIs == Br!IInv <=> Br!TypeOK /\ BrowserHolds
<1>1. ASSUME Br!DriverIsManaged PROVE Br!OneBrowser
  <2>1. CASE hung
    BY <2>1 DEF Br!OneBrowser
  <2>2. CASE drivers \ lostDrivers \subseteq {manager.pw}
    <3>1. IsFiniteSet({manager.pw}) /\ Cardinality({manager.pw}) = 1
      BY FS_Singleton
    <3>2. Cardinality(drivers \ lostDrivers) <= 1
      BY <2>2, <3>1, FS_Subset
    <3>3. QED
      BY <3>2, BrCardinality DEF Br!OneBrowser
  <2>3. QED
    BY <1>1, <2>1, <2>2 DEF Br!DriverIsManaged
<1>2. QED
  BY <1>1 DEF Br!IInv, BrowserHolds

LEMMA BrowserNumbers ==
  ASSUME Br!TypeOK
  PROVE  /\ MaxContexts \in Nat /\ MaxLaunches \in Nat
         /\ opened \in Nat /\ opened <= MaxContexts /\ launches \in Nat
                /\ launches <= MaxLaunches
         /\ session.context \in Nat
         /\ \A c \in contexts : c.n \in Nat /\ c.n # 0
<1>1. MaxContexts \in Nat /\ MaxLaunches \in Nat
  BY ServicesAssumption
<1>2. /\ opened \in 0 .. MaxContexts /\ launches \in 0 .. MaxLaunches
      /\ session \in [context : 0 .. MaxContexts, page : {"none", "open", "closed"}]
      /\ contexts \subseteq [n : 1 .. MaxContexts, browser : chromes]
  BY DEF Br!TypeOK, Br!Numbers
<1>3. \A c \in contexts : c.n \in 1 .. MaxContexts
  BY <1>2
<1>4. QED
  BY <1>1, <1>2, <1>3

LEMMA BrowserIsToo == (Br!IInv <=> Br!TypeOK /\ BrowserHolds)'
  BY BrowserIs, PTL

LEMMA TaskTypes ==
  ASSUME Br!TypeOK, NEW t \in Tasks, task[t].pc # "rest"
  PROVE  task[t] \in TaskRecord /\ task[t] # Br!Rest
  BY DEF Br!TypeOK, TaskRecord, Br!Rest

LEMMA TaskMoves ==
  ASSUME Br!TypeOK, NEW t \in Tasks, NEW r \in TaskRecords, task' = [task EXCEPT ![t] = r]
  PROVE  OnlyMoves(t) /\ task'[t] = r
  BY DEF Br!TypeOK, TaskRecords, TaskRecord, OnlyMoves

LEMMA TaskGoes ==
  ASSUME Br!TypeOK, NEW t \in Tasks, task[t].pc # "rest", NEW pc \in Br!Places,
         task' = [task EXCEPT ![t].pc = pc]
  PROVE  /\ OnlyMoves(t) /\ task'[t].pc = pc /\ task'[t].op = task[t].op
         /\ task'[t].ctx = task[t].ctx
<1> DEFINE r == [task[t] EXCEPT !.pc = pc]
<1>1. /\ r \in TaskRecords /\ r.pc = pc /\ r.op = task[t].op /\ r.ctx = task[t].ctx
      /\ task' = [task EXCEPT ![t] = r]
  BY TaskTypes DEF TaskRecord, TaskRecords
<1> HIDE DEF r
<1>2. QED
  BY <1>1, TaskMoves

LEMMA TaskRests ==
  ASSUME Br!TypeOK, NEW t \in Tasks, task' = [task EXCEPT ![t] = Br!Rest]
  PROVE  OnlyMoves(t) /\ task'[t].pc = "rest" /\ task'[t].op = "none"
<1>1. Br!Rest \in TaskRecords /\ Br!Rest.pc = "rest" /\ Br!Rest.op = "none"
  BY DEF TaskRecords, Br!Rest
<1>2. QED
  BY <1>1, TaskMoves

\* What follows _ensure_browser: a warm-up is done, the others make a context.
LEMMA TaskHandedOut ==
  ASSUME Br!TypeOK, NEW t \in Tasks, task[t].pc \in {"ensure", "launch"}, NEW b \in Br!Numbers,
         Br!HandOut(t, b)
  PROVE  /\ OnlyMoves(t)
         /\ \/ task'[t].pc = "rest" /\ task'[t].op = "none"
            \/ task'[t].pc = "context" /\ task'[t].op = task[t].op /\ task[t].op # "warm"
<1>1. CASE task[t].op = "warm"
  <2>1. task' = [task EXCEPT ![t] = Br!Rest]
    BY <1>1 DEF Br!HandOut
  <2>2. QED
    BY <2>1, TaskRests
<1>2. CASE task[t].op # "warm"
  <2> DEFINE r == [task[t] EXCEPT !.pc = "context", !.browser = b]
  <2>1. task' = [task EXCEPT ![t] = r]
    BY <1>2 DEF Br!HandOut
  <2>2. task[t] \in TaskRecord
    BY TaskTypes
  <2>3. r \in TaskRecords /\ r.pc = "context" /\ r.op = task[t].op
    BY <2>2 DEF TaskRecord, TaskRecords, Br!Places
  <2> HIDE DEF r
  <2>4. QED
    BY <1>2, <2>1, <2>3, TaskMoves
<1>3. QED
  BY <1>1, <1>2

\* Types are kept when processes and contexts only go, and contexts go with their browser.
LEMMA TypesStay ==
  ASSUME Br!TypeOK, task' = task \/ task' \in [Tasks -> TaskRecords],
         chromes' \subseteq chromes, contexts' \subseteq contexts,
         \A c \in contexts' : c.browser \in chromes => c.browser \in chromes',
         lock' = lock \/ lock' \in Tasks \cup {Br!Free},
         pageLock' = pageLock \/ pageLock' \in Tasks \cup {Br!Free},
         \/ session' = session
         \/ session' \in [context : 0 .. MaxContexts, page : {"none", "open", "closed"}],
         hung' = hung \/ hung' \in BOOLEAN, orphaned' = orphaned \/ orphaned' \in BOOLEAN,
         overlapped' = overlapped \/ overlapped' \in BOOLEAN,
         UNCHANGED <<drivers, manager, launches, opened, lostDrivers, lostContexts>>
  PROVE  Br!TypeOK'
<1>1. task' \in [Tasks -> TaskRecords]
  BY DEF Br!TypeOK, TaskRecords, TaskRecord
<1>2. contexts' \subseteq [n : 1 .. MaxContexts, browser : chromes']
  BY DEF Br!TypeOK
<1>3. /\ lock' \in Tasks \cup {Br!Free} /\ pageLock' \in Tasks \cup {Br!Free}
      /\ session' \in [context : 0 .. MaxContexts, page : {"none", "open", "closed"}]
  BY DEF Br!TypeOK
<1>4. {hung', overlapped', orphaned'} \subseteq BOOLEAN
  BY DEF Br!TypeOK
<1>5. QED
  BY <1>1, <1>2, <1>3, <1>4 DEF Br!TypeOK, TaskRecords, TaskRecord

\* How a conjunct of the invariant survives a step of t.
LEMMA WayStays ==
  ASSUME Br!OnItsWay, NEW t \in Tasks, \A u \in Tasks : u # t => task'[u] = task[u],
         task'[t].pc \in {"ensure", "start", "launch"}
             => task'[t].op \in {"warm", "render", "navigate"},
         task'[t].pc \in {"drop", "stop"} => task'[t].op # "reset",
         task'[t].pc = "context" => task'[t].op \in {"render", "navigate"},
         task'[t].pc \in {"page", "new page"} => task'[t].op = "navigate",
         task'[t].pc = "shut" => task'[t].op = "close"
  PROVE  Br!OnItsWay'
<1>1. SUFFICES ASSUME NEW u \in Tasks, u # t
      PROVE  /\ task'[u].pc \in {"ensure", "start", "launch"}
                    => task'[u].op \in {"warm", "render", "navigate"}
             /\ task'[u].pc \in {"drop", "stop"} => task'[u].op # "reset"
             /\ task'[u].pc = "context" => task'[u].op \in {"render", "navigate"}
             /\ task'[u].pc \in {"page", "new page"} => task'[u].op = "navigate"
             /\ task'[u].pc = "shut" => task'[u].op = "close"
  BY DEF Br!OnItsWay
<1>2. task'[u] = task[u]
  BY <1>1
<1>3. QED
  BY <1>2 DEF Br!OnItsWay

\* Others hold their locks: a lock is taken when free and given back by its holder.
LEMMA LocksStay ==
  ASSUME Br!LocksHeld, NEW t \in Tasks, \A u \in Tasks : u # t => task'[u] = task[u],
         lock' = lock \/ lock = t \/ lock = Br!Free,
         pageLock' = pageLock \/ pageLock = t \/ pageLock = Br!Free,
         session'.page = "open" => session.page = "open" \/ pageLock = t \/ pageLock = Br!Free,
         task'[t].pc \in Br!Launching => lock' = t,
         task'[t].op = "navigate" /\ task'[t].pc # "page"
             => pageLock' = t /\ session'.page # "open"
  PROVE  Br!LocksHeld'
<1>1. SUFFICES ASSUME NEW u \in Tasks, u # t
      PROVE  /\ task'[u].pc \in Br!Launching => lock' = u
             /\ task'[u].op = "navigate" /\ task'[u].pc # "page"
                    => pageLock' = u /\ session'.page # "open"
  BY DEF Br!LocksHeld
<1>2. task'[u] = task[u] /\ u # Br!Free
  BY <1>1, ServicesAssumption DEF Br!Free
<1>3. QED
  BY <1>1, <1>2 DEF Br!LocksHeld

\* Contexts that are left are still owned if no render ended.
LEMMA OwnersStay ==
  ASSUME Br!ContextsOwned, Br!Excused => Br!Excused', contexts' \subseteq contexts,
         session'.context = session.context, lostContexts \subseteq lostContexts',
         \A u \in Tasks : task[u].pc = "use" => task'[u] = task[u]
  PROVE  Br!ContextsOwned'
  BY DEF Br!ContextsOwned

\* A session that is closed stays so while no page is made in it, one that is open while
\* nobody closes it.
LEMMA SessionStays ==
  ASSUME Br!SessionIsClosed, Br!Excused => Br!Excused', contexts' \subseteq contexts,
         session'.context = session.context, session.page = "open" => session'.page = "open",
         \A u \in Tasks : task[u].pc = "new page" => task'[u] = task[u],
         \A u \in Tasks : task'[u].pc = "clear" => task[u].pc = "clear"
  PROVE  Br!SessionIsClosed'
  BY DEF Br!SessionIsClosed, Br!Closing, Br!At

LEMMA StartTaskStep ==
  ASSUME Br!IInv, NEW t \in Tasks, NEW op \in Br!Ops, Br!Start(t, op)
  PROVE  Br!IInv'
<1>1. Br!TypeOK /\ BrowserHolds
  BY BrowserIs
<1>2. /\ task[t].pc = "rest" /\ task[t].op = "none"
      /\ OnlyMoves(t) /\ task'[t].op = op
      /\ task'[t].pc = CASE op \in {"warm", "render"} -> "ensure"
                        [] op = "navigate" -> "page" [] OTHER -> "reset"
      /\ UNCHANGED <<drivers, chromes, manager, lock, contexts, session, pageLock, opened,
                     hung, overlapped, orphaned, launches, lostDrivers, lostContexts>>
  <2> DEFINE pc == CASE op \in {"warm", "render"} -> "ensure"
                     [] op = "navigate" -> "page" [] OTHER -> "reset"
             r == [op |-> op, browser |-> Br!None, ctx |-> Br!None, pc |-> pc]
  <2>1. pc \in Br!Places
    BY DEF Br!Ops, Br!Places
  <2>2. /\ task[t] = Br!Rest /\ task' = [task EXCEPT ![t] = r]
    BY DEF Br!Start
  <2> HIDE DEF pc
  <2>3. r \in TaskRecords /\ r.op = op /\ r.pc = pc
    BY <2>1, ServicesAssumption DEF TaskRecords, TaskRecord, Br!None, Br!Numbers
  <2> HIDE DEF r
  <2>4. OnlyMoves(t) /\ task'[t].op = op /\ task'[t].pc = pc
    BY <1>1, <2>2, <2>3, TaskMoves
  <2>5. QED
    BY <2>2, <2>4 DEF Br!Start, Br!browser, Br!page, Br!excuses, Br!lost, Br!Rest, pc
<1>3. \A u \in Tasks : u # t => task'[u] = task[u]
  BY <1>2 DEF OnlyMoves
<1>4. Br!Excused => Br!Excused'
  BY <1>2 DEF Br!Excused
<1>5. Br!TypeOK'
  BY <1>1, <1>2, TypesStay DEF OnlyMoves
<1>6. Br!OnItsWay'
  <2>1. \/ op \in {"warm", "render"} /\ task'[t].pc = "ensure"
        \/ op = "navigate" /\ task'[t].pc = "page"
        \/ op \in {"reset", "close"} /\ task'[t].pc = "reset"
    BY <1>2 DEF Br!Ops
  <2>2. QED
    BY <1>1, <1>2, <1>3, <2>1, WayStays DEF BrowserHolds
<1>7. Br!LocksHeld'
  BY <1>1, <1>2, <1>3, LocksStay DEF BrowserHolds, Br!LocksHeld, Br!Launching
<1>8. Br!DriverIsManaged'
  BY <1>1, <1>2, <1>3 DEF BrowserHolds, Br!DriverIsManaged, Br!At, Br!LocksHeld, Br!Launching
<1>9. Br!NumbersApart'
  BY <1>1, <1>2 DEF BrowserHolds, Br!NumbersApart
<1>10. Br!SessionIsClosed'
  BY <1>1, <1>2, <1>3, <1>4, SessionStays DEF BrowserHolds
<1>11. Br!ClosesAlone'
  BY <1>1, <1>2, <1>3 DEF BrowserHolds, Br!ClosesAlone, Br!Closing, Br!At
<1>12. Br!ContextsOwned'
  BY <1>1, <1>2, <1>3, <1>4, OwnersStay DEF BrowserHolds
<1>13. QED
  BY <1>5, <1>6, <1>7, <1>8, <1>9, <1>10, <1>11, <1>12, BrowserIsToo DEF BrowserHolds

LEMMA EnsureBrowserStep ==
  ASSUME Br!IInv, NEW t \in Tasks, Br!EnsureBrowser(t)
  PROVE  Br!IInv'
<1>1. Br!TypeOK /\ BrowserHolds
  BY BrowserIs
<1>2. /\ task[t].pc = "ensure" /\ lock = Br!Free /\ OnlyMoves(t)
      /\ \/ task'[t].pc = "rest" /\ task'[t].op = "none" /\ lock' = lock
         \/ /\ task'[t].pc = "context" /\ task'[t].op = task[t].op /\ task[t].op # "warm"
            /\ lock' = lock
         \/ task'[t].pc = "drop" /\ task'[t].op = task[t].op /\ lock' = t
      /\ UNCHANGED <<drivers, chromes, manager, contexts, session, pageLock, opened, hung,
                     overlapped, orphaned, launches, lostDrivers, lostContexts>>
  <2>1. task[t].pc = "ensure" /\ manager.browser \in Br!Numbers
    BY <1>1 DEF Br!EnsureBrowser, Br!At, Br!TypeOK
  <2>2. "drop" \in Br!Places
    BY DEF Br!Places
  <2>3. QED
    BY <1>1, <2>1, <2>2, TaskHandedOut, TaskGoes
       DEF Br!EnsureBrowser, Br!Goto, Br!page, Br!excuses, Br!lost
<1>3. \A u \in Tasks : u # t => task'[u] = task[u]
  BY <1>2 DEF OnlyMoves
<1>4. Br!Excused => Br!Excused'
  BY <1>2 DEF Br!Excused
<1>5. Br!TypeOK'
  BY <1>1, <1>2, TypesStay DEF OnlyMoves
<1>6. Br!OnItsWay'
  BY <1>1, <1>2, <1>3, WayStays DEF BrowserHolds, Br!OnItsWay, Br!Ops
<1>7. Br!LocksHeld'
  BY <1>1, <1>2, <1>3, LocksStay DEF BrowserHolds, Br!LocksHeld, Br!Launching
<1>8. Br!DriverIsManaged'
  BY <1>1, <1>2, <1>3 DEF BrowserHolds, Br!DriverIsManaged, Br!At, Br!LocksHeld, Br!Launching
<1>9. Br!NumbersApart'
  BY <1>1, <1>2 DEF BrowserHolds, Br!NumbersApart
<1>10. Br!SessionIsClosed'
  BY <1>1, <1>2, <1>3, <1>4, SessionStays DEF BrowserHolds
<1>11. Br!ClosesAlone'
  BY <1>1, <1>2, <1>3 DEF BrowserHolds, Br!ClosesAlone, Br!Closing, Br!At
<1>12. Br!ContextsOwned'
  BY <1>1, <1>2, <1>3, <1>4, OwnersStay DEF BrowserHolds
<1>13. QED
  BY <1>5, <1>6, <1>7, <1>8, <1>9, <1>10, <1>11, <1>12, BrowserIsToo DEF BrowserHolds

LEMMA CloseBrowserStep ==
  ASSUME Br!IInv, NEW t \in Tasks, NEW ok \in BOOLEAN, Br!CloseBrowser(t, ok)
  PROVE  Br!IInv'
<1>1. Br!TypeOK /\ BrowserHolds
  BY BrowserIs
<1>2. /\ task[t].pc = "drop" /\ OnlyMoves(t) /\ task'[t].pc = "stop" /\ task'[t].op = task[t].op
      /\ chromes' \subseteq chromes /\ contexts' \subseteq contexts
      /\ \A c \in contexts' : c.browser \in chromes => c.browser \in chromes'
      /\ (hung => hung') /\ hung' \in BOOLEAN
      /\ UNCHANGED <<drivers, manager, lock, session, pageLock, opened, overlapped,
                     orphaned, launches, lostDrivers, lostContexts>>
  <2>1. task[t].pc = "drop" /\ "stop" \in Br!Places /\ task' = [task EXCEPT ![t].pc = "stop"]
    BY DEF Br!CloseBrowser, Br!At, Br!Goto, Br!Places
  <2>2. OnlyMoves(t) /\ task'[t].pc = "stop" /\ task'[t].op = task[t].op
    BY <1>1, <2>1, TaskGoes
  <2>3. (hung => hung') /\ hung' \in BOOLEAN
    BY <1>1 DEF Br!CloseBrowser, Br!Hung, Br!TypeOK
  <2>4. /\ chromes' \subseteq chromes /\ contexts' \subseteq contexts
        /\ \A c \in contexts' : c.browser \in chromes => c.browser \in chromes'
    BY DEF Br!CloseBrowser, Br!Open
  <2>5. QED
    BY <2>1, <2>2, <2>3, <2>4 DEF Br!CloseBrowser, Br!lost
<1>3. \A u \in Tasks : u # t => task'[u] = task[u]
  BY <1>2 DEF OnlyMoves
<1>4. Br!Excused => Br!Excused'
  BY <1>2 DEF Br!Excused
<1>5. Br!TypeOK'
  BY <1>1, <1>2, TypesStay DEF OnlyMoves
<1>6. Br!OnItsWay'
  BY <1>1, <1>2, <1>3, WayStays DEF BrowserHolds, Br!OnItsWay, Br!Ops
<1>7. Br!LocksHeld'
  BY <1>1, <1>2, <1>3, LocksStay DEF BrowserHolds, Br!LocksHeld, Br!Launching
<1>8. Br!DriverIsManaged'
  BY <1>1, <1>2, <1>3 DEF BrowserHolds, Br!DriverIsManaged, Br!At, Br!LocksHeld, Br!Launching
<1>9. Br!NumbersApart'
  BY <1>1, <1>2 DEF BrowserHolds, Br!NumbersApart
<1>10. Br!SessionIsClosed'
  BY <1>1, <1>2, <1>3, <1>4, SessionStays DEF BrowserHolds
<1>11. Br!ClosesAlone'
  BY <1>1, <1>2, <1>3 DEF BrowserHolds, Br!ClosesAlone, Br!Closing, Br!At
<1>12. Br!ContextsOwned'
  BY <1>1, <1>2, <1>3, <1>4, OwnersStay DEF BrowserHolds
<1>13. QED
  BY <1>5, <1>6, <1>7, <1>8, <1>9, <1>10, <1>11, <1>12, BrowserIsToo DEF BrowserHolds

LEMMA StopDriverStep ==
  ASSUME Br!IInv, NEW t \in Tasks, NEW ok \in BOOLEAN, Br!StopDriver(t, ok)
  PROVE  Br!IInv'
<1>1. Br!TypeOK /\ BrowserHolds
  BY BrowserIs
<1>2. /\ task[t].pc = "stop" /\ OnlyMoves(t)
      /\ \/ task'[t].pc = "rest" /\ task'[t].op = "none" /\ lock' = Br!Free
         \/ task'[t].pc = "start" /\ task'[t].op = task[t].op /\ task[t].op # "close"
                /\ lock' = lock
      /\ chromes' \subseteq chromes /\ contexts' \subseteq contexts
      /\ \A c \in contexts' : c.browser \in chromes => c.browser \in chromes'
      /\ drivers' \subseteq drivers /\ (hung' \/ drivers' = drivers \ {manager.pw})
      /\ (chromes \subseteq drivers => chromes' \subseteq drivers')
      /\ (hung => hung') /\ hung' \in BOOLEAN
      /\ manager'.pw = 0 /\ manager' = [pw |-> 0, browser |-> 0]
      /\ UNCHANGED <<session, pageLock, opened, overlapped, orphaned, launches, lostDrivers,
                     lostContexts>>
  <2>1. task[t].pc = "stop" /\ "start" \in Br!Places
    BY DEF Br!StopDriver, Br!At, Br!Places
  <2>2. /\ OnlyMoves(t)
        /\ \/ task'[t].pc = "rest" /\ task'[t].op = "none" /\ lock' = Br!Free
           \/ task'[t].pc = "start" /\ task'[t].op = task[t].op /\ task[t].op # "close"
                  /\ lock' = lock
    BY <1>1, <2>1, TaskGoes, TaskRests DEF Br!StopDriver, Br!Goto, Br!Done
  <2>3. (hung => hung') /\ hung' \in BOOLEAN /\ (~ok => hung')
    BY <1>1 DEF Br!StopDriver, Br!Hung, Br!TypeOK
  <2>4. /\ chromes' \subseteq chromes /\ contexts' \subseteq contexts
        /\ \A c \in contexts' : c.browser \in chromes => c.browser \in chromes'
        /\ drivers' \subseteq drivers /\ (~ok \/ drivers' = drivers \ {manager.pw})
        /\ (chromes \subseteq drivers => chromes' \subseteq drivers')
    BY DEF Br!StopDriver, Br!Open
  <2>5. QED
    BY <2>1, <2>2, <2>3, <2>4 DEF Br!StopDriver, Br!None, Br!lost
<1>3. \A u \in Tasks : u # t => task'[u] = task[u]
  BY <1>2 DEF OnlyMoves
<1>4. Br!Excused => Br!Excused'
  BY <1>2 DEF Br!Excused
<1>5. Br!TypeOK'
  <2>1. task' \in [Tasks -> {Br!Rest}
            \cup [op : Br!Ops, browser : Br!Numbers, ctx : 0 .. MaxContexts,
                                          pc : Br!Places]]
    BY <1>2 DEF OnlyMoves, TaskRecords, TaskRecord
  <2>2. drivers' \subseteq Br!Numbers /\ launches' \in Br!Numbers
    BY <1>1, <1>2, ServicesAssumption DEF Br!TypeOK, Br!Numbers
  <2>3. chromes' \subseteq drivers'
    BY <1>1, <1>2 DEF Br!TypeOK, BrowserHolds, Br!DriverIsManaged, Br!At
  <2>4. contexts' \subseteq [n : 1 .. MaxContexts, browser : chromes']
    BY <1>1, <1>2 DEF Br!TypeOK
  <2>5. manager' \in [pw : Br!Numbers, browser : Br!Numbers]
    BY <1>1, <1>2, <2>2, ServicesAssumption DEF Br!TypeOK, Br!Numbers
  <2>6. lock' \in Tasks \cup {Br!Free} /\ pageLock' \in Tasks \cup {Br!Free}
    BY <1>1, <1>2 DEF Br!TypeOK
  <2>7. session' \in [context : 0 .. MaxContexts, page : {"none", "open", "closed"}]
    BY <1>1, <1>2 DEF Br!TypeOK
  <2>8. /\ {hung, overlapped, orphaned}' \subseteq BOOLEAN
        /\ lostDrivers' \subseteq Br!Numbers /\ lostContexts' \subseteq 0 .. MaxContexts
    BY <1>1, <1>2 DEF Br!TypeOK
  <2>9. opened' \in 0 .. MaxContexts
    BY <1>1, <1>2 DEF Br!TypeOK
  <2>10. QED
    BY <2>1, <2>2, <2>3, <2>4, <2>5, <2>6, <2>7, <2>8, <2>9 DEF Br!TypeOK
<1>6. Br!OnItsWay'
  <2>1. task[t].op \in Br!Ops
    BY <1>1, <1>2, TaskTypes DEF TaskRecord
  <2>2. task[t].op # "reset"
    BY <1>1, <1>2 DEF BrowserHolds, Br!OnItsWay
  <2>3. \/ task'[t].pc = "rest"
        \/ task'[t].pc = "start" /\ task'[t].op \in {"warm", "render", "navigate"}
    BY <1>2, <2>1, <2>2 DEF Br!Ops
  <2>4. QED
    BY <1>1, <1>3, <2>3, WayStays DEF BrowserHolds
<1>7. Br!LocksHeld'
  BY <1>1, <1>2, <1>3, LocksStay DEF BrowserHolds, Br!LocksHeld, Br!Launching
<1>8. Br!DriverIsManaged'
  <2>1. \A u \in Tasks : u # t => task[u].pc \notin Br!Launching
    BY <1>1, <1>2 DEF BrowserHolds, Br!LocksHeld, Br!Launching
  <2>2. \A u \in Tasks : task'[u].pc # "launch" /\ (task'[u].pc = "start" => u = t)
    BY <1>2, <1>3, <2>1 DEF Br!Launching
  <2>3. hung' \/ drivers' \subseteq lostDrivers'
    BY <1>1, <1>2 DEF BrowserHolds, Br!DriverIsManaged
  <2>4. QED
    BY <2>2, <2>3 DEF Br!DriverIsManaged, Br!At
<1>9. Br!NumbersApart'
  BY <1>1, <1>2 DEF BrowserHolds, Br!NumbersApart
<1>10. Br!SessionIsClosed'
  BY <1>1, <1>2, <1>3, <1>4, SessionStays DEF BrowserHolds
<1>11. Br!ClosesAlone'
  BY <1>1, <1>2, <1>3 DEF BrowserHolds, Br!ClosesAlone, Br!Closing, Br!At
<1>12. Br!ContextsOwned'
  BY <1>1, <1>2, <1>3, <1>4, OwnersStay DEF BrowserHolds
<1>13. QED
  BY <1>5, <1>6, <1>7, <1>8, <1>9, <1>10, <1>11, <1>12, BrowserIsToo DEF BrowserHolds

LEMMA StartDriverStep ==
  ASSUME Br!IInv, NEW t \in Tasks, NEW ok \in BOOLEAN, Br!StartDriver(t, ok)
  PROVE  Br!IInv'
<1>1. Br!TypeOK /\ BrowserHolds
  BY BrowserIs
<1>2. /\ task[t].pc = "start" /\ OnlyMoves(t)
      /\ \/ /\ task'[t].pc = "launch" /\ task'[t].op = task[t].op /\ launches' = launches + 1
            /\ launches < MaxLaunches /\ drivers' = drivers \cup {launches'}
            /\ manager' = [manager EXCEPT !.pw = launches'] /\ UNCHANGED <<lock, pageLock>>
         \/ /\ task'[t].pc = "rest" /\ task'[t].op = "none" /\ lock' = Br!Free
            /\ pageLock' = IF pageLock = t THEN Br!Free ELSE pageLock
            /\ UNCHANGED <<launches, drivers, manager>>
      /\ UNCHANGED <<chromes, contexts, session, opened, hung, overlapped, orphaned,
                     lostDrivers, lostContexts>>
  <2>1. task[t].pc = "start" /\ "launch" \in Br!Places
    BY DEF Br!StartDriver, Br!At, Br!Places
  <2>2. QED
    BY <1>1, <2>1, TaskGoes, TaskRests
       DEF Br!StartDriver, Br!Goto, Br!Done, Br!Released, Br!excuses, Br!lost
<1>3. \A u \in Tasks : u # t => task'[u] = task[u]
  BY <1>2 DEF OnlyMoves
<1>4. Br!Excused => Br!Excused'
  BY <1>2 DEF Br!Excused
<1>5. Br!TypeOK'
  <2>1. task' \in [Tasks -> {Br!Rest}
            \cup [op : Br!Ops, browser : Br!Numbers, ctx : 0 .. MaxContexts,
                                          pc : Br!Places]]
    BY <1>2 DEF OnlyMoves, TaskRecords, TaskRecord
  <2>2. drivers' \subseteq Br!Numbers /\ launches' \in Br!Numbers
    BY <1>1, <1>2, ServicesAssumption DEF Br!TypeOK, Br!Numbers
  <2>3. chromes' \subseteq drivers'
    BY <1>1, <1>2 DEF Br!TypeOK, BrowserHolds, Br!DriverIsManaged, Br!At
  <2>4. contexts' \subseteq [n : 1 .. MaxContexts, browser : chromes']
    BY <1>1, <1>2 DEF Br!TypeOK
  <2>5. manager' \in [pw : Br!Numbers, browser : Br!Numbers]
    BY <1>1, <1>2, <2>2 DEF Br!TypeOK
  <2>6. lock' \in Tasks \cup {Br!Free} /\ pageLock' \in Tasks \cup {Br!Free}
    BY <1>1, <1>2 DEF Br!TypeOK
  <2>7. session' \in [context : 0 .. MaxContexts, page : {"none", "open", "closed"}]
    BY <1>1, <1>2 DEF Br!TypeOK
  <2>8. /\ {hung, overlapped, orphaned}' \subseteq BOOLEAN
        /\ lostDrivers' \subseteq Br!Numbers /\ lostContexts' \subseteq 0 .. MaxContexts
    BY <1>1, <1>2 DEF Br!TypeOK
  <2>9. opened' \in 0 .. MaxContexts
    BY <1>1, <1>2 DEF Br!TypeOK
  <2>10. QED
    BY <2>1, <2>2, <2>3, <2>4, <2>5, <2>6, <2>7, <2>8, <2>9 DEF Br!TypeOK
<1>6. Br!OnItsWay'
  BY <1>1, <1>2, <1>3, WayStays DEF BrowserHolds, Br!OnItsWay, Br!Ops
<1>7. Br!LocksHeld'
  BY <1>1, <1>2, <1>3, LocksStay DEF BrowserHolds, Br!LocksHeld, Br!Launching
<1>8. Br!DriverIsManaged'
  <2>1. \A u \in Tasks : u # t => task[u].pc \notin Br!Launching
    BY <1>1, <1>2 DEF BrowserHolds, Br!LocksHeld, Br!Launching
  <2>2. \A u \in Tasks : task'[u].pc # "start" /\ (task'[u].pc = "launch" => u = t)
    BY <1>2, <1>3, <2>1 DEF Br!Launching
  <2>3. hung \/ drivers \subseteq lostDrivers
    BY <1>1, <1>2 DEF BrowserHolds, Br!DriverIsManaged, Br!At
  <2>4. CASE UNCHANGED <<drivers, manager>> /\ task'[t].pc = "rest"
    BY <1>1, <1>2, <2>2, <2>4 DEF BrowserHolds, Br!DriverIsManaged, Br!At
  <2>5. CASE drivers' = drivers \cup {launches'} /\ manager' = [manager EXCEPT !.pw = launches']
    <3>1. manager'.pw = launches'
      BY <1>1, <2>5 DEF Br!TypeOK
    <3>2. QED
      BY <1>2, <2>2, <2>3, <2>5, <3>1 DEF Br!DriverIsManaged, Br!At
  <2>6. QED
    BY <1>2, <2>4, <2>5
<1>9. Br!NumbersApart'
  BY <1>1, <1>2 DEF BrowserHolds, Br!NumbersApart
<1>10. Br!SessionIsClosed'
  BY <1>1, <1>2, <1>3, <1>4, SessionStays DEF BrowserHolds
<1>11. Br!ClosesAlone'
  BY <1>1, <1>2, <1>3 DEF BrowserHolds, Br!ClosesAlone, Br!Closing, Br!At
<1>12. Br!ContextsOwned'
  BY <1>1, <1>2, <1>3, <1>4, OwnersStay DEF BrowserHolds
<1>13. QED
  BY <1>5, <1>6, <1>7, <1>8, <1>9, <1>10, <1>11, <1>12, BrowserIsToo DEF BrowserHolds

LEMMA LaunchStep ==
  ASSUME Br!IInv, NEW t \in Tasks, NEW ok \in BOOLEAN, Br!Launch(t, ok)
  PROVE  Br!IInv'
<1>1. Br!TypeOK /\ BrowserHolds
  BY BrowserIs
<1>2. /\ task[t].pc = "launch" /\ OnlyMoves(t) /\ lock' = Br!Free
      /\ \/ task'[t].pc = "rest" /\ task'[t].op = "none"
         \/ /\ task'[t].pc = "context" /\ task'[t].op = task[t].op /\ task[t].op # "warm"
            /\ pageLock' = pageLock
      /\ \/ /\ chromes' = chromes \cup {manager.pw} /\ pageLock' = pageLock
            /\ manager' = [manager EXCEPT !.browser = manager.pw]
         \/ /\ pageLock' = IF pageLock = t THEN Br!Free ELSE pageLock
            /\ UNCHANGED <<chromes, manager>>
      /\ UNCHANGED <<drivers, contexts, session, opened, hung, overlapped, orphaned,
                     launches, lostDrivers, lostContexts>>
  <2>1. task[t].pc = "launch" /\ manager.pw \in Br!Numbers
    BY <1>1 DEF Br!Launch, Br!At, Br!TypeOK
  <2>2. CASE ok
    BY <1>1, <2>1, <2>2, TaskHandedOut DEF Br!Launch, Br!excuses, Br!lost
  <2>3. CASE ~ok
    BY <1>1, <2>1, <2>3, TaskRests DEF Br!Launch, Br!Done, Br!Released, Br!excuses, Br!lost
  <2>4. QED
    BY <2>2, <2>3
<1>3. \A u \in Tasks : u # t => task'[u] = task[u]
  BY <1>2 DEF OnlyMoves
<1>4. Br!Excused => Br!Excused'
  BY <1>2 DEF Br!Excused
<1>5. Br!TypeOK'
  <2>1. task' \in [Tasks -> {Br!Rest}
            \cup [op : Br!Ops, browser : Br!Numbers, ctx : 0 .. MaxContexts,
                                          pc : Br!Places]]
    BY <1>2 DEF OnlyMoves, TaskRecords, TaskRecord
  <2>2. drivers' \subseteq Br!Numbers /\ launches' \in Br!Numbers
    BY <1>1, <1>2, ServicesAssumption DEF Br!TypeOK, Br!Numbers
  <2>3. chromes' \subseteq drivers'
    BY <1>1, <1>2 DEF Br!TypeOK, BrowserHolds, Br!DriverIsManaged, Br!At
  <2>4. contexts' \subseteq [n : 1 .. MaxContexts, browser : chromes']
    BY <1>1, <1>2 DEF Br!TypeOK
  <2>5. manager' \in [pw : Br!Numbers, browser : Br!Numbers]
    BY <1>1, <1>2, <2>2 DEF Br!TypeOK
  <2>6. lock' \in Tasks \cup {Br!Free} /\ pageLock' \in Tasks \cup {Br!Free}
    BY <1>1, <1>2 DEF Br!TypeOK
  <2>7. session' \in [context : 0 .. MaxContexts, page : {"none", "open", "closed"}]
    BY <1>1, <1>2 DEF Br!TypeOK
  <2>8. /\ {hung, overlapped, orphaned}' \subseteq BOOLEAN
        /\ lostDrivers' \subseteq Br!Numbers /\ lostContexts' \subseteq 0 .. MaxContexts
    BY <1>1, <1>2 DEF Br!TypeOK
  <2>9. opened' \in 0 .. MaxContexts
    BY <1>1, <1>2 DEF Br!TypeOK
  <2>10. QED
    BY <2>1, <2>2, <2>3, <2>4, <2>5, <2>6, <2>7, <2>8, <2>9 DEF Br!TypeOK
<1>6. Br!OnItsWay'
  BY <1>1, <1>2, <1>3, WayStays DEF BrowserHolds, Br!OnItsWay, Br!Ops
<1>7. Br!LocksHeld'
  BY <1>1, <1>2, <1>3, LocksStay DEF BrowserHolds, Br!LocksHeld, Br!Launching
<1>8. Br!DriverIsManaged'
  <2>1. \A u \in Tasks : u # t => task[u].pc \notin Br!Launching
    BY <1>1, <1>2 DEF BrowserHolds, Br!LocksHeld, Br!Launching
  <2>2. \A u \in Tasks : task'[u].pc # "start" /\ task'[u].pc # "launch"
    BY <1>2, <1>3, <2>1 DEF Br!Launching
  <2>3. manager'.pw = manager.pw
    BY <1>1, <1>2 DEF Br!TypeOK
  <2>4. QED
    BY <1>1, <1>2, <2>2, <2>3 DEF BrowserHolds, Br!DriverIsManaged, Br!At
<1>9. Br!NumbersApart'
  BY <1>1, <1>2 DEF BrowserHolds, Br!NumbersApart
<1>10. Br!SessionIsClosed'
  BY <1>1, <1>2, <1>3, <1>4, SessionStays DEF BrowserHolds
<1>11. Br!ClosesAlone'
  BY <1>1, <1>2, <1>3 DEF BrowserHolds, Br!ClosesAlone, Br!Closing, Br!At
<1>12. Br!ContextsOwned'
  BY <1>1, <1>2, <1>3, <1>4, OwnersStay DEF BrowserHolds
<1>13. QED
  BY <1>5, <1>6, <1>7, <1>8, <1>9, <1>10, <1>11, <1>12, BrowserIsToo DEF BrowserHolds

LEMMA NewContextStep ==
  ASSUME Br!IInv, NEW t \in Tasks, Br!NewContext(t)
  PROVE  Br!IInv'
<1>1. Br!TypeOK /\ BrowserHolds
  BY BrowserIs
<1>2. /\ task[t].pc = "context" /\ OnlyMoves(t)
      /\ \/ /\ task'[t].pc = "rest" /\ task'[t].op = "none"
            /\ pageLock' = IF pageLock = t THEN Br!Free ELSE pageLock
            /\ UNCHANGED <<contexts, session, opened>>
         \/ /\ task[t].browser \in chromes /\ opened < MaxContexts /\ opened' = opened + 1
            /\ contexts' = contexts \cup {[n |-> opened + 1, browser |-> task[t].browser]}
            /\ task'[t].op = task[t].op /\ task'[t].ctx = opened + 1 /\ pageLock' = pageLock
            /\ \/ task[t].op = "render" /\ session' = session /\ task'[t].pc = "use"
               \/ /\ task[t].op = "navigate" /\ task'[t].pc = "new page"
                  /\ session'.context = opened + 1 /\ session'.page = session.page
      /\ session' \in [context : 0 .. MaxContexts, page : {"none", "open", "closed"}]
      /\ UNCHANGED <<drivers, chromes, manager, lock, hung, overlapped, orphaned, launches,
                     lostDrivers, lostContexts>>
  <2> DEFINE b == task[t].browser
             pc == IF task[t].op = "render" THEN "use" ELSE "new page"
             r == [op |-> task[t].op, browser |-> b, ctx |-> opened + 1, pc |-> pc]
             c == [n |-> opened + 1, browser |-> b]
  <2>1. /\ task[t].pc = "context" /\ task[t].op \in {"render", "navigate"}
        /\ UNCHANGED <<drivers, chromes, manager, lock, hung, overlapped, orphaned,
                       launches, lostDrivers, lostContexts>>
    BY <1>1 DEF Br!NewContext, Br!At, BrowserHolds, Br!OnItsWay, Br!browser, Br!excuses, Br!lost
  <2>2. CASE b \notin chromes
    <3>1. /\ task' = [task EXCEPT ![t] = Br!Rest]
          /\ pageLock' = IF pageLock = t THEN Br!Free ELSE pageLock
          /\ UNCHANGED <<contexts, session, opened>>
      BY <2>2 DEF Br!NewContext, Br!Done, Br!Released
    <3>2. QED
      BY <1>1, <2>1, <3>1, TaskRests DEF Br!TypeOK
  <2>3. CASE b \in chromes
    <3>1. /\ opened < MaxContexts /\ opened' = opened + 1 /\ contexts' = contexts \cup {c}
          /\ session' = IF task[t].op = "render" THEN session
                        ELSE [session EXCEPT !.context = opened + 1]
          /\ task' = [task EXCEPT ![t].ctx = opened + 1, ![t].pc = pc]
          /\ pageLock' = pageLock
      BY <2>3 DEF Br!NewContext
    <3>2. /\ task[t] \in TaskRecord /\ task \in [Tasks -> TaskRecords]
          /\ opened + 1 \in 0 .. MaxContexts
      <4>1. task[t] \in TaskRecord /\ task \in [Tasks -> TaskRecords]
        BY <1>1, <2>1, TaskTypes DEF Br!TypeOK, TaskRecords, TaskRecord
      <4>a. opened < MaxContexts
        BY <3>1
      <4>2. opened + 1 \in 0 .. MaxContexts
        BY <1>1, <4>a, BrowserNumbers
      <4>3. QED
        BY <4>1, <4>2
    <3>3. r \in TaskRecord /\ pc \in {"use", "new page"}
      BY <3>2 DEF TaskRecord, Br!Places
    <3> DEFINE m == [task[t] EXCEPT !.ctx = opened + 1]
    <3>4. task' = [task EXCEPT ![t] = [m EXCEPT !.pc = pc]]
      BY <3>1, <3>2
    <3>5. m \in TaskRecord /\ m.op = task[t].op /\ m.browser = b /\ m.ctx = opened + 1
      BY <3>2 DEF TaskRecord
    <3> HIDE DEF m, pc
    <3>6. [m EXCEPT !.pc = pc] = [op |-> task[t].op, browser |-> b, ctx |-> opened + 1,
              pc |-> pc]
      BY <3>5 DEF TaskRecord
    <3>7. task' = [task EXCEPT ![t] = r]
      BY <3>4, <3>6
    <3>8. r \in TaskRecords /\ r.op = task[t].op /\ r.ctx = opened + 1 /\ r.pc = pc
      BY <3>3 DEF TaskRecords
    <3> HIDE DEF r
    <3>9. /\ OnlyMoves(t) /\ task'[t].op = task[t].op /\ task'[t].ctx = opened + 1
          /\ task'[t].pc = pc
      BY <1>1, <3>7, <3>8, TaskMoves
    <3>10. session \in [context : 0 .. MaxContexts, page : {"none", "open", "closed"}]
      BY <1>1 DEF Br!TypeOK
    <3>11. CASE task[t].op = "render"
      BY <2>1, <2>3, <3>1, <3>9, <3>10, <3>11 DEF pc
    <3>12. CASE task[t].op = "navigate"
      <4>1. session' = [session EXCEPT !.context = opened + 1] /\ pc = "new page"
        BY <3>1, <3>12 DEF pc
      <4>2. /\ session'.context = opened + 1 /\ session'.page = session.page
            /\ session' \in [context : 0 .. MaxContexts, page : {"none", "open", "closed"}]
        BY <3>2, <3>10, <4>1
      <4>3. QED
        BY <2>1, <2>3, <3>1, <3>9, <3>12, <4>1, <4>2
    <3>13. QED
      BY <2>1, <3>11, <3>12
  <2>4. QED
    BY <2>2, <2>3
<1>3. \A u \in Tasks : u # t => task'[u] = task[u]
  BY <1>2 DEF OnlyMoves
<1>4. Br!Excused => Br!Excused'
  BY <1>2 DEF Br!Excused
<1>5. Br!TypeOK'
  <2>1. task' \in [Tasks -> {Br!Rest}
            \cup [op : Br!Ops, browser : Br!Numbers, ctx : 0 .. MaxContexts,
                                          pc : Br!Places]]
    BY <1>2 DEF OnlyMoves, TaskRecords, TaskRecord
  <2>2. drivers' \subseteq Br!Numbers /\ launches' \in Br!Numbers
    BY <1>1, <1>2, ServicesAssumption DEF Br!TypeOK, Br!Numbers
  <2>3. chromes' \subseteq drivers'
    BY <1>1, <1>2 DEF Br!TypeOK, BrowserHolds, Br!DriverIsManaged, Br!At
  <2>4. contexts' \subseteq [n : 1 .. MaxContexts, browser : chromes']
    <3>1. CASE UNCHANGED contexts
      BY <1>1, <1>2, <3>1 DEF Br!TypeOK
    <3>2. CASE opened < MaxContexts /\ task[t].browser \in chromes
      <4>1. opened + 1 \in 1 .. MaxContexts
        BY <1>1, <3>2, BrowserNumbers
      <4>2. [n |-> opened + 1, browser |-> task[t].browser] \in [n :
                1 .. MaxContexts, browser : chromes]
        BY <3>2, <4>1
      <4>3. QED
        BY <1>1, <1>2, <4>2 DEF Br!TypeOK
    <3>3. QED
      BY <1>2, <3>1, <3>2
  <2>5. manager' \in [pw : Br!Numbers, browser : Br!Numbers]
    BY <1>1, <1>2, <2>2 DEF Br!TypeOK
  <2>6. lock' \in Tasks \cup {Br!Free} /\ pageLock' \in Tasks \cup {Br!Free}
    BY <1>1, <1>2 DEF Br!TypeOK
  <2>7. session' \in [context : 0 .. MaxContexts, page : {"none", "open", "closed"}]
    BY <1>1, <1>2 DEF Br!TypeOK
  <2>8. /\ {hung, overlapped, orphaned}' \subseteq BOOLEAN
        /\ lostDrivers' \subseteq Br!Numbers /\ lostContexts' \subseteq 0 .. MaxContexts
    BY <1>1, <1>2 DEF Br!TypeOK
  <2>9. opened' \in 0 .. MaxContexts
    <3>1. opened' = opened \/ (opened < MaxContexts /\ opened' = opened + 1)
      BY <1>2
    <3>2. QED
      BY <1>1, <3>1, BrowserNumbers
  <2>10. QED
    BY <2>1, <2>2, <2>3, <2>4, <2>5, <2>6, <2>7, <2>8, <2>9 DEF Br!TypeOK
<1>6. Br!OnItsWay'
  BY <1>1, <1>2, <1>3, WayStays DEF BrowserHolds, Br!OnItsWay, Br!Ops
<1>7. Br!LocksHeld'
  BY <1>1, <1>2, <1>3, LocksStay DEF BrowserHolds, Br!LocksHeld, Br!Launching
<1>8. Br!DriverIsManaged'
  BY <1>1, <1>2, <1>3 DEF BrowserHolds, Br!DriverIsManaged, Br!At, Br!LocksHeld, Br!Launching
<1>9. Br!NumbersApart'
  <2>1. CASE UNCHANGED <<contexts, session, opened>>
    BY <1>1, <2>1 DEF BrowserHolds, Br!NumbersApart
  <2>2. CASE opened' = opened + 1
    <3> DEFINE new == [n |-> opened + 1, browser |-> task[t].browser]
    <3>1. /\ contexts' = contexts \cup {new} /\ new.n = opened + 1 /\ opened \in Nat
          /\ session'.context = session.context \/ session'.context = opened + 1
          /\ session.context \in Nat /\ \A c \in contexts : c.n \in Nat
      <4>1. opened # opened + 1
        BY <1>1, BrowserNumbers
      <4>2. QED
        BY <1>1, <1>2, <2>2, <4>1, BrowserNumbers
    <3> HIDE DEF new
    <3>2. /\ session.context <= opened /\ \A c \in contexts : c.n <= opened
          /\ \A c, d \in contexts : c.n = d.n => c = d
      BY <1>1 DEF BrowserHolds, Br!NumbersApart
    <3>3. \A c \in contexts : c.n # new.n
      BY <3>1, <3>2
    <3>4. /\ session'.context <= opened' /\ \A c \in contexts' : c.n <= opened'
      BY <2>2, <3>1, <3>2
    <3>5. \A c, d \in contexts' : c.n = d.n => c = d
      BY <3>1, <3>2, <3>3
    <3>6. QED
      BY <3>4, <3>5 DEF Br!NumbersApart
  <2>3. QED
    BY <1>2, <2>1, <2>2
<1>10. Br!SessionIsClosed'
  <2>1. CASE session'.context = session.context
    <3>1. CASE UNCHANGED contexts
      BY <1>1, <1>2, <1>3, <1>4, <2>1, <3>1, SessionStays DEF BrowserHolds
    <3>2. CASE contexts' # contexts
      <4>1. PICK m : contexts' = contexts \cup {m} /\ m.n = opened + 1 /\ task'[t].pc # "clear"
        BY <1>2, <3>2
      <4>2. m.n # session.context
        BY <1>1, <4>1 DEF BrowserHolds, Br!NumbersApart, Br!TypeOK
      <4>3. session'.page = session.page
        BY <1>2
      <4>4. QED
        BY <1>1, <1>2, <1>3, <1>4, <2>1, <4>1, <4>2, <4>3
           DEF BrowserHolds, Br!SessionIsClosed, Br!Closing, Br!At
    <3>3. QED
      BY <3>1, <3>2
  <2>2. CASE session'.context # session.context
    <3>1. task[t].op = "navigate" /\ task'[t].pc = "new page"
      BY <1>2, <2>2
    <3>2. pageLock # Br!Free
      BY <1>1, <1>2, <3>1, ServicesAssumption DEF BrowserHolds, Br!LocksHeld, Br!Free
    <3>3. Br!Closing => Br!Excused
      BY <1>1, <3>2 DEF BrowserHolds, Br!ClosesAlone, Br!Excused
    <3>4. Br!Closing' => Br!Closing
      BY <1>3, <3>1 DEF Br!Closing, Br!At
    <3>5. QED
      BY <1>4, <3>1, <3>3, <3>4 DEF Br!SessionIsClosed, Br!At
  <2>3. QED
    BY <2>1, <2>2
<1>11. Br!ClosesAlone'
  BY <1>1, <1>2, <1>3 DEF BrowserHolds, Br!ClosesAlone, Br!Closing, Br!At
<1>12. Br!ContextsOwned'
  <2>1. CASE UNCHANGED <<contexts, session>>
    BY <1>1, <1>2, <1>3, <1>4, <2>1, OwnersStay DEF BrowserHolds
  <2>2. CASE opened' = opened + 1
    <3>1. SUFFICES ASSUME ~Br!Excused', NEW c \in contexts'
                   PROVE  \/ c.n \in {session'.context} \cup lostContexts'
                          \/ \E u \in Tasks : task'[u].pc = "use" /\ task'[u].ctx = c.n
      BY DEF Br!ContextsOwned
    <3>2. ~Br!Excused
      BY <1>4, <3>1
    <3>3. PICK m : /\ contexts' = contexts \cup {m} /\ m.n = opened + 1
              /\ task'[t].ctx = opened + 1
                   /\ \/ task'[t].pc = "use" /\ session' = session
                      \/ task[t].op = "navigate" /\ session'.context = opened + 1
      <4>1. opened # opened + 1
        BY <1>1, BrowserNumbers
      <4>2. QED
        BY <1>2, <2>2, <4>1
    <3>4. CASE c = m
      BY <3>3, <3>4
    <3>5. CASE c \in contexts
      <4>1. \/ c.n \in {session.context} \cup lostContexts
            \/ \E u \in Tasks : task[u].pc = "use" /\ task[u].ctx = c.n
        BY <1>1, <3>2, <3>5 DEF BrowserHolds, Br!ContextsOwned
      <4>2. CASE session' = session
        BY <1>2, <1>3, <4>1, <4>2
      <4>3. CASE task[t].op = "navigate"
        <5>1. pageLock = t /\ session.page # "open"
          BY <1>1, <1>2, <4>3 DEF BrowserHolds, Br!LocksHeld
        <5>2. \A u \in Tasks : ~Br!At(u, "new page")
          BY <1>1, <1>2, <5>1 DEF BrowserHolds, Br!LocksHeld, Br!OnItsWay, Br!At
        <5>3. c.n # session.context
          BY <1>1, <3>2, <3>5, <5>1, <5>2 DEF BrowserHolds, Br!SessionIsClosed
        <5>4. QED
          BY <1>2, <1>3, <4>1, <5>3
      <4>4. QED
        BY <3>3, <4>2, <4>3
    <3>6. QED
      BY <3>3, <3>4, <3>5
  <2>3. QED
    BY <1>2, <2>1, <2>2
<1>13. QED
  BY <1>5, <1>6, <1>7, <1>8, <1>9, <1>10, <1>11, <1>12, BrowserIsToo DEF BrowserHolds

LEMMA CloseContextStep ==
  ASSUME Br!IInv, NEW t \in Tasks, NEW ok \in BOOLEAN, Br!CloseContext(t, ok)
  PROVE  Br!IInv'
<1>1. Br!TypeOK /\ BrowserHolds
  BY BrowserIs
<1>2. /\ task[t].pc = "use" /\ OnlyMoves(t) /\ task'[t].pc = "rest" /\ task'[t].op = "none"
      /\ contexts' \subseteq contexts
      /\ hung' \/ \A c \in contexts' : c.n # task[t].ctx
      /\ (hung => hung') /\ hung' \in BOOLEAN
      /\ UNCHANGED <<drivers, chromes, manager, lock, session, pageLock, opened, overlapped,
                     orphaned, launches, lostDrivers, lostContexts>>
  <2>1. /\ task[t].pc = "use" /\ OnlyMoves(t) /\ task'[t].pc = "rest" /\ task'[t].op = "none"
    BY <1>1, TaskRests DEF Br!CloseContext, Br!At, Br!Done
  <2>2. (hung => hung') /\ hung' \in BOOLEAN /\ (~ok => hung')
    BY <1>1 DEF Br!CloseContext, Br!Hung, Br!TypeOK
  <2>3. contexts' \subseteq contexts /\ (~ok \/ \A c \in contexts' : c.n # task[t].ctx)
    BY DEF Br!CloseContext, Br!Without
  <2>4. QED
    BY <2>1, <2>2, <2>3 DEF Br!CloseContext, Br!browser, Br!lost
<1>3. \A u \in Tasks : u # t => task'[u] = task[u]
  BY <1>2 DEF OnlyMoves
<1>4. Br!Excused => Br!Excused'
  BY <1>2 DEF Br!Excused
<1>5. Br!TypeOK'
  BY <1>1, <1>2, TypesStay DEF OnlyMoves
<1>6. Br!OnItsWay'
  BY <1>1, <1>2, <1>3, WayStays DEF BrowserHolds, Br!OnItsWay, Br!Ops
<1>7. Br!LocksHeld'
  BY <1>1, <1>2, <1>3, LocksStay DEF BrowserHolds, Br!LocksHeld, Br!Launching
<1>8. Br!DriverIsManaged'
  BY <1>1, <1>2, <1>3 DEF BrowserHolds, Br!DriverIsManaged, Br!At, Br!LocksHeld, Br!Launching
<1>9. Br!NumbersApart'
  BY <1>1, <1>2 DEF BrowserHolds, Br!NumbersApart
<1>10. Br!SessionIsClosed'
  BY <1>1, <1>2, <1>3, <1>4, SessionStays DEF BrowserHolds
<1>11. Br!ClosesAlone'
  BY <1>1, <1>2, <1>3 DEF BrowserHolds, Br!ClosesAlone, Br!Closing, Br!At
<1>12. Br!ContextsOwned'
  <2>1. SUFFICES ASSUME ~Br!Excused', NEW c \in contexts'
                 PROVE  \/ c.n \in {session'.context} \cup lostContexts'
                        \/ \E u \in Tasks : task'[u].pc = "use" /\ task'[u].ctx = c.n
    BY DEF Br!ContextsOwned
  <2>2. ~Br!Excused /\ ~hung' /\ c \in contexts /\ c.n # task[t].ctx
    BY <1>2, <1>4, <2>1 DEF Br!Excused
  <2>3. \/ c.n \in {session.context} \cup lostContexts
        \/ \E u \in Tasks : task[u].pc = "use" /\ task[u].ctx = c.n
    BY <1>1, <2>2 DEF BrowserHolds, Br!ContextsOwned
  <2>4. QED
    BY <1>2, <1>3, <2>2, <2>3
<1>13. QED
  BY <1>5, <1>6, <1>7, <1>8, <1>9, <1>10, <1>11, <1>12, BrowserIsToo DEF BrowserHolds

LEMMA EnsurePageStep ==
  ASSUME Br!IInv, NEW t \in Tasks, Br!EnsurePage(t)
  PROVE  Br!IInv'
<1>1. Br!TypeOK /\ BrowserHolds
  BY BrowserIs
<1>2. /\ task[t].pc = "page" /\ pageLock = Br!Free /\ OnlyMoves(t)
      /\ \/ task'[t].pc = "rest" /\ task'[t].op = "none" /\ pageLock' = pageLock
         \/ /\ task'[t].pc = "ensure" /\ task'[t].op = task[t].op /\ pageLock' = t
            /\ session.page # "open"
      /\ (overlapped => overlapped') /\ (Br!Closing => overlapped') /\ overlapped' \in BOOLEAN
      /\ UNCHANGED <<drivers, chromes, manager, lock, contexts, session, opened, hung,
                     orphaned, launches, lostDrivers, lostContexts>>
  <2>1. task[t].pc = "page" /\ "ensure" \in Br!Places
    BY DEF Br!EnsurePage, Br!At, Br!Places
  <2>2. /\ OnlyMoves(t)
        /\ \/ task'[t].pc = "rest" /\ task'[t].op = "none" /\ pageLock' = pageLock
           \/ /\ task'[t].pc = "ensure" /\ task'[t].op = task[t].op /\ pageLock' = t
              /\ session.page # "open"
    BY <1>1, <2>1, TaskGoes, TaskRests DEF Br!EnsurePage, Br!Goto, Br!Done
  <2>3. (overlapped => overlapped') /\ (Br!Closing => overlapped') /\ overlapped' \in BOOLEAN
    BY <1>1 DEF Br!EnsurePage, Br!TypeOK
  <2>4. QED
    BY <2>1, <2>2, <2>3 DEF Br!EnsurePage, Br!browser, Br!lost
<1>3. \A u \in Tasks : u # t => task'[u] = task[u]
  BY <1>2 DEF OnlyMoves
<1>4. Br!Excused => Br!Excused'
  BY <1>2 DEF Br!Excused
<1>5. Br!TypeOK'
  BY <1>1, <1>2, TypesStay DEF OnlyMoves
<1>6. Br!OnItsWay'
  BY <1>1, <1>2, <1>3, WayStays DEF BrowserHolds, Br!OnItsWay, Br!Ops
<1>7. Br!LocksHeld'
  BY <1>1, <1>2, <1>3, LocksStay DEF BrowserHolds, Br!LocksHeld, Br!Launching
<1>8. Br!DriverIsManaged'
  BY <1>1, <1>2, <1>3 DEF BrowserHolds, Br!DriverIsManaged, Br!At, Br!LocksHeld, Br!Launching
<1>9. Br!NumbersApart'
  BY <1>1, <1>2 DEF BrowserHolds, Br!NumbersApart
<1>10. Br!SessionIsClosed'
  BY <1>1, <1>2, <1>3, <1>4, SessionStays DEF BrowserHolds
<1>11. Br!ClosesAlone'
  BY <1>1, <1>2, <1>3 DEF BrowserHolds, Br!ClosesAlone, Br!Closing, Br!At
<1>12. Br!ContextsOwned'
  BY <1>1, <1>2, <1>3, <1>4, OwnersStay DEF BrowserHolds
<1>13. QED
  BY <1>5, <1>6, <1>7, <1>8, <1>9, <1>10, <1>11, <1>12, BrowserIsToo DEF BrowserHolds

LEMMA NewPageStep ==
  ASSUME Br!IInv, NEW t \in Tasks, NEW ok \in BOOLEAN, Br!NewPage(t, ok)
  PROVE  Br!IInv'
<1>1. Br!TypeOK /\ BrowserHolds
  BY BrowserIs
<1>2. /\ task[t].pc = "new page" /\ OnlyMoves(t) /\ task'[t].pc = "rest" /\ task'[t].op = "none"
      /\ pageLock' = Br!Free
      /\ (orphaned => orphaned') /\ orphaned' \in BOOLEAN
      /\ session'.context = session.context /\ (orphaned' \/ session'.page = "open")
      /\ session' \in [context : 0 .. MaxContexts, page : {"none", "open", "closed"}]
      /\ UNCHANGED <<drivers, chromes, manager, lock, contexts, opened, hung, overlapped,
                     launches, lostDrivers, lostContexts>>
  <2>1. /\ task[t].pc = "new page" /\ OnlyMoves(t) /\ task'[t].pc = "rest"
               /\ task'[t].op = "none"
    BY <1>1, TaskRests DEF Br!NewPage, Br!At, Br!Done
  <2> DEFINE works == ok /\ \E c \in contexts : c.n = task[t].ctx
  <2>2. /\ session' = IF works THEN [session EXCEPT !.page = "open"] ELSE session
        /\ orphaned' = (orphaned \/ ~works)
    BY DEF Br!NewPage
  <2>3. works \in BOOLEAN /\ orphaned \in BOOLEAN
    BY <1>1 DEF Br!TypeOK
  <2>4. session \in [context : 0 .. MaxContexts, page : {"none", "open", "closed"}]
    BY <1>1 DEF Br!TypeOK
  <2> HIDE DEF works
  <2>5. (orphaned => orphaned') /\ orphaned' \in BOOLEAN /\ (~works => orphaned')
    BY <2>2, <2>3
  <2>6. /\ session'.context = session.context /\ (~works \/ session'.page = "open")
        /\ session' \in [context : 0 .. MaxContexts, page : {"none", "open", "closed"}]
    BY <2>2, <2>3, <2>4
  <2>7. QED
    BY <2>1, <2>5, <2>6 DEF Br!NewPage, Br!browser, Br!lost
<1>3. \A u \in Tasks : u # t => task'[u] = task[u]
  BY <1>2 DEF OnlyMoves
<1>4. Br!Excused => Br!Excused'
  BY <1>2 DEF Br!Excused
<1>5. Br!TypeOK'
  BY <1>1, <1>2, TypesStay DEF OnlyMoves
<1>6. Br!OnItsWay'
  BY <1>1, <1>2, <1>3, WayStays DEF BrowserHolds, Br!OnItsWay, Br!Ops
<1>7. Br!LocksHeld'
  <2>1. pageLock = t
    BY <1>1, <1>2 DEF BrowserHolds, Br!OnItsWay, Br!LocksHeld
  <2>2. task'[t].pc \notin Br!Launching /\ task'[t].op # "navigate" /\ lock' = lock
    BY <1>2 DEF Br!Launching
  <2>3. QED
    BY <1>1, <1>3, <2>1, <2>2, LocksStay DEF BrowserHolds
<1>8. Br!DriverIsManaged'
  BY <1>1, <1>2, <1>3 DEF BrowserHolds, Br!DriverIsManaged, Br!At, Br!LocksHeld, Br!Launching
<1>9. Br!NumbersApart'
  BY <1>1, <1>2 DEF BrowserHolds, Br!NumbersApart
<1>10. Br!SessionIsClosed'
  BY <1>1, <1>2, <1>3, <1>4
     DEF BrowserHolds, Br!SessionIsClosed, Br!Excused, Br!Closing, Br!At
<1>11. Br!ClosesAlone'
  BY <1>1, <1>2, <1>3 DEF BrowserHolds, Br!ClosesAlone, Br!Closing, Br!At
<1>12. Br!ContextsOwned'
  BY <1>1, <1>2, <1>3, <1>4, OwnersStay DEF BrowserHolds
<1>13. QED
  BY <1>5, <1>6, <1>7, <1>8, <1>9, <1>10, <1>11, <1>12, BrowserIsToo DEF BrowserHolds

LEMMA ResetSessionStep ==
  ASSUME Br!IInv, NEW t \in Tasks, NEW ok \in BOOLEAN, Br!Reset(t, ok)
  PROVE  Br!IInv'
<1>1. Br!TypeOK /\ BrowserHolds
  BY BrowserIs
<1>2. /\ task[t].pc = "reset" /\ OnlyMoves(t) /\ task'[t].pc = "clear"
             /\ task'[t].op = task[t].op
      /\ contexts' \subseteq contexts
      /\ hung' \/ \A c \in contexts' : c.n # session.context
      /\ (hung => hung') /\ hung' \in BOOLEAN
      /\ (overlapped => overlapped') /\ (pageLock # Br!Free => overlapped')
      /\ overlapped' \in BOOLEAN
      /\ UNCHANGED <<drivers, chromes, manager, lock, session, pageLock, opened, orphaned,
                     launches, lostDrivers, lostContexts>>
  <2>1. task[t].pc = "reset" /\ "clear" \in Br!Places
    BY DEF Br!Reset, Br!At, Br!Places
  <2>2. OnlyMoves(t) /\ task'[t].pc = "clear" /\ task'[t].op = task[t].op
    BY <1>1, <2>1, TaskGoes DEF Br!Reset, Br!Goto
  <2>3. (hung => hung') /\ hung' \in BOOLEAN /\ (~ok => hung')
    BY <1>1 DEF Br!Reset, Br!Hung, Br!TypeOK
  <2>4. contexts' \subseteq contexts /\ (~ok \/ \A c \in contexts' : c.n # session.context)
    BY DEF Br!Reset, Br!Without
  <2>5. /\ (overlapped => overlapped') /\ (pageLock # Br!Free => overlapped')
        /\ overlapped' \in BOOLEAN
    BY <1>1 DEF Br!Reset, Br!TypeOK
  <2>6. QED
    BY <2>1, <2>2, <2>3, <2>4, <2>5 DEF Br!Reset, Br!browser, Br!lost
<1>3. \A u \in Tasks : u # t => task'[u] = task[u]
  BY <1>2 DEF OnlyMoves
<1>4. Br!Excused => Br!Excused'
  BY <1>2 DEF Br!Excused
<1>5. Br!TypeOK'
  BY <1>1, <1>2, TypesStay DEF OnlyMoves
<1>6. Br!OnItsWay'
  BY <1>1, <1>2, <1>3, WayStays DEF BrowserHolds, Br!OnItsWay, Br!Ops
<1>7. Br!LocksHeld'
  BY <1>1, <1>2, <1>3, LocksStay DEF BrowserHolds, Br!LocksHeld, Br!Launching
<1>8. Br!DriverIsManaged'
  BY <1>1, <1>2, <1>3 DEF BrowserHolds, Br!DriverIsManaged, Br!At, Br!LocksHeld, Br!Launching
<1>9. Br!NumbersApart'
  BY <1>1, <1>2 DEF BrowserHolds, Br!NumbersApart
<1>10. Br!SessionIsClosed'
  BY <1>2 DEF Br!SessionIsClosed, Br!Excused
<1>11. Br!ClosesAlone'
  BY <1>1, <1>2, <1>3 DEF BrowserHolds, Br!ClosesAlone, Br!Closing, Br!At
<1>12. Br!ContextsOwned'
  BY <1>1, <1>2, <1>3, <1>4, OwnersStay DEF BrowserHolds
<1>13. QED
  BY <1>5, <1>6, <1>7, <1>8, <1>9, <1>10, <1>11, <1>12, BrowserIsToo DEF BrowserHolds

LEMMA ClearSessionStep ==
  ASSUME Br!IInv, NEW t \in Tasks, Br!Clear(t)
  PROVE  Br!IInv'
<1>1. Br!TypeOK /\ BrowserHolds
  BY BrowserIs
<1>2. /\ \/ task[t].pc = "clear"
         \/ task[t].pc = "reset" /\ session.context = 0
      /\ OnlyMoves(t)
      /\ \/ task'[t].pc = "shut" /\ task'[t].op = task[t].op /\ task[t].op = "close"
         \/ task'[t].pc = "rest" /\ task'[t].op = "none"
      /\ session' = [context |-> 0, page |-> "none"]
      /\ session'.context = 0 /\ session'.page = "none"
      /\ (overlapped => overlapped') /\ (pageLock # Br!Free => overlapped')
      /\ overlapped' \in BOOLEAN
      /\ UNCHANGED <<drivers, chromes, manager, lock, contexts, pageLock, opened, hung,
                     orphaned, launches, lostDrivers, lostContexts>>
  <2>1. /\ \/ task[t].pc = "clear"
           \/ task[t].pc = "reset" /\ session.context = 0
        /\ "shut" \in Br!Places
    BY DEF Br!Clear, Br!At, Br!Places, Br!None
  <2>2. /\ OnlyMoves(t)
        /\ \/ task'[t].pc = "shut" /\ task'[t].op = task[t].op /\ task[t].op = "close"
           \/ task'[t].pc = "rest" /\ task'[t].op = "none"
    BY <1>1, <2>1, TaskGoes, TaskRests DEF Br!Clear, Br!Goto, Br!Done
  <2>3. /\ (overlapped => overlapped') /\ (pageLock # Br!Free => overlapped')
        /\ overlapped' \in BOOLEAN
    BY <1>1 DEF Br!Clear, Br!TypeOK
  <2>4. session' = [context |-> 0, page |-> "none"]
    BY DEF Br!Clear, Br!None
  <2>5. QED
    BY <2>1, <2>2, <2>3, <2>4 DEF Br!Clear, Br!browser, Br!lost
<1>3. \A u \in Tasks : u # t => task'[u] = task[u]
  BY <1>2 DEF OnlyMoves
<1>4. Br!Excused => Br!Excused'
  BY <1>2 DEF Br!Excused
<1>5. Br!TypeOK'
  <2>1. session' \in [context : 0 .. MaxContexts, page : {"none", "open", "closed"}]
    BY <1>2, ServicesAssumption
  <2>2. QED
    BY <1>1, <1>2, <2>1, TypesStay DEF OnlyMoves
<1>6. Br!OnItsWay'
  BY <1>1, <1>2, <1>3, WayStays DEF BrowserHolds, Br!OnItsWay, Br!Ops
<1>7. Br!LocksHeld'
  BY <1>1, <1>2, <1>3, LocksStay DEF BrowserHolds, Br!LocksHeld, Br!Launching
<1>8. Br!DriverIsManaged'
  BY <1>1, <1>2, <1>3 DEF BrowserHolds, Br!DriverIsManaged, Br!At, Br!LocksHeld, Br!Launching
<1>9. Br!NumbersApart'
  BY <1>1, <1>2, BrowserNumbers DEF BrowserHolds, Br!NumbersApart
<1>10. Br!SessionIsClosed'
  BY <1>1, <1>2, BrowserNumbers DEF Br!SessionIsClosed
<1>11. Br!ClosesAlone'
  BY <1>1, <1>2, <1>3 DEF BrowserHolds, Br!ClosesAlone, Br!Closing, Br!At
<1>12. Br!ContextsOwned'
  <2>1. SUFFICES ASSUME ~Br!Excused', NEW c \in contexts, c.n \notin lostContexts
                 PROVE  \E u \in Tasks : task'[u].pc = "use" /\ task'[u].ctx = c.n
    BY <1>2 DEF Br!ContextsOwned
  <2>2. ~Br!Excused /\ c.n # 0
    BY <1>1, <1>4, <2>1, BrowserNumbers
  <2>3. c.n # session.context
    BY <1>1, <1>2, <2>2 DEF BrowserHolds, Br!SessionIsClosed, Br!Closing, Br!At
  <2>4. \E u \in Tasks : task[u].pc = "use" /\ task[u].ctx = c.n
    BY <1>1, <2>1, <2>2, <2>3 DEF BrowserHolds, Br!ContextsOwned
  <2>5. QED
    BY <1>2, <1>3, <2>4
<1>13. QED
  BY <1>5, <1>6, <1>7, <1>8, <1>9, <1>10, <1>11, <1>12, BrowserIsToo DEF BrowserHolds

LEMMA CloseManagerStep ==
  ASSUME Br!IInv, NEW t \in Tasks, Br!Close(t)
  PROVE  Br!IInv'
<1>1. Br!TypeOK /\ BrowserHolds
  BY BrowserIs
<1>2. /\ task[t].pc = "shut" /\ lock = Br!Free /\ lock' = t /\ OnlyMoves(t)
      /\ task'[t].pc = "drop" /\ task'[t].op = task[t].op
      /\ UNCHANGED <<drivers, chromes, manager, contexts, session, pageLock, opened, hung,
                     overlapped, orphaned, launches, lostDrivers, lostContexts>>
  <2>1. task[t].pc = "shut" /\ "drop" \in Br!Places
    BY DEF Br!Close, Br!At, Br!Places
  <2>2. OnlyMoves(t) /\ task'[t].pc = "drop" /\ task'[t].op = task[t].op
    BY <1>1, <2>1, TaskGoes DEF Br!Close, Br!Goto
  <2>3. QED
    BY <2>1, <2>2 DEF Br!Close, Br!page, Br!excuses, Br!lost
<1>3. \A u \in Tasks : u # t => task'[u] = task[u]
  BY <1>2 DEF OnlyMoves
<1>4. Br!Excused => Br!Excused'
  BY <1>2 DEF Br!Excused
<1>5. Br!TypeOK'
  BY <1>1, <1>2, TypesStay DEF OnlyMoves
<1>6. Br!OnItsWay'
  BY <1>1, <1>2, <1>3, WayStays DEF BrowserHolds, Br!OnItsWay, Br!Ops
<1>7. Br!LocksHeld'
  BY <1>1, <1>2, <1>3, LocksStay DEF BrowserHolds, Br!LocksHeld, Br!Launching
<1>8. Br!DriverIsManaged'
  BY <1>1, <1>2, <1>3 DEF BrowserHolds, Br!DriverIsManaged, Br!At, Br!LocksHeld, Br!Launching
<1>9. Br!NumbersApart'
  BY <1>1, <1>2 DEF BrowserHolds, Br!NumbersApart
<1>10. Br!SessionIsClosed'
  BY <1>1, <1>2, <1>3, <1>4, SessionStays DEF BrowserHolds
<1>11. Br!ClosesAlone'
  BY <1>1, <1>2, <1>3 DEF BrowserHolds, Br!ClosesAlone, Br!Closing, Br!At
<1>12. Br!ContextsOwned'
  BY <1>1, <1>2, <1>3, <1>4, OwnersStay DEF BrowserHolds
<1>13. QED
  BY <1>5, <1>6, <1>7, <1>8, <1>9, <1>10, <1>11, <1>12, BrowserIsToo DEF BrowserHolds

LEMMA ChromeDiesStep ==
  ASSUME Br!IInv, NEW b \in chromes, Br!ChromeDies(b)
  PROVE  Br!IInv'
<1>1. Br!TypeOK /\ BrowserHolds
  BY BrowserIs
<1>2. /\ chromes' \subseteq chromes /\ contexts' \subseteq contexts
      /\ \A c \in contexts' : c.browser \in chromes => c.browser \in chromes'
      /\ session'.context = session.context
      /\ session'.page = "open" => session.page = "open"
      /\ session'.page # session.page => \E c \in contexts \ contexts' : c.n = session.context
      /\ session' \in [context : 0 .. MaxContexts, page : {"none", "open", "closed"}]
      /\ UNCHANGED <<drivers, manager, lock, pageLock, opened, task, hung, overlapped,
                     orphaned, launches, lostDrivers, lostContexts>>
  <2>1. /\ chromes' = chromes \ {b} /\ contexts' = contexts \ Br!Open(b)
        /\ session' = IF \E c \in Br!Open(b) : c.n = session.context
                      THEN [session EXCEPT !.page = Br!Gone(session)] ELSE session
        /\ UNCHANGED <<drivers, manager, lock, pageLock, opened, task, hung, overlapped,
                       orphaned, launches, lostDrivers, lostContexts>>
    BY DEF Br!ChromeDies, Br!excuses, Br!lost
  <2>2. session \in [context : 0 .. MaxContexts, page : {"none", "open", "closed"}]
    BY <1>1 DEF Br!TypeOK
  <2>3. Br!Gone(session) \in {"none", "closed"}
    BY <2>2 DEF Br!Gone
  <2>4. QED
    BY <2>1, <2>2, <2>3 DEF Br!Open
<1>3. Br!Excused => Br!Excused'
  BY <1>2 DEF Br!Excused
<1>4. Br!TypeOK'
  BY <1>1, <1>2, TypesStay DEF OnlyMoves
<1>5. Br!OnItsWay'
  BY <1>1, <1>2 DEF BrowserHolds, Br!OnItsWay
<1>6. Br!LocksHeld'
  BY <1>1, <1>2 DEF BrowserHolds, Br!LocksHeld
<1>7. Br!DriverIsManaged'
  BY <1>1, <1>2 DEF BrowserHolds, Br!DriverIsManaged, Br!At, Br!LocksHeld, Br!Launching
<1>8. Br!NumbersApart'
  BY <1>1, <1>2 DEF BrowserHolds, Br!NumbersApart
<1>9. Br!SessionIsClosed'
  <2>1. CASE session'.page = session.page
    BY <1>1, <1>2, <1>3, <2>1, SessionStays DEF BrowserHolds
  <2>2. CASE session'.page # session.page
    <3>1. PICK c \in contexts \ contexts' : c.n = session.context
      BY <1>2, <2>2
    <3>2. \A d \in contexts' : d.n # session.context
      BY <1>1, <1>2, <3>1 DEF BrowserHolds, Br!NumbersApart
    <3>3. QED
      BY <1>2, <3>2 DEF Br!SessionIsClosed
  <2>3. QED
    BY <2>1, <2>2
<1>10. Br!ClosesAlone'
  BY <1>1, <1>2 DEF BrowserHolds, Br!ClosesAlone, Br!Closing, Br!At
<1>11. Br!ContextsOwned'
  BY <1>1, <1>2, <1>3, OwnersStay DEF BrowserHolds
<1>12. QED
  BY <1>4, <1>5, <1>6, <1>7, <1>8, <1>9, <1>10, <1>11, BrowserIsToo DEF BrowserHolds

LEMMA PageClosesStep ==
  ASSUME Br!IInv, Br!PageCloses
  PROVE  Br!IInv'
<1>1. Br!TypeOK /\ BrowserHolds
  BY BrowserIs
<1>2. /\ orphaned' = TRUE /\ session'.page = "closed" /\ session'.context = session.context
      /\ session' \in [context : 0 .. MaxContexts, page : {"none", "open", "closed"}]
      /\ UNCHANGED <<drivers, chromes, manager, lock, contexts, pageLock, opened, task,
                     hung, overlapped, launches, lostDrivers, lostContexts>>
  BY <1>1 DEF Br!PageCloses, Br!TypeOK, Br!browser, Br!lost
<1>3. Br!Excused => Br!Excused'
  BY <1>2 DEF Br!Excused
<1>4. Br!TypeOK'
  BY <1>1, <1>2, TypesStay DEF OnlyMoves
<1>5. Br!OnItsWay'
  BY <1>1, <1>2 DEF BrowserHolds, Br!OnItsWay
<1>6. Br!LocksHeld'
  BY <1>1, <1>2 DEF BrowserHolds, Br!LocksHeld
<1>7. Br!DriverIsManaged'
  BY <1>1, <1>2 DEF BrowserHolds, Br!DriverIsManaged, Br!At, Br!LocksHeld, Br!Launching
<1>8. Br!NumbersApart'
  BY <1>1, <1>2 DEF BrowserHolds, Br!NumbersApart
<1>9. Br!SessionIsClosed'
  BY <1>2 DEF Br!SessionIsClosed, Br!Excused
<1>10. Br!ClosesAlone'
  BY <1>1, <1>2 DEF BrowserHolds, Br!ClosesAlone, Br!Closing, Br!At
<1>11. Br!ContextsOwned'
  BY <1>1, <1>2, <1>3, OwnersStay DEF BrowserHolds
<1>12. QED
  BY <1>4, <1>5, <1>6, <1>7, <1>8, <1>9, <1>10, <1>11, BrowserIsToo DEF BrowserHolds

\* A render that is cancelled gives the manager's lock back, and leaves all but the
\* processes and contexts as they were.
LEMMA CutFacts ==
  ASSUME Br!TypeOK, BrowserHolds, NEW t \in Tasks, Br!Cut(t), task[t].pc # "use"
  PROVE  /\ OnlyMoves(t) /\ task'[t].pc = "rest" /\ task'[t].op = "none"
         /\ task[t].op = "render"
         /\ lock' = IF lock = t THEN Br!Free ELSE lock
         /\ UNCHANGED <<session, pageLock, hung, overlapped, orphaned>>
         /\ \A u \in Tasks : u # t => task'[u] = task[u]
         /\ \A u \in Tasks : task[u].pc \in {"use", "new page"} => task'[u] = task[u]
         /\ \A u \in Tasks : task'[u].pc \in {"start", "launch", "clear"} => task'[u] = task[u]
         /\ Br!Excused' = Br!Excused
         /\ Br!OnItsWay' /\ Br!LocksHeld' /\ Br!ClosesAlone'
<1>1. /\ OnlyMoves(t) /\ task'[t].pc = "rest" /\ task'[t].op = "none"
      /\ task[t].op = "render" /\ lock' = IF lock = t THEN Br!Free ELSE lock
      /\ UNCHANGED <<session, pageLock, hung, overlapped, orphaned>>
  BY TaskRests DEF Br!Cut, Br!Done
<1>2. \A u \in Tasks : u # t => task'[u] = task[u]
  BY <1>1 DEF OnlyMoves
<1>3. task[t].pc # "new page"
  BY <1>1 DEF BrowserHolds, Br!OnItsWay
<1>4. Br!OnItsWay'
  BY <1>1, <1>2, WayStays DEF BrowserHolds
<1>5. Br!LocksHeld'
  BY <1>1, <1>2, LocksStay DEF BrowserHolds, Br!Launching
<1>6. Br!ClosesAlone'
  BY <1>1, <1>2 DEF BrowserHolds, Br!ClosesAlone, Br!Closing, Br!At
<1>7. Br!Excused' = Br!Excused
  BY <1>1 DEF Br!Excused
<1>8. QED
  BY <1>1, <1>2, <1>3, <1>4, <1>5, <1>6, <1>7

\* A render that launches is the only one to.
LEMMA CutLauncher ==
  ASSUME Br!TypeOK, BrowserHolds, NEW t \in Tasks, Br!Cut(t), task[t].pc \in Br!Launching
  PROVE  \A u \in Tasks : task'[u].pc \notin {"start", "launch"}
<1>1. \A u \in Tasks : u # t => task[u].pc \notin Br!Launching
  BY DEF BrowserHolds, Br!LocksHeld
<1>2. QED
  BY <1>1, CutFacts DEF Br!Launching

LEMMA CutShortStep ==
  ASSUME Br!IInv, NEW t \in Tasks, Br!CutShort(t)
  PROVE  Br!IInv'
<1>1. Br!TypeOK /\ BrowserHolds
  BY BrowserIs
<1>2. /\ Br!Cut(t) /\ task[t].pc # "use"
      /\ UNCHANGED <<drivers, chromes, manager, contexts, opened, launches, lostDrivers,
                     lostContexts>>
  BY DEF Br!CutShort, Br!lost
<1>3. Br!TypeOK'
  BY <1>1, <1>2, CutFacts, TypesStay DEF OnlyMoves
<1>4. Br!DriverIsManaged'
  <2>1. /\ hung' = hung
        /\ \A u \in Tasks : task'[u].pc \in {"start", "launch"} => task'[u] = task[u]
    BY <1>1, <1>2, CutFacts
  <2>2. QED
    BY <1>1, <1>2, <2>1 DEF BrowserHolds, Br!DriverIsManaged, Br!At
<1>5. Br!NumbersApart'
  BY <1>1, <1>2, CutFacts DEF BrowserHolds, Br!NumbersApart
<1>6. Br!SessionIsClosed'
  BY <1>1, <1>2, CutFacts, SessionStays DEF BrowserHolds
<1>7. Br!ContextsOwned'
  BY <1>1, <1>2, CutFacts, OwnersStay DEF BrowserHolds
<1>8. QED
  BY <1>1, <1>2, <1>3, <1>4, <1>5, <1>6, <1>7, CutFacts, BrowserIsToo DEF BrowserHolds

LEMMA CutDroppingStep ==
  ASSUME Br!IInv, NEW t \in Tasks, Br!CutDropping(t)
  PROVE  Br!IInv'
<1>1. Br!TypeOK /\ BrowserHolds
  BY BrowserIs
<1>2. /\ Br!Cut(t) /\ task[t].pc # "use" /\ task[t].pc \in Br!Launching
      /\ chromes' \subseteq chromes /\ contexts' \subseteq contexts /\ drivers' \subseteq drivers
      /\ \A c \in contexts' : c.browser \in chromes => c.browser \in chromes'
      /\ chromes \subseteq drivers => chromes' \subseteq drivers'
      /\ UNCHANGED <<manager, opened, launches, lostDrivers, lostContexts>>
  <2>1. Br!Cut(t) /\ task[t].pc \in {"drop", "stop"}
    BY DEF Br!CutDropping
  <2>2. CASE task[t].pc = "drop"
    BY <2>1, <2>2 DEF Br!CutDropping, Br!lost, Br!At, Br!Open, Br!Launching
  <2>3. CASE task[t].pc = "stop"
    BY <2>1, <2>3 DEF Br!CutDropping, Br!lost, Br!At, Br!Open, Br!Launching
  <2>4. QED
    BY <2>1, <2>2, <2>3
<1>3. Br!TypeOK'
  <2>1. task' \in [Tasks -> TaskRecords]
    BY <1>1, <1>2, CutFacts DEF OnlyMoves
  <2>2. /\ drivers' \subseteq Br!Numbers /\ chromes' \subseteq drivers'
        /\ contexts' \subseteq [n : 1 .. MaxContexts, browser : chromes']
    BY <1>1, <1>2 DEF Br!TypeOK
  <2>3. lock' \in Tasks \cup {Br!Free}
    BY <1>1, <1>2, CutFacts DEF Br!TypeOK
  <2>4. UNCHANGED <<session, pageLock, hung, overlapped, orphaned>>
    BY <1>1, <1>2, CutFacts
  <2>5. QED
    BY <1>1, <1>2, <2>1, <2>2, <2>3, <2>4 DEF Br!TypeOK, TaskRecords, TaskRecord
<1>4. Br!DriverIsManaged'
  <2>1. \A u \in Tasks : task'[u].pc \notin {"start", "launch"}
    BY <1>1, <1>2, CutLauncher
  <2>2. hung' = hung
    BY <1>1, <1>2, CutFacts
  <2>3. QED
    BY <1>1, <1>2, <2>1, <2>2 DEF BrowserHolds, Br!DriverIsManaged, Br!At
<1>5. Br!NumbersApart'
  BY <1>1, <1>2, CutFacts DEF BrowserHolds, Br!NumbersApart
<1>6. Br!SessionIsClosed'
  BY <1>1, <1>2, CutFacts, SessionStays DEF BrowserHolds
<1>7. Br!ContextsOwned'
  BY <1>1, <1>2, CutFacts, OwnersStay DEF BrowserHolds
<1>8. QED
  BY <1>1, <1>2, <1>3, <1>4, <1>5, <1>6, <1>7, CutFacts, BrowserIsToo DEF BrowserHolds

\* The driver that comes up is lost.
LEMMA CutStartingStep ==
  ASSUME Br!IInv, NEW t \in Tasks, Br!CutStarting(t)
  PROVE  Br!IInv'
<1>1. Br!TypeOK /\ BrowserHolds
  BY BrowserIs
<1>2. /\ Br!Cut(t) /\ task[t].pc # "use" /\ task[t].pc \in Br!Launching
      /\ launches < MaxLaunches /\ launches' = launches + 1
      /\ drivers' = drivers \cup {launches'} /\ lostDrivers' = lostDrivers \cup {launches'}
      /\ UNCHANGED <<chromes, manager, contexts, opened, lostContexts>>
  BY DEF Br!CutStarting, Br!At, Br!Launching
<1>3. Br!TypeOK'
  <2>1. task' \in [Tasks -> TaskRecords]
    BY <1>1, <1>2, CutFacts DEF OnlyMoves
  <2>2. launches' \in Br!Numbers
    BY <1>1, <1>2, ServicesAssumption DEF Br!TypeOK, Br!Numbers
  <2>3. /\ drivers' \subseteq Br!Numbers /\ chromes' \subseteq drivers'
        /\ lostDrivers' \subseteq Br!Numbers
    BY <1>1, <1>2, <2>2 DEF Br!TypeOK
  <2>4. lock' \in Tasks \cup {Br!Free}
    BY <1>1, <1>2, CutFacts DEF Br!TypeOK
  <2>5. UNCHANGED <<session, pageLock, hung, overlapped, orphaned>>
    BY <1>1, <1>2, CutFacts
  <2>6. QED
    BY <1>1, <1>2, <2>1, <2>2, <2>3, <2>4, <2>5 DEF Br!TypeOK, TaskRecords, TaskRecord
<1>4. Br!DriverIsManaged'
  <2>1. \A u \in Tasks : task'[u].pc \notin {"start", "launch"}
    BY <1>1, <1>2, CutLauncher
  <2>2. hung' = hung /\ drivers' \ lostDrivers' \subseteq drivers \ lostDrivers
    BY <1>1, <1>2, CutFacts
  <2>3. QED
    BY <1>1, <1>2, <2>1, <2>2 DEF BrowserHolds, Br!DriverIsManaged, Br!At
<1>5. Br!NumbersApart'
  BY <1>1, <1>2, CutFacts DEF BrowserHolds, Br!NumbersApart
<1>6. Br!SessionIsClosed'
  BY <1>1, <1>2, CutFacts, SessionStays DEF BrowserHolds
<1>7. Br!ContextsOwned'
  BY <1>1, <1>2, CutFacts, OwnersStay DEF BrowserHolds
<1>8. QED
  BY <1>1, <1>2, <1>3, <1>4, <1>5, <1>6, <1>7, CutFacts, BrowserIsToo DEF BrowserHolds

\* Chromium that comes up runs beside its driver, which the manager knows.
LEMMA CutLaunchingStep ==
  ASSUME Br!IInv, NEW t \in Tasks, Br!CutLaunching(t)
  PROVE  Br!IInv'
<1>1. Br!TypeOK /\ BrowserHolds
  BY BrowserIs
<1>2. /\ Br!Cut(t) /\ task[t].pc = "launch" /\ task[t].pc # "use"
      /\ task[t].pc \in Br!Launching /\ chromes' = chromes \cup {manager.pw}
      /\ UNCHANGED <<drivers, manager, contexts, opened, launches, lostDrivers, lostContexts>>
  BY DEF Br!CutLaunching, Br!At, Br!Launching, Br!lost
<1>3. Br!TypeOK'
  <2>1. task' \in [Tasks -> TaskRecords]
    BY <1>1, <1>2, CutFacts DEF OnlyMoves
  <2>2. /\ chromes' \subseteq drivers
        /\ contexts \subseteq [n : 1 .. MaxContexts, browser : chromes']
    BY <1>1, <1>2 DEF Br!TypeOK, BrowserHolds, Br!DriverIsManaged, Br!At
  <2>3. lock' \in Tasks \cup {Br!Free}
    BY <1>1, <1>2, CutFacts DEF Br!TypeOK
  <2>4. UNCHANGED <<session, pageLock, hung, overlapped, orphaned>>
    BY <1>1, <1>2, CutFacts
  <2>5. QED
    BY <1>1, <1>2, <2>1, <2>2, <2>3, <2>4 DEF Br!TypeOK, TaskRecords, TaskRecord
<1>4. Br!DriverIsManaged'
  <2>1. \A u \in Tasks : task'[u].pc \notin {"start", "launch"}
    BY <1>1, <1>2, CutLauncher
  <2>2. hung' = hung
    BY <1>1, <1>2, CutFacts
  <2>3. QED
    BY <1>1, <1>2, <2>1, <2>2 DEF BrowserHolds, Br!DriverIsManaged, Br!At
<1>5. Br!NumbersApart'
  BY <1>1, <1>2, CutFacts DEF BrowserHolds, Br!NumbersApart
<1>6. Br!SessionIsClosed'
  BY <1>1, <1>2, CutFacts, SessionStays DEF BrowserHolds
<1>7. Br!ContextsOwned'
  BY <1>1, <1>2, CutFacts, OwnersStay DEF BrowserHolds
<1>8. QED
  BY <1>1, <1>2, <1>3, <1>4, <1>5, <1>6, <1>7, CutFacts, BrowserIsToo DEF BrowserHolds

\* The context that opens is lost, and has the next number.
LEMMA CutOpeningStep ==
  ASSUME Br!IInv, NEW t \in Tasks, Br!CutOpening(t)
  PROVE  Br!IInv'
<1>1. Br!TypeOK /\ BrowserHolds
  BY BrowserIs
<1> DEFINE new == [n |-> opened + 1, browser |-> task[t].browser]
<1>2. /\ Br!Cut(t) /\ task[t].pc # "use" /\ task[t].browser \in chromes
      /\ opened < MaxContexts /\ opened' = opened + 1 /\ contexts' = contexts \cup {new}
      /\ lostContexts' = lostContexts \cup {opened + 1}
      /\ UNCHANGED <<drivers, chromes, manager, lostDrivers, launches>>
  BY DEF Br!CutOpening, Br!At
<1>3. opened + 1 \in 1 .. MaxContexts /\ opened \in Nat /\ session.context \in Nat
  BY <1>1, <1>2, BrowserNumbers
<1>4. new.n = opened + 1 /\ new \in [n : 1 .. MaxContexts, browser : chromes]
  BY <1>2, <1>3
<1> HIDE DEF new
<1>5. /\ session.context <= opened /\ \A c \in contexts : c.n <= opened /\ c.n \in Nat
      /\ \A c, d \in contexts : c.n = d.n => c = d
  BY <1>1, BrowserNumbers DEF BrowserHolds, Br!NumbersApart
<1>6. Br!TypeOK'
  <2>1. task' \in [Tasks -> TaskRecords]
    BY <1>1, <1>2, CutFacts DEF OnlyMoves
  <2>2. /\ contexts' \subseteq [n : 1 .. MaxContexts, browser : chromes]
        /\ opened' \in 0 .. MaxContexts /\ lostContexts' \subseteq 0 .. MaxContexts
    BY <1>1, <1>2, <1>3, <1>4 DEF Br!TypeOK
  <2>3. lock' \in Tasks \cup {Br!Free}
    BY <1>1, <1>2, CutFacts DEF Br!TypeOK
  <2>4. UNCHANGED <<session, pageLock, hung, overlapped, orphaned>>
    BY <1>1, <1>2, CutFacts
  <2>5. QED
    BY <1>1, <1>2, <2>1, <2>2, <2>3, <2>4 DEF Br!TypeOK, TaskRecords, TaskRecord
<1>7. Br!DriverIsManaged'
  <2>1. /\ hung' = hung
        /\ \A u \in Tasks : task'[u].pc \in {"start", "launch"} => task'[u] = task[u]
    BY <1>1, <1>2, CutFacts
  <2>2. QED
    BY <1>1, <1>2, <2>1 DEF BrowserHolds, Br!DriverIsManaged, Br!At
<1>8. Br!NumbersApart'
  <2>1. session' = session
    BY <1>1, <1>2, CutFacts
  <2>2. /\ session'.context <= opened' /\ \A c \in contexts' : c.n <= opened'
    BY <1>2, <1>3, <1>4, <1>5, <2>1
  <2>3. \A c \in contexts : c.n # new.n
    BY <1>3, <1>4, <1>5
  <2>4. \A c, d \in contexts' : c.n = d.n => c = d
    BY <1>2, <1>5, <2>3
  <2>5. QED
    BY <2>2, <2>4 DEF Br!NumbersApart
<1>9. Br!SessionIsClosed'
  <2>1. new.n # session.context
    BY <1>3, <1>4, <1>5
  <2>2. /\ session' = session /\ Br!Excused' = Br!Excused
        /\ \A u \in Tasks : task[u].pc = "new page" => task'[u] = task[u]
        /\ \A u \in Tasks : task'[u].pc = "clear" => task[u].pc = "clear"
    BY <1>1, <1>2, CutFacts
  <2>3. QED
    BY <1>1, <1>2, <2>1, <2>2 DEF BrowserHolds, Br!SessionIsClosed, Br!Closing, Br!At
<1>10. Br!ContextsOwned'
  <2>1. /\ session' = session /\ Br!Excused' = Br!Excused
        /\ \A u \in Tasks : task[u].pc = "use" => task'[u] = task[u]
    BY <1>1, <1>2, CutFacts
  <2>2. QED
    BY <1>1, <1>2, <1>4, <2>1 DEF BrowserHolds, Br!ContextsOwned
<1>11. QED
  BY <1>1, <1>2, <1>6, <1>7, <1>8, <1>9, <1>10, CutFacts, BrowserIsToo DEF BrowserHolds

BrowserStep ==
  \/ \E t \in Tasks, op \in Br!Ops : Br!Start(t, op)
  \/ \E t \in Tasks : Br!EnsureBrowser(t)
  \/ \E t \in Tasks, ok \in BOOLEAN : Br!CloseBrowser(t, ok)
  \/ \E t \in Tasks, ok \in BOOLEAN : Br!StopDriver(t, ok)
  \/ \E t \in Tasks, ok \in BOOLEAN : Br!StartDriver(t, ok)
  \/ \E t \in Tasks, ok \in BOOLEAN : Br!Launch(t, ok)
  \/ \E t \in Tasks : Br!NewContext(t)
  \/ \E t \in Tasks, ok \in BOOLEAN : Br!CloseContext(t, ok)
  \/ \E t \in Tasks : Br!EnsurePage(t)
  \/ \E t \in Tasks, ok \in BOOLEAN : Br!NewPage(t, ok)
  \/ \E t \in Tasks, ok \in BOOLEAN : Br!Reset(t, ok)
  \/ \E t \in Tasks : Br!Clear(t)
  \/ \E t \in Tasks : Br!Close(t)
  \/ \E t \in Tasks : Br!CutShort(t)
  \/ \E t \in Tasks : Br!CutDropping(t)
  \/ \E t \in Tasks : Br!CutStarting(t)
  \/ \E t \in Tasks : Br!CutLaunching(t)
  \/ \E t \in Tasks : Br!CutOpening(t)
  \/ \E b \in chromes : Br!ChromeDies(b)
  \/ Br!PageCloses

LEMMA BrowserKeeps ==
  ASSUME Br!IInv, BrowserStep
  PROVE  Br!IInv'
  BY StartTaskStep, EnsureBrowserStep, CloseBrowserStep, StopDriverStep, StartDriverStep,
       LaunchStep, NewContextStep, CloseContextStep, EnsurePageStep, NewPageStep,
       ResetSessionStep, ClearSessionStep, CloseManagerStep, CutShortStep,
       CutDroppingStep, CutStartingStep, CutLaunchingStep, CutOpeningStep, ChromeDiesStep,
       PageClosesStep DEF BrowserStep

LEMMA BrowserRests ==
  ASSUME Br!IInv, UNCHANGED browserVars
  PROVE  Br!IInv'
<1>1. Br!TypeOK /\ BrowserHolds
  BY BrowserIs
<1>2. Br!TypeOK'
  BY <1>1 DEF Br!TypeOK, browserVars
<1>3. BrowserHolds'
  BY <1>1 DEF browserVars, BrowserHolds, Br!OnItsWay, Br!LocksHeld, Br!DriverIsManaged,
       Br!NumbersApart, Br!SessionIsClosed, Br!ClosesAlone, Br!ContextsOwned, Br!Excused,
       Br!Closing, Br!At, Br!Launching
<1>4. QED
  BY <1>2, <1>3, BrowserIsToo

LEMMA BrowserInitially ==
  ASSUME Br!Init
  PROVE  Br!IInv
<1>1. /\ drivers = {} /\ chromes = {} /\ manager = [pw |-> 0, browser |-> 0] /\ lock = Br!Free
      /\ contexts = {} /\ session = [context |-> 0, page |-> "none"] /\ pageLock = Br!Free
      /\ task = [t \in Tasks |-> Br!Rest] /\ launches = 0 /\ opened = 0
      /\ hung = FALSE /\ overlapped = FALSE /\ orphaned = FALSE
      /\ lostDrivers = {} /\ lostContexts = {}
  BY DEF Br!Init, Br!None
<1>2. {hung, overlapped, orphaned} \subseteq BOOLEAN
  BY <1>1
<1>3. /\ manager \in [pw : Br!Numbers, browser : Br!Numbers] /\ launches \in Br!Numbers
      /\ session \in [context : 0 .. MaxContexts, page : {"none", "open", "closed"}]
      /\ opened \in 0 .. MaxContexts
  BY <1>1, ServicesAssumption DEF Br!Numbers
<1>4. Br!TypeOK
  BY <1>1, <1>2, <1>3 DEF Br!TypeOK
<1>5. \A t \in Tasks : task[t].pc = "rest" /\ task[t].op = "none"
  BY <1>1 DEF Br!Rest
<1>6. session.context = 0 /\ session.page = "none"
  BY <1>1
<1>7. Br!OnItsWay /\ Br!LocksHeld
  BY <1>5 DEF Br!OnItsWay, Br!LocksHeld, Br!Launching
<1>8. Br!DriverIsManaged /\ Br!NumbersApart
  BY <1>1, <1>5, <1>6 DEF Br!DriverIsManaged, Br!NumbersApart, Br!At
<1>9. Br!SessionIsClosed /\ Br!ClosesAlone /\ Br!ContextsOwned
  BY <1>1, <1>5 DEF Br!SessionIsClosed, Br!ClosesAlone, Br!ContextsOwned, Br!Closing, Br!At
<1>10. QED
  BY <1>4, <1>7, <1>8, <1>9, BrowserIs DEF BrowserHolds

-----------------------------------------------------------------------------
(* The services together *)

\* Of six parts one moves, and it takes a step of its own.
LEMMA OnePartMoves ==
  ASSUME Next
  PROVE  \/ part = "notes" /\ NoteStep /\ OnlyNotes
         \/ part = "project" /\ ProjectStep /\ OnlyProject
         \/ part = "browser" /\ BrowserStep /\ OnlyBrowser
         \/ part = "typing" /\ TypingStep /\ OnlyTyping
         \/ part = "profiles" /\ ProfileStep /\ OnlyProfiles
         \/ part = "transcript" /\ TranscriptStep /\ OnlyTranscript
  BY DEF Next, NoteStep, ProjectStep, BrowserStep, TypingStep, ProfileStep, TranscriptStep

\* The part a behaviour is of keeps its invariant, and stays the part.
LEMMA ServicesKeep ==
  ASSUME IInv, Next
  PROVE  IInv'
<1>1. CASE part = "notes" /\ NoteStep /\ OnlyNotes
  BY <1>1, NotesKeep DEF IInv, OnlyNotes
<1>2. CASE part = "project" /\ ProjectStep /\ OnlyProject
  BY <1>2, ProjectKeeps DEF IInv, OnlyProject
<1>3. CASE part = "browser" /\ BrowserStep /\ OnlyBrowser
  BY <1>3, BrowserKeeps DEF IInv, OnlyBrowser
<1>4. CASE part = "typing" /\ TypingStep /\ OnlyTyping
  BY <1>4, TypingKeeps DEF IInv, OnlyTyping
<1>5. CASE part = "profiles" /\ ProfileStep /\ OnlyProfiles
  BY <1>5, PrKeeps DEF IInv, OnlyProfiles
<1>6. CASE part = "transcript" /\ TranscriptStep /\ OnlyTranscript
  BY <1>6, TranscriptKeeps DEF IInv, OnlyTranscript
<1>7. QED
  BY <1>1, <1>2, <1>3, <1>4, <1>5, <1>6, OnePartMoves

LEMMA ServicesRest ==
  ASSUME IInv, UNCHANGED vars
  PROVE  IInv'
<1>1. /\ part' = part /\ UNCHANGED noteVars /\ UNCHANGED projectVars /\ UNCHANGED browserVars
      /\ UNCHANGED typingVars /\ UNCHANGED profileVars /\ UNCHANGED transcriptVars
  BY DEF vars
<1>2. QED
  BY <1>1, NotesRest, ProjectRests, BrowserRests, TypingRests, PrRests, TranscriptRests DEF IInv

LEMMA ServicesInitially ==
  ASSUME Init
  PROVE  IInv
  BY NotesInitially, ProjectInitially, BrowserInitially, TypingInitially, PrInitially,
     TranscriptInitially DEF Init, IInv

LEMMA ServicesInvariance == Spec => []IInv
<1>1. Init => IInv
  BY ServicesInitially
<1>2. IInv /\ [Next]_vars => IInv'
  BY ServicesKeep, ServicesRest
<1>3. QED
  BY <1>1, <1>2, PTL DEF Spec

\* The state of every service has its type.
THEOREM ServiceTypes == Spec => []TypeOK
<1>1. IInv => TypeOK
  BY DEF IInv, TypeOK, No!IInv, Pm!IInv, Br!IInv, Ty!IInv, Pr!IInv, Tr!IInv
<1>2. QED
  BY <1>1, ServicesInvariance, PTL

\* Nothing in a memory or skill that no one read is overwritten by the model's tools, however
\* many calls interleave and whatever is edited by hand meanwhile, and an append loses
\* nothing unless the bot dies in it. Every version of project.md that a commit overwrote
\* can be had back from then on, wherever the bot dies, unless another commit ran beside
\* it or one of the same second took its backup's name.
THEOREM Kept == Spec => []ContentKept
<1>1. IInv => ContentKept
  BY DEF IInv, ContentKept, No!IInv, Pm!IInv
<1>2. QED
  BY <1>1, ServicesInvariance, PTL

\* The browser tools share one Playwright driver, and no context stays open that neither the
\* session nor a call will close, but for the drivers and contexts that came up for a render
\* its time limit had cancelled, and after a fault that takes the reference away.
THEOREM ChromiumOwned == Spec => []ChromiumIsOwned
<1>1. IInv => ChromiumIsOwned
  BY DEF IInv, ChromiumIsOwned, Br!IInv
<1>2. QED
  BY <1>1, ServicesInvariance, PTL

\* A chat of a turn shows the indicator until it is replied to, a loop refreshes it while it
\* shows, and it is gone when nothing waits, but for the four races the model records (an
\* injection after its turn, a start beside the stop, a discard lost for another, a reply
\* of a turn that was over before the next is on).
THEOREM IndicatorFollows == Spec => []IndicatorFollowsTurns
<1>1. IInv => IndicatorFollowsTurns
  BY DEF IInv, IndicatorFollowsTurns, Ty!IInv
<1>2. QED
  BY <1>1, ServicesInvariance, PTL

\* A process bound to its turn may call what its prompt lists and no more, and a private
\* session has none of the groups that reach the host, whatever becomes of plugins.json
\* while it runs, unless the session was switched while its process was being created.
THEOREM ProfilesMatch == Spec => []ProfilesAgree
<1>1. IInv => ProfilesAgree
  BY DEF IInv, ProfilesAgree, Pr!IInv
<1>2. QED
  BY <1>1, ServicesInvariance, PTL

\* Once nothing is under way on a message, its row says what Telegram shows, whichever calls,
\* reactions and restarts interleaved before, unless one of the listed losses hit it.
THEOREM RowsFollowed == Spec => []RowsFollowTelegram
<1>1. IInv => RowsFollowTelegram
  BY DEF IInv, RowsFollowTelegram, Tr!IInv
<1>2. QED
  BY <1>1, ServicesInvariance, PTL
================================================================================
