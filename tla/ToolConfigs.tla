----------------------------- MODULE ToolConfigs -----------------------------
(***************************************************************************)
(* What applying and revoking this router's configuration does to the      *)
(* config files of thirteen command line tools: cli_tools/mutations.rs of  *)
(* services/api-actix, with the section edits of toml_text.rs.             *)
(*                                                                         *)
(* A document is a function from the paths it holds to values.  Values say *)
(* only whose they are: "ours" (and "m1", "m2", the models of this router),*)
(* "9router" (what an older release of it wrote under its former name),    *)
(* "user" and "user2", or the tool's own default.  Every document may hold *)
(* "own", a setting of the user that is none of the router's business.     *)
(*                                                                         *)
(* A request body p has the fields                                         *)
(*   models   the models offered, the first being the main one             *)
(*   active   the default chosen among them, "first", or "none"            *)
(*   key      whether a key is given                                       *)
(*   extra    what else this tool can be given: a context window, an MCP   *)
(*            plugin, or a model for the one subagent or agent             *)
(***************************************************************************)
EXTENDS Naturals, Sequences, SequencesExt

Blank == <<>>
Has(d, k) == k \in DOMAIN d
Get(d, k) == IF Has(d, k) THEN d[k] ELSE "none"
Put(d, k, v) == [x \in DOMAIN d \cup {k} |-> IF x = k THEN v ELSE d[x]]
Write(d, ks, v) == [x \in DOMAIN d \cup ks |-> IF x \in ks THEN v ELSE d[x]]
Drop(d, ks) == [k \in DOMAIN d \ ks |-> d[k]]

Main(p) == p.models[1]
Models == {"m1", "m2"}
Ours == {"ours"} \cup Models
\* All that an apply, of this release or an older one, may write, "openai" and
\* "local" being how cline and deepseek are told of this router.
Marks == Ours \cup {"9router", "openai", "local"}

---------------------------------------------------------------------------
(* Tools whose configuration is a few keys. *)

ClaudeApply(d, p) ==
    LET e == Write(d, {"onboarded", "url", "token", "model"}, "ours")
    IN  IF p.extra THEN Put(e, "window", "ours") ELSE Drop(e, {"window"})
ClaudeRevoke(d) == Drop(d, {"url", "token", "model", "window"})

CodexApply(d, p) ==
    Write(d, {"model", "model_provider", "block", "subagent"}, "ours")
\* Mutant: without the test of whose provider is selected.
CodexRevokeAlways(d) == Drop(d, {"block", "legacy", "subagent", "model", "model_provider"})

CodexRevoke(d) ==
    Drop(d, {"block", "legacy", "subagent"}
                \cup (IF Get(d, "model_provider") \in {"ours", "9router"}
                      THEN {"model", "model_provider"} ELSE {}))
CodexAuthApply(d, p) == Write(d, {"key", "auth_mode"}, "ours")
CodexAuthRevoke(d) == Drop(d, {"key", "auth_mode"})

ClineApply(d, p) ==
    Write(Write(d, {"act", "plan"}, "openai"), {"url", "model", "planModel"}, "ours")
ClineRevoke(d) ==
    IF Get(d, "act") # "openai" THEN d
    ELSE Write(Drop(d, {"url", "model", "planModel"}), {"act", "plan"}, "cline")

KeyApply(d, p) == Put(d, "key", "ours")
ClineSecretsRevoke(d) == Drop(d, {"key"})
\* What kilo keeps under this router's name goes, what it keeps under the
\* former one does not.
KiloRevoke(d) == Drop(d, {"key", "named"})
JcodeEnvRevoke(d) == Drop(d, {"key", "9router"})

VsCodeApply(d, p) == Write(d, {"customProvider", "defaultModel"}, "ours")
VsCodeRevoke(d) == Drop(d, {"customProvider", "defaultModel"})

\* The key is optional, and its variable is never removed.
HermesEnvApply(d, p) == IF p.key THEN Put(d, "key", "ours") ELSE d
HermesEnvRevoke(d) == d
HermesApply(d, p) == Put(d, "model", "ours")
HermesRevoke(d) == Drop(d, {"model"})

\* extra: the address of this router is not a local one.
DeepSeekApply(d, p) ==
    Put(Put(Write(d, {"key", "model"}, "ours"), "provider", "openai"),
        "url", IF p.extra THEN "ours" ELSE "local")
DeepSeekRevoke(d) ==
    LET e == IF Get(d, "provider") = "openai" THEN Put(d, "provider", "deepseek") ELSE d
    IN  IF Get(d, "url") = "local" THEN Drop(e, {"url", "key", "model"}) ELSE e

JcodeApply(d, p) == Put(d, "block", "ours")
JcodeRevoke(d) == Drop(d, {"block", "legacy"})

\* extra: a bridged plugin, which needs the one switch this writes.
CoworkApply(d, p) ==
    LET e == Write(d, {"provider", "url", "key", "models"}, "ours")
    IN  IF p.extra THEN Write(e, {"servers", "localDev"}, "ours")
        ELSE IF p.active = "none" THEN Drop(e, {"servers"}) ELSE Put(e, "servers", "ours")
CoworkRevoke(d) ==
    Drop(d, {"provider", "url", "key", "models", "servers", "localDev"})

OpencodeApply(d, p) ==
    LET e == Write(d, {"block", "explorer"}, "ours")
    IN  CASE p.active = "none" -> Put(e, "model", "")
          [] p.active = "first" -> Put(e, "model", Main(p))
          [] OTHER -> Put(e, "model", p.active)
OpencodeRevoke(d) ==
    Drop(d, {"block", "legacy"}
                \cup {k \in {"model", "explorer"} : Get(d, k) \in Ours})

---------------------------------------------------------------------------
(* Arrays with an entry of ours among the user's: the document is a path   *)
(* to a sequence of entries, each with its owner and its model.            *)

Entries(d, k) == IF Has(d, k) THEN d[k] ELSE <<>>
Entry(who, m) == [who |-> who, m |-> m]
NotOurs(e) == e.who \notin {"ours", "9router"}

\* The entry is found by its exact name, so an older one stays beside it.
CopilotApply(d, p) ==
    LET es == Entries(d, "entries")
        at == {i \in DOMAIN es : es[i].who = "ours"}
    IN  Put(d, "entries", IF at = {} THEN Append(es, Entry("ours", Main(p)))
                          ELSE ReplaceAt(es, CHOOSE i \in at : TRUE, Entry("ours", Main(p))))
CopilotRevoke(d) == Put(d, "entries", SelectSeq(Entries(d, "entries"), NotOurs))

\* The default is the first entry: the chosen model moves to the front.
DroidDefault(p, kept) ==
    kept + (IF p.active = "first" \/ p.active \notin ToSet(p.models) THEN 1
            ELSE CHOOSE i \in DOMAIN p.models : p.models[i] = p.active)
\* Mutant: our earlier entries stay.
DroidApplyAppends(d, p) ==
    LET kept == Entries(d, "entries")
        all == kept \o [i \in DOMAIN p.models |-> Entry("ours", p.models[i])]
        at == DroidDefault(p, Len(kept))
    IN  Put(d, "entries", IF p.active = "none" THEN all
                          ELSE <<all[at]>> \o RemoveAt(all, at))

DroidApply(d, p) ==
    LET kept == SelectSeq(Entries(d, "entries"), NotOurs)
        all == kept \o [i \in DOMAIN p.models |-> Entry("ours", p.models[i])]
        at == DroidDefault(p, Len(kept))
    IN  Put(d, "entries", IF p.active = "none" THEN all
                          ELSE <<all[at]>> \o RemoveAt(all, at))
DroidRevoke(d) ==
    LET kept == SelectSeq(Entries(d, "entries"), NotOurs)
    IN  IF kept = <<>> THEN Drop(d, {"entries"}) ELSE Put(d, "entries", kept)

---------------------------------------------------------------------------
(* OpenClaw: the endpoint, the selection and the allowlist must agree.  The *)
(* user has a list with one agent, or none; extra gives that agent a model. *)

Allowed(d) == IF Has(d, "allow") THEN d["allow"] ELSE {}

\* Mutant: an agent keeps the model an earlier apply gave it.
OpenClawApplyKeeps(d, p) ==
    LET named == IF p.extra THEN ToSet(p.models) ELSE {Main(p)}
        allowed == (Allowed(d) \ Models) \cup named
        e == Put(Put(Put(d, "block", "ours"), "primary", Main(p)), "allow", allowed)
    IN  IF Has(d, "agents") /\ p.extra THEN Put(e, "agent", Last(p.models)) ELSE e

OpenClawApply(d, p) ==
    LET named == IF p.extra THEN ToSet(p.models) ELSE {Main(p)}
        allowed == (Allowed(d) \ Models) \cup named
        e == Put(Put(Put(d, "block", "ours"), "primary", Main(p)), "allow", allowed)
    IN  IF ~Has(d, "agents") \/ (~p.extra /\ Get(d, "agent") \notin Ours) THEN e
        ELSE IF p.extra THEN Put(e, "agent", Last(p.models)) ELSE Drop(e, {"agent"})
OpenClawRevoke(d) ==
    LET e == Drop(d, {"block", "legacy"}
                        \cup {k \in {"primary", "agent"} : Get(d, k) \in Ours})
    IN  IF Has(d, "allow") THEN Put(e, "allow", Allowed(d) \ Models) ELSE e

\* The agent's own models.json, written only where the agent has a directory.
AgentModelsApply(d, p) == Put(d, "block", "ours")
AgentModelsRevoke(d) == Drop(d, {"block"})

---------------------------------------------------------------------------
(* Grok Build, edited as text: a sequence of sections, each with its fields *)
(* and the comment markers in its body.  The section "" is the beginning.  *)

Section(name, fields) == [name |-> name, fields |-> fields, marks |-> Blank]
Preamble == Section("", Blank)
Sections(d) == IF Has(d, "text") THEN d["text"] ELSE <<Preamble>>

FindSection(t, name) == {i \in DOMAIN t : t[i].name = name}
At(t, name) == CHOOSE i \in FindSection(t, name) : \A j \in FindSection(t, name) : i <= j

GetField(t, name, k) ==
    IF FindSection(t, name) = {} THEN "none" ELSE Get(t[At(t, name)].fields, k)

SetField(t, name, k, v) ==
    IF FindSection(t, name) = {} THEN Append(t, Section(name, Put(Blank, k, v)))
    ELSE [t EXCEPT ![At(t, name)].fields = Put(@, k, v)]

\* A section whose body is blank goes with its last field.
DeleteField(t, name, k) ==
    IF FindSection(t, name) = {} THEN t
    ELSE LET i == At(t, name)
             fields == Drop(t[i].fields, {k})
         IN  IF fields = Blank /\ t[i].marks = Blank THEN RemoveAt(t, i)
             ELSE [t EXCEPT ![i].fields = fields]

\* The whole body is replaced, comments in it included.
UpsertSection(t, name, fields) ==
    IF FindSection(t, name) = {} THEN Append(t, Section(name, fields))
    ELSE [t EXCEPT ![At(t, name)] = Section(name, fields)]

RemoveSection(t, name) ==
    IF FindSection(t, name) = {} THEN t ELSE RemoveAt(t, At(t, name))

\* Above the anchor, which is in the body of the section before it.
InsertMarker(t, anchor, k, v) ==
    LET i == IF FindSection(t, anchor) = {} THEN Len(t) ELSE At(t, anchor) - 1
    IN  [t EXCEPT ![i].marks = Put(@, k, v)]

Marked(t, k) == {i \in DOMAIN t : Has(t[i].marks, k)}
ReadMarker(t, k) ==
    IF Marked(t, k) = {} THEN "none"
    ELSE LET i == CHOOSE i \in Marked(t, k) : \A j \in Marked(t, k) : i <= j
         IN  t[i].marks[k]
RemoveMarker(t, k) == [i \in DOMAIN t |-> [t[i] EXCEPT !.marks = Drop(@, {k})]]

GrokRememberDefault(t) ==
    LET current == GetField(t, "models", "default")
    IN  IF ReadMarker(t, "default") # "none" \/ current \in {"none", "ours"} THEN t
        ELSE InsertMarker(t, "main", "default", current)

GrokRestoreDefault(t) ==
    LET marked == ReadMarker(t, "default")
        previous == IF marked = "none" THEN "grok-build" ELSE marked
        u == RemoveMarker(t, "default")
    IN  IF GetField(u, "models", "default") \in {"ours", "9router"}
        THEN SetField(u, "models", "default", previous) ELSE u

\* An unset selection is remembered as such.
GrokRememberSubagent(t) ==
    LET current == GetField(t, "subagents", "explore")
    IN  IF ReadMarker(t, "explore") # "none" THEN t
        ELSE InsertMarker(t, "main", "explore",
                          IF current = "none" THEN "unset" ELSE current)

GrokRestoreSubagent(t) ==
    LET previous == ReadMarker(t, "explore")
        u == RemoveMarker(t, "explore")
    IN  CASE previous = "none" -> t
          [] previous = "unset" -> DeleteField(u, "subagents", "explore")
          [] OTHER -> SetField(u, "subagents", "explore", previous)

GrokSubagent(t, p) ==
    IF p.extra
    THEN SetField(UpsertSection(GrokRememberSubagent(t), "sub", [model |-> "ours"]),
                  "subagents", "explore", "ours")
    ELSE RemoveSection(GrokRestoreSubagent(t), "sub")

\* active "none" stands for a body that does not mention subagents at all.
GrokApply(d, p) ==
    LET t == SetField(UpsertSection(GrokRememberDefault(Sections(d)), "main",
                                    [model |-> "ours"]),
                      "models", "default", "ours")
    IN  Put(d, "text", IF p.active = "none" THEN t ELSE GrokSubagent(t, p))

GrokRevoke(d) ==
    LET t == RemoveSection(RemoveSection(GrokRestoreSubagent(Sections(d)), "sub"),
                           "legacySub")
    IN  Put(d, "text", GrokRestoreDefault(RemoveSection(RemoveSection(t, "main"), "legacy")))

---------------------------------------------------------------------------
(* writer_for: the files of a tool in the order they are written, and what *)
(* is done to each.                                                        *)

FilesOf ==
    [claude |-> <<"claude">>, codex |-> <<"codex", "codexAuth">>,
     cline |-> <<"cline", "clineSecrets">>, kilo |-> <<"kilo", "vscode">>,
     copilot |-> <<"copilot">>, opencode |-> <<"opencode">>, droid |-> <<"droid">>,
     hermes |-> <<"hermes", "hermesEnv">>, deepseek |-> <<"deepseek">>,
     jcode |-> <<"jcode", "jcodeEnv">>, openclaw |-> <<"openclaw", "agentModels">>,
     grok |-> <<"grok">>, cowork |-> <<"cowork">>]

BestEffort == {"vscode"}
DeletedWhenEmpty == {"codexAuth"}

Apply(f, d, p) ==
    CASE f = "claude" -> ClaudeApply(d, p)
      [] f = "codex" -> CodexApply(d, p)
      [] f = "codexAuth" -> CodexAuthApply(d, p)
      [] f = "cline" -> ClineApply(d, p)
      [] f \in {"clineSecrets", "kilo", "jcodeEnv"} -> KeyApply(d, p)
      [] f = "vscode" -> VsCodeApply(d, p)
      [] f = "copilot" -> CopilotApply(d, p)
      [] f = "opencode" -> OpencodeApply(d, p)
      [] f = "droid" -> DroidApply(d, p)
      [] f = "hermes" -> HermesApply(d, p)
      [] f = "hermesEnv" -> HermesEnvApply(d, p)
      [] f = "deepseek" -> DeepSeekApply(d, p)
      [] f = "jcode" -> JcodeApply(d, p)
      [] f = "openclaw" -> OpenClawApply(d, p)
      [] f = "agentModels" -> AgentModelsApply(d, p)
      [] f = "grok" -> GrokApply(d, p)
      [] f = "cowork" -> CoworkApply(d, p)

Revoke(f, d) ==
    CASE f = "claude" -> ClaudeRevoke(d)
      [] f = "codex" -> CodexRevoke(d)
      [] f = "codexAuth" -> CodexAuthRevoke(d)
      [] f = "cline" -> ClineRevoke(d)
      [] f = "clineSecrets" -> ClineSecretsRevoke(d)
      [] f = "kilo" -> KiloRevoke(d)
      [] f = "jcodeEnv" -> JcodeEnvRevoke(d)
      [] f = "vscode" -> VsCodeRevoke(d)
      [] f = "copilot" -> CopilotRevoke(d)
      [] f = "opencode" -> OpencodeRevoke(d)
      [] f = "droid" -> DroidRevoke(d)
      [] f = "hermes" -> HermesRevoke(d)
      [] f = "hermesEnv" -> HermesEnvRevoke(d)
      [] f = "deepseek" -> DeepSeekRevoke(d)
      [] f = "jcode" -> JcodeRevoke(d)
      [] f = "openclaw" -> OpenClawRevoke(d)
      [] f = "agentModels" -> AgentModelsRevoke(d)
      [] f = "grok" -> GrokRevoke(d)
      [] f = "cowork" -> CoworkRevoke(d)
=============================================================================
