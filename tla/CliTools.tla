------------------------------ MODULE CliTools ------------------------------
(***************************************************************************)
(* Applying and revoking this router's configuration in the config files   *)
(* of a command line tool: mutate_tool, Writer::run and Target::run of     *)
(* services/api-actix/src/cli_tools, with the file steps of write.rs.      *)
(*                                                                         *)
(* A request takes the files of the tool one after the other: it reads and *)
(* merges, copies the original aside once, writes a temporary file and     *)
(* renames it over the target.  The process may stop and a disk operation  *)
(* may fail between any two of these steps, and the user edits the files   *)
(* between requests (UserMayRace: also during one).  Tools share no file,  *)
(* so a behaviour is about one of them.                                    *)
(***************************************************************************)
EXTENDS ToolConfigs, FiniteSets

CONSTANTS
    Tools,          \* the tools examined
    MaxCalls,       \* bound on requests
    MaxFaults,      \* bound on stops and failed disk operations
    MaxEdits,       \* bound on edits of the user
    UserMayRace,    \* does the user edit while a request runs?
    UserHasOnlyKey  \* may the user's auth.json hold a key and nothing else?

ASSUME CliToolsAssumption ==
    /\ Tools \subseteq DOMAIN FilesOf
    /\ {MaxCalls, MaxFaults, MaxEdits} \subseteq Nat
    /\ {UserMayRace, UserHasOnlyKey} \subseteq BOOLEAN

VARIABLES
    tool,    \* the tool this behaviour is about
    disk,    \* the content of its files
    backup,  \* the copy kept beside each file
    tmp,     \* the temporary file beside each file
    req,     \* the request being carried out
    answer,  \* the answer to the last one, while nothing else has happened
    past,    \* ghost: what the properties remember of the past
    spent    \* the bounds: requests, faults and edits so far

vars == <<tool, disk, backup, tmp, req, answer, past, spent>>

---------------------------------------------------------------------------
(* Contents. *)

Nothing == [kind |-> "none", doc |-> Blank]
Garbage == [kind |-> "garbage", doc |-> Blank]
Torn == [kind |-> "torn", doc |-> Blank]
Doc(d) == [kind |-> "doc", doc |-> d]
\* Cowork's file has no name until the application has chosen one.
Unnamed == [kind |-> "unnamed", doc |-> Blank]

Own == [own |-> "user"]
UserEntry == Entry("user", "user")
OldEntry == Entry("9router", "m1")

\* What the user, the tool or an older release of the router may have put in
\* the file.
StartingDocs ==
    [claude |-> {Own},
     codex |-> {Own, Write(Own, {"model", "model_provider"}, "user"),
                Put(Write(Own, {"model", "model_provider"}, "9router"), "legacy", "9router")},
     codexAuth |-> {Own} \cup IF UserHasOnlyKey THEN {[key |-> "user", auth_mode |-> "user"]}
                              ELSE {},
     cline |-> {Own, Write(Own, {"act", "plan"}, "user")},
     clineSecrets |-> {Own},
     kilo |-> {Own, Put(Put(Own, "9router", "9router"), "named", "ours")},
     vscode |-> {Own},
     copilot |-> {[entries |-> <<UserEntry>>], [entries |-> <<OldEntry, UserEntry>>]},
     opencode |-> {Own, Put(Own, "model", "user"),
                   Write(Own, {"model", "explorer", "legacy"}, "9router")},
     droid |-> {Own, Put(Own, "entries", <<UserEntry, OldEntry>>)},
     hermes |-> {Own, Put(Own, "model", "user")},
     hermesEnv |-> {Own},
     deepseek |-> {Own, Put(Own, "provider", "user"),
                   Write(Put(Own, "provider", "openai"), {"url", "key", "model"}, "user")},
     jcode |-> {Own, Put(Own, "legacy", "9router")},
     jcodeEnv |-> {Own, Put(Own, "9router", "9router")},
     openclaw |-> {Own, Put(Own, "agents", "nodir")}
        \cup {Put(Put(Put(Own, "agents", "dir"), "primary", "user"), "allow", {"user"}),
              Put(Put(Write(Own, {"legacy", "primary", "agent"}, "9router"), "agents", "dir"),
                  "allow", {"9router"})},
     agentModels |-> {Own, Put(Own, "legacy", "9router")},
     grok |-> {[text |-> <<Preamble, Section("ui", Own)>>],
               [text |-> <<Preamble, Section("models", [default |-> "user"]), Section("ui", Own)>>],
               [text |-> <<Preamble, Section("subagents", [explore |-> "user"]), Section("ui", Own)>>],
               [text |-> <<[Preamble EXCEPT !.marks = [older |-> "user"]],
                           Section("ui", Own), Section("legacy", [model |-> "9router"]),
                           Section("models", [default |-> "9router"])>>]},
     cowork |-> {Own}]

Starts(f) ==
    {Nothing, Garbage} \cup {Doc(d) : d \in StartingDocs[f]}
                       \cup IF f = "cowork" THEN {Unnamed} ELSE {}

---------------------------------------------------------------------------
(* Requests. *)

Files == ToSet(FilesOf[tool])
File == FilesOf[tool][req.i]

\* Only the fields a tool reads vary.
Payloads ==
    {p \in [models : {<<"m1">>, <<"m2">>, <<"m1", "m2">>}, active : {"none", "first", "m2"},
            key : BOOLEAN, extra : BOOLEAN] :
        /\ p.active = "first" \/ tool \in {"droid", "opencode", "cowork", "grok"}
        /\ p.active = "m2" => (Len(p.models) = 2 /\ tool \in {"droid", "opencode"})
        /\ p.extra => tool \in {"claude", "deepseek", "openclaw", "grok", "cowork"}
        /\ Len(p.models) = 2 => tool \in {"droid", "opencode", "openclaw"}
        /\ Main(p) = "m2" => tool = "openclaw"}

NeedsKey == {"codex", "cline", "kilo", "jcode", "cowork"}
Valid(p) == p.key \/ tool \notin NeedsKey

NoPayload == [models |-> <<"m1">>, active |-> "none", key |-> FALSE, extra |-> FALSE]
Idle == [at |-> "idle", dir |-> "apply", p |-> NoPayload, i |-> 1,
         last |-> Nothing, new |-> Blank, written |-> FALSE, warned |-> {}]
NoAnswer == [kind |-> "none", dir |-> "apply", p |-> NoPayload, warned |-> {}]

Reply(kind, r) == [kind |-> kind, dir |-> r.dir, p |-> r.p, warned |-> r.warned]

Init ==
    /\ tool \in Tools
    /\ disk \in {c \in [Files -> UNION {Starts(f) : f \in Files}] :
                    \A f \in Files : c[f] \in Starts(f)}
    /\ backup = [f \in Files |-> Nothing]
    /\ tmp = [f \in Files |-> Nothing]
    /\ req = Idle
    /\ answer = NoAnswer
    /\ past = [original |-> [f \in Files |-> Torn], had |-> [f \in Files |-> {disk[f]}], cut |-> {}, halfRevoked |-> FALSE,
               chosen |-> IF tool # "grok" THEN {}
                          ELSE {GetField(Sections(disk["grok"].doc), "models", "default")}
                                    \ {"none"}]
    /\ spent = [calls |-> 0, faults |-> 0, edits |-> 0]

---------------------------------------------------------------------------
(* The steps of a request. *)

Count(k) == spent' = [spent EXCEPT ![k] = @ + 1]

Finish(kind, r) ==
    /\ answer' = Reply(kind, r)
    /\ req' = Idle

\* mutate_tool: an apply that lacks what the tool needs changes nothing.
Request(dir, p) ==
    /\ req.at = "idle"
    /\ spent.calls < MaxCalls
    /\ Count("calls")
    /\ dir = "revoke" => p = NoPayload
    /\ IF dir = "apply" /\ ~Valid(p)
       THEN Finish("rejected", [Idle EXCEPT !.p = p])
       ELSE /\ req' = [Idle EXCEPT !.at = "read", !.dir = dir, !.p = p]
            /\ answer' = NoAnswer
    /\ UNCHANGED <<tool, disk, backup, tmp, past>>

\* Writer::run, the end of its loop.  OpenClaw's second file is in the
\* directory of an agent its first one names, and is skipped without it.
Skipped(r) ==
    IF tool = "openclaw" /\ r.i = 1 /\ r.last.kind = "doc" /\ Get(r.last.doc, "agents") = "nodir"
    THEN {"agentModels"} ELSE {}

Continues(r) ==
    /\ r.i < Len(FilesOf[tool])
    /\ tool = "openclaw" => (r.last.kind = "doc" /\ Get(r.last.doc, "agents") = "dir")

Advance(r) ==
    LET s == [r EXCEPT !.warned = @ \cup Skipped(r)]
    IN  IF Continues(s)
        THEN req' = [s EXCEPT !.i = @ + 1, !.at = "read"] /\ UNCHANGED answer
        ELSE Finish(IF s.dir = "revoke" /\ ~s.written THEN "nothing" ELSE "ok", s)

\* A file nobody has to have is passed over with a warning.
TargetFails(r) ==
    IF File \in BestEffort
    THEN Advance([r EXCEPT !.warned = @ \cup {File}]) /\ UNCHANGED past
    ELSE /\ Finish("error", r)
         /\ past' = [past EXCEPT !.halfRevoked = @ \/ r.dir = "revoke"]

Merged(content) == IF req.dir = "apply" THEN Apply(File, content.doc, req.p)
                                        ELSE Revoke(File, content.doc)

\* Mutant: a backup before every change.
BackupAlways == disk[File] # Nothing

BackupWanted == disk[File] # Nothing /\ backup[File] = Nothing

\* Target::run up to the first write.
Read ==
    LET content == disk[File]
        new == Merged(content)
    IN  /\ req.at = "read"
        /\ UNCHANGED <<tool, disk, backup, tmp, spent>>
        /\ CASE content.kind \in {"garbage", "unnamed"} -> TargetFails(req)
             [] req.dir = "revoke" /\ content = Nothing ->
                    Advance([req EXCEPT !.last = Nothing]) /\ UNCHANGED past
             [] OTHER ->
                    /\ UNCHANGED past
                    /\ IF new = content.doc
                       THEN Advance([req EXCEPT !.last = Doc(new)])
                       ELSE /\ UNCHANGED answer
                            /\ req' = [req EXCEPT
                                 !.new = new,
                                 !.at = IF req.dir = "revoke" /\ File \in DeletedWhenEmpty
                                                              /\ new = Blank THEN "remove"
                                        ELSE IF BackupWanted THEN "copy" ELSE "write"]

Step(from, to) == req.at = from /\ req' = [req EXCEPT !.at = to]

\* back_up_once: a copy is not atomic.
StartCopy ==
    /\ Step("copy", "copying")
    /\ backup' = [backup EXCEPT ![File] = Torn]
    /\ UNCHANGED <<tool, disk, tmp, answer, past, spent>>

FinishCopy ==
    /\ Step("copying", "write")
    /\ backup' = [backup EXCEPT ![File] = disk[File]]
    /\ UNCHANGED <<tool, disk, tmp, answer, past, spent>>

\* write_atomically: File::create truncates, write_all and sync_all fill.
StartWrite ==
    /\ Step("write", "writing")
    /\ tmp' = [tmp EXCEPT ![File] = Torn]
    /\ UNCHANGED <<tool, disk, backup, answer, past, spent>>

FinishWrite ==
    /\ Step("writing", "rename")
    /\ tmp' = [tmp EXCEPT ![File] = Doc(req.new)]
    /\ UNCHANGED <<tool, disk, backup, answer, past, spent>>

\* What the file was before it was first changed.
Changed == [past EXCEPT !.original[File] = IF @ = Torn THEN disk[File] ELSE @]

Rename ==
    /\ req.at = "rename"
    /\ disk' = [disk EXCEPT ![File] = tmp[File]]
    /\ tmp' = [tmp EXCEPT ![File] = Nothing]
    /\ past' = Changed
    /\ Advance([req EXCEPT !.last = tmp[File], !.written = TRUE])
    /\ UNCHANGED <<tool, backup, spent>>

\* OnEmpty::Delete
Unlink ==
    /\ req.at = "remove"
    /\ disk' = [disk EXCEPT ![File] = Nothing]
    /\ past' = Changed
    /\ Advance([req EXCEPT !.last = Doc(Blank), !.written = TRUE])
    /\ UNCHANGED <<tool, backup, tmp, spent>>

---------------------------------------------------------------------------
(* Faults and the user. *)

Cut == IF req.at = "copying" THEN past.cut \cup {File} ELSE past.cut

\* A disk operation fails; a failed rename takes the temporary file with it.
IoFails ==
    /\ req.at # "idle"
    /\ spent.faults < MaxFaults
    /\ Count("faults")
    /\ tmp' = IF req.at = "rename" THEN [tmp EXCEPT ![File] = Nothing] ELSE tmp
    /\ UNCHANGED <<tool, disk, backup>>
    /\ IF File \in BestEffort
       THEN /\ past' = [past EXCEPT !.cut = Cut]
            /\ Advance([req EXCEPT !.warned = @ \cup {File}])
       ELSE /\ past' = [past EXCEPT !.cut = Cut, !.halfRevoked = @ \/ req.dir = "revoke"]
            /\ Finish("error", req)

\* The process stops, and with it the request.
Crash ==
    /\ req.at # "idle"
    /\ spent.faults < MaxFaults
    /\ Count("faults")
    /\ req' = Idle
    /\ answer' = NoAnswer
    /\ past' = [past EXCEPT !.cut = Cut, !.halfRevoked = @ \/ req.dir = "revoke"]
    /\ UNCHANGED <<tool, disk, backup, tmp>>

\* What a file selects, that the user may select otherwise in the tool.
Selections ==
    [claude |-> {"url", "model"}, codex |-> {"model_provider", "model", "subagent"},
     codexAuth |-> {"auth_mode"}, cline |-> {"act", "plan"}, kilo |-> {"key"},
     vscode |-> {"customProvider", "defaultModel"}, opencode |-> {"model", "explorer"},
     hermes |-> {"model"}, deepseek |-> {"provider", "url", "key"},
     openclaw |-> {"primary", "agent"}, grok |-> {"default", "explore"}, cowork |-> {"provider"}]

\* Where a revoke looks to tell whose a path is.
LooksAt(f, k) ==
    CASE f = "codex" /\ k = "model" -> "model_provider"
      [] f = "cline" -> "act"
      [] f = "deepseek" /\ k \in {"key", "model"} -> "url"
      [] OTHER -> k

\* What a revoke takes without looking, the user's own choice included.
Blind ==
    [f \in DOMAIN Selections |->
        CASE f \in {"claude", "codexAuth", "kilo", "vscode", "hermes", "cowork"} -> Selections[f]
          [] f = "codex" -> {"subagent"}
          [] f = "grok" -> {"explore"}
          [] OTHER -> {}]

GrokTable == [default |-> "models", explore |-> "subagents"]
Chosen(f, d, k) ==
    IF f = "grok" THEN GetField(Sections(d), GrokTable[k], k) ELSE Get(d, k)
Choose(f, d, k, v) ==
    CASE f = "grok" -> Put(d, "text", SetField(Sections(d), GrokTable[k], k, v))
      [] f = "openclaw" -> Put(Put(d, k, v), "allow", Allowed(d) \cup {v})
      [] OTHER -> Put(d, k, v)

\* The user's own settings are beside ours, in a section of their own for grok.
Tweak(f, d) ==
    CASE f = "grok" -> Put(d, "text", SetField(Sections(d), "ui", "own", "user2"))
      [] f = "copilot" -> Put(d, "entries", Append(Entries(d, "entries"), Entry("user2", "user")))
      [] OTHER -> Put(d, "own", "user2")

Edit(f, d) ==
    /\ disk[f].kind = "doc"
    /\ req.at = "idle" \/ UserMayRace
    /\ spent.edits < MaxEdits
    /\ Count("edits")
    /\ disk' = [disk EXCEPT ![f] = Doc(d)]
    /\ answer' = NoAnswer
    /\ UNCHANGED <<tool, backup, tmp, req>>

\* What the file was, as long as it was never changed by a request.
Had(f) == [past EXCEPT !.had[f] = IF past.original[f] = Torn THEN @ \cup {disk'[f]} ELSE @]

UserTweaks(f) == Edit(f, Tweak(f, disk[f].doc)) /\ past' = Had(f)

\* Two choices are told apart for grok only, which remembers one.
UserChooses(f, v) ==
    /\ f \in DOMAIN Selections
    /\ v = "user2" => f = "grok"
    /\ \E k \in Selections[f] :
        /\ k = "agent" => Has(disk[f].doc, "agents")
        /\ Edit(f, Choose(f, disk[f].doc, k, v))
        /\ past' = [Had(f) EXCEPT !.chosen = @ \cup IF k = "default" THEN {v} ELSE {}]

Done ==
    /\ req.at = "idle"
    /\ spent.calls = MaxCalls
    /\ UNCHANGED vars

Next ==
    \/ \E p \in Payloads : Request("apply", p)
    \/ Request("revoke", NoPayload)
    \/ Read \/ StartCopy \/ FinishCopy \/ StartWrite \/ FinishWrite \/ Rename \/ Unlink
    \/ IoFails \/ Crash
    \/ \E f \in Files : UserTweaks(f) \/ \E v \in {"user", "user2"} : UserChooses(f, v)
    \/ Done

Spec == Init /\ [][Next]_vars

---------------------------------------------------------------------------
(* Properties. *)

\* Control state and contents have their shape, and a request is never at a
\* file its tool does not have.
TypeOK ==
    /\ tool \in Tools
    /\ \A f \in Files :
        /\ disk[f].kind \in {"none", "garbage", "unnamed", "doc"}
        /\ {backup[f].kind, tmp[f].kind} \subseteq {"none", "torn", "doc"}
    /\ req.at \in {"idle", "read", "copy", "copying", "write", "writing", "rename", "remove"}
    /\ req.at # "idle" => req.i \in DOMAIN FilesOf[tool]
    /\ req.p \in Payloads \cup {NoPayload}
    /\ req.warned \subseteq Files
    /\ answer.kind \in {"none", "rejected", "error", "ok", "nothing"}

\* What in a file is the user's and none of the router's business.
Foreign(f, d) ==
    CASE f \in {"copilot", "droid"} -> <<Get(d, "own"), SelectSeq(Entries(d, "entries"), NotOurs)>>
      [] f = "grok" -> <<GetField(Sections(d), "ui", "own")>>
      [] f = "openclaw" -> <<Get(d, "own"), Get(d, "agents"), Allowed(d) \ Models>>
      [] OTHER -> <<Get(d, "own")>>

\* What the user has chosen and a revoke can tell from what was applied.
UserChoices(f, d) ==
    {c \in (IF f \in DOMAIN Selections THEN Selections[f] \ Blind[f] ELSE {}) \X {"user", "user2"} :
        /\ Chosen(f, d, c[1]) = c[2]
        /\ Chosen(f, d, LooksAt(f, c[1])) \in {"user", "user2"}}

\* Does the tool, from this file, use what p asks for?
Uses(f, d, p) ==
    /\ Apply(f, d, p) = d
    /\ f = "droid" /\ p.active # "none" =>
        Head(d["entries"]) = Entry("ours", IF p.active = "m2" THEN "m2" ELSE Main(p))
    /\ f = "copilot" => Cardinality({i \in DOMAIN d["entries"] : d["entries"][i].who = "ours"}) = 1
    /\ f = "openclaw" => d["primary"] = Main(p)
    /\ f = "opencode" /\ p.active = "m2" => d["model"] = "m2"
    /\ f = "grok" => GetField(Sections(d), "models", "default") = "ours"

\* What of the router's a revoke leaves, all of it named here: the flag and
\* the key it leaves on purpose, and what it does not know as an older release's.
StaysBehind(f) ==
    CASE f = "claude" -> {<<"onboarded", "ours">>}
      [] f = "hermesEnv" -> {<<"key", "ours">>}
      [] f = "kilo" -> {<<"9router", "9router">>}
      [] f = "opencode" -> {"model", "explorer"} \X {"9router"}
      [] f = "openclaw" -> {"primary", "agent", "allow"} \X {"9router"}
      [] f = "agentModels" -> {<<"legacy", "9router">>}
      [] f = "grok" -> {<<"default", "9router">>}
      [] OTHER -> {}

\* It also leaves what goes with a choice the user has made since, and
\* DeepSeek's section when its address is not a local one.
LeftWith(f, d, k) ==
    \/ LooksAt(f, k) # k /\ Get(d, LooksAt(f, k)) \in {"user", "user2"}
    \/ f = "deepseek" /\ LooksAt(f, k) = "url" /\ Get(d, "url") = "ours"

\* Is anything else of the router's in a file, older releases' included?
LeftOver(f, d) ==
    CASE f \in {"copilot", "droid"} ->
            \E i \in DOMAIN Entries(d, "entries") : ~NotOurs(Entries(d, "entries")[i])
      [] f = "grok" ->
            \/ \E i \in DOMAIN Sections(d) :
                \/ Sections(d)[i].name \in {"main", "sub", "legacy", "legacySub"}
                \/ {"default", "explore"} \cap DOMAIN Sections(d)[i].marks # {}
            \/ \E k \in DOMAIN GrokTable :
                <<k, Chosen(f, d, k)>> \in ({k} \X Marks) \ StaysBehind(f)
      [] OTHER ->
            \/ \E m \in Allowed(d) \cap Marks : <<"allow", m>> \notin StaysBehind(f)
            \/ \E k \in DOMAIN d \ {"allow"} :
                <<k, d[k]>> \in ({k} \X Marks) \ StaysBehind(f) /\ ~LeftWith(f, d, k)

Needed(f, p) ==
    CASE f = "hermesEnv" -> p.key
      [] f = "agentModels" -> Get(disk["openclaw"].doc, "agents") = "dir"
      [] OTHER -> TRUE

\* A success is one: until the user edits, every file that was not warned of
\* is what the apply asked for, and an apply of the same again would change
\* none; after a revoke nothing of the router's is left but what StaysBehind
\* and LeftWith name, and a user of Grok who only ever chose one default has
\* it back.
AnswerTruthful ==
    /\ answer.kind = "ok" /\ answer.dir = "apply" =>
        \A f \in Files \ answer.warned :
            Needed(f, answer.p) => (disk[f].kind = "doc" /\ Uses(f, disk[f].doc, answer.p))
    /\ answer.kind \in {"ok", "nothing"} /\ answer.dir = "revoke" =>
        /\ \A f \in Files \ answer.warned : disk[f].kind = "doc" => ~LeftOver(f, disk[f].doc)
        /\ tool = "grok" => \A c \in {"user", "user2"} :
            past.chosen = {c} => GetField(Sections(disk["grok"].doc), "models", "default") = c

\* Nothing a file selects of ours is missing from it.
Resolves(f, d) ==
    CASE f = "codex" -> Get(d, "model_provider") = "ours" => Has(d, "block")
      [] f = "cline" -> Get(d, "act") = "openai" => Has(d, "url") /\ Has(d, "model")
      [] f = "opencode" -> {Get(d, "model"), Get(d, "explorer")} \cap Ours # {} => Has(d, "block")
      [] f = "openclaw" -> \A m \in {Get(d, "primary"), Get(d, "agent")} \cap Models :
                                Has(d, "block") /\ m \in Allowed(d)
      [] f = "deepseek" -> Get(d, "provider") = "openai" => Has(d, "url") /\ Has(d, "key")
      [] f = "grok" -> /\ GetField(Sections(d), "models", "default") = "ours"
                            => FindSection(Sections(d), "main") # {}
                       /\ GetField(Sections(d), "subagents", "explore") = "ours"
                            => FindSection(Sections(d), "sub") # {}
      [] OTHER -> TRUE

KeyOf == [codex |-> "codexAuth", cline |-> "clineSecrets", jcode |-> "jcodeEnv"]

\* At every instant, whatever fails or stops: what a file selects of ours is
\* in it, and a credential of ours is on disk only beside a configuration that
\* uses it, unless a revoke was stopped.
NothingDangles ==
    /\ \A f \in Files : Resolves(f, disk[f].doc)
    /\ (tool \in DOMAIN KeyOf /\ ~past.halfRevoked /\ req.dir = "apply") =>
        (Get(disk[KeyOf[tool]].doc, "key") = "ours"
            => "ours" \in {Get(disk[tool].doc, k) : k \in {"block", "url"}})

\* A file that was there when it was first changed can be gone back to: it is
\* in the backup, as the user had it, unless the copy itself was stopped; and no file
\* is ever seen half written.
OriginalKept ==
    \A f \in Files :
        /\ disk[f].kind # "torn"
        /\ past.original[f].kind = "doc" =>
            backup[f] \in past.had[f] \/ (backup[f] = Torn /\ f \in past.cut)

\* No step of a request, one that fails or stops included, changes a setting
\* of the user, nor anything in a file it cannot parse; and a revoke that looks
\* whose a choice is leaves the user's alone.  Six files' choices, Codex's
\* subagent and Grok's are taken without looking: Blind names them.
SettingsKept ==
    spent'.edits = spent.edits => \A f \in Files :
        /\ disk[f].kind = "doc" \/ disk'[f].kind = "doc"
                => Foreign(f, disk'[f].doc) = Foreign(f, disk[f].doc)
        /\ disk[f].kind \in {"garbage", "unnamed"} => disk'[f] = disk[f]
        /\ req.dir = "revoke"
                => UserChoices(f, disk[f].doc) \subseteq UserChoices(f, disk'[f].doc)

\* What the user wrote is never lost: not what was there before the first
\* change, not what was set beside it, and not what was chosen since where the
\* revoke looks at it (all but Blind).
UserContentKept ==
    [][OriginalKept' /\ SettingsKept]_vars
=============================================================================
