---------------------------- MODULE CliToolsProofs ----------------------------
(***************************************************************************)
(* What applying and revoking a command line tool's configuration promises,*)
(* for every set of tools and every number of requests, faults and edits:  *)
(* nothing dangles (ConfigurationsHold), the user's content is kept        *)
(* (TheUsersIsKept, OriginalsAreKept) and the answer is true               *)
(* (AnswersAreTrue).                                                       *)
(*                                                                         *)
(* First what the operations of ToolConfigs do to one document, then the   *)
(* steps of a request, of which StepsAre says that each is one of seven    *)
(* kinds, then an invariant for each promise and its preservation by kind. *)
(* copilot and droid are left out where sequences filtered by SelectSeq    *)
(* matter, and grok where its file is edited as text.                      *)
(***************************************************************************)
EXTENDS CliTools, TLAPS

---------------------------------------------------------------------------
(* Documents. *)

PlainFiles == {"claude", "codex", "codexAuth", "cline", "clineSecrets", "kilo", "vscode", "opencode",
               "hermes", "hermesEnv", "deepseek", "jcode", "jcodeEnv", "openclaw", "agentModels",
               "cowork"}

\* Where a value of the router's may stand in a file, and which.
MayHold(f, k, v) ==
    CASE f = "claude" -> k \in {"onboarded", "url", "token", "model", "window"} /\ v = "ours"
      [] f = "codex" -> \/ k \in {"model", "model_provider"} /\ v \in {"ours", "9router"}
                        \/ k \in {"block", "subagent", "legacy"}
      [] f = "codexAuth" -> k \in {"key", "auth_mode"}
      [] f = "cline" -> (k = "act" /\ v = "openai") \/ k \in {"plan", "url", "model", "planModel"}
      [] f = "clineSecrets" -> k = "key"
      [] f = "kilo" -> k \in {"key", "named"} \/ (k = "9router" /\ v = "9router")
      [] f = "jcodeEnv" -> k \in {"key", "9router"}
      [] f = "vscode" -> k \in {"customProvider", "defaultModel"}
      [] f = "opencode" -> \/ k \in {"block", "legacy"}
                           \/ k \in {"model", "explorer"} /\ v \in Ours \cup {"9router"}
      [] f = "hermes" -> k = "model"
      [] f = "hermesEnv" -> k = "key" /\ v = "ours"
      [] f = "deepseek" -> \/ k \in {"key", "model"}
                           \/ k = "provider" /\ v = "openai"
                           \/ k = "url" /\ v \in {"ours", "local"}
      [] f = "jcode" -> k \in {"block", "legacy"}
      [] f = "openclaw" -> \/ k \in {"block", "legacy", "allow"}
                           \/ k \in {"primary", "agent"} /\ v \in Ours \cup {"9router"}
      [] f = "agentModels" -> k = "block" \/ (k = "legacy" /\ v = "9router")
      [] f = "cowork" -> k \in {"provider", "url", "key", "models", "servers", "localDev"}
      [] OTHER -> FALSE

DocInv(f, d) ==
    /\ Resolves(f, d)
    /\ \A k : Get(d, k) \in Marks => MayHold(f, k, Get(d, k))
    /\ f # "openclaw" => ~Has(d, "allow")
    /\ f = "openclaw" =>
          /\ Get(d, "agent") \in Models => Has(d, "agents")
          /\ Allowed(d) \cap Marks \subseteq Models \cup {"9router"}
    /\ f = "codex" /\ Get(d, "model") \in Marks =>
          Get(d, "model_provider") \in {"ours", "9router", "user", "user2"}
    /\ f = "cline" /\ (\E k \in {"plan", "url", "model", "planModel"} : Get(d, k) \in Marks) =>
          Get(d, "act") \in {"openai", "user", "user2"}
    /\ f = "deepseek" /\ (\E k \in {"key", "model"} : Get(d, k) \in Marks) =>
          Get(d, "url") \in {"local", "ours", "user", "user2"}

Offer(p) == /\ p.models \in {<<"m1">>, <<"m2">>, <<"m1", "m2">>}
            /\ p.active \in {"none", "first", "m2"}
            /\ p.key \in BOOLEAN /\ p.extra \in BOOLEAN

\* What Payloads offers names a model of this router, and gives an agent one it offers.
LEMMA OfferFacts ==
  ASSUME NEW p, Offer(p)
  PROVE  /\ Main(p) \in Models /\ Main(p) \in ToSet(p.models)
         /\ Last(p.models) \in ToSet(p.models) /\ ToSet(p.models) \subseteq Models
  BY DEF Offer, Main, Models, ToSet, Last

\* An empty document holds nothing.
LEMMA BlankHasNone == \A k : ~Has(Blank, k) /\ Get(Blank, k) = "none"
  BY DEF Has, Get, Blank

\* What a document holds after one path is set.
LEMMA Putting ==
  \A d, k, v, x :
      /\ Has(Put(d, k, v), x) <=> x = k \/ Has(d, x)
      /\ Get(Put(d, k, v), x) = IF x = k THEN v ELSE Get(d, x)
  BY DEF Put, Has, Get

\* What it holds after several are set to the same.
LEMMA Writing ==
  \A d, ks, v, x :
      /\ Has(Write(d, ks, v), x) <=> x \in ks \/ Has(d, x)
      /\ Get(Write(d, ks, v), x) = IF x \in ks THEN v ELSE Get(d, x)
  BY DEF Write, Has, Get

\* What it holds after some are removed.
LEMMA Dropping ==
  \A d, ks, x :
      /\ Has(Drop(d, ks), x) <=> Has(d, x) /\ x \notin ks
      /\ Get(Drop(d, ks), x) = IF x \in ks THEN "none" ELSE Get(d, x)
  BY DEF Drop, Has, Get

\* A path that is not there reads as "none".
LEMMA GettingWhatIs == \A d, k : ~Has(d, k) => Get(d, k) = "none"
  BY DEF Get

\* No apply of mutations.rs leaves in a file a selection of ours that the file cannot
\* resolve, nor a value of ours where the revoke will not look for it.
LEMMA ApplyKeepsDocs ==
  ASSUME NEW f \in PlainFiles, NEW d, NEW p, Offer(p), DocInv(f, d)
  PROVE  DocInv(f, Apply(f, d, p))
  <1> USE Putting, Writing, Dropping, GettingWhatIs DEF Apply, DocInv, Resolves, MayHold, Marks, Ours, Models
  <1>1. CASE f = "claude"
    BY <1>1 DEF ClaudeApply
  <1>2. CASE f = "codex"
    BY <1>2 DEF CodexApply
  <1>3. CASE f = "codexAuth"
    BY <1>3 DEF CodexAuthApply
  <1>4. CASE f = "cline"
    BY <1>4 DEF ClineApply
  <1>5. CASE f \in {"clineSecrets", "kilo", "jcodeEnv"}
    <2>1. PICK g : g = Apply(f, d, p)  OBVIOUS
    <2>2. g = Put(d, "key", "ours")
      BY <1>5, <2>1 DEF KeyApply
    <2>3. \A x : /\ Has(g, x) <=> x = "key" \/ Has(d, x)
                 /\ Get(g, x) = IF x = "key" THEN "ours" ELSE Get(d, x)
      BY <2>2
    <2>4. ~Has(g, "allow")
      BY <1>5, <2>3
    <2>5. \A x : Get(g, x) \in Marks => MayHold(f, x, Get(g, x))
      <3>1. \A x : Get(d, x) \in Marks => MayHold(f, x, Get(d, x))
        OBVIOUS
      <3>2. MayHold(f, "key", "ours")
        <4>1. CASE f = "clineSecrets"  BY <4>1
        <4>2. CASE f = "kilo"  BY <4>2
        <4>3. CASE f = "jcodeEnv"  BY <4>3
        <4> QED  BY <1>5, <4>1, <4>2, <4>3
      <3> HIDE DEF MayHold, DocInv, Resolves
      <3> QED  BY <2>3, <3>1, <3>2
    <2>6. Resolves(f, g)
      BY <1>5
    <2> HIDE DEF MayHold, Resolves
    <2> QED  BY <1>5, <2>1, <2>4, <2>5, <2>6
  <1>6. CASE f = "vscode"
    BY <1>6 DEF VsCodeApply
  <1>7. CASE f = "opencode"
    <2> DEFINE e == Write(d, {"block", "explorer"}, "ours")
    <2>1. PICK v : Apply(f, d, p) = Put(e, "model", v) /\ (v \in Models \/ v \notin Marks)
      <3>1. Apply(f, d, p) = OpencodeApply(d, p)
        BY <1>7
      <3>2. CASE p.active = "none"
        <4>1. Apply(f, d, p) = Put(e, "model", "")
          BY ONLY <3>1, <3>2 DEF OpencodeApply
        <4>2. "" \notin Marks
          BY ZenonT(30)
        <4> QED  BY ONLY <4>1, <4>2
      <3>3. CASE p.active = "first"
        BY ONLY <3>1, <3>3, OfferFacts, Offer(p) DEF OpencodeApply
      <3>4. CASE p.active = "m2"
        BY ONLY <3>1, <3>4 DEF OpencodeApply, Models
      <3> QED  BY <3>2, <3>3, <3>4 DEF Offer
    <2>2. PICK g : g = Put(e, "model", v)  OBVIOUS
    <2>3. \A x : /\ Has(g, x) <=> x \in {"block", "explorer", "model"} \/ Has(d, x)
                 /\ Get(g, x) = IF x = "model" THEN v
                                ELSE IF x \in {"block", "explorer"} THEN "ours" ELSE Get(d, x)
      <3>1. \A x : /\ Has(e, x) <=> x \in {"block", "explorer"} \/ Has(d, x)
                   /\ Get(e, x) = IF x \in {"block", "explorer"} THEN "ours" ELSE Get(d, x)
        BY ONLY Writing
      <3>2. \A x : /\ Has(g, x) <=> x = "model" \/ Has(e, x)
                   /\ Get(g, x) = IF x = "model" THEN v ELSE Get(e, x)
        BY ONLY <2>2, Putting
      <3> HIDE DEF e
      <3> QED  BY ONLY <3>1, <3>2
    <2>4. ~Has(g, "allow") /\ Has(g, "block")
      <3>1. ~Has(d, "allow")  BY <1>7
      <3> QED  BY ONLY <2>3, <3>1
    <2>5. \A x : Get(g, x) \in Marks => MayHold("opencode", x, Get(g, x))
      <3>1. \A x : Get(d, x) \in Marks => MayHold("opencode", x, Get(d, x))
        BY <1>7
      <3>2. /\ v \in Models => MayHold("opencode", "model", v)
            /\ MayHold("opencode", "block", "ours") /\ MayHold("opencode", "explorer", "ours")
            /\ v \notin Models => v \notin Marks
        BY <2>1
      <3> HIDE DEF MayHold, DocInv, Resolves, Marks, Models
      <3> QED  BY <2>3, <3>1, <3>2
    <2>6. Resolves("opencode", g)
      BY <2>4
    <2> HIDE DEF MayHold, Resolves
    <2> QED  BY <1>7, <2>1, <2>2, <2>4, <2>5, <2>6
  <1>8. CASE f = "hermes"
    BY <1>8 DEF HermesApply
  <1>9. CASE f = "hermesEnv"
    BY <1>9 DEF HermesEnvApply
  <1>10. CASE f = "deepseek"
    <2>1. PICK u \in {"ours", "local"} : Apply(f, d, p)
              = Put(Put(Write(d, {"key", "model"}, "ours"), "provider", "openai"), "url", u)
      BY <1>10 DEF DeepSeekApply
    <2>6. PICK g : g = Put(Put(Write(d, {"key", "model"}, "ours"), "provider", "openai"), "url", u)
      OBVIOUS
    <2>2. \A x : /\ Has(g, x) <=> x \in {"key", "model", "provider", "url"} \/ Has(d, x)
                 /\ Get(g, x) = IF x = "url" THEN u ELSE IF x = "provider" THEN "openai"
                                ELSE IF x \in {"key", "model"} THEN "ours" ELSE Get(d, x)
      BY ONLY <2>6, Putting, Writing
    <2>3. ~Has(g, "allow") /\ Has(g, "url") /\ Has(g, "key") /\ Get(g, "url") \in {"local", "ours"}
      BY <1>10, <2>2
    <2>4. \A x : Get(g, x) \in Marks => MayHold("deepseek", x, Get(g, x))
      <3>1. \A x : Get(d, x) \in Marks => MayHold("deepseek", x, Get(d, x))
        BY <1>10
      <3>2. /\ MayHold("deepseek", "url", u) /\ MayHold("deepseek", "provider", "openai")
            /\ MayHold("deepseek", "key", "ours") /\ MayHold("deepseek", "model", "ours")
        BY ONLY u \in {"ours", "local"} DEF MayHold
      <3> HIDE DEF MayHold, DocInv, Resolves, Marks
      <3> QED  BY <2>2, <3>1, <3>2
    <2>5. Resolves("deepseek", g)
      BY <2>3
    <2> HIDE DEF MayHold, Resolves
    <2> QED  BY <1>10, <2>1, <2>3, <2>4, <2>5, <2>6
  <1>11. CASE f = "jcode"
    BY <1>11 DEF JcodeApply
  <1>12. CASE f = "openclaw"
    <2> DEFINE allowed == (Allowed(d) \ Models) \cup (IF p.extra THEN ToSet(p.models) ELSE {Main(p)})
               e == Put(Put(Put(d, "block", "ours"), "primary", Main(p)), "allow", allowed)
    <2>1. /\ Has(e, "block") /\ Get(e, "primary") = Main(p) /\ Get(e, "agent") = Get(d, "agent")
          /\ Has(e, "agents") <=> Has(d, "agents")
          /\ Has(e, "allow") /\ Get(e, "allow") = allowed
      BY <1>12
    <2>2. /\ Main(p) \in Models /\ Main(p) \in allowed
          /\ p.extra => Last(p.models) \in allowed
      BY OfferFacts
    <2>3. \A x, v : /\ Allowed(e) = allowed /\ Allowed(Put(e, "agent", v)) = allowed
                    /\ Allowed(Drop(e, {"agent"})) = allowed
      BY <2>1 DEF Allowed, Get
    <2>4. \/ ~Has(d, "agents") /\ Apply(f, d, p) = e
          \/ Has(d, "agents") /\ p.extra /\ Apply(f, d, p) = Put(e, "agent", Last(p.models))
          \/ Has(d, "agents") /\ Apply(f, d, p) = Drop(e, {"agent"})
          \/ Get(d, "agent") \notin Models /\ Apply(f, d, p) = e
      <3>1. Apply(f, d, p) = OpenClawApply(d, p)  BY <1>12
      <3>2. OpenClawApply(d, p) =
              IF ~Has(d, "agents") \/ (~p.extra /\ Get(d, "agent") \notin Ours) THEN e
              ELSE IF p.extra THEN Put(e, "agent", Last(p.models)) ELSE Drop(e, {"agent"})
        BY DEF OpenClawApply
      <3> HIDE DEF e
      <3> QED  BY <3>1, <3>2
    <2>5. Get(d, "agent") \in Models => Has(d, "agents")
      <3>1. DocInv("openclaw", d)  BY <1>12
      <3> HIDE DEF Resolves, MayHold, Marks, Models
      <3> QED  BY <3>1
    <2> HIDE DEF allowed, e
    <2>6. PICK g : g = Apply(f, d, p)  OBVIOUS
    <2>7. g = e \/ g = Drop(e, {"agent"}) \/ \E v : g = Put(e, "agent", v)
      BY <2>4, <2>6
    <2>8. Has(g, "block") /\ Allowed(g) = allowed /\ Get(g, "primary") = Main(p)
      BY <2>1, <2>3, <2>7
    <2>9. Get(g, "agent") \in Models => Get(g, "agent") \in allowed /\ Has(g, "agents")
      <3>1. CASE g = e /\ (~Has(d, "agents") \/ Get(d, "agent") \notin Models)
        BY <3>1, <2>1, <2>5
      <3>2. CASE g = Drop(e, {"agent"})
        <4>1. Get(g, "agent") = "none"  BY <3>2
        <4> QED  BY <4>1
      <3>3. CASE Has(d, "agents") /\ p.extra /\ g = Put(e, "agent", Last(p.models))
        <4>1. Get(g, "agent") = Last(p.models) /\ Has(g, "agents")  BY <3>3, <2>1
        <4> QED  BY <4>1, <3>3, <2>2
      <3> QED  BY <2>4, <2>6, <3>1, <3>2, <3>3
    <2>10. Resolves("openclaw", g)
      BY <2>2, <2>8, <2>9
    <2>11. DocInv("openclaw", g)
      <3>1. DocInv("openclaw", d)  BY <1>12
      <3>2. Allowed(g) \cap Marks \subseteq Models \cup {"9router"}
        BY <2>8, <3>1, OfferFacts DEF allowed
      <3>3. \A k : Get(g, k) \in Marks => MayHold("openclaw", k, Get(g, k))
        <4>1. ASSUME NEW k, k \notin {"block", "primary", "allow", "agent"}
              PROVE  Get(g, k) = Get(d, k)
          BY <2>7, <4>1 DEF e
        <4>2. Get(g, "agent") \in {"none", Get(d, "agent")} \cup Models
          <5>1. Last(p.models) \in Models
            BY OfferFacts
          <5>2. g = e => Get(g, "agent") = Get(d, "agent")
            BY <2>1
          <5>3. g = Drop(e, {"agent"}) => Get(g, "agent") = "none"
            OBVIOUS
          <5>4. g = Put(e, "agent", Last(p.models)) => Get(g, "agent") = Last(p.models)
            OBVIOUS
          <5> HIDE DEF DocInv, Resolves, MayHold, Marks, Models, Ours, Apply
          <5> QED  BY <2>4, <2>6, <5>1, <5>2, <5>3, <5>4
        <4>3. \A k : Get(d, k) \in Marks => MayHold("openclaw", k, Get(d, k))
          BY <3>1
        <4>4. /\ MayHold("openclaw", "block", Get(g, "block")) /\ MayHold("openclaw", "allow", Get(g, "allow"))
              /\ MayHold("openclaw", "primary", Get(g, "primary"))
          BY <2>2, <2>8
        <4>5. Get(g, "agent") \in Models => MayHold("openclaw", "agent", Get(g, "agent"))
          OBVIOUS
        <4>6. "none" \notin Marks
          OBVIOUS
        <4> HIDE DEF DocInv, Resolves, MayHold, Marks, Models, Ours, Apply
        <4> QED  BY <4>1, <4>2, <4>3, <4>4, <4>5, <4>6
      <3> QED  BY <2>9, <2>10, <3>2, <3>3
    <2> QED  BY <1>12, <2>6, <2>11
  <1>13. CASE f = "agentModels"
    <2>1. PICK g : g = Put(d, "block", "ours")  OBVIOUS
    <2>2. \A x : /\ Has(g, x) <=> x = "block" \/ Has(d, x)
                 /\ Get(g, x) = IF x = "block" THEN "ours" ELSE Get(d, x)
      BY <2>1
    <2>3. Apply(f, d, p) = g
      BY <1>13, <2>1 DEF AgentModelsApply
    <2>4. \A x : Get(g, x) \in Marks => MayHold("agentModels", x, Get(g, x))
      <3>1. \A x : Get(d, x) \in Marks => MayHold("agentModels", x, Get(d, x))
        BY <1>13
      <3>2. MayHold("agentModels", "block", "ours")
        OBVIOUS
      <3> HIDE DEF MayHold, DocInv, Resolves, Marks
      <3> QED  BY <2>2, <3>1, <3>2
    <2>5. Resolves("agentModels", g) /\ ~Has(g, "allow")
      BY <1>13, <2>2
    <2> HIDE DEF MayHold, Resolves
    <2> QED  BY <1>13, <2>3, <2>4, <2>5
  <1>14. CASE f = "cowork"
    BY <1>14 DEF CoworkApply
  <1> QED  BY <1>1, <1>2, <1>3, <1>4, <1>5, <1>6, <1>7, <1>8, <1>9, <1>10, <1>11, <1>12,
              <1>13, <1>14 DEF PlainFiles

\* What OpenClaw's revoke leaves, path by path.
LEMMA OpenClawRevoked ==
  ASSUME NEW d, NEW h, h = OpenClawRevoke(d)
  PROVE  /\ \A x : x # "allow" => Get(h, x) = IF \/ x \in {"block", "legacy"}
                                                 \/ x \in {"primary", "agent"} /\ Get(d, x) \in Ours
                                              THEN "none" ELSE Get(d, x)
         /\ Allowed(h) = Allowed(d) \ Models
         /\ Has(h, "agents") <=> Has(d, "agents")
  <1> DEFINE e == Drop(d, {"block", "legacy"} \cup {k \in {"primary", "agent"} : Get(d, k) \in Ours})
  <1>1. OpenClawRevoke(d) = IF Has(d, "allow") THEN Put(e, "allow", Allowed(d) \ Models) ELSE e
    BY DEF OpenClawRevoke
  <1> DEFINE ks == {"block", "legacy"} \cup {k \in {"primary", "agent"} : Get(d, k) \in Ours}
  <1>0. \A x : x \in ks <=>
            x \in {"block", "legacy"} \/ (x \in {"primary", "agent"} /\ Get(d, x) \in Ours)
    <2>1. \A x : x \in {k \in {"primary", "agent"} : Get(d, k) \in Ours}
                    <=> x \in {"primary", "agent"} /\ Get(d, x) \in Ours
      OBVIOUS
    <2> QED  BY <2>1
  <1>2. /\ Has(e, "allow") <=> Has(d, "allow")
        /\ Has(e, "agents") <=> Has(d, "agents")
        /\ \A x : x # "allow" => Get(e, x) = IF \/ x \in {"block", "legacy"}
                                                \/ x \in {"primary", "agent"} /\ Get(d, x) \in Ours
                                             THEN "none" ELSE Get(d, x)
    <2>1. e = Drop(d, ks)  OBVIOUS
    <2>2. "allow" \notin ks /\ "agents" \notin ks  OBVIOUS
    <2> HIDE DEF e, ks
    <2> QED  BY <1>0, <2>1, <2>2, Dropping
  <1> HIDE DEF e
  <1>3. h = OpenClawRevoke(d)  OBVIOUS
  <1>4. /\ Has(h, "allow") <=> Has(d, "allow")
        /\ Has(d, "allow") => Get(h, "allow") = Allowed(d) \ Models
    BY <1>1, <1>2, <1>3, Putting
  <1>5. Allowed(h) = Allowed(d) \ Models
    BY <1>4 DEF Allowed, Get
  <1>6. \A x : x # "allow" => Get(h, x) = Get(e, x)
    BY <1>1, <1>3, Putting
  <1>7. Has(h, "agents") <=> Has(d, "agents")
    BY <1>1, <1>2, <1>3, Putting
  <1> QED  BY <1>2, <1>3, <1>5, <1>6, <1>7

\* Nor does a revoke: it takes back a selection with what it selects.
LEMMA RevokeKeepsDocs ==
  ASSUME NEW f \in PlainFiles, NEW d, DocInv(f, d)
  PROVE  DocInv(f, Revoke(f, d))
  <1> USE Putting, Writing, Dropping, GettingWhatIs DEF Revoke, DocInv, Resolves, MayHold, Marks, Ours, Models
  <1>1. CASE f = "claude"
    BY <1>1 DEF ClaudeRevoke
  <1>2. CASE f = "codex"
    BY <1>2 DEF CodexRevoke
  <1>3. CASE f = "codexAuth"
    BY <1>3 DEF CodexAuthRevoke
  <1>4. CASE f = "cline"
    BY <1>4 DEF ClineRevoke
  <1>5. CASE f \in {"clineSecrets", "kilo", "jcodeEnv"}
    BY <1>5 DEF ClineSecretsRevoke, KiloRevoke, JcodeEnvRevoke
  <1>6. CASE f = "vscode"
    BY <1>6 DEF VsCodeRevoke
  <1>7. CASE f = "opencode"
    BY <1>7 DEF OpencodeRevoke
  <1>8. CASE f = "hermes"
    BY <1>8 DEF HermesRevoke
  <1>9. CASE f = "hermesEnv"
    BY <1>9 DEF HermesEnvRevoke
  <1>10. CASE f = "deepseek"
    BY <1>10 DEF DeepSeekRevoke
  <1>11. CASE f = "jcode"
    BY <1>11 DEF JcodeRevoke
  <1>12. CASE f = "openclaw"
    <2>1. PICK h : h = OpenClawRevoke(d)  OBVIOUS
    <2>2. /\ \A x : x # "allow" => Get(h, x) = IF \/ x \in {"block", "legacy"}
                                                  \/ x \in {"primary", "agent"} /\ Get(d, x) \in Ours
                                               THEN "none" ELSE Get(d, x)
          /\ Allowed(h) = Allowed(d) \ Models /\ (Has(h, "agents") <=> Has(d, "agents"))
      BY <2>1, OpenClawRevoked
    <2>3. DocInv("openclaw", d)  BY <1>12
    <2>4. {Get(h, "primary"), Get(h, "agent")} \cap Models = {}
      BY <2>2
    <2>5. Resolves("openclaw", h)
      BY <2>4
    <2>6. \A x : Get(h, x) \in Marks => MayHold("openclaw", x, Get(h, x))
      <3>1. \A x : Get(d, x) \in Marks => MayHold("openclaw", x, Get(d, x))
        BY <2>3
      <3>2. MayHold("openclaw", "allow", Get(h, "allow")) /\ "none" \notin Marks
        OBVIOUS
      <3> HIDE DEF DocInv, Resolves, MayHold, Marks, Models, Ours, Revoke
      <3> QED  BY <2>2, <3>1, <3>2
    <2>7. Allowed(h) \cap Marks \subseteq Models \cup {"9router"}
      BY <2>2, <2>3
    <2> HIDE DEF Resolves, MayHold, Marks
    <2> QED  BY <1>12, <2>1, <2>4, <2>5, <2>6, <2>7
  <1>13. CASE f = "agentModels"
    BY <1>13 DEF AgentModelsRevoke
  <1>14. CASE f = "cowork"
    BY <1>14 DEF CoworkRevoke
  <1> QED  BY <1>1, <1>2, <1>3, <1>4, <1>5, <1>6, <1>7, <1>8, <1>9, <1>10, <1>11, <1>12,
              <1>13, <1>14 DEF PlainFiles

\* The user's own setting beside ours changes nothing of that.
LEMMA TweakKeepsDocs ==
  ASSUME NEW f \in PlainFiles, NEW d, DocInv(f, d)
  PROVE  DocInv(f, Tweak(f, d)) /\ Tweak(f, d) = Put(d, "own", "user2")
  <1>1. Tweak(f, d) = Put(d, "own", "user2")
    BY DEF PlainFiles, Tweak
  <1>2. PICK g : g = Put(d, "own", "user2")  OBVIOUS
  <1>3. \A k : /\ Has(g, k) <=> k = "own" \/ Has(d, k)
               /\ Get(g, k) = IF k = "own" THEN "user2" ELSE Get(d, k)
    BY <1>2, Putting
  <1>4. f = "openclaw" => Allowed(g) = Allowed(d)
    BY <1>3 DEF Allowed, Get
  <1>5. DocInv(f, g)
    <2>1. f # "openclaw" => Allowed(g) = {}
      BY <1>3 DEF Allowed, DocInv
    <2> QED  BY <1>3, <1>4, <2>1 DEF DocInv, Resolves, MayHold, Marks, Ours, Models, PlainFiles
  <1> QED  BY <1>1, <1>2, <1>5

\* Nor does a choice the user makes in the tool.
LEMMA ChooseKeepsDocs ==
  ASSUME NEW f \in PlainFiles \cap DOMAIN Selections, NEW d, NEW k \in Selections[f],
         NEW v \in {"user", "user2"}, DocInv(f, d)
  PROVE  DocInv(f, Choose(f, d, k, v))
  <1> USE Putting DEF DocInv, Resolves, MayHold, Marks, Ours, Models
  <1>1. CASE f = "openclaw"
    <2>1. PICK g : g = Put(Put(d, k, v), "allow", Allowed(d) \cup {v})  OBVIOUS
    <2>2. Choose(f, d, k, v) = g /\ k \in {"primary", "agent"}
      BY <1>1, <2>1 DEF Choose, Selections
    <2>3. /\ \A x \in {"primary", "agent"} : Get(g, x) = IF x = k THEN v ELSE Get(d, x)
          /\ Has(g, "agents") <=> Has(d, "agents")
          /\ Has(g, "block") <=> Has(d, "block")
          /\ Has(g, "allow") /\ Get(g, "allow") = Allowed(d) \cup {v}
          /\ \A x : x \notin {k, "allow"} => Get(g, x) = Get(d, x)
      BY <2>1, <2>2
    <2>4. Allowed(g) = Allowed(d) \cup {v}
      BY <2>3 DEF Allowed, Get
    <2>5. DocInv("openclaw", g)
      <3>1. \A x : Get(g, x) \in Marks => MayHold("openclaw", x, Get(g, x))
        BY <1>1, <2>2, <2>3
      <3> QED  BY <1>1, <2>2, <2>3, <2>4, <3>1
    <2> QED  BY <1>1, <2>2, <2>5
  <1>2. CASE f # "openclaw"
    <2>1. PICK g : g = Put(d, k, v)  OBVIOUS
    <2>2. Choose(f, d, k, v) = g /\ k # "allow" /\ k \in Selections[f]
      BY <1>2, <2>1 DEF Choose, Selections, PlainFiles
    <2>3. \A x : /\ Has(g, x) <=> x = k \/ Has(d, x)
                 /\ Get(g, x) = IF x = k THEN v ELSE Get(d, x)
      BY <2>1
    <2>4. \A x : Get(g, x) \in Marks => MayHold(f, x, Get(g, x))
      <3> HIDE DEF MayHold
      <3> QED  BY <2>3
    <2>5. Resolves(f, g)
      BY <1>2, <2>2, <2>3 DEF Selections, PlainFiles
    <2> HIDE DEF Resolves, MayHold
    <2> QED  BY <1>2, <2>2, <2>3, <2>4, <2>5
  <1> QED  BY <1>1, <1>2

\* Every file starts so, that of an older release of the router included.
LEMMA StartsAreDocs ==
  ASSUME NEW f \in PlainFiles, NEW c \in Starts(f)
  PROVE  /\ DocInv(f, c.doc) /\ c.kind \in {"none", "garbage", "unnamed", "doc"}
         /\ c.kind # "doc" => c.doc = Blank
  <1>1. DocInv(f, Blank)
    BY BlankHasNone DEF PlainFiles, DocInv, Resolves, Allowed, Marks, Ours, Models
  <1>2. ASSUME NEW d \in StartingDocs[f] PROVE DocInv(f, d)
    <2> USE <1>2, Putting, Writing DEF StartingDocs, Own, DocInv, Resolves, Allowed, MayHold, Marks, Ours, Models
    <2>0. \A k : /\ Has([own |-> "user"], k) <=> k = "own"
                 /\ Get([own |-> "user"], k) = IF k = "own" THEN "user" ELSE "none"
      BY DEF Has, Get
    <2>1. CASE f \in {"claude", "clineSecrets", "vscode", "hermesEnv", "agentModels", "cowork"}
      BY <2>0, <2>1
    <2>2. CASE f = "codex"
      BY <2>0, <2>2
    <2>3. CASE f = "codexAuth"
      <3>1. \A k : /\ Get([key |-> "user", auth_mode |-> "user"], k) \in {"user", "none"}
                   /\ Has([key |-> "user", auth_mode |-> "user"], k) <=> k \in {"key", "auth_mode"}
        BY DEF Get, Has
      <3> QED  BY <2>0, <2>3, <3>1
    <2>4. CASE f \in {"cline", "hermes"}
      BY <2>0, <2>4
    <2>7. CASE f \in {"jcode", "jcodeEnv"}
      BY <2>0, <2>7
    <2>8. CASE f = "kilo"
      <3> DEFINE old == Put(Put(Own, "9router", "9router"), "named", "ours")
      <3>1. \A k : /\ Has(old, k) <=> k \in {"own", "9router", "named"}
                   /\ Get(old, k) \in {"none", "user", "9router", "ours"}
                   /\ Get(old, k) = "9router" => k = "9router"
                   /\ Get(old, k) = "ours" => k = "named"
        BY <2>0
      <3>2. DocInv("kilo", old)
        <4> HIDE DEF old
        <4> QED  BY <3>1
      <3>3. DocInv("kilo", [own |-> "user"])
        BY <2>0
      <3>4. d = old \/ d = [own |-> "user"]
        BY <2>8
      <3> HIDE DEF DocInv, old
      <3> QED  BY <2>8, <3>2, <3>3, <3>4
    <2>9. CASE f = "deepseek"
      BY <2>0, <2>9
    <2>5. CASE f = "opencode"
      BY <2>0, <2>5
    <2>6. CASE f = "openclaw"
      <3>1. Get(d, "agent") \in {"none", "9router"}
        BY <2>0, <2>6
      <3>2. Get(d, "primary") \in {"none", "user", "9router"}
        BY <2>0, <2>6
      <3>3. \A k : Get(d, k) \in Marks => k \in {"allow", "legacy", "primary", "agent"}
        BY <2>0, <2>6
      <3>4. Has(d, "allow") => Get(d, "allow") \in {{"user"}, {"9router"}}
        BY <2>0, <2>6
      <3>5. Allowed(d) \subseteq {"user", "9router"}
        BY <3>4 DEF Get
      <3> QED  BY <2>6, <3>1, <3>2, <3>3, <3>5
    <2> QED  BY <2>1, <2>2, <2>3, <2>4, <2>5, <2>6, <2>7, <2>8, <2>9 DEF PlainFiles
  <1> QED  BY <1>1, <1>2 DEF Starts, Nothing, Garbage, Unnamed, Doc

\* What one file of a tool with a credential of its own is told by.
InUse(d) == "ours" \in {Get(d, "block"), Get(d, "url")}

\* A configuration applied to codex, cline or jcode uses the credential written next.
LEMMA AppliedIsInUse ==
  ASSUME NEW f \in DOMAIN KeyOf, NEW d, NEW p
  PROVE  InUse(Apply(f, d, p))
  BY Putting, Writing DEF InUse, KeyOf, Apply, CodexApply, ClineApply, JcodeApply

\* A revoke leaves no key in the second file of these tools.
LEMMA RevokedHasNoKey ==
  ASSUME NEW t \in DOMAIN KeyOf, NEW d
  PROVE  Get(Revoke(KeyOf[t], d), "key") = "none"
  BY Dropping DEF KeyOf, Revoke, CodexAuthRevoke, ClineSecretsRevoke, JcodeEnvRevoke

\* The user's edits of the modelled kinds touch neither the key nor its use.
LEMMA UserKeepsInUse ==
  ASSUME NEW d
  PROVE  /\ \A v : InUse(Put(d, "own", v)) <=> InUse(d)
         /\ \A v : Get(Put(d, "own", v), "key") = Get(d, "key")
         /\ \A v : \A f \in DOMAIN KeyOf \cap DOMAIN Selections : \A k \in Selections[f] :
               InUse(Choose(f, d, k, v)) <=> InUse(d)
         /\ \A v : \A t \in DOMAIN KeyOf : KeyOf[t] \in DOMAIN Selections => \A k \in Selections[KeyOf[t]] :
               Get(Choose(KeyOf[t], d, k, v), "key") = Get(d, "key")
  BY Putting DEF InUse, KeyOf, Selections, Choose

\* An apply changes nothing that is the user's, OpenClaw's allowlist included.
LEMMA ApplyKeepsForeign ==
  ASSUME NEW f \in PlainFiles, NEW d, NEW p, Offer(p)
  PROVE  Foreign(f, Apply(f, d, p)) = Foreign(f, d)
  <1> USE Putting, Writing, Dropping DEF Apply, Foreign
  <1>1. CASE f \in {"claude", "codex", "codexAuth", "cline", "vscode", "hermes", "hermesEnv"}
    BY <1>1 DEF ClaudeApply, CodexApply, CodexAuthApply, ClineApply, VsCodeApply, HermesApply, HermesEnvApply
  <1>2. CASE f \in {"clineSecrets", "kilo", "jcodeEnv", "deepseek", "jcode", "agentModels", "cowork"}
    BY <1>2 DEF KeyApply, DeepSeekApply, JcodeApply, AgentModelsApply, CoworkApply
  <1>3. CASE f = "opencode"
    <2>1. PICK v : Apply(f, d, p) = Put(Write(d, {"block", "explorer"}, "ours"), "model", v)
      BY <1>3 DEF OpencodeApply
    <2> QED  BY <1>3, <2>1
  <1>4. CASE f = "openclaw"
    <2> DEFINE allowed == (Allowed(d) \ Models) \cup (IF p.extra THEN ToSet(p.models) ELSE {Main(p)})
               e == Put(Put(Put(d, "block", "ours"), "primary", Main(p)), "allow", allowed)
    <2>1. allowed \ Models = Allowed(d) \ Models
      BY OfferFacts
    <2>2. /\ Has(e, "allow") /\ Get(e, "allow") = allowed
          /\ Get(e, "own") = Get(d, "own") /\ Get(e, "agents") = Get(d, "agents")
      OBVIOUS
    <2>3. OpenClawApply(d, p) =
              IF ~Has(d, "agents") \/ (~p.extra /\ Get(d, "agent") \notin Ours) THEN e
              ELSE IF p.extra THEN Put(e, "agent", Last(p.models)) ELSE Drop(e, {"agent"})
      BY DEF OpenClawApply
    <2> HIDE DEF e, allowed
    <2>4. PICK g : g = Apply(f, d, p)  OBVIOUS
    <2>5. g = e \/ g = Drop(e, {"agent"}) \/ \E v : g = Put(e, "agent", v)
      BY <1>4, <2>3, <2>4
    <2>6. /\ Has(g, "allow") /\ Get(g, "allow") = allowed
          /\ Get(g, "own") = Get(d, "own") /\ Get(g, "agents") = Get(d, "agents")
      BY <2>2, <2>5
    <2>7. Allowed(g) = allowed
      BY <2>6 DEF Allowed, Get
    <2> QED  BY <1>4, <2>1, <2>4, <2>6, <2>7
  <1> QED  BY <1>1, <1>2, <1>3, <1>4 DEF PlainFiles

\* Nor does a revoke.
LEMMA RevokeKeepsForeign ==
  ASSUME NEW f \in PlainFiles, NEW d
  PROVE  Foreign(f, Revoke(f, d)) = Foreign(f, d)
  <1> USE Putting, Writing, Dropping DEF Revoke, Foreign
  <1>1. CASE f \in {"claude", "codex", "codexAuth", "cline", "vscode", "hermes", "hermesEnv"}
    BY <1>1 DEF ClaudeRevoke, CodexRevoke, CodexAuthRevoke, ClineRevoke, VsCodeRevoke, HermesRevoke,
                HermesEnvRevoke
  <1>2. CASE f \in {"clineSecrets", "kilo", "jcodeEnv", "jcode", "agentModels", "cowork"}
    BY <1>2 DEF ClineSecretsRevoke, KiloRevoke, JcodeEnvRevoke, JcodeRevoke, AgentModelsRevoke, CoworkRevoke
  <1>3. CASE f = "deepseek"
    BY <1>3 DEF DeepSeekRevoke
  <1>4. CASE f = "opencode"
    BY <1>4 DEF OpencodeRevoke, Ours, Models
  <1>5. CASE f = "openclaw"
    <2> DEFINE e == Drop(d, {"block", "legacy"} \cup {k \in {"primary", "agent"} : Get(d, k) \in Ours})
    <2>1. /\ Has(e, "allow") <=> Has(d, "allow")
          /\ Get(e, "allow") = Get(d, "allow")
          /\ Get(e, "own") = Get(d, "own") /\ Get(e, "agents") = Get(d, "agents")
      OBVIOUS
    <2>2. OpenClawRevoke(d) = IF Has(d, "allow") THEN Put(e, "allow", Allowed(d) \ Models) ELSE e
      BY DEF OpenClawRevoke
    <2> HIDE DEF e
    <2>4. PICK h : h = OpenClawRevoke(d)  OBVIOUS
    <2>5. /\ Get(h, "own") = Get(d, "own") /\ Get(h, "agents") = Get(d, "agents")
          /\ Has(h, "allow") <=> Has(d, "allow")
          /\ Has(d, "allow") => Get(h, "allow") = Allowed(d) \ Models
      BY <2>1, <2>2, <2>4
    <2>6. Allowed(h) \ Models = Allowed(d) \ Models
      BY <2>5 DEF Allowed, Get
    <2> QED  BY <1>5, <2>4, <2>5, <2>6
  <1> QED  BY <1>1, <1>2, <1>3, <1>4, <1>5 DEF PlainFiles

\* A revoke leaves what the user has chosen since and it can tell: the tests of CodexRevoke,
\* ClineRevoke, OpencodeRevoke, OpenClawRevoke and DeepSeekRevoke for whose the selection is.
LEMMA RevokeKeepsChoices ==
  ASSUME NEW f \in PlainFiles, NEW d
  PROVE  UserChoices(f, d) \subseteq UserChoices(f, Revoke(f, d))
  <1> DEFINE U == {"user", "user2"}
  <1> SUFFICES ASSUME f \in DOMAIN Selections, NEW k \in Selections[f] \ Blind[f],
                      Chosen(f, d, k) \in U, Chosen(f, d, LooksAt(f, k)) \in U
               PROVE  /\ Chosen(f, Revoke(f, d), k) = Chosen(f, d, k)
                      /\ Chosen(f, Revoke(f, d), LooksAt(f, k)) = Chosen(f, d, LooksAt(f, k))
    BY DEF UserChoices
  <1>1. \A e, x : Chosen(f, e, x) = Get(e, x)
    BY DEF Chosen, PlainFiles
  <1>2. f \in {"codex", "cline", "opencode", "deepseek", "openclaw"}
    BY DEF Selections, Blind, PlainFiles
  <1> USE <1>1, Putting, Writing, Dropping DEF Revoke, Selections, Blind, LooksAt, Ours, Models
  <1>3. CASE f = "codex"
    BY <1>3 DEF CodexRevoke
  <1>4. CASE f = "cline"
    BY <1>4 DEF ClineRevoke
  <1>5. CASE f = "opencode"
    BY <1>5 DEF OpencodeRevoke
  <1>6. CASE f = "deepseek"
    BY <1>6 DEF DeepSeekRevoke
  <1>7. CASE f = "openclaw"
    BY <1>7 DEF OpenClawRevoke
  <1> QED  BY <1>2, <1>3, <1>4, <1>5, <1>6, <1>7

\* A document as one of the operators above builds it.
IsDoc(d) == d = [x \in DOMAIN d |-> d[x]]

\* The operations build their documents path by path.
LEMMA BuiltDocs ==
  \A d, k, v, ks : IsDoc(Put(d, k, v)) /\ IsDoc(Write(d, ks, v)) /\ IsDoc(Drop(d, ks))
  BY DEF IsDoc, Put, Write, Drop

\* Two documents with the same paths and values are the same.
LEMMA SameDocs ==
  ASSUME NEW a, NEW b, IsDoc(a), IsDoc(b), \A x : (Has(a, x) <=> Has(b, x)) /\ Get(a, x) = Get(b, x)
  PROVE  a = b
  <1>1. DOMAIN a = DOMAIN b
    BY DEF Has
  <1>2. \A x \in DOMAIN a : a[x] = b[x]
    BY <1>1 DEF Has, Get
  <1>3. [x \in DOMAIN a |-> a[x]] = [x \in DOMAIN b |-> b[x]]
    BY <1>1, <1>2
  <1> QED  BY <1>3 DEF IsDoc

\* The models OpenClaw is allowed after an apply.
Given(d, p) == (Allowed(d) \ Models) \cup (IF p.extra THEN ToSet(p.models) ELSE {Main(p)})

\* What OpenClaw's apply writes, path by path.
LEMMA OpenClawBuilt ==
  ASSUME NEW d, NEW p, Offer(p), NEW x
  PROVE  LET g == OpenClawApply(d, p) IN
         /\ x = "block" => Has(g, x) /\ Get(g, x) = "ours"
         /\ x = "primary" => Has(g, x) /\ Get(g, x) = Main(p)
         /\ x = "allow" => Has(g, x) /\ Get(g, x) = Given(d, p)
         /\ x = "agent" /\ Has(d, "agents") /\ p.extra => Has(g, x) /\ Get(g, x) = Last(p.models)
         /\ x = "agent" /\ Has(d, "agents") /\ ~p.extra /\ Get(d, x) \in Ours =>
               ~Has(g, x) /\ Get(g, x) = "none"
         /\ \/ x \notin {"block", "primary", "allow", "agent"}
            \/ x = "agent" /\ (~Has(d, "agents") \/ (~p.extra /\ Get(d, x) \notin Ours))
            => (Has(g, x) <=> Has(d, x)) /\ Get(g, x) = Get(d, x)
  <1> DEFINE e == Put(Put(Put(d, "block", "ours"), "primary", Main(p)), "allow", Given(d, p))
  <1>1. OpenClawApply(d, p) =
            IF ~Has(d, "agents") \/ (~p.extra /\ Get(d, "agent") \notin Ours) THEN e
            ELSE IF p.extra THEN Put(e, "agent", Last(p.models)) ELSE Drop(e, {"agent"})
    BY DEF OpenClawApply, Given
  <1>2. /\ Has(e, x) <=> x \in {"block", "primary", "allow"} \/ Has(d, x)
        /\ Get(e, x) = IF x = "allow" THEN Given(d, p)
                       ELSE IF x = "primary" THEN Main(p)
                       ELSE IF x = "block" THEN "ours" ELSE Get(d, x)
    BY Putting
  <1> HIDE DEF e
  <1>3. PICK g : g = OpenClawApply(d, p)  OBVIOUS
  <1>4. \/ (~Has(d, "agents") \/ (~p.extra /\ Get(d, "agent") \notin Ours)) /\ g = e
        \/ Has(d, "agents") /\ p.extra /\ g = Put(e, "agent", Last(p.models))
        \/ Has(d, "agents") /\ ~p.extra /\ Get(d, "agent") \in Ours /\ g = Drop(e, {"agent"})
    BY <1>1, <1>3 DEF Offer
  <1> QED  BY <1>2, <1>3, <1>4, Putting, Dropping

\* The same apply again would change nothing, for every file and every body.
LEMMA ApplyTwice ==
  ASSUME NEW f \in PlainFiles, NEW d, NEW p, Offer(p)
  PROVE  Apply(f, Apply(f, d, p), p) = Apply(f, d, p)
  <1> DEFINE a == Apply(f, d, p)
             b == Apply(f, a, p)
  <1>1. CASE f = "hermesEnv" /\ ~p.key
    BY <1>1 DEF Apply, HermesEnvApply
  <1>2. CASE ~(f = "hermesEnv" /\ ~p.key)
    <2>1. \A e : IsDoc(Apply(f, e, p))
      <3> SUFFICES ASSUME NEW e PROVE IsDoc(Apply(f, e, p))  OBVIOUS
      <3> USE BuiltDocs, <1>2 DEF Apply
      <3>1. CASE f \in {"claude", "codex", "codexAuth", "cline", "vscode", "hermes", "hermesEnv"}
        BY <3>1 DEF ClaudeApply, CodexApply, CodexAuthApply, ClineApply, VsCodeApply, HermesApply,
                    HermesEnvApply
      <3>2. CASE f \in {"clineSecrets", "kilo", "jcodeEnv", "deepseek", "jcode", "agentModels"}
        BY <3>2 DEF KeyApply, DeepSeekApply, JcodeApply, AgentModelsApply
      <3>3. CASE f = "cowork"
        BY <3>3 DEF CoworkApply
      <3>4. CASE f = "opencode"
        BY <3>4 DEF OpencodeApply
      <3>5. CASE f = "openclaw"
        BY <3>5 DEF OpenClawApply
      <3> QED  BY <3>1, <3>2, <3>3, <3>4, <3>5 DEF PlainFiles
    <2>2. \A x : (Has(b, x) <=> Has(a, x)) /\ Get(b, x) = Get(a, x)
      <3> USE Putting, Writing, Dropping DEF Apply
      <3>1. CASE f \in {"claude", "codex", "codexAuth", "cline", "vscode", "hermes", "hermesEnv"}
        BY <3>1, <1>2 DEF ClaudeApply, CodexApply, CodexAuthApply, ClineApply, VsCodeApply, HermesApply,
                    HermesEnvApply
      <3>2. CASE f \in {"clineSecrets", "kilo", "jcodeEnv", "deepseek", "jcode", "agentModels"}
        BY <3>2 DEF KeyApply, DeepSeekApply, JcodeApply, AgentModelsApply
      <3>3. CASE f = "cowork"
        BY <3>3 DEF CoworkApply
      <3>4. CASE f = "opencode"
        <4>1. PICK v : \A e : OpencodeApply(e, p) = Put(Write(e, {"block", "explorer"}, "ours"), "model", v)
          <5>1. CASE p.active = "none"  BY <5>1 DEF OpencodeApply
          <5>2. CASE p.active = "first"  BY <5>2 DEF OpencodeApply
          <5>3. CASE p.active \notin {"none", "first"}  BY <5>3 DEF OpencodeApply
          <5> QED  BY <5>1, <5>2, <5>3
        <4>2. \A e : Apply(f, e, p) = OpencodeApply(e, p)  BY <3>4
        <4>3. /\ a = Put(Write(d, {"block", "explorer"}, "ours"), "model", v)
              /\ b = Put(Write(a, {"block", "explorer"}, "ours"), "model", v)
          BY <4>1, <4>2
        <4> HIDE DEF a, b
        <4> QED  BY <4>3
      <3>5. CASE f = "openclaw"
        <4>1. a = OpenClawApply(d, p) /\ b = OpenClawApply(a, p)  BY <3>5
        <4> HIDE DEF a, b
        <4>3. Given(a, p) = Given(d, p) /\ Allowed(a) = Given(d, p)
          <5>1. Has(a, "allow") /\ Get(a, "allow") = Given(d, p)
            BY <4>1, OpenClawBuilt
          <5>2. Allowed(a) = Given(d, p)
            BY <5>1 DEF Allowed, Get
          <5> QED  BY <5>2, OfferFacts DEF Given
        <4>4. Has(a, "agents") <=> Has(d, "agents")
          BY <4>1, OpenClawBuilt
        <4> SUFFICES ASSUME NEW x PROVE (Has(b, x) <=> Has(a, x)) /\ Get(b, x) = Get(a, x)  OBVIOUS
        <4>5. CASE x \in {"block", "primary", "allow"}
          BY <4>1, <4>3, <4>5, OpenClawBuilt
        <4>6. CASE x = "agent"
          <5>1. CASE Has(d, "agents") /\ p.extra
            BY <4>1, <4>4, <4>6, <5>1, OpenClawBuilt
          <5>2. CASE Has(d, "agents") /\ ~p.extra
            <6>1. Get(a, "agent") \notin Ours
              BY <4>1, <5>2, OpenClawBuilt DEF Ours, Models
            <6> QED  BY <4>1, <4>4, <4>6, <5>2, <6>1, OpenClawBuilt
          <5>3. CASE ~Has(d, "agents")
            BY <4>1, <4>4, <4>6, <5>3, OpenClawBuilt
          <5> QED  BY <5>1, <5>2, <5>3
        <4>7. CASE x \notin {"block", "primary", "allow", "agent"}
          BY <4>1, <4>7, OpenClawBuilt
        <4> QED  BY <4>5, <4>6, <4>7
      <3> QED  BY <3>1, <3>2, <3>3, <3>4, <3>5 DEF PlainFiles
    <2> QED  BY <2>1, <2>2, SameDocs
  <1> QED  BY <1>1, <1>2

\* Where the model applied shows, if it is chosen among two.

\* After an apply the tool uses what the body asked for, and there is a file to use.
LEMMA AppliedUses ==
  ASSUME NEW f \in PlainFiles, NEW d, NEW p, Offer(p)
  PROVE  /\ Uses(f, Apply(f, d, p), p)
         /\ (f = "hermesEnv" => p.key) => Apply(f, d, p) # Blank
  <1> DEFINE a == Apply(f, d, p)
  <1>1. f = "openclaw" => Has(a, "primary") /\ Get(a, "primary") = Main(p)
    BY Putting, Dropping DEF Apply, OpenClawApply
  <1>2. f = "opencode" /\ p.active = "m2" => Has(a, "model") /\ Get(a, "model") = "m2"
    BY Putting DEF Apply, OpencodeApply
  <1>3. Uses(f, a, p)
    BY ApplyTwice, <1>1, <1>2 DEF Uses, PlainFiles, Get
  <1>4. (f = "hermesEnv" => p.key) => \E k : Has(a, k)
    <2> USE Putting, Writing, Dropping DEF Apply
    <2>1. CASE f \in {"claude", "codex", "codexAuth", "cline", "vscode", "hermes", "hermesEnv"}
      BY <2>1 DEF ClaudeApply, CodexApply, CodexAuthApply, ClineApply, VsCodeApply, HermesApply,
                  HermesEnvApply
    <2>2. CASE f \in {"clineSecrets", "kilo", "jcodeEnv"}
      <3>1. Has(a, "key")  BY <2>2 DEF KeyApply
      <3> QED  BY <3>1
    <2>3. CASE f \in {"deepseek", "cowork"}
      <3>1. Has(a, "key")  BY <2>3 DEF DeepSeekApply, CoworkApply
      <3> QED  BY <3>1
    <2>4. CASE f \in {"jcode", "agentModels", "opencode"}
      <3>1. f = "opencode" => \E v : a = Put(Write(d, {"block", "explorer"}, "ours"), "model", v)
        BY DEF OpencodeApply
      <3>2. f # "opencode" => a = Put(d, "block", "ours")
        BY <2>4 DEF JcodeApply, AgentModelsApply
      <3> HIDE DEF a
      <3>3. Has(a, "block") BY <2>4, <3>1, <3>2
      <3> QED  BY <3>3
    <2>5. CASE f = "openclaw"
      BY <2>5, <1>1
    <2> QED  BY <2>1, <2>2, <2>3, <2>4, <2>5 DEF PlainFiles
  <1> QED  BY <1>3, <1>4, BlankHasNone

\* What it takes for a file to have something of the router's left, path by path.
LEMMA WhatIsLeft ==
  ASSUME NEW f \in PlainFiles, NEW d, LeftOver(f, d)
  PROVE  \/ \E m \in Allowed(d) \cap Marks : <<"allow", m>> \notin StaysBehind(f)
         \/ \E k : /\ k # "allow" /\ Get(d, k) \in Marks
                   /\ <<k, Get(d, k)>> \notin StaysBehind(f) /\ ~LeftWith(f, d, k)
  <1>1. \A k \in DOMAIN d : d[k] = Get(d, k)
    BY DEF Get, Has
  <1>2. f \notin {"copilot", "droid", "grok"}
    BY DEF PlainFiles
  <1>3. CASE \E m \in Allowed(d) \cap Marks : <<"allow", m>> \notin StaysBehind(f)
    BY <1>3
  <1>4. CASE \E k \in DOMAIN d \ {"allow"} :
                <<k, d[k]>> \in ({k} \X Marks) \ StaysBehind(f) /\ ~LeftWith(f, d, k)
    <2>1. PICK k \in DOMAIN d \ {"allow"} :
                <<k, d[k]>> \in ({k} \X Marks) \ StaysBehind(f) /\ ~LeftWith(f, d, k)
      BY <1>4
    <2>2. d[k] \in Marks
      BY <2>1
    <2> QED  BY <1>1, <2>1, <2>2
  <1> QED  BY <1>2, <1>3, <1>4 DEF LeftOver

\* After a revoke nothing of the router's is left in the file but what is named.
LEMMA RevokedIsClean ==
  ASSUME NEW f \in PlainFiles, NEW d, DocInv(f, d)
  PROVE  ~LeftOver(f, Revoke(f, d))
  <1>1. PICK g : g = Revoke(f, d)  OBVIOUS
  <1>2. DocInv(f, g)
    BY <1>1, RevokeKeepsDocs
  <1>3. \A m \in Allowed(g) \cap Marks : <<"allow", m>> \in StaysBehind(f)
    <2>1. CASE f # "openclaw"
      BY <1>2, <2>1 DEF DocInv, Allowed
    <2>2. CASE f = "openclaw"
      <3>1. Allowed(g) \cap Models = {}
        <4>1. g = OpenClawRevoke(d)
          BY <1>1, <2>2 DEF Revoke
        <4> QED  BY ONLY <4>1, OpenClawRevoked
      <3>2. Allowed(g) \cap Marks \subseteq Models \cup {"9router"}
        BY <1>2, <2>2 DEF DocInv
      <3>3. <<"allow", "9router">> \in StaysBehind(f)
        BY <2>2 DEF StaysBehind
      <3> QED  BY <3>1, <3>2, <3>3
    <2> QED  BY <2>1, <2>2
  <1>4. ASSUME NEW k, k # "allow", Get(g, k) \in Marks
        PROVE  <<k, Get(g, k)>> \in StaysBehind(f) \/ LeftWith(f, g, k)
    <2>1. MayHold(f, k, Get(g, k))
      BY <1>2, <1>4 DEF DocInv
    <2> USE Putting, Writing, Dropping DEF Revoke
    <2>2. CASE f \in {"codexAuth", "clineSecrets", "jcodeEnv", "vscode", "hermes", "jcode", "cowork"}
      BY <1>1, <1>4, <2>1, <2>2 DEF MayHold, Marks, Ours, Models, CodexAuthRevoke, ClineSecretsRevoke,
         JcodeEnvRevoke, VsCodeRevoke, HermesRevoke, JcodeRevoke, CoworkRevoke
    <2>3. CASE f = "claude"
      <3>1. k = "onboarded" /\ Get(g, k) = "ours"
        BY <1>1, <1>4, <2>1, <2>3 DEF MayHold, Marks, Ours, Models, ClaudeRevoke
      <3> QED  BY <2>3, <3>1 DEF StaysBehind
    <2>4. CASE f = "kilo"
      <3>1. k = "9router" /\ Get(g, k) = "9router"
        BY <1>1, <1>4, <2>1, <2>4 DEF MayHold, Marks, Ours, Models, KiloRevoke
      <3> QED  BY <2>4, <3>1 DEF StaysBehind
    <2>5. CASE f = "hermesEnv"
      <3>1. k = "key" /\ Get(g, k) = "ours"
        BY <2>1, <2>5 DEF MayHold
      <3> QED  BY <2>5, <3>1 DEF StaysBehind
    <2>6. CASE f = "agentModels"
      <3>1. k = "legacy" /\ Get(g, k) = "9router"
        BY <1>1, <1>4, <2>1, <2>6 DEF MayHold, Marks, Ours, Models, AgentModelsRevoke
      <3> QED  BY <2>6, <3>1 DEF StaysBehind
    <2>7. CASE f = "opencode"
      <3>1. k \in {"model", "explorer"} /\ Get(g, k) = "9router"
        BY <1>1, <1>4, <2>1, <2>7 DEF MayHold, Marks, Ours, Models, OpencodeRevoke
      <3> QED  BY <2>7, <3>1 DEF StaysBehind
    <2>8. CASE f = "openclaw"
      <3>0. g = OpenClawRevoke(d)
        BY <1>1, <2>8
      <3>1. Get(g, k) = IF \/ k \in {"block", "legacy"}
                           \/ k \in {"primary", "agent"} /\ Get(d, k) \in Ours
                        THEN "none" ELSE Get(d, k)
        BY ONLY <1>4, <3>0, OpenClawRevoked
      <3>2. k \in {"primary", "agent"} /\ Get(g, k) = "9router"
        BY <1>4, <2>1, <2>8, <3>1 DEF MayHold, Marks, Ours, Models
      <3> QED  BY <2>8, <3>2 DEF StaysBehind
    <2>9. CASE f = "codex"
      <3>1. k \in {"model", "model_provider"} /\ Get(d, "model_provider") \notin {"ours", "9router"}
        BY <1>1, <1>4, <2>1, <2>9 DEF MayHold, Marks, Ours, Models, CodexRevoke
      <3>2. k = "model"
        BY <1>1, <1>4, <2>1, <2>9, <3>1 DEF MayHold, CodexRevoke
      <3>3. Get(g, "model_provider") \in {"user", "user2"}
        BY <1>1, <1>2, <1>4, <2>9, <3>1, <3>2 DEF DocInv, CodexRevoke
      <3> QED  BY <2>9, <3>2, <3>3 DEF LeftWith, LooksAt
    <2>10. CASE f = "cline"
      <3>1. k # "act"
        BY <1>1, <1>4, <2>1, <2>10 DEF MayHold, Marks, Ours, Models, ClineRevoke
      <3>2. Get(g, "act") \in {"openai", "user", "user2"}
        BY <1>2, <1>4, <2>1, <2>10, <3>1 DEF DocInv, MayHold
      <3>3. Get(g, "act") # "openai"
        BY <1>1, <2>10 DEF ClineRevoke
      <3> QED  BY <2>10, <3>1, <3>2, <3>3 DEF LeftWith, LooksAt
    <2>11. CASE f = "deepseek"
      <3>1. Get(g, "provider") # "openai" /\ Get(g, "url") # "local"
        BY <1>1, <2>11 DEF DeepSeekRevoke
      <3>2. k \in {"key", "model"} \/ (k = "url" /\ Get(g, "url") = "ours")
        <4>1. PICK v : v = Get(g, k)  OBVIOUS
        <4>2. MayHold("deepseek", k, v)
          BY <2>1, <2>11, <4>1
        <4>3. \/ k \in {"key", "model"}
              \/ k = "provider" /\ v = "openai"
              \/ k = "url" /\ v \in {"ours", "local"}
          BY ONLY <4>2 DEF MayHold
        <4> QED  BY <3>1, <4>1, <4>3
      <3>3. k \in {"key", "model"} => Get(g, "url") \in {"ours", "user", "user2"}
        BY <1>2, <1>4, <2>11, <3>1 DEF DocInv
      <3> QED  BY <2>11, <3>2, <3>3 DEF LeftWith, LooksAt
    <2> QED  BY <2>2, <2>3, <2>4, <2>5, <2>6, <2>7, <2>8, <2>9, <2>10, <2>11 DEF PlainFiles
  <1> QED  BY <1>1, <1>3, <1>4, WhatIsLeft

---------------------------------------------------------------------------
(* Requests and files. *)

Stages == {"copy", "copying", "write", "writing", "rename", "remove"}
ReqFields == {"at", "dir", "p", "i", "last", "new", "written", "warned"}

\* Everything is about the files of one tool, and a request is at one of them.
CliShape ==
    /\ tool \in Tools
    /\ DOMAIN disk = Files /\ DOMAIN backup = Files /\ DOMAIN tmp = Files
    /\ {"original", "had", "cut", "halfRevoked", "chosen"} \subseteq DOMAIN past
    /\ DOMAIN past.original = Files /\ DOMAIN past.had = Files /\ past.halfRevoked \in BOOLEAN
    /\ ReqFields \subseteq DOMAIN req /\ req.at \in {"idle", "read"} \cup Stages
    /\ req.dir \in {"apply", "revoke"} /\ req.i \in 1..Len(FilesOf[tool])
    /\ Offer(req.p) /\ (req.at = "idle" => req.dir = "apply")
    /\ {"calls", "faults", "edits"} \subseteq DOMAIN spent /\ spent.edits \in Nat

\* What FilesOf says, for a tool of either number of files.
LEMMA FilesAre ==
  ASSUME NEW t \in DOMAIN FilesOf
  PROVE  /\ Len(FilesOf[t]) \in {1, 2} /\ DOMAIN FilesOf[t] = 1..Len(FilesOf[t])
         /\ ToSet(FilesOf[t]) = {FilesOf[t][i] : i \in 1..Len(FilesOf[t])}
         /\ Len(FilesOf[t]) = 2 => FilesOf[t][1] # FilesOf[t][2]
         /\ t \notin {"copilot", "droid", "grok"} => ToSet(FilesOf[t]) \subseteq PlainFiles
         /\ t # "openclaw" => "openclaw" \notin ToSet(FilesOf[t]) /\ "agentModels" \notin ToSet(FilesOf[t])
         /\ t = "openclaw" => FilesOf[t] = <<"openclaw", "agentModels">>
         /\ t \in DOMAIN KeyOf =>
               FilesOf[t] = <<t, KeyOf[t]>> /\ {t, KeyOf[t]} \cap BestEffort = {} /\ t # "openclaw"
  <1>1. /\ t \in {"claude", "copilot", "opencode", "droid", "deepseek", "grok", "cowork"}
             => FilesOf[t] = <<t>>
        /\ FilesOf["codex"] = <<"codex", "codexAuth">> /\ FilesOf["cline"] = <<"cline", "clineSecrets">>
        /\ FilesOf["kilo"] = <<"kilo", "vscode">> /\ FilesOf["hermes"] = <<"hermes", "hermesEnv">>
        /\ FilesOf["jcode"] = <<"jcode", "jcodeEnv">>
        /\ FilesOf["openclaw"] = <<"openclaw", "agentModels">>
    BY DEF FilesOf
  <1>2. t \in {"claude", "copilot", "opencode", "droid", "deepseek", "grok", "cowork", "codex", "cline",
               "kilo", "hermes", "jcode", "openclaw"}
    BY DEF FilesOf
  <1>3. /\ Len(FilesOf[t]) \in {1, 2} /\ DOMAIN FilesOf[t] = 1..Len(FilesOf[t])
        /\ Len(FilesOf[t]) = 2 => FilesOf[t][1] # FilesOf[t][2]
    <2>1. CASE t \in {"claude", "copilot", "opencode", "droid", "deepseek", "grok", "cowork"}
      BY <1>1, <2>1
    <2>2. CASE t \in {"codex", "cline", "kilo", "hermes", "jcode", "openclaw"}
      <3>1. PICK a, b : FilesOf[t] = <<a, b>> /\ a # b
        BY <1>1, <2>2
      <3> HIDE DEF FilesOf
      <3> QED  BY <3>1
    <2> QED  BY <1>2, <2>1, <2>2
  <1>4. ToSet(FilesOf[t]) = {FilesOf[t][i] : i \in 1..Len(FilesOf[t])}
    BY <1>3 DEF ToSet
  <1>5. t \notin {"copilot", "droid", "grok"} => \A i \in 1..Len(FilesOf[t]) : FilesOf[t][i] \in PlainFiles
    BY <1>1, <1>2 DEF PlainFiles
  <1>6. ASSUME t # "openclaw", NEW i \in 1..Len(FilesOf[t])
        PROVE  FilesOf[t][i] \notin {"openclaw", "agentModels"}
    <2>1. CASE t \in {"claude", "copilot", "opencode", "droid", "deepseek", "grok", "cowork"}
      BY <1>1, <1>6, <2>1
    <2>2. CASE t \in {"codex", "cline", "kilo", "hermes", "jcode"}
      BY <1>1, <1>6, <2>2
    <2> QED  BY <1>2, <1>6, <2>1, <2>2
  <1>7. t \in DOMAIN KeyOf =>
            FilesOf[t] = <<t, KeyOf[t]>> /\ {t, KeyOf[t]} \cap BestEffort = {} /\ t # "openclaw"
    BY <1>1 DEF KeyOf, BestEffort
  <1> QED  BY <1>1, <1>3, <1>4, <1>5, <1>6, <1>7

\* The tools examined are those of writer_for.
LEMMA ToolsHaveFiles == tool \in Tools => tool \in DOMAIN FilesOf
  BY CliToolsAssumption DEF CliToolsAssumption

\* The file a request is at is one of its tool's.
LEMMA FileIsOne == CliShape => File \in Files
  BY FilesAre, ToolsHaveFiles DEF CliShape, File, Files

\* The request r has dealt with its file: the next one follows, or the answer.
NextFile(r) ==
    /\ Continues(r) /\ answer' = answer
    /\ req' = [r EXCEPT !.warned = @ \cup Skipped(r), !.i = @ + 1, !.at = "read"]
Answered(r) ==
    /\ ~Continues(r) /\ req' = Idle
    /\ answer' = [kind |-> IF r.dir = "revoke" /\ ~r.written THEN "nothing" ELSE "ok",
                  dir |-> r.dir, p |-> r.p, warned |-> r.warned \cup Skipped(r)]

\* The end of the loop of Writer::run: the next file, or the answer.
LEMMA AdvanceIs ==
  ASSUME NEW r, ReqFields \subseteq DOMAIN r, Advance(r)
  PROVE  NextFile(r) \/ Answered(r)
  <1> DEFINE s == [r EXCEPT !.warned = @ \cup Skipped(r)]
  <1>1. /\ s.i = r.i /\ s.last = r.last /\ s.dir = r.dir /\ s.p = r.p /\ s.written = r.written
        /\ s.warned = r.warned \cup Skipped(r)
    BY DEF ReqFields
  <1>2. Continues(s) <=> Continues(r)
    BY <1>1 DEF Continues
  <1>3. IF Continues(s) THEN req' = [s EXCEPT !.i = @ + 1, !.at = "read"] /\ UNCHANGED answer
        ELSE Finish(IF s.dir = "revoke" /\ ~s.written THEN "nothing" ELSE "ok", s)
    BY DEF Advance
  <1>4. CASE Continues(r)
    BY <1>2, <1>3, <1>4 DEF NextFile
  <1>5. CASE ~Continues(r)
    <2>1. Finish(IF s.dir = "revoke" /\ ~s.written THEN "nothing" ELSE "ok", s)
      BY <1>2, <1>3, <1>5
    <2> HIDE DEF s
    <2>2. req' = Idle /\ answer' = [kind |-> IF s.dir = "revoke" /\ ~s.written THEN "nothing" ELSE "ok",
                                    dir |-> s.dir, p |-> s.p, warned |-> s.warned]
      BY <2>1 DEF Finish, Reply
    <2> QED  BY <1>1, <1>5, <2>2 DEF Answered
  <1> QED  BY <1>4, <1>5

\* Where the request is afterwards.
After(r) ==
    /\ ReqFields \subseteq DOMAIN req' /\ req'.i \in 1..Len(FilesOf[tool]) /\ Offer(req'.p)
    /\ \/ /\ Continues(r) /\ req'.at = "read" /\ req'.i = r.i + 1 /\ req'.dir = r.dir /\ req'.p = r.p
          /\ req'.warned = r.warned \cup Skipped(r) /\ answer' = answer
       \/ /\ ~Continues(r) /\ req' = Idle /\ req'.at = "idle" /\ req'.dir = "apply" /\ req'.i = 1
          /\ answer'.kind \in {"ok", "nothing"} /\ answer'.dir = r.dir /\ answer'.p = r.p
          /\ answer'.warned = r.warned \cup Skipped(r)
          /\ r.dir = "apply" => answer'.kind = "ok"

\* The fields of no request.
LEMMA IdleIs ==
  /\ ReqFields \subseteq DOMAIN Idle /\ Idle.at = "idle" /\ Idle.dir = "apply" /\ Idle.i = 1
  /\ Idle.p = NoPayload /\ Offer(NoPayload) /\ \A t \in DOMAIN FilesOf : 1 \in 1..Len(FilesOf[t])
  BY FilesAre DEF Idle, NoPayload, Offer, ReqFields

\* Where the request is afterwards: at a file its tool has, or over.
LEMMA AdvanceLeads ==
  ASSUME CliShape, NEW r, ReqFields \subseteq DOMAIN r, r.i = req.i, Offer(r.p), Advance(r)
  PROVE  After(r)
  <1>1. CASE NextFile(r)
    <2>1. req' = [r EXCEPT !.warned = @ \cup Skipped(r), !.i = @ + 1, !.at = "read"]
      BY <1>1 DEF NextFile
    <2>2. /\ ReqFields \subseteq DOMAIN req' /\ req'.at = "read" /\ req'.i = r.i + 1 /\ req'.dir = r.dir
          /\ req'.p = r.p /\ req'.warned = r.warned \cup Skipped(r)
      BY <2>1 DEF ReqFields
    <2>3. r.i < Len(FilesOf[tool]) /\ r.i \in 1..Len(FilesOf[tool]) /\ Len(FilesOf[tool]) \in {1, 2}
      BY <1>1, FilesAre, ToolsHaveFiles DEF NextFile, Continues, CliShape
    <2>4. req'.i \in 1..Len(FilesOf[tool])
      BY <2>2, <2>3
    <2> QED  BY <1>1, <2>2, <2>4 DEF After, NextFile
  <1>2. CASE Answered(r)
    <2>1. tool \in DOMAIN FilesOf
      BY ToolsHaveFiles DEF CliShape
    <2>2. req' = Idle /\ ReqFields \subseteq DOMAIN req' /\ req'.at = "idle" /\ req'.dir = "apply"
          /\ req'.i = 1 /\ req'.i \in 1..Len(FilesOf[tool]) /\ Offer(req'.p)
      BY <1>2, <2>1, IdleIs DEF Answered
    <2>3. /\ answer'.kind = IF r.dir = "revoke" /\ ~r.written THEN "nothing" ELSE "ok"
          /\ answer'.dir = r.dir /\ answer'.p = r.p /\ answer'.warned = r.warned \cup Skipped(r)
      BY <1>2 DEF Answered
    <2> QED  BY <1>2, <2>2, <2>3 DEF After, Answered
  <1> QED  BY <1>1, <1>2, AdvanceIs

\* A request that fails, or whose process stops.
Ended ==
    /\ ReqFields \subseteq DOMAIN req' /\ req'.i \in 1..Len(FilesOf[tool]) /\ Offer(req'.p)
    /\ req' = Idle /\ req'.at = "idle" /\ req'.dir = "apply" /\ req'.i = 1
    /\ answer'.kind \in {"none", "error", "rejected"}

\* A request that fails is over.
LEMMA FinishLeads ==
  ASSUME CliShape, NEW k \in {"error", "rejected"}, NEW r, Finish(k, r)
  PROVE  Ended
  <1>1. tool \in DOMAIN FilesOf
    BY ToolsHaveFiles DEF CliShape
  <1>2. req' = Idle /\ answer'.kind = k
    BY DEF Finish, Reply
  <1> QED  BY <1>1, <1>2, IdleIs DEF Ended

\* What a request may remember of its file on the way: the reading of it, and a
\* warning about it.
Noted(r) ==
    /\ ReqFields \subseteq DOMAIN r /\ r.i = req.i /\ r.dir = req.dir /\ r.p = req.p
    /\ Offer(r.p)

\* What Target::run notes on the way changes neither the body nor the place.
LEMMA NotesKept ==
  ASSUME CliShape
  PROVE  /\ LET r == [req EXCEPT !.warned = @ \cup {File}] IN
               Noted(r) /\ r.last = req.last /\ r.warned = req.warned \cup {File}
         /\ \A v : LET r == [req EXCEPT !.last = v] IN
               Noted(r) /\ r.last = v /\ r.warned = req.warned
         /\ \A v : LET r == [req EXCEPT !.last = v, !.written = TRUE] IN
               Noted(r) /\ r.last = v /\ r.warned = req.warned
  BY DEF CliShape, Noted, ReqFields

---------------------------------------------------------------------------
(* The steps. *)

\* A file is passed over, or the request fails at it.
Unwritten == UNCHANGED <<tool, disk, backup>>
PassedOver ==
    /\ File \in BestEffort
    /\ \E r : Noted(r) /\ r.last = req.last /\ r.warned = req.warned \cup {File} /\ Advance(r)
GivenUp == File \notin BestEffort /\ Ended /\ past'.halfRevoked = (past.halfRevoked \/ req.dir = "revoke")

SamePast ==
    /\ {"original", "had", "cut", "halfRevoked", "chosen"} \subseteq DOMAIN past'
    /\ past'.original = past.original /\ past'.had = past.had

\* The file holds what it should, and nothing is written.
AsWanted ==
    /\ disk[File].kind \notin {"garbage", "unnamed"} /\ past' = past
    /\ \/ /\ req.dir = "revoke" /\ disk[File] = Nothing
          /\ \E r : Noted(r) /\ r.last = Nothing /\ r.warned = req.warned /\ Advance(r)
       \/ /\ ~(req.dir = "revoke" /\ disk[File] = Nothing) /\ Merged(disk[File]) = disk[File].doc
          /\ \E r : Noted(r) /\ r.last = Doc(disk[File].doc) /\ r.warned = req.warned /\ Advance(r)

\* The request keeps its place.
Stays ==
    /\ ReqFields \subseteq DOMAIN req' /\ req'.i = req.i /\ req'.dir = req.dir /\ req'.p = req.p
    /\ req'.warned = req.warned /\ answer' = answer /\ past' = past

\* It will be written, or removed.
ToBeWritten ==
    /\ disk[File].kind \notin {"garbage", "unnamed"} /\ Stays
    /\ ~(req.dir = "revoke" /\ disk[File] = Nothing)
    /\ req'.new = Merged(disk[File])
    /\ req'.at = IF req.dir = "revoke" /\ File \in DeletedWhenEmpty /\ req'.new = Blank THEN "remove"
                 ELSE IF BackupWanted THEN "copy" ELSE "write"

\* The outcomes of Target::run before its first write.
LEMMA ReadIs ==
  ASSUME CliShape, Read
  PROVE  /\ req.at = "read" /\ UNCHANGED <<tool, disk, backup, tmp, spent>>
         /\ \/ disk[File].kind \in {"garbage", "unnamed"} /\ past' = past /\ PassedOver
            \/ disk[File].kind \in {"garbage", "unnamed"} /\ SamePast /\ past'.cut = past.cut /\ GivenUp
            \/ AsWanted
            \/ ToBeWritten
  <1>1. req.at = "read" /\ UNCHANGED <<tool, disk, backup, tmp, spent>>
    BY DEF Read
  <1>2. CASE disk[File].kind \in {"garbage", "unnamed"}
    <2>1. TargetFails(req)
      BY <1>2 DEF Read, Nothing
    <2>2. CASE File \in BestEffort
      <3>1. Advance([req EXCEPT !.warned = @ \cup {File}]) /\ past' = past
        BY <2>1, <2>2 DEF TargetFails
      <3> QED  BY <1>1, <1>2, <2>2, <3>1, NotesKept DEF PassedOver
    <2>3. CASE File \notin BestEffort
      <3>1. Finish("error", req) /\ past' = [past EXCEPT !.halfRevoked = @ \/ req.dir = "revoke"]
        BY <2>1, <2>3 DEF TargetFails
      <3>2. /\ past'.halfRevoked = (past.halfRevoked \/ req.dir = "revoke") /\ SamePast
            /\ past'.cut = past.cut
        BY <3>1 DEF CliShape, SamePast
      <3> QED  BY <1>1, <1>2, <2>3, <3>1, <3>2, FinishLeads DEF GivenUp
    <2> QED  BY <2>2, <2>3
  <1>3. CASE disk[File].kind \notin {"garbage", "unnamed"} /\ req.dir = "revoke" /\ disk[File] = Nothing
    <2>1. Advance([req EXCEPT !.last = Nothing]) /\ past' = past
      BY <1>3 DEF Read
    <2> QED  BY <1>1, <1>3, <2>1, NotesKept DEF AsWanted
  <1>4. CASE disk[File].kind \notin {"garbage", "unnamed"} /\ ~(req.dir = "revoke" /\ disk[File] = Nothing)
    <2> DEFINE new == Merged(disk[File])
    <2>1. /\ past' = past
          /\ IF new = disk[File].doc
             THEN Advance([req EXCEPT !.last = Doc(new)])
             ELSE /\ UNCHANGED answer
                  /\ req' = [req EXCEPT
                       !.new = new,
                       !.at = IF req.dir = "revoke" /\ File \in DeletedWhenEmpty /\ new = Blank
                              THEN "remove" ELSE IF BackupWanted THEN "copy" ELSE "write"]
      BY <1>4 DEF Read
    <2>2. CASE new = disk[File].doc
      <3>1. Advance([req EXCEPT !.last = Doc(disk[File].doc)])
        BY <2>1, <2>2
      <3> QED  BY <1>1, <1>4, <2>1, <2>2, <3>1, NotesKept DEF AsWanted
    <2>3. CASE new # disk[File].doc
      <3>1. answer' = answer
        BY <2>1, <2>3
      <3>2. PICK at : at = IF req.dir = "revoke" /\ File \in DeletedWhenEmpty /\ new = Blank
                           THEN "remove" ELSE IF BackupWanted THEN "copy" ELSE "write"
        OBVIOUS
      <3>3. req' = [req EXCEPT !.new = new, !.at = at]
        BY <2>1, <2>3, <3>2
      <3> HIDE DEF new
      <3>4. /\ ReqFields \subseteq DOMAIN req' /\ req'.i = req.i /\ req'.dir = req.dir /\ req'.p = req.p
            /\ req'.warned = req.warned /\ req'.new = new /\ req'.at = at
        BY <3>3 DEF CliShape, ReqFields
      <3>5. Stays /\ req'.new = Merged(disk[File])
        BY <2>1, <3>1, <3>4 DEF Stays, new
      <3> QED  BY <1>1, <1>4, <3>2, <3>4, <3>5 DEF ToBeWritten, new
    <2> QED  BY <2>2, <2>3
  <1> QED  BY <1>2, <1>3, <1>4

\* From the copy to the rename.
MovesOn(from, to) == req.at = from /\ req'.at = to /\ req'.new = req.new /\ Stays

\* A step between the copy and the rename keeps the rest of the request.
LEMMA StepIs ==
  ASSUME CliShape, NEW from, NEW to, Step(from, to), answer' = answer, past' = past
  PROVE  MovesOn(from, to)
  BY DEF Step, MovesOn, CliShape, ReqFields, Stays

\* The four steps of back_up_once and write_atomically before the rename.
LEMMA MovingIs ==
  ASSUME CliShape
  PROVE  /\ StartCopy => /\ MovesOn("copy", "copying") /\ UNCHANGED <<tool, disk, tmp, spent>>
                         /\ backup' = [backup EXCEPT ![File] = Torn]
         /\ FinishCopy => /\ MovesOn("copying", "write") /\ UNCHANGED <<tool, disk, tmp, spent>>
                          /\ backup' = [backup EXCEPT ![File] = disk[File]]
         /\ StartWrite => /\ MovesOn("write", "writing") /\ UNCHANGED <<tool, disk, backup, spent>>
                          /\ tmp' = [tmp EXCEPT ![File] = Torn]
         /\ FinishWrite => /\ MovesOn("writing", "rename") /\ UNCHANGED <<tool, disk, backup, spent>>
                           /\ tmp' = [tmp EXCEPT ![File] = Doc(req.new)]
  BY StepIs DEF StartCopy, FinishCopy, StartWrite, FinishWrite

\* The file gets a new content, or goes.
Lands(c, last) ==
    /\ disk' = [disk EXCEPT ![File] = c] /\ tool' = tool /\ backup' = backup /\ spent' = spent
    /\ DOMAIN tmp' = DOMAIN tmp
    /\ past' = [past EXCEPT !.original[File] = IF @ = Torn THEN disk[File] ELSE @]
    /\ \E r : Noted(r) /\ r.last = last /\ r.warned = req.warned /\ Advance(r)

\* The rename and the removal put a content on disk and lead on.
LEMMA LandingIs ==
  ASSUME CliShape
  PROVE  /\ Rename => req.at = "rename" /\ Lands(tmp[File], tmp[File])
         /\ Unlink => req.at = "remove" /\ Lands(Nothing, Doc(Blank))
  BY NotesKept DEF Rename, Unlink, Lands, Changed

\* A failed disk operation and a stopped process touch no file and no backup.
LEMMA FaultIs ==
  ASSUME CliShape
  PROVE  /\ IoFails => /\ req.at # "idle" /\ Unwritten /\ SamePast /\ past'.cut = Cut
                       /\ \/ PassedOver /\ past'.halfRevoked = past.halfRevoked
                          \/ GivenUp
                       /\ DOMAIN tmp' = DOMAIN tmp
         /\ Crash => /\ req.at # "idle" /\ Unwritten /\ SamePast /\ past'.cut = Cut /\ tmp' = tmp
                     /\ Ended /\ past'.halfRevoked = (past.halfRevoked \/ req.dir = "revoke")
         /\ IoFails \/ Crash => {"calls", "faults", "edits"} \subseteq DOMAIN spent' /\ spent'.edits = spent.edits
  <1>1. PICK cut : cut = Cut  OBVIOUS
  <1>2. IoFails \/ Crash => {"calls", "faults", "edits"} \subseteq DOMAIN spent' /\ spent'.edits = spent.edits
    BY DEF IoFails, Crash, Count, CliShape
  <1>3. ASSUME IoFails
        PROVE  /\ req.at # "idle" /\ Unwritten /\ SamePast /\ past'.cut = Cut
               /\ \/ PassedOver /\ past'.halfRevoked = past.halfRevoked
                  \/ GivenUp
               /\ DOMAIN tmp' = DOMAIN tmp
    <2>1. req.at # "idle" /\ Unwritten /\ DOMAIN tmp' = DOMAIN tmp
      BY <1>3 DEF IoFails, Unwritten
    <2>2. CASE File \in BestEffort
      <3>1. past' = [past EXCEPT !.cut = cut] /\ Advance([req EXCEPT !.warned = @ \cup {File}])
        BY <1>1, <1>3, <2>2 DEF IoFails
      <3>2. SamePast /\ past'.cut = cut /\ past'.halfRevoked = past.halfRevoked
        BY <3>1 DEF CliShape, SamePast
      <3> QED  BY <1>1, <2>1, <2>2, <3>1, <3>2, NotesKept DEF PassedOver
    <2>3. CASE File \notin BestEffort
      <3>1. /\ past' = [past EXCEPT !.cut = cut, !.halfRevoked = @ \/ req.dir = "revoke"]
            /\ Finish("error", req)
        BY <1>1, <1>3, <2>3 DEF IoFails
      <3>2. /\ SamePast /\ past'.cut = cut
            /\ past'.halfRevoked = (past.halfRevoked \/ req.dir = "revoke")
        BY <3>1 DEF CliShape, SamePast
      <3> QED  BY <1>1, <2>1, <2>3, <3>1, <3>2, FinishLeads DEF GivenUp
    <2> QED  BY <2>2, <2>3
  <1>4. ASSUME Crash
        PROVE  /\ req.at # "idle" /\ Unwritten /\ SamePast /\ past'.cut = Cut /\ tmp' = tmp
               /\ Ended /\ past'.halfRevoked = (past.halfRevoked \/ req.dir = "revoke")
    <2>1. req.at # "idle" /\ Unwritten /\ tmp' = tmp /\ req' = Idle /\ answer' = NoAnswer
      BY <1>4 DEF Crash, Unwritten
    <2>2. past' = [past EXCEPT !.cut = cut, !.halfRevoked = @ \/ req.dir = "revoke"]
      BY <1>1, <1>4 DEF Crash
    <2>3. /\ SamePast /\ past'.cut = cut
          /\ past'.halfRevoked = (past.halfRevoked \/ req.dir = "revoke")
      BY <2>2 DEF CliShape, SamePast
    <2>4. tool \in DOMAIN FilesOf
      BY ToolsHaveFiles DEF CliShape
    <2>5. Ended
      BY <2>1, <2>4, IdleIs DEF Ended, NoAnswer
    <2> QED  BY <1>1, <2>1, <2>3, <2>5
  <1> QED  BY <1>2, <1>3, <1>4

\* mutate_tool turns a request down, or starts at the first file.
LEMMA RequestIs ==
  ASSUME CliShape, NEW dir \in {"apply", "revoke"}, NEW p, Offer(p), Request(dir, p)
  PROVE  /\ req.at = "idle" /\ UNCHANGED <<tool, disk, backup, tmp, past>>
         /\ {"calls", "faults", "edits"} \subseteq DOMAIN spent' /\ spent'.edits = spent.edits
         /\ \/ Ended /\ answer'.kind = "rejected"
            \/ /\ ReqFields \subseteq DOMAIN req' /\ req'.at = "read" /\ req'.dir = dir /\ req'.p = p
               /\ req'.i = 1 /\ answer' = NoAnswer
  <1>1. /\ req.at = "idle" /\ UNCHANGED <<tool, disk, backup, tmp, past>>
        /\ {"calls", "faults", "edits"} \subseteq DOMAIN spent' /\ spent'.edits = spent.edits
    BY DEF Request, Count, CliShape
  <1>2. CASE dir = "apply" /\ ~Valid(p)
    <2>1. Finish("rejected", [Idle EXCEPT !.p = p])
      BY <1>2 DEF Request
    <2>2. answer'.kind = "rejected"
      BY <2>1 DEF Finish, Reply
    <2> QED  BY <1>1, <2>1, <2>2, FinishLeads
  <1>3. CASE ~(dir = "apply" /\ ~Valid(p))
    <2>1. req' = [Idle EXCEPT !.at = "read", !.dir = dir, !.p = p] /\ answer' = NoAnswer
      BY <1>3 DEF Request
    <2>2. /\ ReqFields \subseteq DOMAIN req' /\ req'.at = "read" /\ req'.dir = dir /\ req'.p = p
          /\ req'.i = 1
      BY <2>1 DEF Idle, ReqFields
    <2> QED  BY <1>1, <2>1, <2>2
  <1> QED  BY <1>2, <1>3

\* The user's edit of one file.
Edited(f, d) ==
    /\ disk[f].kind = "doc" /\ (req.at = "idle" \/ UserMayRace)
    /\ disk' = [disk EXCEPT ![f] = Doc(d)] /\ answer' = NoAnswer
    /\ UNCHANGED <<tool, backup, tmp, req>>
    /\ {"calls", "faults", "edits"} \subseteq DOMAIN spent' /\ spent'.edits = spent.edits + 1
    /\ {"original", "had", "cut", "halfRevoked", "chosen"} \subseteq DOMAIN past'
    /\ past'.original = past.original /\ past'.cut = past.cut
    /\ past'.halfRevoked = past.halfRevoked
    /\ past'.had = [past.had EXCEPT ![f] = IF past.original[f] = Torn THEN @ \cup {disk'[f]} ELSE @]

\* The user's edits replace a document by a document, and are counted.
LEMMA EditIs ==
  ASSUME CliShape, NEW f \in Files
  PROVE  /\ UserTweaks(f) => Edited(f, Tweak(f, disk[f].doc))
         /\ \A v \in {"user", "user2"} : UserChooses(f, v) =>
               /\ f \in DOMAIN Selections
               /\ \E k \in Selections[f] : Edited(f, Choose(f, disk[f].doc, k, v))
  <1>1. ASSUME NEW d, Edit(f, d)
        PROVE  /\ disk[f].kind = "doc" /\ (req.at = "idle" \/ UserMayRace)
               /\ disk' = [disk EXCEPT ![f] = Doc(d)] /\ answer' = NoAnswer
               /\ UNCHANGED <<tool, backup, tmp, req>>
               /\ {"calls", "faults", "edits"} \subseteq DOMAIN spent' /\ spent'.edits = spent.edits + 1
    BY <1>1 DEF Edit, Count, CliShape
  <1>2. PICK had : had = [past.had EXCEPT ![f] = IF past.original[f] = Torn THEN @ \cup {disk'[f]} ELSE @]
    OBVIOUS
  <1>3. Had(f) = [past EXCEPT !.had = had]
    BY <1>2 DEF Had, CliShape
  <1>4. ASSUME past' = Had(f) \/ \E c : past' = [Had(f) EXCEPT !.chosen = c]
        PROVE  /\ {"original", "had", "cut", "halfRevoked", "chosen"} \subseteq DOMAIN past'
               /\ past'.original = past.original /\ past'.cut = past.cut
               /\ past'.halfRevoked = past.halfRevoked /\ past'.had = had
    BY <1>3, <1>4 DEF CliShape
  <1>5. ASSUME UserTweaks(f) PROVE Edited(f, Tweak(f, disk[f].doc))
    <2>1. Edit(f, Tweak(f, disk[f].doc)) /\ past' = Had(f)
      BY <1>5 DEF UserTweaks
    <2> QED  BY <1>1, <1>2, <1>4, <2>1 DEF Edited
  <1>6. ASSUME NEW v \in {"user", "user2"}, UserChooses(f, v)
        PROVE  /\ f \in DOMAIN Selections
               /\ \E k \in Selections[f] : Edited(f, Choose(f, disk[f].doc, k, v))
    <2>1. f \in DOMAIN Selections
      BY <1>6 DEF UserChooses
    <2>2. PICK k \in Selections[f] : Edit(f, Choose(f, disk[f].doc, k, v))
      BY <1>6 DEF UserChooses
    <2>3. \E c : past' = [Had(f) EXCEPT !.chosen = c]
      BY <1>6 DEF UserChooses, Had
    <2> QED  BY <1>1, <1>2, <1>4, <2>1, <2>2, <2>3 DEF Edited
  <1> QED  BY <1>5, <1>6

\* AdvanceLeads, for what a request has noted of its file.
LEMMA NotedLeads ==
  ASSUME CliShape, NEW r, Noted(r), Advance(r)
  PROVE  After(r)
  BY AdvanceLeads DEF Noted

\* Every body a request may have is an offer.
LEMMA OffersAre == \A p \in Payloads \cup {NoPayload} : Offer(p)
  <1>1. Payloads \subseteq [models : {<<"m1">>, <<"m2">>, <<"m1", "m2">>},
                           active : {"none", "first", "m2"}, key : BOOLEAN, extra : BOOLEAN]
    BY DEF Payloads
  <1>2. \A p \in Payloads : Offer(p)
    BY <1>1 DEF Offer
  <1> QED  BY <1>2, IdleIs

\* What the next state is about.
SameShape ==
    /\ tool' = tool /\ DOMAIN disk' = DOMAIN disk /\ DOMAIN backup' = DOMAIN backup
    /\ DOMAIN tmp' = DOMAIN tmp
    /\ {"original", "had", "cut", "halfRevoked", "chosen"} \subseteq DOMAIN past'
    /\ DOMAIN past'.original = DOMAIN past.original /\ DOMAIN past'.had = DOMAIN past.had
    /\ past'.halfRevoked \in BOOLEAN
    /\ {"calls", "faults", "edits"} \subseteq DOMAIN spent' /\ spent'.edits \in Nat

\* The shape holds at the start.
LEMMA ShapeInitially == Init => CliShape
  <1> SUFFICES ASSUME Init PROVE CliShape  OBVIOUS
  <1>1. tool \in Tools /\ tool \in DOMAIN FilesOf
    BY ToolsHaveFiles DEF Init
  <1>2. DOMAIN disk = Files /\ DOMAIN backup = Files /\ DOMAIN tmp = Files
    BY DEF Init
  <1>3. PICK had, chosen :
            past = [original |-> [f \in Files |-> Torn], had |-> had, cut |-> {},
                    halfRevoked |-> FALSE, chosen |-> chosen] /\ had = [f \in Files |-> {disk[f]}]
    BY DEF Init
  <1>4. req = Idle /\ spent = [calls |-> 0, faults |-> 0, edits |-> 0]
    BY DEF Init
  <1> QED  BY <1>1, <1>2, <1>3, <1>4, IdleIs DEF CliShape

\* Every step keeps it.
LEMMA ShapeStep == CliShape /\ [Next]_vars => CliShape'
  <1> SUFFICES ASSUME CliShape, [Next]_vars PROVE CliShape'  OBVIOUS
  <1>1. tool \in DOMAIN FilesOf
    BY ToolsHaveFiles DEF CliShape
  <1>2. tool' = tool => Files' = Files
    BY DEF Files
  <1> DEFINE Placed ==
        /\ ReqFields \subseteq DOMAIN req' /\ req'.at \in {"idle", "read"} \cup Stages
        /\ req'.dir \in {"apply", "revoke"} /\ req'.i \in 1..Len(FilesOf[tool]) /\ Offer(req'.p)
        /\ req'.at = "idle" => req'.dir = "apply"
  <1>a. Ended => Placed
    BY DEF Ended
  <1>b. Stays /\ req'.at \in Stages => Placed
    BY DEF Stays, CliShape, Stages
  <1>c. ASSUME NEW r, Noted(r), Advance(r) PROVE Placed
    <2>1. After(r) /\ r.dir \in {"apply", "revoke"}
      BY <1>c, NotedLeads DEF Noted, CliShape
    <2> QED  BY <2>1 DEF After
  <1>3. ASSUME SameShape, Placed PROVE CliShape'
    BY <1>2, <1>3 DEF SameShape, CliShape
  <1> HIDE DEF Placed
  <1>4. ASSUME NEW dir \in {"apply", "revoke"}, NEW p, Offer(p), Request(dir, p) PROVE CliShape'
    <2>1. /\ UNCHANGED <<tool, disk, backup, tmp, past>>
          /\ {"calls", "faults", "edits"} \subseteq DOMAIN spent' /\ spent'.edits = spent.edits
          /\ \/ Ended
             \/ /\ ReqFields \subseteq DOMAIN req' /\ req'.at = "read" /\ req'.dir = dir /\ req'.p = p
                /\ req'.i = 1
      BY <1>4, RequestIs
    <2>2. SameShape
      BY <2>1 DEF SameShape, CliShape
    <2>3. CASE Ended
      BY <1>3, <1>a, <2>2, <2>3
    <2>4. CASE ~Ended
      BY <1>1, <1>2, <1>4, <2>1, <2>2, <2>4, IdleIs DEF CliShape, SameShape
    <2> QED  BY <2>3, <2>4
  <1>5. CASE Read
    <2>1. /\ UNCHANGED <<tool, disk, backup, tmp, spent>>
          /\ \/ past' = past /\ PassedOver
             \/ SamePast /\ GivenUp
             \/ AsWanted
             \/ ToBeWritten
      BY <1>5, ReadIs
    <2>2. SameShape
      BY <2>1 DEF SameShape, CliShape, SamePast, GivenUp, AsWanted, ToBeWritten, Stays
    <2>3. ASSUME ToBeWritten PROVE Placed
      <3>1. Stays /\ req'.at \in Stages
        BY <2>3 DEF ToBeWritten, Stages
      <3> QED  BY <1>b, <3>1
    <2>4. Placed
      BY <1>a, <1>c, <2>1, <2>3 DEF PassedOver, GivenUp, AsWanted
    <2> QED  BY <1>3, <2>2, <2>4
  <1>6. CASE StartCopy \/ FinishCopy \/ StartWrite \/ FinishWrite
    <2>1. /\ tool' = tool /\ disk' = disk /\ spent' = spent
          /\ DOMAIN backup' = DOMAIN backup /\ DOMAIN tmp' = DOMAIN tmp
          /\ Stays /\ req'.at \in Stages
      BY <1>6, MovingIs DEF MovesOn, Stages
    <2>2. SameShape
      BY <2>1 DEF SameShape, CliShape, Stays
    <2> QED  BY <1>3, <1>b, <2>1, <2>2
  <1>7. CASE Rename \/ Unlink
    <2>1. PICK c, last : Lands(c, last)
      BY <1>7, LandingIs
    <2>2. SameShape
      BY <2>1 DEF SameShape, CliShape, Lands
    <2> QED  BY <1>3, <1>c, <2>1, <2>2 DEF Lands
  <1>8. CASE IoFails \/ Crash
    <2>1. /\ Unwritten /\ SamePast /\ DOMAIN tmp' = DOMAIN tmp
          /\ \/ PassedOver /\ past'.halfRevoked = past.halfRevoked
             \/ Ended /\ past'.halfRevoked = (past.halfRevoked \/ req.dir = "revoke")
          /\ {"calls", "faults", "edits"} \subseteq DOMAIN spent' /\ spent'.edits = spent.edits
      BY <1>8, FaultIs DEF GivenUp
    <2>2. past'.halfRevoked \in BOOLEAN
      BY <2>1 DEF CliShape
    <2>3. SameShape
      BY <2>1, <2>2 DEF SameShape, CliShape, SamePast, Unwritten
    <2> QED  BY <1>3, <1>a, <1>c, <2>1, <2>3 DEF PassedOver
  <1>9. ASSUME NEW f \in Files, NEW d, Edited(f, d) PROVE CliShape'
    <2>1. SameShape /\ req' = req
      BY <1>9 DEF SameShape, CliShape, Edited
    <2> QED  BY <1>2, <2>1 DEF SameShape, CliShape
  <1>10. CASE UNCHANGED vars
    BY <1>2, <1>10 DEF vars, CliShape
  <1> QED  BY <1>4, <1>5, <1>6, <1>7, <1>8, <1>9, <1>10, EditIs, OffersAre DEF Next, Done

---------------------------------------------------------------------------
(* The original of a file is in its backup: OriginalKept. *)

\* The backup is one of the contents the file had, or a copy that was stopped.
Kept(f) == backup[f] \in past.had[f] \/ (backup[f] = Torn /\ f \in past.cut)

ContentInv(f) ==
    /\ disk[f].kind \in {"none", "garbage", "unnamed", "doc"}
    /\ disk[f].kind = "none" => disk[f] = Nothing
    /\ f = "codexAuth" /\ past.original[f] = Torn /\ disk[f].kind = "doc" => Has(disk[f].doc, "own")

\* Until a request first changes it, a file is as the user had it; from then on the
\* backup is kept.
OriginalInv(f) ==
    /\ past.original[f] = Torn =>
          /\ disk[f] \in past.had[f]
          /\ disk[f].kind = "doc" => \A h \in past.had[f] : h.kind = "doc"
          /\ backup[f] # Nothing => Kept(f) \/ (f = File /\ req.at = "copying")
    /\ past.original[f].kind = "doc" => Kept(f) /\ \A h \in past.had[f] : h.kind = "doc"

\* A request copies what nobody changed yet, and writes over what was copied.
CopyInv ==
    /\ req.at \in {"copy", "copying"} => past.original[File].kind # "doc"
    /\ req.at = "copying" => backup[File] = Torn
    /\ req.at \in {"write", "writing", "rename"} /\ past.original[File] = Torn
          /\ disk[File].kind = "doc" => backup[File] # Nothing
    /\ req.at = "rename" => tmp[File].kind = "doc"
    /\ req.at = "remove" => past.original[File] # Torn

OriginalsInv == CopyInv /\ \A f \in Files : ContentInv(f) /\ OriginalInv(f)

\* OriginalsInv is enough for OriginalKept.
LEMMA OriginalsHold == OriginalsInv => OriginalKept
  BY DEF OriginalsInv, ContentInv, OriginalInv, Kept, OriginalKept

\* An auth.json of the user holds more than a key, when UserHasOnlyKey is FALSE.
LEMMA UserHasOwn ==
  ASSUME ~UserHasOnlyKey, NEW d \in StartingDocs["codexAuth"]
  PROVE  Has(d, "own")
  BY DEF StartingDocs, Own, Has

\* It holds at the start.
LEMMA OriginalsInitially == ASSUME ~UserHasOnlyKey PROVE Init => OriginalsInv
  <1> SUFFICES ASSUME Init PROVE OriginalsInv  OBVIOUS
  <1>1. CliShape /\ File \in Files
    BY ShapeInitially, FileIsOne
  <1>2. req.at = "idle"
    BY IdleIs DEF Init
  <1>3. \A f \in Files : disk[f] \in Starts(f) /\ backup[f] = Nothing
    BY DEF Init
  <1>4. past.original = [f \in Files |-> Torn] /\ past.had = [f \in Files |-> {disk[f]}]
    BY DEF Init
  <1>5. ASSUME NEW f \in Files PROVE ContentInv(f)
    <2>1. disk[f] \in {Nothing, Garbage, Unnamed} \cup {Doc(d) : d \in StartingDocs[f]}
      BY <1>3 DEF Starts
    <2>2. CASE disk[f] \in {Nothing, Garbage, Unnamed}
      BY <2>2 DEF ContentInv, Nothing, Garbage, Unnamed
    <2>3. ASSUME NEW d \in StartingDocs[f], disk[f] = Doc(d) PROVE ContentInv(f)
      <3>1. disk[f].kind = "doc" /\ disk[f].doc = d
        BY <2>3 DEF Doc
      <3> QED  BY <2>3, <3>1, UserHasOwn DEF ContentInv
    <2> QED  BY <2>1, <2>2, <2>3
  <1>6. ASSUME NEW f \in Files PROVE OriginalInv(f)
    <2>1. past.original[f] = Torn /\ past.had[f] = {disk[f]} /\ backup[f] = Nothing
      BY <1>3, <1>4
    <2>2. Torn.kind = "torn"  BY DEF Torn
    <2> QED  BY <2>1, <2>2 DEF OriginalInv
  <1>7. CopyInv
    BY <1>2 DEF CopyInv
  <1> QED  BY <1>5, <1>6, <1>7 DEF OriginalsInv

\* A request that leaves its file, or is over: what was being copied is cut.
LEMMA OriginalsPassed ==
  ASSUME CliShape, OriginalsInv, CliShape', UNCHANGED <<tool, disk, backup>>,
         past'.original = past.original, past'.had = past.had,
         past.cut \subseteq past'.cut, req.at = "copying" => File \in past'.cut,
         req'.at \in {"idle", "read"}
  PROVE  OriginalsInv'
  <1>1. File \in Files /\ Files' = Files
    BY FileIsOne DEF Files
  <1>2. CopyInv'
    BY DEF CopyInv
  <1>3. ASSUME NEW f \in Files PROVE ContentInv(f)' /\ OriginalInv(f)'
    <2>1. ContentInv(f)'
      BY <1>3 DEF OriginalsInv, ContentInv
    <2>2. Kept(f) => Kept(f)'
      BY DEF Kept
    <2>3. f = File /\ req.at = "copying" => Kept(f)'
      BY DEF OriginalsInv, CopyInv, Kept
    <2>4. OriginalInv(f)
      BY <1>3 DEF OriginalsInv
    <2>5. OriginalInv(f)'
      BY <2>2, <2>3, <2>4 DEF OriginalInv
    <2> QED  BY <2>1, <2>5
  <1> QED  BY <1>1, <1>2, <1>3 DEF OriginalsInv

\* A step of the copying and writing leaves the other files alone.
LEMMA OriginalsMoved ==
  ASSUME CliShape, OriginalsInv, CliShape', UNCHANGED <<tool, disk>>, past' = past,
         req'.i = req.i, CopyInv', \A f \in Files \ {File} : backup'[f] = backup[f],
         req.at = "copying" => backup'[File] \in past.had[File] \/ past.original[File] # Torn,
         backup'[File] = backup[File] \/ past.original[File].kind # "doc",
         backup'[File] = backup[File] \/ req'.at = "copying" \/ backup'[File] \in past.had[File]
            \/ past.original[File] # Torn
  PROVE  OriginalsInv'
  <1>1. File \in Files /\ Files' = Files /\ File' = File
    BY FileIsOne DEF Files, File
  <1>2. ASSUME NEW f \in Files PROVE ContentInv(f)' /\ OriginalInv(f)'
    <2>1. ContentInv(f)'
      BY <1>2 DEF OriginalsInv, ContentInv
    <2>2. OriginalInv(f)
      BY <1>2 DEF OriginalsInv
    <2>3. CASE f # File
      <3>1. backup'[f] = backup[f]
        BY <1>2, <2>3
      <3>2. Kept(f) => Kept(f)'
        BY <3>1 DEF Kept
      <3> QED  BY <1>1, <2>1, <2>2, <2>3, <3>1, <3>2 DEF OriginalInv
    <2>4. CASE f = File
      <3>1. PICK b : b = backup'[f]  OBVIOUS
      <3>2. b = backup[f] /\ Kept(f) => Kept(f)'
        BY <3>1 DEF Kept
      <3>3. b \in past.had[f] => Kept(f)'
        BY <3>1 DEF Kept
      <3>4. ASSUME past.original[f] = Torn, b # Nothing
            PROVE  Kept(f)' \/ (f = File' /\ req'.at = "copying")
        <4>1. CASE b = backup[f] /\ req.at # "copying"
          BY <2>2, <3>2, <3>4, <4>1 DEF OriginalInv
        <4>2. CASE req.at = "copying"
          BY <2>4, <3>1, <3>3, <3>4, <4>2
        <4>3. CASE b # backup[f]
          BY <1>1, <2>4, <3>1, <3>3, <3>4, <4>3
        <4> QED  BY <4>1, <4>2, <4>3
      <3>5. past.original[f].kind = "doc" => Kept(f)'
        BY <2>2, <2>4, <3>1, <3>2 DEF OriginalInv
      <3>6. /\ past.original[f] = Torn /\ backup'[f] # Nothing => Kept(f)' \/ (f = File' /\ req'.at = "copying")
            /\ past.original[f] = Torn => disk[f] \in past.had[f]
            /\ past.original[f] = Torn /\ disk[f].kind = "doc" => \A h \in past.had[f] : h.kind = "doc"
            /\ past.original[f].kind = "doc" => Kept(f)' /\ \A h \in past.had[f] : h.kind = "doc"
        BY <2>2, <3>1, <3>4, <3>5 DEF OriginalInv
      <3>7. disk' = disk /\ past' = past
        OBVIOUS
      <3> HIDE DEF Kept
      <3> QED  BY <2>1, <3>6, <3>7 DEF OriginalInv
    <2> QED  BY <2>1, <2>3, <2>4
  <1> QED  BY <1>1, <1>2 DEF OriginalsInv

\* A content lands: by then the original is in the backup.
LEMMA OriginalsLand ==
  ASSUME CliShape, OriginalsInv, CliShape', NEW c, NEW last, Lands(c, last),
         c = Nothing \/ c.kind = "doc",
         past.original[File] = Torn /\ disk[File].kind = "doc" => Kept(File)
  PROVE  OriginalsInv'
  <1>1. File \in Files /\ Files' = Files
    BY FileIsOne DEF Files, Lands
  <1>2. req'.at \in {"idle", "read"}
    BY NotedLeads DEF Lands, After
  <1>3. PICK was : was = IF past.original[File] = Torn THEN disk[File] ELSE past.original[File]
    OBVIOUS
  <1>4. /\ past'.original = [past.original EXCEPT ![File] = was] /\ past'.had = past.had
        /\ past'.cut = past.cut /\ backup' = backup /\ disk' = [disk EXCEPT ![File] = c]
    BY <1>3 DEF Lands, CliShape
  <1>5. CopyInv'
    BY <1>2 DEF CopyInv
  <1>6. \A f : Kept(f)' <=> Kept(f)
    BY <1>4 DEF Kept
  <1>7. ContentInv(File) /\ OriginalInv(File)
    BY <1>1 DEF OriginalsInv
  <1>8. was # Torn
    BY <1>3, <1>7 DEF ContentInv, Torn
  <1>9. ASSUME NEW f \in Files PROVE ContentInv(f)' /\ OriginalInv(f)'
    <2>1. CASE f = File
      <3>1. past'.original[f] = was /\ disk'[f] = c
        BY <1>4, <1>9, <2>1 DEF CliShape
      <3>2. ContentInv(f)'
        BY <1>8, <3>1 DEF ContentInv, Nothing
      <3>3. was.kind = "doc" => Kept(f) /\ \A h \in past.had[f] : h.kind = "doc"
        BY <1>3, <1>7, <2>1 DEF OriginalInv
      <3> QED  BY <1>4, <1>6, <1>8, <3>1, <3>2, <3>3 DEF OriginalInv
    <2>2. CASE f # File
      <3>1. past'.original[f] = past.original[f] /\ disk'[f] = disk[f]
        BY <1>4, <1>9, <2>2 DEF CliShape
      <3>2. ContentInv(f) /\ OriginalInv(f)
        BY <1>9 DEF OriginalsInv
      <3>3. ContentInv(f)'
        BY <3>1, <3>2 DEF ContentInv
      <3> QED  BY <1>4, <1>6, <2>2, <3>1, <3>2, <3>3 DEF OriginalInv
    <2> QED  BY <2>1, <2>2
  <1> QED  BY <1>1, <1>5, <1>9 DEF OriginalsInv

\* The user's edit of an untouched file is one more content it had.
LEMMA OriginalsEdited ==
  ASSUME CliShape, OriginalsInv, CliShape', NEW f \in Files, NEW d, Edited(f, d),
         f = "codexAuth" /\ Has(disk[f].doc, "own") => Has(d, "own")
  PROVE  OriginalsInv'
  <1>1. File \in Files /\ Files' = Files /\ File' = File
    BY FileIsOne DEF Files, File, Edited
  <1>2. PICK more : more = IF past.original[f] = Torn THEN past.had[f] \cup {Doc(d)} ELSE past.had[f]
    OBVIOUS
  <1>3. /\ past'.original = past.original /\ past'.cut = past.cut /\ backup' = backup /\ tmp' = tmp
        /\ disk' = [disk EXCEPT ![f] = Doc(d)] /\ past'.had = [past.had EXCEPT ![f] = more]
        /\ req' = req /\ disk[f].kind = "doc"
    BY <1>2 DEF Edited, CliShape
  <1>4. Doc(d).kind = "doc" /\ Doc(d).doc = d
    BY DEF Doc
  <1>5. ASSUME NEW g \in Files PROVE Kept(g) => Kept(g)'
    <2>1. past.had[g] \subseteq past'.had[g]
      BY <1>2, <1>3, <1>5 DEF CliShape
    <2> QED  BY <1>3, <2>1 DEF Kept
  <1>6. CopyInv'
    <2>1. disk'[File].kind = "doc" => disk[File].kind = "doc"
      BY <1>1, <1>3 DEF CliShape
    <2> QED  BY <1>1, <1>3, <2>1 DEF OriginalsInv, CopyInv
  <1>7. ASSUME NEW g \in Files PROVE ContentInv(g)' /\ OriginalInv(g)'
    <2>1. ContentInv(g) /\ OriginalInv(g)
      BY <1>7 DEF OriginalsInv
    <2>2. CASE g = f
      <3>1. disk'[g] = Doc(d) /\ past'.had[g] = more
        BY <1>3, <1>7, <2>2 DEF CliShape
      <3>2. ContentInv(g)'
        BY <1>3, <1>4, <2>1, <2>2, <3>1 DEF ContentInv
      <3>3. past.original[g] = Torn => Doc(d) \in more /\ \A h \in more : h.kind = "doc"
        BY <1>2, <1>3, <1>4, <2>1, <2>2 DEF OriginalInv
      <3>4. past.original[g].kind = "doc" => more = past.had[g]
        BY <1>2, <2>2 DEF Torn
      <3> QED  BY <1>1, <1>3, <1>5, <2>1, <3>1, <3>2, <3>3, <3>4 DEF OriginalInv
    <2>3. CASE g # f
      <3>1. disk'[g] = disk[g] /\ past'.had[g] = past.had[g]
        BY <1>3, <1>7, <2>3 DEF CliShape
      <3>2. ContentInv(g)'
        BY <1>3, <2>1, <3>1 DEF ContentInv
      <3> QED  BY <1>1, <1>3, <1>5, <2>1, <3>1, <3>2 DEF OriginalInv
    <2> QED  BY <2>2, <2>3
  <1> QED  BY <1>1, <1>6, <1>7 DEF OriginalsInv

\* Every step keeps OriginalsInv.  A file is removed only when nothing but ours was in
\* it, so that, unless UserHasOnlyKey, it had been changed before.
LEMMA OriginalsStep ==
  ASSUME ~UserHasOnlyKey
  PROVE  CliShape /\ OriginalsInv /\ [Next]_vars => OriginalsInv'
  <1> SUFFICES ASSUME CliShape, OriginalsInv, [Next]_vars PROVE OriginalsInv'  OBVIOUS
  <1>1. CliShape' /\ File \in Files
    BY ShapeStep, FileIsOne
  <1>2. CopyInv /\ ContentInv(File) /\ OriginalInv(File)
    BY <1>1 DEF OriginalsInv
  <1>3. ASSUME NEW dir \in {"apply", "revoke"}, NEW p, Offer(p), Request(dir, p) PROVE OriginalsInv'
    <2>1. /\ req.at = "idle" /\ UNCHANGED <<tool, disk, backup, tmp, past>>
          /\ req'.at \in {"idle", "read"}
      BY <1>3, RequestIs DEF Ended
    <2> QED  BY <1>1, <2>1, OriginalsPassed
  <1>4. CASE Read
    <2>1. req.at = "read" /\ UNCHANGED <<tool, disk, backup, tmp, spent>>
      BY <1>4, ReadIs
    <2>2. ASSUME past'.original = past.original, past'.had = past.had, past'.cut = past.cut,
                 req'.at \in {"idle", "read"}
          PROVE  OriginalsInv'
      BY <1>1, <2>1, <2>2, OriginalsPassed
    <2>3. CASE past' = past /\ PassedOver
      BY <2>2, <2>3, NotedLeads DEF PassedOver, After
    <2>4. CASE SamePast /\ past'.cut = past.cut /\ GivenUp
      BY <2>2, <2>4 DEF SamePast, GivenUp, Ended
    <2>5. CASE AsWanted
      BY <2>2, <2>5, NotedLeads DEF AsWanted, After
    <2>6. CASE ToBeWritten
      <3>1. /\ disk[File].kind \notin {"garbage", "unnamed"} /\ Stays
            /\ ~(req.dir = "revoke" /\ disk[File] = Nothing) /\ req'.new = Merged(disk[File])
            /\ req'.at = IF req.dir = "revoke" /\ File \in DeletedWhenEmpty /\ req'.new = Blank
                         THEN "remove" ELSE IF BackupWanted THEN "copy" ELSE "write"
        BY <2>6 DEF ToBeWritten
      <3>2. File' = File /\ past' = past /\ disk' = disk /\ backup' = backup /\ req'.i = req.i
        BY <2>1, <3>1 DEF Stays, File
      <3>3. CASE req'.at = "copy"
        <4>1. backup[File] = Nothing
          BY <3>1, <3>3 DEF BackupWanted
        <4>2. past.original[File].kind = "doc" => Kept(File) /\ \A h \in past.had[File] : h.kind = "doc"
          BY <1>2 DEF OriginalInv
        <4>3. past.original[File].kind # "doc"
          BY <4>1, <4>2 DEF Kept, Nothing, Torn
        <4>4. CopyInv'
          BY <3>2, <3>3, <4>3 DEF CopyInv
        <4> QED  BY <1>1, <2>1, <3>2, <4>4, OriginalsMoved
      <3>4. CASE req'.at = "write"
        <4>1. ~BackupWanted
          BY <3>1, <3>4
        <4>2. disk[File].kind = "doc" => backup[File] # Nothing
          BY <4>1 DEF BackupWanted, Nothing
        <4>3. CopyInv'
          BY <3>2, <3>4, <4>2 DEF CopyInv
        <4> QED  BY <1>1, <2>1, <3>2, <4>3, OriginalsMoved
      <3>5. CASE req'.at = "remove"
        <4>1. req.dir = "revoke" /\ File \in DeletedWhenEmpty /\ req'.new = Blank
          BY <3>1, <3>5
        <4>2. File = "codexAuth" /\ Drop(disk[File].doc, {"key", "auth_mode"}) = Blank
          BY <3>1, <4>1 DEF DeletedWhenEmpty, Merged, Revoke, CodexAuthRevoke
        <4>3. ~Has(disk[File].doc, "own")
          BY <4>2, Dropping, BlankHasNone
        <4>4. past.original[File] # Torn
          BY <1>2, <3>1, <4>1, <4>2, <4>3 DEF ContentInv
        <4>5. CopyInv'
          BY <3>2, <3>5, <4>4 DEF CopyInv
        <4> QED  BY <1>1, <2>1, <3>2, <4>5, OriginalsMoved
      <3> QED  BY <3>1, <3>3, <3>4, <3>5
    <2> QED  BY <1>4, <2>3, <2>4, <2>5, <2>6, ReadIs
  <1>5. CASE StartCopy
    <2>1. /\ MovesOn("copy", "copying") /\ UNCHANGED <<tool, disk, tmp, spent>>
          /\ backup' = [backup EXCEPT ![File] = Torn]
      BY <1>5, MovingIs
    <2>o. \A f \in Files \ {File} : backup'[f] = backup[f]
      BY <2>1 DEF CliShape
    <2>2. File' = File /\ past' = past /\ req'.i = req.i /\ req.at = "copy" /\ req'.at = "copying"
      BY <2>1 DEF MovesOn, Stays, File
    <2>3. backup'[File] = Torn
      BY <1>1, <2>1 DEF CliShape
    <2>4. CopyInv'
      BY <1>2, <2>2, <2>3 DEF CopyInv
    <2>5. past.original[File].kind # "doc"
      BY <1>2, <2>2 DEF CopyInv
    <2> QED  BY <1>1, <2>1, <2>2, <2>3, <2>4, <2>5, <2>o, OriginalsMoved
  <1>6. CASE FinishCopy
    <2>1. /\ MovesOn("copying", "write") /\ UNCHANGED <<tool, disk, tmp, spent>>
          /\ backup' = [backup EXCEPT ![File] = disk[File]]
      BY <1>6, MovingIs
    <2>o. \A f \in Files \ {File} : backup'[f] = backup[f]
      BY <2>1 DEF CliShape
    <2>2. File' = File /\ past' = past /\ req'.i = req.i /\ req.at = "copying" /\ req'.at = "write"
      BY <2>1 DEF MovesOn, Stays, File
    <2>3. backup'[File] = disk[File]
      BY <1>1, <2>1 DEF CliShape
    <2>4. CopyInv'
      BY <2>1, <2>2, <2>3 DEF CopyInv, Nothing
    <2>5. past.original[File].kind # "doc"
      BY <1>2, <2>2 DEF CopyInv
    <2>6. past.original[File] = Torn => disk[File] \in past.had[File]
      BY <1>2 DEF OriginalInv
    <2> QED  BY <1>1, <2>1, <2>2, <2>3, <2>4, <2>5, <2>6, <2>o, OriginalsMoved
  <1>7. CASE StartWrite
    <2>1. /\ MovesOn("write", "writing") /\ UNCHANGED <<tool, disk, backup, spent>>
      BY <1>7, MovingIs
    <2>2. File' = File /\ past' = past /\ req'.i = req.i /\ req.at = "write" /\ req'.at = "writing"
      BY <2>1 DEF MovesOn, Stays, File
    <2>3. CopyInv'
      BY <1>2, <2>1, <2>2 DEF CopyInv
    <2> QED  BY <1>1, <2>1, <2>2, <2>3, OriginalsMoved
  <1>8. CASE FinishWrite
    <2>1. /\ MovesOn("writing", "rename") /\ UNCHANGED <<tool, disk, backup, spent>>
          /\ tmp' = [tmp EXCEPT ![File] = Doc(req.new)]
      BY <1>8, MovingIs
    <2>2. File' = File /\ past' = past /\ req'.i = req.i /\ req.at = "writing" /\ req'.at = "rename"
      BY <2>1 DEF MovesOn, Stays, File
    <2>3. tmp'[File].kind = "doc"
      BY <1>1, <2>1 DEF CliShape, Doc
    <2>4. CopyInv'
      BY <1>2, <2>1, <2>2, <2>3 DEF CopyInv
    <2> QED  BY <1>1, <2>1, <2>2, <2>4, OriginalsMoved
  <1>9. CASE Rename
    <2>1. req.at = "rename" /\ Lands(tmp[File], tmp[File])
      BY <1>9, LandingIs
    <2>2. past.original[File] = Torn /\ disk[File].kind = "doc" => Kept(File)
      BY <1>2, <2>1 DEF CopyInv, OriginalInv
    <2>3. tmp[File].kind = "doc"
      BY <1>2, <2>1 DEF CopyInv
    <2> QED  BY <1>1, <2>1, <2>2, <2>3, OriginalsLand
  <1>10. CASE Unlink
    <2>1. req.at = "remove" /\ Lands(Nothing, Doc(Blank))
      BY <1>10, LandingIs
    <2>2. past.original[File] # Torn
      BY <1>2, <2>1 DEF CopyInv
    <2> QED  BY <1>1, <2>1, <2>2, OriginalsLand
  <1>11. CASE IoFails \/ Crash
    <2>1. Unwritten /\ SamePast /\ past'.cut = Cut /\ (PassedOver \/ Ended)
      BY <1>11, FaultIs DEF GivenUp
    <2>2. req'.at \in {"idle", "read"}
      BY <2>1, NotedLeads DEF PassedOver, Ended, After
    <2>3. past.cut \subseteq past'.cut /\ (req.at = "copying" => File \in past'.cut)
      BY <2>1 DEF Cut
    <2> QED  BY <1>1, <2>1, <2>2, <2>3, OriginalsPassed DEF Unwritten, SamePast
  <1>12. ASSUME NEW f \in Files, UserTweaks(f) PROVE OriginalsInv'
    <2>1. Edited(f, Tweak(f, disk[f].doc))
      BY <1>12, EditIs
    <2>2. f = "codexAuth" => Tweak(f, disk[f].doc) = Put(disk[f].doc, "own", "user2")
      BY DEF Tweak
    <2> QED  BY <1>1, <2>1, <2>2, Putting, OriginalsEdited
  <1>13. ASSUME NEW f \in Files, NEW v \in {"user", "user2"}, UserChooses(f, v) PROVE OriginalsInv'
    <2>1. PICK k \in Selections[f] : f \in DOMAIN Selections /\ Edited(f, Choose(f, disk[f].doc, k, v))
      BY <1>13, EditIs
    <2>2. f = "codexAuth" => Choose(f, disk[f].doc, k, v) = Put(disk[f].doc, "auth_mode", v)
      BY <2>1 DEF Choose, Selections
    <2> QED  BY <1>1, <2>1, <2>2, Putting, OriginalsEdited
  <1>14. CASE UNCHANGED vars
    <2>1. Files' = Files /\ File' = File /\ \A f : Kept(f)' <=> Kept(f)
      BY <1>14 DEF vars, Files, File, Kept
    <2> QED  BY <1>14, <2>1 DEF vars, OriginalsInv, CopyInv, ContentInv, OriginalInv
  <1> QED  BY <1>3, <1>4, <1>5, <1>6, <1>7, <1>8, <1>9, <1>10, <1>11, <1>12, <1>13, <1>14, OffersAre
           DEF Next, Done

---------------------------------------------------------------------------
(* What a step may be, whichever action it is of. *)

\* What is renamed over a file is what was merged; only a revoke removes one.
StageInv ==
    /\ req.at = "rename" => tmp[File] = Doc(req.new)
    /\ req.at = "remove" => req.new = Blank /\ req.dir = "revoke"

\* It holds at the start.
LEMMA StageInitially == Init => StageInv
  BY IdleIs DEF Init, StageInv

\* Every step keeps it.
LEMMA StageStep == CliShape /\ StageInv /\ [Next]_vars => StageInv'
  <1> SUFFICES ASSUME CliShape, StageInv, [Next]_vars PROVE StageInv'  OBVIOUS
  <1>1. req'.at \in {"idle", "read"} => StageInv'
    BY DEF StageInv
  <1>2. ASSUME NEW dir \in {"apply", "revoke"}, NEW p, Offer(p), Request(dir, p) PROVE StageInv'
    BY <1>1, <1>2, RequestIs DEF Ended
  <1>3. CASE Read
    <2>1. PassedOver \/ GivenUp \/ AsWanted => req'.at \in {"idle", "read"}
      BY NotedLeads DEF PassedOver, GivenUp, AsWanted, Ended, After
    <2>2. ASSUME ToBeWritten PROVE StageInv'
      <3>1. /\ req'.at = IF req.dir = "revoke" /\ File \in DeletedWhenEmpty /\ req'.new = Blank THEN "remove"
                         ELSE IF BackupWanted THEN "copy" ELSE "write"
            /\ req'.dir = req.dir
        BY <2>2 DEF ToBeWritten, Stays
      <3> QED  BY <3>1 DEF StageInv
    <2> QED  BY <1>1, <1>3, <2>1, <2>2, ReadIs
  <1>4. CASE StartCopy \/ FinishCopy \/ StartWrite
    <2>1. req'.at \in {"copying", "write", "writing"}
      BY <1>4, MovingIs DEF MovesOn
    <2> QED  BY <2>1 DEF StageInv
  <1>5. CASE FinishWrite
    <2>1. /\ req'.at = "rename" /\ req'.new = req.new /\ File' = File
          /\ tmp' = [tmp EXCEPT ![File] = Doc(req.new)]
      BY <1>5, MovingIs DEF MovesOn, Stays, File
    <2>2. tmp'[File] = Doc(req.new)
      BY <2>1, FileIsOne DEF CliShape
    <2> QED  BY <2>1, <2>2 DEF StageInv
  <1>6. CASE Rename \/ Unlink
    <2>1. PICK c, last : Lands(c, last)
      BY <1>6, LandingIs
    <2> QED  BY <1>1, <2>1, NotedLeads DEF Lands, After
  <1>7. CASE IoFails \/ Crash
    <2>1. PassedOver \/ Ended
      BY <1>7, FaultIs DEF GivenUp
    <2> QED  BY <1>1, <2>1, NotedLeads DEF PassedOver, Ended, After
  <1>8. ASSUME NEW f \in Files, NEW d, Edited(f, d) PROVE StageInv'
    BY <1>8 DEF Edited, StageInv, File
  <1>9. CASE UNCHANGED vars
    BY <1>9 DEF vars, StageInv, File
  <1> QED  BY <1>2, <1>3, <1>4, <1>5, <1>6, <1>7, <1>8, <1>9, EditIs, OffersAre DEF Next, Done

\* A request is turned down or set out upon.
Begins ==
    /\ req.at = "idle" /\ disk' = disk /\ past' = past
    /\ \/ Ended
       \/ /\ ReqFields \subseteq DOMAIN req' /\ req'.at = "read" /\ req'.i = 1 /\ Offer(req'.p)
          /\ answer' = NoAnswer

\* It is over, without success, or its file is passed over.
Leaves ==
    /\ req.at # "idle" /\ disk' = disk
    /\ \/ PassedOver /\ past'.halfRevoked = past.halfRevoked
       \/ Ended /\ past'.halfRevoked = (past.halfRevoked \/ req.dir = "revoke")
Looks == req.at = "read" /\ disk' = disk /\ AsWanted
Prepares == req.at = "read" /\ disk' = disk /\ ToBeWritten
Moves == req.at \in Stages /\ req'.at \in Stages /\ disk' = disk /\ req'.new = req.new /\ Stays

\* What was merged is on disk.
Landed(c) ==
    /\ c = Doc(req.new) \/ (c = Nothing /\ req.new = Blank /\ req.dir = "revoke")
    /\ disk' = [disk EXCEPT ![File] = c] /\ past'.halfRevoked = past.halfRevoked
    /\ \E r : Noted(r) /\ r.last = Doc(req.new) /\ r.warned = req.warned /\ Advance(r)
Settles == req.at \in Stages /\ \E c : Landed(c)

EditIsOf(f, d) ==
    /\ Edited(f, d)
    /\ \/ d = Tweak(f, disk[f].doc)
       \/ /\ f \in DOMAIN Selections
          /\ \E k \in Selections[f], v \in {"user", "user2"} : d = Choose(f, disk[f].doc, k, v)
UserEdits == \E f \in Files : \E d : EditIsOf(f, d)

StepIsOne ==
    /\ tool' = tool
    /\ \/ UserEdits
       \/ spent'.edits = spent.edits /\ (Begins \/ Leaves \/ Looks \/ Prepares \/ Moves \/ Settles)
       \/ UNCHANGED vars

\* Every step of Next is one of these.
LEMMA StepsAre ==
  ASSUME CliShape, StageInv, [Next]_vars
  PROVE  StepIsOne
  <1>1. ASSUME NEW dir \in {"apply", "revoke"}, NEW p, Offer(p), Request(dir, p) PROVE StepIsOne
    <2>1. /\ req.at = "idle" /\ UNCHANGED <<tool, disk, backup, tmp, past>> /\ spent'.edits = spent.edits
          /\ \/ Ended
             \/ /\ ReqFields \subseteq DOMAIN req' /\ req'.at = "read" /\ req'.p = p
                /\ req'.i = 1 /\ answer' = NoAnswer
      BY <1>1, RequestIs
    <2> QED  BY <1>1, <2>1 DEF StepIsOne, Begins
  <1>2. CASE Read
    <2>1. /\ req.at = "read" /\ UNCHANGED <<tool, disk, backup, tmp, spent>>
          /\ \/ past' = past /\ PassedOver
             \/ GivenUp
             \/ AsWanted
             \/ ToBeWritten
      BY <1>2, ReadIs
    <2> QED  BY <2>1 DEF StepIsOne, Leaves, Looks, Prepares, GivenUp
  <1>3. CASE StartCopy \/ FinishCopy \/ StartWrite \/ FinishWrite
    <2>1. /\ UNCHANGED <<tool, disk, spent>> /\ Stays /\ req'.new = req.new
          /\ req.at \in Stages /\ req'.at \in Stages
      BY <1>3, MovingIs DEF MovesOn, Stages
    <2> QED  BY <2>1 DEF StepIsOne, Moves
  <1>4. CASE Rename \/ Unlink
    <2>1. \/ Lands(Doc(req.new), Doc(req.new))
          \/ Lands(Nothing, Doc(req.new)) /\ req.new = Blank /\ req.dir = "revoke"
      BY <1>4, LandingIs DEF StageInv
    <2>2. ASSUME NEW c, Lands(c, Doc(req.new)), c = Doc(req.new) \/ (c = Nothing /\ req.new = Blank /\ req.dir = "revoke")
          PROVE  Landed(c) /\ tool' = tool /\ spent' = spent
      BY <2>2 DEF Lands, Landed, CliShape
    <2>3. req.at \in Stages
      BY <1>4, LandingIs DEF Stages
    <2> QED  BY <2>1, <2>2, <2>3 DEF StepIsOne, Settles
  <1>5. CASE IoFails \/ Crash
    <2>1. /\ req.at # "idle" /\ tool' = tool /\ disk' = disk /\ spent'.edits = spent.edits
          /\ \/ PassedOver /\ past'.halfRevoked = past.halfRevoked
             \/ Ended /\ past'.halfRevoked = (past.halfRevoked \/ req.dir = "revoke")
      BY <1>5, FaultIs DEF GivenUp, Unwritten
    <2> QED  BY <2>1 DEF StepIsOne, Leaves
  <1>6. ASSUME NEW f \in Files, UserTweaks(f) PROVE StepIsOne
    <2>1. Edited(f, Tweak(f, disk[f].doc))
      BY <1>6, EditIs
    <2> QED  BY <2>1 DEF StepIsOne, UserEdits, EditIsOf, Edited
  <1>7. ASSUME NEW f \in Files, NEW v \in {"user", "user2"}, UserChooses(f, v) PROVE StepIsOne
    <2>1. PICK k \in Selections[f] : f \in DOMAIN Selections /\ Edited(f, Choose(f, disk[f].doc, k, v))
      BY <1>7, EditIs
    <2> QED  BY <2>1 DEF StepIsOne, UserEdits, EditIsOf, Edited
  <1>8. CASE UNCHANGED vars
    BY <1>8 DEF StepIsOne, vars
  <1> QED  BY <1>1, <1>2, <1>3, <1>4, <1>5, <1>6, <1>7, <1>8, OffersAre DEF Next, Done

---------------------------------------------------------------------------
(* Nothing dangles. *)

\* What is in the files, and what will be, is as the operations leave it.
DocsInv ==
    /\ \A f \in Files :
          /\ disk[f].kind \in {"none", "garbage", "unnamed", "doc"}
          /\ disk[f].kind # "doc" => disk[f].doc = Blank
          /\ f \in PlainFiles => DocInv(f, disk[f].doc)
    /\ req.at \in Stages /\ File \in PlainFiles => DocInv(File, req.new)

\* It holds at the start.
LEMMA DocsInitially == Init => DocsInv
  <1> SUFFICES ASSUME Init PROVE DocsInv  OBVIOUS
  <1>1. req.at = "idle"
    BY IdleIs DEF Init
  <1>2. ASSUME NEW f \in Files
        PROVE  /\ disk[f].kind \in {"none", "garbage", "unnamed", "doc"}
               /\ disk[f].kind # "doc" => disk[f].doc = Blank
               /\ f \in PlainFiles => DocInv(f, disk[f].doc)
    <2>1. disk[f] \in Starts(f)
      BY <1>2 DEF Init
    <2>2. disk[f] \in {Nothing, Garbage, Unnamed} \/ \E d : disk[f] = Doc(d)
      BY <2>1 DEF Starts
    <2>5. ASSUME NEW d, disk[f] = Doc(d) PROVE disk[f].kind = "doc"
      BY <2>5 DEF Doc
    <2>3. /\ disk[f].kind \in {"none", "garbage", "unnamed", "doc"}
          /\ disk[f].kind # "doc" => disk[f].doc = Blank
      <3>1. CASE disk[f] \in {Nothing, Garbage, Unnamed}
        BY <3>1 DEF Nothing, Garbage, Unnamed
      <3> QED  BY <2>2, <2>5, <3>1
    <2>4. f \in PlainFiles => DocInv(f, disk[f].doc)
      BY <2>1, StartsAreDocs
    <2> QED  BY <2>3, <2>4
  <1> QED  BY <1>1, <1>2 DEF DocsInv, Stages

\* The fields of a content.
LEMMA Contents ==
  /\ \A d : Doc(d).kind = "doc" /\ Doc(d).doc = d
  /\ Nothing.kind = "none" /\ Nothing.doc = Blank
  BY DEF Doc, Nothing

\* Every step keeps it: what lands was merged from what was read.
LEMMA DocsStep == CliShape /\ StageInv /\ DocsInv /\ [Next]_vars => DocsInv'
  <1> SUFFICES ASSUME CliShape, StageInv, DocsInv, [Next]_vars PROVE DocsInv'  OBVIOUS
  <1>1. File \in Files /\ tool' = tool /\ Files' = Files
    BY FileIsOne, StepsAre DEF StepIsOne, Files
  <1>2. ASSUME disk' = disk, req'.at \in {"idle", "read"} PROVE DocsInv'
    BY <1>1, <1>2 DEF DocsInv, Stages
  <1>3. CASE Begins \/ Leaves \/ Looks
    <2>1. disk' = disk /\ req'.at \in {"idle", "read"}
      BY <1>3, NotedLeads DEF Begins, Leaves, Looks, PassedOver, AsWanted, Ended, After
    <2> QED  BY <1>2, <2>1
  <1>4. CASE Prepares
    <2>1. disk' = disk /\ File' = File /\ req'.new = Merged(disk[File])
      BY <1>1, <1>4 DEF Prepares, ToBeWritten, Stays, File
    <2>2. File \in PlainFiles => DocInv(File, Merged(disk[File]))
      BY <1>1, ApplyKeepsDocs, RevokeKeepsDocs DEF Merged, DocsInv, CliShape
    <2> QED  BY <1>1, <2>1, <2>2 DEF DocsInv
  <1>5. CASE Moves
    <2>1. disk' = disk /\ File' = File /\ req'.new = req.new /\ req.at \in Stages
      BY <1>1, <1>5 DEF Moves, Stays, File
    <2> QED  BY <1>1, <2>1 DEF DocsInv
  <1>6. CASE Settles
    <2>1. PICK c : Landed(c)
      BY <1>6 DEF Settles
    <2>2. req'.at \in {"idle", "read"}
      BY <2>1, NotedLeads DEF Landed, After
    <2>3. /\ c.kind \in {"none", "doc"} /\ c.doc = req.new /\ (c.kind # "doc" => c.doc = Blank)
          /\ disk' = [disk EXCEPT ![File] = c]
      BY <2>1, Contents DEF Landed
    <2>4. File \in PlainFiles => DocInv(File, req.new)
      BY <1>6 DEF Settles, DocsInv
    <2>5. ASSUME NEW f \in Files
          PROVE  /\ disk'[f].kind \in {"none", "garbage", "unnamed", "doc"}
                 /\ disk'[f].kind # "doc" => disk'[f].doc = Blank
                 /\ f \in PlainFiles => DocInv(f, disk'[f].doc)
      <3>1. CASE f = File
        <4>1. disk'[f] = c
          BY <1>1, <2>3, <3>1 DEF CliShape
        <4> QED  BY <2>3, <2>4, <3>1, <4>1
      <3>2. CASE f # File
        <4>1. disk'[f] = disk[f]
          BY <2>3, <2>5, <3>2 DEF CliShape
        <4> QED  BY <2>5, <4>1 DEF DocsInv
      <3> QED  BY <3>1, <3>2
    <2> QED  BY <1>1, <2>2, <2>5 DEF DocsInv, Stages
  <1>7. CASE UserEdits
    <2>0. PICK f \in Files : \E d : EditIsOf(f, d)
      BY <1>7 DEF UserEdits
    <2>9. PICK d : EditIsOf(f, d)
      BY <2>0
    <2>1. /\ Edited(f, d)
          /\ \/ d = Tweak(f, disk[f].doc)
             \/ /\ f \in DOMAIN Selections
                /\ \E k \in Selections[f], v \in {"user", "user2"} : d = Choose(f, disk[f].doc, k, v)
      BY <2>9 DEF EditIsOf
    <2>2. disk' = [disk EXCEPT ![f] = Doc(d)] /\ req' = req /\ File' = File
      BY <1>1, <2>1 DEF Edited, File
    <2>3. f \in PlainFiles => DocInv(f, d)
      BY <2>1, TweakKeepsDocs, ChooseKeepsDocs DEF DocsInv
    <2>4. ASSUME NEW g \in Files
          PROVE  /\ disk'[g].kind \in {"none", "garbage", "unnamed", "doc"}
                 /\ disk'[g].kind # "doc" => disk'[g].doc = Blank
                 /\ g \in PlainFiles => DocInv(g, disk'[g].doc)
      <3>1. CASE g = f
        <4>1. disk'[g] = Doc(d)
          BY <2>2, <2>4, <3>1 DEF CliShape
        <4> QED  BY <2>3, <3>1, <4>1, Contents
      <3>2. CASE g # f
        <4>1. disk'[g] = disk[g]
          BY <2>2, <2>4, <3>2 DEF CliShape
        <4> QED  BY <2>4, <4>1 DEF DocsInv
      <3> QED  BY <3>1, <3>2
    <2> QED  BY <1>1, <2>2, <2>4 DEF DocsInv
  <1>8. CASE UNCHANGED vars
    BY <1>1, <1>8 DEF vars, DocsInv, File
  <1> QED  BY <1>3, <1>4, <1>5, <1>6, <1>7, <1>8, StepsAre DEF StepIsOne

Key == Get(disk[KeyOf[tool]].doc, "key")

KeyInv ==
    tool \in DOMAIN KeyOf =>
        /\ ~past.halfRevoked /\ req.dir = "apply" => (Key = "ours" => InUse(disk[tool].doc))
        /\ req.at # "idle" /\ req.dir = "apply" /\ req.i = 2 => InUse(disk[tool].doc)
        /\ req.at \in Stages /\ req.dir = "apply" /\ req.i = 1 => InUse(req.new)
        /\ req.at \in Stages /\ req.dir = "revoke" /\ req.i = 2 => Get(req.new, "key") # "ours"

\* It holds at the start, where no key is ours.
LEMMA KeyInitially == Init => KeyInv
  <1> SUFFICES ASSUME Init, tool \in DOMAIN KeyOf PROVE KeyInv
    BY DEF KeyInv
  <1>1. KeyOf[tool] \in {"codexAuth", "clineSecrets", "jcodeEnv"}
    BY DEF KeyOf
  <1>2. tool \in DOMAIN FilesOf
    BY ToolsHaveFiles DEF Init
  <1>3. KeyOf[tool] \in Files
    BY <1>2, FilesAre DEF Files
  <1>4. disk[KeyOf[tool]] \in Starts(KeyOf[tool])
    BY <1>3 DEF Init
  <1>5. \A d \in StartingDocs[KeyOf[tool]] : Get(d, "key") # "ours"
    <2>1. \A d \in StartingDocs["codexAuth"] : Get(d, "key") # "ours"
      BY DEF StartingDocs, Own, Get, Has
    <2>2. \A d \in StartingDocs["clineSecrets"] : Get(d, "key") # "ours"
      BY DEF StartingDocs, Own, Get, Has
    <2>3. \A d \in StartingDocs["jcodeEnv"] : Get(d, "key") # "ours"
      BY Putting DEF StartingDocs, Own, Get, Has
    <2> QED  BY <1>1, <2>1, <2>2, <2>3
  <1>6. Key # "ours"
    BY <1>4, <1>5, BlankHasNone DEF Key, Starts, Nothing, Garbage, Unnamed, Doc
  <1>7. req.at = "idle"
    BY IdleIs DEF Init
  <1> QED  BY <1>6, <1>7 DEF KeyInv, Stages

\* The two files of a tool with a credential of its own.
LEMMA KeyFiles ==
  ASSUME CliShape, tool \in DOMAIN KeyOf
  PROVE  /\ tool \in Files /\ KeyOf[tool] \in Files /\ tool # KeyOf[tool]
         /\ req.i \in {1, 2} /\ File \notin BestEffort
         /\ req.i = 1 => File = tool
         /\ req.i = 2 => File = KeyOf[tool]
         /\ \A r : Noted(r) => (Continues(r) <=> req.i = 1)
  <1>1. PICK a, b : a = tool /\ b = KeyOf[tool]  OBVIOUS
  <1>2. /\ FilesOf[tool] = <<a, b>> /\ {a, b} \cap BestEffort = {} /\ tool # "openclaw"
        /\ Len(FilesOf[tool]) = 2 => FilesOf[tool][1] # FilesOf[tool][2]
        /\ Files = {FilesOf[tool][i] : i \in 1..Len(FilesOf[tool])}
    BY <1>1, ToolsHaveFiles, FilesAre DEF CliShape, Files
  <1>3. Len(FilesOf[tool]) = 2 /\ FilesOf[tool][1] = a /\ FilesOf[tool][2] = b
    BY <1>2
  <1>4. req.i \in 1..2
    BY <1>3 DEF CliShape
  <1>5. \A r : Noted(r) => (Continues(r) <=> req.i = 1)
    BY <1>2, <1>3, <1>4 DEF Noted, Continues
  <1>6. a \in Files /\ b \in Files /\ a # b
    BY <1>2, <1>3
  <1>7. (req.i = 1 => File = a) /\ (req.i = 2 => File = b)
    BY <1>3 DEF File
  <1>8. File \notin BestEffort
    BY <1>2, <1>4, <1>7
  <1> QED  BY <1>1, <1>4, <1>5, <1>6, <1>7, <1>8

\* Every step keeps it: the configuration is written before the credential by an apply,
\* and a revoke that does not reach the credential is remembered.
LEMMA KeyStep == CliShape /\ StageInv /\ DocsInv /\ KeyInv /\ [Next]_vars => KeyInv'
  <1> SUFFICES ASSUME CliShape, StageInv, DocsInv, KeyInv, [Next]_vars, tool' \in DOMAIN KeyOf
               PROVE  KeyInv'
    BY DEF KeyInv
  <1>1. tool' = tool /\ tool \in DOMAIN KeyOf
    BY StepsAre DEF StepIsOne
  <1>2. /\ tool \in Files /\ KeyOf[tool] \in Files /\ tool # KeyOf[tool]
        /\ req.i \in {1, 2} /\ File \notin BestEffort
        /\ (req.i = 1 => File = tool) /\ (req.i = 2 => File = KeyOf[tool])
    BY <1>1, KeyFiles
  <1>3. /\ ~past.halfRevoked /\ req.dir = "apply" => (Key = "ours" => InUse(disk[tool].doc))
        /\ req.at # "idle" /\ req.dir = "apply" /\ req.i = 2 => InUse(disk[tool].doc)
        /\ req.at \in Stages /\ req.dir = "apply" /\ req.i = 1 => InUse(req.new)
        /\ req.at \in Stages /\ req.dir = "revoke" /\ req.i = 2 => Get(req.new, "key") # "ours"
    BY <1>1 DEF KeyInv
  <1>s. "idle" \notin Stages /\ "read" \notin Stages
    BY DEF Stages
  <1>4. CASE Begins
    <2>1. Key' = Key /\ disk' = disk /\ past' = past /\ req.dir = "apply"
      BY <1>1, <1>4 DEF Begins, Key, CliShape
    <2>2. req'.at = "idle" \/ (req'.at = "read" /\ req'.i = 1)
      BY <1>4 DEF Begins, Ended
    <2> QED  BY <1>1, <1>3, <1>s, <2>1, <2>2 DEF KeyInv
  <1>5. CASE Leaves
    <2>1. /\ Key' = Key /\ disk' = disk /\ req'.at = "idle"
          /\ past'.halfRevoked = (past.halfRevoked \/ req.dir = "revoke")
      BY <1>1, <1>2, <1>5 DEF Leaves, Key, PassedOver, Ended
    <2>2. ~past'.halfRevoked => ~past.halfRevoked /\ req.dir = "apply"
      BY <2>1 DEF CliShape
    <2> QED  BY <1>1, <1>3, <1>s, <2>1, <2>2 DEF KeyInv
  <1>6. ASSUME NEW r, Noted(r), Advance(r), past'.halfRevoked = past.halfRevoked,
               ~past.halfRevoked /\ req.dir = "apply" => (Key' = "ours" => InUse(disk'[tool].doc)),
               req.dir = "apply" => InUse(disk'[tool].doc),
               req.dir = "revoke" /\ req.i = 2 => Key' # "ours"
        PROVE  KeyInv'
    <2>1. After(r) /\ (Continues(r) <=> req.i = 1) /\ r.dir = req.dir /\ r.i = req.i
      BY <1>1, <1>6, NotedLeads, KeyFiles DEF Noted
    <2>2. CASE req.i = 1
      <3>1. req'.at = "read" /\ req'.dir = req.dir
        BY <2>1, <2>2 DEF After
      <3> QED  BY <1>1, <1>6, <1>s, <3>1 DEF KeyInv
    <2>3. CASE req.i = 2
      <3>1. req'.at = "idle"
        BY <2>1, <2>3 DEF After
      <3>2. req.dir \in {"apply", "revoke"}
        BY DEF CliShape
      <3> QED  BY <1>1, <1>6, <1>s, <2>3, <3>1, <3>2 DEF KeyInv
    <2> QED  BY <1>2, <2>2, <2>3
  <1>7. CASE Looks
    <2>1. disk' = disk /\ past' = past /\ Key' = Key /\ req.at = "read"
      BY <1>1, <1>7 DEF Looks, AsWanted, Key
    <2>2. PICK r : Noted(r) /\ Advance(r)
      BY <1>7 DEF Looks, AsWanted
    <2>3. ASSUME req.dir = "apply" PROVE InUse(disk[tool].doc)
      <3>1. CASE req.i = 1
        <4>1. Merged(disk[tool]) = disk[tool].doc
          BY <1>2, <1>7, <2>3, <3>1 DEF Looks, AsWanted
        <4> QED  BY <1>1, <1>2, <2>3, <3>1, <4>1, AppliedIsInUse DEF Merged
      <3>2. CASE req.i = 2
        BY <1>3, <2>1, <2>3, <3>2
      <3> QED  BY <1>2, <3>1, <3>2
    <2>4. ASSUME req.dir = "revoke", req.i = 2 PROVE Key # "ours"
      <3>1. CASE disk[File] = Nothing
        BY <1>2, <2>4, <3>1, Contents, BlankHasNone DEF Key
      <3>2. CASE disk[File] # Nothing
        <4>1. Merged(disk[File]) = disk[File].doc
          BY <1>7, <3>2 DEF Looks, AsWanted
        <4>2. Revoke(KeyOf[tool], disk[KeyOf[tool]].doc) = disk[KeyOf[tool]].doc
          BY <1>2, <2>4, <4>1 DEF Merged
        <4> QED  BY <1>1, <4>2, RevokedHasNoKey DEF Key
      <3> QED  BY <3>1, <3>2
    <2> QED  BY <1>3, <1>6, <2>1, <2>2, <2>3, <2>4
  <1>8. CASE Prepares
    <2>1. /\ disk' = disk /\ past' = past /\ Key' = Key /\ req.at = "read"
          /\ req'.i = req.i /\ req'.dir = req.dir /\ req'.new = Merged(disk[File])
      BY <1>1, <1>8 DEF Prepares, ToBeWritten, Stays, Key
    <2>2. req.dir = "apply" /\ req.i = 1 => InUse(req'.new)
      BY <1>1, <1>2, <2>1, AppliedIsInUse DEF Merged
    <2>3. req.dir = "revoke" /\ req.i = 2 => Get(req'.new, "key") # "ours"
      BY <1>1, <1>2, <2>1, RevokedHasNoKey DEF Merged
    <2>4. req.at # "idle"
      BY <2>1
    <2> QED  BY <1>1, <1>3, <2>1, <2>2, <2>3, <2>4 DEF KeyInv
  <1>9. CASE Moves
    <2>1. /\ disk' = disk /\ past' = past /\ Key' = Key /\ req.at \in Stages
          /\ req'.i = req.i /\ req'.dir = req.dir /\ req'.new = req.new
      BY <1>1, <1>9 DEF Moves, Stays, Key
    <2> QED  BY <1>1, <1>3, <1>s, <2>1 DEF KeyInv
  <1>10. CASE Settles
    <2>1. PICK c : Landed(c)
      BY <1>10 DEF Settles
    <2>2. PICK r : Noted(r) /\ Advance(r)
      BY <2>1 DEF Landed
    <2>3. /\ c.doc = req.new /\ disk' = [disk EXCEPT ![File] = c] /\ req.at \in Stages
          /\ past'.halfRevoked = past.halfRevoked
      BY <1>10, <2>1, Contents DEF Landed, Settles
    <2>4. CASE req.i = 1
      <3>1. disk'[tool] = c /\ disk'[KeyOf[tool]] = disk[KeyOf[tool]]
        BY <1>2, <2>3, <2>4 DEF CliShape
      <3>2. req.dir = "apply" => InUse(disk'[tool].doc)
        BY <1>3, <2>3, <2>4, <3>1
      <3> QED  BY <1>6, <2>2, <2>3, <2>4, <3>2
    <2>5. CASE req.i = 2
      <3>1. disk'[tool] = disk[tool] /\ disk'[KeyOf[tool]] = c
        BY <1>2, <2>3, <2>5 DEF CliShape
      <3>2. req.dir = "apply" => InUse(disk'[tool].doc)
        BY <1>3, <1>s, <2>3, <2>5, <3>1
      <3>3. req.dir = "revoke" => Key' # "ours"
        BY <1>1, <1>3, <2>3, <2>5, <3>1 DEF Key
      <3> QED  BY <1>6, <2>2, <2>3, <3>2, <3>3
    <2> QED  BY <1>2, <2>4, <2>5
  <1>11. CASE UserEdits
    <2>0. PICK f \in Files : \E d : EditIsOf(f, d)
      BY <1>11 DEF UserEdits
    <2>9. PICK d : EditIsOf(f, d)
      BY <2>0
    <2>1. /\ Edited(f, d)
          /\ \/ d = Tweak(f, disk[f].doc)
             \/ /\ f \in DOMAIN Selections
                /\ \E k \in Selections[f], v \in {"user", "user2"} : d = Choose(f, disk[f].doc, k, v)
      BY <2>9 DEF EditIsOf
    <2>2. disk' = [disk EXCEPT ![f] = Doc(d)] /\ req' = req /\ past'.halfRevoked = past.halfRevoked
      BY <2>1 DEF Edited
    <2>3. {tool, KeyOf[tool]} \subseteq PlainFiles
      BY <1>1 DEF KeyOf, PlainFiles
    <2>4. f \in PlainFiles => Tweak(f, disk[f].doc) = Put(disk[f].doc, "own", "user2")
      BY TweakKeepsDocs DEF DocsInv
    <2>5. InUse(disk'[tool].doc) <=> InUse(disk[tool].doc)
      <3>1. CASE f = tool
        <4>1. disk'[tool].doc = d
          BY <1>2, <2>2, <3>1, Contents DEF CliShape
        <4> QED  BY <1>1, <2>1, <2>3, <2>4, <3>1, <4>1, UserKeepsInUse
      <3>2. CASE f # tool
        BY <1>2, <2>2, <3>2 DEF CliShape
      <3> QED  BY <3>1, <3>2
    <2>6. Key' = Key
      <3>1. CASE f = KeyOf[tool]
        <4>1. disk'[KeyOf[tool]].doc = d
          BY <1>2, <2>2, <3>1, Contents DEF CliShape
        <4> QED  BY <1>1, <2>1, <2>3, <2>4, <3>1, <4>1, UserKeepsInUse DEF Key
      <3>2. CASE f # KeyOf[tool]
        <4>1. disk'[KeyOf[tool]] = disk[KeyOf[tool]]
          BY <1>2, <2>2, <3>2 DEF CliShape
        <4> QED  BY <1>1, <4>1 DEF Key
      <3> QED  BY <3>1, <3>2
    <2> QED  BY <1>1, <1>3, <2>2, <2>5, <2>6 DEF KeyInv
  <1>12. CASE UNCHANGED vars
    BY <1>1, <1>3, <1>12 DEF vars, KeyInv, Key
  <1> QED  BY <1>4, <1>5, <1>7, <1>8, <1>9, <1>10, <1>11, <1>12, StepsAre DEF StepIsOne

\* With these invariants nothing dangles.
LEMMA DocsResolve ==
  ASSUME CliShape, DocsInv, KeyInv, "grok" \notin Tools
  PROVE  NothingDangles
  <1>1. ASSUME NEW f \in Files PROVE Resolves(f, disk[f].doc)
    <2>1. CASE f \in PlainFiles
      BY <2>1 DEF DocsInv, DocInv
    <2>2. CASE f \notin PlainFiles
      <3>1. tool \in DOMAIN FilesOf \ {"grok"}
        BY ToolsHaveFiles DEF CliShape
      <3>2. f \in {"copilot", "droid"}
        <4>1. tool \in {"copilot", "droid"}
          BY <2>2, <3>1, FilesAre DEF Files
        <4>2. FilesOf["copilot"] = <<"copilot">> /\ FilesOf["droid"] = <<"droid">>
          BY DEF FilesOf
        <4>3. PICK g : g \in {"copilot", "droid"} /\ FilesOf[tool] = <<g>>
          BY <4>1, <4>2
        <4>4. Len(FilesOf[tool]) = 1 /\ FilesOf[tool][1] = g
          BY <4>3
        <4>5. Files = {FilesOf[tool][i] : i \in 1..Len(FilesOf[tool])}
          BY <3>1, FilesAre DEF Files
        <4> QED  BY <4>3, <4>4, <4>5
      <3> QED  BY <3>2 DEF Resolves
    <2> QED  BY <2>1, <2>2
  <1>2. (tool \in DOMAIN KeyOf /\ ~past.halfRevoked /\ req.dir = "apply") =>
            (Get(disk[KeyOf[tool]].doc, "key") = "ours"
                => "ours" \in {Get(disk[tool].doc, k) : k \in {"block", "url"}})
    BY DEF KeyInv, Key, InUse
  <1> QED  BY <1>1, <1>2 DEF NothingDangles

\* NothingDangles, whatever fails or stops and even while the user edits: Writer::run
\* writes the file that uses a credential before the credential, and mutations.rs never
\* leaves a selection without what it selects.
THEOREM ConfigurationsHold ==
  ASSUME "grok" \notin Tools
  PROVE  Spec => []NothingDangles
  <1> DEFINE IInv == CliShape /\ StageInv /\ DocsInv /\ KeyInv
  <1>1. Init => IInv
    BY ShapeInitially, StageInitially, DocsInitially, KeyInitially
  <1>2. IInv /\ [Next]_vars => IInv'
    BY ShapeStep, StageStep, DocsStep, KeyStep
  <1>3. IInv => NothingDangles
    BY DocsResolve
  <1> QED  BY <1>1, <1>2, <1>3, PTL DEF Spec

---------------------------------------------------------------------------
(* What is the user's is kept. *)

PlainTools == Tools \cap {"copilot", "droid", "grok"} = {}

\* The files of these tools are plain.
LEMMA PlainToolsFiles == PlainTools /\ CliShape => Files \subseteq PlainFiles
  BY ToolsHaveFiles, FilesAre DEF PlainTools, CliShape, Files

\* What a request is about to write differs from what it will replace in nothing of the
\* user's.
MergedInv ==
    req.at \in Stages =>
        /\ disk[File].kind \notin {"garbage", "unnamed"}
        /\ Foreign(File, req.new) = Foreign(File, disk[File].doc)
        /\ req.dir = "revoke" => UserChoices(File, disk[File].doc) \subseteq UserChoices(File, req.new)

\* It holds at the start.
LEMMA MergedInitially == Init => MergedInv
  BY IdleIs DEF Init, MergedInv, Stages

\* Every step keeps it, as the user does not edit meanwhile.
LEMMA MergedStep ==
  ASSUME PlainTools, ~UserMayRace
  PROVE  CliShape /\ StageInv /\ DocsInv /\ MergedInv /\ [Next]_vars => MergedInv'
  <1> SUFFICES ASSUME CliShape, StageInv, DocsInv, MergedInv, [Next]_vars PROVE MergedInv'  OBVIOUS
  <1>1. tool' = tool /\ File \in Files /\ Files \subseteq PlainFiles
    BY StepsAre, FileIsOne, PlainToolsFiles DEF StepIsOne
  <1>2. CASE Begins \/ Leaves \/ Looks \/ Settles
    <2>1. req'.at \in {"idle", "read"}
      BY <1>2, NotedLeads
         DEF Begins, Leaves, Looks, PassedOver, AsWanted, Ended, After, Settles, Landed
    <2> QED  BY <2>1 DEF MergedInv, Stages
  <1>3. CASE Prepares
    <2>1. /\ disk' = disk /\ File' = File /\ req'.new = Merged(disk[File]) /\ req'.dir = req.dir
          /\ disk[File].kind \notin {"garbage", "unnamed"}
      BY <1>1, <1>3 DEF Prepares, ToBeWritten, Stays, File
    <2>2. DocInv(File, disk[File].doc)
      BY <1>1 DEF DocsInv
    <2>3. Foreign(File, Merged(disk[File])) = Foreign(File, disk[File].doc)
      BY <1>1, ApplyKeepsForeign, RevokeKeepsForeign DEF Merged, CliShape
    <2>4. req.dir = "revoke" =>
              UserChoices(File, disk[File].doc) \subseteq UserChoices(File, Merged(disk[File]))
      BY <1>1, RevokeKeepsChoices DEF Merged
    <2> QED  BY <2>1, <2>3, <2>4 DEF MergedInv
  <1>4. CASE Moves
    <2>1. disk' = disk /\ File' = File /\ req'.new = req.new /\ req.at \in Stages /\ req'.dir = req.dir
      BY <1>1, <1>4 DEF Moves, Stays, File
    <2> QED  BY <2>1 DEF MergedInv
  <1>5. CASE UserEdits
    <2>1. req.at = "idle" /\ req' = req
      BY <1>5 DEF UserEdits, EditIsOf, Edited
    <2> QED  BY <2>1 DEF MergedInv, Stages
  <1>6. CASE UNCHANGED vars
    <2>1. disk' = disk /\ File' = File /\ req' = req
      BY <1>1, <1>6 DEF vars, File
    <2> QED  BY <2>1 DEF MergedInv
  <1> QED  BY <1>2, <1>3, <1>4, <1>5, <1>6, StepsAre DEF StepIsOne

\* A step that is not the user's keeps the user's settings.
LEMMA SettingsStay ==
  ASSUME PlainTools, CliShape, StageInv, DocsInv, MergedInv, [Next]_vars
  PROVE  SettingsKept
  <1> SUFFICES ASSUME spent'.edits = spent.edits, NEW f \in Files
               PROVE  /\ disk[f].kind = "doc" \/ disk'[f].kind = "doc"
                            => Foreign(f, disk'[f].doc) = Foreign(f, disk[f].doc)
                      /\ disk[f].kind \in {"garbage", "unnamed"} => disk'[f] = disk[f]
                      /\ req.dir = "revoke"
                            => UserChoices(f, disk[f].doc) \subseteq UserChoices(f, disk'[f].doc)
    BY DEF SettingsKept
  <1>1. CASE disk' = disk
    BY <1>1
  <1>2. CASE Settles
    <2>1. PICK c : Landed(c)
      BY <1>2 DEF Settles
    <2>2. c.doc = req.new /\ disk' = [disk EXCEPT ![File] = c]
      BY <2>1, Contents DEF Landed
    <2>3. CASE f = File
      <3>1. disk'[f].doc = req.new
        BY <2>2, <2>3 DEF CliShape
      <3> QED  BY <1>2, <2>3, <3>1 DEF Settles, MergedInv
    <2>4. CASE f # File
      BY <2>2, <2>4 DEF CliShape
    <2> QED  BY <2>3, <2>4
  <1>3. CASE UserEdits
    <2>1. spent'.edits = spent.edits + 1 /\ spent.edits \in Nat
      BY <1>3 DEF UserEdits, EditIsOf, Edited, CliShape
    <2> QED  BY <2>1
  <1> QED  BY <1>1, <1>2, <1>3, StepsAre
           DEF StepIsOne, Begins, Leaves, Looks, Prepares, Moves, vars

\* UserContentKept: Target::run never loses what the user wrote, neither what back_up_once
\* is there for nor what stands beside our settings, nor a choice made since in a file whose
\* revoke looks whose it is. The choices that Blind names are taken without a look.
THEOREM TheUsersIsKept ==
  ASSUME PlainTools, ~UserMayRace, ~UserHasOnlyKey
  PROVE  Spec => UserContentKept
  <1> DEFINE IInv == CliShape /\ StageInv /\ DocsInv /\ MergedInv /\ OriginalsInv
  <1>1. Init => IInv
    BY ShapeInitially, StageInitially, DocsInitially, MergedInitially, OriginalsInitially
  <1>2. IInv /\ [Next]_vars => IInv'
    BY ShapeStep, StageStep, DocsStep, MergedStep, OriginalsStep
  <1>3. IInv /\ IInv' /\ [Next]_vars => OriginalKept' /\ SettingsKept
    <2>1. IInv' => OriginalKept'
      BY OriginalsHold, PTL
    <2>2. IInv /\ [Next]_vars => SettingsKept
      BY SettingsStay
    <2> QED  BY <2>1, <2>2
  <1> QED  BY <1>1, <1>2, <1>3, PTL DEF Spec, UserContentKept

\* OriginalKept, the first part of UserContentKept, for every tool and even while the user
\* edits: back_up_once copies a file before write_atomically first replaces it.
THEOREM OriginalsAreKept ==
  ASSUME ~UserHasOnlyKey
  PROVE  Spec => []OriginalKept
  <1> DEFINE IInv == CliShape /\ OriginalsInv
  <1>1. Init => IInv
    BY ShapeInitially, OriginalsInitially
  <1>2. IInv /\ [Next]_vars => IInv'
    BY ShapeStep, OriginalsStep
  <1>3. IInv => OriginalKept
    BY OriginalsHold
  <1> QED  BY <1>1, <1>2, <1>3, PTL DEF Spec

---------------------------------------------------------------------------
(* The answer is true. *)

\* The file f of the contents m is what the request is about.
Fulfils(m, f, dir, p) ==
    IF dir = "apply"
    THEN (f = "hermesEnv" => p.key) /\ (f = "agentModels" => Get(m["openclaw"].doc, "agents") = "dir")
            => m[f].kind = "doc" /\ Uses(f, m[f].doc, p)
    ELSE m[f].kind = "doc" => ~LeftOver(f, m[f].doc)

\* The files a request has dealt with.
Before(n) == {FilesOf[tool][j] : j \in 1..(n - 1)}

AnswerInv ==
    /\ req.at # "idle" =>
          /\ answer.kind = "none"
          /\ \A f \in Before(req.i) \ req.warned : Fulfils(disk, f, req.dir, req.p)
    /\ req.at \in Stages => IF req.dir = "apply" THEN Uses(File, req.new, req.p)
                                                 ELSE ~LeftOver(File, req.new)
    /\ answer.kind \in {"ok", "nothing"} =>
          \A f \in Files \ answer.warned : Fulfils(disk, f, answer.dir, answer.p)

Agents(m) == Get(m["openclaw"].doc, "agents")

\* OpenClaw's second file has something of ours only in the directory its first one names.
AgentInv ==
    tool = "openclaw" =>
        /\ LeftOver("agentModels", disk["agentModels"].doc) => Agents(disk) = "dir"
        /\ req.at # "idle" /\ req.i = 2 => Agents(disk) = "dir"

\* What the request knows of OpenClaw's first file is what it holds.
Knows(r) ==
    tool = "openclaw" /\ req.i = 1 =>
        (Agents(disk') = "dir" <=> r.last.kind = "doc" /\ Get(r.last.doc, "agents") = "dir")

\* The order of OpenClaw's two files, and when the second follows.
LEMMA OpenClawFiles ==
  ASSUME CliShape
  PROVE  /\ tool = "openclaw" =>
               /\ "openclaw" \in Files /\ "agentModels" \in Files /\ req.i \in {1, 2}
               /\ (req.i = 1 => File = "openclaw") /\ (req.i = 2 => File = "agentModels")
               /\ Files = {"openclaw", "agentModels"} /\ File \notin BestEffort
         /\ tool # "openclaw" => "openclaw" \notin Files /\ "agentModels" \notin Files
         /\ \A r : Noted(r) =>
               (Continues(r) <=> /\ req.i < Len(FilesOf[tool])
                                 /\ tool = "openclaw" => r.last.kind = "doc" /\ Get(r.last.doc, "agents") = "dir")
  <1>1. tool \in DOMAIN FilesOf
    BY ToolsHaveFiles DEF CliShape
  <1>2. tool # "openclaw" => "openclaw" \notin Files /\ "agentModels" \notin Files
    BY <1>1, FilesAre DEF Files
  <1>3. ASSUME tool = "openclaw"
        PROVE  /\ "openclaw" \in Files /\ "agentModels" \in Files /\ req.i \in {1, 2}
               /\ (req.i = 1 => File = "openclaw") /\ (req.i = 2 => File = "agentModels")
               /\ Files = {"openclaw", "agentModels"} /\ File \notin BestEffort
    <2>1. FilesOf[tool] = <<"openclaw", "agentModels">> /\ Files = {FilesOf[tool][i] : i \in 1..Len(FilesOf[tool])}
      BY <1>1, <1>3, FilesAre DEF Files
    <2>2. Len(FilesOf[tool]) = 2 /\ FilesOf[tool][1] = "openclaw" /\ FilesOf[tool][2] = "agentModels"
      BY <2>1
    <2>3. req.i \in 1..2
      BY <2>2 DEF CliShape
    <2>4. Files = {"openclaw", "agentModels"}
      BY <2>1, <2>2
    <2> QED  BY <2>2, <2>3, <2>4 DEF File, BestEffort
  <1>4. \A r : Noted(r) =>
            (Continues(r) <=> /\ req.i < Len(FilesOf[tool])
                              /\ tool = "openclaw" => r.last.kind = "doc" /\ Get(r.last.doc, "agents") = "dir")
    BY DEF Noted, Continues
  <1> QED  BY <1>2, <1>3, <1>4

\* In what a request reads and writes, of OpenClaw's agents.
LEMMA AgentsKnown ==
  ASSUME CliShape, StageInv, DocsInv, MergedInv
  PROVE  /\ Looks => \A r : (r.last = Nothing /\ disk[File] = Nothing) \/ r.last = Doc(disk[File].doc) => Knows(r)
         /\ \A c : Landed(c) /\ req.at \in Stages =>
               /\ tool = "openclaw" => Agents(disk') = Agents(disk)
               /\ \A r : r.last = Doc(req.new) => Knows(r)
  <1>1. ASSUME Looks, NEW r, (r.last = Nothing /\ disk[File] = Nothing) \/ r.last = Doc(disk[File].doc)
        PROVE  Knows(r)
    <2> SUFFICES ASSUME tool = "openclaw", req.i = 1
                 PROVE  Agents(disk') = "dir" <=> r.last.kind = "doc" /\ Get(r.last.doc, "agents") = "dir"
      BY DEF Knows
    <2>1. disk' = disk /\ File = "openclaw"
      BY <1>1, OpenClawFiles DEF Looks
    <2> QED  BY <1>1, <2>1, Contents, BlankHasNone DEF Agents
  <1>2. ASSUME NEW c, Landed(c), req.at \in Stages
        PROVE  /\ tool = "openclaw" => Agents(disk') = Agents(disk)
               /\ \A r : r.last = Doc(req.new) => Knows(r)
    <2>1. c.doc = req.new /\ disk' = [disk EXCEPT ![File] = c]
      BY <1>2, Contents DEF Landed
    <2>2. CASE tool = "openclaw" /\ req.i = 1
      <3>1. File = "openclaw" /\ "openclaw" \in Files
        BY <2>2, OpenClawFiles
      <3>2. disk'["openclaw"].doc = req.new
        BY <2>1, <3>1 DEF CliShape
      <3>3. Foreign("openclaw", req.new) = Foreign("openclaw", disk["openclaw"].doc)
        BY <1>2, <3>1 DEF MergedInv
      <3>4. Get(req.new, "agents") = Get(disk["openclaw"].doc, "agents")
        BY <3>3 DEF Foreign
      <3> QED  BY <3>2, <3>4, Contents DEF Agents, Knows
    <2>3. CASE tool = "openclaw" /\ req.i = 2
      <3>1. disk'["openclaw"] = disk["openclaw"]
        BY <2>1, <2>3, OpenClawFiles DEF CliShape
      <3> QED  BY <2>3, <3>1 DEF Agents, Knows
    <2> QED  BY <2>2, <2>3, OpenClawFiles DEF Knows
  <1> QED  BY <1>1, <1>2

\* It holds at the start.
LEMMA AgentInitially == Init => AgentInv
  <1> SUFFICES ASSUME Init, tool = "openclaw" PROVE AgentInv
    BY DEF AgentInv
  <1>1. req.at = "idle"
    BY IdleIs DEF Init
  <1>2. disk["agentModels"] \in Starts("agentModels")
    BY ShapeInitially, OpenClawFiles DEF Init
  <1> DEFINE old == Put(Own, "legacy", "9router")
  <1>3. disk["agentModels"].doc \in {Blank, Own, old}
    BY <1>2 DEF Starts, StartingDocs, Nothing, Garbage, Doc
  <1>4. ASSUME NEW d \in {Blank, Own, old} PROVE ~LeftOver("agentModels", d)
    <2>1. /\ \A k : /\ Has([own |-> "user"], k) <=> k = "own"
                    /\ Get([own |-> "user"], k) = IF k = "own" THEN "user" ELSE "none"
      BY DEF Has, Get
    <2>2. \A k : Get(d, k) = "9router" => k = "legacy"
      BY <1>4, <2>1, BlankHasNone, Putting DEF Own
    <2>3. \A k : Get(d, k) \in {"none", "user", "9router"} /\ ~Has(d, "allow")
      BY <1>4, <2>1, BlankHasNone, Putting DEF Own
    <2>4. \A k : Get(d, k) \in Marks => <<k, Get(d, k)>> \in StaysBehind("agentModels")
      BY <2>2, <2>3 DEF Marks, Ours, Models, StaysBehind
    <2> QED  BY WhatIsLeft, <2>3, <2>4 DEF PlainFiles, Allowed
  <1> QED  BY <1>1, <1>3, <1>4 DEF AgentInv

\* Every step keeps it: nothing but the user creates or removes an agent's directory.
LEMMA AgentStep ==
  ASSUME ~UserMayRace
  PROVE  CliShape /\ StageInv /\ DocsInv /\ MergedInv /\ AgentInv /\ [Next]_vars => AgentInv'
  <1> SUFFICES ASSUME CliShape, StageInv, DocsInv, MergedInv, AgentInv, [Next]_vars, tool' = "openclaw"
               PROVE  AgentInv'
    BY DEF AgentInv
  <1>1. tool' = tool /\ tool = "openclaw"
    BY StepsAre DEF StepIsOne
  <1>2. /\ LeftOver("agentModels", disk["agentModels"].doc) => Agents(disk) = "dir"
        /\ req.at # "idle" /\ req.i = 2 => Agents(disk) = "dir"
    BY <1>1 DEF AgentInv
  <1>3. /\ "openclaw" \in Files /\ "agentModels" \in Files /\ req.i \in {1, 2}
        /\ (req.i = 1 => File = "openclaw") /\ (req.i = 2 => File = "agentModels")
        /\ File \notin BestEffort
    BY <1>1, OpenClawFiles
  <1>4. ASSUME disk' = disk, req'.at = "idle" \/ req'.i = 1 \/ (req.at # "idle" /\ req'.i = req.i)
        PROVE  AgentInv'
    BY <1>1, <1>2, <1>4 DEF AgentInv
  <1>5. CASE Begins
    BY <1>4, <1>5 DEF Begins, Ended
  <1>6. CASE Leaves
    BY <1>3, <1>4, <1>6 DEF Leaves, PassedOver, Ended
  <1>7. CASE Prepares \/ Moves
    <2>1. disk' = disk /\ req.at # "idle" /\ req'.i = req.i
      BY <1>7 DEF Prepares, Moves, ToBeWritten, Stays, Stages
    <2> QED  BY <1>4, <2>1
  <1>8. ASSUME NEW r, Noted(r), Advance(r), Knows(r), req.at # "idle",
               LeftOver("agentModels", disk'["agentModels"].doc) => Agents(disk') = "dir"
        PROVE  AgentInv'
    <2>1. After(r) /\ (Continues(r) => r.last.kind = "doc" /\ Get(r.last.doc, "agents") = "dir")
      BY <1>1, <1>8, NotedLeads, OpenClawFiles
    <2>2. CASE Continues(r)
      <3>1. req.i < Len(FilesOf[tool]) /\ Len(FilesOf[tool]) \in {1, 2}
        BY <1>1, <1>8, <2>2, OpenClawFiles, FilesAre, ToolsHaveFiles DEF CliShape
      <3>2. req.i = 1
        <4>1. PICK n \in {1, 2} : n = Len(FilesOf[tool])
          BY <3>1
        <4>2. PICK k \in {1, 2} : k = req.i
          BY <1>3
        <4>3. k < n
          BY <3>1, <4>1, <4>2
        <4>4. k = 1
          BY <4>3
        <4> QED  BY <4>2, <4>4
      <3> QED  BY <1>1, <1>8, <2>1, <2>2, <3>2 DEF AgentInv, Knows
    <2>3. CASE ~Continues(r)
      <3>1. req'.at = "idle"
        BY <2>1, <2>3 DEF After
      <3> QED  BY <1>1, <1>8, <3>1 DEF AgentInv
    <2> QED  BY <2>2, <2>3
  <1>9. CASE Looks
    <2>1. PICK r : /\ Noted(r) /\ Advance(r)
                   /\ (r.last = Nothing /\ disk[File] = Nothing) \/ r.last = Doc(disk[File].doc)
      BY <1>9 DEF Looks, AsWanted
    <2>2. Knows(r)
      BY <1>9, <2>1, AgentsKnown
    <2>3. disk' = disk /\ req.at # "idle"
      BY <1>9 DEF Looks
    <2> QED  BY <1>2, <1>8, <2>1, <2>2, <2>3
  <1>10. CASE Settles
    <2>1. PICK c : Landed(c) /\ req.at \in Stages
      BY <1>10 DEF Settles
    <2>2. PICK r : Noted(r) /\ r.last = Doc(req.new) /\ Advance(r)
      BY <2>1 DEF Landed
    <2>3. Agents(disk') = Agents(disk) /\ Knows(r)
      BY <1>1, <2>1, <2>2, AgentsKnown
    <2>4. req.at # "idle"
      BY <2>1 DEF Stages
    <2>5. req.i = 1 => disk'["agentModels"] = disk["agentModels"]
      BY <1>3, <2>1 DEF Landed, CliShape
    <2> QED  BY <1>2, <1>3, <1>8, <2>2, <2>3, <2>4, <2>5
  <1>11. CASE UserEdits
    <2>0. PICK f \in Files : \E d : EditIsOf(f, d)
      BY <1>11 DEF UserEdits
    <2>9. PICK d : EditIsOf(f, d)
      BY <2>0
    <2>1. /\ Edited(f, d)
          /\ \/ d = Tweak(f, disk[f].doc)
             \/ /\ f \in DOMAIN Selections
                /\ \E k \in Selections[f], v \in {"user", "user2"} : d = Choose(f, disk[f].doc, k, v)
      BY <2>9 DEF EditIsOf
    <2>2. disk' = [disk EXCEPT ![f] = Doc(d)] /\ req' = req /\ req.at = "idle"
      BY <2>1 DEF Edited
    <2>3. Agents(disk') = Agents(disk)
      <3>1. CASE f = "openclaw"
        <4>1. disk'["openclaw"].doc = d
          BY <1>3, <2>2, <3>1, Contents DEF CliShape
        <4>2. d = Tweak("openclaw", disk["openclaw"].doc)
                \/ \E v : \E k \in {"primary", "agent"} : d = Choose("openclaw", disk["openclaw"].doc, k, v)
          BY <2>1, <3>1 DEF Selections
        <4>3. Get(d, "agents") = Get(disk["openclaw"].doc, "agents")
          <5>1. PICK e : e = disk["openclaw"].doc  OBVIOUS
          <5>2. \/ d = Put(e, "own", "user2")
                \/ \E v, w : \E k \in {"primary", "agent"} : d = Put(Put(e, k, v), "allow", w)
            BY <4>2, <5>1 DEF Tweak, Choose
          <5> QED  BY <5>1, <5>2, Putting
        <4> QED  BY <4>1, <4>3 DEF Agents
      <3>2. CASE f # "openclaw"
        BY <1>3, <2>2, <3>2 DEF CliShape, Agents
      <3> QED  BY <3>1, <3>2
    <2>4. LeftOver("agentModels", disk'["agentModels"].doc) => LeftOver("agentModels", disk["agentModels"].doc)
      <3>1. CASE f = "agentModels"
        <4>1. disk'["agentModels"].doc = d
          BY <1>3, <2>2, <3>1, Contents DEF CliShape
        <4>2. PICK e : e = disk["agentModels"].doc  OBVIOUS
        <4>3. d = Put(e, "own", "user2")
          BY <2>1, <3>1, <4>2 DEF Selections, Tweak
        <4>4. LeftOver("agentModels", d) => LeftOver("agentModels", e)
          <5>1. /\ DOMAIN d = DOMAIN e \cup {"own"} /\ d["own"] = "user2"
                /\ \A k \in DOMAIN e : k # "own" => d[k] = e[k]
            BY <4>3 DEF Put
          <5>2. Allowed(d) = Allowed(e)
            BY <5>1 DEF Allowed, Has
          <5>3. \A k : ~LeftWith("agentModels", e, k)
            BY DEF LeftWith, LooksAt
          <5>4. "user2" \notin Marks
            BY DEF Marks, Ours, Models
          <5>5. ASSUME NEW k \in DOMAIN d \ {"allow"},
                       <<k, d[k]>> \in ({k} \X Marks) \ StaysBehind("agentModels")
                PROVE  k \in DOMAIN e \ {"allow"} /\ d[k] = e[k]
            BY <5>1, <5>4, <5>5
          <5> QED  BY <5>2, <5>3, <5>5 DEF LeftOver
        <4> QED  BY <4>1, <4>2, <4>4
      <3>2. CASE f # "agentModels"
        BY <1>3, <2>2, <3>2 DEF CliShape
      <3> QED  BY <3>1, <3>2
    <2> QED  BY <1>1, <1>2, <2>2, <2>3, <2>4 DEF AgentInv
  <1>12. CASE UNCHANGED vars
    BY <1>1, <1>2, <1>12 DEF vars, AgentInv
  <1> QED  BY <1>5, <1>6, <1>7, <1>9, <1>10, <1>11, <1>12, StepsAre DEF StepIsOne

\* It holds at the start.
LEMMA AnswerInitially == Init => AnswerInv
  <1> SUFFICES ASSUME Init PROVE AnswerInv  OBVIOUS
  <1>1. req.at = "idle" /\ answer.kind = "none"
    BY IdleIs DEF Init, NoAnswer
  <1> QED  BY <1>1 DEF AnswerInv, Stages

\* A file whose content is not touched is what it was; OpenClaw's second is so as long as
\* the first one names the same.
LEMMA FulfilsKept ==
  ASSUME NEW m, NEW n, NEW f, NEW dir, NEW p, n[f] = m[f], Fulfils(m, f, dir, p),
         f = "agentModels" => n["openclaw"] = m["openclaw"]
  PROVE  Fulfils(n, f, dir, p)
  BY DEF Fulfils

\* Before the file it is at, a request has dealt with other ones, and not with OpenClaw's
\* second.
LEMMA BeforeFile ==
  ASSUME CliShape
  PROVE  /\ Before(req.i) \subseteq Files \ {File, "agentModels"}
         /\ Before(req.i + 1) = Before(req.i) \cup {File} /\ Before(1) = {}
         /\ req.i = Len(FilesOf[tool]) => Files = Before(req.i) \cup {File}
         /\ req.i # Len(FilesOf[tool]) => req.i = 1 /\ req.i < Len(FilesOf[tool])
  <1>1. PICK n \in {1, 2}, i \in {1, 2} : n = Len(FilesOf[tool]) /\ i = req.i /\ i \in 1..n
    <2>1. Len(FilesOf[tool]) \in {1, 2} /\ req.i \in 1..Len(FilesOf[tool])
      BY ToolsHaveFiles, FilesAre DEF CliShape
    <2>2. PICK n \in {1, 2} : n = Len(FilesOf[tool])
      BY <2>1
    <2>3. req.i \in 1..n
      BY <2>1, <2>2
    <2>4. req.i \in {1, 2}
      BY <2>3
    <2> QED  BY <2>2, <2>3, <2>4
  <1>2. Files = {FilesOf[tool][j] : j \in 1..n} /\ (n = 2 => FilesOf[tool][1] # FilesOf[tool][2])
    BY <1>1, ToolsHaveFiles, FilesAre DEF CliShape, Files
  <1>3. Before(1) = {} /\ Before(2) = {FilesOf[tool][1]} /\ Before(3) = {FilesOf[tool][1], FilesOf[tool][2]}
    <2>1. 1..(1 - 1) = {} /\ 1..(2 - 1) = {1} /\ 1..(3 - 1) = {1, 2}
      OBVIOUS
    <2> QED  BY <2>1 DEF Before
  <1>4. File = FilesOf[tool][i] /\ Before(req.i) = Before(i) /\ Before(req.i + 1) = Before(i + 1)
    BY <1>1 DEF File
  <1>5. i = 2 => n = 2 /\ FilesOf[tool][1] # "agentModels"
    <2>1. tool = "openclaw" => FilesOf[tool][1] = "openclaw"
      BY ToolsHaveFiles, FilesAre DEF CliShape
    <2>2. tool # "openclaw" => "agentModels" \notin Files
      BY OpenClawFiles
    <2>3. i = 2 => n = 2
      <3>1. i \in 1..n /\ (n = 1 \/ n = 2)
        BY <1>1
      <3>2. n = 1 => i = 1
        BY <3>1
      <3> QED  BY <3>1, <3>2
    <2>4. FilesOf[tool][1] \in Files
      BY <1>1, <1>2
    <2> QED  BY <2>1, <2>2, <2>3, <2>4
  <1>6. CASE i = 1
    <2>1. i + 1 = 2 /\ Before(i + 1) = Before(2)
      BY <1>6
    <2>2. n = 1 => 1..n = {1}
      OBVIOUS
    <2> QED  BY <1>1, <1>2, <1>3, <1>4, <1>6, <2>1, <2>2
  <1>7. CASE i = 2
    <2>1. i + 1 = 3 /\ Before(i + 1) = Before(3)
      BY <1>7
    <2>2. n = 2 /\ 1..n = {1, 2}
      BY <1>5, <1>7
    <2> QED  BY <1>1, <1>2, <1>3, <1>4, <1>5, <1>7, <2>1, <2>2
  <1> QED  BY <1>6, <1>7

\* The request has dealt with its file.
LEMMA AnswerAdvances ==
  ASSUME CliShape, DocsInv, AnswerInv, AgentInv', req.at # "idle", tool' = tool, Files \subseteq DOMAIN disk',
         \A f \in Files \ {File} : disk'[f] = disk[f],
         NEW r, Noted(r), Advance(r), Knows(r), req.warned \subseteq r.warned,
         File \notin r.warned => Fulfils(disk', File, req.dir, req.p)
  PROVE  AnswerInv'
  <1>1. After(r) /\ r.dir = req.dir /\ r.p = req.p /\ r.i = req.i
    BY NotedLeads DEF Noted
  <1>2. File \in Files /\ Files' = Files /\ \A n : Before(n)' = Before(n)
    BY FileIsOne DEF Files, Before
  <1>3. \A f \in (Before(req.i) \cup {File}) \ r.warned : Fulfils(disk', f, req.dir, req.p)
    <2>1. ASSUME NEW f \in Before(req.i) \ r.warned PROVE Fulfils(disk', f, req.dir, req.p)
      <3>1. Fulfils(disk, f, req.dir, req.p)
        BY <2>1 DEF AnswerInv
      <3>2. f \in Files \ {File, "agentModels"}
        BY <2>1, BeforeFile
      <3> QED  BY <3>1, <3>2, FulfilsKept
    <2> QED  BY <2>1
  <1>4. CASE Continues(r)
    <2>1. /\ req'.at = "read" /\ req'.i = req.i + 1 /\ req'.dir = req.dir /\ req'.p = req.p
          /\ r.warned \subseteq req'.warned /\ answer' = answer
      BY <1>1, <1>4 DEF After
    <2>2. Before(req'.i) = Before(req.i) \cup {File}
      BY <2>1, BeforeFile
    <2>3. answer'.kind = "none"
      BY <2>1 DEF AnswerInv
    <2>4. Before(req.i)' = Before(req'.i)
      BY <1>2
    <2> QED  BY <1>3, <2>1, <2>2, <2>3, <2>4 DEF AnswerInv, Stages
  <1>5. CASE ~Continues(r)
    <2>1. /\ req'.at = "idle" /\ answer'.dir = req.dir /\ answer'.p = req.p
          /\ answer'.warned = r.warned \cup Skipped(r)
      BY <1>1, <1>5 DEF After
    <2>2. ASSUME NEW f \in Files \ answer'.warned PROVE Fulfils(disk', f, req.dir, req.p)
      <3>1. CASE f \in Before(req.i) \cup {File}
        BY <1>3, <2>1, <2>2, <3>1
      <3>2. CASE f \notin Before(req.i) \cup {File}
        <4>1. req.i = 1 /\ req.i < Len(FilesOf[tool])
          BY <2>2, <3>2, BeforeFile
        <4>2. tool = "openclaw" /\ ~(r.last.kind = "doc" /\ Get(r.last.doc, "agents") = "dir")
          BY <1>5, <4>1, OpenClawFiles
        <4>3. f = "agentModels"
          BY <2>2, <3>2, <4>1, <4>2, OpenClawFiles
        <4>4. Agents(disk') # "dir"
          BY <4>1, <4>2 DEF Knows
        <4>5. ~LeftOver("agentModels", disk'["agentModels"].doc)
          BY <4>2, <4>4 DEF AgentInv
        <4> QED  BY <4>3, <4>4, <4>5 DEF Fulfils, Agents
      <3> QED  BY <3>1, <3>2
    <2> QED  BY <1>2, <2>1, <2>2 DEF AnswerInv, Stages
  <1> QED  BY <1>4, <1>5

\* Every step keeps it.
LEMMA AnswerStep ==
  ASSUME PlainTools, ~UserMayRace
  PROVE  /\ CliShape /\ StageInv /\ DocsInv /\ MergedInv /\ AgentInv /\ AnswerInv
         /\ [Next]_vars /\ AgentInv'
         => AnswerInv'
  <1> SUFFICES ASSUME CliShape, StageInv, DocsInv, MergedInv, AgentInv, AnswerInv, [Next]_vars, AgentInv'
               PROVE  AnswerInv'
    OBVIOUS
  <1>1. /\ tool' = tool /\ File \in Files /\ Files' = Files /\ Files \subseteq PlainFiles
        /\ \A n : Before(n)' = Before(n)
    BY StepsAre, FileIsOne, PlainToolsFiles DEF StepIsOne, Files, Before
  <1>2. DocInv(File, disk[File].doc) /\ Offer(req.p) /\ req.dir \in {"apply", "revoke"}
    BY <1>1 DEF DocsInv, CliShape
  <1>3. ASSUME Ended PROVE AnswerInv'
    BY <1>3 DEF Ended, AnswerInv, Stages
  <1>4. CASE Begins
    <2>1. ASSUME req'.at = "read", req'.i = 1, answer' = NoAnswer PROVE AnswerInv'
      <3>1. Before(req.i)' = {} /\ answer'.kind = "none"
        BY <1>1, <2>1, BeforeFile DEF NoAnswer
      <3> QED  BY <2>1, <3>1 DEF AnswerInv, Stages
    <2> QED  BY <1>3, <1>4, <2>1 DEF Begins
  <1>5. CASE Leaves
    <2>1. ASSUME PassedOver PROVE AnswerInv'
      <3>1. PICK r : Noted(r) /\ r.warned = req.warned \cup {File} /\ Advance(r) /\ File \in BestEffort
        BY <2>1 DEF PassedOver
      <3>2. Knows(r)
        BY <3>1, OpenClawFiles DEF Knows
      <3>3. disk' = disk /\ req.at # "idle"
        BY <1>5 DEF Leaves
      <3> QED  BY <1>1, <3>1, <3>2, <3>3, AnswerAdvances DEF CliShape
    <2> QED  BY <1>3, <1>5, <2>1 DEF Leaves
  <1>6. CASE Looks
    <2>1. PICK r : /\ Noted(r) /\ Advance(r) /\ r.warned = req.warned
                   /\ (r.last = Nothing /\ disk[File] = Nothing) \/ r.last = Doc(disk[File].doc)
      BY <1>6 DEF Looks, AsWanted
    <2>2. Knows(r)
      BY <1>6, <2>1, AgentsKnown
    <2>3. /\ disk' = disk /\ req.at # "idle" /\ disk[File].kind \in {"none", "doc"}
          /\ \/ req.dir = "revoke" /\ disk[File] = Nothing
             \/ Merged(disk[File]) = disk[File].doc
      BY <1>1, <1>6 DEF Looks, AsWanted, DocsInv
    <2>4. Fulfils(disk, File, req.dir, req.p)
      <3>1. CASE req.dir = "apply"
        <4>1. Apply(File, disk[File].doc, req.p) = disk[File].doc
          BY <2>3, <3>1 DEF Merged
        <4>2. /\ Uses(File, disk[File].doc, req.p)
              /\ (File = "hermesEnv" => req.p.key) => disk[File].doc # Blank
          BY <1>1, <1>2, <4>1, AppliedUses
        <4>3. (File = "hermesEnv" => req.p.key) => disk[File].kind = "doc"
          BY <1>1, <4>2 DEF DocsInv
        <4> QED  BY <3>1, <4>2, <4>3 DEF Fulfils
      <3>2. CASE req.dir = "revoke"
        <4>1. CASE disk[File] = Nothing
          BY <3>2, <4>1, Contents DEF Fulfils
        <4>2. CASE Revoke(File, disk[File].doc) = disk[File].doc
          BY <1>1, <1>2, <3>2, <4>2, RevokedIsClean DEF Fulfils
        <4> QED  BY <2>3, <3>2, <4>1, <4>2 DEF Merged
      <3> QED  BY <1>2, <3>1, <3>2
    <2> QED  BY <1>1, <2>1, <2>2, <2>3, <2>4, AnswerAdvances DEF CliShape
  <1>7. ASSUME disk' = disk, answer' = answer, req'.i = req.i, req'.dir = req.dir, req'.p = req.p,
               req'.warned = req.warned, req.at # "idle",
               IF req.dir = "apply" THEN Uses(File, req'.new, req.p) ELSE ~LeftOver(File, req'.new)
        PROVE  AnswerInv'
    <2>1. File' = File /\ Before(req.i)' = Before(req.i) /\ answer'.kind = "none"
      BY <1>1, <1>7 DEF File, AnswerInv
    <2>2. \A f \in Before(req.i) \ req.warned : Fulfils(disk, f, req.dir, req.p)
      BY <1>7 DEF AnswerInv
    <2> QED  BY <1>7, <2>1, <2>2 DEF AnswerInv
  <1>8. CASE Prepares
    <2>1. /\ disk' = disk /\ answer' = answer /\ req'.i = req.i /\ req'.dir = req.dir /\ req'.p = req.p
          /\ req'.warned = req.warned /\ req.at # "idle" /\ req'.new = Merged(disk[File])
      BY <1>8 DEF Prepares, ToBeWritten, Stays
    <2>2. IF req.dir = "apply" THEN Uses(File, Merged(disk[File]), req.p)
                               ELSE ~LeftOver(File, Merged(disk[File]))
      BY <1>1, <1>2, AppliedUses, RevokedIsClean DEF Merged
    <2> QED  BY <1>7, <2>1, <2>2
  <1>9. CASE Moves
    <2>1. /\ disk' = disk /\ answer' = answer /\ req'.i = req.i /\ req'.dir = req.dir /\ req'.p = req.p
          /\ req'.warned = req.warned /\ req'.new = req.new /\ req.at \in Stages
      BY <1>9 DEF Moves, Stays
    <2>2. req.at # "idle" /\ IF req.dir = "apply" THEN Uses(File, req.new, req.p)
                                                  ELSE ~LeftOver(File, req.new)
      BY <2>1 DEF AnswerInv, Stages
    <2> QED  BY <1>7, <2>1, <2>2
  <1>10. CASE Settles
    <2>1. PICK c : Landed(c) /\ req.at \in Stages
      BY <1>10 DEF Settles
    <2>2. PICK r : Noted(r) /\ r.last = Doc(req.new) /\ r.warned = req.warned /\ Advance(r)
      BY <2>1 DEF Landed
    <2>3. Knows(r)
      BY <2>1, <2>2, AgentsKnown
    <2>4. /\ disk' = [disk EXCEPT ![File] = c] /\ c.doc = req.new
          /\ req.dir = "apply" => c.kind = "doc"
      BY <2>1, Contents DEF Landed
    <2>5. disk'[File] = c /\ \A f \in Files \ {File} : disk'[f] = disk[f]
      BY <1>1, <2>4 DEF CliShape
    <2>6. IF req.dir = "apply" THEN Uses(File, req.new, req.p) ELSE ~LeftOver(File, req.new)
      BY <2>1 DEF AnswerInv
    <2>7. Fulfils(disk', File, req.dir, req.p)
      BY <2>4, <2>5, <2>6 DEF Fulfils
    <2>8. req.at # "idle" /\ Files \subseteq DOMAIN disk'
      BY <2>1, <2>4 DEF Stages, CliShape
    <2> QED  BY <1>1, <2>2, <2>3, <2>5, <2>7, <2>8, AnswerAdvances
  <1>11. CASE UserEdits
    <2>1. req.at = "idle" /\ req' = req /\ answer' = NoAnswer
      BY <1>11 DEF UserEdits, EditIsOf, Edited
    <2>2. answer'.kind = "none"
      BY <2>1 DEF NoAnswer
    <2> QED  BY <2>1, <2>2 DEF AnswerInv, Stages
  <1>12. CASE UNCHANGED vars
    <2>1. disk' = disk /\ req' = req /\ answer' = answer /\ File' = File
      BY <1>1, <1>12 DEF vars, File
    <2> QED  BY <1>1, <2>1 DEF AnswerInv
  <1> QED  BY <1>4, <1>5, <1>6, <1>8, <1>9, <1>10, <1>11, <1>12, StepsAre DEF StepIsOne

\* AnswerInv is enough for AnswerTruthful.
LEMMA AnswersAre ==
  ASSUME PlainTools, CliShape, AnswerInv
  PROVE  AnswerTruthful
  <1>1. tool # "grok"
    BY DEF PlainTools, CliShape
  <1>2. ASSUME answer.kind = "ok", answer.dir = "apply", NEW f \in Files \ answer.warned, Needed(f, answer.p)
        PROVE  disk[f].kind = "doc" /\ Uses(f, disk[f].doc, answer.p)
    <2>1. Fulfils(disk, f, "apply", answer.p)
      BY <1>2 DEF AnswerInv
    <2>2. /\ f = "hermesEnv" => answer.p.key
          /\ f = "agentModels" => Get(disk["openclaw"].doc, "agents") = "dir"
      BY <1>2 DEF Needed
    <2> QED  BY <2>1, <2>2 DEF Fulfils
  <1>3. ASSUME answer.kind \in {"ok", "nothing"}, answer.dir = "revoke", NEW f \in Files \ answer.warned,
               disk[f].kind = "doc"
        PROVE  ~LeftOver(f, disk[f].doc)
    <2>1. Fulfils(disk, f, "revoke", answer.p)
      BY <1>3 DEF AnswerInv
    <2> QED  BY <1>3, <2>1 DEF Fulfils
  <1> QED  BY <1>1, <1>2, <1>3 DEF AnswerTruthful

\* AnswerTruthful: when mutate_tool answers that it has applied, every file it did not warn
\* of is as the apply wants it; when it answers that it has revoked, nothing of this router's
\* or its older releases' is left in one, but what StaysBehind and LeftWith name.
THEOREM AnswersAreTrue ==
  ASSUME PlainTools, ~UserMayRace
  PROVE  Spec => []AnswerTruthful
  <1> DEFINE IInv == CliShape /\ StageInv /\ DocsInv /\ MergedInv /\ AgentInv /\ AnswerInv
  <1>1. Init => IInv
    BY ShapeInitially, StageInitially, DocsInitially, MergedInitially, AgentInitially, AnswerInitially
  <1>2. IInv /\ [Next]_vars => IInv'
    <2>1. IInv /\ [Next]_vars => AgentInv'
      BY AgentStep
    <2> QED  BY <2>1, ShapeStep, StageStep, DocsStep, MergedStep, AnswerStep
  <1>3. IInv => AnswerTruthful
    BY AnswersAre
  <1> QED  BY <1>1, <1>2, <1>3, PTL DEF Spec
=============================================================================
