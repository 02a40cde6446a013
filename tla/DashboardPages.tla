--------------------------- MODULE DashboardPages ---------------------------
(* The pages of the dashboard (apps/dashboard-leptos/src/routes) as data:   *)
(* which lists a page loads and, for each component that writes, where its  *)
(* signals live, what it needs before it sends, which Save signal holds its *)
(* buttons down, and what its success callback clears, closes and reloads.  *)
(* Layout, wording and the payloads are left out.                           *)

Control(n) ==
    [name |-> n,
     at |-> "page",           \* "page", a list (redrawn with it), "dialog" (kept) or "asked"
     perRow |-> FALSE,        \* one for each row, or opened for one
     save |-> n,              \* the Save signal, which controls of a component may share
     saveOnPage |-> FALSE,    \* the signal lives on the page although the control does not
     flag |-> FALSE,          \* a second signal, set with Save and dropped on success only
     needs |-> "nothing",     \* "text", "confirmation", or "found" by another control
     takesBack |-> FALSE,     \* what was prepared can be discarded
     changes |-> {},          \* lists the write changes on the server
     reloads |-> {},          \* lists reload() fetches
     reloadsAnyway |-> FALSE, \* after any answer, a refusal too
     reads |-> FALSE,         \* a body that cannot be read is no success
     clears |-> FALSE,        \* on success
     clearsFirst |-> FALSE,   \* before the request is sent
     closes |-> FALSE,        \* the dialog or the form, on success
     tells |-> "",            \* where the answer is kept: "here" or "page"
     finds |-> {}]            \* controls its success prepares

Button(n, lists) == [Control(n) EXCEPT !.reloads = lists]
Form(n, l) == [Control(n) EXCEPT !.needs = "text", !.clears = TRUE, !.changes = {l}, !.reloads = {l}]
OnRow(n, l) == [Control(n) EXCEPT !.at = l, !.perRow = TRUE, !.changes = {l}, !.reloads = {l}]
RowForm(n, l) == [OnRow(n, l) EXCEPT !.needs = "text", !.takesBack = TRUE, !.clears = TRUE]
InPanel(n, l) == [Form(n, l) EXCEPT !.at = l]
DialogForm(n, l) == [Form(n, l) EXCEPT !.at = "dialog", !.closes = TRUE]
Asked(n, l) == [Control(n) EXCEPT !.at = "asked", !.perRow = TRUE, !.changes = {l}, !.reloads = {l},
                                  !.closes = TRUE]

-----------------------------------------------------------------------------
(* routes/keys.rs. The secret is shown, and the form cleared, only when the *)
(* answer could be read.                                                    *)
CreateKey == {[Form("create key", "keys") EXCEPT !.reads = TRUE, !.tells = "page"]}
KeyRow == {OnRow("toggle key", "keys")}

(* routes/combos.rs. Saving and deleting a card share its Save.             *)
ComboForm == {Form("create combo", "combos")}
ComboCard == {[RowForm("edit combo", "combos") EXCEPT !.save = "combo card"],
              [OnRow("delete combo", "combos") EXCEPT !.save = "combo card"]}

(* routes/users.rs. The three dialogs are drawn once; two have a target.    *)
\* Mutant: the row is left as it was drawn.
UserRowKept == {[OnRow("change user", "users") EXCEPT !.reloads = {}]}
UserRow == {OnRow("change user", "users")}
CreateUserDialog == {DialogForm("create user", "users")}
PasswordDialog == {[DialogForm("set password", "users") EXCEPT !.perRow = TRUE]}
DeleteUserDialog == {[DialogForm("delete user", "users") EXCEPT !.perRow = TRUE,
                         !.needs = "nothing", !.clears = FALSE]}

(* routes/settings.rs. The toggles are drawn from the settings; their Save  *)
(* is the page's. A migration reloads nothing.                              *)
SettingsForms == {[InPanel("save settings", "settings") EXCEPT !.needs = "nothing",
                     !.saveOnPage = TRUE]}
MigrateCard == {[Control("migrate") EXCEPT !.tells = "here"]}

(* routes/sso.rs. Both forms are drawn from the same settings.              *)
OidcForm == {InPanel("save oidc", "settings"),
             [Control("test oidc") EXCEPT !.at = "settings", !.reads = TRUE, !.tells = "here"]}
SamlForm == {InPanel("save saml", "settings")}

(* routes/providers.rs, one provider's page.                                *)
AddConnection == {Form("add connection", "connections")}
ConnectionRow == {[OnRow("toggle connection", "connections") EXCEPT !.save = "connection"],
                  [OnRow("delete connection", "connections") EXCEPT !.save = "connection"],
                  [OnRow("test connection", "connections") EXCEPT !.changes = {}, !.reloads = {},
                     !.reads = TRUE, !.tells = "here"]}

(* routes/provider_nodes.rs. The creation dialog is kept, the other two are *)
(* drawn anew for the node they were opened for.                            *)
\* Mutant: the dialog is emptied when it is sent.
CreateNodeDialogEmptied == {[DialogForm("create node", "nodes") EXCEPT !.clearsFirst = TRUE]}
CreateNodeDialog == {DialogForm("create node", "nodes")}
EditNodeDialog == {[Asked("edit node", "nodes") EXCEPT !.needs = "text", !.clears = TRUE]}
DeleteNodeDialog == {Asked("delete node", "nodes")}

(* routes/models.rs: five lists, and every write reloads them all.          *)
ModelLists == {"catalogue", "availability", "disabled", "custom", "aliases"}
OfModels(c) == [c EXCEPT !.reloads = ModelLists]
ModelEntry == {[Control("test model") EXCEPT !.at = "catalogue", !.perRow = TRUE,
                  !.reads = TRUE, !.tells = "here"]}
DisabledBody == {OfModels(InPanel("hold back", "disabled"))}
DisabledProvider == {OfModels(OnRow("enable all", "disabled"))}
DisabledId == {OfModels(OnRow("enable one", "disabled"))}
CustomBody == {OfModels(InPanel("add custom", "custom"))}
CustomRow == {OfModels(OnRow("remove custom", "custom"))}
AliasBody == {OfModels(InPanel("set alias", "aliases"))}
AliasRow == {OfModels(OnRow("remove alias", "aliases"))}

(* routes/pricing.rs                                                        *)
AddOverride == {DialogForm("add override", "prices")}
PriceRowView == {[RowForm("edit price", "prices") EXCEPT !.save = "price row"],
                 [OnRow("reset price", "prices") EXCEPT !.save = "price row"]}

(* routes/proxy_pools.rs. Testing a pool sets a flag of its own that only a *)
(* success drops, shows its answer in the card and redraws the card.        *)
CreatePoolDialog == {DialogForm("create pool", "pools")}
PoolCard == {[OnRow("test pool", "pools") EXCEPT !.save = "pool card", !.changes = {},
                !.flag = TRUE, !.tells = "here"],
             [OnRow("toggle pool", "pools") EXCEPT !.save = "pool card"],
             [OnRow("delete pool", "pools") EXCEPT !.save = "pool card",
                !.needs = "confirmation", !.takesBack = TRUE, !.clears = TRUE]}
DeployCard == {[Form("deploy relay", "pools") EXCEPT !.tells = "here"]}

(* routes/headroom.rs and routes/pxpipe.rs over controls.rs Action: every   *)
(* button has a Save of its own, and a refusal reloads nothing.             *)
HeadroomLists == {"status", "extras", "log"}
Action(n, l, lists) == [Button(n, lists) EXCEPT !.changes = {l}, !.tells = "page"]
HeadroomPanel == {Action(n, "status", HeadroomLists) : n \in {"start", "stop", "restart"}}
ExtrasForm == {[Action(n, "extras", HeadroomLists) EXCEPT !.needs = "text"] :
                  n \in {"install extras", "remove extras"}}
PxpipeLists == {"status", "health", "savings", "logs"}
PxpipePanel == {Action(n, "status", PxpipeLists) : n \in {"start", "stop", "restart", "install"}}

(* routes/tunnel.rs run: reloads after any answer. Confirm disarms, and the *)
(* token is wiped, before the request is sent.                              *)
Tunnelled(n, save) == [Control(n) EXCEPT !.at = "status", !.save = save, !.changes = {"status"},
                         !.reloads = {"status"}, !.reloadsAnyway = TRUE, !.tells = "here"]
Confirmed(c) == [c EXCEPT !.needs = "confirmation", !.takesBack = TRUE, !.clearsFirst = TRUE]
CloudflareCard == {Confirmed(Tunnelled("enable quick tunnel", "cloudflare")),
                   Tunnelled("disable tunnel", "cloudflare")}
NamedTunnel == {[Tunnelled("enable named tunnel", "cloudflare") EXCEPT !.needs = "text",
                   !.clearsFirst = TRUE]}
TailscaleCard == {Confirmed(Tunnelled("enable funnel", "tailscale")),
                  Tunnelled("disable funnel", "tailscale")}

(* routes/oauth_import.rs. The automatic panels look for a credential first *)
(* and forget it once it is stored.                                         *)
ImportForm == {[Form("import", "providers") EXCEPT !.reads = TRUE, !.tells = "here"]}
CliProxyForm == {[Form("import cliproxy", "providers") EXCEPT !.reads = TRUE, !.tells = "here"]}
BulkImportForm == {[Form("import in bulk", "providers") EXCEPT !.reads = TRUE, !.tells = "here"]}
Finder(n, import) == [Control(n) EXCEPT !.save = import, !.reads = TRUE, !.tells = "here",
                         !.finds = {import}]
FoundImport(n) == [Form(n, "providers") EXCEPT !.needs = "found", !.reads = TRUE, !.tells = "here"]
CursorAutoPanel == {Finder("look for cursor", "import cursor"), FoundImport("import cursor")}
KiroAutoPanel == {Finder("look for kiro", "import kiro"), FoundImport("import kiro")}

(* routes/cli_tools.rs. The buttons are drawn for the tool that is chosen,  *)
(* which nothing is while the list loads; what was typed stays.             *)
ApplyForm == {[OnRow(n, "tools") EXCEPT !.tells = "page"] : n \in {"apply", "revoke"}}

-----------------------------------------------------------------------------
KeysPage == [lists |-> {"keys"}, controls |-> CreateKey \cup KeyRow]
CombosPage == [lists |-> {"combos"}, controls |-> ComboForm \cup ComboCard]
UsersPage == [lists |-> {"users"},
              controls |-> UserRow \cup CreateUserDialog \cup PasswordDialog \cup DeleteUserDialog]
SettingsPage == [lists |-> {"settings"}, controls |-> SettingsForms \cup MigrateCard]
SsoPage == [lists |-> {"settings"}, controls |-> OidcForm \cup SamlForm]
ProviderPage == [lists |-> {"connections"}, controls |-> AddConnection \cup ConnectionRow]
NodesPage == [lists |-> {"nodes"},
              controls |-> CreateNodeDialog \cup EditNodeDialog \cup DeleteNodeDialog]
ModelsPage == [lists |-> ModelLists,
               controls |-> ModelEntry \cup DisabledBody \cup DisabledProvider \cup DisabledId
                            \cup CustomBody \cup CustomRow \cup AliasBody \cup AliasRow]
PricingPage == [lists |-> {"prices"}, controls |-> AddOverride \cup PriceRowView]
PoolsPage == [lists |-> {"pools"}, controls |-> CreatePoolDialog \cup PoolCard \cup DeployCard]
HeadroomPage == [lists |-> HeadroomLists, controls |-> HeadroomPanel \cup ExtrasForm]
PxpipePage == [lists |-> PxpipeLists, controls |-> PxpipePanel]
TunnelPage == [lists |-> {"status"},
               controls |-> CloudflareCard \cup NamedTunnel \cup TailscaleCard]
ImportPage == [lists |-> {"providers"},
               controls |-> ImportForm \cup CliProxyForm \cup BulkImportForm \cup CursorAutoPanel
                            \cup KiroAutoPanel]
ToolsPage == [lists |-> {"tools"}, controls |-> ApplyForm]

(* Pages that only read lists: routes/overview.rs, catalog.rs, providers.rs,*)
(* the recorded half of usage.rs, and the catalogue of routes/chat.rs.      *)
OverviewPage == [lists |-> {"version", "settings", "state", "models", "usage", "auth"},
                 controls |-> {}]
CatalogPage == [lists |-> {"routes", "providers"}, controls |-> {}]
ProvidersPage == [lists |-> {"connections"}, controls |-> {}]
UsagePage == [lists |-> {"stats"}, controls |-> {}]
ConversationPage == [lists |-> {"catalogue"}, controls |-> {}]

Pages == [keys |-> KeysPage, combos |-> CombosPage, users |-> UsersPage, settings |-> SettingsPage,
          sso |-> SsoPage, provider |-> ProviderPage, nodes |-> NodesPage, models |-> ModelsPage,
          pricing |-> PricingPage, pools |-> PoolsPage, headroom |-> HeadroomPage,
          pxpipe |-> PxpipePage, tunnel |-> TunnelPage, import |-> ImportPage, tools |-> ToolsPage,
          overview |-> OverviewPage, catalog |-> CatalogPage, providers |-> ProvidersPage,
          usage |-> UsagePage, chat |-> ConversationPage]
=============================================================================
