--------------------------- MODULE MCStateService ---------------------------
(* Two users, two addresses with a sign-in each at once, and a lockout table *)
(* of one entry; two importers; three accounts in rotation whose priorities  *)
(* tie and do not follow the list order; and two requests that edit records, *)
(* with a legacy file that names a combo twice.                              *)
EXTENDS StateService, TLC

AllImporters == Importers
KiroImporters == {KiroImport}
MCPriority == 1 :> 2 @@ 2 :> 1 @@ 3 :> 2
MCLegacy == <<Row("link", "a", "oauth", FALSE), Row("proxy", "b", "apikey", FALSE),
              Row("proxy", "a", "apikey", TRUE),
              Row("combo", "b", "apikey", FALSE), Row("combo", "b", "apikey", FALSE)>>
Symmetric == Permutations(Logins) \cup Permutations(Peers)
=============================================================================
