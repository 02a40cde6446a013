---------------------------- MODULE StateService ----------------------------
(***************************************************************************)
(* The accounts, the connections, the rotation and the records of one      *)
(* state-actix.                                                            *)
(*                                                                         *)
(* All live in the one snapshot and under its one lock, and every route of *)
(* any is a sequence of critical sections that touch its own fields alone: *)
(* a step of one part leaves the variables of the others as they are.      *)
(* What one of them does can then not depend on what another did, so a     *)
(* behaviour here is of one part, from the common start, and the state     *)
(* spaces are added instead of multiplied.                                 *)
(***************************************************************************)
EXTENDS Accounts, CredentialImport, RoundRobin, Records

StateInit == AccountsInit /\ ImportInit /\ RotationInit /\ RecordsInit

AccountsTurn ==
    /\ calls = 0 /\ picks = 0 /\ edits = 0
    /\ AccountsNext /\ UNCHANGED <<importVars, rotationVars, recordVars>>
ImportTurn ==
    /\ requests = 0 /\ now = 1 /\ picks = 0 /\ edits = 0
    /\ ImportNext /\ UNCHANGED <<accountsVars, rotationVars, recordVars>>
RotationTurn ==
    /\ requests = 0 /\ now = 1 /\ calls = 0 /\ edits = 0
    /\ RotationNext /\ UNCHANGED <<accountsVars, importVars, recordVars>>
RecordsTurn ==
    /\ requests = 0 /\ now = 1 /\ calls = 0 /\ picks = 0
    /\ RecordsNext /\ UNCHANGED <<accountsVars, importVars, rotationVars>>

StateNext == AccountsTurn \/ ImportTurn \/ RotationTurn \/ RecordsTurn
serviceVars == <<accountsVars, importVars, rotationVars, recordVars>>
StateSpec == StateInit /\ [][StateNext]_serviceVars
-----------------------------------------------------------------------------
\* The variables of every part have their types.
StateTypeOK == AccountsTypeOK /\ ImportTypeOK /\ RotationTypeOK /\ RecordsTypeOK
=============================================================================
