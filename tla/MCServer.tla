------------------------------ MODULE MCServer ------------------------------
(* A configuration that is complete, and one that lacks the mail account.  *)
(* (The modules of the two log watchers have those without a log.)         *)
EXTENDS Server

MCModules == {"alarm", "pro", "log", "sys"}
MCOrder == <<"alarm", "pro", "log", "sys">>
MCConfs == {MCModules, MCModules \ {"alarm"}}
=============================================================================
