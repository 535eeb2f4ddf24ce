---------------------------- MODULE MCModuleBase ----------------------------
(* Two modules on one key, the first with a "please wait" text.            *)
EXTENDS ModuleBase

MCKey == [m \in Modules |-> 1]
MCHasMsg == [m \in Modules |-> m = 1]
MCReplies == {<<"SEND">>}
=============================================================================
