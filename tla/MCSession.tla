------------------------------ MODULE MCSession ------------------------------
(* One connection: ENABLE lists of up to two capabilities, SELECTs of up   *)
(* to MaxTokens tokens (a QRESYNC with known UIDs and match data fits, and *)
(* CONDSTORE with a shorter QRESYNC), and SETACL / MYRIGHTS on one         *)
(* identifier whose Store ACL may start empty or hold Modify.              *)
EXTENDS Session

MCCapabilities == {"IMAP4rev2", "IMAP4rev1", "CONDSTORE", "QRESYNC", "UTF8=ACCEPT", "IDLE"}
MCBackendAcls == {{}, {"Modify"}}
MCRightsArgs == {{"Seen"}, {"Write"}, {"CreateMailbox"}}
MCMayArgs == {{"mayRename", "mayDelete"}, {"mayReadItems", "maySetSeen"}, MayFlags}
====
