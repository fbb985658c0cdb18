------------------------ MODULE MCConversationTurns ------------------------
(* Small instances of ConversationTurns for TLC: the bounds, all numbers,  *)
(* are given by the configurations.                                        *)
EXTENDS ConversationTurns, TLC
=============================================================================
