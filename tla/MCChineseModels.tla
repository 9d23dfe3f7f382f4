---------------------------- MODULE MCChineseModels ----------------------------
(* A member account that nobody but this panel touches, and its refreshes. *)
EXTENDS ChineseModels

MCSpec == ModelsInit /\ [][ModelsNext]_modelsVars /\ ModelsFairness
=============================================================================
