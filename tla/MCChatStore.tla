----------------------------- MODULE MCChatStore -----------------------------
(***************************************************************************)
(* Instances of ChatStore for TLC.  The processes of one kind are          *)
(* interchangeable.                                                       *)
(***************************************************************************)
EXTENDS ChatStore, TLC

Symmetry ==
  Permutations(BotProcs) \cup Permutations(LiveProcs)

=============================================================================
