----------------------------- MODULE MCInstaller -----------------------------
(* Instances of Installer for TLC: three harnesses, one with two events; one is *)
(* not written for an install path that its settings would expand.              *)
EXTENDS Installer

CONSTANTS claude, codex, gemini, core, tree

MCOrder == <<claude, codex, gemini>>
MCEvents ==
  [h \in {claude, codex, gemini} |-> IF h = claude THEN {"Pre", "Post"} ELSE {"Pre"}]
MCUnfit == {<<gemini, tree>>}

\* Two commands beside one edit or one fault, or one command beside two edits or one of each.
MCBudgets ==
  {[edits |-> 1, commands |-> 2, faults |-> 0], [edits |-> 0, commands |-> 2, faults |-> 1],
   [edits |-> 2, commands |-> 1, faults |-> 0], [edits |-> 1, commands |-> 1, faults |-> 1]}

\* An install that dies, an uninstall, and nobody else.
MCQuiet == {[edits |-> 0, commands |-> 2, faults |-> 1]}
=============================================================================
