------------------------ MODULE MCInstructionQueue --------------------------
(***************************************************************************)
(* Instances of InstructionQueue for TLC: the sets its runs share.  A run  *)
(* names the disturbances it explores and how many of them, and hook       *)
(* events, one behaviour may contain.                                      *)
(***************************************************************************)
EXTENDS InstructionQueue

(* A turn as providers with a prompt and a stop hook report it.            *)
MCTurn == {"PromptSubmitted", "TurnEnded"}

(* A turn of a provider that reports activity as well.                     *)
MCActiveTurn == MCTurn \cup {"Activity"}

(* A turn that a quiet terminal may end.                                   *)
MCQuietTurn == MCTurn \cup {"QuietSettle"}

MCAllEvents == AgentEvents

MCAllDisturbances == DisturbanceKinds

MCAllButCrash == DisturbanceKinds \ {"crash"}

=============================================================================
