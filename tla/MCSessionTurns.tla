--------------------------- MODULE MCSessionTurns ---------------------------
(* Sets of operations for the runs of SessionTurns: each keeps the ones    *)
(* whose interleavings its properties are about.                           *)
EXTENDS SessionTurns, TLC

MCTurnOps == {"UserInput", "EmptyUserInput", "QueueUserInput", "Compact", "Review",
              "Interrupt", "Shutdown"}
MCReviewOps == {"QueueUserInput", "Review", "Interrupt"}
MCReconfigureOps == {"UserInput", "QueueUserInput", "ConfigureSession",
                     "AddPendingInputDeveloper", "AgentWake", "Bridge"}
MCLivenessOps == {"QueueUserInput", "Interrupt", "Approve", "AutoCompact"}

\* The smallest set in which an interrupt can stop the wrong turn.
MCInterruptOps == {"UserInput", "Interrupt"}
=============================================================================
