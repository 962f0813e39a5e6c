--------------------------- MODULE MCHwmcaCommand ---------------------------
(***************************************************************************)
(* Instances of HwmcaCommand for TLC.                                      *)
(***************************************************************************)
EXTENDS HwmcaCommand, TLC

CONSTANTS a, b,  \* images
          p, q   \* processes

\* rand() of the two-second slots: with the pids below the correlators of p and q
\* are neighbours (6, 8 and 7, 9) and never equal.
MCRand == [t \in Tick |-> 5 + 2 * t]
MCPid == (p :> 1) @@ (q :> 2)

\* p resets two images; q works on the first of them too.
TwoImages == <<[image |-> a, command |-> "reset"], [image |-> b, command |-> "reset"]>>
OneImage == <<[image |-> a, command |-> "activate"]>>
\* q works in a dialog.
Typed == <<[image |-> a, command |-> "send_opsys"], [image |-> a, command |-> "send_opsys"]>>

CommandLinePlan == (p :> TwoImages) @@ (q :> OneImage)
DialogPlan == (p :> OneImage) @@ (q :> Typed)
=============================================================================
