--------------------------- MODULE CheckpointStore ---------------------------
(***************************************************************************)
(* What the extent manager promises its callers about checkpoints: they are *)
(* numbered, a started process serves the last one that was published, a    *)
(* checkpoint is published in one step while its predecessor is in charge,  *)
(* and it is acknowledged (write_header returns) only once published.  The  *)
(* process may go away at any time and that changes nothing.               *)
(***************************************************************************)
EXTENDS Naturals

VARIABLES
    committed,   \* the checkpoint a process that starts now will serve
    serving      \* the checkpoint last acknowledged to the process, or Down

vars == <<committed, serving>>

Down == 0        \* checkpoint numbers start at 1, the empty database

Init == committed = 1 /\ serving = Down

Start == serving = Down /\ serving' = committed /\ UNCHANGED committed

Publish ==
    /\ serving = committed
    /\ committed' = committed + 1
    /\ UNCHANGED serving

Acknowledge ==
    /\ committed = serving + 1
    /\ serving' = committed
    /\ UNCHANGED committed

(* Publishing and acknowledging may fall into one step.                    *)
PublishAndAcknowledge ==
    /\ serving = committed
    /\ committed' = committed + 1
    /\ serving' = committed + 1

Stop == serving # Down /\ serving' = Down /\ UNCHANGED committed

Next == Start \/ Publish \/ Acknowledge \/ PublishAndAcknowledge \/ Stop

Spec == Init /\ [][Next]_vars
=============================================================================
