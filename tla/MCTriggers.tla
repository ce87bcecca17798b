----------------------------- MODULE MCTriggers -----------------------------
(* A job launched "always" and dropped "once" an event is signalled, that is *)
(* restarted and killed by requests, and shut down.                          *)
EXTENDS Triggers, TLC

CONSTANTS restart, kill, closer, always, once

MCThreads == {restart, kill, closer, always, once}
MCCallbacks == {always, once}
MCSources == << [role |-> "launch", kind |-> "always"], [role |-> "drop", kind |-> "once"] >>
MCOf == always :> 1 @@ once :> 2
MCOp == restart :> "restart" @@ kill :> "kill" @@ closer :> "stop"
          @@ always :> "launch" @@ once :> "stop"
=============================================================================
