--------------------------- MODULE AgentExchange ---------------------------
(***************************************************************************)
(* What the driver and the model rely upon while they talk through the     *)
(* bridge: every tool call is executed at most once and in the order the   *)
(* model asked for it, its result is answered once, to the call it belongs *)
(* to and not before it was executed, and the model is asked to go on only *)
(* when all its calls are answered.                                        *)
(***************************************************************************)
EXTENDS Naturals, Sequences

CONSTANT Calls  \* the calls a model can make: <<turn, position>>

VARIABLES
    asked,      \* the calls of the model, in their order
    executed,   \* how many of them the driver has executed
    answered    \* the answers in the conversation, each with the call it is of

vars == <<asked, executed, answered>>

Init == asked = <<>> /\ executed = 0 /\ answered = <<>>

Ask == \E call \in Calls :
    /\ asked # <<>> =>
         \/ call[1] = asked[Len(asked)][1]
         \/ /\ call[1] > asked[Len(asked)][1]
            /\ Len(answered) = Len(asked)
    /\ asked' = Append(asked, call)
    /\ UNCHANGED <<executed, answered>>

Execute ==
    /\ executed < Len(asked)
    /\ executed' = executed + 1
    /\ UNCHANGED <<asked, answered>>

Answer ==
    /\ Len(answered) < executed
    /\ answered' = Append(answered, asked[Len(answered) + 1])
    /\ UNCHANGED <<asked, executed>>

Next == Ask \/ Execute \/ Answer

Spec == Init /\ [][Next]_vars
============================================================================
