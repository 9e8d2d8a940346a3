---------------------------- MODULE MCPipeline ----------------------------
(***************************************************************************)
(* Small instances of SalesPipeline: three text messages, two of them from *)
(* one customer and one of these asking for a human, a voice message, and  *)
(* the payloads a request can carry them in.                               *)
(***************************************************************************)
EXTENDS PipelineInvariant, TLC

CONSTANTS hello, human, other, voice, alice, bob

Messages == {hello, human, other, voice}
Customers == {alice, bob}
SenderOf == [m \in Messages |-> IF m = other THEN bob ELSE alice]
KindOf == [m \in Messages |-> IF m = voice THEN "audio" ELSE "text"]
HumanWanted == {human}

Plain(messages) == [messages |-> messages, contacts |-> FALSE]

(* Requests of one message of two customers.                               *)
Singles == {Plain(<<hello>>), Plain(<<human>>), Plain(<<other>>)}
(* Two requests of one customer.                                            *)
Pair == {Plain(<<hello>>), Plain(<<human>>)}
(* Requests of two messages of two customers, and one that is refused.     *)
Mixed == {Plain(<<hello, other>>), Plain(<<human>>), Plain(<<voice>>)}

(* Requests are only compared for equality, and nothing orders them.       *)
RequestSymmetry == Permutations(Request)

AllBroken == CallSite
AllServices == Service
=============================================================================
