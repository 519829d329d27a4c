---------------------------- MODULE MCModelLoop ----------------------------
(* Two providers, the second of them Gemini; a model that may ask for a     *)
(* read tool, for the order tool it was never shown, or propose.            *)
EXTENDS ModelLoop

MCChain == <<"groq", "gemini">>
MCKeys == {{"groq", "gemini"}, {"gemini"}, {}}
MCGeminiKey == {{"gemini"}}
MCReads == {"get_option_chain", "get_orders"}
MCWrites == {"place_option_order"}
MCServer == MCReads \cup MCWrites
MCInvented == MCWrites

\* The list as it is, and one that an order tool has slipped into.
MCAllowlist == [read |-> MCReads, model |-> {"get_option_chain"}, write |-> MCWrites]
MCAllowlists == {MCAllowlist, [MCAllowlist EXCEPT !.read = @ \cup MCWrites]}

Failure(status, limited, said) == [status |-> status, limited |-> limited, said |-> said]

Silent == <<-1, -1, -1>>

MCFailures ==
    { Failure(429, TRUE, <<-1, 30, 20>>), Failure(413, TRUE, <<-1, -1, 90>>),
      Failure(413, FALSE, Silent), Failure(503, FALSE, <<0, -1, -1>>),
      Failure(0, FALSE, Silent) }
=============================================================================
