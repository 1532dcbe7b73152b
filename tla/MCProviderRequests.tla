------------------------ MODULE MCProviderRequests ------------------------
(***************************************************************************)
(* Two requests of one window, or one of it and the prefetch of the start: *)
(* a pair of operations with each kind of provider.                        *)
(***************************************************************************)
EXTENDS ProviderRequests

CONSTANTS w1, startup, r1, r2

MCSender == {w1, startup}
MCRequest == {r1, r2}
MCWindowOf == [r \in MCRequest |-> w1]
Pair(k, first, second) ==
    [kind |-> k, op |-> [r \in MCRequest |-> IF r = r1 THEN first ELSE second]]
MCPairs ==
    {Pair("openai", "test", "models"), Pair("deepseek", "translation", "translation"),
     Pair("openai", "translation", "prefetch"), Pair("ollama", "translation", "prefetch"),
     Pair("ollama", "test", "prefetch"), Pair("claude", "translation", "prefetch"),
     Pair("claude", "models", "prefetch")}
=============================================================================
