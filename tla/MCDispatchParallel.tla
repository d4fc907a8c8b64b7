------------------------- MODULE MCDispatchParallel -------------------------
(* Two tasks of one provider with room for one, and behind them a task of   *)
(* another provider that names a tool nobody has.                           *)
EXTENDS DispatchParallel

CONSTANTS anthropic, openai

MCTasks == 1 .. 3
MCProviders == {anthropic, openai}
MCProviderOf == [i \in MCTasks |-> IF i = 3 THEN openai ELSE anthropic]
=============================================================================
