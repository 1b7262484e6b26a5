--------------------------- MODULE MCModelPolicy ---------------------------
(***************************************************************************)
(* The catalog of the code with deployments in which the choice is between *)
(* free models, between paid ones, between both, or between paid ones of   *)
(* the same cost; runs with no money, with money for one call, and with    *)
(* enough.                                                                 *)
(***************************************************************************)
EXTENDS ModelPolicy, Catalog, TLC

CONSTANTS r1, r2

FreeModels == [providers |-> {"fake", "ollama"}, allowPremium |-> FALSE, maxOutput |-> 1024]
PaidModels == [providers |-> {"gemini", "bedrock"}, allowPremium |-> TRUE,
               maxOutput |-> 1024]
AnyModels == [PaidModels EXCEPT !.providers = @ \cup {"ollama"}]
TiedModels == [providers |-> {"openrouter", "bedrock"}, allowPremium |-> FALSE,
               maxOutput |-> DefaultTokens]

Text == [words |-> 14, hint |-> "both", reasoning |-> TRUE, current |-> FALSE,
         risky |-> FALSE, exact |-> FALSE]

Cut == [Text EXCEPT !.words = 9, !.reasoning = FALSE]

Asked(depth, risk, budget, purposes) ==
  [depth |-> depth, risk |-> risk, budget |-> budget, question |-> Text,
   beginning |-> Cut, purposes |-> purposes]

(* Nothing learned yet, or what a deployment without the cheaper models left. *)
Fresh == [m \in ModelName |-> NoRow]
Good == [pass |-> 1, latency |-> 0, scale |-> 1, samples |-> 1]
Bad == [pass |-> 0, latency |-> 1, scale |-> 1, samples |-> 1]
Learned == [Fresh EXCEPT !["gemini-pro"] = Good, !["ollama-llama3.1"] = Bad]
Rivals == [Fresh EXCEPT !["openrouter-qwen"] = Good, !["bedrock-nova-lite"] = Good]
MCEarlierRows == {Fresh, Learned, Rivals}

(* Two runs that compete for the free models of one tier; a brief and a standard
   request with the same texts, to plan and answer or to write; two runs of strong
   models, which project 4.24 and 14.69 million: enough for the cheaper once, or for
   both; a run whose plan costs and may leave too little for the report, beside one
   of free models; two models of one tier that cost the same when prompt and answer
   are equally long. *)
MCStarts ==
  { [settings |-> FreeModels, table |-> Learned, order |->
       [r \in Run |-> Asked("standard", "low", 0, <<"planning">>)]],
    [settings |-> FreeModels, table |-> Fresh, order |->
       r1 :> Asked("brief", "low", 0, <<"planning", "subquestion">>)
         @@ r2 :> Asked("standard", "low", 0, <<"planning", "subquestion">>)],
    [settings |-> FreeModels, table |-> Fresh, order |->
       r1 :> Asked("brief", "medium", 0, <<"writing">>)
         @@ r2 :> Asked("standard", "high", 0, <<"writing">>)],
    [settings |-> PaidModels, table |-> Learned, order |->
       r1 :> Asked("deep", "high", 5000000, <<"subquestion">>)
         @@ r2 :> Asked("deep", "high", 17000000, <<"writing">>)],
    [settings |-> AnyModels, table |-> Fresh, order |->
       r1 :> Asked("deep", "high", 5000000, <<"planning", "writing">>)
         @@ r2 :> Asked("brief", "low", 1000000, <<"subquestion">>)],
    [settings |-> TiedModels, table |-> Rivals, order |->
       r1 :> Asked("standard", "low", 700000, <<"subquestion">>)
         @@ r2 :> Asked("standard", "low", 700000, <<"writing">>)] }

MCCostPoints == {<<3, 1>>, <<29, 10>>}

MCUsages == {<<0, 0>>, <<9000, 1024>>}
=============================================================================
