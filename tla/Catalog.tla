------------------------------ MODULE Catalog ------------------------------
(***************************************************************************)
(* The models of llm/catalog.py.                                           *)
(***************************************************************************)
EXTENDS Integers

Listed(alias, provider, tier, window, input, output, paid, premium) ==
  [alias |-> alias, provider |-> provider, tier |-> tier, window |-> window,
   input |-> input, output |-> output, capabilities |-> {"chat", "json"},
   paid |-> paid, premium |-> premium]

Free(alias, provider, tier, window) ==
  Listed(alias, provider, tier, window, 0, 0, FALSE, FALSE)
Paid(alias, provider, tier, window, input, output) ==
  Listed(alias, provider, tier, window, input, output, TRUE, FALSE)
Premium(alias, provider, tier, window, input, output) ==
  Listed(alias, provider, tier, window, input, output, TRUE, TRUE)

AarCatalog ==
  << Free("fake-cheap", "fake", "cheap", 32000),
     Free("fake-standard", "fake", "standard", 64000),
     Free("fake-strong", "fake", "strong", 128000),
     Premium("fake-premium", "fake", "strong", 200000, 10000, 50000),
     Free("ollama-llama3.2", "ollama", "cheap", 32000),
     Free("ollama-llama3.1", "ollama", "standard", 32000),
     Paid("gemini-flash-lite", "gemini", "cheap", 1000000, 250, 1500),
     Paid("gemini-flash", "gemini", "standard", 1000000, 750, 3750),
     Premium("gemini-pro", "gemini", "strong", 1000000, 2000, 12000),
     Paid("claude-haiku", "anthropic", "standard", 200000, 1000, 5000),
     Paid("claude-sonnet", "anthropic", "strong", 1000000, 2000, 10000),
     Premium("claude-opus", "anthropic", "strong", 1000000, 5000, 25000),
     Paid("openrouter-llama", "openrouter", "cheap", 32000, 30, 60),
     Paid("openrouter-qwen", "openrouter", "standard", 32000, 100, 200),
     Paid("bedrock-nova-micro", "bedrock", "cheap", 128000, 35, 140),
     Paid("bedrock-nova-lite", "bedrock", "standard", 300000, 60, 240),
     Premium("bedrock-nova-pro", "bedrock", "strong", 300000, 800, 3200) >>

AarAlphabetical ==
  << "bedrock-nova-lite", "bedrock-nova-micro", "bedrock-nova-pro", "claude-haiku",
     "claude-opus", "claude-sonnet", "fake-cheap", "fake-premium", "fake-standard",
     "fake-strong", "gemini-flash", "gemini-flash-lite", "gemini-pro", "ollama-llama3.1",
     "ollama-llama3.2", "openrouter-llama", "openrouter-qwen" >>
=============================================================================
