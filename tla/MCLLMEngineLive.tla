-------------------------- MODULE MCLLMEngineLive ---------------------------
EXTENDS LLMEngineLive, MCLLMEngine
=============================================================================
