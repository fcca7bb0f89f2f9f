----------------------------- MODULE MCUsageMeter -----------------------------
EXTENDS UsageMeter

\* Two calls of one agent in one session, and one call of another session.
MCSessionOf == <<"S1", "S1", "S2">>
MCAgentOf == <<"visa", "visa", "reviews">>
MCLayers == <<"visa", "reviews">>
=============================================================================
