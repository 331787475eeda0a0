----------------------------- MODULE MCLiveFeed -----------------------------
EXTENDS LiveFeed, Scenarios
=============================================================================
