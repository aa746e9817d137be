------------------------ MODULE MCRateLimitedClient ------------------------
EXTENDS RateLimitedClient
=============================================================================
