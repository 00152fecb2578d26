----------------------- MODULE MCRateLimitMiddleware -----------------------
\* RateLimitMiddleware for TLC.
EXTENDS RateLimitMiddleware

CONSTANTS k1
============================================================================
