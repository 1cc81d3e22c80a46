--------------------------- MODULE MCRedisClient ----------------------------
EXTENDS RedisClient, TLC

CONSTANTS k1, k2
=============================================================================
