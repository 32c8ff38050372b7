----------------------------- MODULE MCLRUCache -----------------------------
EXTENDS LRUCache
=============================================================================
