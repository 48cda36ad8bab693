------------------------------- MODULE MCFeed -------------------------------
\* Instances of Feed for TLC, over the hierarchies of MCPurchase.
EXTENDS MCPurchase, Feed
=============================================================================
