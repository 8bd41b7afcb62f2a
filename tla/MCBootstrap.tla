----------------------------- MODULE MCBootstrap -----------------------------
EXTENDS Bootstrap, TLC
CONSTANTS auth, billing
MCPlugins == {auth, billing}
Offer(t, p, h) == [target |-> t, priority |-> p, handler |-> h]
MCDescriptors ==
    {Offer("admin", 50, TRUE), Offer("admin", 55, TRUE),
     Offer("api", 50, TRUE), Offer("global", 50, TRUE),
     Offer("store", 50, TRUE), Offer("admin", 50, FALSE)}
=============================================================================
