---------------------------- MODULE MCProviders ----------------------------
EXTENDS Providers
=============================================================================
