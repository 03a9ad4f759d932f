-------------------------- MODULE MCBlockingCounter --------------------------
EXTENDS BlockingCounter
=============================================================================
