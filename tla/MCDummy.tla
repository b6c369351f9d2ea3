-------------------------------- MODULE MCDummy --------------------------------
EXTENDS DummyExchange
===============================================================================
