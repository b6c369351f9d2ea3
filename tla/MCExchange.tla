------------------------------ MODULE MCExchange ------------------------------
EXTENDS Exchange
===============================================================================
