------------------------------- MODULE MCCurve -------------------------------
EXTENDS CurveExperiment
===============================================================================
