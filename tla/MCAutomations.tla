---------------------------- MODULE MCAutomations ----------------------------
EXTENDS Automations
CONSTANTS s1, s2
=============================================================================
