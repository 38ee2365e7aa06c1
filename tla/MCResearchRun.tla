---------------------------- MODULE MCResearchRun ----------------------------
EXTENDS ResearchRunProps
=============================================================================
