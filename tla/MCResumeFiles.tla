---------------------------- MODULE MCResumeFiles ----------------------------
EXTENDS ResumeFiles

CONSTANTS s1, s2, sweeper

MCResumes == 1..2
MCParsed == {1}
MCSessions == {s1, s2, sweeper}
=============================================================================
