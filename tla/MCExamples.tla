------------------------------ MODULE MCExamples ------------------------------
EXTENDS Examples

\* Each block touches one line; the main task's last block (7) touches
\* line 1 after its "starts".
MCExampleAccess == {<<b, 1>> : b \in 0 .. 7}
=============================================================================
