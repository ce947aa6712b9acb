------------------------------- MODULE MCPipe -------------------------------
EXTENDS Pipe

CONSTANTS p1, p2, b1, b2    \* model values for Procs and Bytes
=============================================================================
