---------------------------- MODULE MCPreflight ----------------------------
EXTENDS Preflight

CONSTANTS top, dep, r1, earlier

\* What a stage may report: nothing, a prompt, a block.
MCFindings == {{}, {"prompt"}, {"block"}}
MCAdvisories == {{}, {"other"}, {"critical"}}
\* Both sides of the maturity window.
MCAges == {6, 7}
=============================================================================
