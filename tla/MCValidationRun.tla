--------------------------- MODULE MCValidationRun ---------------------------
EXTENDS ValidationRun

CONSTANT LastRun

MCRuns == 1 .. LastRun
MCJobs == MCRuns \cup {EmptyTrash}
===============================================================================
