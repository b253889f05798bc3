---------------------------- MODULE MCPendingLinks ----------------------------
(* The sentence fits two cards, and in another run perhaps two others. *)
EXTENDS PendingLinks, TLC

CONSTANTS k1, k2, k3

MCJobs == Picks \cup Runs
MCFits == {{k1, k2}, {k2, k3}}
===============================================================================
