----------------------------- MODULE MCJobStore -----------------------------
(* Instances of JobStore for TLC *)
EXTENDS JobStore

\* A song and its remix for one model, and a bulk chat job.  The remix and the
\* bulk job are of the batch class, of which one may wait; the song and the
\* bulk job are of one principal, who may hold one job.
MCJobs == {"song", "remix", "bulk"}
MCTenantOf == [j \in Jobs |-> "studio"]
MCPrincipalOf == [j \in Jobs |-> IF j = "remix" THEN "p2" ELSE "p1"]
MCAliasOf == [j \in Jobs |-> IF j = "bulk" THEN "chat" ELSE "music"]
MCLocality == [a \in {"music", "chat"} |-> IF a = "music" THEN "cold" ELSE "warm"]
MCTenantCap == [t \in {"studio"} |-> 2]
MCPrincipalCap == [t \in {"studio"} |-> 1]

Scene(come, cancel, patience, outage, stop) ==
  [come |-> come, cancel |-> cancel, patience |-> patience, outage |-> outage, stop |-> stop]

\* Cancellations, deadlines and outages; a stop; all of it to one job; the
\* queue's and the caller's bounds.
MCScenes == {
  Scene({"song", "remix"}, {"song"}, {"remix"}, {}, FALSE),
  Scene({"song", "remix"}, {}, {}, {}, TRUE),
  Scene({"song"}, {"song"}, {"song"}, {"song"}, TRUE),
  Scene({"remix", "bulk"}, {}, {"bulk"}, {}, FALSE),
  Scene({"song", "bulk"}, {"bulk"}, {}, {}, FALSE)}

MCOneCancel == {Scene({"song"}, {"song"}, {}, {}, FALSE)}
=============================================================================
