-------------------------- MODULE MCReleaseHistory --------------------------
(***************************************************************************)
(* The trees and readmes of MCRelease, released with a history.            *)
(***************************************************************************)
EXTENDS MCRelease, ReleaseHistory

\* What no action and no property of this run will read any more is left out of
\* the state: what has passed which gate, what origin/master once was, a version
\* once its release is over, and a local image that is built anew before its use.
Seen ==
    LET at(r, steps, x) == IF step[r] \in steps THEN x ELSE None
    IN  <<work, head, origin, step, registry, latest, ever, sure,
          [r \in Releasers |-> at(r, Steps \ {"idle", "push latest", "verify"}, <<version[r]>>)],
          [r \in Releasers |-> at(r, {"smoke", "push latest"}, <<image[r]>>)]>>
=============================================================================
