---------------------------- MODULE MCHostFiles ----------------------------
(* A small instance of HostFiles: a directory with the destination, the     *)
(* stubs and a link to a second directory, which holds one file.            *)
EXTENDS HostFiles, TLC

CONSTANTS root, dir, dest, link, other, inside, r1, r2, r3, s1, s2, s3

MCPaths == {root, dir, dest, link, other, inside, s1, s2, s3}
MCParent ==
  [p \in MCPaths |-> CASE p \in {root, dir, other} -> root
                      [] p = inside -> other
                      [] OTHER -> dir]
MCTarget == link :> other
MCStub == r1 :> s1 @@ r2 :> s2 @@ r3 :> s3
MCMovable == {dest, inside}

\* What TheDestinationIsKept asks of the links (HostProofs).
ASSUME LinksLeadAside == NoWayAround
=============================================================================
