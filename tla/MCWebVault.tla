---------------------------- MODULE MCWebVault -----------------------------
(* Two secrets, one shared with ann, one with a group ben is in, and a third *)
(* yet to be created.                                                        *)
EXTENDS WebVault, TLC

CONSTANTS s1, s2, s3, ann, ben, crew, h1, h2

MCSharedWith == s1 :> [users |-> {ann}, groups |-> {}] @@ s2 :> [users |-> {}, groups |-> {crew}]
MCJoined == crew :> {ben}
\* For finding_stale_access.cfg: the batch that removes a share is not used.
NoBatchUnshare == \A t \in Slots : ~At(t, "unshare")
=============================================================================
