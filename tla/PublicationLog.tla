--------------------------- MODULE PublicationLog ---------------------------
(***************************************************************************)
(* What a provider's serving/manifest.json promises its readers: a         *)
(* revision that grows by one with every change, and version records that  *)
(* are added once, never edited, and at most once marked withdrawn.        *)
(* Every write is one atomic step here; PeerPublication shows that the     *)
(* lock file, the re-read under the lock and the rename amount to that.    *)
(***************************************************************************)
EXTENDS Naturals

CONSTANTS Keys,        \* product/version pairs a provider may publish
          Candidates,  \* inventories a version can be published with
          Reasons,     \* withdrawal reasons
          NoReason,    \* withdrawal_reason: None
          NoRecord     \* no record of this version in the manifest

VARIABLES revision,    \* manifest.revision; 0 while there is no manifest
          recs         \* version records by product/version

logVars == <<revision, recs>>

Record == [cand: Candidates, life: {"active", "withdrawn"},
           reason: Reasons \cup {NoReason}]

Published(c) == [cand |-> c, life |-> "active", reason |-> NoReason]

Withdrawn(r, why) == [cand |-> r.cand, life |-> "withdrawn", reason |-> why]

LogInit ==
    /\ revision = 0
    /\ recs = [k \in Keys |-> NoRecord]

PublishVersion(k, c) ==
    /\ recs[k] = NoRecord
    /\ revision' = revision + 1
    /\ recs' = [recs EXCEPT ![k] = Published(c)]

WithdrawVersion(k, why) ==
    /\ recs[k] # NoRecord
    /\ recs[k].life = "active"
    /\ revision' = revision + 1
    /\ recs' = [recs EXCEPT ![k] = Withdrawn(@, why)]

LogNext ==
    \/ \E k \in Keys, c \in Candidates : PublishVersion(k, c)
    \/ \E k \in Keys, why \in Reasons : WithdrawVersion(k, why)

LogSpec == LogInit /\ [][LogNext]_logVars
=============================================================================
