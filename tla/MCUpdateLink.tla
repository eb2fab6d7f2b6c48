---------------------------- MODULE MCUpdateLink ----------------------------
(* Four links on two volumes: rootfs and three that jbroot's moves concern. *)
EXTENDS UpdateLink

MCVolumeOf == [l \in Link |-> IF l = "var" THEN 2 ELSE 1]
=============================================================================
