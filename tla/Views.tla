------------------------------- MODULE Views --------------------------------
(***************************************************************************)
(* What the wrappers of vroot_rootfs.c say of an object: jbroot:/rootfs,   *)
(* a link to the real root, is to look like a directory, and jbroot under  *)
(* its real name like a link to "/".                                       *)
(*                                                                         *)
(* An object is something under a name in a directory.  Each wrapper       *)
(* decides for itself by what it has: readdir by the name and where the    *)
(* name leads, the stats by the identity of what the kernel shows.         *)
(***************************************************************************)
Object == [
    type : {"lnk", "dir", "reg"},               \* what it is
    name : {"rootfs", ".jbroot-", "dot", "other"},  \* ".jbroot-": is_jbroot_name()
    parent : {"jbroot", "other"},               \* the directory it is in
    leads : {"root", "jbroot", "dir", "reg", "none"}]  \* what it is when followed

(* lstat of jbroot:/rootfs gives this object.                              *)
IsRootfs(o) == o.type = "lnk" /\ o.name = "rootfs" /\ o.parent = "jbroot"

IsJbroot(o) == o.type = "dir" /\ o.leads = "jbroot"

(* readdir: the second question is asked of the answer of the first.       *)
ReaddirKind(o) ==
    LET kind == IF IsRootfs(o) THEN "dir" ELSE o.type
    IN  IF kind = "dir" /\ o.leads = "jbroot" THEN "lnk" ELSE kind

(* Seeded bug: rootfs is told by its name.                                 *)
LstatByName(o) ==
    IF o.type = "lnk" /\ o.name = "rootfs" THEN "dir"
    ELSE IF IsJbroot(o) /\ o.name = ".jbroot-" THEN "lnk"
    ELSE o.type

(* lstat, lstatx_np, and fstatat with AT_SYMLINK_NOFOLLOW.                 *)
LstatKind(o) ==
    IF IsRootfs(o) THEN "dir"
    ELSE IF IsJbroot(o) /\ o.name = ".jbroot-" THEN "lnk"
    ELSE o.type

(* fstatat that follows sees a link only when it leads nowhere, and fails. *)
FstatatKind(o) ==
    IF o.leads = "jbroot" /\ o.name = ".jbroot-" THEN "lnk"
    ELSE IF o.leads = "none" THEN "fails"
    ELSE IF o.leads = "reg" THEN "reg"
    ELSE "dir"

(* readlinkat: the link, "/" for jbroot, or EINVAL.                        *)
Readlink(o) ==
    IF IsRootfs(o) THEN "EINVAL"
    ELSE IF IsJbroot(o) /\ o.name = ".jbroot-" THEN "/"
    ELSE IF o.type = "lnk" THEN "link"
    ELSE "EINVAL"

(* open with O_DIRECTORY and O_NOFOLLOW: tried again for rootfs without.   *)
OpensDirectory(o) == o.type = "dir" \/ IsRootfs(o)

(***************************************************************************)
(* A program that walks a tree reads a directory, asks lstat about each    *)
(* name, and reads it as a link or opens it as a directory: the answers    *)
(* must fit.  readdir alone calls jbroot a link also as "." and "..".      *)
(***************************************************************************)
Agrees(o) ==
    /\ o.name # "dot" => ReaddirKind(o) = LstatKind(o)
    /\ LstatKind(o) = "lnk" <=> Readlink(o) # "EINVAL"
    /\ LstatKind(o) = "dir" => OpensDirectory(o) /\ FstatatKind(o) = "dir"
=============================================================================
