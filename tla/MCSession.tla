----------------------------- MODULE MCSession -----------------------------
(***************************************************************************)
(* A small file for the session model: a zone is deleted, then (after the  *)
(* barrier of the delete phase) a block and a device are created, then a   *)
(* network in the block and an address for the device, whose parents' ids  *)
(* are deferred.  Device ids do not come back on a resume.                 *)
(***************************************************************************)
EXTENDS Session, TLC

FileDeps ==
  ("old" :> {}) @@ ("barrier" :> {"old"})
  @@ ("block" :> {"barrier"}) @@ ("device" :> {"barrier"})
  @@ ("net" :> {"barrier", "block"}) @@ ("address" :> {"barrier", "device"})

FileOps == DOMAIN FileDeps

FileKind ==
  [o \in FileOps |-> CASE o = "old"     -> "delete"
                       [] o = "barrier" -> "noop"
                       [] OTHER         -> "create"]

FileBatch ==
  [o \in FileOps |-> CASE o = "old"     -> 0
                       [] o = "barrier" -> 1
                       [] o \in {"block", "device"} -> 2
                       [] OTHER         -> 3]

FileDeferred ==
  [o \in FileOps |-> CASE o = "net"     -> {"block"}
                       [] o = "address" -> {"device"}
                       [] OTHER         -> {}]

FileTarget == [o \in FileOps |-> o]
=============================================================================
