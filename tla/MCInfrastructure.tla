-------------------------- MODULE MCInfrastructure --------------------------
(***************************************************************************)
(* The object storage and the WebSocket server, which must both make       *)
(* progress.  They share no state: a behaviour follows one of them, the    *)
(* focus, and the other stays in its initial state, where none of its fair *)
(* actions is enabled, so its fairness asks nothing.                       *)
(***************************************************************************)
EXTENDS Storage, Sockets, TLC

CONSTANTS o1, o2

MCUploadPurposes ==
  (o1 :> {"product_media"}) @@ (o2 :> {"product_media", "chat_attachment", "catalog_asset"})

VARIABLE focus

infrastructureVars == <<focus, storageVars, socketVars>>

InfrastructureInit ==
  /\ focus \in {"storage", "sockets"}
  /\ StorageInit /\ SocketsInit

InfrastructureNext ==
  /\ UNCHANGED focus
  /\ \/ focus = "storage" /\ StorageNext /\ UNCHANGED socketVars
     \/ focus = "sockets" /\ SocketsNext /\ UNCHANGED storageVars

InfrastructureSpec ==
  /\ InfrastructureInit /\ [][InfrastructureNext]_infrastructureVars
  /\ StorageFairness /\ SocketsFairness
=============================================================================
