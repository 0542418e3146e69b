----------------------------- MODULE MCRecovery -----------------------------
(***************************************************************************)
(* One interface and what is configured on it.  The handlers are those of  *)
(* interfaces.<*> (its Rollback deletes the interface, its Apply asks the  *)
(* snapshot), .description (its Rollback restores) and .mtu (its Rollback  *)
(* restores an old value only, its Apply asks the snapshot).               *)
(***************************************************************************)
EXTENDS Recovery

MCValueOf == [interface |-> {"present"}, description |-> {"a", "b"},
              mtu |-> {"1500", "9000"}]
MCDependsOn == [interface |-> {}, description |-> {"interface"},
                mtu |-> {"interface"}]
MCRollbackOf == [interface |-> "delete", description |-> "restore",
                 mtu |-> "ifOld"]
MCCached == {"interface", "mtu"}

DescriptionPaths == {<<"interface", 1>>, <<"description", 1>>}
DescriptionCached == {"interface"}
DescriptionInitial ==
    (<<"interface", 1>> :> "present") @@ (<<"description", 1>> :> "a")

MTUPaths == {<<"interface", 1>>, <<"mtu", 1>>}
MTUInitial == (<<"interface", 1>> :> "present") @@ (<<"mtu", 1>> :> "1500")
=============================================================================
