----------------------- MODULE MCConfigReconciliation -----------------------
(***************************************************************************)
(* Small instances of ConfigReconciliation.  Of the fingerprints, 2 stamps *)
(* the bodies that fail; the device configurations 1 and 2 list every      *)
(* function, 3 lists none.  Of two functions, f gets the faulty bodies.    *)
(***************************************************************************)
EXTENDS ConfigReconciliation

MCFingerprints == {1, 2, 3}
MCFunctionsOf == [f \in MCFingerprints |-> IF f = 3 THEN {} ELSE FunctionNames]
MCFaulty == Names \X {2}
\* A device that is new, and one that an older firmware has put on a network.
MCFresh == NoContents
MCMigrated == [n \in Names |-> IF n = NETWORK THEN 1 ELSE NoFingerprint]

LeavesOut(update, names) == \A n \in names : update[n] = NoFingerprint

MCUpdates ==
  {u \in Contents : u[DEVICE] # 3 /\ \A f \in FunctionNames \ {"f"} : u[f] # 3}
\* Two functions, f and g.  A network comes alone, and so do a device configuration
\* that fails or lists no function, and f's second good body.
MCUpdatesApart ==
  {u \in Contents :
     /\ u["g"] \in {0, 1}
     /\ u["f"] = 3 => LeavesOut(u, {DEVICE, "g"})
     /\ u[DEVICE] = 1 => u["g"] = 1
     /\ u[DEVICE] \in {2, 3} => LeavesOut(u, FunctionNames)
     /\ NETWORK \in Names =>
          \/ u[NETWORK] = 0
          \/ u[NETWORK] # 3 /\ LeavesOut(u, Names \ {NETWORK})}
\* For two handlers at once.
MCUpdatesGood ==
  {u \in Contents : u[DEVICE] \in {0, 1} /\ \A f \in FunctionNames : u[f] # 2}
=============================================================================
