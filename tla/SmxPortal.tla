----------------------------- MODULE SmxPortal ------------------------------
(***************************************************************************)
(* What free message portals and tunnel portals have in common: the tasks. *)
(***************************************************************************)
EXTENDS SmxTask

CONSTANTS Clients,
          Svr        \* the server, or portal, task

ASSUME PortalAssumption == /\ IsFiniteSet(Clients)
                           /\ None \notin Clients \union {Svr}
                           /\ Svr \notin Clients
=============================================================================
