-------------------------------- MODULE MCCore --------------------------------
(* The two halves of the core crate in one run: the control plane and the  *)
(* event bus.  They share no state (the admin handlers of ControlPlane are *)
(* emitters like any other to EventBus), so interleaving them would only   *)
(* multiply their states: here the half that moves first goes on alone,    *)
(* and the run covers all behaviours of each.                              *)
EXTENDS MCControlPlane, MCEventBus

coreVars == <<vars, busVars>>

ControlIdle == restarts = 0 /\ \A r \in Requests : pc[r] = "new"
BusIdle == seq = 0 /\ \A s \in Subs : stage[s] = "new"

CoreInit == Init /\ BusInit

CoreNext ==
  \/ BusIdle /\ Next /\ UNCHANGED busVars
  \/ ControlIdle /\ BusNext /\ UNCHANGED vars

\* The fairness of FairSpec and of BusFairSpec, over the variables of both.
CoreSpec ==
  /\ CoreInit
  /\ [][CoreNext]_coreVars
  /\ \A r \in Requests : WF_coreVars(BusIdle /\ Handle(r) /\ UNCHANGED busVars)
  /\ \A e \in Emitters : WF_coreVars(ControlIdle /\ Send(e) /\ UNCHANGED vars)
  /\ \A s \in Polled : WF_coreVars(ControlIdle /\ Progress(s) /\ UNCHANGED vars)
=============================================================================
