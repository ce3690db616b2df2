------------------------------ MODULE OrderIds ------------------------------
(***************************************************************************)
(* The client order ids that name an order on both sides of the wire: in   *)
(* the run's journal and on the exchange (`Cloid`, src/src/types.rs).      *)
(***************************************************************************)
EXTENDS FiniteSets

CONSTANTS
    Cloids,  \* the ids Cloid::new may draw
    NoCloid  \* None

ASSUME CloidsFinite == IsFiniteSet(Cloids)  \* 128 bits
ASSUME NoCloidFresh == NoCloid \notin Cloids
=============================================================================
