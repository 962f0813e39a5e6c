----------------------------- MODULE MCStonith -----------------------------
(***************************************************************************)
(* Instances of Stonith: one SE and up to two z/VM systems that define the *)
(* same image, in the order the configuration file lists them.             *)
(***************************************************************************)
EXTENDS Stonith, TLC

CONSTANTS se, vm1, vm2

MCOrder == <<vm1, se, vm2>>
MCTwo == <<vm1, se>>
MCSeFirst == <<se, vm1>>
MCOnlyVm == <<vm1>>
MCOnlySe == <<se>>
MCConfigured == [s \in Server |-> IF s = se THEN "LPAR" ELSE "VM"]
=============================================================================
