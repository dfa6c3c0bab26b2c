---------------------------- MODULE MCObjectSync ----------------------------
(***************************************************************************)
(* An instance of ObjectSync for TLC: a device with two fragments, a group *)
(* with a group and a device in it, that group and that device, and a      *)
(* device that is added while the objects are read.                        *)
(***************************************************************************)
EXTENDS ObjectSync, TLC

CONSTANTS twin, group, inner, device, late, f1, f2

InitialListing == <<twin, group, inner, device>>

Children == group :> {inner, device} @@ inner :> {}

Measurements == twin :> {f1, f2} @@ device :> {f1} @@ late :> {f2}
                  @@ group :> {} @@ inner :> {}
=============================================================================
